-------------------------- MODULE MCProjectMailbox --------------------------
(* ProjectMailbox on two callers and a mailbox of one message: one call in *)
(* the actor's hand, one queued, and a second call of the first caller     *)
(* that finds the mailbox full.                                            *)
EXTENDS ProjectMailbox
=============================================================================
