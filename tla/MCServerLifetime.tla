--------------------------- MODULE MCServerLifetime ---------------------------
(* One server beside the records of killed ones, and two doctor runs. *)
EXTENDS ServerLifetime
=============================================================================
