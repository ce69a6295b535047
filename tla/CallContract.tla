---------------------------- MODULE CallContract ----------------------------
(***************************************************************************)
(* What one resident Lean project promises to the tool calls made on it,   *)
(* with no mailbox, no actor thread and no worker: a call is answered once *)
(* or abandoned by its caller, a call made on a project that is already    *)
(* down is only ever refused, and a project that is still up refuses a     *)
(* call for one reason only, a full mailbox.                               *)
(***************************************************************************)
CONSTANTS
  Callers,     \* the tool calls that may be in flight on the project
  JobResults,  \* answers that come from running the job
  Refusals,    \* answers given without running it
  FullMailbox  \* the one refusal a healthy project may give

VARIABLES
  down,    \* the project was shut down, or its restart breaker tripped
  call,    \* call[c]: "idle", "live", "late" (made on a down project) or "abandoned"
  answer   \* answer[c]: the last answer the caller received

vars == <<down, call, answer>>

Answers == JobResults \cup Refusals
Outstanding == {"live", "late"}

TypeOK ==
  /\ down \in BOOLEAN
  /\ call \in [Callers -> {"idle", "live", "late", "abandoned"}]
  /\ answer \in [Callers -> Answers \cup {"none"}]

Init ==
  /\ down = FALSE
  /\ call = [c \in Callers |-> "idle"]
  /\ answer = [c \in Callers |-> "none"]

Submit(c) ==
  /\ call[c] = "idle"
  /\ call' = [call EXCEPT ![c] = IF down THEN "late" ELSE "live"]
  /\ UNCHANGED <<down, answer>>

\* Discovering that the mailbox is gone may itself take the project down.
Answer(c) ==
  /\ call[c] \in Outstanding
  /\ down' \in {down, TRUE}
  /\ \E r \in IF call[c] = "live" THEN Answers ELSE Refusals :
       /\ r \in Refusals \ {FullMailbox} => down'
       /\ answer' = [answer EXCEPT ![c] = r]
  /\ call' = [call EXCEPT ![c] = "idle"]

Abandon(c) ==
  /\ call[c] \in Outstanding
  /\ call' = [call EXCEPT ![c] = "abandoned"]
  /\ UNCHANGED <<down, answer>>

GoDown ==
  /\ down' = TRUE
  /\ UNCHANGED <<call, answer>>

Next == GoDown \/ \E c \in Callers : Submit(c) \/ Answer(c) \/ Abandon(c)

SafeSpec == Init /\ [][Next]_vars
Spec == SafeSpec /\ \A c \in Callers : WF_vars(Answer(c) \/ Abandon(c))
=============================================================================
