--------------------------- MODULE ProjectMailbox ---------------------------
(***************************************************************************)
(* One LeanProject seen from its callers: the async half (job_meta,        *)
(* enqueue, shutdown) racing the dedicated actor thread (actor_main) over  *)
(* a bounded channel, one reply channel per call, the `healthy` flag and   *)
(* the `active_jobs` counter the broker reads before it evicts a project.  *)
(*                                                                         *)
(* What a job does with the worker child is ProjectActor's subject; here   *)
(* a job takes a while and returns any of the results run_job can return.  *)
(***************************************************************************)
EXTENDS Naturals, Sequences, FiniteSets

CONSTANTS
  Callers,          \* tool calls that use this project
  MailboxCapacity,  \* ProjectRuntimeConfig::mailbox_capacity
  NoCaller          \* "no job in hand"

ASSUME MailboxConstants ==
  /\ MailboxCapacity \in Nat \ {0}
  /\ NoCaller \notin Callers
  /\ IsFiniteSet(Callers)

VARIABLES
  healthy,      \* LeanProject::healthy
  actor_tx,     \* LeanProject::actor_tx still holds its Sender
  active_jobs,  \* LeanProject::active_jobs
  mailbox,      \* the channel, oldest message first
  actor,        \* where the actor thread is
  current,      \* the caller whose message the actor has in hand
  verdict,      \* what run_job returned for it
  pc,           \* where each caller is in job_meta / enqueue
  reply,        \* the content of each caller's oneshot channel
  answer,       \* the last answer each caller got (history)
  late          \* the caller's call began on a project already down (history)

projectVars == <<healthy, actor_tx, active_jobs>>
actorVars == <<mailbox, actor, current, verdict>>
callerVars == <<pc, reply, answer, late>>
vars == <<projectVars, actorVars, callerVars>>

\* What run_job or run_semantic_job can hand back: a value, a worker that could
\* not produce one, the tripped restart breaker, or a mapped worker error.
JobResults == {"value", "unavailable", "restart_limit_exceeded", "error"}
\* Everything a call can be told without its job having run to completion.
Refusals == {"actor_stopped", "mailbox_full", "mailbox_closed",
             "mailbox_closed_before_reply", "project_shutting_down"}
Replies == JobResults \cup {"project_shutting_down", "sender_dropped"}

\* Callers that hold a clone of the channel's Sender: enqueue keeps its clone
\* alive until the reply has been awaited.
SenderClonesKeptByAbandoned == {c \in Callers : pc[c] \in {"cloned", "waiting", "abandoned"}}
SenderClones == {c \in Callers : pc[c] \in {"cloned", "waiting"}}
Queued(c) == \E i \in 1..Len(mailbox) : mailbox[i] = c

TypeOK ==
  /\ healthy \in BOOLEAN
  /\ actor_tx \in BOOLEAN
  /\ active_jobs \in Nat
  /\ mailbox \in Seq(Callers)
  /\ Len(mailbox) <= MailboxCapacity
  /\ actor \in {"receiving", "working", "replying", "unwinding", "gone"}
  /\ current \in Callers \cup {NoCaller}
  /\ verdict \in JobResults \cup {"none"}
  /\ pc \in [Callers -> {"idle", "admitted", "cloned", "waiting", "abandoned"}]
  /\ reply \in [Callers -> Replies \cup {"none"}]
  /\ answer \in [Callers -> JobResults \cup Refusals \cup {"none"}]
  /\ late \in [Callers -> BOOLEAN]

Init ==
  /\ healthy = TRUE
  /\ actor_tx = TRUE
  /\ active_jobs = 0
  /\ mailbox = <<>>
  /\ actor = "receiving"
  /\ current = NoCaller
  /\ verdict = "none"
  /\ pc = [c \in Callers |-> "idle"]
  /\ reply = [c \in Callers |-> "none"]
  /\ answer = [c \in Callers |-> "none"]
  /\ late = [c \in Callers |-> FALSE]

-----------------------------------------------------------------------------
(* LeanProject::shutdown, as called by enqueue, the broker and Drop. *)
StopProject == healthy' = FALSE /\ actor_tx' = FALSE

(* ActiveJobGuard::drop, wherever a JobMeta dies. *)
ReleaseGuardOfRunJobOnly ==
  active_jobs' = IF actor = "working" THEN active_jobs - 1 ELSE active_jobs
ReleaseGuard == active_jobs' = active_jobs - 1

(* A message dies with its reply Sender still in it: the receiver learns. *)
LeaveReplyOpen(c) == UNCHANGED reply
CloseReply(c) == reply' = [reply EXCEPT ![c] = "sender_dropped"]

(* try_send's verdict on a live channel. *)
MailboxHasRoomForOneMore == Len(mailbox) <= MailboxCapacity
MailboxHasRoom == Len(mailbox) < MailboxCapacity

(* actor_main's test before it runs a message. *)
RunsWhateverItReceives == TRUE
RunsWhatItReceives == healthy

(* The caller's future ends with answer r; its channels are dropped. *)
Return(c, r) ==
  /\ pc' = [pc EXCEPT ![c] = "idle"]
  /\ answer' = [answer EXCEPT ![c] = r]
  /\ reply' = [reply EXCEPT ![c] = "none"]
  /\ UNCHANGED late

JobMetaUncounted(c) ==
  /\ pc[c] = "idle"
  /\ pc' = [pc EXCEPT ![c] = "admitted"]
  /\ late' = [late EXCEPT ![c] = ~healthy]
  /\ UNCHANGED <<projectVars, actorVars, reply, answer>>

(* job_meta: the call is counted before the mailbox is even looked at. *)
JobMeta(c) ==
  /\ pc[c] = "idle"
  /\ pc' = [pc EXCEPT ![c] = "admitted"]
  /\ late' = [late EXCEPT ![c] = ~healthy]
  /\ active_jobs' = active_jobs + 1
  /\ UNCHANGED <<healthy, actor_tx, actorVars, reply, answer>>

(* enqueue: clone the Sender under the lock, or learn the project stopped;  *)
(* on the error path the message and with it the ActiveJobGuard are dropped. *)
CloneSender(c) ==
  /\ pc[c] = "admitted"
  /\ IF actor_tx
     THEN /\ pc' = [pc EXCEPT ![c] = "cloned"]
          /\ UNCHANGED <<active_jobs, reply, answer, late>>
     ELSE /\ ReleaseGuard
          /\ Return(c, "actor_stopped")
  /\ UNCHANGED <<healthy, actor_tx, actorVars>>

(* enqueue: try_send never waits. *)
SendAccepted(c) ==
  /\ pc[c] = "cloned"
  /\ actor \notin {"unwinding", "gone"}
  /\ MailboxHasRoom
  /\ mailbox' = Append(mailbox, c)
  /\ pc' = [pc EXCEPT ![c] = "waiting"]
  /\ UNCHANGED <<projectVars, actor, current, verdict, reply, answer, late>>

SendFull(c) ==
  /\ pc[c] = "cloned"
  /\ actor \notin {"unwinding", "gone"}
  /\ ~MailboxHasRoom
  /\ ReleaseGuard
  /\ Return(c, "mailbox_full")
  /\ UNCHANGED <<healthy, actor_tx, actorVars>>

SendClosed(c) ==
  /\ pc[c] = "cloned"
  /\ actor \in {"unwinding", "gone"}
  /\ StopProject
  /\ ReleaseGuard
  /\ Return(c, "mailbox_closed")
  /\ UNCHANGED actorVars

(* enqueue: the awaited reply arrives, or its Sender was dropped. *)
ReceiveReply(c) ==
  /\ pc[c] = "waiting"
  /\ reply[c] # "none"
  /\ IF reply[c] = "sender_dropped"
     THEN StopProject /\ Return(c, "mailbox_closed_before_reply")
     ELSE UNCHANGED <<healthy, actor_tx>> /\ Return(c, reply[c])
  /\ UNCHANGED <<active_jobs, actorVars>>

(* The tool call's future is dropped while it awaits the reply. Its message *)
(* stays where it is; the job still runs and the reply goes nowhere.        *)
Abandon(c) ==
  /\ pc[c] = "waiting"
  /\ pc' = [pc EXCEPT ![c] = "abandoned"]
  /\ UNCHANGED <<projectVars, actorVars, reply, answer, late>>

(* The broker evicts the project, the reaper expires it, the server exits. *)
Shutdown ==
  /\ StopProject
  /\ UNCHANGED <<active_jobs, actorVars, callerVars>>

-----------------------------------------------------------------------------
(* actor_main: receive, then run the job or reject the message. *)
Receive ==
  /\ actor = "receiving"
  /\ mailbox # <<>>
  /\ mailbox' = Tail(mailbox)
  /\ IF RunsWhatItReceives
     THEN /\ actor' = "working"
          /\ current' = Head(mailbox)
          /\ UNCHANGED <<active_jobs, reply>>
     ELSE /\ reply' = [reply EXCEPT ![Head(mailbox)] = "project_shutting_down"]
          /\ ReleaseGuard
          /\ UNCHANGED <<actor, current>>
  /\ UNCHANGED <<healthy, actor_tx, verdict, pc, answer, late>>

(* run_job consumed the JobMeta, so the job stops counting here, one step  *)
(* before its reply is sent. A tripped restart breaker marks the project.  *)
JobReturns(r) ==
  /\ actor = "working"
  /\ actor' = "replying"
  /\ verdict' = r
  /\ ReleaseGuard
  /\ healthy' = (healthy /\ r # "restart_limit_exceeded")
  /\ UNCHANGED <<actor_tx, mailbox, current, callerVars>>

(* handle_message: reply.send, then back to the receive loop. *)
SendReply ==
  /\ actor = "replying"
  /\ reply' = [reply EXCEPT ![current] = verdict]
  /\ actor' = "receiving"
  /\ current' = NoCaller
  /\ verdict' = "none"
  /\ UNCHANGED <<projectVars, mailbox, pc, answer, late>>

(* The actor thread panics, in a job or in an idle cycle, and unwinds: the *)
(* channel closes and the message in hand is dropped with its reply.       *)
Panic ==
  /\ actor \in {"receiving", "working"}
  /\ actor' = "unwinding"
  /\ IF actor = "working"
     THEN /\ ReleaseGuard
          /\ CloseReply(current)
     ELSE UNCHANGED <<active_jobs, reply>>
  /\ current' = NoCaller
  /\ UNCHANGED <<healthy, actor_tx, mailbox, verdict, pc, answer, late>>

DropQueued ==
  /\ actor = "unwinding"
  /\ IF mailbox = <<>>
     THEN actor' = "gone" /\ UNCHANGED <<mailbox, active_jobs, reply>>
     ELSE /\ mailbox' = Tail(mailbox)
          /\ ReleaseGuard
          /\ CloseReply(Head(mailbox))
          /\ UNCHANGED actor
  /\ UNCHANGED <<healthy, actor_tx, current, verdict, pc, answer, late>>

(* recv yields None only when the queue is empty and every Sender is gone. *)
ActorExits ==
  /\ actor = "receiving"
  /\ mailbox = <<>>
  /\ ~actor_tx
  /\ SenderClones = {}
  /\ actor' = "gone"
  /\ UNCHANGED <<projectVars, mailbox, current, verdict, callerVars>>

-----------------------------------------------------------------------------
CallerStep(c) ==
  \/ CloneSender(c) \/ SendAccepted(c) \/ SendFull(c) \/ SendClosed(c)
  \/ ReceiveReply(c)
RunJob == \E r \in JobResults : JobReturns(r)
ActorStep == Receive \/ RunJob \/ SendReply \/ DropQueued \/ ActorExits

Next ==
  \/ Shutdown \/ Panic \/ ActorStep
  \/ \E c \in Callers : JobMeta(c) \/ CallerStep(c) \/ Abandon(c)

SafeSpec == Init /\ [][Next]_vars
\* The actor thread runs, a job ends (every worker request has a deadline) and
\* the async runtime polls every call that has begun. Nothing obliges a caller
\* to begin or to abandon a call, a broker to shut down, or a thread to panic.
Spec == SafeSpec /\ WF_vars(ActorStep) /\ \A c \in Callers : WF_vars(CallerStep(c))

-----------------------------------------------------------------------------
\* The calls whose JobMeta, and with it an ActiveJobGuard, is alive.
Counted(c) ==
  \/ pc[c] \in {"admitted", "cloned"}
  \/ Queued(c)
  \/ actor = "working" /\ current = c

(* active_jobs is exactly the number of live JobMetas on every path through *)
(* enqueue, reject, run_job, a panic and a caller that went away: a leak    *)
(* pins a project in the pool for ever, an undercount gets it evicted with  *)
(* work in its mailbox.                                                     *)
ActiveJobsExact == active_jobs = Cardinality({c \in Callers : Counted(c)})

(* What LeanProject::is_idle is used for: when it holds, every caller still *)
(* waiting already has its reply or is about to be handed it, so a broker   *)
(* that shuts the project down then fails no call already sent.             *)
IdleMeansSettled ==
  active_jobs = 0 =>
    /\ mailbox = <<>>
    /\ \A c \in Callers :
         pc[c] = "waiting" => reply[c] # "none" \/ (actor = "replying" /\ current = c)

(* No call is lost and none is in two places: a caller that waits is in the *)
(* mailbox once, or in the actor's hand, or has something in its reply      *)
(* channel, and exactly one of these.                                       *)
Places(c) ==
  {<<"mailbox", i>> : i \in {j \in 1..Len(mailbox) : mailbox[j] = c}}
  \cup (IF current = c THEN {<<"actor", 0>>} ELSE {})
  \cup (IF reply[c] # "none" THEN {<<"reply", 0>>} ELSE {})
WaitingCallHasOnePlace ==
  \A c \in Callers : pc[c] = "waiting" => Cardinality(Places(c)) = 1

(* Every call that begins is answered or abandoned by its own caller,       *)
(* through shutdowns, breaker trips and panics.                             *)
EveryCallEnds ==
  \A c \in Callers : pc[c] = "admitted" ~> pc[c] \in {"idle", "abandoned"}

(* Dropping the project's Sender ends the actor thread, which is what shuts *)
(* its worker child down, whatever was queued and whoever was waiting.      *)
ShutdownEndsActor == ~actor_tx ~> actor = "gone"

(* The refinement: the mailbox, the actor and the channels implement the    *)
(* contract of CallContract, its liveness included.                         *)
contractCall ==
  [c \in Callers |->
     CASE pc[c] = "idle" -> "idle"
       [] pc[c] = "abandoned" -> "abandoned"
       [] OTHER -> IF late[c] THEN "late" ELSE "live"]
Contract == INSTANCE CallContract WITH
  down <- ~healthy, call <- contractCall, answer <- answer,
  FullMailbox <- "mailbox_full"
ImplementsContract == Contract!Spec
=============================================================================
