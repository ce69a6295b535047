------------------------ MODULE ProjectMailbox_proofs ------------------------
(***************************************************************************)
(* Proofs about ProjectMailbox, for any finite set of callers and any      *)
(* mailbox capacity: its type invariant, that active_jobs is exact, and    *)
(* that an idle project has nothing left to lose.                          *)
(***************************************************************************)
EXTENDS ProjectMailbox, FiniteSetTheorems, TLAPS

USE DEF ReleaseGuard, CloseReply, MailboxHasRoom, RunsWhatItReceives

\* Where the calls are: what makes TypeOK and ActiveJobsExact inductive.
PlaceInv ==
  /\ actor \in {"working", "replying"} <=> current # NoCaller
  /\ actor = "replying" <=> verdict # "none"
  /\ actor = "gone" => mailbox = <<>>
  /\ \A i, j \in 1..Len(mailbox) : mailbox[i] = mailbox[j] => i = j
  /\ ~Queued(current)
  /\ \A c \in Callers :
       /\ Queued(c) \/ current = c => pc[c] \in {"waiting", "abandoned"} /\ reply[c] = "none"
       /\ pc[c] = "waiting" => Queued(c) \/ current = c \/ reply[c] # "none"
       /\ pc[c] \in {"idle", "admitted", "cloned"} => reply[c] = "none"

\* TypeOK without the claim that active_jobs never goes below zero, which is
\* the part that needs the count to be exact.
ShapeOK ==
  /\ healthy \in BOOLEAN
  /\ actor_tx \in BOOLEAN
  /\ active_jobs \in Int
  /\ mailbox \in Seq(Callers)
  /\ Len(mailbox) <= MailboxCapacity
  /\ actor \in {"receiving", "working", "replying", "unwinding", "gone"}
  /\ current \in Callers \cup {NoCaller}
  /\ verdict \in JobResults \cup {"none"}
  /\ pc \in [Callers -> {"idle", "admitted", "cloned", "waiting", "abandoned"}]
  /\ reply \in [Callers -> Replies \cup {"none"}]
  /\ answer \in [Callers -> JobResults \cup Refusals \cup {"none"}]
  /\ late \in [Callers -> BOOLEAN]

CountedCalls == {c \in Callers : Counted(c)}

IInv == ShapeOK /\ PlaceInv /\ ActiveJobsExact

-----------------------------------------------------------------------------
(* Receiving the head of a queue without duplicates removes that call and  *)
(* no other from it.                                                       *)
LEMMA TailMembers ==
  ASSUME NEW S, NEW s \in Seq(S), s # <<>>,
         \A i, j \in 1..Len(s) : s[i] = s[j] => i = j
  PROVE  /\ Tail(s) \in Seq(S)
         /\ Len(Tail(s)) = Len(s) - 1
         /\ Head(s) \in S
         /\ \A i, j \in 1..Len(Tail(s)) : Tail(s)[i] = Tail(s)[j] => i = j
         /\ \A c : (\E i \in 1..Len(Tail(s)) : Tail(s)[i] = c)
                     <=> (\E i \in 1..Len(s) : s[i] = c) /\ c # Head(s)
<1>1. /\ Len(s) \in Nat \ {0}
      /\ Tail(s) \in Seq(S)
      /\ Len(Tail(s)) = Len(s) - 1
      /\ Head(s) = s[1] /\ s[1] \in S
      /\ \A i \in 1..Len(s) - 1 : Tail(s)[i] = s[i + 1]
  OBVIOUS
<1>2. \A i, j \in 1..Len(Tail(s)) : Tail(s)[i] = Tail(s)[j] => i = j
  BY <1>1
<1>3. ASSUME NEW c
      PROVE  (\E i \in 1..Len(Tail(s)) : Tail(s)[i] = c)
               <=> (\E i \in 1..Len(s) : s[i] = c) /\ c # Head(s)
  <2>1. ASSUME NEW i \in 1..Len(Tail(s)), Tail(s)[i] = c
        PROVE  (\E k \in 1..Len(s) : s[k] = c) /\ c # Head(s)
    BY <2>1, <1>1
  <2>2. ASSUME NEW i \in 1..Len(s), s[i] = c, c # Head(s)
        PROVE  \E k \in 1..Len(Tail(s)) : Tail(s)[k] = c
    <3>1. i - 1 \in 1..Len(Tail(s)) /\ Tail(s)[i - 1] = c
      BY <2>2, <1>1
    <3>2. QED BY <3>1
  <2>3. QED BY <2>1, <2>2
<1>4. QED BY <1>1, <1>2, <1>3

LEMMA AppendMembers ==
  ASSUME NEW S, NEW s \in Seq(S), NEW e \in S,
         \A i, j \in 1..Len(s) : s[i] = s[j] => i = j,
         \A i \in 1..Len(s) : s[i] # e
  PROVE  /\ Append(s, e) \in Seq(S)
         /\ Len(Append(s, e)) = Len(s) + 1
         /\ \A i, j \in 1..Len(Append(s, e)) : Append(s, e)[i] = Append(s, e)[j] => i = j
         /\ \A c : (\E i \in 1..Len(Append(s, e)) : Append(s, e)[i] = c)
                     <=> (\E i \in 1..Len(s) : s[i] = c) \/ c = e
<1>1. /\ Len(s) \in Nat
      /\ Append(s, e) \in Seq(S)
      /\ Len(Append(s, e)) = Len(s) + 1
      /\ \A i \in 1..Len(s) : Append(s, e)[i] = s[i]
      /\ Append(s, e)[Len(s) + 1] = e
  OBVIOUS
<1>2. \A i, j \in 1..Len(Append(s, e)) : Append(s, e)[i] = Append(s, e)[j] => i = j
  BY <1>1
<1>3. \A c : (\E i \in 1..Len(Append(s, e)) : Append(s, e)[i] = c)
               <=> (\E i \in 1..Len(s) : s[i] = c) \/ c = e
  BY <1>1
<1>4. QED BY <1>1, <1>2, <1>3

(* The count follows the set of live JobMetas through every step.          *)
LEMMA CountStep ==
  ASSUME IInv, NEW c \in Callers, active_jobs' \in Int,
         \/ /\ CountedCalls' = CountedCalls \cup {c}
            /\ c \notin CountedCalls
            /\ active_jobs' = active_jobs + 1
         \/ /\ CountedCalls' = CountedCalls \ {c}
            /\ c \in CountedCalls
            /\ active_jobs' = active_jobs - 1
         \/ CountedCalls' = CountedCalls /\ active_jobs' = active_jobs
  PROVE  ActiveJobsExact'
<1>1. IsFiniteSet(CountedCalls) /\ Cardinality(CountedCalls) = active_jobs
  BY MailboxConstants, FS_Subset DEF IInv, ActiveJobsExact, CountedCalls
<1>2. Cardinality(CountedCalls') = active_jobs'
  BY <1>1, FS_AddElement, FS_RemoveElement, FS_CardinalityType
<1>3. QED BY <1>2 DEF ActiveJobsExact, CountedCalls

-----------------------------------------------------------------------------
(* One lemma per group of actions: the inductive invariant is preserved.   *)
LEMMA JobMetaStep == ASSUME IInv, NEW c \in Callers, JobMeta(c) PROVE IInv'
<1>1. ShapeOK'
  BY DEF IInv, ShapeOK, JobMeta, actorVars
<1>2. PlaceInv'
  BY DEF IInv, ShapeOK, PlaceInv, JobMeta, actorVars, Queued
<1>3. CountedCalls' = CountedCalls \cup {c} /\ c \notin CountedCalls
  BY DEF IInv, ShapeOK, PlaceInv, JobMeta, actorVars, Queued, CountedCalls, Counted
<1>4. active_jobs' = active_jobs + 1 /\ active_jobs' \in Int
  BY DEF JobMeta, IInv, ShapeOK
<1>5. QED BY <1>1, <1>2, <1>3, <1>4, CountStep DEF IInv

(* A call that ends inside enqueue gives up the guard its message held.    *)
LEMMA RefusedStep ==
  ASSUME IInv, NEW c \in Callers,
         CloneSender(c) \/ SendFull(c) \/ SendClosed(c)
  PROVE  IInv'
<1>1. CASE pc'[c] = "idle"
  <2>1. ShapeOK'
    <3>1. PICK r \in Refusals : Return(c, r)
      BY <1>1 DEF IInv, ShapeOK, CloneSender, SendFull, SendClosed, Refusals
    <3>2. /\ pc' \in [Callers -> {"idle", "admitted", "cloned", "waiting", "abandoned"}]
          /\ reply' \in [Callers -> Replies \cup {"none"}]
          /\ answer' \in [Callers -> JobResults \cup Refusals \cup {"none"}]
          /\ late' \in [Callers -> BOOLEAN]
      BY <3>1 DEF IInv, ShapeOK, Return
    <3>3. /\ healthy' \in BOOLEAN /\ actor_tx' \in BOOLEAN /\ active_jobs' \in Int
          /\ mailbox' = mailbox /\ actor' = actor /\ current' = current /\ verdict' = verdict
      <4>1. healthy \in BOOLEAN /\ actor_tx \in BOOLEAN /\ active_jobs \in Int
        BY DEF IInv, ShapeOK
      <4>2. CASE CloneSender(c)
        BY <4>1, <4>2 DEF CloneSender, actorVars
      <4>3. CASE SendFull(c)
        BY <4>1, <4>3 DEF SendFull, actorVars
      <4>4. CASE SendClosed(c)
        <5>1. healthy' \in BOOLEAN /\ actor_tx' \in BOOLEAN
          BY <4>4, Zenon DEF SendClosed, StopProject
        <5>2. active_jobs' \in Int
          BY <4>1, <4>4 DEF SendClosed
        <5>3. mailbox' = mailbox /\ actor' = actor /\ current' = current /\ verdict' = verdict
          BY <4>4 DEF SendClosed, actorVars
        <5>4. QED BY <5>1, <5>2, <5>3
      <4>5. QED BY <4>2, <4>3, <4>4
    <3>4. QED BY <3>2, <3>3 DEF IInv, ShapeOK
  <2>2. PlaceInv'
    BY <1>1 DEF IInv, ShapeOK, PlaceInv, CloneSender, SendFull, SendClosed, Return,
                StopProject, actorVars, Queued
  <2>3. CountedCalls' = CountedCalls \ {c} /\ c \in CountedCalls
    BY <1>1 DEF IInv, ShapeOK, PlaceInv, CloneSender, SendFull, SendClosed, Return,
                StopProject, actorVars, Queued, CountedCalls, Counted
  <2>4. active_jobs' = active_jobs - 1 /\ active_jobs' \in Int
    BY <1>1 DEF IInv, ShapeOK, CloneSender, SendFull, SendClosed
  <2>5. QED BY <2>1, <2>2, <2>3, <2>4, CountStep DEF IInv
<1>2. CASE pc'[c] # "idle"
  <2>1. ShapeOK' /\ PlaceInv'
    BY <1>2 DEF IInv, ShapeOK, PlaceInv, CloneSender, SendFull, SendClosed, Return,
                actorVars, Queued
  <2>2. CountedCalls' = CountedCalls /\ active_jobs' = active_jobs
    BY <1>2 DEF IInv, ShapeOK, PlaceInv, CloneSender, SendFull, SendClosed, Return,
                actorVars, Queued, CountedCalls, Counted
  <2>3. QED BY <2>1, <2>2, CountStep DEF IInv, ShapeOK
<1>3. QED BY <1>1, <1>2

LEMMA SendStep == ASSUME IInv, NEW c \in Callers, SendAccepted(c) PROVE IInv'
<1>1. /\ mailbox \in Seq(Callers)
      /\ \A i, j \in 1..Len(mailbox) : mailbox[i] = mailbox[j] => i = j
      /\ \A i \in 1..Len(mailbox) : mailbox[i] # c
      /\ mailbox' = Append(mailbox, c)
  BY DEF IInv, ShapeOK, PlaceInv, SendAccepted, Queued
<1>2. /\ mailbox' \in Seq(Callers)
      /\ Len(mailbox') = Len(mailbox) + 1
      /\ \A i, j \in 1..Len(mailbox') : mailbox'[i] = mailbox'[j] => i = j
      /\ \A d : Queued(d)' <=> Queued(d) \/ d = c
  BY <1>1, AppendMembers DEF Queued
<1>3. ShapeOK'
  BY <1>2, MailboxConstants DEF IInv, ShapeOK, SendAccepted, projectVars
<1>4. PlaceInv'
  BY <1>2 DEF IInv, ShapeOK, PlaceInv, SendAccepted, projectVars
<1>5. CountedCalls' = CountedCalls /\ active_jobs' = active_jobs
  BY <1>2 DEF IInv, ShapeOK, PlaceInv, SendAccepted, projectVars, CountedCalls, Counted
<1>6. QED BY <1>3, <1>4, <1>5, CountStep DEF IInv, ShapeOK

LEMMA CallerLeavesStep ==
  ASSUME IInv, NEW c \in Callers, ReceiveReply(c) \/ Abandon(c)
  PROVE  IInv'
<1>1. ShapeOK'
  BY DEF IInv, ShapeOK, ReceiveReply, Abandon, Return, StopProject, projectVars,
         actorVars, Replies, Refusals, JobResults
<1>2. PlaceInv'
  BY DEF IInv, ShapeOK, PlaceInv, ReceiveReply, Abandon, Return, StopProject,
         projectVars, actorVars, Queued
<1>3. CountedCalls' = CountedCalls /\ active_jobs' = active_jobs
  BY DEF IInv, ShapeOK, PlaceInv, ReceiveReply, Abandon, Return, StopProject,
         projectVars, actorVars, Queued, CountedCalls, Counted
<1>4. QED BY <1>1, <1>2, <1>3, CountStep DEF IInv, ShapeOK

LEMMA DequeueStep ==
  ASSUME IInv, Receive \/ DropQueued, mailbox # <<>>
  PROVE  IInv'
<1> DEFINE h == Head(mailbox)
<1>1. /\ mailbox \in Seq(Callers)
      /\ \A i, j \in 1..Len(mailbox) : mailbox[i] = mailbox[j] => i = j
      /\ mailbox' = Tail(mailbox)
  BY DEF IInv, ShapeOK, PlaceInv, Receive, DropQueued
<1>2. /\ mailbox' \in Seq(Callers)
      /\ Len(mailbox') = Len(mailbox) - 1
      /\ h \in Callers
      /\ \A i, j \in 1..Len(mailbox') : mailbox'[i] = mailbox'[j] => i = j
      /\ \A d : Queued(d)' <=> Queued(d) /\ d # h
      /\ Queued(h)
  <2>1. /\ Tail(mailbox) \in Seq(Callers)
        /\ Len(Tail(mailbox)) = Len(mailbox) - 1
        /\ h \in Callers
        /\ \A i, j \in 1..Len(Tail(mailbox)) :
             Tail(mailbox)[i] = Tail(mailbox)[j] => i = j
        /\ \A d : (\E i \in 1..Len(Tail(mailbox)) : Tail(mailbox)[i] = d)
                   <=> (\E i \in 1..Len(mailbox) : mailbox[i] = d) /\ d # h
    BY <1>1, TailMembers
  <2>2. 1 \in 1..Len(mailbox) /\ mailbox[1] = h
    BY <1>1
  <2>3. QED BY <1>1, <2>1, <2>2 DEF Queued
<1> HIDE DEF h
<1>3. CASE Receive /\ healthy
  <2>1. h # NoCaller /\ h # current
    BY <1>2, MailboxConstants DEF IInv, PlaceInv
  <2>2. /\ current' = h
        /\ actor = "receiving" /\ actor' = "working"
        /\ UNCHANGED <<healthy, actor_tx, active_jobs, verdict, pc, reply, answer, late>>
    BY <1>3 DEF Receive, h
  <2>3. current = NoCaller /\ verdict = "none"
    BY <2>2 DEF IInv, PlaceInv
  <2>4. ShapeOK'
    <3>1. Len(mailbox') <= MailboxCapacity
      BY <1>1, <1>2, MailboxConstants DEF IInv, ShapeOK
    <3>2. QED BY <1>2, <2>2, <3>1 DEF IInv, ShapeOK
  <2>5. PlaceInv'
    BY <1>2, <2>1, <2>2, <2>3, MailboxConstants DEF IInv, PlaceInv
  <2>6. CountedCalls' = CountedCalls
    BY <1>2, <2>1, <2>2, <2>3, MailboxConstants DEF IInv, PlaceInv, CountedCalls, Counted
  <2>7. QED BY <1>2, <2>2, <2>4, <2>5, <2>6, CountStep DEF IInv, ShapeOK
<1>4. CASE ~(Receive /\ healthy)
  <2>1. \E r \in {"project_shutting_down", "sender_dropped"} : reply' = [reply EXCEPT ![h] = r]
    BY <1>4 DEF Receive, DropQueued, h
  <2>2. PICK r \in {"project_shutting_down", "sender_dropped"} : reply' = [reply EXCEPT ![h] = r]
    BY <2>1
  <2>3. /\ active_jobs' = active_jobs - 1
        /\ actor \in {"receiving", "unwinding"}
        /\ UNCHANGED <<healthy, actor_tx, actor, current, verdict, pc, answer, late>>
    BY <1>4 DEF Receive, DropQueued
  <2>4. /\ reply' \in [Callers -> Replies \cup {"none"}]
        /\ reply'[h] # "none"
        /\ \A c \in Callers \ {h} : reply'[c] = reply[c]
    BY <1>2, <2>2 DEF IInv, ShapeOK, Replies
  <2>5. current = NoCaller
    BY <2>3 DEF IInv, PlaceInv
  <2>6. ShapeOK'
    <3>1. Len(mailbox') <= MailboxCapacity
      BY <1>1, <1>2, MailboxConstants DEF IInv, ShapeOK
    <3>2. QED BY <1>2, <2>3, <2>4, <3>1 DEF IInv, ShapeOK
  <2>7. /\ pc[h] \in {"waiting", "abandoned"}
        /\ h # NoCaller
    BY <1>2, MailboxConstants DEF IInv, PlaceInv
  <2>8. ASSUME NEW c \in Callers
        PROVE  /\ (Queued(c) \/ current = c)' =>
                     pc'[c] \in {"waiting", "abandoned"} /\ reply'[c] = "none"
               /\ pc'[c] = "waiting" => (Queued(c) \/ current = c)' \/ reply'[c] # "none"
               /\ pc'[c] \in {"idle", "admitted", "cloned"} => reply'[c] = "none"
    <3>1. CASE c = h
      BY <1>2, <2>3, <2>4, <2>5, <2>7, <3>1
    <3>2. CASE c # h
      BY <1>2, <2>3, <2>4, <2>5, <3>2 DEF IInv, PlaceInv
    <3>3. QED BY <3>1, <3>2
  <2>9. /\ (actor \in {"working", "replying"} <=> current # NoCaller)'
        /\ (actor = "replying" <=> verdict # "none")'
        /\ (actor = "gone" => mailbox = <<>>)'
        /\ (~Queued(current))'
    BY <1>2, <2>3, <2>5 DEF IInv, PlaceInv
  <2>10. PlaceInv'
    BY <1>2, <2>8, <2>9 DEF PlaceInv
  <2>11. CountedCalls' = CountedCalls \ {h} /\ h \in CountedCalls
    BY <1>2, <2>3, <2>7, <2>5 DEF CountedCalls, Counted
  <2>12. QED BY <1>2, <2>3, <2>6, <2>10, <2>11, CountStep DEF IInv, ShapeOK
<1>5. QED BY <1>3, <1>4

LEMMA JobReturnsStep ==
  ASSUME IInv, NEW r \in JobResults, JobReturns(r)
  PROVE  IInv'
<1>1. ShapeOK'
  BY DEF IInv, ShapeOK, JobReturns, callerVars
<1>2. PlaceInv'
  BY DEF IInv, ShapeOK, PlaceInv, JobReturns, callerVars, Queued, JobResults
<1>3. /\ CountedCalls' = CountedCalls \ {current}
      /\ current \in CountedCalls /\ current \in Callers
      /\ active_jobs' = active_jobs - 1
  BY DEF IInv, ShapeOK, PlaceInv, JobReturns, callerVars, Queued, CountedCalls, Counted
<1>4. QED BY <1>1, <1>2, <1>3, CountStep DEF IInv, ShapeOK

LEMMA ActorQuietStep ==
  ASSUME IInv, SendReply \/ ActorExits \/ (DropQueued /\ mailbox = <<>>) \/ Shutdown
               \/ (Panic /\ actor = "receiving") \/ UNCHANGED vars
  PROVE  IInv'
<1>1. ShapeOK'
  BY DEF IInv, ShapeOK, SendReply, ActorExits, DropQueued, Shutdown, Panic, StopProject,
         projectVars, actorVars, callerVars, vars, Replies
<1>2. PlaceInv'
  BY MailboxConstants DEF IInv, ShapeOK, PlaceInv, SendReply, ActorExits, DropQueued,
     Shutdown, Panic, StopProject, projectVars, actorVars, callerVars, vars, Queued, JobResults
<1>3. active_jobs' = active_jobs
  BY DEF SendReply, ActorExits, DropQueued, Shutdown, Panic, StopProject, projectVars,
         actorVars, callerVars, vars
<1>4. CountedCalls' = CountedCalls
  BY DEF IInv, ShapeOK, PlaceInv, SendReply, ActorExits, DropQueued, Shutdown, Panic,
         StopProject, projectVars, actorVars, callerVars, vars, Queued, CountedCalls, Counted
<1>5. CASE Callers = {}
  <2>1. CountedCalls = {}
    BY <1>5 DEF CountedCalls
  <2>2. QED
    BY <1>1, <1>2, <1>3, <1>4, <2>1 DEF IInv, ActiveJobsExact, CountedCalls
<1>6. CASE Callers # {}
  BY <1>1, <1>2, <1>3, <1>4, <1>6, CountStep DEF IInv, ShapeOK
<1>7. QED BY <1>5, <1>6

LEMMA PanicStep == ASSUME IInv, Panic, actor = "working" PROVE IInv'
<1>1. ShapeOK'
  BY DEF IInv, ShapeOK, Panic, Replies
<1>2. PlaceInv'
  BY MailboxConstants DEF IInv, ShapeOK, PlaceInv, Panic, Queued
<1>3. /\ CountedCalls' = CountedCalls \ {current}
      /\ current \in CountedCalls /\ current \in Callers
      /\ active_jobs' = active_jobs - 1
  BY DEF IInv, ShapeOK, PlaceInv, Panic, Queued, CountedCalls, Counted
<1>4. QED BY <1>1, <1>2, <1>3, CountStep DEF IInv, ShapeOK

LEMMA InitHolds == Init => IInv
<1> SUFFICES ASSUME Init PROVE IInv OBVIOUS
<1>1. ShapeOK
  BY MailboxConstants DEF Init, ShapeOK
<1>2. PlaceInv
  BY MailboxConstants DEF Init, PlaceInv, Queued
<1>3. {c \in Callers : Counted(c)} = {}
  BY MailboxConstants DEF Init, Counted, Queued
<1>4. QED BY <1>1, <1>2, <1>3, FS_EmptySet DEF IInv, ActiveJobsExact, Init

LEMMA Invariance == SafeSpec => []IInv
<1>1. ASSUME IInv, [Next]_vars PROVE IInv'
  <2>1. CASE UNCHANGED vars \/ Shutdown
    BY <1>1, <2>1, ActorQuietStep
  <2>2. CASE Panic
    BY <1>1, <2>2, PanicStep, ActorQuietStep DEF Panic
  <2>3. CASE ActorStep
    BY <1>1, <2>3, DequeueStep, JobReturnsStep, ActorQuietStep
    DEF ActorStep, RunJob, Receive
  <2>4. ASSUME NEW c \in Callers, JobMeta(c) \/ CallerStep(c) \/ Abandon(c)
        PROVE  IInv'
    BY <1>1, <2>4, JobMetaStep, RefusedStep, SendStep, CallerLeavesStep DEF CallerStep
  <2>5. QED BY <1>1, <2>1, <2>2, <2>3, <2>4 DEF Next
<1>2. QED BY <1>1, InitHolds, PTL DEF SafeSpec

-----------------------------------------------------------------------------
(* Every variable keeps its type; in particular active_jobs never goes     *)
(* below zero, where the code's fetch_sub would wrap to usize::MAX and pin *)
(* the project in the pool.                                                *)
THEOREM TypeCorrect == SafeSpec => []TypeOK
<1>1. IInv => TypeOK
  <2> SUFFICES ASSUME IInv PROVE TypeOK OBVIOUS
  <2>1. IsFiniteSet({c \in Callers : Counted(c)})
    BY MailboxConstants, FS_Subset
  <2>2. active_jobs \in Nat
    BY <2>1, FS_CardinalityType DEF IInv, ActiveJobsExact
  <2>3. QED BY <2>2 DEF IInv, ShapeOK, TypeOK
<1>2. QED BY <1>1, Invariance, PTL

(* LeanProject::active_jobs equals the number of calls that are between    *)
(* job_meta and the end of their job, on every path.                       *)
THEOREM ActiveJobsAlwaysExact == SafeSpec => []ActiveJobsExact
<1>1. IInv => ActiveJobsExact BY DEF IInv
<1>2. QED BY <1>1, Invariance, PTL

(* A broker that finds the project idle can shut it down without failing   *)
(* any call that was sent: LeanProject::is_idle is a sound eviction test.  *)
THEOREM IdleIsSettled == SafeSpec => []IdleMeansSettled
<1>1. IInv => IdleMeansSettled
  <2> SUFFICES ASSUME IInv, active_jobs = 0
               PROVE  /\ mailbox = <<>>
                      /\ \A c \in Callers : pc[c] = "waiting" =>
                            reply[c] # "none" \/ (actor = "replying" /\ current = c)
    BY DEF IdleMeansSettled
  <2>1. {c \in Callers : Counted(c)} = {}
    <3>1. IsFiniteSet({c \in Callers : Counted(c)})
      BY MailboxConstants, FS_Subset
    <3>2. QED BY <3>1, FS_EmptySet DEF IInv, ActiveJobsExact
  <2>2. \A c \in Callers : ~Queued(c) /\ ~(actor = "working" /\ current = c)
    BY <2>1 DEF Counted
  <2>3. mailbox = <<>>
    <3>1. SUFFICES ASSUME mailbox # <<>> PROVE FALSE OBVIOUS
    <3>2. mailbox[1] \in Callers /\ 1 \in 1..Len(mailbox)
      BY <3>1 DEF IInv, ShapeOK
    <3>3. QED BY <2>2, <3>2 DEF Queued
  <2>4. QED BY <2>2, <2>3, MailboxConstants DEF IInv, ShapeOK, PlaceInv
<1>2. QED BY <1>1, Invariance, PTL

(* A caller that waits is in exactly one place: once in the mailbox, or in  *)
(* the actor's hand, or with something in its reply channel. So no path     *)
(* loses a call, runs it twice or answers it twice.                         *)
THEOREM OnePlaceEach == SafeSpec => []WaitingCallHasOnePlace
<1>1. IInv => WaitingCallHasOnePlace
  <2> SUFFICES ASSUME IInv, NEW c \in Callers, pc[c] = "waiting"
               PROVE  Cardinality(Places(c)) = 1
    BY DEF WaitingCallHasOnePlace
  <2> DEFINE queued == {<<"mailbox", i>> : i \in {j \in 1..Len(mailbox) : mailbox[j] = c}}
  <2>1. \E x : Places(c) = {x}
    <3>1. CASE Queued(c)
      <4>1. PICK k \in 1..Len(mailbox) : mailbox[k] = c
        BY <3>1 DEF Queued
      <4>2. {j \in 1..Len(mailbox) : mailbox[j] = c} = {k}
        BY <4>1 DEF IInv, PlaceInv
      <4>3. queued = {<<"mailbox", k>>}
        BY <4>2
      <4>4. current # c /\ reply[c] = "none"
        BY <3>1 DEF IInv, PlaceInv
      <4>5. Places(c) = {<<"mailbox", k>>}
        BY <4>3, <4>4 DEF Places
      <4>6. QED BY <4>5
    <3>2. CASE ~Queued(c)
      <4>1. queued = {}
        BY <3>2 DEF Queued
      <4>2. CASE current = c
        <5>1. reply[c] = "none"
          BY <4>2 DEF IInv, PlaceInv
        <5>2. Places(c) = {<<"actor", 0>>}
          BY <4>1, <4>2, <5>1 DEF Places
        <5>3. QED BY <5>2
      <4>3. CASE current # c
        <5>1. reply[c] # "none"
          BY <3>2, <4>3 DEF IInv, PlaceInv
        <5>2. Places(c) = {<<"reply", 0>>}
          BY <4>1, <4>3, <5>1 DEF Places
        <5>3. QED BY <5>2
      <4>4. QED BY <4>2, <4>3
    <3>3. QED BY <3>1, <3>2
  <2>2. PICK x : Places(c) = {x}
    BY <2>1
  <2>3. QED BY <2>2, FS_Singleton
<1>2. QED BY <1>1, Invariance, PTL

-----------------------------------------------------------------------------
(* The contract. What links the channels to it is that the ways of being    *)
(* down agree, and that a call begun on a project already down never       *)
(* reaches the actor's hand.                                               *)
DownInv ==
  /\ ~actor_tx => ~healthy
  /\ \A c \in Callers :
       /\ reply[c] = "project_shutting_down" => ~healthy
       /\ late[c] /\ pc[c] # "idle" =>
            ~healthy /\ current # c /\ reply[c] \notin JobResults

LEMMA DownCallerStep ==
  ASSUME IInv, DownInv, NEW c \in Callers, JobMeta(c) \/ CallerStep(c) \/ Abandon(c)
  PROVE  DownInv'
<1> USE DEF DownInv, IInv, ShapeOK, PlaceInv, JobResults
<1>1. CASE JobMeta(c)
  BY <1>1, MailboxConstants DEF JobMeta, actorVars
<1>2. CASE CloneSender(c)
  BY <1>2 DEF CloneSender, actorVars, Return
<1>3. CASE SendAccepted(c)
  BY <1>3 DEF SendAccepted, projectVars
<1>4. CASE SendFull(c)
  BY <1>4 DEF SendFull, actorVars, Return
<1>5. CASE SendClosed(c)
  BY <1>5 DEF SendClosed, actorVars, Return, StopProject
<1>6. CASE ReceiveReply(c)
  BY <1>6 DEF ReceiveReply, actorVars, Return, StopProject
<1>7. CASE Abandon(c)
  BY <1>7 DEF Abandon, actorVars, projectVars
<1>8. QED BY <1>1, <1>2, <1>3, <1>4, <1>5, <1>6, <1>7 DEF CallerStep

LEMMA DownActorStep ==
  ASSUME IInv, DownInv, Shutdown \/ Panic \/ ActorStep \/ UNCHANGED vars
  PROVE  DownInv'
<1> USE DEF DownInv, IInv, ShapeOK, PlaceInv, JobResults
<1>1. CASE Shutdown
  BY <1>1 DEF Shutdown, StopProject, actorVars, callerVars
<1>2. CASE Panic
  BY <1>2, MailboxConstants DEF Panic
<1>3. CASE Receive
  <2>1. Head(mailbox) \in Callers
    BY <1>3 DEF Receive
  <2>2. QED BY <1>3, <2>1 DEF Receive
<1>4. CASE RunJob
  BY <1>4 DEF RunJob, JobReturns, callerVars
<1>5. CASE SendReply
  BY <1>5, MailboxConstants DEF SendReply, projectVars
<1>6. CASE DropQueued
  BY <1>6 DEF DropQueued
<1>7. CASE ActorExits
  BY <1>7 DEF ActorExits, projectVars, callerVars
<1>8. CASE UNCHANGED vars
  BY <1>8 DEF vars, projectVars, actorVars, callerVars
<1>9. QED BY <1>1, <1>2, <1>3, <1>4, <1>5, <1>6, <1>7, <1>8 DEF ActorStep

(* A caller's end of a call is the contract's answer to it.                 *)
LEMMA ReturnAnswers ==
  ASSUME IInv, DownInv, NEW c \in Callers, pc[c] \in {"admitted", "cloned", "waiting"},
         NEW r \in JobResults \cup Refusals, Return(c, r),
         healthy' \in BOOLEAN, healthy' => healthy,
         late[c] => r \in Refusals,
         r \in Refusals \ {"mailbox_full"} => ~healthy'
  PROVE  Contract!Answer(c)
<1> USE DEF IInv, ShapeOK
<1>1. contractCall[c] = IF late[c] THEN "late" ELSE "live"
  BY DEF contractCall
<1>2. contractCall' = [contractCall EXCEPT ![c] = "idle"]
  BY DEF contractCall, Return
<1>3. (~healthy)' \in {~healthy, TRUE}
  OBVIOUS
<1>4. answer' = [answer EXCEPT ![c] = r]
  BY DEF Return
<1>5. r \in IF contractCall[c] = "live" THEN Contract!Answers ELSE Refusals
  BY <1>1 DEF Contract!Answers
<1>6. QED BY <1>1, <1>2, <1>3, <1>4, <1>5 DEF Contract!Answer, Contract!Outstanding

LEMMA CallerStepRefines ==
  ASSUME IInv, DownInv, NEW c \in Callers, JobMeta(c) \/ CallerStep(c) \/ Abandon(c)
  PROVE  [Contract!Next]_(Contract!vars)
<1> USE DEF IInv, ShapeOK
<1>1. CASE JobMeta(c)
  <2>1. contractCall[c] = "idle" /\ UNCHANGED <<healthy, answer>>
    BY <1>1 DEF JobMeta, contractCall
  <2>2. contractCall' = [contractCall EXCEPT ![c] = IF ~healthy THEN "late" ELSE "live"]
    BY <1>1 DEF JobMeta, contractCall
  <2>3. Contract!Submit(c)
    BY <2>1, <2>2 DEF Contract!Submit
  <2>4. QED BY <2>3 DEF Contract!Next
<1>2. CASE CloneSender(c)
  <2>1. CASE actor_tx
    BY <1>2, <2>1 DEF CloneSender, contractCall, Contract!vars
  <2>2. CASE ~actor_tx
    <3>1. Return(c, "actor_stopped") /\ ~healthy /\ healthy' = healthy /\ pc[c] = "admitted"
      BY <1>2, <2>2 DEF CloneSender, DownInv
    <3>2. Contract!Answer(c)
      BY <3>1, ReturnAnswers DEF Refusals
    <3>3. QED BY <3>2 DEF Contract!Next
  <2>3. QED BY <2>1, <2>2
<1>3. CASE SendAccepted(c)
  BY <1>3 DEF SendAccepted, projectVars, contractCall, Contract!vars
<1>4. CASE SendFull(c)
  <2>1. Return(c, "mailbox_full") /\ healthy' = healthy /\ pc[c] = "cloned"
    BY <1>4 DEF SendFull
  <2>2. Contract!Answer(c)
    BY <2>1, ReturnAnswers DEF Refusals
  <2>3. QED BY <2>2 DEF Contract!Next
<1>5. CASE SendClosed(c)
  <2>1. Return(c, "mailbox_closed") /\ healthy' = FALSE /\ pc[c] = "cloned"
    BY <1>5 DEF SendClosed, StopProject
  <2>2. Contract!Answer(c)
    BY <2>1, ReturnAnswers DEF Refusals
  <2>3. QED BY <2>2 DEF Contract!Next
<1>6. CASE ReceiveReply(c)
  <2>1. CASE reply[c] = "sender_dropped"
    <3>1. Return(c, "mailbox_closed_before_reply") /\ healthy' = FALSE /\ pc[c] = "waiting"
      BY <1>6, <2>1 DEF ReceiveReply, StopProject
    <3>2. Contract!Answer(c)
      BY <3>1, ReturnAnswers DEF Refusals
    <3>3. QED BY <3>2 DEF Contract!Next
  <2>2. CASE reply[c] # "sender_dropped"
    <3>1. Return(c, reply[c]) /\ healthy' = healthy /\ pc[c] = "waiting" /\ reply[c] # "none"
      BY <1>6, <2>2 DEF ReceiveReply
    <3>2. reply[c] \in JobResults \cup {"project_shutting_down"}
      BY <2>2, <3>1 DEF Replies
    <3>3. late[c] => reply[c] \in Refusals
      BY <3>1, <3>2 DEF DownInv, Refusals
    <3>4. reply[c] \in Refusals => ~healthy
      BY <3>2 DEF DownInv, Refusals, JobResults
    <3>5. reply[c] \in JobResults \cup Refusals
      BY <3>2 DEF Refusals
    <3>6. Contract!Answer(c)
      BY <3>1, <3>3, <3>4, <3>5, ReturnAnswers
    <3>7. QED BY <3>6 DEF Contract!Next
  <2>3. QED BY <2>1, <2>2
<1>7. CASE Abandon(c)
  <2>1. contractCall[c] \in {"live", "late"} /\ UNCHANGED <<healthy, answer>>
    BY <1>7 DEF Abandon, projectVars, contractCall
  <2>2. contractCall' = [contractCall EXCEPT ![c] = "abandoned"]
    BY <1>7 DEF Abandon, contractCall
  <2>3. Contract!Abandon(c)
    BY <2>1, <2>2 DEF Contract!Abandon, Contract!Outstanding
  <2>4. QED BY <2>3 DEF Contract!Next
<1>8. QED BY <1>1, <1>2, <1>3, <1>4, <1>5, <1>6, <1>7 DEF CallerStep

(* The actor's steps show at most as the project going down.                *)
LEMMA ActorStepRefines ==
  ASSUME IInv, Shutdown \/ Panic \/ ActorStep \/ UNCHANGED vars
  PROVE  [Contract!Next]_(Contract!vars)
<1>1. UNCHANGED <<pc, late, answer>>
  BY DEF Shutdown, Panic, ActorStep, Receive, RunJob, JobReturns, SendReply, DropQueued,
         ActorExits, callerVars, vars
<1>2. UNCHANGED <<contractCall, answer>>
  BY <1>1 DEF contractCall
<1>3. healthy \in BOOLEAN /\ (healthy' = healthy \/ healthy' = FALSE)
  BY DEF IInv, ShapeOK, Shutdown, Panic, ActorStep, Receive, RunJob, JobReturns, SendReply,
         DropQueued, ActorExits, StopProject, projectVars, vars
<1>4. CASE healthy' = healthy
  BY <1>2, <1>4 DEF Contract!vars
<1>5. CASE healthy' = FALSE
  BY <1>2, <1>5 DEF Contract!Next, Contract!GoDown
<1>6. QED BY <1>3, <1>4, <1>5

(* The safety half of ImplementsContract, for any callers and any capacity: *)
(* enqueue, the mailbox, the actor thread and its unwinding never answer a *)
(* call twice, never run a call made on a project already down, and give a *)
(* call on a live project no refusal but a full mailbox.                   *)
THEOREM MailboxKeepsContract == SafeSpec => Contract!SafeSpec
<1>1. Init => DownInv
  BY DEF Init, DownInv, JobResults
<1>2. Init => Contract!Init
  BY DEF Init, Contract!Init, contractCall
<1>3. ASSUME IInv, DownInv, [Next]_vars
      PROVE  DownInv' /\ [Contract!Next]_(Contract!vars)
  BY <1>3, DownCallerStep, DownActorStep, CallerStepRefines, ActorStepRefines DEF Next
<1>4. QED BY <1>1, <1>2, <1>3, Invariance, PTL DEF SafeSpec, Contract!SafeSpec
=============================================================================
