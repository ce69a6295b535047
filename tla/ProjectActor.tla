---------------------------- MODULE ProjectActor ----------------------------
(***************************************************************************)
(* The actor thread of one LeanProject and the worker child it supervises  *)
(* (ProjectActorState): the recycle when a `.olean` was rebuilt, the retry *)
(* after a worker death, the crash-loop breaker, the generation a call     *)
(* reports and the idle cycle with its pre-warm.                           *)
(*                                                                         *)
(* One thread, so its own steps never interleave; what interleaves with it *)
(* is `lake build`, the clock and the child. Imports are abstracted to     *)
(* profiles, artifacts to a build number per profile (0: no artifact, the  *)
(* code's None), residue to a count of imports.                            *)
(***************************************************************************)
EXTENDS Integers, Sequences, FiniteSets

CONSTANTS
  Profiles,           \* import profiles calls ask for
  PoolCapacity,       \* runtime.worker_session_pool_capacity
  SoftResidue,        \* ActorConfig::import_residue_soft_bytes, in imports
  HardResidue,        \* ActorConfig::import_residue_budget_bytes, in imports
  MaxRestarts,        \* runtime.worker_restart_limit
  RestartWindow,      \* runtime.worker_restart_window_millis, in ticks
  MaxRetries,         \* MAX_JOB_RETRIES
  \* What the environment may do: each is a hypothesis of ServedFresh.
  ArtifactsVanish,    \* a profile's artifacts may be missing for a while (lake clean)
  BuildsRacePrewarm,  \* a build may land while a pre-warm is importing
  FailuresSkipImport, \* a request may fail with the child alive and nothing imported
  FailedCyclesSpare,  \* a cycle() that fails may leave the old child running
  \* Bounds of the model.
  MaxBuilds, MaxClock, MaxReplaced, MaxJobs

ASSUME ActorConstants ==
  /\ Profiles # {} /\ IsFiniteSet(Profiles)
  /\ PoolCapacity \in Nat \ {0}
  /\ SoftResidue \in Nat /\ HardResidue \in Nat \ {0}
  /\ MaxRestarts \in Nat \ {0} /\ RestartWindow \in Nat /\ MaxRetries \in Nat
  /\ {ArtifactsVanish, BuildsRacePrewarm, FailuresSkipImport, FailedCyclesSpare}
       \subseteq BOOLEAN
  /\ {MaxBuilds, MaxClock, MaxReplaced, MaxJobs} \subseteq Nat

VARIABLES
  phase,              \* where the actor thread is
  job,                \* the call in hand
  result,             \* how the last call ended (history)
  imports_seen,       \* ProjectActorState::imports_seen, MRU at the back
  stamps,             \* the artifact_stamp each remembered profile carries
  cycled_while_idle,
  abnormal_restarts,  \* every instant ever pushed on abnormal_restart_times (history)
  window_start,       \* abnormal_restart_times is abnormal_restarts from here on
  healthy,
  restarts_total,     \* RestartStats::total
  base,               \* worker_generation_base
  published,          \* RuntimeSnapshot::worker_generation
  child,              \* the worker child behind LeanWorkerHostHandle
  built, present,     \* the artifacts on disk
  clock,
  ghost               \* counters only the properties read; idle_cycles counts from the
                      \* last message on

breakerVars == <<abnormal_restarts, window_start, healthy>>
mirrorVars == <<imports_seen, stamps>>
diskVars == <<built, present>>
vars == <<phase, job, result, mirrorVars, cycled_while_idle, breakerVars,
          restarts_total, base, published, child, diskVars, clock, ghost>>

-----------------------------------------------------------------------------
(* RestartCause, as far as a call on this actor can meet it. *)
Abnormal == {"timeout", "child_exit", "child_abort", "session_missing",
             "rss_hard_limit_exceeded"}
Planned == {"artifacts_rebuilt", "import_residue", "import_residue_idle"}
Causes == Abnormal \cup Planned
\* diagnosis::execution_taint, on the same causes.
Disrupting == {"rss_hard_limit_exceeded", "child_abort", "child_exit",
               "session_missing", "timeout"}

Outcomes == {"ok", "error", "timeout", "rss_hard_limit_exceeded", "child_exit",
             "child_abort", "session_missing"}
Retryable == {"child_exit", "child_abort", "session_missing"}

JobType ==
  [profile : Profiles, retries : Nat, retry_count : Nat, stamp : Nat,
   outcome : Outcomes, restarts : Seq(Causes), call_restart : Causes \cup {"none"},
   generation_before : Nat, replaced_before : Nat, disrupted : BOOLEAN]
ResultType ==
  [kind : {"none", "done", "unavailable", "error", "restart_limit_exceeded"},
   stamp : Nat, env : Nat, call_restart : Causes \cup {"none"}, disrupted : BOOLEAN,
   worker_restarted : BOOLEAN, children : Nat]
ChildType ==
  [alive : BOOLEAN, generation : Nat, residue : Nat, pooled : Seq(Profiles),
   env : [Profiles -> Nat]]
GhostType == [replaced : Nat, unplanned : Nat, jobs : Nat, idle_cycles : Nat]

TypeOK ==
  /\ phase \in {"idle", "attempt", "account", "settle", "prewarmed"}
  /\ job \in JobType
  /\ result \in ResultType
  /\ imports_seen \in Seq(Profiles) /\ Len(imports_seen) <= PoolCapacity
  /\ stamps \in [Profiles -> Nat]
  /\ cycled_while_idle \in BOOLEAN
  /\ abnormal_restarts \in Seq(Nat)
  /\ window_start \in 1..Len(abnormal_restarts) + 1
  /\ healthy \in BOOLEAN
  /\ restarts_total \in Nat /\ base \in Nat /\ published \in Nat
  /\ child \in ChildType /\ Len(child.pooled) <= PoolCapacity
  /\ built \in [Profiles -> Nat] /\ present \in [Profiles -> BOOLEAN]
  /\ clock \in Nat
  /\ ghost \in GhostType

-----------------------------------------------------------------------------
(* The environment: builds, a `lake clean`, time. Modification times only  *)
(* advance, and an import takes the newest artifact.                       *)
artifact_stamp(p) == IF present[p] THEN built[p] ELSE 0

Build(p) ==
  /\ built[p] < MaxBuilds
  /\ phase # "prewarmed" \/ BuildsRacePrewarm
  /\ built' = [built EXCEPT ![p] = @ + 1]
  /\ present' = [present EXCEPT ![p] = TRUE]
  /\ UNCHANGED <<phase, job, result, mirrorVars, cycled_while_idle, breakerVars,
                 restarts_total, base, published, child, clock, ghost>>

Vanish(p) ==
  /\ ArtifactsVanish
  /\ present' = [present EXCEPT ![p] = FALSE]
  /\ UNCHANGED <<phase, job, result, mirrorVars, cycled_while_idle, breakerVars,
                 restarts_total, base, published, child, built, clock, ghost>>

Tick ==
  /\ clock < MaxClock
  /\ clock' = clock + 1
  /\ UNCHANGED <<phase, job, result, mirrorVars, cycled_while_idle, breakerVars,
                 restarts_total, base, published, child, diskVars, ghost>>

-----------------------------------------------------------------------------
(* The worker child, as the actor's use of LeanWorkerHostHandle shows it.  *)

\* An MRU list: p moves or is added to the back, the front is evicted.
Holds(s, p) == \E i \in 1..Len(s) : s[i] = p
RemoveAt(s, i) == [j \in 1..Len(s) - 1 |-> IF j < i THEN s[j] ELSE s[j + 1]]
UsedOverCapacity(s, p) ==
  Append(IF Holds(s, p) THEN RemoveAt(s, CHOOSE i \in 1..Len(s) : s[i] = p)
         ELSE IF Len(s) > PoolCapacity THEN Tail(s) ELSE s, p)
Used(s, p) ==
  Append(IF Holds(s, p) THEN RemoveAt(s, CHOOSE i \in 1..Len(s) : s[i] = p)
         ELSE IF Len(s) >= PoolCapacity THEN Tail(s) ELSE s, p)

\* A new process that has imported nothing, as cycle() and the supervisor make it.
Replaced(c) ==
  [alive |-> TRUE, generation |-> c.generation + 1, residue |-> 0, pooled |-> <<>>,
   env |-> c.env]
Dead(c) ==
  [alive |-> FALSE, generation |-> c.generation, residue |-> c.residue, pooled |-> <<>>,
   env |-> c.env]
\* Open a session: a pooled environment is restored, any other one imported.
WithSession(c, p) ==
  IF Holds(c.pooled, p) THEN [c EXCEPT !.pooled = Used(@, p)]
  ELSE [c EXCEPT !.pooled = Used(@, p), !.env[p] = built[p], !.residue = @ + 1]

\* residue_restart_policy: the supervisor replaces the child before an import
\* that would start over the budget; it also replaces one it finds dead.
RestartsFirst(c, p) ==
  IF ~c.alive THEN <<"child_abort">>
  ELSE IF ~Holds(c.pooled, p) /\ c.residue >= HardResidue THEN <<"import_residue">>
  ELSE <<>>

observed_generation == base + child.generation
-----------------------------------------------------------------------------
Init ==
  /\ phase = "idle"
  /\ job \in [profile : Profiles, retries : {0}, retry_count : {0}, stamp : {0},
             outcome : {"ok"}, restarts : {<<>>}, call_restart : {"none"},
             generation_before : {0}, replaced_before : {0}, disrupted : {FALSE}]
  /\ result = [kind |-> "none", stamp |-> 0, env |-> 0, call_restart |-> "none",
               disrupted |-> FALSE, worker_restarted |-> FALSE, children |-> 0]
  /\ imports_seen = <<>>
  /\ stamps = [p \in Profiles |-> 0]
  /\ cycled_while_idle = FALSE
  /\ abnormal_restarts = <<>> /\ window_start = 1 /\ healthy = TRUE
  /\ restarts_total = 0
  /\ base = 1 /\ published = 1
  /\ child = [alive |-> TRUE, generation |-> 0, residue |-> 0, pooled |-> <<>>,
              env |-> [p \in Profiles |-> 0]]
  /\ built = [p \in Profiles |-> 1] /\ present = [p \in Profiles |-> TRUE]
  /\ clock = 0
  /\ ghost = [replaced |-> 0, unplanned |-> 0, jobs |-> 0, idle_cycles |-> 0]

(* cycle_if_imports_rebuilt compares two stamps, and only two it has. *)
previous_stamp_of_last_call(p) ==
  IF imports_seen # <<>> /\ imports_seen[Len(imports_seen)] = p THEN stamps[p] ELSE 0
previous_stamp(p) == IF Holds(imports_seen, p) THEN stamps[p] ELSE 0
rebuilt(p) ==
  /\ previous_stamp(p) # 0
  /\ artifact_stamp(p) > previous_stamp(p)

\* note_import_profile: most recent from now on, at the stamp just read.
note_import_profile(p) ==
  /\ imports_seen' = Used(imports_seen, p)
  /\ stamps' = [stamps EXCEPT ![p] = artifact_stamp(p)]
forget_every_profile(seen) == <<>>
forget_pooled_import_profiles(seen) ==
  IF seen = <<>> THEN <<>> ELSE <<seen[Len(seen)]>>

record_restart == restarts_total' = restarts_total + 1
EndJob(kind, restarted) ==
  /\ phase' = "idle"
  /\ result' = [kind |-> kind, stamp |-> job.stamp, env |-> child.env[job.profile],
                call_restart |-> job.call_restart, disrupted |-> job.disrupted,
                worker_restarted |-> restarted,
                children |-> ghost.replaced - job.replaced_before]
  /\ UNCHANGED job

NewJobSampledLate(p, r, restart) ==
  [profile |-> p, retries |-> r, retry_count |-> 0, stamp |-> artifact_stamp(p),
   outcome |-> "ok", restarts |-> <<>>, call_restart |-> restart,
   generation_before |-> observed_generation + (IF restart = "none" THEN 0 ELSE 1),
   replaced_before |-> ghost.replaced, disrupted |-> FALSE]
NewJob(p, r, restart) ==
  [profile |-> p, retries |-> r, retry_count |-> 0, stamp |-> artifact_stamp(p),
   outcome |-> "ok", restarts |-> <<>>, call_restart |-> restart,
   generation_before |-> observed_generation, replaced_before |-> ghost.replaced,
   disrupted |-> FALSE]

\* actor_main hands a message to handle_message only while healthy.
AcceptsWhenTripped == phase = "idle" /\ ghost.jobs < MaxJobs /\ cycled_while_idle' = FALSE
Accepts == phase = "idle" /\ healthy /\ ghost.jobs < MaxJobs /\ cycled_while_idle' = FALSE

(* run_job up to its first request: the profile's artifacts are as recorded, *)
(* or there is no stamp to compare.                                          *)
BeginJob(p, r) ==
  /\ Accepts
  /\ ~rebuilt(p)
  /\ note_import_profile(p)
  /\ job' = NewJob(p, r, "none")
  /\ phase' = "attempt"
  /\ ghost' = [ghost EXCEPT !.jobs = @ + 1, !.idle_cycles = 0]
  /\ UNCHANGED <<result, breakerVars, restarts_total, base, published, child,
                 diskVars, clock>>

(* ... or an artifact advanced, and the child is cycled first. *)
BeginJobRecycled(p, r) ==
  /\ Accepts
  /\ rebuilt(p)
  /\ ghost.replaced < MaxReplaced
  /\ stamps' = [stamps EXCEPT ![p] = artifact_stamp(p)]
  /\ imports_seen' = forget_pooled_import_profiles(Used(imports_seen, p))
  /\ child' = Replaced(child)
  /\ record_restart
  /\ job' = NewJob(p, r, "artifacts_rebuilt")
  /\ phase' = "attempt"
  /\ ghost' = [ghost EXCEPT !.jobs = @ + 1, !.replaced = @ + 1, !.idle_cycles = 0]
  /\ UNCHANGED <<result, breakerVars, base, published, diskVars, clock>>

(* ... or cycle() fails: the call ends, the new stamp is already recorded.  *)
(* The code relies on the old child being gone by then.                    *)
BeginJobCycleFails(p) ==
  /\ Accepts
  /\ rebuilt(p)
  /\ note_import_profile(p)
  /\ child' = Dead(child) \/ (FailedCyclesSpare /\ child' = child)
  /\ result' = [kind |-> "error", stamp |-> artifact_stamp(p), env |-> 0,
                call_restart |-> "none", disrupted |-> FALSE,
                worker_restarted |-> FALSE, children |-> 0]
  /\ ghost' = [ghost EXCEPT !.jobs = @ + 1, !.idle_cycles = 0]
  /\ UNCHANGED <<phase, job, breakerVars, restarts_total, base, published, diskVars, clock>>

(* run_semantic_job uses a child of its own; only the snapshot is touched, *)
(* and not even that when the capability does not open.                    *)
SemanticJob ==
  /\ Accepts
  /\ published' \in {published, observed_generation}
  /\ ghost' = [ghost EXCEPT !.jobs = @ + 1, !.idle_cycles = 0]
  /\ UNCHANGED <<phase, job, result, mirrorVars, breakerVars, restarts_total, base,
                 child, diskVars, clock>>

-----------------------------------------------------------------------------
(* One request to the worker: `first` are the replacements the supervisor  *)
(* makes before it opens the session, `after` those it makes once the      *)
(* request has failed. A request may also fail before any session is open. *)
Request(first, opens, outcome, after) ==
  LET started == IF first = <<>> THEN child ELSE Replaced(child)
      session == IF opens THEN WithSession(started, job.profile) ELSE started
      restarts == first \o after
  IN  /\ phase = "attempt"
      /\ opens => started.alive /\ (Holds(started.pooled, job.profile) \/ present[job.profile])
      /\ ghost.replaced + Len(restarts) <= MaxReplaced
      /\ child' = IF after # <<>> THEN Replaced(session)
                  ELSE IF outcome \in {"child_exit", "child_abort"} THEN Dead(session)
                  ELSE session
      /\ job' = [job EXCEPT !.outcome = outcome, !.restarts = restarts,
                   !.disrupted = @ \/ outcome # "ok" \/ first = <<"child_abort">>]
      /\ ghost' = [ghost EXCEPT
                     !.replaced = @ + Len(restarts),
                     !.unplanned = @ + Cardinality({i \in 1..Len(restarts) :
                                                      restarts[i] \in Abnormal})]
      /\ phase' = "account"
      /\ UNCHANGED <<result, mirrorVars, cycled_while_idle, breakerVars, restarts_total,
                     base, published, diskVars, clock>>

Answered == Request(RestartsFirst(child, job.profile), TRUE, "ok", <<>>)
SkipsImport == FailuresSkipImport \/ ~present[job.profile]
Failed ==
  \E opens \in BOOLEAN, outcome \in {"error", "session_missing"} :
    /\ ~opens => SkipsImport
    /\ Request(RestartsFirst(child, job.profile), opens, outcome, <<>>)
Killed ==
  \E opens \in BOOLEAN, outcome \in {"timeout", "rss_hard_limit_exceeded", "child_abort"} :
    Request(RestartsFirst(child, job.profile), opens, outcome, <<outcome>>)
Died ==
  \E opens \in BOOLEAN, outcome \in {"child_exit", "child_abort"},
     first \in {RestartsFirst(child, job.profile), <<>>} :
    /\ opens => first = RestartsFirst(child, job.profile)
    /\ Request(first, opens, outcome, <<>>)

-----------------------------------------------------------------------------
(* record_restart_or_stop, n times for one cause. abnormal_restart_times   *)
(* after its front has been popped is abnormal_restarts from s on.         *)
PopsToEarly(s) ==
  /\ s \in window_start..Len(abnormal_restarts) + 1
  /\ \A i \in window_start..s - 1 : clock - abnormal_restarts[i] >= RestartWindow
  /\ s <= Len(abnormal_restarts) => clock - abnormal_restarts[s] < RestartWindow
PopsTo(s) ==
  /\ s \in window_start..Len(abnormal_restarts) + 1
  /\ \A i \in window_start..s - 1 : clock - abnormal_restarts[i] > RestartWindow
  /\ s <= Len(abnormal_restarts) => clock - abnormal_restarts[s] <= RestartWindow
InWindow(s) == Len(abnormal_restarts) + 1 - s
Push(n) == abnormal_restarts' = abnormal_restarts \o [i \in 1..n |-> clock]

Admits(cause, n) ==
  IF cause \in Planned THEN UNCHANGED breakerVars
  ELSE /\ \E s \in 1..Len(abnormal_restarts) + 1 :
            PopsTo(s) /\ InWindow(s) + n <= MaxRestarts /\ window_start' = s
       /\ Push(n)
       /\ UNCHANGED healthy

(* The breaker trips: the project is unhealthy, the event is tallied and   *)
(* published, and the call ends with it whatever it had achieved.          *)
Trips(cause, n) ==
  /\ cause \in Abnormal
  /\ \E s \in 1..Len(abnormal_restarts) + 1 :
       /\ PopsTo(s) /\ InWindow(s) + n > MaxRestarts /\ window_start' = s
       /\ Push(MaxRestarts - InWindow(s))
  /\ healthy' = FALSE
  /\ record_restart
  /\ published' = observed_generation
  /\ EndJob("restart_limit_exceeded", FALSE)
  /\ UNCHANGED <<mirrorVars, cycled_while_idle, base, child, diskVars, clock, ghost>>

(* account_lifecycle_restarts_since: the supervisor's count since the      *)
(* baseline, every one of them under the last one's cause.                 *)
LastCause == job.restarts[Len(job.restarts)]
AccountNone ==
  /\ phase = "account" /\ job.restarts = <<>>
  /\ phase' = "settle"
  /\ UNCHANGED <<job, result, mirrorVars, cycled_while_idle, breakerVars, restarts_total,
                 base, published, child, diskVars, clock, ghost>>
AccountRestarts ==
  /\ phase = "account" /\ job.restarts # <<>>
  /\ Admits(LastCause, Len(job.restarts))
  /\ imports_seen' = forget_pooled_import_profiles(imports_seen)
  /\ record_restart
  /\ job' = [job EXCEPT !.call_restart = LastCause]
  /\ phase' = "settle"
  /\ UNCHANGED <<result, stamps, cycled_while_idle, base, published, child, diskVars,
                 clock, ghost>>
AccountTrips ==
  /\ phase = "account" /\ job.restarts # <<>>
  /\ Trips(LastCause, Len(job.restarts))

(* The end of a call: run_job's one finalization point, or the early       *)
(* return of an error that is not about the worker.                        *)
RetriesOneTooMany == job.outcome \in Retryable /\ job.retry_count <= job.retries
Retries == job.outcome \in Retryable /\ job.retry_count < job.retries
Finish ==
  /\ phase = "settle" /\ job.outcome # "error" /\ ~Retries
  /\ LET advanced == observed_generation > job.generation_before
     IN  IF job.outcome = "ok"
         THEN EndJob("done", job.call_restart # "none" \/ advanced)
         ELSE EndJob("unavailable", job.outcome = "rss_hard_limit_exceeded" \/ advanced)
  /\ published' = observed_generation
  /\ UNCHANGED <<mirrorVars, cycled_while_idle, breakerVars, restarts_total, base, child,
                 diskVars, clock, ghost>>
FailJob ==
  /\ phase = "settle" /\ job.outcome = "error"
  /\ EndJob("error", FALSE)
  /\ UNCHANGED <<mirrorVars, cycled_while_idle, breakerVars, restarts_total, base,
                 published, child, diskVars, clock, ghost>>

(* rebuild_after_worker_death and back to the top of the retry loop: the    *)
(* new handle numbers its children from zero again.                         *)
NextGenerationOfHandle == base + 1
NextGenerationForgotten == base
NextGeneration == observed_generation + 1
FirstRestartOfCall == IF job.call_restart = "none" THEN job.outcome ELSE job.call_restart
RestartOfCall == job.outcome
Rebuild ==
  /\ phase = "settle" /\ Retries
  /\ Admits(job.outcome, 1)
  /\ ghost.replaced < MaxReplaced
  /\ child' = [Replaced(child) EXCEPT !.generation = 0]
  /\ base' = NextGeneration
  /\ imports_seen' = forget_pooled_import_profiles(imports_seen)
  /\ record_restart
  /\ job' = [job EXCEPT !.retry_count = @ + 1, !.call_restart = RestartOfCall]
  /\ phase' = "attempt"
  /\ ghost' = [ghost EXCEPT !.replaced = @ + 1, !.unplanned = @ + 1]
  /\ UNCHANGED <<result, stamps, cycled_while_idle, published, diskVars, clock>>
RebuildFails ==
  /\ phase = "settle" /\ Retries
  /\ Admits(job.outcome, 1)
  /\ EndJob("error", FALSE)
  /\ ghost' = [ghost EXCEPT !.unplanned = @ + 1]
  /\ UNCHANGED <<mirrorVars, cycled_while_idle, restarts_total, base, published, child,
                 diskVars, clock>>
RebuildTrips ==
  /\ phase = "settle" /\ Retries
  /\ Trips(job.outcome, 1)

-----------------------------------------------------------------------------
(* cycle_over_soft_budget, between messages and whatever `healthy` says.   *)
over_soft_budget_again == child.residue > 0 /\ child.residue >= SoftResidue
over_soft_budget ==
  /\ ~cycled_while_idle
  /\ child.residue > 0 /\ child.residue >= SoftResidue

IdleCycle(fresh) ==
  /\ phase = "idle" /\ over_soft_budget
  /\ ghost.replaced < MaxReplaced
  /\ imports_seen' = <<>>
  /\ cycled_while_idle' = TRUE
  /\ record_restart
  /\ published' = observed_generation + 1
  /\ child' = fresh
  /\ UNCHANGED <<result, stamps, breakerVars, base, diskVars, clock>>

IdleCycleOnly ==
  /\ IdleCycle(Replaced(child))
  /\ ghost' = [ghost EXCEPT !.replaced = @ + 1, !.idle_cycles = @ + 1]
  /\ UNCHANGED <<phase, job>>
IdleCyclePrewarmed ==
  /\ imports_seen # <<>>
  /\ LET p == imports_seen[Len(imports_seen)]
     IN  /\ present[p]
         /\ IdleCycle(WithSession(Replaced(child), p))
         /\ job' = [job EXCEPT !.profile = p]
  /\ phase' = "prewarmed"
  /\ ghost' = [ghost EXCEPT !.replaced = @ + 1, !.idle_cycles = @ + 1]
\* The pre-warm itself dies or is timed out; nobody is told.
IdleCyclePrewarmFails ==
  /\ imports_seen # <<>>
  /\ ghost.replaced + 1 < MaxReplaced
  /\ \/ /\ IdleCycle(Dead(Replaced(child)))
        /\ ghost' = [ghost EXCEPT !.replaced = @ + 1, !.idle_cycles = @ + 1]
     \/ /\ IdleCycle(Replaced(Replaced(child)))
        /\ ghost' = [ghost EXCEPT !.replaced = @ + 2, !.unplanned = @ + 1, !.idle_cycles = @ + 1]
  /\ UNCHANGED <<phase, job>>
IdleCycleFails ==
  /\ phase = "idle" /\ over_soft_budget
  /\ child' \in {child, Dead(child)}
  /\ UNCHANGED <<phase, job, result, mirrorVars, cycled_while_idle, breakerVars,
                 restarts_total, base, published, diskVars, clock, ghost>>

\* The stamp of a pre-warmed profile is read once its import is over.
PrewarmStamp ==
  /\ phase = "prewarmed"
  /\ note_import_profile(job.profile)
  /\ phase' = "idle"
  /\ UNCHANGED <<job, result, cycled_while_idle, breakerVars, restarts_total, base,
                 published, child, diskVars, clock, ghost>>

-----------------------------------------------------------------------------
StartJob ==
  \/ SemanticJob
  \/ \E p \in Profiles :
       \/ BeginJobCycleFails(p)
       \/ \E r \in 0..MaxRetries : BeginJob(p, r) \/ BeginJobRecycled(p, r)
RunRequest == Answered \/ Failed \/ Killed \/ Died
AccountLifecycle == AccountNone \/ AccountRestarts \/ AccountTrips
SettleJob == Finish \/ FailJob \/ Rebuild \/ RebuildFails \/ RebuildTrips
IdleWork ==
  \/ IdleCycleOnly \/ IdleCyclePrewarmed \/ IdleCyclePrewarmFails \/ IdleCycleFails
  \/ PrewarmStamp
Environment == Tick \/ \E p \in Profiles : Build(p) \/ Vanish(p)

Next ==
  \/ StartJob \/ RunRequest \/ AccountLifecycle \/ SettleJob \/ IdleWork \/ Environment
Spec == Init /\ [][Next]_vars

-----------------------------------------------------------------------------
(* A call is never answered from an environment imported before a build    *)
(* that had ended when the call began: pooled sessions, recycles, retries  *)
(* and idle cycles included. It needs the four environment switches off;   *)
(* the configurations that turn one on show what the code does then.       *)
ServedFresh == result.kind = "done" => result.env >= result.stamp

(* Why it holds: every environment the child pools is remembered by        *)
(* imports_seen in the same MRU order, at a stamp no newer than itself.    *)
PoolIsRemembered ==
  phase = "idle" =>
    /\ Len(child.pooled) <= Len(imports_seen)
    /\ \A i \in 1..Len(child.pooled) :
         LET p == child.pooled[i]
         IN  /\ p = imports_seen[Len(imports_seen) - Len(child.pooled) + i]
             /\ stamps[p] \in 1..child.env[p]

(* The crash-loop breaker's window slides: any MaxRestarts + 1 consecutive  *)
(* abnormal restarts it let pass span more than the window, however many    *)
(* a single request caused and however the two places that record them      *)
(* alternate.                                                               *)
BreakerWindowSlides ==
  \A i \in 1..Len(abnormal_restarts) - MaxRestarts :
    abnormal_restarts[i + MaxRestarts] - abnormal_restarts[i] > RestartWindow

(* A project whose breaker tripped runs nothing more, not even the retry    *)
(* or the answer of the very call that tripped it.                          *)
TrippedRunsNothing ==
  ~healthy => phase \notin {"attempt", "account", "settle"}

(* The generation a response reports is one more than the children the     *)
(* project has gone through, whether the supervisor replaced one under the *)
(* handle, cycle() did, or rebuild_after_worker_death replaced the handle   *)
(* itself and restarted the handle's own numbering at zero.                 *)
GenerationCountsChildren ==
  /\ observed_generation = 1 + ghost.replaced
  /\ published <= observed_generation

(* worker_restarted tells a caller exactly whether its call went through    *)
(* more than one child.                                                     *)
RestartFactIsTrue ==
  result.kind \in {"done", "unavailable"} =>
    (result.worker_restarted <=> result.children > 0)

(* execution_taint sees every disruption: an answer obtained after a death, *)
(* an abort or a lost session in the same call carries a disrupting cause,  *)
(* never a planned one that happened to come later; and a call nothing      *)
(* disrupted is never tainted.                                              *)
TaintIsExact ==
  result.kind = "done" => (result.disrupted <=> result.call_restart \in Disrupting)

(* A retry starts from a child younger than the call, holding no session    *)
(* of the attempt that failed.                                              *)
RetryOnFreshChild ==
  phase = "attempt" /\ job.retry_count > 0 =>
    /\ observed_generation > job.generation_before
    /\ child.alive /\ child.pooled = <<>> /\ child.residue = 0
    /\ job.retry_count <= MaxRetries

(* The idle cycle never thrashes: none before the first message, and at     *)
(* most one between any message and the next, even though its own pre-warm  *)
(* can put the child back over the budget.                                  *)
IdleCyclesAreEarned == ghost.idle_cycles <= IF ghost.jobs = 0 THEN 0 ELSE 1

(* The generation readers of the snapshot see never goes backwards.         *)
PublishedNeverRegresses == [][published' >= published]_vars

(* docs/operations.md on import_residue cycles: planned, "neither counts    *)
(* toward runtime.worker_restart_limit". What counts was abnormal.          *)
PlannedNeverCounts == Len(abnormal_restarts) <= ghost.unplanned
=============================================================================
