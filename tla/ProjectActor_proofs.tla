------------------------- MODULE ProjectActor_proofs -------------------------
(***************************************************************************)
(* Proofs about ProjectActor, for every set of profiles, every budget,     *)
(* window and limit, and with every environment switch on: the state's     *)
(* types, the sliding window of the breaker, the generation and restart    *)
(* facts a response carries, taint, retries and idle cycles.               *)
(***************************************************************************)
EXTENDS ProjectActor, FiniteSetTheorems, TLAPS

\* The breaker's deque never holds more than the limit: Trips pushes a
\* number of entries that is a Nat.
WindowBounded == InWindow(window_start) <= MaxRestarts
\* A call's baseline is never ahead of the count it is compared with.
BaselineBehind == job.replaced_before <= ghost.replaced
ShapeOK == TypeOK /\ WindowBounded /\ BaselineBehind

-----------------------------------------------------------------------------
(* The helpers keep to their types.                                        *)

LEMMA RemoveAtType ==
  ASSUME NEW s \in Seq(Profiles), NEW i \in 1..Len(s)
  PROVE  RemoveAt(s, i) \in Seq(Profiles) /\ Len(RemoveAt(s, i)) = Len(s) - 1
<1>1. Len(s) - 1 \in Nat
  OBVIOUS
<1>2. \A j \in 1..Len(s) - 1 : (IF j < i THEN s[j] ELSE s[j + 1]) \in Profiles
  OBVIOUS
<1>3. RemoveAt(s, i) \in [1..Len(s) - 1 -> Profiles]
  BY <1>2 DEF RemoveAt
<1>4. QED BY <1>1, <1>3

LEMMA UsedType ==
  ASSUME NEW s \in Seq(Profiles), Len(s) <= PoolCapacity, NEW p \in Profiles
  PROVE  Used(s, p) \in Seq(Profiles) /\ Len(Used(s, p)) <= PoolCapacity
<1>0. PoolCapacity \in Nat \ {0}
  BY ActorConstants
<1>1. CASE Holds(s, p)
  <2>1. (CHOOSE i \in 1..Len(s) : s[i] = p) \in 1..Len(s)
    BY <1>1 DEF Holds
  <2>2. QED BY <1>0, <1>1, <2>1, RemoveAtType DEF Used
<1>2. CASE ~Holds(s, p) /\ Len(s) >= PoolCapacity
  <2>1. s # <<>> /\ Tail(s) \in Seq(Profiles) /\ Len(Tail(s)) = Len(s) - 1
    BY <1>0, <1>2
  <2>2. QED BY <1>0, <1>2, <2>1 DEF Used
<1>3. CASE ~Holds(s, p) /\ ~(Len(s) >= PoolCapacity)
  BY <1>0, <1>3 DEF Used
<1>4. QED BY <1>1, <1>2, <1>3

LEMMA ForgetType ==
  ASSUME NEW s \in Seq(Profiles)
  PROVE  /\ forget_pooled_import_profiles(s) \in Seq(Profiles)
         /\ Len(forget_pooled_import_profiles(s)) <= 1
<1>1. CASE s = <<>>
  BY <1>1 DEF forget_pooled_import_profiles
<1>2. CASE s # <<>>
  BY <1>2 DEF forget_pooled_import_profiles
<1>3. QED BY <1>1, <1>2

\* What TypeOK says of the child.
ChildOK(c) == c \in ChildType /\ Len(c.pooled) <= PoolCapacity

LEMMA ChildTypes ==
  ASSUME NEW c, ChildOK(c)
  PROVE  /\ ChildOK(Replaced(c)) /\ ChildOK(Dead(c))
         /\ Replaced(c).alive /\ Replaced(c).pooled = <<>> /\ Replaced(c).residue = 0
         /\ Replaced(c).generation = c.generation + 1
         /\ Dead(c).generation = c.generation /\ Dead(c).residue = c.residue
<1>1. PoolCapacity \in Nat
  BY ActorConstants
<1>2. /\ c.generation \in Nat /\ c.residue \in Nat /\ c.env \in [Profiles -> Nat]
      /\ <<>> \in Seq(Profiles) /\ Len(<<>>) = 0
  BY DEF ChildOK, ChildType
<1>3. QED BY <1>1, <1>2 DEF ChildOK, ChildType, Replaced, Dead

Imported(c, u, e, r) == [c EXCEPT !.pooled = u, !.env = e, !.residue = r]
LEMMA ImportedChild ==
  ASSUME NEW c \in ChildType, NEW u \in Seq(Profiles), NEW e \in [Profiles -> Nat],
         NEW r \in Nat
  PROVE  /\ Imported(c, u, e, r) \in ChildType
         /\ Imported(c, u, e, r).pooled = u
         /\ Imported(c, u, e, r).generation = c.generation
         /\ Imported(c, u, e, r).alive = c.alive
  BY DEF ChildType, Imported

LEMMA SessionTypes ==
  ASSUME NEW c, ChildOK(c), NEW p \in Profiles, built \in [Profiles -> Nat]
  PROVE  /\ ChildOK(WithSession(c, p))
         /\ WithSession(c, p).generation = c.generation
         /\ WithSession(c, p).alive = c.alive
<1>1. Used(c.pooled, p) \in Seq(Profiles) /\ Len(Used(c.pooled, p)) <= PoolCapacity
  BY UsedType DEF ChildOK, ChildType
<1>2. CASE Holds(c.pooled, p)
  BY <1>1, <1>2 DEF WithSession, ChildOK, ChildType
<1>3. CASE ~Holds(c.pooled, p)
  <2> DEFINE u == Used(c.pooled, p)
             e == [c.env EXCEPT ![p] = built[p]]
             r == c.residue + 1
             d == WithSession(c, p)
  <2>1. c \in ChildType /\ e \in [Profiles -> Nat] /\ r \in Nat
    BY DEF ChildOK, ChildType
  <2>2. d = Imported(c, u, e, r)
    BY <1>3 DEF WithSession, Imported
  <2>3. u \in Seq(Profiles) /\ Len(u) <= PoolCapacity
    BY <1>1
  <2> HIDE DEF u, e, r, d
  <2>4. d \in ChildType /\ d.pooled = u /\ d.generation = c.generation /\ d.alive = c.alive
    <3>1. /\ Imported(c, u, e, r) \in ChildType
          /\ Imported(c, u, e, r).pooled = u
          /\ Imported(c, u, e, r).generation = c.generation
          /\ Imported(c, u, e, r).alive = c.alive
      BY <2>1, <2>3, ImportedChild
    <3>2. QED BY <2>2, <3>1, Zenon
  <2>5. QED BY <2>3, <2>4 DEF ChildOK, d
<1>4. QED BY <1>2, <1>3

LEMMA RestartsFirstType ==
  ASSUME NEW c, NEW p
  PROVE  RestartsFirst(c, p) \in {<<>>, <<"child_abort">>, <<"import_residue">>}
  BY DEF RestartsFirst

LEMMA ArtifactStampType ==
  ASSUME built \in [Profiles -> Nat], NEW p \in Profiles
  PROVE  artifact_stamp(p) \in Nat
  BY DEF artifact_stamp

LEMMA NoteType ==
  ASSUME TypeOK, NEW p \in Profiles, note_import_profile(p)
  PROVE  /\ imports_seen' \in Seq(Profiles) /\ Len(imports_seen') <= PoolCapacity
         /\ stamps' \in [Profiles -> Nat]
<1>1. artifact_stamp(p) \in Nat
  BY ArtifactStampType DEF TypeOK
<1>2. Used(imports_seen, p) \in Seq(Profiles) /\ Len(Used(imports_seen, p)) <= PoolCapacity
  BY UsedType DEF TypeOK
<1>3. QED BY <1>1, <1>2 DEF TypeOK, note_import_profile

LEMMA NewJobType ==
  ASSUME TypeOK, NEW p \in Profiles, NEW r \in Nat, NEW restart \in Causes \cup {"none"}
  PROVE  /\ NewJob(p, r, restart) \in JobType
         /\ NewJob(p, r, restart).replaced_before = ghost.replaced
<1>1. artifact_stamp(p) \in Nat
  BY ArtifactStampType DEF TypeOK
<1>2. observed_generation \in Nat /\ ghost.replaced \in Nat
  BY DEF TypeOK, ChildType, GhostType, observed_generation
<1>3. "ok" \in Outcomes /\ <<>> \in Seq(Causes)
  BY DEF Outcomes
<1>4. QED BY <1>1, <1>2, <1>3 DEF NewJob, JobType

LEMMA EndJobType ==
  ASSUME TypeOK, BaselineBehind, NEW restarted \in BOOLEAN,
         NEW kind \in {"done", "unavailable", "error", "restart_limit_exceeded"},
         EndJob(kind, restarted)
  PROVE  result' \in ResultType /\ phase' = "idle" /\ job' = job
<1>1. ghost.replaced - job.replaced_before \in Nat
  BY DEF TypeOK, BaselineBehind, JobType, GhostType
<1>2. /\ job.stamp \in Nat /\ child.env[job.profile] \in Nat
      /\ job.call_restart \in Causes \cup {"none"} /\ job.disrupted \in BOOLEAN
  BY DEF TypeOK, JobType, ChildType
<1>3. QED BY <1>1, <1>2 DEF EndJob, ResultType

LEMMA PushType ==
  ASSUME TypeOK, WindowBounded, NEW n \in Nat, NEW s \in 1..Len(abnormal_restarts) + 1,
         InWindow(s) + n <= MaxRestarts, Push(n), window_start' = s
  PROVE  /\ abnormal_restarts' \in Seq(Nat)
         /\ Len(abnormal_restarts') = Len(abnormal_restarts) + n
         /\ window_start' \in 1..Len(abnormal_restarts') + 1
         /\ WindowBounded'
<1>1. [i \in 1..n |-> clock] \in Seq(Nat) /\ Len([i \in 1..n |-> clock]) = n
  BY DEF TypeOK
<1>2. /\ abnormal_restarts' \in Seq(Nat)
      /\ Len(abnormal_restarts') = Len(abnormal_restarts) + n
  BY <1>1 DEF TypeOK, Push
<1>3. QED BY <1>2, ActorConstants DEF TypeOK, WindowBounded, InWindow

LEMMA AdmitsType ==
  ASSUME TypeOK, WindowBounded, NEW cause \in Causes, NEW n \in Nat, Admits(cause, n)
  PROVE  /\ abnormal_restarts' \in Seq(Nat) /\ healthy' \in BOOLEAN
         /\ window_start' \in 1..Len(abnormal_restarts') + 1
         /\ WindowBounded'
<1>1. CASE cause \in Planned
  BY <1>1 DEF Admits, breakerVars, TypeOK, WindowBounded, InWindow
<1>2. CASE cause \notin Planned
  BY <1>2, PushType DEF Admits, TypeOK
<1>3. QED BY <1>1, <1>2

LEMMA TripsType ==
  ASSUME ShapeOK, NEW cause, NEW n \in Nat, Trips(cause, n)
  PROVE  ShapeOK'
<1>1. PICK s \in 1..Len(abnormal_restarts) + 1 :
        /\ PopsTo(s) /\ InWindow(s) + n > MaxRestarts /\ window_start' = s
        /\ Push(MaxRestarts - InWindow(s))
  BY DEF Trips
<1>2. MaxRestarts - InWindow(s) \in Nat
  <2>1. window_start <= s /\ s \in Nat /\ window_start \in Nat /\ MaxRestarts \in Nat
    BY <1>1, ActorConstants DEF PopsTo, ShapeOK, TypeOK
  <2>2. Len(abnormal_restarts) \in Nat
    BY DEF ShapeOK, TypeOK
  <2>3. QED BY <2>1, <2>2 DEF ShapeOK, WindowBounded, InWindow
<1>3. InWindow(s) + (MaxRestarts - InWindow(s)) <= MaxRestarts
  BY <1>1, ActorConstants DEF ShapeOK, TypeOK, InWindow
<1>4. /\ abnormal_restarts' \in Seq(Nat)
      /\ window_start' \in 1..Len(abnormal_restarts') + 1
      /\ WindowBounded'
  BY <1>1, <1>2, <1>3, PushType DEF ShapeOK
<1>5. result' \in ResultType /\ phase' = "idle" /\ job' = job
  BY EndJobType DEF ShapeOK, Trips
<1>6. published' \in Nat
  BY DEF ShapeOK, Trips, TypeOK, ChildType, observed_generation
<1>7. healthy' = FALSE /\ restarts_total' = restarts_total + 1 /\ restarts_total \in Nat
  BY DEF ShapeOK, Trips, TypeOK, record_restart
<1>8. BaselineBehind'
  BY <1>5 DEF ShapeOK, Trips, BaselineBehind
<1>9. UNCHANGED <<imports_seen, stamps, cycled_while_idle, base, child, built, present,
                  clock, ghost>>
  BY DEF Trips, mirrorVars, diskVars
<1>10. TypeOK'
  <2>1. healthy' \in BOOLEAN
    BY <1>7, Zenon
  <2>2. restarts_total' \in Nat
    BY <1>7
  <2>3. QED BY <1>4, <1>5, <1>6, <1>9, <2>1, <2>2 DEF ShapeOK, TypeOK
<1>11. QED BY <1>4, <1>8, <1>10 DEF ShapeOK

-----------------------------------------------------------------------------
(* Type correctness, one step per action.                                  *)

AfterRequest(outcome, restarts, disrupted) ==
  [job EXCEPT !.outcome = outcome, !.restarts = restarts, !.disrupted = disrupted]
LEMMA AfterRequestType ==
  ASSUME job \in JobType, NEW o \in Outcomes, NEW r \in Seq(Causes), NEW d \in BOOLEAN
  PROVE  /\ AfterRequest(o, r, d) \in JobType
         /\ AfterRequest(o, r, d).replaced_before = job.replaced_before
  BY DEF AfterRequest, JobType

\* The ways the counters move.
AfterJob(n) == [ghost EXCEPT !.jobs = n, !.idle_cycles = 0]
AfterCount(r, u) == [ghost EXCEPT !.replaced = r, !.unplanned = u]
AfterRecycle(j, r) == [ghost EXCEPT !.jobs = j, !.replaced = r, !.idle_cycles = 0]
AfterIdle(r, i) == [ghost EXCEPT !.replaced = r, !.idle_cycles = i]
AfterIdleLoss(r, u, i) == [ghost EXCEPT !.replaced = r, !.unplanned = u, !.idle_cycles = i]
LEMMA GhostTypes ==
  ASSUME ghost \in GhostType, NEW r \in Nat, NEW n \in Nat, NEW m \in Nat
  PROVE  /\ AfterJob(n) \in GhostType /\ AfterJob(n).replaced = ghost.replaced
         /\ AfterCount(r, n) \in GhostType /\ AfterCount(r, n).replaced = r
         /\ AfterRecycle(n, r) \in GhostType /\ AfterRecycle(n, r).replaced = r
         /\ AfterIdle(r, n) \in GhostType /\ AfterIdle(r, n).replaced = r
         /\ AfterIdleLoss(r, n, m) \in GhostType /\ AfterIdleLoss(r, n, m).replaced = r
<1>1. AfterCount(r, n) \in GhostType /\ AfterCount(r, n).replaced = r
  BY DEF AfterCount, GhostType
<1>2. AfterRecycle(n, r) \in GhostType /\ AfterRecycle(n, r).replaced = r
  BY DEF AfterRecycle, GhostType
<1>3. AfterIdle(r, n) \in GhostType /\ AfterIdle(r, n).replaced = r
  BY DEF AfterIdle, GhostType
<1>4. AfterIdleLoss(r, n, m) \in GhostType /\ AfterIdleLoss(r, n, m).replaced = r
  BY DEF AfterIdleLoss, GhostType
<1>5. AfterJob(n) \in GhostType /\ AfterJob(n).replaced = ghost.replaced
  BY DEF AfterJob, GhostType
<1>6. QED BY <1>1, <1>2, <1>3, <1>4, <1>5

\* How many of the replacements a request caused were abnormal.
CountAbnormal(restarts) == Cardinality({i \in 1..Len(restarts) : restarts[i] \in Abnormal})
LEMMA CountAbnormalType ==
  ASSUME NEW r \in Seq(Causes)
  PROVE  CountAbnormal(r) \in Nat
<1>1. IsFiniteSet(1..Len(r))
  BY FS_Interval
<1>2. {i \in 1..Len(r) : r[i] \in Abnormal} \in SUBSET (1..Len(r))
  OBVIOUS
<1>3. QED BY <1>1, <1>2, FS_Subset, FS_CardinalityType DEF CountAbnormal

LEMMA RequestType ==
  ASSUME ShapeOK, NEW first \in Seq(Causes), NEW after \in Seq(Causes),
         NEW opens \in BOOLEAN, NEW outcome \in Outcomes,
         Request(first, opens, outcome, after)
  PROVE  ShapeOK'
<1> DEFINE started == IF first = <<>> THEN child ELSE Replaced(child)
           session == IF opens THEN WithSession(started, job.profile) ELSE started
           restarts == first \o after
           many == Len(restarts)
           counted == CountAbnormal(restarts)
           hit == job.disrupted \/ outcome # "ok" \/ first = <<"child_abort">>
<1>1. restarts \in Seq(Causes) /\ counted \in Nat /\ many \in Nat
  <2>1. restarts \in Seq(Causes)
    OBVIOUS
  <2> HIDE DEF restarts
  <2>2. QED BY <2>1, CountAbnormalType
<1>2. ChildOK(child)
  BY DEF ShapeOK, TypeOK, ChildOK
<1>3. ChildOK(started)
  BY <1>2, ChildTypes
<1>4. ChildOK(session)
  BY <1>3, SessionTypes DEF ShapeOK, TypeOK, JobType
<1>5. ChildOK(child')
  <2>1. child' \in {Replaced(session), Dead(session), session}
    BY DEF Request
  <2>2. QED BY <1>4, <2>1, ChildTypes
<1>6. job' = AfterRequest(outcome, restarts, hit)
  BY DEF Request, AfterRequest
<1>7. job' \in JobType /\ job'.replaced_before = job.replaced_before
  <2>1. hit \in BOOLEAN
    BY Zenon DEF ShapeOK, TypeOK
  <2> HIDE DEF hit, restarts
  <2>2. QED BY <1>1, <1>6, <2>1, AfterRequestType DEF ShapeOK, TypeOK
<1>8. ghost' = AfterCount(ghost.replaced + many, ghost.unplanned + counted)
  BY DEF Request, AfterCount, CountAbnormal
<1>9. ghost' \in GhostType /\ ghost'.replaced = ghost.replaced + many
  <2> HIDE DEF counted, many
  <2>1. ghost.replaced + many \in Nat /\ ghost.unplanned + counted \in Nat
    BY <1>1 DEF ShapeOK, TypeOK, GhostType
  <2>2. QED BY <1>8, <2>1, GhostTypes DEF ShapeOK, TypeOK
<1>10. /\ phase' = "account"
       /\ UNCHANGED <<result, imports_seen, stamps, cycled_while_idle, abnormal_restarts,
                      window_start, healthy, restarts_total, base, published, built,
                      present, clock>>
  BY DEF Request, mirrorVars, breakerVars, diskVars
<1>11. BaselineBehind'
  <2> HIDE DEF many
  <2>1. job.replaced_before \in Nat /\ ghost.replaced \in Nat /\ many \in Nat
    BY <1>1 DEF ShapeOK, TypeOK, JobType, GhostType
  <2>2. QED BY <1>7, <1>9, <2>1 DEF ShapeOK, BaselineBehind
<1>12. WindowBounded'
  BY <1>10 DEF ShapeOK, WindowBounded, InWindow
<1>13. TypeOK'
  BY <1>5, <1>7, <1>9, <1>10 DEF ShapeOK, TypeOK, ChildOK
<1>14. QED BY <1>11, <1>12, <1>13 DEF ShapeOK

LEMMA StartTypes ==
  ASSUME ShapeOK, StartJob
  PROVE  ShapeOK'
<1> USE DEF ShapeOK
<1>0. ghost \in GhostType /\ ghost.jobs + 1 \in Nat /\ ghost.replaced + 1 \in Nat
  BY DEF TypeOK, GhostType
<1>1. AfterJob(ghost.jobs + 1) \in GhostType
  BY <1>0, GhostTypes
<1>2. AfterJob(ghost.jobs + 1).replaced = ghost.replaced
  BY <1>0, GhostTypes
<1>3. ChildOK(Replaced(child)) /\ ChildOK(Dead(child)) /\ ChildOK(child)
  BY ChildTypes DEF TypeOK, ChildOK
<1>4. observed_generation \in Nat
  BY DEF TypeOK, ChildType, observed_generation
<1>5. job.replaced_before \in Nat /\ ghost.replaced \in Nat
  BY DEF TypeOK, JobType, GhostType
<1>6. {"none", "artifacts_rebuilt"} \subseteq Causes \cup {"none"}
  BY DEF Causes, Planned
<1>7. ASSUME NEW p \in Profiles, NEW r \in 0..MaxRetries, BeginJob(p, r)
      PROVE  ShapeOK'
  <2>1. r \in Nat
    BY <1>7, ActorConstants
  <2>2. job' \in JobType /\ job'.replaced_before = ghost.replaced
    BY <1>6, <1>7, <2>1, NewJobType DEF BeginJob
  <2>3. /\ imports_seen' \in Seq(Profiles) /\ Len(imports_seen') <= PoolCapacity
        /\ stamps' \in [Profiles -> Nat]
    BY <1>7, NoteType DEF BeginJob
  <2>4. /\ UNCHANGED <<result, abnormal_restarts, window_start, healthy, restarts_total,
                       base, published, child, built, present, clock>>
        /\ phase' = "attempt" /\ cycled_while_idle' = FALSE
        /\ ghost' \in GhostType /\ ghost'.replaced = ghost.replaced
    BY <1>1, <1>2, <1>7 DEF BeginJob, Accepts, AfterJob, breakerVars, diskVars
  <2>5. TypeOK'
    BY <2>2, <2>3, <2>4 DEF TypeOK
  <2>6. QED BY <1>5, <2>2, <2>4, <2>5 DEF WindowBounded, InWindow, BaselineBehind
<1>8. ASSUME NEW p \in Profiles, NEW r \in 0..MaxRetries, BeginJobRecycled(p, r)
      PROVE  ShapeOK'
  <2>1. r \in Nat
    BY <1>8, ActorConstants
  <2>2. job' \in JobType /\ job'.replaced_before = ghost.replaced
    BY <1>6, <1>8, <2>1, NewJobType DEF BeginJobRecycled
  <2>3. /\ imports_seen' \in Seq(Profiles) /\ Len(imports_seen') <= PoolCapacity
        /\ stamps' \in [Profiles -> Nat]
    <3>1. Used(imports_seen, p) \in Seq(Profiles)
      BY UsedType DEF TypeOK
    <3>2. artifact_stamp(p) \in Nat
      BY ArtifactStampType DEF TypeOK
    <3>3. 1 <= PoolCapacity /\ PoolCapacity \in Nat
      BY ActorConstants
    <3>4. Len(imports_seen') \in Nat /\ Len(imports_seen') <= 1
      BY <1>8, <3>1, ForgetType DEF BeginJobRecycled
    <3>5. QED BY <1>8, <3>1, <3>2, <3>3, <3>4, ForgetType DEF BeginJobRecycled, TypeOK
  <2>4. ghost' = AfterRecycle(ghost.jobs + 1, ghost.replaced + 1)
    BY <1>8 DEF BeginJobRecycled, AfterRecycle
  <2>5. ghost' \in GhostType /\ ghost'.replaced = ghost.replaced + 1
    BY <1>0, <2>4, GhostTypes
  <2>6. /\ UNCHANGED <<result, abnormal_restarts, window_start, healthy, base, published,
                       built, present, clock>>
        /\ phase' = "attempt" /\ cycled_while_idle' = FALSE
        /\ child' = Replaced(child) /\ restarts_total' = restarts_total + 1
    BY <1>8 DEF BeginJobRecycled, Accepts, breakerVars, diskVars, record_restart
  <2>7. TypeOK'
    <3>1. child' \in ChildType /\ Len(child'.pooled) <= PoolCapacity
      BY <1>3, <2>6 DEF ChildOK
    <3>2. restarts_total' \in Nat
      BY <2>6 DEF TypeOK
    <3>3. QED BY <2>2, <2>3, <2>5, <2>6, <3>1, <3>2 DEF TypeOK
  <2>8. QED BY <1>5, <2>2, <2>5, <2>6, <2>7 DEF WindowBounded, InWindow, BaselineBehind
<1>9. ASSUME NEW p \in Profiles, BeginJobCycleFails(p)
      PROVE  ShapeOK'
  <2>1. /\ imports_seen' \in Seq(Profiles) /\ Len(imports_seen') <= PoolCapacity
        /\ stamps' \in [Profiles -> Nat]
    BY <1>9, NoteType DEF BeginJobCycleFails
  <2>2. result' \in ResultType
    BY <1>9, ArtifactStampType DEF BeginJobCycleFails, ResultType, TypeOK
  <2>3. /\ UNCHANGED <<phase, job, abnormal_restarts, window_start, healthy, restarts_total,
                       base, published, built, present, clock>>
        /\ cycled_while_idle' = FALSE /\ child' \in {child, Dead(child)}
        /\ ghost' \in GhostType /\ ghost'.replaced = ghost.replaced
    BY <1>1, <1>2, <1>9 DEF BeginJobCycleFails, Accepts, AfterJob, breakerVars, diskVars
  <2>4. TypeOK'
    BY <1>3, <2>1, <2>2, <2>3 DEF TypeOK, ChildOK
  <2>5. QED BY <1>5, <2>3, <2>4 DEF WindowBounded, InWindow, BaselineBehind
<1>10. CASE SemanticJob
  <2>1. /\ UNCHANGED <<phase, job, result, imports_seen, stamps, abnormal_restarts,
                       window_start, healthy, restarts_total, base, child, built, present,
                       clock>>
        /\ cycled_while_idle' = FALSE /\ published' \in Nat
        /\ ghost' \in GhostType /\ ghost'.replaced = ghost.replaced
    BY <1>1, <1>2, <1>4, <1>10 DEF SemanticJob, Accepts, AfterJob, mirrorVars,
         breakerVars, diskVars, TypeOK
  <2>2. TypeOK'
    BY <2>1 DEF TypeOK
  <2>3. QED BY <1>5, <2>1, <2>2 DEF WindowBounded, InWindow, BaselineBehind
<1>11. QED BY <1>7, <1>8, <1>9, <1>10 DEF StartJob

LEMMA RequestTypes ==
  ASSUME ShapeOK, RunRequest
  PROVE  ShapeOK'
<1> DEFINE first == RestartsFirst(child, job.profile)
<1>1. first \in Seq(Causes)
  <2>1. first \in {<<>>, <<"child_abort">>, <<"import_residue">>}
    BY RestartsFirstType
  <2>2. "child_abort" \in Causes /\ "import_residue" \in Causes
    BY DEF Causes, Abnormal, Planned
  <2>3. <<"child_abort">> \in Seq(Causes) /\ <<"import_residue">> \in Seq(Causes)
    BY <2>2
  <2>4. <<>> \in Seq(Causes)
    OBVIOUS
  <2>5. QED BY <2>1, <2>3, <2>4, Zenon
<1>2. <<>> \in Seq(Causes)
  OBVIOUS
<1> HIDE DEF first
<1>3. CASE Answered
  <2>1. "ok" \in Outcomes
    BY DEF Outcomes
  <2>2. QED BY <1>1, <1>2, <1>3, <2>1, RequestType DEF Answered, first
<1>4. CASE Failed
  <2>1. PICK opens \in BOOLEAN, outcome \in {"error", "session_missing"} :
          Request(first, opens, outcome, <<>>)
    BY <1>4 DEF Failed, first
  <2>2. outcome \in Outcomes
    BY DEF Outcomes
  <2>3. QED BY <1>1, <1>2, <2>1, <2>2, RequestType
<1>5. CASE Killed
  <2>1. PICK opens \in BOOLEAN,
             outcome \in {"timeout", "rss_hard_limit_exceeded", "child_abort"} :
          Request(first, opens, outcome, <<outcome>>)
    BY <1>5 DEF Killed, first
  <2>2. outcome \in Outcomes /\ outcome \in Causes
    BY DEF Outcomes, Causes, Abnormal
  <2>3. <<outcome>> \in Seq(Causes)
    BY <2>2
  <2>4. QED BY <1>1, <2>1, <2>2, <2>3, RequestType
<1>6. CASE Died
  <2>1. PICK opens \in BOOLEAN, outcome \in {"child_exit", "child_abort"}, f \in {first, <<>>} :
          Request(f, opens, outcome, <<>>)
    BY <1>6 DEF Died, first
  <2>2. outcome \in Outcomes
    BY DEF Outcomes
  <2>3. f \in Seq(Causes)
    BY <1>1, <1>2, Zenon
  <2>4. QED BY <1>2, <2>1, <2>2, <2>3, RequestType
<1>7. QED BY <1>3, <1>4, <1>5, <1>6 DEF RunRequest

\* The causes a restart is recorded under are causes.
LEMMA CausesOfJob ==
  ASSUME TypeOK
  PROVE  /\ job.restarts # <<>> => LastCause \in Causes /\ Len(job.restarts) \in Nat
         /\ Retries => job.outcome \in Causes
  BY DEF TypeOK, JobType, LastCause, Retries, Retryable, Causes, Abnormal

RecordedOn(j, c) == [j EXCEPT !.call_restart = c]
RetriedOn(j, n, c) == [j EXCEPT !.retry_count = n, !.call_restart = c]
LEMMA RecordedType ==
  ASSUME job \in JobType, NEW c \in Causes, NEW n \in Nat
  PROVE  /\ RecordedOn(job, c) \in JobType
         /\ RecordedOn(job, c).replaced_before = job.replaced_before
         /\ RetriedOn(job, n, c) \in JobType
         /\ RetriedOn(job, n, c).replaced_before = job.replaced_before
<1>1. /\ RecordedOn(job, c) \in JobType
      /\ RecordedOn(job, c).replaced_before = job.replaced_before
  BY DEF RecordedOn, JobType
<1>2. /\ RetriedOn(job, n, c) \in JobType
      /\ RetriedOn(job, n, c).replaced_before = job.replaced_before
  BY DEF RetriedOn, JobType
<1>3. QED BY <1>1, <1>2

LEMMA ForgottenType ==
  ASSUME TypeOK, imports_seen' = forget_pooled_import_profiles(imports_seen)
  PROVE  imports_seen' \in Seq(Profiles) /\ Len(imports_seen') <= PoolCapacity
<1>1. imports_seen' \in Seq(Profiles) /\ Len(imports_seen') <= 1
  BY ForgetType DEF TypeOK
<1>2. Len(imports_seen') \in Nat /\ 1 <= PoolCapacity /\ PoolCapacity \in Nat
  BY <1>1, ActorConstants
<1>3. QED BY <1>1, <1>2

LEMMA AccountTypes ==
  ASSUME ShapeOK, AccountLifecycle
  PROVE  ShapeOK'
<1> USE DEF ShapeOK
<1>1. CASE AccountNone
  BY <1>1 DEF AccountNone, TypeOK, WindowBounded, InWindow, BaselineBehind, mirrorVars,
              breakerVars, diskVars
<1>2. CASE AccountTrips
  BY <1>2, TripsType, CausesOfJob DEF AccountTrips
<1>3. CASE AccountRestarts
  <2>1. LastCause \in Causes /\ Len(job.restarts) \in Nat
    BY <1>3, CausesOfJob DEF AccountRestarts
  <2>2. /\ abnormal_restarts' \in Seq(Nat) /\ healthy' \in BOOLEAN
        /\ window_start' \in 1..Len(abnormal_restarts') + 1
        /\ WindowBounded'
    BY <1>3, <2>1, AdmitsType DEF AccountRestarts
  <2>3. imports_seen' \in Seq(Profiles) /\ Len(imports_seen') <= PoolCapacity
    BY <1>3, ForgottenType DEF AccountRestarts
  <2>4. job' \in JobType /\ job'.replaced_before = job.replaced_before
    <3>1. job' = RecordedOn(job, LastCause)
      BY <1>3 DEF AccountRestarts, RecordedOn
    <3>2. QED BY <2>1, <3>1, RecordedType DEF TypeOK
  <2>5. /\ phase' = "settle" /\ restarts_total' = restarts_total + 1
        /\ UNCHANGED <<result, stamps, cycled_while_idle, base, published, child, built,
                       present, clock, ghost>>
    BY <1>3 DEF AccountRestarts, record_restart, diskVars
  <2>6. restarts_total' \in Nat
    BY <2>5 DEF TypeOK
  <2>7. TypeOK'
    BY <2>2, <2>3, <2>4, <2>5, <2>6 DEF TypeOK
  <2>8. QED BY <2>2, <2>4, <2>5, <2>7 DEF BaselineBehind
<1>4. QED BY <1>1, <1>2, <1>3 DEF AccountLifecycle

LEMMA SettleTypes ==
  ASSUME ShapeOK, SettleJob
  PROVE  ShapeOK'
<1> USE DEF ShapeOK
<1>1. CASE Finish
  <2>1. /\ UNCHANGED <<imports_seen, stamps, cycled_while_idle, abnormal_restarts,
                       window_start, healthy, restarts_total, base, child, built, present,
                       clock, ghost>>
        /\ published' = observed_generation
    BY <1>1 DEF Finish, mirrorVars, breakerVars, diskVars
  <2>2. \E kind \in {"done", "unavailable"}, restarted \in BOOLEAN : EndJob(kind, restarted)
    <3> DEFINE advanced == observed_generation > job.generation_before
               one == job.call_restart # "none" \/ advanced
               two == job.outcome = "rss_hard_limit_exceeded" \/ advanced
    <3>1. one \in BOOLEAN /\ two \in BOOLEAN
      OBVIOUS
    <3>2. EndJob("done", one) \/ EndJob("unavailable", two)
      BY <1>1 DEF Finish
    <3> HIDE DEF one, two
    <3>3. QED BY <3>1, <3>2
  <2>3. result' \in ResultType /\ phase' = "idle" /\ job' = job
    BY <2>2, EndJobType
  <2>4. published' \in Nat
    BY <2>1 DEF TypeOK, ChildType, observed_generation
  <2>5. TypeOK'
    BY <2>1, <2>3, <2>4 DEF TypeOK
  <2>6. QED BY <2>1, <2>3, <2>5 DEF WindowBounded, InWindow, BaselineBehind
<1>2. CASE FailJob
  <2>1. /\ UNCHANGED <<imports_seen, stamps, cycled_while_idle, abnormal_restarts,
                       window_start, healthy, restarts_total, base, published, child,
                       built, present, clock, ghost>>
    BY <1>2 DEF FailJob, mirrorVars, breakerVars, diskVars
  <2>2. result' \in ResultType /\ phase' = "idle" /\ job' = job
    BY <1>2, EndJobType DEF FailJob
  <2>3. TypeOK'
    BY <2>1, <2>2 DEF TypeOK
  <2>4. QED BY <2>1, <2>2, <2>3 DEF WindowBounded, InWindow, BaselineBehind
<1>3. CASE Rebuild
  <2>1. job.outcome \in Causes
    BY <1>3, CausesOfJob DEF Rebuild
  <2>2. /\ abnormal_restarts' \in Seq(Nat) /\ healthy' \in BOOLEAN
        /\ window_start' \in 1..Len(abnormal_restarts') + 1
        /\ WindowBounded'
    BY <1>3, <2>1, AdmitsType DEF Rebuild
  <2>3. imports_seen' \in Seq(Profiles) /\ Len(imports_seen') <= PoolCapacity
    BY <1>3, ForgottenType DEF Rebuild
  <2>4. job' \in JobType /\ job'.replaced_before = job.replaced_before
    <3>1. job' = RetriedOn(job, job.retry_count + 1, job.outcome)
      BY <1>3 DEF Rebuild, RestartOfCall, RetriedOn
    <3>2. job.retry_count + 1 \in Nat /\ job \in JobType
      BY DEF TypeOK, JobType
    <3>3. QED BY <2>1, <3>1, <3>2, RecordedType
  <2>5. ghost' \in GhostType /\ ghost'.replaced = ghost.replaced + 1
    <3>1. ghost' = AfterCount(ghost.replaced + 1, ghost.unplanned + 1)
      BY <1>3 DEF Rebuild, AfterCount
    <3>2. /\ ghost \in GhostType
          /\ ghost.replaced + 1 \in Nat /\ ghost.unplanned + 1 \in Nat
      BY DEF TypeOK, GhostType
    <3>3. QED BY <3>1, <3>2, GhostTypes
  <2>6. child' \in ChildType /\ Len(child'.pooled) <= PoolCapacity
    <3>1. ChildOK(Replaced(child))
      BY ChildTypes DEF TypeOK, ChildOK
    <3> DEFINE d == Replaced(child)
    <3>2. child' = [d EXCEPT !.generation = 0]
      BY <1>3 DEF Rebuild
    <3> HIDE DEF d
    <3>3. child' \in ChildType /\ child'.pooled = d.pooled
      BY <3>1, <3>2 DEF ChildOK, ChildType, d
    <3>4. QED BY <3>1, <3>3 DEF ChildOK, d
  <2>7. /\ phase' = "attempt"
        /\ UNCHANGED <<result, stamps, cycled_while_idle, published, built, present, clock>>
    BY <1>3 DEF Rebuild, diskVars
  <2>8. base' \in Nat /\ restarts_total' \in Nat
    BY <1>3 DEF Rebuild, NextGeneration, observed_generation, record_restart, TypeOK, ChildType
  <2>9. TypeOK'
    BY <2>2, <2>3, <2>4, <2>5, <2>6, <2>7, <2>8 DEF TypeOK
  <2>10. job.replaced_before \in Nat /\ ghost.replaced \in Nat
    BY DEF TypeOK, JobType, GhostType
  <2>11. QED BY <2>2, <2>4, <2>5, <2>9, <2>10 DEF BaselineBehind
<1>4. CASE RebuildFails
  <2>1. job.outcome \in Causes
    BY <1>4, CausesOfJob DEF RebuildFails
  <2>2. /\ abnormal_restarts' \in Seq(Nat) /\ healthy' \in BOOLEAN
        /\ window_start' \in 1..Len(abnormal_restarts') + 1
        /\ WindowBounded'
    BY <1>4, <2>1, AdmitsType DEF RebuildFails
  <2>3. result' \in ResultType /\ phase' = "idle" /\ job' = job
    BY <1>4, EndJobType DEF RebuildFails
  <2>4. ghost' \in GhostType /\ ghost'.replaced = ghost.replaced
    <3>1. ghost' = [ghost EXCEPT !.unplanned = @ + 1]
      BY <1>4 DEF RebuildFails
    <3>2. ghost \in GhostType
      BY DEF TypeOK
    <3>3. QED BY <3>1, <3>2 DEF GhostType
  <2>5. UNCHANGED <<imports_seen, stamps, cycled_while_idle, restarts_total, base,
                    published, child, built, present, clock>>
    BY <1>4 DEF RebuildFails, mirrorVars, diskVars
  <2>6. TypeOK'
    BY <2>2, <2>3, <2>4, <2>5 DEF TypeOK
  <2>7. QED BY <2>2, <2>3, <2>4, <2>6 DEF BaselineBehind
<1>5. CASE RebuildTrips
  BY <1>5, TripsType DEF RebuildTrips
<1>6. QED BY <1>1, <1>2, <1>3, <1>4, <1>5 DEF SettleJob

\* All that the idle cycles share; they differ in the child they end with.
LEMMA IdleCycleTypes ==
  ASSUME ShapeOK, NEW fresh, ChildOK(fresh), IdleCycle(fresh),
         phase' \in {"idle", "prewarmed"}, job' \in JobType,
         job'.replaced_before = job.replaced_before,
         ghost' \in GhostType, ghost'.replaced >= ghost.replaced
  PROVE  ShapeOK'
<1>1. /\ UNCHANGED <<result, stamps, abnormal_restarts, window_start, healthy, base, built,
                     present, clock>>
      /\ imports_seen' = <<>> /\ cycled_while_idle' = TRUE /\ child' = fresh
  BY DEF IdleCycle, breakerVars, diskVars
<1>2. published' \in Nat /\ restarts_total' \in Nat
  BY DEF IdleCycle, ShapeOK, TypeOK, ChildType, observed_generation, record_restart
<1>3. imports_seen' \in Seq(Profiles) /\ Len(imports_seen') <= PoolCapacity
  <2>1. PoolCapacity \in Nat
    BY ActorConstants
  <2>2. QED BY <1>1, <2>1
<1>4. child' \in ChildType /\ Len(child'.pooled) <= PoolCapacity
  BY <1>1 DEF ChildOK
<1>5. TypeOK'
  BY <1>1, <1>2, <1>3, <1>4 DEF ShapeOK, TypeOK
<1>6. job.replaced_before \in Nat /\ ghost.replaced \in Nat /\ ghost'.replaced \in Nat
  BY DEF ShapeOK, TypeOK, JobType, GhostType
<1>7. BaselineBehind'
  BY <1>6 DEF ShapeOK, BaselineBehind
<1>8. QED BY <1>1, <1>5, <1>7 DEF ShapeOK, WindowBounded, InWindow

LEMMA IdleTypes ==
  ASSUME ShapeOK, IdleWork
  PROVE  ShapeOK'
<1> USE DEF ShapeOK
<1>1. ChildOK(child) /\ ChildOK(Replaced(child)) /\ ChildOK(Dead(child))
  BY ChildTypes DEF TypeOK, ChildOK
<1>2. /\ ghost \in GhostType /\ ghost.replaced \in Nat /\ ghost.unplanned + 1 \in Nat
      /\ ghost.idle_cycles + 1 \in Nat
  BY DEF TypeOK, GhostType
<1>3. ghost.replaced + 1 \in Nat /\ ghost.replaced + 2 \in Nat
  BY <1>2
<1>4. job \in JobType /\ job.replaced_before \in Nat
  BY DEF TypeOK, JobType
<1>5. /\ AfterIdle(ghost.replaced + 1, ghost.idle_cycles + 1) \in GhostType
      /\ AfterIdle(ghost.replaced + 1, ghost.idle_cycles + 1).replaced >= ghost.replaced
  <2>1. /\ AfterIdle(ghost.replaced + 1, ghost.idle_cycles + 1) \in GhostType
        /\ AfterIdle(ghost.replaced + 1, ghost.idle_cycles + 1).replaced = ghost.replaced + 1
    BY <1>2, <1>3, GhostTypes
  <2>2. QED BY <1>2, <2>1
<1>6. CASE IdleCycleOnly
  <2>1. /\ IdleCycle(Replaced(child)) /\ phase' = phase /\ job' = job
        /\ ghost' = AfterIdle(ghost.replaced + 1, ghost.idle_cycles + 1)
    BY <1>6 DEF IdleCycleOnly, AfterIdle
  <2>2. phase' = "idle"
    BY <2>1 DEF IdleCycle
  <2>3. QED BY <1>1, <1>4, <1>5, <2>1, <2>2, IdleCycleTypes
<1>7. CASE IdleCyclePrewarmed
  <2> DEFINE p == imports_seen[Len(imports_seen)]
             fresh == WithSession(Replaced(child), p)
  <2>1. /\ imports_seen # <<>> /\ IdleCycle(fresh) /\ job' = [job EXCEPT !.profile = p]
        /\ phase' = "prewarmed"
        /\ ghost' = AfterIdle(ghost.replaced + 1, ghost.idle_cycles + 1)
    BY <1>7 DEF IdleCyclePrewarmed, AfterIdle
  <2>2. p \in Profiles
    BY <2>1 DEF TypeOK
  <2>3. ChildOK(fresh)
    BY <1>1, <2>2, SessionTypes DEF TypeOK
  <2> HIDE DEF p, fresh
  <2>4. job' \in JobType /\ job'.replaced_before = job.replaced_before
    BY <1>4, <2>1, <2>2 DEF JobType
  <2>5. QED BY <1>5, <2>1, <2>3, <2>4, IdleCycleTypes
<1>8. CASE IdleCyclePrewarmFails
  <2>1. phase' = phase /\ job' = job
    BY <1>8 DEF IdleCyclePrewarmFails
  <2>2. CASE /\ IdleCycle(Dead(Replaced(child)))
             /\ ghost' = AfterIdle(ghost.replaced + 1, ghost.idle_cycles + 1)
    <3>1. ChildOK(Dead(Replaced(child)))
      BY <1>1, ChildTypes
    <3>2. phase' = "idle"
      BY <2>1, <2>2 DEF IdleCycle
    <3>3. QED BY <1>4, <1>5, <2>1, <2>2, <3>1, <3>2, IdleCycleTypes
  <2>3. CASE /\ IdleCycle(Replaced(Replaced(child)))
             /\ ghost' = AfterIdleLoss(ghost.replaced + 2, ghost.unplanned + 1,
                                       ghost.idle_cycles + 1)
    <3>1. ChildOK(Replaced(Replaced(child)))
      BY <1>1, ChildTypes
    <3>2. phase' = "idle"
      BY <2>1, <2>3 DEF IdleCycle
    <3>3. ghost' \in GhostType /\ ghost'.replaced >= ghost.replaced
      <4>1. ghost' \in GhostType /\ ghost'.replaced = ghost.replaced + 2
        BY <1>2, <1>3, <2>3, GhostTypes
      <4>2. QED BY <1>2, <4>1
    <3>4. QED BY <1>4, <2>1, <2>3, <3>1, <3>2, <3>3, IdleCycleTypes
  <2>4. QED BY <1>8, <2>2, <2>3 DEF IdleCyclePrewarmFails, AfterIdle, AfterIdleLoss
<1>9. CASE IdleCycleFails
  <2>1. /\ UNCHANGED <<phase, job, result, imports_seen, stamps, cycled_while_idle,
                       abnormal_restarts, window_start, healthy, restarts_total, base,
                       published, built, present, clock, ghost>>
        /\ child' \in {child, Dead(child)}
    BY <1>9 DEF IdleCycleFails, mirrorVars, breakerVars, diskVars
  <2>2. TypeOK'
    BY <1>1, <2>1 DEF TypeOK, ChildOK
  <2>3. QED BY <2>1, <2>2 DEF WindowBounded, InWindow, BaselineBehind
<1>10. CASE PrewarmStamp
  <2>1. /\ imports_seen' \in Seq(Profiles) /\ Len(imports_seen') <= PoolCapacity
        /\ stamps' \in [Profiles -> Nat]
    BY <1>10, NoteType DEF PrewarmStamp, TypeOK, JobType
  <2>2. /\ UNCHANGED <<job, result, cycled_while_idle, abnormal_restarts, window_start,
                       healthy, restarts_total, base, published, child, built, present,
                       clock, ghost>>
        /\ phase' = "idle"
    BY <1>10 DEF PrewarmStamp, breakerVars, diskVars
  <2>3. TypeOK'
    BY <2>1, <2>2 DEF TypeOK
  <2>4. QED BY <2>2, <2>3 DEF WindowBounded, InWindow, BaselineBehind
<1>11. QED BY <1>6, <1>7, <1>8, <1>9, <1>10 DEF IdleWork

LEMMA EnvironmentTypes ==
  ASSUME ShapeOK, Environment
  PROVE  ShapeOK'
<1> USE DEF ShapeOK
<1>1. CASE Tick
  BY <1>1 DEF Tick, TypeOK, WindowBounded, InWindow, BaselineBehind, mirrorVars,
              breakerVars, diskVars
<1>2. ASSUME NEW p \in Profiles, Build(p)
      PROVE  ShapeOK'
  BY <1>2 DEF Build, TypeOK, WindowBounded, InWindow, BaselineBehind, mirrorVars, breakerVars
<1>3. ASSUME NEW p \in Profiles, Vanish(p)
      PROVE  ShapeOK'
  BY <1>3 DEF Vanish, TypeOK, WindowBounded, InWindow, BaselineBehind, mirrorVars, breakerVars
<1>4. QED BY <1>1, <1>2, <1>3 DEF Environment

LEMMA InitShape == Init => ShapeOK
<1> SUFFICES ASSUME Init PROVE ShapeOK
  OBVIOUS
<1>1. PoolCapacity \in Nat /\ MaxRestarts \in Nat
  BY ActorConstants
<1>2. job \in JobType /\ job.replaced_before = 0
  <2> DEFINE Zero == {0}
             Ok == {"ok"}
             Empty == {<<>>}
             None == {"none"}
             No == {FALSE}
  <2>1. /\ Zero \subseteq Nat /\ Ok \subseteq Outcomes /\ Empty \subseteq Seq(Causes)
        /\ None \subseteq Causes \cup {"none"} /\ No \subseteq BOOLEAN
    BY DEF Outcomes
  <2>2. job \in [profile : Profiles, retries : Zero, retry_count : Zero, stamp : Zero,
                 outcome : Ok, restarts : Empty, call_restart : None,
                 generation_before : Zero, replaced_before : Zero, disrupted : No]
    BY DEF Init
  <2>3. job.replaced_before = 0
    BY DEF Init
  <2> HIDE DEF Zero, Ok, Empty, None, No
  <2>4. job \in JobType
    BY <2>1, <2>2 DEF JobType
  <2>5. QED BY <2>3, <2>4
<1>3. result \in ResultType
  BY DEF Init, ResultType
<1>4. child \in ChildType /\ Len(child.pooled) <= PoolCapacity
  BY <1>1 DEF Init, ChildType
<1>5. ghost \in GhostType /\ ghost.replaced = 0
  BY DEF Init, GhostType
<1>6. imports_seen \in Seq(Profiles) /\ Len(imports_seen) <= PoolCapacity
  BY <1>1 DEF Init
<1>7. /\ abnormal_restarts \in Seq(Nat) /\ Len(abnormal_restarts) = 0
      /\ window_start \in 1..Len(abnormal_restarts) + 1 /\ window_start = 1
  BY DEF Init
<1>8. /\ stamps \in [Profiles -> Nat] /\ built \in [Profiles -> Nat]
      /\ present \in [Profiles -> BOOLEAN]
  BY DEF Init
<1>9. cycled_while_idle \in BOOLEAN /\ healthy \in BOOLEAN
  BY Zenon DEF Init
<1>10. restarts_total \in Nat /\ base \in Nat /\ published \in Nat /\ clock \in Nat
  BY DEF Init
<1>11. phase = "idle"
  BY DEF Init
<1>12. TypeOK
  BY <1>2, <1>3, <1>4, <1>5, <1>6, <1>7, <1>8, <1>9, <1>10, <1>11 DEF TypeOK
<1>13. WindowBounded /\ BaselineBehind
  BY <1>1, <1>2, <1>5, <1>7 DEF WindowBounded, InWindow, BaselineBehind
<1>14. QED BY <1>12, <1>13 DEF ShapeOK

(* The actor's state keeps its types, the breaker's deque never grows past  *)
(* the restart limit, and a call's count of the children it went through    *)
(* never underflows - whatever builds, deaths and pre-warms do.             *)
THEOREM ShapeCorrect == Spec => [](TypeOK /\ WindowBounded /\ BaselineBehind)
<1>1. ShapeOK /\ [Next]_vars => ShapeOK'
  <2> SUFFICES ASSUME ShapeOK, [Next]_vars PROVE ShapeOK'
    OBVIOUS
  <2>1. CASE UNCHANGED vars
    BY <2>1 DEF vars, ShapeOK, TypeOK, WindowBounded, InWindow, BaselineBehind,
                mirrorVars, breakerVars, diskVars
  <2>2. QED BY <2>1, StartTypes, RequestTypes, AccountTypes, SettleTypes, IdleTypes,
               EnvironmentTypes DEF Next
<1>2. QED BY <1>1, InitShape, PTL DEF Spec, ShapeOK

-----------------------------------------------------------------------------
(* A tripped project runs nothing more. Inductive as it stands: a call     *)
(* begins only while healthy, and the breaker trips only as a call ends.   *)

LEMMA AdmitsKeepsHealth ==
  ASSUME NEW cause, NEW n, Admits(cause, n)
  PROVE  healthy' = healthy
  BY DEF Admits, breakerVars

LEMMA TrippedStep ==
  ASSUME TypeOK, TrippedRunsNothing, [Next]_vars
  PROVE  TrippedRunsNothing'
<1> USE DEF TrippedRunsNothing
<1>1. CASE StartJob
  BY <1>1 DEF StartJob, SemanticJob, BeginJobCycleFails, BeginJob, BeginJobRecycled, Accepts,
              breakerVars
<1>2. CASE RunRequest
  BY <1>2 DEF RunRequest, Answered, Failed, Killed, Died, Request, breakerVars
<1>3. CASE AccountLifecycle
  <2>1. CASE AccountNone
    BY <2>1 DEF AccountNone, breakerVars
  <2>2. CASE AccountRestarts
    BY <2>2, AdmitsKeepsHealth DEF AccountRestarts
  <2>3. CASE AccountTrips
    BY <2>3 DEF AccountTrips, Trips, EndJob
  <2>4. QED BY <1>3, <2>1, <2>2, <2>3 DEF AccountLifecycle
<1>4. CASE SettleJob
  <2>1. CASE Finish
    BY <2>1 DEF Finish, EndJob
  <2>2. CASE FailJob
    BY <2>2 DEF FailJob, EndJob
  <2>3. CASE Rebuild
    BY <2>3, AdmitsKeepsHealth DEF Rebuild
  <2>4. CASE RebuildFails
    BY <2>4 DEF RebuildFails, EndJob
  <2>5. CASE RebuildTrips
    BY <2>5 DEF RebuildTrips, Trips, EndJob
  <2>6. QED BY <1>4, <2>1, <2>2, <2>3, <2>4, <2>5 DEF SettleJob
<1>5. CASE IdleWork
  BY <1>5 DEF IdleWork, IdleCycleOnly, IdleCyclePrewarmed, IdleCyclePrewarmFails,
              IdleCycleFails, PrewarmStamp, IdleCycle, breakerVars
<1>6. CASE Environment
  BY <1>6 DEF Environment, Tick, Build, Vanish, breakerVars
<1>7. CASE UNCHANGED vars
  BY <1>7 DEF vars, breakerVars
<1>8. QED BY <1>1, <1>2, <1>3, <1>4, <1>5, <1>6, <1>7 DEF Next

(* Once record_restart_or_stop has tripped the breaker the actor is between *)
(* calls for good: neither the retry nor the answer of the call that        *)
(* tripped it runs, and no later message is handled.                        *)
THEOREM NothingRunsOnceTripped == Spec => []TrippedRunsNothing
<1>1. Init => TrippedRunsNothing
  BY DEF Init, TrippedRunsNothing
<1>2. ShapeOK /\ TrippedRunsNothing /\ [Next]_vars => TrippedRunsNothing'
  BY TrippedStep DEF ShapeOK
<1>3. QED BY <1>1, <1>2, ShapeCorrect, PTL DEF Spec, ShapeOK

-----------------------------------------------------------------------------
(* The breaker's window, on a list `a` of L instants: it is in the order    *)
(* of the clock, what the deque has dropped is older than the window, and  *)
(* any M + 1 consecutive instants span more than the window.               *)
InOrder(a, L, c) ==
  /\ \A i \in 1..L : a[i] \in Nat /\ a[i] <= c
  /\ \A i, j \in 1..L : i <= j => a[i] <= a[j]
ExpiredBefore(a, s, c, W) == \A i \in 1..s - 1 : c - a[i] > W
SlidesOver(a, L, M, W) == \A i \in 1..L - M : a[i + M] - a[i] > W
\* b is a followed by n copies of the instant c.
Pushed(b, a, L, n, c) ==
  /\ \A i \in 1..L : b[i] = a[i]
  /\ \A i \in L + 1..L + n : b[i] = c

LEMMA PushedWindow ==
  ASSUME NEW L \in Nat, NEW n \in Nat, NEW c \in Nat, NEW W \in Nat, NEW M \in Nat \ {0},
         NEW s \in 1..L + 1, L + 1 - s + n <= M,
         NEW a, InOrder(a, L, c), ExpiredBefore(a, s, c, W), SlidesOver(a, L, M, W),
         NEW b, Pushed(b, a, L, n, c)
  PROVE  InOrder(b, L + n, c) /\ ExpiredBefore(b, s, c, W) /\ SlidesOver(b, L + n, M, W)
<1> USE DEF InOrder, ExpiredBefore, SlidesOver, Pushed
<1>1. ASSUME NEW i \in 1..L + n
      PROVE  b[i] \in Nat /\ b[i] <= c
  <2>1. CASE i <= L
    <3>1. i \in 1..L
      BY <2>1
    <3>2. QED BY <3>1
  <2>2. CASE i > L
    <3>1. i \in L + 1..L + n
      BY <2>2
    <3>2. QED BY <3>1
  <2>3. QED BY <2>1, <2>2
<1>2. ASSUME NEW i \in 1..L + n, NEW j \in 1..L + n, i <= j
      PROVE  b[i] <= b[j]
  <2>1. CASE j <= L
    <3>1. i \in 1..L /\ j \in 1..L
      BY <1>2, <2>1
    <3>2. QED BY <1>2, <3>1
  <2>2. CASE j > L
    <3>1. j \in L + 1..L + n
      BY <2>2
    <3>2. b[j] = c
      BY <3>1
    <3>3. QED BY <1>1, <3>2
  <2>3. QED BY <2>1, <2>2
<1>3. ASSUME NEW i \in 1..s - 1
      PROVE  c - b[i] > W
  <2>1. i \in 1..L
    OBVIOUS
  <2>2. QED BY <1>3, <2>1
<1>4. ASSUME NEW i \in 1..L + n - M
      PROVE  b[i + M] - b[i] > W
  <2>1. CASE i + M <= L
    <3>1. i \in 1..L - M /\ i \in 1..L /\ i + M \in 1..L
      BY <2>1
    <3>2. QED BY <3>1
  <2>2. CASE i + M > L
    <3>1. i \in 1..s - 1 /\ i + M \in L + 1..L + n
      BY <2>2
    <3>2. c - b[i] > W
      BY <1>3, <3>1
    <3>3. b[i + M] = c
      BY <3>1
    <3>4. QED BY <3>2, <3>3
  <2>3. QED BY <2>1, <2>2
<1>5. QED BY <1>1, <1>2, <1>3, <1>4

BreakerInv ==
  /\ InOrder(abnormal_restarts, Len(abnormal_restarts), clock)
  /\ ExpiredBefore(abnormal_restarts, window_start, clock, RestartWindow)
  /\ SlidesOver(abnormal_restarts, Len(abnormal_restarts), MaxRestarts, RestartWindow)

LEMMA PushSlides ==
  ASSUME TypeOK, BreakerInv, NEW n \in Nat, NEW s \in 1..Len(abnormal_restarts) + 1,
         PopsTo(s), InWindow(s) + n <= MaxRestarts, Push(n), window_start' = s, clock' = clock
  PROVE  BreakerInv'
<1> DEFINE L == Len(abnormal_restarts)
           new == abnormal_restarts'
<1>1. /\ L \in Nat /\ abnormal_restarts \in Seq(Nat) /\ clock \in Nat
      /\ window_start \in 1..L + 1 /\ s \in 1..L + 1
      /\ MaxRestarts \in Nat \ {0} /\ RestartWindow \in Nat
  BY ActorConstants DEF TypeOK
<1>2. Len(new) = L + n /\ Pushed(new, abnormal_restarts, L, n, clock)
  <2>1. [i \in 1..n |-> clock] \in Seq(Nat) /\ Len([i \in 1..n |-> clock]) = n
    BY <1>1
  <2>2. QED BY <1>1, <2>1 DEF Push, Pushed
<1>3. ExpiredBefore(abnormal_restarts, s, clock, RestartWindow)
  <2> SUFFICES ASSUME NEW i \in 1..s - 1
               PROVE  clock - abnormal_restarts[i] > RestartWindow
    BY DEF ExpiredBefore
  <2>1. CASE i < window_start
    BY <1>1, <2>1 DEF BreakerInv, ExpiredBefore
  <2>2. CASE i >= window_start
    BY <1>1, <2>2 DEF PopsTo
  <2>3. QED BY <1>1, <2>1, <2>2
<1>4. /\ InOrder(abnormal_restarts, L, clock)
      /\ SlidesOver(abnormal_restarts, L, MaxRestarts, RestartWindow)
      /\ L + 1 - s + n <= MaxRestarts
  BY DEF BreakerInv, InWindow
<1> HIDE DEF L, new
<1>5. /\ InOrder(new, L + n, clock) /\ ExpiredBefore(new, s, clock, RestartWindow)
      /\ SlidesOver(new, L + n, MaxRestarts, RestartWindow)
  BY <1>1, <1>2, <1>3, <1>4, PushedWindow
<1>6. QED BY <1>2, <1>5 DEF BreakerInv, new

LEMMA AdmitsSlides ==
  ASSUME TypeOK, BreakerInv, NEW cause, NEW n \in Nat, Admits(cause, n), clock' = clock
  PROVE  BreakerInv'
<1>1. CASE cause \in Planned
  BY <1>1 DEF Admits, breakerVars, BreakerInv
<1>2. CASE cause \notin Planned
  BY <1>2, PushSlides DEF Admits
<1>3. QED BY <1>1, <1>2

LEMMA TripsSlides ==
  ASSUME ShapeOK, BreakerInv, NEW cause, NEW n \in Nat, Trips(cause, n)
  PROVE  BreakerInv'
<1>1. PICK s \in 1..Len(abnormal_restarts) + 1 :
        /\ PopsTo(s) /\ InWindow(s) + n > MaxRestarts /\ window_start' = s
        /\ Push(MaxRestarts - InWindow(s))
  BY DEF Trips
<1>2. clock' = clock
  BY DEF Trips
<1>3. MaxRestarts - InWindow(s) \in Nat
  <2>1. window_start <= s /\ s \in Nat /\ window_start \in Nat /\ MaxRestarts \in Nat
    BY <1>1, ActorConstants DEF PopsTo, ShapeOK, TypeOK
  <2>2. Len(abnormal_restarts) \in Nat
    BY DEF ShapeOK, TypeOK
  <2>3. QED BY <2>1, <2>2 DEF ShapeOK, WindowBounded, InWindow
<1>4. InWindow(s) + (MaxRestarts - InWindow(s)) <= MaxRestarts
  BY <1>1, ActorConstants DEF ShapeOK, TypeOK, InWindow
<1>5. QED BY <1>1, <1>2, <1>3, <1>4, PushSlides DEF ShapeOK

LEMMA BreakerStep ==
  ASSUME ShapeOK, BreakerInv, [Next]_vars
  PROVE  BreakerInv'
<1>1. ASSUME UNCHANGED <<abnormal_restarts, window_start, clock>>
      PROVE  BreakerInv'
  BY <1>1 DEF BreakerInv
<1>2. CASE StartJob
  BY <1>1, <1>2 DEF StartJob, SemanticJob, BeginJobCycleFails, BeginJob, BeginJobRecycled,
                    breakerVars
<1>3. CASE RunRequest
  BY <1>1, <1>3 DEF RunRequest, Answered, Failed, Killed, Died, Request, breakerVars
<1>4. CASE IdleWork
  BY <1>1, <1>4 DEF IdleWork, IdleCycleOnly, IdleCyclePrewarmed, IdleCyclePrewarmFails,
                    IdleCycleFails, PrewarmStamp, IdleCycle, breakerVars
<1>5. CASE AccountLifecycle
  <2>1. CASE AccountNone
    BY <1>1, <2>1 DEF AccountNone, breakerVars
  <2>2. CASE AccountRestarts
    BY <2>2, CausesOfJob, AdmitsSlides DEF AccountRestarts, ShapeOK
  <2>3. CASE AccountTrips
    BY <2>3, CausesOfJob, TripsSlides DEF AccountTrips, ShapeOK
  <2>4. QED BY <1>5, <2>1, <2>2, <2>3 DEF AccountLifecycle
<1>6. CASE SettleJob
  <2>1. CASE Finish \/ FailJob
    BY <1>1, <2>1 DEF Finish, FailJob, breakerVars
  <2>2. CASE Rebuild \/ RebuildFails
    BY <2>2, AdmitsSlides DEF Rebuild, RebuildFails, ShapeOK
  <2>3. CASE RebuildTrips
    BY <2>3, TripsSlides DEF RebuildTrips
  <2>4. QED BY <1>6, <2>1, <2>2, <2>3 DEF SettleJob
<1>7. CASE Environment
  <2>1. CASE Tick
    <3>1. /\ UNCHANGED <<abnormal_restarts, window_start>>
          /\ clock' = clock + 1 /\ clock \in Nat
      BY <2>1 DEF Tick, breakerVars, ShapeOK, TypeOK
    <3>2. \A i \in 1..Len(abnormal_restarts) : abnormal_restarts[i] \in Nat
      BY DEF ShapeOK, TypeOK
    <3>3. window_start \in 1..Len(abnormal_restarts) + 1 /\ RestartWindow \in Nat
      BY ActorConstants DEF ShapeOK, TypeOK
    <3>4. Len(abnormal_restarts) \in Nat
      BY DEF ShapeOK, TypeOK
    <3>5. InOrder(abnormal_restarts, Len(abnormal_restarts), clock)'
      BY <3>1, <3>2, <3>4 DEF BreakerInv, InOrder
    <3>6. ExpiredBefore(abnormal_restarts, window_start, clock, RestartWindow)'
      BY <3>1, <3>2, <3>3, <3>4 DEF BreakerInv, ExpiredBefore
    <3>7. SlidesOver(abnormal_restarts, Len(abnormal_restarts), MaxRestarts, RestartWindow)'
      BY <3>1 DEF BreakerInv
    <3>8. QED BY <3>5, <3>6, <3>7 DEF BreakerInv
  <2>2. CASE \E p \in Profiles : Build(p) \/ Vanish(p)
    BY <1>1, <2>2 DEF Build, Vanish, breakerVars
  <2>3. QED BY <1>7, <2>1, <2>2 DEF Environment
<1>8. CASE UNCHANGED vars
  BY <1>1, <1>8 DEF vars, breakerVars
<1>9. QED BY <1>2, <1>3, <1>4, <1>5, <1>6, <1>7, <1>8 DEF Next

(* record_restart_or_stop never lets more than worker_restart_limit         *)
(* abnormal restarts into one window, for every limit, window and history.  *)
THEOREM WindowSlides == Spec => []BreakerWindowSlides
<1>1. Init => BreakerInv
  <2> SUFFICES ASSUME Init PROVE BreakerInv
    OBVIOUS
  <2>1. abnormal_restarts = <<>> /\ window_start = 1 /\ MaxRestarts \in Nat
    BY ActorConstants DEF Init
  <2>2. QED BY <2>1 DEF BreakerInv, InOrder, ExpiredBefore, SlidesOver
<1>2. ShapeOK /\ BreakerInv /\ [Next]_vars => BreakerInv'
  BY BreakerStep
<1>3. BreakerInv => BreakerWindowSlides
  BY DEF BreakerInv, SlidesOver, BreakerWindowSlides
<1>4. QED BY <1>1, <1>2, <1>3, ShapeCorrect, PTL DEF Spec, ShapeOK

-----------------------------------------------------------------------------
(* The generation. Every step moves it by the number of children it uses   *)
(* up, and publishes either nothing, the generation, or the next one once  *)
(* it has made it.                                                         *)
Moves(k) ==
  /\ observed_generation' = observed_generation + k
  /\ ghost'.replaced = ghost.replaced + k
  /\ \/ published' = published
     \/ published' = observed_generation
     \/ k > 0 /\ published' = observed_generation + 1

LEMMA GenerationTypes ==
  ASSUME TypeOK
  PROVE  /\ ChildOK(child) /\ base \in Nat /\ child.generation \in Nat
         /\ ghost \in GhostType /\ ghost.replaced \in Nat /\ published \in Nat
         /\ observed_generation \in Nat
  BY DEF TypeOK, ChildOK, ChildType, GhostType, observed_generation

LEMMA StayPut ==
  ASSUME TypeOK, UNCHANGED <<base, child>>, ghost'.replaced = ghost.replaced,
         published' = published \/ published' = observed_generation
  PROVE  Moves(0)
<1>1. observed_generation' = observed_generation
  BY DEF observed_generation
<1>2. QED BY <1>1, GenerationTypes DEF Moves

LEMMA AtMostOne ==
  ASSUME NEW S, NEW s \in Seq(S), Len(s) <= 1
  PROVE  Len(s) \in Nat /\ (s = <<>> => Len(s) = 0) /\ (s # <<>> => Len(s) = 1)
<1>1. Len(s) \in Nat
  OBVIOUS
<1>2. s = <<>> => Len(s) = 0
  OBVIOUS
<1>3. s # <<>> => Len(s) # 0
  OBVIOUS
<1>4. Len(s) # 0 => Len(s) = 1
  <2>1. \A n \in Nat : n <= 1 /\ n # 0 => n = 1
    OBVIOUS
  <2>2. QED BY <1>1, <2>1
<1>5. QED BY <1>1, <1>2, <1>3, <1>4, Zenon

LEMMA RequestMoves ==
  ASSUME TypeOK, NEW first \in Seq(Causes), Len(first) <= 1,
         NEW after \in Seq(Causes), Len(after) <= 1,
         NEW opens \in BOOLEAN, NEW outcome,
         Request(first, opens, outcome, after)
  PROVE  \E k \in Nat : Moves(k)
<1> DEFINE started == IF first = <<>> THEN child ELSE Replaced(child)
           session == IF opens THEN WithSession(started, job.profile) ELSE started
           n == Len(first)
           m == Len(after)
<1>0. /\ n \in Nat /\ (first = <<>> => n = 0) /\ (first # <<>> => n = 1)
      /\ m \in Nat /\ (after = <<>> => m = 0) /\ (after # <<>> => m = 1)
  BY AtMostOne
<1>1. ChildOK(started) /\ started.generation = child.generation + n
  BY <1>0, GenerationTypes, ChildTypes
<1>2. ChildOK(session) /\ session.generation = started.generation
  BY <1>1, SessionTypes DEF TypeOK, JobType
<1>3. child'.generation = session.generation + m
  <2>1. CASE after # <<>>
    BY <1>0, <1>2, <2>1, ChildTypes DEF Request
  <2>2. CASE after = <<>>
    <3>1. child' = Dead(session) \/ child' = session
      BY <2>2 DEF Request
    <3>2. session.generation \in Nat /\ Dead(session).generation = session.generation
      BY <1>2, ChildTypes DEF ChildOK, ChildType
    <3>3. QED BY <1>0, <2>2, <3>1, <3>2
  <2>3. QED BY <2>1, <2>2
<1>4. ghost'.replaced = ghost.replaced + (n + m)
  <2>1. Len(first \o after) = n + m
    OBVIOUS
  <2>2. ghost'.replaced = ghost.replaced + Len(first \o after)
    BY GenerationTypes DEF Request, GhostType
  <2>3. QED BY <2>1, <2>2
<1>5. base' = base /\ published' = published
  BY DEF Request
<1> HIDE DEF started, session, n, m
<1>6. n + m \in Nat
  BY <1>0
<1>7. observed_generation' = observed_generation + (n + m)
  BY <1>0, <1>1, <1>2, <1>3, <1>5, GenerationTypes DEF observed_generation
<1>8. QED BY <1>4, <1>5, <1>6, <1>7 DEF Moves

LEMMA IdleCycleMoves ==
  ASSUME TypeOK, NEW fresh, IdleCycle(fresh), NEW k \in Nat, k > 0,
         fresh.generation = child.generation + k, ghost'.replaced = ghost.replaced + k
  PROVE  Moves(k)
<1>1. base' = base /\ child' = fresh /\ published' = observed_generation + 1
  BY DEF IdleCycle
<1>2. observed_generation' = observed_generation + k
  BY <1>1, GenerationTypes DEF observed_generation
<1>3. QED BY <1>1, <1>2 DEF Moves

LEMMA FirstIsShort ==
  ASSUME NEW c, NEW p
  PROVE  RestartsFirst(c, p) \in Seq(Causes) /\ Len(RestartsFirst(c, p)) <= 1
<1>1. RestartsFirst(c, p) \in {<<>>, <<"child_abort">>, <<"import_residue">>}
  BY RestartsFirstType
<1>2. "child_abort" \in Causes /\ "import_residue" \in Causes
  BY DEF Causes, Abnormal, Planned
<1>3. /\ <<"child_abort">> \in Seq(Causes) /\ Len(<<"child_abort">>) <= 1
      /\ <<"import_residue">> \in Seq(Causes) /\ Len(<<"import_residue">>) <= 1
      /\ <<>> \in Seq(Causes) /\ Len(<<>>) <= 1
  BY <1>2
<1>4. QED BY <1>1, <1>3, Zenon

LEMMA StepMoves ==
  ASSUME TypeOK, [Next]_vars
  PROVE  \E k \in Nat : Moves(k)
<1>1. ASSUME UNCHANGED <<base, child>>, ghost'.replaced = ghost.replaced,
             published' = published \/ published' = observed_generation
      PROVE  \E k \in Nat : Moves(k)
  BY <1>1, StayPut
<1>2. ghost \in GhostType
  BY DEF TypeOK
<1>3. CASE StartJob
  <2>1. CASE SemanticJob
    BY <1>1, <1>2, <2>1 DEF SemanticJob, GhostType
  <2>2. ASSUME NEW p \in Profiles, BeginJobCycleFails(p)
        PROVE  \E k \in Nat : Moves(k)
    <3>1. /\ base' = base /\ published' = published /\ ghost'.replaced = ghost.replaced
          /\ child'.generation = child.generation
      BY <1>2, <2>2, GenerationTypes, ChildTypes DEF BeginJobCycleFails, GhostType
    <3>2. Moves(0)
      BY <3>1, GenerationTypes DEF Moves, observed_generation
    <3>3. QED BY <3>2
  <2>3. ASSUME NEW p \in Profiles, NEW r \in 0..MaxRetries, BeginJob(p, r)
        PROVE  \E k \in Nat : Moves(k)
    BY <1>1, <1>2, <2>3 DEF BeginJob, GhostType
  <2>4. ASSUME NEW p \in Profiles, NEW r \in 0..MaxRetries, BeginJobRecycled(p, r)
        PROVE  \E k \in Nat : Moves(k)
    <3>1. /\ base' = base /\ published' = published
          /\ ghost'.replaced = ghost.replaced + 1
          /\ child'.generation = child.generation + 1
      BY <1>2, <2>4, GenerationTypes, ChildTypes DEF BeginJobRecycled, GhostType
    <3>2. Moves(1)
      BY <3>1, GenerationTypes DEF Moves, observed_generation
    <3>3. QED BY <3>2
  <2>5. QED BY <1>3, <2>1, <2>2, <2>3, <2>4 DEF StartJob
<1>4. CASE RunRequest
  <2> DEFINE first == RestartsFirst(child, job.profile)
  <2>1. /\ first \in Seq(Causes) /\ Len(first) <= 1
        /\ <<>> \in Seq(Causes) /\ Len(<<>>) <= 1
    BY FirstIsShort
  <2> HIDE DEF first
  <2>2. CASE Answered
    BY <2>1, <2>2, RequestMoves DEF Answered, first
  <2>3. CASE Failed
    BY <2>1, <2>3, RequestMoves DEF Failed, first
  <2>4. CASE Killed
    <3>1. PICK opens \in BOOLEAN,
               outcome \in {"timeout", "rss_hard_limit_exceeded", "child_abort"} :
            Request(first, opens, outcome, <<outcome>>)
      BY <2>4 DEF Killed, first
    <3>2. outcome \in Causes
      BY DEF Causes, Abnormal
    <3>3. <<outcome>> \in Seq(Causes) /\ Len(<<outcome>>) <= 1
      BY <3>2
    <3>4. QED BY <2>1, <3>1, <3>3, RequestMoves
  <2>5. CASE Died
    <3>1. PICK opens \in BOOLEAN, outcome \in {"child_exit", "child_abort"},
               f \in {first, <<>>} : Request(f, opens, outcome, <<>>)
      BY <2>5 DEF Died, first
    <3>2. f \in Seq(Causes) /\ Len(f) <= 1
      BY <2>1, Zenon
    <3>3. QED BY <2>1, <3>1, <3>2, RequestMoves
  <2>6. QED BY <1>4, <2>2, <2>3, <2>4, <2>5 DEF RunRequest
<1>5. CASE AccountLifecycle
  BY <1>1, <1>5 DEF AccountLifecycle, AccountNone, AccountRestarts, AccountTrips, Trips
<1>6. CASE SettleJob
  <2>1. CASE Finish \/ FailJob \/ RebuildTrips
    BY <1>1, <2>1 DEF Finish, FailJob, RebuildTrips, Trips
  <2>2. CASE RebuildFails
    BY <1>1, <1>2, <2>2 DEF RebuildFails, GhostType
  <2>3. CASE Rebuild
    <3>1. /\ base' = observed_generation + 1 /\ published' = published
          /\ ghost'.replaced = ghost.replaced + 1
      BY <1>2, <2>3 DEF Rebuild, NextGeneration, GhostType
    <3>2. child'.generation = 0
      BY <2>3 DEF Rebuild, Replaced
    <3>3. observed_generation' = observed_generation + 1
      BY <3>1, <3>2, GenerationTypes DEF observed_generation
    <3>4. Moves(1)
      BY <3>1, <3>3 DEF Moves
    <3>5. QED BY <3>4
  <2>4. QED BY <1>6, <2>1, <2>2, <2>3 DEF SettleJob
<1>7. CASE IdleWork
  <2> DEFINE c == Replaced(child)
  <2>1. ChildOK(c) /\ c.generation = child.generation + 1 /\ child.generation \in Nat
    BY GenerationTypes, ChildTypes
  <2>2. CASE IdleCycleOnly
    <3>1. ghost'.replaced = ghost.replaced + 1
      BY <1>2, <2>2 DEF IdleCycleOnly, GhostType
    <3>2. Moves(1)
      BY <2>1, <2>2, <3>1, IdleCycleMoves DEF IdleCycleOnly
    <3>3. QED BY <3>2
  <2>3. CASE IdleCyclePrewarmed
    <3> DEFINE p == imports_seen[Len(imports_seen)]
    <3>1. ghost'.replaced = ghost.replaced + 1
      BY <1>2, <2>3 DEF IdleCyclePrewarmed, GhostType
    <3>2. p \in Profiles
      BY <2>3 DEF IdleCyclePrewarmed, TypeOK
    <3>3. WithSession(c, p).generation = child.generation + 1
      BY <2>1, <3>2, SessionTypes DEF TypeOK
    <3>4. IdleCycle(WithSession(c, p))
      BY <2>3 DEF IdleCyclePrewarmed
    <3>5. Moves(1)
      BY <3>1, <3>3, <3>4, IdleCycleMoves
    <3>6. QED BY <3>5
  <2>4. CASE IdleCyclePrewarmFails
    <3>1. CASE IdleCycle(Dead(c)) /\ ghost'.replaced = ghost.replaced + 1
      <4>1. Dead(c).generation = child.generation + 1
        BY <2>1, ChildTypes
      <4>2. Moves(1)
        BY <3>1, <4>1, IdleCycleMoves
      <4>3. QED BY <4>2
    <3>2. CASE IdleCycle(Replaced(c)) /\ ghost'.replaced = ghost.replaced + 2
      <4>1. Replaced(c).generation = child.generation + 2
        BY <2>1, ChildTypes
      <4>2. Moves(2)
        BY <3>2, <4>1, IdleCycleMoves
      <4>3. QED BY <4>2
    <3>3. QED BY <1>2, <2>4, <3>1, <3>2 DEF IdleCyclePrewarmFails, GhostType
  <2>5. CASE IdleCycleFails
    <3>1. /\ base' = base /\ published' = published /\ ghost' = ghost
          /\ child'.generation = child.generation
      BY <2>5, GenerationTypes, ChildTypes DEF IdleCycleFails
    <3>2. Moves(0)
      BY <3>1, GenerationTypes DEF Moves, observed_generation
    <3>3. QED BY <3>2
  <2>6. CASE PrewarmStamp
    BY <1>1, <2>6 DEF PrewarmStamp
  <2>7. QED BY <1>7, <2>2, <2>3, <2>4, <2>5, <2>6 DEF IdleWork
<1>8. CASE Environment
  BY <1>1, <1>8 DEF Environment, Tick, Build, Vanish
<1>9. CASE UNCHANGED vars
  BY <1>1, <1>9 DEF vars
<1>10. QED BY <1>3, <1>4, <1>5, <1>6, <1>7, <1>8, <1>9 DEF Next

LEMMA GenerationStep ==
  ASSUME TypeOK, GenerationCountsChildren, [Next]_vars
  PROVE  GenerationCountsChildren' /\ published' >= published
<1>1. PICK k \in Nat : Moves(k)
  BY StepMoves
<1>2. QED BY <1>1, GenerationTypes DEF Moves, GenerationCountsChildren

(* The generation a response reports is one more than the children the     *)
(* project has used up, across replacements under the handle, cycle() and  *)
(* rebuild_after_worker_death's new handle, whose own numbering restarts   *)
(* at zero; and the snapshot never shows a generation not yet reached.     *)
THEOREM GenerationIsACount == Spec => []GenerationCountsChildren
<1>1. Init => GenerationCountsChildren
  BY DEF Init, GenerationCountsChildren, observed_generation
<1>2. ShapeOK /\ GenerationCountsChildren /\ [Next]_vars => GenerationCountsChildren'
  BY GenerationStep DEF ShapeOK
<1>3. QED BY <1>1, <1>2, ShapeCorrect, PTL DEF Spec, ShapeOK

(* What callers read from the snapshot without the actor only goes up.     *)
THEOREM PublishedOnlyGrows == Spec => PublishedNeverRegresses
<1>1. ShapeOK /\ GenerationCountsChildren /\ [Next]_vars => published' >= published
  BY GenerationStep DEF ShapeOK
<1>2. ShapeOK /\ GenerationCountsChildren /\ [Next]_vars => [published' >= published]_vars
  BY <1>1
<1>3. QED
  BY <1>2, ShapeCorrect, GenerationIsACount, PTL DEF Spec, ShapeOK, PublishedNeverRegresses

-----------------------------------------------------------------------------
(* Idle cycles. While cycled_while_idle is off the last message is still   *)
(* unspent, and before the first one nothing has been imported.            *)
Unspent ==
  /\ ghost.idle_cycles = 0
  /\ ghost.jobs = 0 => child.residue = 0 /\ phase = "idle"
EarnedInv == IdleCyclesAreEarned /\ (~cycled_while_idle => Unspent)

LEMMA JobEarns ==
  ASSUME TypeOK, EarnedInv, ghost'.jobs = ghost.jobs + 1, ghost'.idle_cycles = 0
  PROVE  EarnedInv'
<1>1. ghost.jobs \in Nat
  BY DEF TypeOK, GhostType
<1>2. QED BY <1>1 DEF EarnedInv, Unspent, IdleCyclesAreEarned

LEMMA NothingSpent ==
  ASSUME TypeOK, EarnedInv, ghost'.jobs = ghost.jobs, ghost'.idle_cycles = ghost.idle_cycles,
         cycled_while_idle' = cycled_while_idle,
         phase # "idle" \/ (phase' = phase /\ child'.residue = child.residue)
  PROVE  EarnedInv'
<1>1. ghost.jobs \in Nat /\ ghost.idle_cycles \in Nat
  BY DEF TypeOK, GhostType
<1>2. QED BY <1>1 DEF EarnedInv, Unspent, IdleCyclesAreEarned

LEMMA CycleSpends ==
  ASSUME TypeOK, EarnedInv, NEW fresh, IdleCycle(fresh), ghost'.jobs = ghost.jobs,
         ghost'.idle_cycles = ghost.idle_cycles + 1
  PROVE  EarnedInv'
<1>1. ghost.jobs \in Nat /\ ghost.idle_cycles \in Nat /\ child.residue \in Nat
  BY DEF TypeOK, GhostType, ChildType
<1>2. ~cycled_while_idle /\ child.residue > 0 /\ cycled_while_idle' = TRUE
  BY DEF IdleCycle, over_soft_budget
<1>3. ghost.idle_cycles = 0 /\ ghost.jobs # 0
  BY <1>1, <1>2 DEF EarnedInv, Unspent
<1>4. QED BY <1>1, <1>2, <1>3 DEF EarnedInv, IdleCyclesAreEarned

LEMMA EarnedStep ==
  ASSUME TypeOK, EarnedInv, [Next]_vars
  PROVE  EarnedInv'
<1>1. ghost \in GhostType
  BY DEF TypeOK
<1>2. CASE StartJob
  <2>1. ghost'.jobs = ghost.jobs + 1 /\ ghost'.idle_cycles = 0
    BY <1>1, <1>2 DEF StartJob, SemanticJob, BeginJobCycleFails, BeginJob, BeginJobRecycled,
                      GhostType
  <2>2. QED BY <2>1, JobEarns
<1>3. CASE RunRequest
  <2>1. /\ ghost'.jobs = ghost.jobs /\ ghost'.idle_cycles = ghost.idle_cycles
        /\ cycled_while_idle' = cycled_while_idle /\ phase # "idle"
    BY <1>1, <1>3 DEF RunRequest, Answered, Failed, Killed, Died, Request, GhostType
  <2>2. QED BY <2>1, NothingSpent
<1>4. CASE AccountLifecycle
  <2>1. ghost' = ghost /\ cycled_while_idle' = cycled_while_idle /\ phase # "idle"
    BY <1>4 DEF AccountLifecycle, AccountNone, AccountRestarts, AccountTrips, Trips
  <2>2. QED BY <2>1, NothingSpent
<1>5. CASE SettleJob
  <2>1. /\ ghost'.jobs = ghost.jobs /\ ghost'.idle_cycles = ghost.idle_cycles
        /\ cycled_while_idle' = cycled_while_idle /\ phase # "idle"
    BY <1>1, <1>5 DEF SettleJob, Finish, FailJob, Rebuild, RebuildFails, RebuildTrips, Trips,
                      GhostType
  <2>2. QED BY <2>1, NothingSpent
<1>6. CASE IdleWork
  <2>1. CASE IdleCycleOnly \/ IdleCyclePrewarmed \/ IdleCyclePrewarmFails
    <3>1. ghost'.jobs = ghost.jobs /\ ghost'.idle_cycles = ghost.idle_cycles + 1
      BY <1>1, <2>1 DEF IdleCycleOnly, IdleCyclePrewarmed, IdleCyclePrewarmFails, GhostType
    <3>2. \E fresh : IdleCycle(fresh)
      BY <2>1 DEF IdleCycleOnly, IdleCyclePrewarmed, IdleCyclePrewarmFails
    <3>3. QED BY <3>1, <3>2, CycleSpends
  <2>2. CASE IdleCycleFails
    <3>1. child'.residue = child.residue
      BY <2>2, GenerationTypes, ChildTypes DEF IdleCycleFails
    <3>2. QED BY <2>2, <3>1, NothingSpent DEF IdleCycleFails
  <2>3. CASE PrewarmStamp
    BY <2>3, NothingSpent DEF PrewarmStamp
  <2>4. QED BY <1>6, <2>1, <2>2, <2>3 DEF IdleWork
<1>7. CASE Environment \/ UNCHANGED vars
  <2>1. UNCHANGED <<ghost, cycled_while_idle, phase, child>>
    BY <1>7 DEF Environment, Tick, Build, Vanish, vars
  <2>2. QED BY <2>1, NothingSpent
<1>8. QED BY <1>2, <1>3, <1>4, <1>5, <1>6, <1>7 DEF Next

(* Before the first message there is no idle cycle, and between two there   *)
(* is at most one, even though cycle_over_soft_budget's own pre-warm can    *)
(* leave the child over the budget that made it run.                        *)
THEOREM IdleNeverThrashes == Spec => []IdleCyclesAreEarned
<1>1. Init => EarnedInv
  BY DEF Init, EarnedInv, Unspent, IdleCyclesAreEarned
<1>2. ShapeOK /\ EarnedInv /\ [Next]_vars => EarnedInv'
  BY EarnedStep DEF ShapeOK
<1>3. EarnedInv => IdleCyclesAreEarned
  BY DEF EarnedInv
<1>4. QED BY <1>1, <1>2, <1>3, ShapeCorrect, PTL DEF Spec, ShapeOK

-----------------------------------------------------------------------------
(* The restart fact of a response. During a call the baselines agree, and  *)
(* whatever makes worker_restarted true means a child used up since them.  *)
InCall == phase \in {"attempt", "account", "settle"}
UsedUp == ghost.replaced > job.replaced_before
BaselinesAgree == InCall => job.generation_before = 1 + job.replaced_before
RestartsMeanUsedUp ==
  /\ InCall /\ job.call_restart # "none" => UsedUp
  /\ phase = "account" /\ job.restarts # <<>> => UsedUp
  /\ phase \in {"account", "settle"} /\ job.outcome = "rss_hard_limit_exceeded" => UsedUp
CallInv == BaselinesAgree /\ RestartsMeanUsedUp /\ RestartFactIsTrue

LEMMA AfterRequestFields ==
  ASSUME job \in JobType, NEW o \in Outcomes, NEW r \in Seq(Causes), NEW d \in BOOLEAN
  PROVE  /\ AfterRequest(o, r, d).replaced_before = job.replaced_before
         /\ AfterRequest(o, r, d).generation_before = job.generation_before
         /\ AfterRequest(o, r, d).call_restart = job.call_restart
         /\ AfterRequest(o, r, d).outcome = o
         /\ AfterRequest(o, r, d).restarts = r
  BY DEF AfterRequest, JobType

LEMMA RequestCallInv ==
  ASSUME ShapeOK, CallInv, NEW first \in Seq(Causes), NEW after \in Seq(Causes),
         NEW opens \in BOOLEAN, NEW outcome \in Outcomes,
         outcome = "rss_hard_limit_exceeded" => after # <<>>,
         Request(first, opens, outcome, after)
  PROVE  CallInv'
<1> DEFINE restarts == first \o after
           many == Len(restarts)
           hit == job.disrupted \/ outcome # "ok" \/ first = <<"child_abort">>
<1>1. restarts \in Seq(Causes) /\ many \in Nat /\ hit \in BOOLEAN
  <2>1. restarts \in Seq(Causes) /\ many \in Nat
    OBVIOUS
  <2>2. hit \in BOOLEAN
    BY Zenon
  <2>3. QED BY <2>1, <2>2
<1>2. (restarts # <<>> => many >= 1) /\ (after # <<>> => restarts # <<>>)
  <2>1. restarts # <<>> => many # 0
    OBVIOUS
  <2>2. \A n \in Nat : n # 0 => n >= 1
    OBVIOUS
  <2>3. after # <<>> => restarts # <<>>
    <3>1. after # <<>> => Len(after) # 0
      OBVIOUS
    <3>2. Len(after) \in Nat /\ Len(first) \in Nat /\ many = Len(first) + Len(after)
      OBVIOUS
    <3>3. after # <<>> => many # 0
      BY <3>1, <3>2
    <3>4. QED BY <3>3
  <2> HIDE DEF restarts, many
  <2>4. QED BY <1>1, <2>1, <2>2, <2>3
<1>3. job' = AfterRequest(outcome, restarts, hit)
  BY DEF Request, AfterRequest
<1>4. /\ phase = "attempt" /\ phase' = "account" /\ result' = result
  BY DEF Request
<1>5. ghost'.replaced = ghost.replaced + many
  BY GenerationTypes DEF ShapeOK, Request, GhostType
<1> HIDE DEF restarts, many, hit
<1>6. /\ job'.replaced_before = job.replaced_before
      /\ job'.generation_before = job.generation_before
      /\ job'.call_restart = job.call_restart
      /\ job'.outcome = outcome /\ job'.restarts = restarts
  BY <1>1, <1>3, AfterRequestFields DEF ShapeOK, TypeOK
<1>7. ghost.replaced \in Nat /\ job.replaced_before \in Nat
  BY DEF ShapeOK, TypeOK, GhostType, JobType
<1>8. BaselinesAgree' /\ RestartFactIsTrue'
  BY <1>4, <1>6 DEF CallInv, BaselinesAgree, InCall, RestartFactIsTrue
<1>9. (UsedUp => UsedUp') /\ (restarts # <<>> => UsedUp')
  BY <1>1, <1>2, <1>5, <1>6, <1>7 DEF UsedUp, ShapeOK, BaselineBehind
<1>10. RestartsMeanUsedUp'
  BY <1>2, <1>4, <1>6, <1>9 DEF CallInv, RestartsMeanUsedUp, InCall
<1>11. QED BY <1>8, <1>10 DEF CallInv

LEMMA StartCallInv ==
  ASSUME ShapeOK, GenerationCountsChildren, CallInv, StartJob
  PROVE  CallInv'
<1>1. /\ ghost \in GhostType /\ ghost.replaced \in Nat
      /\ observed_generation = 1 + ghost.replaced
  BY DEF ShapeOK, TypeOK, GhostType, GenerationCountsChildren
<1>2. CASE SemanticJob
  <2>1. /\ UNCHANGED <<phase, job, result>> /\ phase = "idle"
    BY <1>2 DEF SemanticJob, Accepts
  <2>2. QED BY <2>1 DEF CallInv, BaselinesAgree, RestartsMeanUsedUp, InCall, RestartFactIsTrue
<1>3. ASSUME NEW p \in Profiles, BeginJobCycleFails(p)
      PROVE  CallInv'
  <2>1. phase' = "idle" /\ result'.kind = "error"
    BY <1>3 DEF BeginJobCycleFails, Accepts
  <2>2. QED BY <2>1 DEF CallInv, BaselinesAgree, RestartsMeanUsedUp, InCall, RestartFactIsTrue
<1>4. ASSUME NEW p \in Profiles, NEW r \in 0..MaxRetries,
             BeginJob(p, r) \/ BeginJobRecycled(p, r)
      PROVE  CallInv'
  <2>1. phase' = "attempt" /\ result' = result
    BY <1>4 DEF BeginJob, BeginJobRecycled
  <2>2. job'.generation_before = observed_generation /\ job'.replaced_before = ghost.replaced
    BY <1>4 DEF BeginJob, BeginJobRecycled, NewJob
  <2>3. \/ job'.call_restart = "none"
        \/ ghost'.replaced = ghost.replaced + 1
    <3>1. CASE BeginJob(p, r)
      BY <3>1 DEF BeginJob, NewJob
    <3>2. CASE BeginJobRecycled(p, r)
      BY <1>1, <3>2 DEF BeginJobRecycled, GhostType
    <3>3. QED BY <1>4, <3>1, <3>2
  <2>4. BaselinesAgree' /\ RestartFactIsTrue'
    BY <1>1, <2>1, <2>2 DEF CallInv, BaselinesAgree, RestartFactIsTrue
  <2>5. RestartsMeanUsedUp'
    BY <1>1, <2>1, <2>2, <2>3 DEF RestartsMeanUsedUp, UsedUp
  <2>6. QED BY <2>4, <2>5 DEF CallInv
<1>5. QED BY <1>2, <1>3, <1>4 DEF StartJob

\* A call ends with a fact that is true, or without one.
LEMMA EndCallInv ==
  ASSUME CallInv, phase' = "idle",
         result'.kind \in {"done", "unavailable"} =>
           (result'.worker_restarted <=> result'.children > 0)
  PROVE  CallInv'
  BY DEF CallInv, BaselinesAgree, RestartsMeanUsedUp, InCall, RestartFactIsTrue

LEMMA EndJobFields ==
  ASSUME NEW kind, NEW restarted \in BOOLEAN, EndJob(kind, restarted)
  PROVE  /\ phase' = "idle" /\ result'.children = ghost.replaced - job.replaced_before
         /\ result'.worker_restarted <=> restarted
<1>1. phase' = "idle" /\ result'.children = ghost.replaced - job.replaced_before
  BY DEF EndJob
<1>2. result'.worker_restarted = restarted
  BY DEF EndJob
<1>3. QED BY <1>1, <1>2

LEMMA FinishCallInv ==
  ASSUME ShapeOK, GenerationCountsChildren, CallInv, Finish
  PROVE  CallInv'
<1> DEFINE advanced == observed_generation > job.generation_before
           one == job.call_restart # "none" \/ advanced
           two == job.outcome = "rss_hard_limit_exceeded" \/ advanced
           used == ghost.replaced - job.replaced_before
<1>1. /\ ghost.replaced \in Nat /\ job.replaced_before \in Nat
      /\ observed_generation = 1 + ghost.replaced
      /\ job.generation_before = 1 + job.replaced_before
  BY DEF ShapeOK, TypeOK, GhostType, JobType, GenerationCountsChildren, CallInv,
         BaselinesAgree, InCall, Finish
<1>2. (advanced <=> used > 0) /\ (UsedUp <=> used > 0)
  BY <1>1 DEF UsedUp
<1>3. (job.call_restart # "none" => UsedUp)
      /\ (job.outcome = "rss_hard_limit_exceeded" => UsedUp)
  BY DEF CallInv, RestartsMeanUsedUp, InCall, Finish
<1>4. (one <=> used > 0) /\ (two <=> used > 0)
  BY <1>2, <1>3
<1>5. EndJob("done", one) \/ EndJob("unavailable", two)
  BY DEF Finish
<1>6. /\ phase' = "idle" /\ result'.children = used
      /\ (result'.worker_restarted <=> one) \/ (result'.worker_restarted <=> two)
  <2>1. one \in BOOLEAN /\ two \in BOOLEAN
    OBVIOUS
  <2> HIDE DEF one, two
  <2>2. QED BY <1>5, <2>1, EndJobFields
<1> HIDE DEF advanced, one, two, used
<1>7. QED BY <1>4, <1>6, EndCallInv

LEMMA CallStep ==
  ASSUME ShapeOK, GenerationCountsChildren, CallInv, [Next]_vars
  PROVE  CallInv'
<1>1. ghost \in GhostType /\ ghost.replaced \in Nat /\ job \in JobType
      /\ job.replaced_before \in Nat
  BY DEF ShapeOK, TypeOK, GhostType, JobType
<1>2. CASE StartJob
  BY <1>2, StartCallInv
<1>3. CASE RunRequest
  <2> DEFINE first == RestartsFirst(child, job.profile)
  <2>1. first \in Seq(Causes) /\ <<>> \in Seq(Causes)
    BY FirstIsShort
  <2>2. {"ok", "error", "session_missing", "timeout", "rss_hard_limit_exceeded",
         "child_abort", "child_exit"} \subseteq Outcomes
    BY DEF Outcomes
  <2> HIDE DEF first
  <2>3. CASE Answered
    BY <2>1, <2>2, <2>3, RequestCallInv DEF Answered, first
  <2>4. CASE Failed
    BY <2>1, <2>2, <2>4, RequestCallInv DEF Failed, first
  <2>5. CASE Killed
    <3>1. PICK opens \in BOOLEAN,
               outcome \in {"timeout", "rss_hard_limit_exceeded", "child_abort"} :
            Request(first, opens, outcome, <<outcome>>)
      BY <2>5 DEF Killed, first
    <3>2. outcome \in Causes /\ outcome \in Outcomes
      BY <2>2 DEF Causes, Abnormal
    <3>3. <<outcome>> \in Seq(Causes) /\ <<outcome>> # <<>>
      BY <3>2
    <3>4. QED BY <2>1, <3>1, <3>2, <3>3, RequestCallInv
  <2>6. CASE Died
    <3>1. PICK opens \in BOOLEAN, outcome \in {"child_exit", "child_abort"},
               f \in {first, <<>>} : Request(f, opens, outcome, <<>>)
      BY <2>6 DEF Died, first
    <3>2. f \in Seq(Causes)
      BY <2>1, Zenon
    <3>3. outcome \in Outcomes /\ outcome # "rss_hard_limit_exceeded"
      BY <2>2
    <3>4. QED BY <2>1, <3>1, <3>2, <3>3, RequestCallInv
  <2>7. QED BY <1>3, <2>3, <2>4, <2>5, <2>6 DEF RunRequest
<1>4. CASE AccountLifecycle
  <2>1. CASE AccountNone
    BY <2>1 DEF AccountNone, CallInv, BaselinesAgree, RestartsMeanUsedUp, InCall, UsedUp,
                RestartFactIsTrue
  <2>2. CASE AccountRestarts
    <3>1. job' = RecordedOn(job, LastCause)
      BY <2>2 DEF AccountRestarts, RecordedOn
    <3>2. /\ job'.replaced_before = job.replaced_before
          /\ job'.generation_before = job.generation_before
          /\ job'.outcome = job.outcome
      BY <1>1, <3>1 DEF RecordedOn, JobType
    <3>3. /\ phase = "account" /\ phase' = "settle" /\ result' = result /\ ghost' = ghost
          /\ job.restarts # <<>>
      BY <2>2 DEF AccountRestarts
    <3>4. UsedUp'
      BY <3>2, <3>3 DEF CallInv, RestartsMeanUsedUp, UsedUp
    <3>5. QED BY <3>2, <3>3, <3>4 DEF CallInv, BaselinesAgree, RestartsMeanUsedUp, InCall,
                                      RestartFactIsTrue
  <2>3. CASE AccountTrips
    BY <2>3, EndCallInv DEF AccountTrips, Trips, EndJob
  <2>4. QED BY <1>4, <2>1, <2>2, <2>3 DEF AccountLifecycle
<1>5. CASE SettleJob
  <2>1. CASE Finish
    BY <2>1, FinishCallInv
  <2>2. CASE FailJob
    BY <2>2, EndCallInv DEF FailJob, EndJob
  <2>3. CASE RebuildFails
    BY <2>3, EndCallInv DEF RebuildFails, EndJob
  <2>4. CASE RebuildTrips
    BY <2>4, EndCallInv DEF RebuildTrips, Trips, EndJob
  <2>5. CASE Rebuild
    <3>1. job' = RetriedOn(job, job.retry_count + 1, job.outcome)
      BY <2>5 DEF Rebuild, RestartOfCall, RetriedOn
    <3>2. /\ job'.replaced_before = job.replaced_before
          /\ job'.generation_before = job.generation_before
      BY <1>1, <3>1 DEF RetriedOn, JobType
    <3>3. /\ phase = "settle" /\ phase' = "attempt" /\ result' = result
          /\ ghost'.replaced = ghost.replaced + 1
      BY <1>1, <2>5 DEF Rebuild, GhostType
    <3>4. UsedUp'
      BY <1>1, <3>2, <3>3 DEF UsedUp, ShapeOK, BaselineBehind
    <3>5. QED BY <3>2, <3>3, <3>4 DEF CallInv, BaselinesAgree, RestartsMeanUsedUp, InCall,
                                      RestartFactIsTrue
  <2>6. QED BY <1>5, <2>1, <2>2, <2>3, <2>4, <2>5 DEF SettleJob
<1>6. CASE IdleWork
  <2>1. phase' \in {"idle", "prewarmed"} /\ result' = result
    BY <1>6 DEF IdleWork, IdleCycleOnly, IdleCyclePrewarmed, IdleCyclePrewarmFails,
                IdleCycleFails, PrewarmStamp, IdleCycle
  <2>2. QED BY <2>1 DEF CallInv, BaselinesAgree, RestartsMeanUsedUp, InCall, RestartFactIsTrue
<1>7. CASE Environment \/ UNCHANGED vars
  <2>1. UNCHANGED <<phase, job, result, ghost>>
    BY <1>7 DEF Environment, Tick, Build, Vanish, vars
  <2>2. QED BY <2>1 DEF CallInv, BaselinesAgree, RestartsMeanUsedUp, InCall, UsedUp,
                        RestartFactIsTrue
<1>8. QED BY <1>2, <1>3, <1>4, <1>5, <1>6, <1>7 DEF Next

(* worker_restarted is true exactly of the calls that went through more    *)
(* than one child: a recorded cause, the hard RSS limit and an advanced    *)
(* generation, the three things the code tests, each imply it, and a       *)
(* second child always advances the generation.                            *)
THEOREM RestartFactHolds == Spec => []RestartFactIsTrue
<1>1. Init => CallInv
  BY DEF Init, CallInv, BaselinesAgree, RestartsMeanUsedUp, InCall, RestartFactIsTrue
<1>2. ShapeOK /\ GenerationCountsChildren /\ CallInv /\ [Next]_vars => CallInv'
  BY CallStep
<1>3. CallInv => RestartFactIsTrue
  BY DEF CallInv
<1>4. QED
  BY <1>1, <1>2, <1>3, ShapeCorrect, GenerationIsACount, PTL DEF Spec, ShapeOK

-----------------------------------------------------------------------------
(* Retries and taint. A retried attempt starts on a fresh child, so it is   *)
(* not the supervisor's planned replacement that its answer reports.       *)
RetryBudget == InCall => job.retries <= MaxRetries
Tainted(cause) == cause \in Disrupting
TaintInCall ==
  /\ phase = "attempt" /\ job.disrupted => job.retry_count > 0
  /\ phase \in {"attempt", "settle"} /\ (phase = "settle" => job.outcome = "ok") =>
       (job.disrupted <=> Tainted(job.call_restart))
  /\ phase = "account" /\ job.outcome = "ok" =>
       (job.disrupted <=> IF job.restarts = <<>> THEN Tainted(job.call_restart)
                          ELSE Tainted(LastCause))
  /\ phase \in {"account", "settle"} /\ job.outcome # "ok" => job.disrupted
TaintInv == RetryBudget /\ RetryOnFreshChild /\ TaintInCall /\ TaintIsExact

LEMMA NotInCall ==
  ASSUME TaintInv, phase' \notin {"attempt", "account", "settle"},
         result'.kind = "done" => (result'.disrupted <=> Tainted(result'.call_restart))
  PROVE  TaintInv'
  BY DEF TaintInv, RetryBudget, RetryOnFreshChild, TaintInCall, TaintIsExact, InCall, Tainted

LEMMA SameResult ==
  ASSUME TaintInv, result' = result
  PROVE  result'.kind = "done" => (result'.disrupted <=> Tainted(result'.call_restart))
  BY DEF TaintInv, TaintIsExact, Tainted

LEMMA EndJobTaint ==
  ASSUME TypeOK, NEW kind, NEW restarted, EndJob(kind, restarted)
  PROVE  /\ phase' = "idle" /\ result'.kind = kind
         /\ result'.call_restart = job.call_restart
         /\ result'.disrupted <=> job.disrupted
<1>1. phase' = "idle" /\ result'.kind = kind /\ result'.call_restart = job.call_restart
  BY DEF EndJob
<1>2. result'.disrupted = job.disrupted
  BY DEF EndJob
<1>3. QED BY <1>1, <1>2

LEMMA NewJobTaint ==
  ASSUME TypeOK, NEW p \in Profiles, NEW r \in 0..MaxRetries,
         NEW restart \in {"none", "artifacts_rebuilt"}
  PROVE  /\ NewJob(p, r, restart).retries = r /\ NewJob(p, r, restart).retry_count = 0
         /\ NewJob(p, r, restart).disrupted = FALSE
         /\ ~Tainted(NewJob(p, r, restart).call_restart)
<1>1. NewJob(p, r, restart).retries = r /\ NewJob(p, r, restart).retry_count = 0
  BY DEF NewJob
<1>2. NewJob(p, r, restart).disrupted = FALSE
  BY DEF NewJob
<1>3. NewJob(p, r, restart).call_restart = restart
  BY DEF NewJob
<1>4. QED BY <1>1, <1>2, <1>3 DEF Tainted, Disrupting

LEMMA BeginTaint ==
  ASSUME TypeOK, TaintInv, NEW p \in Profiles, NEW r \in 0..MaxRetries,
         BeginJob(p, r) \/ BeginJobRecycled(p, r)
  PROVE  TaintInv'
<1>1. phase' = "attempt" /\ result' = result
  BY DEF BeginJob, BeginJobRecycled
<1>2. job' = NewJob(p, r, "none") \/ job' = NewJob(p, r, "artifacts_rebuilt")
  BY DEF BeginJob, BeginJobRecycled
<1>3. /\ job'.retries = r /\ job'.retry_count = 0 /\ job'.disrupted = FALSE
      /\ ~Tainted(job'.call_restart)
  <2>1. CASE job' = NewJob(p, r, "none")
    BY <2>1, NewJobTaint
  <2>2. CASE job' = NewJob(p, r, "artifacts_rebuilt")
    BY <2>2, NewJobTaint
  <2>3. QED BY <1>2, <2>1, <2>2
<1>4. r \in Nat /\ r <= MaxRetries
  BY ActorConstants
<1>5. RetryBudget' /\ RetryOnFreshChild'
  BY <1>1, <1>3, <1>4 DEF RetryBudget, RetryOnFreshChild
<1>6. TaintInCall'
  BY <1>1, <1>3 DEF TaintInCall, Tainted
<1>7. QED BY <1>1, <1>5, <1>6 DEF TaintInv, TaintIsExact

LEMMA AfterRequestRetries ==
  ASSUME job \in JobType, NEW o \in Outcomes, NEW r \in Seq(Causes), NEW d \in BOOLEAN
  PROVE  /\ AfterRequest(o, r, d).retries = job.retries
         /\ AfterRequest(o, r, d).disrupted <=> d
<1>1. AfterRequest(o, r, d).retries = job.retries
  BY DEF AfterRequest, JobType
<1>2. AfterRequest(o, r, d).disrupted = d
  BY DEF AfterRequest, JobType
<1>3. QED BY <1>1, <1>2

\* Once the call was disrupted its attempt runs on a child with room to spare.
LEMMA DisruptedStartsClean ==
  ASSUME TypeOK, TaintInv, phase = "attempt", job.disrupted, NEW p
  PROVE  RestartsFirst(child, p) = <<>>
<1>1. child.alive /\ child.residue = 0
  BY DEF TypeOK, TaintInv, TaintInCall, RetryOnFreshChild
<1>2. HardResidue \in Nat \ {0}
  BY ActorConstants
<1>3. QED BY <1>1, <1>2 DEF RestartsFirst

LEMMA RequestTaint ==
  ASSUME TypeOK, TaintInv, NEW first \in Seq(Causes), NEW after \in Seq(Causes),
         NEW opens \in BOOLEAN, NEW outcome \in Outcomes,
         outcome = "ok" => after = <<>> /\ first = RestartsFirst(child, job.profile),
         Request(first, opens, outcome, after)
  PROVE  TaintInv'
<1> DEFINE restarts == first \o after
           hit == job.disrupted \/ outcome # "ok" \/ first = <<"child_abort">>
<1>1. restarts \in Seq(Causes)
  OBVIOUS
<1>2. hit \in BOOLEAN
  BY Zenon
<1>3. job' = AfterRequest(outcome, restarts, hit)
  BY DEF Request, AfterRequest
<1>4. phase = "attempt" /\ phase' = "account" /\ result' = result
  BY DEF Request
<1> HIDE DEF restarts, hit
<1>5. /\ job'.retries = job.retries /\ job'.call_restart = job.call_restart
      /\ job'.outcome = outcome /\ job'.restarts = restarts
      /\ job'.disrupted <=> hit
  BY <1>1, <1>2, <1>3, AfterRequestFields, AfterRequestRetries DEF TypeOK
<1>6. RetryBudget' /\ RetryOnFreshChild'
  BY <1>4, <1>5 DEF TaintInv, RetryBudget, RetryOnFreshChild, InCall
<1>7. outcome # "ok" => hit
  BY DEF hit
<1>8. ASSUME outcome = "ok"
      PROVE  hit <=> IF restarts = <<>> THEN Tainted(job.call_restart)
                     ELSE Tainted(restarts[Len(restarts)])
  <2>1. restarts = first
    BY <1>8 DEF restarts
  <2>2. job.disrupted <=> Tainted(job.call_restart)
    BY <1>4 DEF TaintInv, TaintInCall
  <2>3. CASE first = <<>>
    <3>1. hit <=> job.disrupted
      BY <1>8, <2>3 DEF hit
    <3>2. QED BY <2>1, <2>2, <2>3, <3>1
  <2>4. CASE first = <<"child_abort">>
    <3>1. hit
      BY <2>4 DEF hit
    <3>2. restarts # <<>> /\ restarts[Len(restarts)] = "child_abort"
      BY <2>1, <2>4
    <3>3. QED BY <3>1, <3>2 DEF Tainted, Disrupting
  <2>5. CASE first = <<"import_residue">>
    <3>1. first # <<>> /\ first # <<"child_abort">>
      BY <2>5
    <3>2. ~job.disrupted
      BY <1>4, <1>8, <3>1, DisruptedStartsClean
    <3>3. ~hit
      BY <1>8, <3>1, <3>2 DEF hit
    <3>4. restarts # <<>> /\ restarts[Len(restarts)] = "import_residue"
      BY <2>1, <2>5
    <3>5. QED BY <3>3, <3>4 DEF Tainted, Disrupting
  <2>6. QED BY <1>8, <2>3, <2>4, <2>5, RestartsFirstType
<1>9. TaintInCall'
  <2>1. LastCause' = restarts[Len(restarts)]
    BY <1>5 DEF LastCause
  <2>2. outcome = "ok" =>
          (job'.disrupted <=> IF job'.restarts = <<>> THEN Tainted(job'.call_restart)
                              ELSE Tainted(LastCause'))
    <3>1. HAVE outcome = "ok"
    <3>2. CASE restarts = <<>>
      BY <1>5, <1>8, <3>1, <3>2
    <3>3. CASE restarts # <<>>
      BY <1>5, <1>8, <2>1, <3>1, <3>3
    <3>4. QED BY <3>2, <3>3
  <2>3. outcome # "ok" => job'.disrupted
    BY <1>5, <1>7
  <2>4. QED BY <1>4, <1>5, <2>2, <2>3 DEF TaintInCall, Tainted
<1>10. QED BY <1>4, <1>6, <1>9 DEF TaintInv, TaintIsExact

LEMMA RecordedTaint ==
  ASSUME job \in JobType, NEW c \in Causes
  PROVE  /\ RecordedOn(job, c).retries = job.retries
         /\ RecordedOn(job, c).outcome = job.outcome
         /\ RecordedOn(job, c).call_restart = c
         /\ RecordedOn(job, c).disrupted <=> job.disrupted
<1>1. /\ RecordedOn(job, c).retries = job.retries
      /\ RecordedOn(job, c).outcome = job.outcome
      /\ RecordedOn(job, c).call_restart = c
  BY DEF RecordedOn, JobType
<1>2. RecordedOn(job, c).disrupted = job.disrupted
  BY DEF RecordedOn, JobType
<1>3. QED BY <1>1, <1>2

LEMMA RetriedTaint ==
  ASSUME job \in JobType, NEW n \in Nat, NEW c \in Outcomes
  PROVE  /\ RetriedOn(job, n, c).retries = job.retries
         /\ RetriedOn(job, n, c).retry_count = n
         /\ RetriedOn(job, n, c).generation_before = job.generation_before
         /\ RetriedOn(job, n, c).call_restart = c
         /\ RetriedOn(job, n, c).disrupted <=> job.disrupted
<1>1. /\ RetriedOn(job, n, c).retries = job.retries
      /\ RetriedOn(job, n, c).retry_count = n
      /\ RetriedOn(job, n, c).generation_before = job.generation_before
      /\ RetriedOn(job, n, c).call_restart = c
  BY DEF RetriedOn, JobType
<1>2. RetriedOn(job, n, c).disrupted = job.disrupted
  BY DEF RetriedOn, JobType
<1>3. QED BY <1>1, <1>2

\* An attempt that failed has disrupted its call, whatever comes next.
LEMMA FailedIsDisrupted ==
  ASSUME TaintInv, phase \in {"account", "settle"}, job.outcome # "ok"
  PROVE  job.disrupted
  BY DEF TaintInv, TaintInCall

LEMMA AccountTaint ==
  ASSUME ShapeOK, TaintInv, AccountLifecycle
  PROVE  TaintInv'
<1>1. job \in JobType
  BY DEF ShapeOK, TypeOK
<1>2. CASE AccountNone
  <2>1. /\ phase = "account" /\ phase' = "settle" /\ result' = result /\ job' = job
        /\ job.restarts = <<>>
    BY <1>2 DEF AccountNone
  <2>2. TaintInCall'
    BY <2>1 DEF TaintInv, TaintInCall, Tainted
  <2>3. RetryBudget' /\ RetryOnFreshChild' /\ TaintIsExact'
    BY <2>1 DEF TaintInv, RetryBudget, RetryOnFreshChild, InCall, TaintIsExact
  <2>4. QED BY <2>2, <2>3 DEF TaintInv
<1>3. CASE AccountRestarts
  <2>1. /\ phase = "account" /\ phase' = "settle" /\ result' = result
        /\ job.restarts # <<>> /\ job' = RecordedOn(job, LastCause)
    BY <1>3 DEF AccountRestarts, RecordedOn
  <2>2. LastCause \in Causes
    BY <2>1, CausesOfJob DEF ShapeOK, TypeOK, LastCause
  <2> DEFINE c == LastCause
  <2>3. job.outcome = "ok" => (job.disrupted <=> Tainted(c))
    BY <2>1 DEF TaintInv, TaintInCall
  <2> HIDE DEF c
  <2>4. /\ job'.retries = job.retries /\ job'.outcome = job.outcome
        /\ job'.call_restart = c /\ (job'.disrupted <=> job.disrupted)
    BY <1>1, <2>1, <2>2, RecordedTaint DEF c
  <2>5. TaintInCall'
    <3>1. job'.outcome = "ok" => (job'.disrupted <=> Tainted(job'.call_restart))
      BY <2>3, <2>4
    <3>2. job'.outcome # "ok" => job'.disrupted
      BY <2>1, <2>4, FailedIsDisrupted
    <3>3. QED BY <2>1, <3>1, <3>2 DEF TaintInCall, Tainted
  <2>6. RetryBudget' /\ RetryOnFreshChild' /\ TaintIsExact'
    BY <2>1, <2>4 DEF TaintInv, RetryBudget, RetryOnFreshChild, InCall, TaintIsExact
  <2>7. QED BY <2>5, <2>6 DEF TaintInv
<1>4. CASE AccountTrips
  <2>1. EndJob("restart_limit_exceeded", FALSE)
    BY <1>4 DEF AccountTrips, Trips
  <2>2. phase' = "idle" /\ result'.kind = "restart_limit_exceeded"
    BY <2>1 DEF EndJob
  <2>3. QED BY <2>2, NotInCall
<1>5. QED BY <1>2, <1>3, <1>4 DEF AccountLifecycle

LEMMA RebuildTaint ==
  ASSUME ShapeOK, GenerationCountsChildren, CallInv, TaintInv, Rebuild
  PROVE  TaintInv'
<1>1. /\ job \in JobType /\ child \in ChildType /\ base \in Nat
      /\ ghost.replaced \in Nat /\ job.replaced_before \in Nat
      /\ job.replaced_before <= ghost.replaced
      /\ job.retry_count \in Nat /\ job.retries \in Nat /\ job.outcome \in Outcomes
      /\ child.generation \in Nat
  BY DEF ShapeOK, TypeOK, BaselineBehind, GhostType, JobType, ChildType
<1>2. /\ phase = "settle" /\ phase' = "attempt" /\ result' = result
      /\ job' = RetriedOn(job, job.retry_count + 1, job.outcome)
      /\ child' = [Replaced(child) EXCEPT !.generation = 0]
      /\ base' = observed_generation + 1
      /\ job.outcome \in Retryable /\ job.retry_count < job.retries
  BY DEF Rebuild, RestartOfCall, RetriedOn, NextGeneration, Retries
<1>3. /\ job'.retries = job.retries /\ job'.retry_count = job.retry_count + 1
      /\ job'.generation_before = job.generation_before
      /\ job'.call_restart = job.outcome /\ (job'.disrupted <=> job.disrupted)
  BY <1>1, <1>2, RetriedTaint
<1>4. /\ child'.alive /\ child'.pooled = <<>> /\ child'.residue = 0
      /\ child'.generation = 0
  BY <1>2 DEF Replaced
<1>5. observed_generation' > job'.generation_before
  <2>1. observed_generation' = observed_generation + 1
    BY <1>1, <1>2, <1>4 DEF observed_generation
  <2>2. /\ observed_generation = 1 + ghost.replaced
        /\ job.generation_before = 1 + job.replaced_before
    BY <1>2 DEF GenerationCountsChildren, CallInv, BaselinesAgree, InCall
  <2>3. QED BY <1>1, <1>3, <2>1, <2>2
<1>6. job'.retries <= MaxRetries /\ job'.retry_count <= MaxRetries
  <2>1. job.retries <= MaxRetries
    BY <1>2 DEF TaintInv, RetryBudget, InCall
  <2>2. QED BY <1>1, <1>2, <1>3, <2>1, ActorConstants
<1>7. RetryBudget' /\ RetryOnFreshChild'
  BY <1>4, <1>5, <1>6 DEF RetryBudget, RetryOnFreshChild
<1>8. job'.disrupted /\ Tainted(job'.call_restart) /\ job'.retry_count > 0
  <2>1. job.outcome # "ok" /\ Tainted(job.outcome)
    BY <1>2 DEF Retryable, Tainted, Disrupting
  <2>2. job.disrupted
    BY <1>2, <2>1, FailedIsDisrupted
  <2>3. job'.retry_count > 0
    BY <1>1, <1>3
  <2>4. QED BY <1>3, <2>1, <2>2, <2>3
<1>9. TaintInCall'
  BY <1>2, <1>8 DEF TaintInCall, Tainted
<1>10. QED BY <1>2, <1>7, <1>9 DEF TaintInv, TaintIsExact

LEMMA SettleTaint ==
  ASSUME ShapeOK, GenerationCountsChildren, CallInv, TaintInv, SettleJob
  PROVE  TaintInv'
<1>1. CASE Finish
  <2>1. phase = "settle" /\ phase' = "idle"
    BY <1>1 DEF Finish, EndJob
  <2>2. CASE job.outcome = "ok"
    <3>1. PICK restarted : EndJob("done", restarted)
      BY <1>1, <2>2 DEF Finish
    <3>2. job.disrupted <=> Tainted(job.call_restart)
      BY <2>1, <2>2 DEF TaintInv, TaintInCall
    <3>3. /\ result'.call_restart = job.call_restart
          /\ result'.disrupted <=> job.disrupted
      BY <3>1, EndJobTaint DEF ShapeOK
    <3>4. QED BY <2>1, <3>2, <3>3, NotInCall
  <2>3. CASE job.outcome # "ok"
    <3>1. PICK restarted : EndJob("unavailable", restarted)
      BY <1>1, <2>3 DEF Finish
    <3>2. result'.kind = "unavailable"
      BY <3>1 DEF EndJob
    <3>3. QED BY <2>1, <3>2, NotInCall
  <2>4. QED BY <2>2, <2>3
<1>2. CASE FailJob \/ RebuildFails
  <2>1. phase' = "idle" /\ result'.kind = "error"
    BY <1>2 DEF FailJob, RebuildFails, EndJob
  <2>2. QED BY <2>1, NotInCall
<1>3. CASE RebuildTrips
  <2>1. EndJob("restart_limit_exceeded", FALSE)
    BY <1>3 DEF RebuildTrips, Trips
  <2>2. phase' = "idle" /\ result'.kind = "restart_limit_exceeded"
    BY <2>1 DEF EndJob
  <2>3. QED BY <2>2, NotInCall
<1>4. CASE Rebuild
  BY <1>4, RebuildTaint
<1>5. QED BY <1>1, <1>2, <1>3, <1>4 DEF SettleJob

LEMMA TaintStep ==
  ASSUME ShapeOK, GenerationCountsChildren, CallInv, TaintInv, [Next]_vars
  PROVE  TaintInv'
<1>1. TypeOK
  BY DEF ShapeOK
<1>2. CASE StartJob
  <2>1. CASE SemanticJob
    <3>1. phase' = "idle" /\ result' = result
      BY <2>1 DEF SemanticJob, Accepts
    <3>2. QED BY <3>1, SameResult, NotInCall
  <2>2. ASSUME NEW p \in Profiles, BeginJobCycleFails(p)
        PROVE  TaintInv'
    <3>1. phase' = "idle" /\ result'.kind = "error"
      BY <2>2 DEF BeginJobCycleFails, Accepts
    <3>2. QED BY <3>1, NotInCall
  <2>3. ASSUME NEW p \in Profiles, NEW r \in 0..MaxRetries,
               BeginJob(p, r) \/ BeginJobRecycled(p, r)
        PROVE  TaintInv'
    BY <1>1, <2>3, BeginTaint
  <2>4. QED BY <1>2, <2>1, <2>2, <2>3 DEF StartJob
<1>3. CASE RunRequest
  <2> DEFINE first == RestartsFirst(child, job.profile)
  <2>1. first \in Seq(Causes) /\ <<>> \in Seq(Causes)
    BY FirstIsShort
  <2>2. {"ok", "error", "session_missing", "timeout", "rss_hard_limit_exceeded",
         "child_abort", "child_exit"} \subseteq Outcomes
    BY DEF Outcomes
  <2> HIDE DEF first
  <2>3. CASE Answered
    BY <1>1, <2>1, <2>2, <2>3, RequestTaint DEF Answered, first
  <2>4. CASE Failed
    <3>1. PICK opens \in BOOLEAN, outcome \in {"error", "session_missing"} :
            Request(first, opens, outcome, <<>>)
      BY <2>4 DEF Failed, first
    <3>2. outcome \in Outcomes /\ outcome # "ok"
      BY <2>2
    <3>3. QED BY <1>1, <2>1, <3>1, <3>2, RequestTaint
  <2>5. CASE Killed
    <3>1. PICK opens \in BOOLEAN,
               outcome \in {"timeout", "rss_hard_limit_exceeded", "child_abort"} :
            Request(first, opens, outcome, <<outcome>>)
      BY <2>5 DEF Killed, first
    <3>2. outcome \in Causes /\ outcome \in Outcomes /\ outcome # "ok"
      BY <2>2 DEF Causes, Abnormal
    <3>3. <<outcome>> \in Seq(Causes)
      BY <3>2
    <3>4. QED BY <1>1, <2>1, <3>1, <3>2, <3>3, RequestTaint
  <2>6. CASE Died
    <3>1. PICK opens \in BOOLEAN, outcome \in {"child_exit", "child_abort"},
               f \in {first, <<>>} : Request(f, opens, outcome, <<>>)
      BY <2>6 DEF Died, first
    <3>2. f \in Seq(Causes)
      BY <2>1, Zenon
    <3>3. outcome \in Outcomes /\ outcome # "ok"
      BY <2>2
    <3>4. QED BY <1>1, <2>1, <3>1, <3>2, <3>3, RequestTaint
  <2>7. QED BY <1>3, <2>3, <2>4, <2>5, <2>6 DEF RunRequest
<1>4. CASE AccountLifecycle
  BY <1>4, AccountTaint
<1>5. CASE SettleJob
  BY <1>5, SettleTaint
<1>6. CASE IdleWork
  <2>1. phase' \in {"idle", "prewarmed"} /\ result' = result
    BY <1>6 DEF IdleWork, IdleCycleOnly, IdleCyclePrewarmed, IdleCyclePrewarmFails,
                IdleCycleFails, PrewarmStamp, IdleCycle
  <2>2. QED BY <2>1, SameResult, NotInCall
<1>7. CASE Environment \/ UNCHANGED vars
  <2>1. UNCHANGED <<phase, job, result, base, child>>
    BY <1>7 DEF Environment, Tick, Build, Vanish, vars
  <2>2. QED BY <2>1 DEF TaintInv, RetryBudget, RetryOnFreshChild, TaintInCall, TaintIsExact,
                        InCall, Tainted, LastCause, observed_generation
<1>8. QED BY <1>2, <1>3, <1>4, <1>5, <1>6, <1>7 DEF Next

LEMMA InitTaint == Init => TaintInv
<1> SUFFICES ASSUME Init PROVE TaintInv
  OBVIOUS
<1>1. phase = "idle" /\ result.kind = "none"
  BY DEF Init
<1>2. QED BY <1>1 DEF TaintInv, RetryBudget, RetryOnFreshChild, TaintInCall, TaintIsExact, InCall

(* The request a retry makes starts on a live child with nothing pooled and *)
(* nothing charged to it, made after the call began, and no call is retried *)
(* more than MAX_JOB_RETRIES times.                                        *)
THEOREM RetriesStartFresh == Spec => []RetryOnFreshChild
<1>1. ShapeOK /\ GenerationCountsChildren /\ CallInv /\ TaintInv /\ [Next]_vars
        => CallInv' /\ TaintInv'
  BY CallStep, TaintStep
<1>2. Init => CallInv
  BY DEF Init, CallInv, BaselinesAgree, RestartsMeanUsedUp, InCall, RestartFactIsTrue
<1>3. TaintInv => RetryOnFreshChild
  BY DEF TaintInv
<1>4. QED
  BY <1>1, <1>2, <1>3, InitTaint, ShapeCorrect, GenerationIsACount, PTL DEF Spec, ShapeOK

(* An answer is tainted exactly when its call was disrupted: because a      *)
(* retry starts fresh, the supervisor has no planned replacement to make    *)
(* before it, whose cause would overwrite the disrupting one.              *)
THEOREM TaintIsRight == Spec => []TaintIsExact
<1>1. ShapeOK /\ GenerationCountsChildren /\ CallInv /\ TaintInv /\ [Next]_vars
        => CallInv' /\ TaintInv'
  BY CallStep, TaintStep
<1>2. Init => CallInv
  BY DEF Init, CallInv, BaselinesAgree, RestartsMeanUsedUp, InCall, RestartFactIsTrue
<1>3. TaintInv => TaintIsExact
  BY DEF TaintInv
<1>4. QED
  BY <1>1, <1>2, <1>3, InitTaint, ShapeCorrect, GenerationIsACount, PTL DEF Spec, ShapeOK
-----------------------------------------------------------------------------
(***************************************************************************)
(* Why a call is never answered from an environment older than the build   *)
(* that had ended when it began: for any profiles, budgets and limits, and *)
(* with the environment switches off, imports_seen remembers the child's   *)
(* session pool.                                                           *)
(***************************************************************************)

(* What a call needs of its environment: artifacts stay on disk, no build   *)
(* lands inside a pre-warm, a request that fails alive has imported, and a  *)
(* cycle() that fails has stopped the old child.                           *)
Hypotheses ==
  ~ArtifactsVanish /\ ~BuildsRacePrewarm /\ ~FailuresSkipImport /\ ~FailedCyclesSpare

(* a is the recent end of b.                                                *)
Suffix(a, b) ==
  Len(a) <= Len(b) /\ \A i \in 1..Len(a) : a[i] = b[Len(b) - Len(a) + i]
Distinct(s) == \A i, j \in 1..Len(s) : s[i] = s[j] => i = j
LastIs(s, p) == Len(s) > 0 /\ s[Len(s)] = p

(* Artifacts are there, and a stamp that was read is not ahead of them.     *)
DiskOK == \A p \in Profiles : present[p] /\ built[p] >= 1 /\ stamps[p] <= built[p]

(* What the child pools was imported no earlier than the stamp recorded.    *)
PoolOK ==
  \A p \in Profiles : Holds(child.pooled, p) /\ phase # "prewarmed" => stamps[p] \in 1..child.env[p]

(* The mirror: at rest and once a request is over the pool is the recent    *)
(* end of imports_seen; before a request it will be once the session of    *)
(* the call is used.                                                       *)
Mirror ==
  /\ Distinct(imports_seen)
  /\ phase \in {"idle", "account", "settle"} => Suffix(child.pooled, imports_seen)
  /\ phase = "attempt" => Suffix(Used(child.pooled, job.profile), imports_seen)
  /\ phase = "account" /\ job.restarts # <<>> => Len(child.pooled) <= 1
  /\ phase = "prewarmed" =>
       /\ imports_seen = <<>> /\ child.pooled = <<job.profile>>
       /\ child.env[job.profile] = built[job.profile]

Call ==
  /\ InCall => /\ LastIs(imports_seen, job.profile)
               /\ stamps[job.profile] = job.stamp /\ job.stamp >= 1
  /\ phase \in {"account", "settle"} /\ job.outcome = "ok" =>
       child.env[job.profile] >= job.stamp

FreshInv == DiskOK /\ PoolOK /\ Mirror /\ Call /\ ServedFresh
-----------------------------------------------------------------------------
(* Both lists evict by the same rule, so the shorter stays the recent end   *)
(* of the longer whatever is used next.                                    *)
Index(s, p) == CHOOSE i \in 1..Len(s) : s[i] = p

LEMMA IndexIs ==
  ASSUME NEW s \in Seq(Profiles), NEW p, Holds(s, p)
  PROVE  Index(s, p) \in 1..Len(s) /\ s[Index(s, p)] = p
BY DEF Holds, Index

LEMMA UsedHeld ==
  ASSUME NEW s \in Seq(Profiles), NEW p \in Profiles, Holds(s, p)
  PROVE  /\ Len(Used(s, p)) = Len(s) /\ Used(s, p)[Len(s)] = p
         /\ \A j \in 1..Len(s) - 1 : Used(s, p)[j] = IF j < Index(s, p) THEN s[j] ELSE s[j + 1]
<1> DEFINE r == RemoveAt(s, Index(s, p))
<1>1. Index(s, p) \in 1..Len(s) BY IndexIs
<1>2. r \in Seq(Profiles) /\ Len(r) = Len(s) - 1 BY <1>1, RemoveAtType
<1>3. \A j \in 1..Len(s) - 1 : r[j] = IF j < Index(s, p) THEN s[j] ELSE s[j + 1]
  BY DEF RemoveAt
<1>4. Used(s, p) = Append(r, p) BY DEF Used, Index
<1> HIDE DEF r
<1>5. QED BY <1>2, <1>3, <1>4

LEMMA UsedFull ==
  ASSUME NEW s \in Seq(Profiles), NEW p \in Profiles, ~Holds(s, p), Len(s) >= PoolCapacity
  PROVE  /\ Len(Used(s, p)) = Len(s) /\ Used(s, p)[Len(s)] = p
         /\ \A j \in 1..Len(s) - 1 : Used(s, p)[j] = s[j + 1]
<1>1. s # <<>> /\ PoolCapacity \in Nat \ {0} BY ActorConstants
<1>2. Used(s, p) = Append(Tail(s), p) BY DEF Used
<1>3. QED BY <1>1, <1>2

LEMMA UsedRoom ==
  ASSUME NEW s \in Seq(Profiles), NEW p \in Profiles, ~Holds(s, p), ~(Len(s) >= PoolCapacity)
  PROVE  /\ Len(Used(s, p)) = Len(s) + 1 /\ Used(s, p)[Len(s) + 1] = p
         /\ \A j \in 1..Len(s) : Used(s, p)[j] = s[j]
<1>1. Used(s, p) = Append(s, p) BY DEF Used
<1>2. QED BY <1>1

LEMMA UsedLast ==
  ASSUME NEW s \in Seq(Profiles), NEW p \in Profiles
  PROVE  LastIs(Used(s, p), p) /\ \A q \in Profiles : Holds(Used(s, p), q) => q = p \/ Holds(s, q)
<1>1. PoolCapacity \in Nat \ {0} BY ActorConstants
<1>2. CASE Holds(s, p)
  <2>1. Index(s, p) \in 1..Len(s) BY <1>2, IndexIs
  <2>2. QED BY <1>2, <2>1, UsedHeld DEF LastIs, Holds
<1>3. CASE ~Holds(s, p) /\ Len(s) >= PoolCapacity BY <1>1, <1>3, UsedFull DEF LastIs, Holds
<1>4. CASE ~Holds(s, p) /\ ~(Len(s) >= PoolCapacity) BY <1>4, UsedRoom DEF LastIs, Holds
<1>5. QED BY <1>2, <1>3, <1>4

LEMMA UsedDistinct ==
  ASSUME NEW s \in Seq(Profiles), NEW p \in Profiles, Distinct(s)
  PROVE  Distinct(Used(s, p))
<1>1. PoolCapacity \in Nat \ {0} BY ActorConstants
<1>2. CASE Holds(s, p)
  <2> DEFINE k == Index(s, p)
  <2>1. k \in 1..Len(s) /\ s[k] = p BY <1>2, IndexIs
  <2>2. \A i \in 1..Len(s) : s[i] = p => i = k BY <2>1 DEF Distinct
  <2> HIDE DEF k
  <2>3. /\ Len(Used(s, p)) = Len(s) /\ Used(s, p)[Len(s)] = p
        /\ \A j \in 1..Len(s) - 1 : Used(s, p)[j] = IF j < k THEN s[j] ELSE s[j + 1]
    BY <1>2, UsedHeld DEF k
  <2>4. QED BY <2>1, <2>2, <2>3 DEF Distinct
<1>3. CASE ~Holds(s, p) /\ Len(s) >= PoolCapacity BY <1>1, <1>3, UsedFull DEF Distinct, Holds
<1>4. CASE ~Holds(s, p) /\ ~(Len(s) >= PoolCapacity) BY <1>4, UsedRoom DEF Distinct, Holds
<1>5. QED BY <1>2, <1>3, <1>4

(* The two indexings of a suffix, n the length of what precedes it.         *)
LEMMA SuffixBy ==
  ASSUME NEW a \in Seq(Profiles), NEW b \in Seq(Profiles), NEW n \in Nat,
         Len(b) = Len(a) + n, \A i \in 1..Len(a) : a[i] = b[n + i]
  PROVE  Suffix(a, b)
<1>1. Len(a) \in Nat /\ Len(b) \in Nat OBVIOUS
<1>2. Len(b) - Len(a) = n BY <1>1
<1>3. QED BY <1>1, <1>2 DEF Suffix

LEMMA SuffixGives ==
  ASSUME NEW a \in Seq(Profiles), NEW b \in Seq(Profiles), Suffix(a, b)
  PROVE  \E n \in Nat : Len(b) = Len(a) + n /\ \A i \in 1..Len(a) : a[i] = b[n + i]
<1>1. Len(a) \in Nat /\ Len(b) \in Nat OBVIOUS
<1>2. Len(b) - Len(a) \in Nat /\ Len(b) = Len(a) + (Len(b) - Len(a)) BY <1>1 DEF Suffix
<1>3. QED BY <1>2 DEF Suffix

LEMMA UsedSuffix ==
  ASSUME NEW a \in Seq(Profiles), NEW b \in Seq(Profiles), NEW p \in Profiles,
         Suffix(a, b), Distinct(b), Len(a) <= PoolCapacity, Len(b) <= PoolCapacity
  PROVE  Suffix(Used(a, p), Used(b, p))
<1>0. PoolCapacity \in Nat \ {0} BY ActorConstants
<1>1. PICK n \in Nat : Len(b) = Len(a) + n /\ \A i \in 1..Len(a) : a[i] = b[n + i]
  BY SuffixGives
<1>2. Used(a, p) \in Seq(Profiles) /\ Used(b, p) \in Seq(Profiles) BY UsedType
<1> DEFINE u == Used(a, p)
           v == Used(b, p)
           la == Len(a)
           lb == Len(b)
<1>3. la \in Nat /\ lb \in Nat /\ lb = la + n BY <1>1
<1>a. CASE Holds(a, p)
  <2> DEFINE k == Index(a, p)
             h == Index(b, p)
  <2>1. k \in 1..la /\ a[k] = p BY <1>a, IndexIs
  <2>2. n + k \in 1..lb /\ b[n + k] = p BY <1>1, <1>3, <2>1
  <2>3. Holds(b, p) BY <2>2 DEF Holds
  <2>4. h \in 1..lb /\ b[h] = p BY <2>3, IndexIs
  <2>5. h = n + k BY <2>2, <2>4 DEF Distinct
  <2>6. /\ Len(u) = la /\ u[la] = p
        /\ \A j \in 1..la - 1 : u[j] = IF j < k THEN a[j] ELSE a[j + 1]
    BY <1>a, UsedHeld
  <2>7. /\ Len(v) = lb /\ v[lb] = p
        /\ \A j \in 1..lb - 1 : v[j] = IF j < h THEN b[j] ELSE b[j + 1]
    BY <2>3, UsedHeld
  <2> HIDE DEF u, v, la, lb, k, h
  <2>8. ASSUME NEW i \in 1..la PROVE u[i] = v[n + i]
    <3>1. CASE i = la BY <1>3, <2>6, <2>7, <3>1
    <3>2. CASE i # la
      <4>1. i \in 1..la - 1 /\ n + i \in 1..lb - 1 BY <1>3, <3>2
      <4>2. a[i] = b[n + i] /\ a[i + 1] = b[n + (i + 1)]
        <5>1. i + 1 \in 1..la BY <1>3, <3>2
        <5>2. QED BY <1>1, <5>1 DEF la
      <4>3. (i < k <=> n + i < h) /\ n + (i + 1) = (n + i) + 1 BY <1>3, <2>1, <2>5, <4>1
      <4>4. QED BY <2>6, <2>7, <4>1, <4>2, <4>3
    <3>3. QED BY <3>1, <3>2
  <2>9. Len(v) = Len(u) + n /\ \A i \in 1..Len(u) : u[i] = v[n + i]
    BY <1>3, <2>6, <2>7, <2>8
  <2>10. QED BY <1>2, <2>9, SuffixBy DEF u, v
<1>b. CASE ~Holds(a, p) /\ Holds(b, p)
  <2> DEFINE h == Index(b, p)
  <2>1. h \in 1..lb /\ b[h] = p BY <1>b, IndexIs
  <2>2. h <= n
    <3> SUFFICES ASSUME h > n PROVE FALSE BY <1>3, <2>1
    <3> HIDE DEF h, lb
    <3>1. PICK i \in 1..la : h = n + i
      <4>1. h - n \in 1..la /\ h = n + (h - n) BY <1>3, <2>1
      <4>2. QED BY <4>1
    <3>2. a[i] = p BY <1>1, <2>1, <3>1 DEF la
    <3>3. QED BY <1>b, <3>2 DEF Holds, la
  <2>3. ~(la >= PoolCapacity) BY <1>0, <1>3, <2>1, <2>2
  <2>4. /\ Len(u) = la + 1 /\ u[la + 1] = p
        /\ \A j \in 1..la : u[j] = a[j]
    BY <1>b, <2>3, UsedRoom
  <2>5. /\ Len(v) = lb /\ v[lb] = p
        /\ \A j \in 1..lb - 1 : v[j] = IF j < h THEN b[j] ELSE b[j + 1]
    BY <1>b, UsedHeld
  <2>6. PICK m \in Nat : n = m + 1
    <3>1. n - 1 \in Nat /\ n = (n - 1) + 1 BY <1>3, <2>1, <2>2
    <3>2. QED BY <3>1
  <2> HIDE DEF u, v, la, lb, h
  <2>7. ASSUME NEW i \in 1..la + 1 PROVE u[i] = v[m + i]
    <3>1. CASE i = la + 1
      <4>1. m + i = lb BY <1>3, <2>6, <3>1
      <4>2. QED BY <2>4, <2>5, <3>1, <4>1
    <3>2. CASE i # la + 1
      <4>1. i \in 1..la /\ m + i \in 1..lb - 1 /\ ~(m + i < h) /\ (m + i) + 1 = n + i
        BY <1>3, <2>1, <2>2, <2>6, <3>2
      <4>2. v[m + i] = b[n + i] BY <2>5, <4>1
      <4>3. a[i] = b[n + i] BY <1>1, <4>1 DEF la
      <4>4. QED BY <2>4, <4>1, <4>2, <4>3
    <3>3. QED BY <3>1, <3>2
  <2>8. Len(v) = Len(u) + m /\ \A i \in 1..Len(u) : u[i] = v[m + i]
    BY <1>3, <2>4, <2>5, <2>6, <2>7
  <2>9. QED BY <1>2, <2>8, SuffixBy DEF u, v
<1>c. CASE ~Holds(a, p) /\ ~Holds(b, p)
  <2>1. CASE la >= PoolCapacity
    <3>1. n = 0 /\ lb >= PoolCapacity /\ lb = la BY <1>0, <1>3, <2>1
    <3>2. /\ Len(u) = la /\ u[la] = p
          /\ \A j \in 1..la - 1 : u[j] = a[j + 1]
      BY <1>c, <2>1, UsedFull
    <3>3. /\ Len(v) = lb /\ v[lb] = p
          /\ \A j \in 1..lb - 1 : v[j] = b[j + 1]
      BY <1>c, <3>1, UsedFull
    <3> HIDE DEF u, v, la, lb
    <3>4. ASSUME NEW i \in 1..la PROVE u[i] = v[n + i]
      <4>1. CASE i = la BY <1>3, <3>1, <3>2, <3>3, <4>1
      <4>2. CASE i # la
        <5>1. i \in 1..la - 1 /\ i + 1 \in 1..la /\ n + i = i /\ n + (i + 1) = i + 1
          BY <1>3, <3>1, <4>2
        <5>2. a[i + 1] = b[i + 1] BY <1>1, <5>1 DEF la
        <5>3. QED BY <3>1, <3>2, <3>3, <5>1, <5>2
      <4>3. QED BY <4>1, <4>2
    <3>5. Len(v) = Len(u) + n /\ \A i \in 1..Len(u) : u[i] = v[n + i]
      BY <1>3, <3>2, <3>3, <3>4
    <3>6. QED BY <1>2, <3>5, SuffixBy DEF u, v
  <2>2. CASE ~(la >= PoolCapacity) /\ lb >= PoolCapacity
    <3>1. PICK m \in Nat : n = m + 1
      <4>1. n - 1 \in Nat /\ n = (n - 1) + 1 BY <1>0, <1>3, <2>2
      <4>2. QED BY <4>1
    <3>2. /\ Len(u) = la + 1 /\ u[la + 1] = p
          /\ \A j \in 1..la : u[j] = a[j]
      BY <1>c, <2>2, UsedRoom
    <3>3. /\ Len(v) = lb /\ v[lb] = p
          /\ \A j \in 1..lb - 1 : v[j] = b[j + 1]
      BY <1>c, <2>2, UsedFull
    <3> HIDE DEF u, v, la, lb
    <3>4. ASSUME NEW i \in 1..la + 1 PROVE u[i] = v[m + i]
      <4>1. CASE i = la + 1
        <5>1. m + i = lb BY <1>3, <3>1, <4>1
        <5>2. QED BY <3>2, <3>3, <4>1, <5>1
      <4>2. CASE i # la + 1
        <5>1. i \in 1..la /\ m + i \in 1..lb - 1 /\ (m + i) + 1 = n + i
          BY <1>3, <3>1, <4>2
        <5>2. a[i] = b[n + i] BY <1>1, <5>1 DEF la
        <5>3. QED BY <3>2, <3>3, <5>1, <5>2
      <4>3. QED BY <4>1, <4>2
    <3>5. Len(v) = Len(u) + m /\ \A i \in 1..Len(u) : u[i] = v[m + i]
      BY <1>3, <3>1, <3>2, <3>3, <3>4
    <3>6. QED BY <1>2, <3>5, SuffixBy DEF u, v
  <2>3. CASE ~(la >= PoolCapacity) /\ ~(lb >= PoolCapacity)
    <3>2. /\ Len(u) = la + 1 /\ u[la + 1] = p
          /\ \A j \in 1..la : u[j] = a[j]
      BY <1>c, <2>3, UsedRoom
    <3>3. /\ Len(v) = lb + 1 /\ v[lb + 1] = p
          /\ \A j \in 1..lb : v[j] = b[j]
      BY <1>c, <2>3, UsedRoom
    <3> HIDE DEF u, v, la, lb
    <3>4. ASSUME NEW i \in 1..la + 1 PROVE u[i] = v[n + i]
      <4>1. CASE i = la + 1
        <5>1. n + i = lb + 1 BY <1>3, <4>1
        <5>2. QED BY <3>2, <3>3, <4>1, <5>1
      <4>2. CASE i # la + 1
        <5>1. i \in 1..la /\ n + i \in 1..lb BY <1>3, <4>2
        <5>2. a[i] = b[n + i] BY <1>1, <5>1 DEF la
        <5>3. QED BY <3>2, <3>3, <5>1, <5>2
      <4>3. QED BY <4>1, <4>2
    <3>5. Len(v) = Len(u) + n /\ \A i \in 1..Len(u) : u[i] = v[n + i]
      BY <1>3, <3>2, <3>3, <3>4
    <3>6. QED BY <1>2, <3>5, SuffixBy DEF u, v
  <2>4. QED BY <2>1, <2>2, <2>3
<1>d. QED BY <1>a, <1>b, <1>c

LEMMA UsedEmpty ==
  ASSUME NEW p \in Profiles PROVE Used(<<>>, p) = <<p>>
<1>1. PoolCapacity \in Nat \ {0} /\ ~Holds(<<>>, p) /\ ~(Len(<<>>) >= PoolCapacity)
  BY ActorConstants DEF Holds
<1>2. Used(<<>>, p) = Append(<<>>, p) BY <1>1 DEF Used
<1>3. QED BY <1>2

(* One element is the recent end of any list it ends.                       *)
LEMMA ShortSuffix ==
  ASSUME NEW s \in Seq(Profiles), NEW p \in Profiles, LastIs(s, p)
  PROVE  Suffix(<<p>>, s) /\ Suffix(<<>>, s) /\ forget_pooled_import_profiles(s) = <<p>>
         /\ Distinct(<<p>>) /\ LastIs(<<p>>, p)
<1>1. s # <<>> BY DEF LastIs
<1>2. QED BY <1>1 DEF LastIs, Suffix, Distinct, forget_pooled_import_profiles

LEMMA EmptySuffix ==
  ASSUME NEW s \in Seq(Profiles) PROVE Suffix(<<>>, s) /\ Distinct(<<>>)
BY DEF Suffix, Distinct

-----------------------------------------------------------------------------
(* The child's fields the invariant reads.                                  *)
LEMMA NewChild ==
  ASSUME NEW c
  PROVE  /\ Replaced(c).pooled = <<>> /\ Replaced(c).env = c.env
         /\ Dead(c).pooled = <<>> /\ Dead(c).env = c.env
BY DEF Replaced, Dead

LEMMA SessionFields ==
  ASSUME NEW c \in ChildType, NEW p \in Profiles
  PROVE  /\ WithSession(c, p).pooled = Used(c.pooled, p)
         /\ Holds(c.pooled, p) => WithSession(c, p).env = c.env
         /\ ~Holds(c.pooled, p) => WithSession(c, p).env = [c.env EXCEPT ![p] = built[p]]
<1>1. CASE Holds(c.pooled, p)
  BY <1>1 DEF WithSession, ChildType
<1>2. CASE ~Holds(c.pooled, p)
  <2> DEFINE u == Used(c.pooled, p)
             e == [c.env EXCEPT ![p] = built[p]]
             r == c.residue + 1
  <2>1. WithSession(c, p) = Imported(c, u, e, r)
    BY <1>2 DEF WithSession, Imported
  <2> HIDE DEF u, e, r
  <2>2. Imported(c, u, e, r).pooled = u /\ Imported(c, u, e, r).env = e
    BY DEF Imported, ChildType
  <2>3. QED BY <1>2, <2>1, <2>2 DEF u, e
<1>3. QED BY <1>1, <1>2

LEMMA OneLong ==
  ASSUME NEW s \in Seq(Profiles), s # <<>>, Len(s) <= 1 PROVE Len(s) = 1
<1>1. Len(s) \in Nat \ {0}
  OBVIOUS
<1>2. \A n \in Nat \ {0} : n <= 1 => n = 1
  OBVIOUS
<1>3. QED BY <1>1, <1>2

LEMMA EmptyFits == Len(<<>>) <= PoolCapacity
BY ActorConstants

LEMMA Known ==
  ASSUME ShapeOK
  PROVE  /\ imports_seen \in Seq(Profiles) /\ Len(imports_seen) <= PoolCapacity
         /\ child \in ChildType /\ child.pooled \in Seq(Profiles)
         /\ Len(child.pooled) <= PoolCapacity /\ child.env \in [Profiles -> Nat]
         /\ stamps \in [Profiles -> Nat] /\ built \in [Profiles -> Nat]
         /\ present \in [Profiles -> BOOLEAN]
         /\ job \in JobType /\ job.profile \in Profiles /\ job.stamp \in Nat
BY DEF ShapeOK, TypeOK, ChildType, JobType

(* At rest with nothing pooled there is nothing to be stale.                *)
LEMMA EmptyPool ==
  ASSUME DiskOK', Distinct(imports_seen)', imports_seen' \in Seq(Profiles),
         phase' = "idle", child'.pooled = <<>>, ServedFresh'
  PROVE  FreshInv'
<1>1. \A q : ~Holds(child'.pooled, q) BY DEF Holds
<1>2. PoolOK' BY <1>1 DEF PoolOK
<1>3. Suffix(child'.pooled, imports_seen') BY EmptySuffix
<1>4. Mirror' BY <1>3 DEF Mirror
<1>5. Call' BY DEF Call, InCall
<1>6. QED BY <1>2, <1>4, <1>5 DEF FreshInv

LEMMA EnvironmentFresh ==
  ASSUME ShapeOK, Hypotheses, FreshInv, Environment \/ UNCHANGED vars
  PROVE  FreshInv'
<1>1. CASE UNCHANGED <<built, present>>
  <2>1. UNCHANGED <<phase, job, result, imports_seen, stamps, child, built, present>>
    BY <1>1 DEF Environment, Tick, Build, Vanish, vars, mirrorVars, diskVars
  <2>2. QED BY <2>1 DEF FreshInv, DiskOK, PoolOK, Mirror, Call, InCall, ServedFresh
<1>2. ASSUME NEW p \in Profiles, Build(p) PROVE FreshInv'
  <2>1. /\ UNCHANGED <<phase, job, result, imports_seen, stamps, child>>
        /\ phase # "prewarmed"
    BY <1>2 DEF Build, mirrorVars, Hypotheses
  <2>2. DiskOK' BY <1>2, <2>1, Known DEF Build, FreshInv, DiskOK
  <2>3. QED BY <2>1, <2>2 DEF FreshInv, PoolOK, Mirror, Call, InCall, ServedFresh
<1>3. QED BY <1>1, <1>2 DEF Environment, Tick, Vanish, vars, diskVars, Hypotheses

(* A call begins: what the child pools of p is as new as p's artifacts, or  *)
(* the child is cycled.                                                     *)
LEMMA BeginFresh ==
  ASSUME ShapeOK, FreshInv, NEW p \in Profiles, NEW r, BeginJob(p, r)
  PROVE  FreshInv'
<1>1. /\ phase = "idle" /\ phase' = "attempt" /\ UNCHANGED <<result, child, built, present>>
      /\ imports_seen' = Used(imports_seen, p) /\ stamps' = [stamps EXCEPT ![p] = built[p]]
      /\ job'.profile = p /\ job'.stamp = built[p] /\ ~rebuilt(p)
  BY Known DEF BeginJob, Accepts, note_import_profile, NewJob, artifact_stamp, diskVars,
               FreshInv, DiskOK
<1>2. DiskOK' BY <1>1, Known DEF FreshInv, DiskOK
<1>3. Suffix(child.pooled, imports_seen) /\ Distinct(imports_seen)
  BY <1>1 DEF FreshInv, Mirror
<1>4. ASSUME Holds(child.pooled, p) PROVE stamps[p] = built[p]
  <2>1. Holds(imports_seen, p)
    <3>1. PICK n \in Nat : Len(imports_seen) = Len(child.pooled) + n
                           /\ \A i \in 1..Len(child.pooled) : child.pooled[i] = imports_seen[n + i]
      BY <1>3, Known, SuffixGives
    <3>2. PICK i \in 1..Len(child.pooled) : child.pooled[i] = p BY <1>4 DEF Holds
    <3>3. n + i \in 1..Len(imports_seen)
      <4>1. Len(child.pooled) \in Nat BY Known
      <4>2. QED BY <3>1, <4>1
    <3>4. QED BY <3>1, <3>2, <3>3 DEF Holds
  <2>2. stamps[p] >= 1 /\ stamps[p] \in Nat BY <1>1, <1>4, Known DEF FreshInv, PoolOK
  <2>3. ~(built[p] > stamps[p])
    BY <1>1, <2>1, <2>2 DEF rebuilt, previous_stamp, artifact_stamp, FreshInv, DiskOK
  <2>4. QED BY <2>2, <2>3, Known DEF FreshInv, DiskOK
<1>5. PoolOK' BY <1>1, <1>4, Known DEF FreshInv, PoolOK
<1>6. Mirror'
  <2>1. Suffix(Used(child.pooled, p), Used(imports_seen, p)) BY <1>3, Known, UsedSuffix
  <2>2. Distinct(Used(imports_seen, p)) BY <1>3, Known, UsedDistinct
  <2>3. QED BY <1>1, <2>1, <2>2 DEF Mirror
<1>7. Call'
  <2>1. LastIs(Used(imports_seen, p), p) BY Known, UsedLast
  <2>2. built[p] >= 1 BY DEF FreshInv, DiskOK
  <2>3. QED BY <1>1, <2>1, <2>2, Known DEF Call
<1>8. QED BY <1>1, <1>2, <1>5, <1>6, <1>7 DEF FreshInv, ServedFresh

LEMMA RecycledFresh ==
  ASSUME ShapeOK, FreshInv, NEW p \in Profiles, NEW r, BeginJobRecycled(p, r)
  PROVE  FreshInv'
<1> DEFINE u == Used(imports_seen, p)
<1>1. /\ phase' = "attempt" /\ UNCHANGED <<result, built, present>>
      /\ imports_seen' = forget_pooled_import_profiles(u)
      /\ stamps' = [stamps EXCEPT ![p] = built[p]]
      /\ child'.pooled = <<>> /\ child'.env = child.env
      /\ job'.profile = p /\ job'.stamp = built[p]
  BY Known, NewChild DEF BeginJobRecycled, NewJob, artifact_stamp, diskVars, FreshInv, DiskOK
<1>2. DiskOK' BY <1>1, Known DEF FreshInv, DiskOK
<1>3. u \in Seq(Profiles) /\ LastIs(u, p) BY Known, UsedType, UsedLast
<1> HIDE DEF u
<1>4. imports_seen' = <<p>> /\ Distinct(<<p>>) /\ LastIs(<<p>>, p)
  <2>1. forget_pooled_import_profiles(u) = <<p>> BY <1>3, ShortSuffix
  <2>2. Distinct(<<p>>) /\ LastIs(<<p>>, p) BY <1>3, ShortSuffix
  <2>3. imports_seen' = forget_pooled_import_profiles(u) BY <1>1
  <2>4. QED BY <2>1, <2>2, <2>3, Zenon
<1>5. Suffix(<<p>>, <<p>>)
  <2>1. <<p>> \in Seq(Profiles)
    OBVIOUS
  <2>2. QED BY <1>4, <2>1, ShortSuffix
<1>6. PoolOK' BY <1>1 DEF PoolOK, Holds
<1>7. Mirror' BY <1>1, <1>4, <1>5, UsedEmpty DEF Mirror
<1>8. built[p] >= 1 BY DEF FreshInv, DiskOK
<1>9. Call' BY <1>1, <1>4, <1>8, Known DEF Call
<1>10. QED BY <1>1, <1>2, <1>6, <1>7, <1>9 DEF FreshInv, ServedFresh

LEMMA StartFresh ==
  ASSUME ~FailedCyclesSpare, ShapeOK, ShapeOK', FreshInv, StartJob
  PROVE  FreshInv'
<1>1. CASE SemanticJob
  <2>1. UNCHANGED <<phase, job, result, imports_seen, stamps, child, built, present>>
    BY <1>1 DEF SemanticJob, mirrorVars, diskVars
  <2>2. QED BY <2>1 DEF FreshInv, DiskOK, PoolOK, Mirror, Call, InCall, ServedFresh
<1>2. ASSUME NEW p \in Profiles, BeginJobCycleFails(p) PROVE FreshInv'
  <2>1. /\ phase = "idle" /\ phase' = "idle" /\ UNCHANGED <<built, present>>
        /\ result'.kind = "error" /\ child'.pooled = <<>>
        /\ imports_seen' = Used(imports_seen, p) /\ stamps' = [stamps EXCEPT ![p] = built[p]]
    BY <1>2, Known, NewChild DEF BeginJobCycleFails, Accepts, note_import_profile,
                                 artifact_stamp, diskVars, FreshInv, DiskOK
  <2>2. DiskOK' BY <2>1, Known DEF FreshInv, DiskOK
  <2>3. Distinct(imports_seen)' BY <2>1, Known, UsedDistinct DEF FreshInv, Mirror
  <2>4. ServedFresh' BY <2>1 DEF ServedFresh
  <2>5. imports_seen' \in Seq(Profiles) BY <2>1, Known, UsedType
  <2>6. QED BY <2>1, <2>2, <2>3, <2>4, <2>5, EmptyPool
<1>3. QED BY <1>1, <1>2, BeginFresh, RecycledFresh DEF StartJob

-----------------------------------------------------------------------------
(* A request uses the session of the call, or leaves nothing pooled.        *)
LEMMA RequestFresh ==
  ASSUME ShapeOK, FreshInv, NEW first \in Seq(Causes), NEW after \in Seq(Causes),
         NEW opens \in BOOLEAN, NEW outcome \in Outcomes,
         Request(first, opens, outcome, after),
         ~opens => after # <<>> \/ outcome \in {"child_exit", "child_abort"},
         outcome = "ok" => opens /\ after = <<>>
  PROVE  FreshInv'
<1> DEFINE p == job.profile
           started == IF first = <<>> THEN child ELSE Replaced(child)
           session == IF opens THEN WithSession(started, p) ELSE started
           restarts == first \o after
           hit == job.disrupted \/ outcome # "ok" \/ first = <<"child_abort">>
<1>1. /\ phase = "attempt" /\ phase' = "account"
      /\ UNCHANGED <<result, imports_seen, stamps, built, present>>
      /\ child' = IF after # <<>> THEN Replaced(session)
                  ELSE IF outcome \in {"child_exit", "child_abort"} THEN Dead(session)
                  ELSE session
  BY DEF Request, mirrorVars, diskVars
<1>2. job'.profile = p /\ job'.stamp = job.stamp /\ job'.outcome = outcome
      /\ job'.restarts = restarts
  <2>1. job' = AfterRequest(outcome, restarts, hit) BY DEF Request, AfterRequest
  <2> HIDE DEF restarts, hit
  <2>2. QED BY <2>1, Known DEF AfterRequest, JobType
<1>3. first # <<>> \/ after # <<>> <=> restarts # <<>>
  OBVIOUS
<1>4. /\ started.pooled = IF first = <<>> THEN child.pooled ELSE <<>>
      /\ started.env = child.env
  BY NewChild
<1>5. started \in ChildType
  <2>1. ChildOK(child) BY DEF ShapeOK, TypeOK, ChildOK
  <2>2. QED BY <2>1, ChildTypes DEF ChildOK
<1>6. /\ p \in Profiles /\ stamps[p] = job.stamp /\ job.stamp >= 1 /\ LastIs(imports_seen, p)
      /\ Distinct(imports_seen) /\ Suffix(Used(child.pooled, p), imports_seen)
      /\ DiskOK /\ ServedFresh
  BY <1>1, Known DEF FreshInv, Call, InCall, Mirror
<1>7. started.pooled \in Seq(Profiles) /\ Len(started.pooled) <= PoolCapacity
  <2>1. started.pooled \in Seq(Profiles) BY <1>5 DEF ChildType
  <2>2. CASE first = <<>> BY <1>4, <2>2, Known
  <2>3. CASE first # <<>>
    <3>1. started.pooled = <<>> BY <1>4, <2>3
    <3> HIDE DEF started
    <3>2. QED BY <3>1, EmptyFits
  <2>4. QED BY <2>1, <2>2, <2>3
<1> HIDE DEF started, restarts
<1>8. /\ opens => session.pooled = Used(started.pooled, p)
      /\ opens /\ Holds(started.pooled, p) => session.env = child.env
      /\ opens /\ ~Holds(started.pooled, p) => session.env = [child.env EXCEPT ![p] = built[p]]
  <2>1. opens => session = WithSession(started, p)
    OBVIOUS
  <2> HIDE DEF session
  <2>2. QED BY <1>4, <1>5, <1>6, <2>1, SessionFields
<1>9. \/ child'.pooled = <<>>
      \/ opens /\ child' = session /\ after = <<>>
  BY <1>1, NewChild
<1>10. child'.pooled # <<>> => \A q \in Profiles : Holds(child'.pooled, q) =>
                                 stamps[q] \in 1..child'.env[q]
  <2> SUFFICES ASSUME child'.pooled # <<>>, NEW q \in Profiles, Holds(child'.pooled, q)
               PROVE  stamps[q] \in 1..child'.env[q]
    OBVIOUS
  <2>1. opens /\ child' = session BY <1>9
  <2>2. q = p \/ Holds(started.pooled, q) BY <1>6, <1>7, <1>8, <2>1, UsedLast
  <2>3. Holds(started.pooled, q) => Holds(child.pooled, q)
    BY <1>4 DEF Holds
  <2>4. Holds(child.pooled, q) => stamps[q] \in 1..child.env[q]
    BY <1>1 DEF FreshInv, PoolOK
  <2>5. CASE Holds(started.pooled, p)
    BY <1>8, <2>1, <2>2, <2>3, <2>4, <2>5
  <2>6. CASE ~Holds(started.pooled, p)
    <3>1. child'.env = [child.env EXCEPT ![p] = built[p]] BY <1>8, <2>1, <2>6
    <3>2. CASE q = p BY <1>6, <3>1, <3>2, Known DEF DiskOK
    <3>3. CASE q # p BY <2>2, <2>3, <2>4, <3>1, <3>3, <1>6, Known
    <3>4. QED BY <3>2, <3>3
  <2>7. QED BY <2>5, <2>6
<1>11. PoolOK'
  <2>1. child'.pooled = <<>> => \A q \in Profiles : ~Holds(child'.pooled, q) BY DEF Holds
  <2>2. QED BY <1>1, <1>10, <2>1 DEF PoolOK
<1>12. Suffix(child'.pooled, imports_seen') /\ (restarts # <<>> => Len(child'.pooled) <= 1)
  <2>1. CASE child'.pooled = <<>> BY <1>1, <2>1, Known, EmptySuffix
  <2>2. CASE child'.pooled # <<>>
    <3>1. child'.pooled = Used(started.pooled, p) /\ after = <<>> BY <1>8, <1>9, <2>2
    <3>2. CASE first = <<>>
      BY <1>1, <1>3, <1>4, <1>6, <3>1, <3>2
    <3>3. CASE first # <<>>
      <4>1. child'.pooled = <<p>> BY <1>4, <1>6, <3>1, <3>3, UsedEmpty
      <4>2. Suffix(<<p>>, imports_seen) BY <1>6, Known, ShortSuffix
      <4>3. Len(<<p>>) <= 1
        OBVIOUS
      <4>4. imports_seen' = imports_seen BY <1>1
      <4> HIDE DEF p
      <4>5. QED BY <4>1, <4>2, <4>3, <4>4
    <3>4. QED BY <3>2, <3>3
  <2>3. QED BY <2>1, <2>2
<1>13. Mirror' BY <1>1, <1>2, <1>6, <1>12 DEF Mirror
<1>14. outcome = "ok" => child'.env[p] >= job.stamp
  <2> SUFFICES ASSUME outcome = "ok" PROVE child'.env[p] >= job.stamp
    OBVIOUS
  <2>1. opens /\ child' = session BY <1>1
  <2>2. LastIs(child'.pooled, p) BY <1>6, <1>7, <1>8, <2>1, UsedLast
  <2>3. child'.pooled # <<>> /\ Holds(child'.pooled, p)
    <3>1. child'.pooled \in Seq(Profiles)
      <4>1. child'.pooled = Used(started.pooled, p) BY <1>8, <2>1
      <4>2. Used(started.pooled, p) \in Seq(Profiles) BY <1>6, <1>7, UsedType
      <4>3. QED BY <4>1, <4>2
    <3>2. QED BY <2>2, <3>1 DEF LastIs, Holds
  <2>4. stamps[p] \in 1..child'.env[p] BY <1>6, <1>10, <2>3
  <2>5. QED BY <1>6, <2>4, Known
<1>15. Call' BY <1>1, <1>2, <1>6, <1>14 DEF Call, InCall
<1>16. DiskOK' /\ ServedFresh' BY <1>1, <1>6 DEF DiskOK, ServedFresh
<1>17. QED BY <1>11, <1>13, <1>15, <1>16 DEF FreshInv

LEMMA RunFresh ==
  ASSUME ShapeOK, Hypotheses, FreshInv, RunRequest
  PROVE  FreshInv'
<1> DEFINE first == RestartsFirst(child, job.profile)
<1>1. first \in Seq(Causes) /\ <<>> \in Seq(Causes) BY FirstIsShort
<1>2. {"ok", "error", "session_missing", "timeout", "rss_hard_limit_exceeded",
       "child_abort", "child_exit"} \subseteq Outcomes
  BY DEF Outcomes
<1>3. ~SkipsImport BY Known DEF SkipsImport, Hypotheses, FreshInv, DiskOK
<1> HIDE DEF first
<1>4. CASE Answered BY <1>1, <1>2, <1>4, RequestFresh DEF Answered, first
<1>5. CASE Failed
  <2>1. PICK opens \in BOOLEAN, outcome \in {"error", "session_missing"} :
          opens /\ Request(first, opens, outcome, <<>>)
    BY <1>3, <1>5 DEF Failed, first
  <2>2. QED BY <1>1, <1>2, <2>1, RequestFresh
<1>6. CASE Killed
  <2>1. PICK opens \in BOOLEAN,
             outcome \in {"timeout", "rss_hard_limit_exceeded", "child_abort"} :
          Request(first, opens, outcome, <<outcome>>)
    BY <1>6 DEF Killed, first
  <2>2. outcome \in Causes /\ outcome \in Outcomes /\ outcome # "ok"
    BY <1>2 DEF Causes, Abnormal
  <2>3. <<outcome>> \in Seq(Causes) /\ <<outcome>> # <<>> BY <2>2
  <2>4. QED BY <1>1, <2>1, <2>2, <2>3, RequestFresh
<1>7. CASE Died
  <2>1. PICK opens \in BOOLEAN, outcome \in {"child_exit", "child_abort"}, f \in {first, <<>>} :
          Request(f, opens, outcome, <<>>)
    BY <1>7 DEF Died, first
  <2>2. f \in Seq(Causes) BY <1>1, Zenon
  <2>3. outcome \in Outcomes /\ outcome # "ok" BY <1>2
  <2>4. QED BY <1>1, <2>1, <2>2, <2>3, RequestFresh
<1>8. QED BY <1>4, <1>5, <1>6, <1>7 DEF RunRequest

-----------------------------------------------------------------------------
(* A call that ends leaves the pool as it is and reports what served it.    *)
LEMMA EndFresh ==
  ASSUME ShapeOK, FreshInv, NEW kind, NEW restarted, EndJob(kind, restarted),
         phase \in {"account", "settle"}, kind = "done" => job.outcome = "ok",
         UNCHANGED <<imports_seen, stamps, child, built, present>>
  PROVE  FreshInv'
<1>1. /\ phase' = "idle" /\ result'.kind = kind /\ result'.stamp = job.stamp
      /\ result'.env = child.env[job.profile]
  BY DEF EndJob
<1>2. ServedFresh' BY <1>1 DEF FreshInv, Call, ServedFresh
<1>3. QED BY <1>1, <1>2 DEF FreshInv, DiskOK, PoolOK, Mirror, Call, InCall

\* The one entry forget_pooled_import_profiles keeps is the call's own.
LEMMA ForgetFresh ==
  ASSUME ShapeOK, FreshInv, phase \in {"account", "settle"},
         imports_seen' = forget_pooled_import_profiles(imports_seen)
  PROVE  /\ imports_seen' = <<job.profile>> /\ Distinct(<<job.profile>>)
         /\ LastIs(<<job.profile>>, job.profile)
         /\ Suffix(<<job.profile>>, <<job.profile>>)
<1>1. LastIs(imports_seen, job.profile) BY DEF FreshInv, Call, InCall
<1>2. /\ imports_seen' = <<job.profile>> /\ Distinct(<<job.profile>>)
      /\ LastIs(<<job.profile>>, job.profile)
  BY <1>1, Known, ShortSuffix
<1>3. <<job.profile>> \in Seq(Profiles) BY Known
<1>4. QED BY <1>2, <1>3, Known, ShortSuffix

LEMMA AccountFresh ==
  ASSUME ShapeOK, FreshInv, AccountLifecycle
  PROVE  FreshInv'
<1>1. CASE AccountNone
  <2>1. /\ phase = "account" /\ phase' = "settle"
        /\ UNCHANGED <<job, result, imports_seen, stamps, child, built, present>>
    BY <1>1 DEF AccountNone, mirrorVars, diskVars
  <2>2. QED BY <2>1 DEF FreshInv, DiskOK, PoolOK, Mirror, Call, InCall, ServedFresh
<1>2. CASE AccountTrips
  <2>1. /\ phase = "account" /\ EndJob("restart_limit_exceeded", FALSE)
        /\ UNCHANGED <<imports_seen, stamps, child, built, present>>
    BY <1>2 DEF AccountTrips, Trips, mirrorVars, diskVars
  <2>2. QED BY <2>1, EndFresh
<1>3. CASE AccountRestarts
  <2>1. /\ phase = "account" /\ phase' = "settle" /\ job.restarts # <<>>
        /\ UNCHANGED <<result, stamps, child, built, present>>
        /\ imports_seen' = forget_pooled_import_profiles(imports_seen)
        /\ job' = RecordedOn(job, LastCause)
    BY <1>3 DEF AccountRestarts, diskVars, RecordedOn
  <2>2. job'.profile = job.profile /\ job'.stamp = job.stamp /\ job'.outcome = job.outcome
    BY <2>1, Known DEF RecordedOn, JobType
  <2>3. /\ imports_seen' = <<job.profile>> /\ Distinct(<<job.profile>>)
        /\ LastIs(<<job.profile>>, job.profile)
        /\ Suffix(<<job.profile>>, <<job.profile>>)
    BY <2>1, ForgetFresh
  <2>4. Suffix(child.pooled, <<job.profile>>)
    <3>1. Suffix(child.pooled, imports_seen) /\ Len(child.pooled) <= 1
          /\ LastIs(imports_seen, job.profile)
      BY <2>1 DEF FreshInv, Mirror, Call, InCall
    <3>0. <<job.profile>> \in Seq(Profiles) BY Known
    <3>2. CASE child.pooled = <<>> BY <3>0, <3>2, EmptySuffix
    <3>3. CASE child.pooled # <<>>
      <4>1. Len(child.pooled) = 1  BY <3>1, <3>3, Known, OneLong
      <4>2. child.pooled[1] = job.profile
        <5>1. PICK n \in Nat : Len(imports_seen) = Len(child.pooled) + n
                 /\ \A i \in 1..Len(child.pooled) : child.pooled[i] = imports_seen[n + i]
          BY <3>1, Known, SuffixGives
        <5>2. child.pooled[1] = imports_seen[n + 1] /\ Len(imports_seen) = n + 1
          BY <4>1, <5>1
        <5>3. QED BY <3>1, <5>2 DEF LastIs
      <4>3. QED BY <4>1, <4>2 DEF Suffix
    <3>4. QED BY <3>2, <3>3
  <2>5. Mirror' BY <2>1, <2>3, <2>4 DEF Mirror
  <2>6. Call' BY <2>1, <2>2, <2>3 DEF FreshInv, Call, InCall
  <2>7. PoolOK' BY <2>1 DEF FreshInv, PoolOK
  <2>8. QED BY <2>1, <2>5, <2>6, <2>7 DEF FreshInv, DiskOK, ServedFresh
<1>4. QED BY <1>1, <1>2, <1>3 DEF AccountLifecycle

LEMMA SettleFresh ==
  ASSUME ShapeOK, FreshInv, SettleJob
  PROVE  FreshInv'
<1>1. CASE Finish
  <2>1. /\ phase = "settle" /\ UNCHANGED <<imports_seen, stamps, child, built, present>>
        /\ \E kind, restarted : EndJob(kind, restarted) /\ (kind = "done" => job.outcome = "ok")
    BY <1>1 DEF Finish, mirrorVars, diskVars
  <2>2. QED BY <2>1, EndFresh
<1>2. CASE FailJob \/ RebuildFails \/ RebuildTrips
  <2>1. /\ phase = "settle" /\ UNCHANGED <<imports_seen, stamps, child, built, present>>
        /\ EndJob("error", FALSE) \/ EndJob("restart_limit_exceeded", FALSE)
    BY <1>2 DEF FailJob, RebuildFails, RebuildTrips, Trips, mirrorVars, diskVars
  <2>2. QED BY <2>1, EndFresh
<1>3. CASE Rebuild
  <2>1. /\ phase = "settle" /\ phase' = "attempt"
        /\ UNCHANGED <<result, stamps, built, present>>
        /\ imports_seen' = forget_pooled_import_profiles(imports_seen)
        /\ job' = RetriedOn(job, job.retry_count + 1, job.outcome)
        /\ child' = [Replaced(child) EXCEPT !.generation = 0]
    BY <1>3 DEF Rebuild, RestartOfCall, RetriedOn, diskVars
  <2>2. job'.profile = job.profile /\ job'.stamp = job.stamp
    BY <2>1, Known DEF RetriedOn, JobType
  <2>3. child'.pooled = <<>> BY <2>1 DEF Replaced
  <2>4. /\ imports_seen' = <<job.profile>> /\ Distinct(<<job.profile>>)
        /\ LastIs(<<job.profile>>, job.profile)
        /\ Suffix(<<job.profile>>, <<job.profile>>)
    BY <2>1, ForgetFresh
  <2>5. Mirror' BY <2>1, <2>2, <2>3, <2>4, UsedEmpty, Known DEF Mirror
  <2>6. Call' BY <2>1, <2>2, <2>4 DEF FreshInv, Call, InCall
  <2>7. PoolOK' BY <2>3 DEF PoolOK, Holds
  <2>8. QED BY <2>1, <2>5, <2>6, <2>7 DEF FreshInv, DiskOK, ServedFresh
<1>4. QED BY <1>1, <1>2, <1>3 DEF SettleJob

-----------------------------------------------------------------------------
(* Idle work empties the mirror with the pool, and a pre-warm refills both. *)
LEMMA IdleFresh ==
  ASSUME ShapeOK, ShapeOK', FreshInv, IdleWork
  PROVE  FreshInv'
<1>1. ASSUME phase = "idle", phase' = "idle", UNCHANGED <<result, stamps, built, present>>,
             imports_seen' = <<>> \/ imports_seen' = imports_seen, child'.pooled = <<>>
      PROVE  FreshInv'
  <2>1. DiskOK' /\ ServedFresh' BY <1>1 DEF FreshInv, DiskOK, ServedFresh
  <2>2. imports_seen' \in Seq(Profiles) BY DEF ShapeOK, TypeOK
  <2>3. Distinct(imports_seen)' BY <1>1 DEF FreshInv, Mirror, Distinct
  <2>4. QED BY <1>1, <2>1, <2>2, <2>3, EmptyPool
<1>2. CASE IdleCycleOnly \/ IdleCyclePrewarmFails
  <2>1. /\ phase = "idle" /\ phase' = "idle" /\ UNCHANGED <<result, stamps, built, present>>
        /\ imports_seen' = <<>>
        /\ child' \in {Replaced(child), Dead(Replaced(child)), Replaced(Replaced(child))}
    BY <1>2 DEF IdleCycleOnly, IdleCyclePrewarmFails, IdleCycle, diskVars
  <2>2. QED BY <1>1, <2>1, NewChild
<1>3. CASE IdleCycleFails
  <2>1. /\ phase = "idle" /\ phase' = "idle"
        /\ UNCHANGED <<result, stamps, built, present, imports_seen, job>>
        /\ child' \in {child, Dead(child)}
    BY <1>3 DEF IdleCycleFails, mirrorVars, diskVars
  <2>2. CASE child' = Dead(child) BY <1>1, <2>1, <2>2, NewChild
  <2>3. CASE child' = child
    BY <2>1, <2>3 DEF FreshInv, DiskOK, PoolOK, Mirror, Call, InCall, ServedFresh
  <2>4. QED BY <2>1, <2>2, <2>3
<1>4. CASE IdleCyclePrewarmed
  <2> DEFINE p == imports_seen[Len(imports_seen)]
  <2>1. p \in Profiles BY <1>4, Known DEF IdleCyclePrewarmed
  <2>2. /\ phase = "idle" /\ phase' = "prewarmed" /\ UNCHANGED <<result, stamps, built, present>>
        /\ imports_seen' = <<>> /\ child' = WithSession(Replaced(child), p)
        /\ job' = [job EXCEPT !.profile = p]
    BY <1>4 DEF IdleCyclePrewarmed, IdleCycle, diskVars
  <2> HIDE DEF p
  <2>3. job'.profile = p BY <2>2, Known DEF JobType
  <2>4. Replaced(child) \in ChildType
    <3>1. ChildOK(child) BY DEF ShapeOK, TypeOK, ChildOK
    <3>2. QED BY <3>1, ChildTypes DEF ChildOK
  <2>5. /\ child'.pooled = <<p>> /\ child'.env = [child.env EXCEPT ![p] = built[p]]
    <3>1. ~Holds(<<>>, p) BY DEF Holds
    <3>2. QED BY <2>1, <2>2, <2>4, <3>1, NewChild, SessionFields, UsedEmpty
  <2>6. child'.env[p] = built[p] BY <2>1, <2>5, Known
  <2>7. Mirror' BY <2>2, <2>3, <2>5, <2>6 DEF Mirror, Distinct
  <2>8. Call' BY <2>2 DEF Call, InCall
  <2>9. QED BY <2>2, <2>7, <2>8 DEF FreshInv, DiskOK, PoolOK, ServedFresh
<1>5. CASE PrewarmStamp
  <2> DEFINE p == job.profile
  <2>1. /\ phase = "prewarmed" /\ phase' = "idle"
        /\ UNCHANGED <<job, result, child, built, present>>
        /\ imports_seen' = Used(imports_seen, p)
        /\ stamps' = [stamps EXCEPT ![p] = built[p]]
    BY <1>5, Known DEF PrewarmStamp, note_import_profile, artifact_stamp, diskVars,
                       FreshInv, DiskOK
  <2>2. /\ imports_seen = <<>> /\ child.pooled = <<p>> /\ child.env[p] = built[p]
    BY <2>1 DEF FreshInv, Mirror
  <2>3. imports_seen' = <<p>> BY <2>1, <2>2, Known, UsedEmpty
  <2>4. DiskOK' BY <2>1, Known DEF FreshInv, DiskOK
  <2>5. \A q : Holds(<<p>>, q) => q = p BY DEF Holds
  <2>6. PoolOK'
    <3>1. built[p] \in 1..child.env[p] BY <2>2, Known DEF FreshInv, DiskOK
    <3>2. stamps'[p] = built[p] BY <2>1, Known
    <3>3. QED BY <2>1, <2>2, <2>5, <3>1, <3>2 DEF PoolOK
  <2>7. <<p>> \in Seq(Profiles) /\ LastIs(<<p>>, p) BY Known DEF LastIs
  <2>8. Suffix(<<p>>, <<p>>) /\ Distinct(<<p>>) BY <2>7, Known, ShortSuffix
  <2>9. Mirror' BY <2>1, <2>2, <2>3, <2>8 DEF Mirror
  <2>10. Call' BY <2>1 DEF Call, InCall
  <2>11. QED BY <2>1, <2>4, <2>6, <2>9, <2>10 DEF FreshInv, ServedFresh
<1>6. QED BY <1>2, <1>3, <1>4, <1>5 DEF IdleWork

-----------------------------------------------------------------------------
LEMMA InitFresh == Init => FreshInv
<1> SUFFICES ASSUME Init PROVE FreshInv
  OBVIOUS
<1>1. /\ phase = "idle" /\ imports_seen = <<>> /\ result.kind = "none"
      /\ child.pooled = <<>> /\ stamps = [p \in Profiles |-> 0]
      /\ built = [p \in Profiles |-> 1] /\ present = [p \in Profiles |-> TRUE]
  BY DEF Init
<1>2. DiskOK /\ ServedFresh BY <1>1 DEF DiskOK, ServedFresh
<1>3. PoolOK /\ Call BY <1>1 DEF PoolOK, Holds, Call, InCall
<1>4. <<>> \in Seq(Profiles)
  OBVIOUS
<1>5. Mirror BY <1>1, <1>4, EmptySuffix DEF Mirror
<1>6. QED BY <1>2, <1>3, <1>5 DEF FreshInv

LEMMA FreshStep ==
  ASSUME Hypotheses, ShapeOK, ShapeOK', FreshInv, [Next]_vars
  PROVE  FreshInv'
BY StartFresh, RunFresh, AccountFresh, SettleFresh, IdleFresh, EnvironmentFresh
DEF Next, Hypotheses

LEMMA FreshHolds ==
  ASSUME Hypotheses PROVE Spec => []FreshInv
<1>1. ShapeOK /\ ShapeOK' /\ FreshInv /\ [Next]_vars => FreshInv'
  BY FreshStep
<1>2. QED BY <1>1, InitFresh, ShapeCorrect, PTL DEF Spec, ShapeOK

(* No call is answered from an environment imported before a build that    *)
(* had ended when the call began, through every recycle, retry, supervisor *)
(* replacement and idle cycle, while artifacts stay on disk, no build lands *)
(* inside a pre-warm, a request that fails alive has imported and a cycle() *)
(* that fails leaves no child running.                                     *)
THEOREM AnswersAreFresh ==
  ASSUME Hypotheses PROVE Spec => []ServedFresh
<1>1. FreshInv => ServedFresh BY DEF FreshInv
<1>2. QED BY <1>1, FreshHolds, PTL

(* Between calls the child's pool is the recent end of imports_seen, each   *)
(* environment no older than the stamp remembered for it: the reason a     *)
(* comparison with the stamp tells whether the pooled session is stale.    *)
THEOREM MirrorRemembers ==
  ASSUME Hypotheses PROVE Spec => []PoolIsRemembered
<1>1. ShapeOK /\ FreshInv => PoolIsRemembered
  <2> SUFFICES ASSUME ShapeOK, FreshInv, phase = "idle"
               PROVE  /\ Len(child.pooled) <= Len(imports_seen)
                      /\ \A i \in 1..Len(child.pooled) :
                           /\ child.pooled[i]
                                = imports_seen[Len(imports_seen) - Len(child.pooled) + i]
                           /\ stamps[child.pooled[i]] \in 1..child.env[child.pooled[i]]
    BY DEF PoolIsRemembered
  <2>1. Suffix(child.pooled, imports_seen) BY DEF FreshInv, Mirror
  <2>2. ASSUME NEW i \in 1..Len(child.pooled)
        PROVE  stamps[child.pooled[i]] \in 1..child.env[child.pooled[i]]
    <3>1. child.pooled[i] \in Profiles /\ Holds(child.pooled, child.pooled[i])
      BY Known DEF Holds
    <3>2. QED BY <3>1 DEF FreshInv, PoolOK
  <2>3. QED BY <2>1, <2>2 DEF Suffix
<1>2. QED BY <1>1, FreshHolds, ShapeCorrect, PTL DEF ShapeOK
=============================================================================
