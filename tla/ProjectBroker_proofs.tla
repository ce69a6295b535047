------------------------ MODULE ProjectBroker_proofs ------------------------
(***************************************************************************)
(* For any roots, callers, manifests and size of the pool: it never grows  *)
(* over max_projects nor holds two projects of one root, every entry can   *)
(* expire, and no worker is up that nobody will shut down.                 *)
(***************************************************************************)
EXTENDS ProjectBroker, FiniteSetTheorems, TLAPS

(* What a caller has in hand at each stage: a root from its lookup to its  *)
(* end, and at the install a project of that root.                         *)
Held(c) ==
  /\ pc[c] # "idle" => root[c] \in Roots
  /\ pc[c] \in {"compare", "recompare", "touch", "unlock", "install", "disposing", "rejecting",
                "acquired", "working"} => hand[c] \in Projects
  /\ pc[c] = "install" => project[hand[c]].root = root[c]
(* A project somebody popped is shut down before that caller goes on.       *)
Disposed(c) == doomed[c] # None => pc[c] \in {"evicted", "reevicted", "disposing"}

IInv ==
  /\ TypeOK /\ IsFiniteSet(registry)
  /\ \A c \in Callers : Held(c) /\ Disposed(c)
  /\ RegisteredIsTimed /\ NoOrphan
-----------------------------------------------------------------------------
CallerStep(c) == CallerStarts(c) \/ Running(c) \/ Acquire(c) \/ Abandon(c)

LEMMA NoneIsNoOther == None \notin Roots \cup Callers \cup Projects \cup Locks \cup Hashes
BY BrokerConstants

(* The caller's own variables, and what it leaves to the other callers.     *)
LocalsOK ==
  /\ pc \in [Callers -> Stages] /\ root \in [Callers -> Roots \cup {None}]
  /\ hand \in [Callers -> Projects \cup {None}] /\ lock \in [Callers -> Locks \cup {None}]
  /\ hash \in [Callers -> Hashes \cup {None}] /\ doomed \in [Callers -> Projects \cup {None}]
  /\ opening_locks \in [Roots -> Locks \cup {None}] /\ manifest \in [Roots -> Hashes]

LEMMA LocalsStayTyped ==
  ASSUME TypeOK, NEW c \in Callers, Held(c), CallerStep(c)
  PROVE  /\ LocalsOK'
         /\ \A d \in Callers : d # c =>
              pc'[d] = pc[d] /\ root'[d] = root[d] /\ hand'[d] = hand[d] /\ doomed'[d] = doomed[d]
<1> USE DEF TypeOK, LocalsOK, Stages, Guarded, Move, Leave, Acquired, ForgetLockOf, brokerVars,
            worldVars, Entries, Held
<1>1. CASE CallerStarts(c) BY <1>1 DEF CallerStarts, Lookup
<1>2. CASE Compare(c) BY <1>2 DEF Compare
<1>3. CASE Touch(c) BY <1>3 DEF Touch
<1>4. CASE PopStale(c) BY <1>4 DEF PopStale
<1>5. CASE Evicted(c) BY <1>5 DEF Evicted
<1>6. CASE TakeLock(c) BY <1>6 DEF TakeLock
<1>7. CASE Recheck(c) BY <1>7 DEF Recheck
<1>8. CASE Recompare(c) BY <1>8 DEF Recompare
<1>9. CASE Unlock(c) BY <1>9 DEF Unlock
<1>10. CASE BuildMeta(c) BY <1>10 DEF BuildMeta
<1>11. CASE Open(c) BY <1>11 DEF Open
<1>12. CASE OpenFails(c) BY <1>12 DEF OpenFails
<1>13. CASE InstallLoses(c) BY <1>13 DEF InstallLoses
<1>14. CASE Install(c) BY <1>14 DEF Install, IdleLru, IdleEntries
<1>15. CASE InstallRefused(c) BY <1>15 DEF InstallRefused
<1>16. CASE Dispose(c) BY <1>16 DEF Dispose
<1>17. CASE Reject(c) BY <1>17 DEF Reject
<1>18. CASE CompareFails(c) BY <1>18 DEF CompareFails
<1>19. CASE BeginCall(c) BY <1>19 DEF BeginCall
<1>20. CASE EndCall(c) BY <1>20 DEF EndCall
<1>21. CASE Acquire(c) BY <1>21 DEF Acquire
<1>22. CASE Abandon(c) BY <1>22 DEF Abandon
<1> QED
  BY <1>1, <1>2, <1>3, <1>4, <1>5, <1>6, <1>7, <1>8, <1>9, <1>10, <1>11, <1>12, <1>13, <1>14,
     <1>15, <1>16, <1>17, <1>18, <1>19, <1>20, <1>21, <1>22 DEF CallerStep, Running
-----------------------------------------------------------------------------
(* The LRU: a get changes the order only, a pop removes what it was told,   *)
(* and a put into a pool with room stays within max_projects.              *)
PoolOK ==
  /\ registry \subseteq Projects /\ IsFiniteSet(registry)
  /\ Cardinality(registry) <= MaxProjects /\ older \subseteq registry \X registry

LEMMA GetKeeps ==
  ASSUME PoolOK, NEW p \in registry, Get(p)
  PROVE  PoolOK' /\ registry' = registry
<1>1. registry' = registry BY DEF Get, Put
<1>2. older' \subseteq registry \X registry BY DEF Get, Put, PoolOK
<1>3. QED BY <1>1, <1>2 DEF PoolOK

LEMMA PopKeeps ==
  ASSUME PoolOK, NEW gone, Pop(gone)
  PROVE  PoolOK' /\ registry' = registry \ gone
<1>1. registry' = registry \ gone /\ registry' \subseteq registry BY DEF Pop
<1>2. IsFiniteSet(registry') /\ Cardinality(registry') <= Cardinality(registry)
  BY <1>1, FS_Subset DEF PoolOK
<1>3. Cardinality(registry) \in Nat /\ Cardinality(registry') \in Nat /\ MaxProjects \in Nat
  BY <1>2, FS_CardinalityType, BrokerConstants DEF PoolOK
<1>4. Cardinality(registry') <= MaxProjects BY <1>2, <1>3 DEF PoolOK
<1>5. older' \subseteq registry' \X registry' BY DEF Pop
<1>6. QED BY <1>1, <1>2, <1>4, <1>5 DEF PoolOK

LEMMA PutKeeps ==
  ASSUME NEW kept, kept \subseteq registry, PoolOK, NEW p \in Projects, Put(kept, p),
         Cardinality(kept) < MaxProjects
  PROVE  PoolOK' /\ registry' = kept \cup {p}
<1>1. registry' = kept \cup {p} /\ older' \subseteq registry' \X registry'
  BY DEF Put
<1>2. IsFiniteSet(kept) BY FS_Subset DEF PoolOK
<1>3. /\ IsFiniteSet(registry')
      /\ Cardinality(registry') = IF p \in kept THEN Cardinality(kept) ELSE Cardinality(kept) + 1
  BY <1>1, <1>2, FS_AddElement
<1>4. Cardinality(kept) \in Nat /\ MaxProjects \in Nat
  BY <1>2, FS_CardinalityType, BrokerConstants
<1>5. Cardinality(registry') <= MaxProjects BY <1>3, <1>4
<1>6. QED BY <1>1, <1>3, <1>5 DEF PoolOK

LEMMA EvictingMakesRoom ==
  ASSUME PoolOK, NEW victim \in registry
  PROVE  Cardinality(registry \ {victim}) < MaxProjects
<1>1. Cardinality(registry \ {victim}) = Cardinality(registry) - 1
  BY FS_RemoveElement DEF PoolOK
<1>2. Cardinality(registry) \in Nat /\ MaxProjects \in Nat
  BY FS_CardinalityType, BrokerConstants DEF PoolOK
<1>3. QED BY <1>1, <1>2 DEF PoolOK

(* Projects only go down, and keep their root while anybody refers to them: *)
(* so it is with every step but Open.                                      *)
Fades ==
  /\ project' \in [Projects -> ProjectType]
  /\ \A p \in Projects :
       /\ project'[p].up => project[p].up
       /\ Referenced(p)' => project'[p].root = project[p].root

LEMMA KeepFades == ASSUME TypeOK, Keep(project) PROVE Fades
<1>1. NoProject \in ProjectType /\ ~NoProject.up BY DEF NoProject, ProjectType
<1>2. \A p \in Projects :
        project'[p] = IF Referenced(p)' THEN project[p] ELSE NoProject
  BY DEF Keep
<1>3. project' \in [Projects -> ProjectType] BY <1>1 DEF Keep, TypeOK
<1>4. QED BY <1>1, <1>2, <1>3 DEF Fades

LEMMA ShutFades ==
  ASSUME TypeOK, NEW p, Shut(p)
  PROVE  Fades /\ \A q \in Projects : project'[q].up => q # p
<1> DEFINE shut == [q \in Projects |-> [project[q] EXCEPT !.up = @ /\ q # p]]
<1>1. NoProject \in ProjectType /\ ~NoProject.up BY DEF NoProject, ProjectType
<1>2. ASSUME NEW q \in Projects
      PROVE  shut[q] \in ProjectType /\ shut[q].root = project[q].root
             /\ (shut[q].up => project[q].up /\ q # p)
  <2>1. project[q] \in ProjectType BY DEF TypeOK
  <2> DEFINE up == project[q].up /\ q # p
  <2>2. up \in BOOLEAN OBVIOUS
  <2>3. shut[q] = [project[q] EXCEPT !.up = up] BY <2>1 DEF ProjectType
  <2> HIDE DEF shut
  <2>4. up => project[q].up /\ q # p OBVIOUS
  <2> HIDE DEF up
  <2>5. shut[q] \in ProjectType /\ shut[q].root = project[q].root /\ shut[q].up = up
    BY <2>1, <2>2, <2>3 DEF ProjectType
  <2>6. QED BY <2>4, <2>5
<1>3. \A q \in Projects : project'[q] = IF Referenced(q)' THEN shut[q] ELSE NoProject
  BY DEF Shut, Keep
<1>4. project' = [q \in Projects |-> IF Referenced(q)' THEN shut[q] ELSE NoProject]
  BY DEF Shut, Keep
<1> HIDE DEF shut
<1>5. project' \in [Projects -> ProjectType] BY <1>1, <1>2, <1>4
<1>6. QED BY <1>1, <1>2, <1>3, <1>5 DEF Fades

LEMMA UnchangedFades == ASSUME TypeOK, project' = project PROVE Fades
BY DEF Fades, TypeOK

LEMMA CallerFades ==
  ASSUME TypeOK, NEW c \in Callers, CallerStep(c), ~Open(c)
  PROVE  Fades
<1>1. CASE project' = project BY <1>1, UnchangedFades
<1>2. CASE Keep(project) BY <1>2, KeepFades
<1>3. CASE \E p : Shut(p) BY <1>3, ShutFades
<1>4. QED
  BY <1>1, <1>2, <1>3
  DEF CallerStep, CallerStarts, Running, Lookup, Compare, Touch, PopStale, Evicted, TakeLock,
      Recheck, Recompare, Unlock, BuildMeta, OpenFails, InstallLoses, Install, InstallRefused,
      Dispose, Reject, CompareFails, BeginCall, EndCall, Acquire, Abandon
-----------------------------------------------------------------------------
Unique == \A p, q \in registry : project[p].root = project[q].root => p = q
Timed == \A p \in registry : project[p].root \in last_used
WorldOK == last_used \subseteq Roots /\ condemned \subseteq Projects
Covered(p) ==
  p \in registry \/ Opening(p) \/ p \in condemned \/ \E c \in Callers : doomed[c] = p

LEMMA Parts ==
  IInv <=> /\ PoolOK /\ Unique /\ Timed /\ WorldOK /\ LocalsOK
           /\ project \in [Projects -> ProjectType]
           /\ \A c \in Callers : Held(c) /\ Disposed(c)
           /\ \A p \in Projects : project[p].up /\ Referenced(p) => Covered(p)
BY DEF IInv, TypeOK, PoolOK, Unique, Timed, WorldOK, LocalsOK, Covered, RegisteredIsTimed,
       RegisteredRoots, NoOrphan

LEMMA PartsNext ==
  ASSUME PoolOK', Unique', Timed', WorldOK', LocalsOK', project' \in [Projects -> ProjectType],
         \A c \in Callers : Held(c)' /\ Disposed(c)',
         \A p \in Projects : project'[p].up /\ Referenced(p)' => Covered(p)'
  PROVE  IInv'
BY DEF IInv, TypeOK, PoolOK, Unique, Timed, WorldOK, LocalsOK, Covered, RegisteredIsTimed,
       RegisteredRoots, NoOrphan

(* Whoever is registered or held is referred to, and keeps its root.        *)
LEMMA RootsStay ==
  ASSUME PoolOK', Fades, LocalsOK',
         \A c \in Callers : Held(c), Unique
  PROVE  /\ \A p \in registry' : project'[p].root = project[p].root
         /\ \A d \in Callers : pc'[d] = pc[d] /\ root'[d] = root[d] /\ hand'[d] = hand[d] => Held(d)'
         /\ registry' \subseteq registry => Unique'
<1>1. \A p \in registry' : p \in Projects /\ Referenced(p)' BY DEF PoolOK, Referenced
<1>2. \A p \in registry' : project'[p].root = project[p].root BY <1>1 DEF Fades
<1>3. ASSUME NEW d \in Callers, pc'[d] = pc[d], root'[d] = root[d], hand'[d] = hand[d]
      PROVE  Held(d)'
  <2>1. Held(d) OBVIOUS
  <2>2. CASE pc[d] = "install"
    <3>1. hand'[d] \in Projects /\ Referenced(hand[d])'
      BY <1>3, <2>1, <2>2 DEF Held, Referenced
    <3>2. project'[hand[d]].root = project[hand[d]].root BY <1>3, <3>1 DEF Fades
    <3>3. QED BY <1>3, <2>1, <3>2 DEF Held
  <2>3. CASE pc[d] # "install" BY <1>3, <2>1, <2>3 DEF Held
  <2>4. QED BY <2>2, <2>3
<1>4. registry' \subseteq registry => Unique' BY <1>2 DEF Unique
<1>5. QED BY <1>2, <1>3, <1>4

(* A step that pops nothing and opens nothing: the pool keeps its entries, *)
(* the caller takes at most one of them in hand.                           *)
LEMMA QuietKeeps ==
  ASSUME IInv, NEW c \in Callers, Fades, LocalsOK', PoolOK', registry' = registry,
         \A d \in Callers : d # c =>
           pc'[d] = pc[d] /\ root'[d] = root[d] /\ hand'[d] = hand[d] /\ doomed'[d] = doomed[d],
         condemned' = condemned, doomed' = doomed,
         last_used \subseteq last_used', last_used' \subseteq Roots,
         pc[c] \in {"install", "rejecting"} =>
           pc'[c] \in {"install", "rejecting"} /\ hand'[c] = hand[c],
         hand'[c] \in {hand[c], None} \cup registry,
         pc[c] \notin {"evicted", "reevicted", "disposing"}, Held(c)'
  PROVE  IInv'
<1>1. /\ PoolOK /\ Unique /\ Timed /\ WorldOK /\ LocalsOK
      /\ \A d \in Callers : Held(d) /\ Disposed(d)
      /\ \A p \in Projects : project[p].up /\ Referenced(p) => Covered(p)
  BY Parts
<1>2. Unique' /\ (\A p \in registry' : project'[p].root = project[p].root)
      /\ \A d \in Callers : d # c => Held(d)'
  BY <1>1, RootsStay
<1>3. Timed' BY <1>1, <1>2 DEF Timed
<1>4. WorldOK' BY <1>1 DEF WorldOK
<1>5. \A d \in Callers : Disposed(d)' BY <1>1 DEF Disposed
<1>6. ASSUME NEW p \in Projects, project'[p].up, Referenced(p)'
      PROVE  Covered(p)'
  <2>1. project[p].up /\ Referenced(p)
    BY <1>6, NoneIsNoOther DEF Fades, Referenced
  <2>2. Covered(p) BY <1>1, <2>1
  <2>3. Opening(p) => Opening(p)' BY DEF Opening
  <2>4. QED BY <2>2, <2>3 DEF Covered
<1>7. project' \in [Projects -> ProjectType] BY DEF Fades
<1>8. QED BY <1>2, <1>3, <1>4, <1>5, <1>6, <1>7, PartsNext

-----------------------------------------------------------------------------
(* What every step of a caller starts from.                                 *)
Before(c) ==
  /\ TypeOK /\ PoolOK /\ Unique /\ Timed /\ WorldOK /\ LocalsOK
  /\ \A d \in Callers : Held(d) /\ Disposed(d)
  /\ \A p \in Projects : project[p].up /\ Referenced(p) => Covered(p)
  /\ LocalsOK'
  /\ \A d \in Callers : d # c =>
       pc'[d] = pc[d] /\ root'[d] = root[d] /\ hand'[d] = hand[d] /\ doomed'[d] = doomed[d]

LEMMA CallerBegins ==
  ASSUME IInv, NEW c \in Callers, CallerStep(c)
  PROVE  Before(c)
<1>1. TypeOK /\ Held(c) BY DEF IInv
<1>2. LocalsOK' /\ \A d \in Callers : d # c =>
        pc'[d] = pc[d] /\ root'[d] = root[d] /\ hand'[d] = hand[d] /\ doomed'[d] = doomed[d]
  BY <1>1, LocalsStayTyped
<1>3. QED BY <1>1, <1>2, Parts DEF Before

LEMMA QuietSteps ==
  ASSUME IInv, NEW c \in Callers,
         \/ CallerStarts(c) \/ Compare(c) \/ CompareFails(c) \/ Touch(c) \/ TakeLock(c)
         \/ Acquire(c) \/ Recheck(c) \/ Recompare(c) \/ Unlock(c) \/ BuildMeta(c)
         \/ OpenFails(c) \/ InstallRefused(c) \/ BeginCall(c) \/ EndCall(c) \/ Abandon(c)
  PROVE  IInv'
<1>0. Before(c) /\ CallerStep(c) /\ ~Open(c)
  <2>1. CallerStep(c) BY DEF CallerStep, Running
  <2>2. ~Open(c)
    BY DEF IInv, TypeOK, Open, CallerStarts, Lookup, Compare, CompareFails, Touch, TakeLock, Acquire, Recheck,
           Recompare, Unlock, BuildMeta, OpenFails, InstallRefused, BeginCall, EndCall, Abandon,
           Move, Leave, Acquired
  <2>3. QED BY <2>1, <2>2, CallerBegins
<1>1. Fades BY <1>0, CallerFades DEF Before
<1>2. condemned' = condemned /\ doomed' = doomed
  BY DEF CallerStarts, Lookup, Compare, CompareFails, Touch, TakeLock, Acquire, Recheck,
         Recompare, Unlock, BuildMeta, OpenFails, InstallRefused, BeginCall, EndCall, Abandon,
         Leave, Acquired, worldVars
<1>3. PoolOK' /\ registry' = registry
  <2>1. CASE UNCHANGED pool BY <1>0, <2>1 DEF Before, PoolOK, pool
  <2>2. CASE \E p \in registry : Get(p) BY <1>0, <2>2, GetKeeps DEF Before
  <2>3. UNCHANGED pool \/ \E p \in registry : Get(p)
    BY DEF CallerStarts, Lookup, Compare, CompareFails, Touch, TakeLock, Acquire, Recheck,
           Recompare, Unlock, BuildMeta, OpenFails, InstallRefused, BeginCall, EndCall, Abandon,
           brokerVars, Entries
  <2>4. QED BY <2>1, <2>2, <2>3
<1>4. last_used \subseteq last_used' /\ last_used' \subseteq Roots
  <2>1. CASE last_used' = last_used BY <1>0, <2>1 DEF Before, WorldOK
  <2>2. CASE Touch(c) BY <1>0, <2>2 DEF Before, WorldOK, Touch, Held
  <2>3. QED
    BY <2>1, <2>2
    DEF CallerStarts, Lookup, Compare, CompareFails, TakeLock, Acquire, Recheck,
        Recompare, Unlock, BuildMeta, OpenFails, InstallRefused, BeginCall, EndCall, Abandon,
        brokerVars
<1>5. /\ pc[c] \in {"install", "rejecting"} =>
           pc'[c] \in {"install", "rejecting"} /\ hand'[c] = hand[c]
      /\ hand'[c] \in {hand[c], None} \cup registry
      /\ pc[c] \notin {"evicted", "reevicted", "disposing"} /\ Held(c)'
  <2> USE DEF Before, LocalsOK, Move, Leave, Acquired, Entries, Held
  <2>1. CASE CallerStarts(c) BY <1>0, <1>3, <2>1 DEF CallerStarts, Lookup, PoolOK
  <2>2. CASE Compare(c) BY <1>0, <2>2 DEF Compare
  <2>3. CASE CompareFails(c) BY <1>0, <2>3 DEF CompareFails
  <2>4. CASE Touch(c) BY <1>0, <2>4 DEF Touch
  <2>5. CASE TakeLock(c) BY <1>0, <2>5 DEF TakeLock
  <2>6. CASE Acquire(c) BY <1>0, <2>6 DEF Acquire
  <2>7. CASE Recheck(c) BY <1>0, <1>3, <2>7 DEF Recheck, PoolOK
  <2>8. CASE Recompare(c) BY <1>0, <2>8 DEF Recompare
  <2>9. CASE Unlock(c) BY <1>0, <2>9 DEF Unlock
  <2>10. CASE BuildMeta(c) BY <1>0, <2>10 DEF BuildMeta
  <2>11. CASE OpenFails(c) BY <1>0, <2>11 DEF OpenFails
  <2>12. CASE InstallRefused(c) BY <1>0, <2>12 DEF InstallRefused
  <2>13. CASE BeginCall(c) BY <1>0, <2>13 DEF BeginCall
  <2>14. CASE EndCall(c) BY <1>0, <2>14 DEF EndCall
  <2>15. CASE Abandon(c) BY <1>0, <2>15 DEF Abandon
  <2>16. QED
    BY <2>1, <2>2, <2>3, <2>4, <2>5, <2>6, <2>7, <2>8, <2>9, <2>10, <2>11, <2>12, <2>13, <2>14,
       <2>15
<1>6. LocalsOK' /\ \A d \in Callers : d # c =>
        pc'[d] = pc[d] /\ root'[d] = root[d] /\ hand'[d] = hand[d] /\ doomed'[d] = doomed[d]
  BY <1>0 DEF Before
<1>7. QED BY <1>1, <1>2, <1>3, <1>4, <1>5, <1>6, QuietKeeps
-----------------------------------------------------------------------------
(* The steps that move a project out of the pool, into it, or down.         *)
LEMMA PopStaleKeeps ==
  ASSUME IInv, NEW c \in Callers, PopStale(c)
  PROVE  IInv'
<1>0. Before(c) /\ Fades
  <2>1. CallerStep(c) /\ project' = project BY DEF CallerStep, Running, PopStale
  <2>2. QED BY <2>1, CallerBegins, UnchangedFades DEF Before
<1>1. /\ pc[c] \in {"stale", "restale"} /\ pc'[c] \in {"evicted", "reevicted"}
      /\ UNCHANGED <<condemned, project, root, hand>> /\ last_used' = last_used \ {root[c]}
      /\ doomed[c] = None
      /\ \/ UNCHANGED pool /\ doomed' = doomed /\ Entries(root[c]) = {}
         \/ \E p \in registry : Pop({p}) /\ project[p].root = root[c] /\ doomed'[c] = p
  BY <1>0 DEF PopStale, Before, LocalsOK, Move, Disposed, worldVars, Entries
<1>2. /\ PoolOK' /\ registry' \subseteq registry
      /\ \A p \in registry \ registry' : doomed'[c] = p
      /\ \A p \in registry' : project[p].root # root[c]
  <2>1. CASE UNCHANGED pool /\ doomed' = doomed /\ Entries(root[c]) = {}
    BY <1>0, <2>1 DEF Before, PoolOK, pool, Entries
  <2>2. ASSUME NEW p \in registry, Pop({p}), project[p].root = root[c], doomed'[c] = p
        PROVE  /\ PoolOK' /\ registry' \subseteq registry
               /\ \A q \in registry \ registry' : doomed'[c] = q
               /\ \A q \in registry' : project[q].root # root[c]
    <3>1. PoolOK' /\ registry' = registry \ {p} BY <1>0, <2>2, PopKeeps DEF Before
    <3>2. QED BY <1>0, <2>2, <3>1 DEF Before, Unique
  <2>3. QED BY <1>1, <2>1, <2>2
<1>3. Unique' /\ \A d \in Callers : Held(d)'
  <2>1. Unique' /\ \A d \in Callers : pc'[d] = pc[d] /\ root'[d] = root[d] /\ hand'[d] = hand[d] => Held(d)'
    BY <1>0, <1>2, RootsStay DEF Before
  <2>2. Held(c)' BY <1>0, <1>1 DEF Before, Held
  <2>3. QED BY <1>0, <2>1, <2>2 DEF Before
<1>4. Timed' BY <1>0, <1>1, <1>2 DEF Before, Timed
<1>5. WorldOK' BY <1>0, <1>1 DEF Before, WorldOK
<1>6. \A d \in Callers : Disposed(d)' BY <1>0, <1>1 DEF Before, Disposed
<1>7. ASSUME NEW p \in Projects, project'[p].up, Referenced(p)' PROVE Covered(p)'
  <2>1. Referenced(p)
    BY <1>0, <1>1, <1>2, <1>7 DEF Before, Referenced, PoolOK
  <2>2. Covered(p) BY <1>0, <1>1, <1>7, <2>1 DEF Before
  <2>3. Opening(p) => Opening(p)' BY <1>0, <1>1 DEF Before, Opening
  <2>4. \A d \in Callers : doomed[d] = p => doomed'[d] = p
    BY <1>0, <1>1, NoneIsNoOther DEF Before
  <2>5. QED BY <1>1, <1>2, <2>2, <2>3, <2>4 DEF Covered
<1>8. QED BY <1>0, <1>2, <1>3, <1>4, <1>5, <1>6, <1>7, PartsNext DEF Before, Fades

LEMMA EvictedKeeps ==
  ASSUME IInv, NEW c \in Callers, Evicted(c)
  PROVE  IInv'
<1>0. Before(c) /\ Fades /\ \A p \in Projects : project'[p].up => p # doomed[c]
  <2>1. CallerStep(c) /\ Shut(doomed[c]) BY DEF CallerStep, Running, Evicted
  <2>2. Before(c) BY <2>1, CallerBegins
  <2>3. QED BY <2>1, <2>2, ShutFades DEF Before
<1>1. /\ pc[c] \in {"evicted", "reevicted"} /\ pc'[c] \in {"missed", "build"}
      /\ UNCHANGED <<registry, older, last_used, condemned, root>>
      /\ hand'[c] = None /\ doomed'[c] = None
  BY <1>0 DEF Evicted, Before, LocalsOK, Move, worldVars, brokerVars, pool
<1>2. PoolOK' BY <1>0, <1>1 DEF Before, PoolOK
<1>3. /\ Unique' /\ (\A p \in registry' : project'[p].root = project[p].root)
      /\ \A d \in Callers : Held(d)'
  <2>1. /\ Unique' /\ (\A p \in registry' : project'[p].root = project[p].root)
        /\ \A d \in Callers : pc'[d] = pc[d] /\ root'[d] = root[d] /\ hand'[d] = hand[d] => Held(d)'
    BY <1>0, <1>1, <1>2, RootsStay DEF Before
  <2>2. Held(c)' BY <1>0, <1>1 DEF Before, Held
  <2>3. QED BY <1>0, <2>1, <2>2 DEF Before
<1>4. Timed' BY <1>0, <1>1, <1>3 DEF Before, Timed
<1>5. WorldOK' BY <1>0, <1>1 DEF Before, WorldOK
<1>6. \A d \in Callers : Disposed(d)' BY <1>0, <1>1 DEF Before, Disposed
<1>7. ASSUME NEW p \in Projects, project'[p].up, Referenced(p)' PROVE Covered(p)'
  <2>1. Referenced(p) /\ project[p].up /\ p # doomed[c]
    BY <1>0, <1>1, <1>7, NoneIsNoOther DEF Before, Referenced, Fades
  <2>2. Covered(p) BY <1>0, <2>1 DEF Before
  <2>3. Opening(p) => Opening(p)' BY <1>0, <1>1 DEF Before, Opening
  <2>4. \A d \in Callers : doomed[d] = p => doomed'[d] = p BY <1>0, <2>1 DEF Before
  <2>5. QED BY <1>1, <2>2, <2>3, <2>4 DEF Covered
<1>8. QED BY <1>0, <1>2, <1>3, <1>4, <1>5, <1>6, <1>7, PartsNext DEF Before, Fades

LEMMA OpenKeeps ==
  ASSUME IInv, NEW c \in Callers, Open(c)
  PROVE  IInv'
<1>0. Before(c)
  <2>1. CallerStep(c) BY DEF CallerStep, Running
  <2>2. QED BY <2>1, CallerBegins
<1> DEFINE new == CHOOSE p \in Projects : ~Referenced(p)
<1>1. new \in Projects /\ ~Referenced(new) BY DEF Open
<1>2. /\ pc[c] = "open" /\ pc'[c] = "install" /\ hand'[c] = new /\ root' = root
      /\ UNCHANGED <<registry, older, last_used, condemned, doomed>>
      /\ project' = [project EXCEPT ![new] = [root |-> root[c], hash |-> hash[c], up |-> TRUE]]
  BY <1>0 DEF Open, Before, LocalsOK, Move, worldVars, brokerVars, pool
<1> HIDE DEF new
<1>3. /\ project' \in [Projects -> ProjectType] /\ project'[new].root = root[c]
      /\ \A p \in Projects : p # new => project'[p] = project[p]
  BY <1>0, <1>1, <1>2 DEF Before, TypeOK, LocalsOK, ProjectType
<1>4. \A p \in registry : p # new /\ p \in Projects BY <1>0, <1>1 DEF Before, PoolOK, Referenced
<1>5. PoolOK' /\ Unique' /\ Timed' /\ WorldOK'
  BY <1>0, <1>2, <1>3, <1>4 DEF Before, PoolOK, Unique, Timed, WorldOK
<1>6. ASSUME NEW d \in Callers PROVE Held(d)' /\ Disposed(d)'
  <2>1. Held(d) /\ Disposed(d) BY <1>0 DEF Before
  <2>2. CASE d = c BY <1>0, <1>1, <1>2, <1>3, <2>1, <2>2 DEF Held, Disposed
  <2>3. CASE d # c
    <3>1. pc'[d] = pc[d] /\ hand'[d] = hand[d] /\ root'[d] = root[d] /\ hand[d] # new
      BY <1>0, <1>1, <2>3 DEF Before, Referenced
    <3>2. QED BY <1>2, <1>3, <2>1, <3>1 DEF Held, Disposed
  <2>4. QED BY <2>2, <2>3
<1>7. ASSUME NEW p \in Projects, project'[p].up, Referenced(p)' PROVE Covered(p)'
  <2>1. CASE p = new BY <1>2, <2>1 DEF Covered, Opening
  <2>2. CASE p # new
    <3>1. Referenced(p) /\ project[p].up
      BY <1>0, <1>2, <1>3, <1>7, <2>2 DEF Before, Referenced
    <3>2. Covered(p) BY <1>0, <3>1 DEF Before
    <3>3. Opening(p) => Opening(p)' BY <1>0, <1>2 DEF Before, Opening
    <3>4. QED BY <1>2, <3>2, <3>3 DEF Covered
  <2>3. QED BY <2>1, <2>2
<1>8. QED BY <1>0, <1>3, <1>5, <1>6, <1>7, PartsNext DEF Before

(* Whichever way the install goes, exactly one of the two projects is left  *)
(* registered and the other is doomed.                                     *)
LEMMA InstallLosesKeeps ==
  ASSUME IInv, NEW c \in Callers, InstallLoses(c)
  PROVE  IInv'
<1>0. Before(c) /\ Fades
  <2>1. CallerStep(c) /\ project' = project BY DEF CallerStep, Running, InstallLoses
  <2>2. QED BY <2>1, CallerBegins, UnchangedFades DEF Before
<1>1. PICK p \in registry : Get(p) /\ hand' = [hand EXCEPT ![c] = p] /\ project[p].root = root[c]
  BY DEF InstallLoses, Entries
<1>2. /\ pc[c] = "install" /\ pc'[c] = "disposing" /\ UNCHANGED <<condemned, project, root>>
      /\ last_used' = last_used \cup {root[c]} /\ hand'[c] = p /\ doomed'[c] = hand[c]
  BY <1>0, <1>1 DEF InstallLoses, Before, LocalsOK, Move, worldVars
<1>3. PoolOK' /\ registry' = registry BY <1>0, <1>1, GetKeeps DEF Before
<1>4. Unique' /\ \A d \in Callers : Held(d)'
  <2>1. Unique' /\ \A d \in Callers : pc'[d] = pc[d] /\ root'[d] = root[d] /\ hand'[d] = hand[d] => Held(d)'
    BY <1>0, <1>3, RootsStay DEF Before
  <2>2. Held(c)' BY <1>0, <1>2, <1>3 DEF Before, Held, PoolOK
  <2>3. QED BY <1>0, <2>1, <2>2 DEF Before
<1>5. Timed' /\ WorldOK' BY <1>0, <1>2, <1>3 DEF Before, Timed, WorldOK, Held
<1>6. \A d \in Callers : Disposed(d)' BY <1>0, <1>2 DEF Before, Disposed
<1>7. ASSUME NEW q \in Projects, project'[q].up, Referenced(q)' PROVE Covered(q)'
  <2>1. Referenced(q)
    BY <1>0, <1>2, <1>3, <1>7 DEF Before, Referenced
  <2>2. Covered(q) BY <1>0, <1>2, <1>7, <2>1 DEF Before
  <2>3. Opening(q) => Opening(q)' \/ doomed'[c] = q BY <1>0, <1>2 DEF Before, Opening
  <2>4. doomed[c] = None BY <1>0, <1>2 DEF Before, Disposed
  <2>5. \A d \in Callers : doomed[d] = q => doomed'[d] = q
    BY <1>0, <2>4, NoneIsNoOther DEF Before
  <2>6. QED BY <1>2, <1>3, <2>2, <2>3, <2>5 DEF Covered
<1>8. QED BY <1>0, <1>3, <1>4, <1>5, <1>6, <1>7, PartsNext DEF Before, Fades

LEMMA InstallKeeps ==
  ASSUME IInv, NEW c \in Callers, Install(c)
  PROVE  IInv'
<1>0. Before(c) /\ Fades
  <2>1. CallerStep(c) /\ project' = project BY DEF CallerStep, Running, Install
  <2>2. QED BY <2>1, CallerBegins, UnchangedFades DEF Before
<1> DEFINE ours == hand[c]
<1>1. /\ pc[c] = "install" /\ pc'[c] = "disposing" /\ UNCHANGED <<condemned, project, root, hand>>
      /\ ours \in Projects /\ project[ours].root = root[c] /\ root[c] \in Roots
      /\ doomed[c] = None /\ \A p \in registry : project[p].root # root[c]
  BY <1>0 DEF Install, Before, LocalsOK, Move, Held, Disposed, Entries, worldVars
<1>2. ASSUME NEW kept \in SUBSET registry, PoolOK', registry' = kept \cup {ours},
             \A p \in kept : project[p].root \in last_used', root[c] \in last_used',
             last_used' \subseteq Roots, \A p \in registry \ kept : doomed'[c] = p,
             doomed'[c] \in registry \cup {None}
      PROVE  IInv'
  <2>1. Unique' BY <1>0, <1>1, <1>2 DEF Before, Unique
  <2>2. Timed' /\ WorldOK' BY <1>0, <1>1, <1>2 DEF Before, Timed, WorldOK
  <2>3. \A d \in Callers : Held(d)'
    <3>1. Held(c)' BY <1>0, <1>1 DEF Before, Held
    <3>2. \A d \in Callers : pc'[d] = pc[d] /\ root'[d] = root[d] /\ hand'[d] = hand[d] => Held(d)'
      BY <1>0, <1>2, RootsStay DEF Before
    <3>3. QED BY <1>0, <3>1, <3>2 DEF Before
  <2>4. \A d \in Callers : Disposed(d)' BY <1>0, <1>1 DEF Before, Disposed
  <2>5. ASSUME NEW q \in Projects, project'[q].up, Referenced(q)' PROVE Covered(q)'
    <3>1. Referenced(q)
      BY <1>0, <1>1, <1>2, <2>5, NoneIsNoOther DEF Before, Referenced
    <3>2. Covered(q) BY <1>0, <1>1, <2>5, <3>1 DEF Before
    <3>3. Opening(q) => Opening(q)' \/ q \in registry' BY <1>0, <1>1, <1>2 DEF Before, Opening
    <3>4. \A d \in Callers : doomed[d] = q => doomed'[d] = q
      BY <1>0, <1>1, NoneIsNoOther DEF Before
    <3>5. q \in registry => q \in registry' \/ doomed'[c] = q BY <1>2
    <3>6. QED BY <1>1, <3>2, <3>3, <3>4, <3>5 DEF Covered
  <2>6. QED BY <1>0, <1>2, <2>1, <2>2, <2>3, <2>4, <2>5, PartsNext DEF Before, Fades
<1> HIDE DEF ours
<1>3. CASE /\ ~Full /\ Put(registry, ours)
           /\ last_used' = last_used \cup {root[c]} /\ UNCHANGED doomed
  <2>1. Cardinality(registry) \in Nat /\ MaxProjects \in Nat
    BY <1>0, FS_CardinalityType, BrokerConstants DEF Before, PoolOK
  <2>2. Cardinality(registry) < MaxProjects BY <1>3, <2>1 DEF Full
  <2>3. PoolOK' /\ registry' = registry \cup {ours}
    BY <1>0, <1>1, <1>3, <2>2, PutKeeps DEF Before
  <2>4. QED
    BY <1>0, <1>1, <1>2, <1>3, <2>3 DEF Before, Timed, WorldOK
<1>4. CASE \E victim \in IdleLru :
             /\ Put(registry \ {victim}, ours)
             /\ last_used' = (last_used \ {project[victim].root}) \cup {root[c]}
             /\ doomed' = [doomed EXCEPT ![c] = victim]
  <2>1. PICK victim \in registry :
          /\ Put(registry \ {victim}, ours)
          /\ last_used' = (last_used \ {project[victim].root}) \cup {root[c]}
          /\ doomed' = [doomed EXCEPT ![c] = victim]
    BY <1>4 DEF IdleLru, IdleEntries
  <2>2. PoolOK' /\ registry' = (registry \ {victim}) \cup {ours}
    BY <1>0, <1>1, <2>1, EvictingMakesRoom, PutKeeps DEF Before
  <2>3. doomed'[c] = victim BY <1>0, <2>1 DEF Before, LocalsOK
  <2>4. \A p \in registry \ {victim} : project[p].root \in last_used'
    BY <1>0, <2>1 DEF Before, Timed, Unique
  <2>5. QED
    BY <1>0, <1>1, <1>2, <2>1, <2>2, <2>3, <2>4 DEF Before, WorldOK
<1>5. QED BY <1>3, <1>4 DEF Install, ours

LEMMA DisposeKeeps ==
  ASSUME IInv, NEW c \in Callers, Dispose(c)
  PROVE  IInv'
<1>0. Before(c) /\ Fades /\ \A p \in Projects : project'[p].up => p # doomed[c]
  <2>1. CallerStep(c) /\ Shut(doomed[c]) BY DEF CallerStep, Running, Dispose
  <2>2. Before(c) BY <2>1, CallerBegins
  <2>3. QED BY <2>1, <2>2, ShutFades DEF Before
<1>1. /\ pc[c] = "disposing" /\ pc'[c] = "acquired"
      /\ UNCHANGED <<registry, older, last_used, condemned, root>>
      /\ hand'[c] = hand[c] /\ doomed'[c] = None
  BY <1>0 DEF Dispose, Acquired, Before, LocalsOK, Move, worldVars, brokerVars, pool
<1>2. PoolOK' BY <1>0, <1>1 DEF Before, PoolOK
<1>3. /\ Unique' /\ (\A p \in registry' : project'[p].root = project[p].root)
      /\ \A d \in Callers : Held(d)'
  <2>1. /\ Unique' /\ (\A p \in registry' : project'[p].root = project[p].root)
        /\ \A d \in Callers : pc'[d] = pc[d] /\ root'[d] = root[d] /\ hand'[d] = hand[d] => Held(d)'
    BY <1>0, <1>1, <1>2, RootsStay DEF Before
  <2>2. Held(c)' BY <1>0, <1>1 DEF Before, Held
  <2>3. QED BY <1>0, <2>1, <2>2 DEF Before
<1>4. Timed' /\ WorldOK' BY <1>0, <1>1, <1>3 DEF Before, Timed, WorldOK
<1>5. \A d \in Callers : Disposed(d)' BY <1>0, <1>1 DEF Before, Disposed
<1>6. ASSUME NEW p \in Projects, project'[p].up, Referenced(p)' PROVE Covered(p)'
  <2>1. Referenced(p) /\ project[p].up /\ p # doomed[c]
    BY <1>0, <1>1, <1>6, NoneIsNoOther DEF Before, Referenced, Fades
  <2>2. Covered(p) BY <1>0, <2>1 DEF Before
  <2>3. Opening(p) => Opening(p)' BY <1>0, <1>1 DEF Before, Opening
  <2>4. \A d \in Callers : doomed[d] = p => doomed'[d] = p BY <1>0, <2>1 DEF Before
  <2>5. QED BY <1>1, <2>2, <2>3, <2>4 DEF Covered
<1>7. QED BY <1>0, <1>2, <1>3, <1>4, <1>5, <1>6, PartsNext DEF Before, Fades

LEMMA RejectKeeps ==
  ASSUME IInv, NEW c \in Callers, Reject(c)
  PROVE  IInv'
<1>0. Before(c) /\ Fades /\ \A p \in Projects : project'[p].up => p # hand[c]
  <2>1. CallerStep(c) /\ Shut(hand[c]) BY DEF CallerStep, Running, Reject
  <2>2. Before(c) BY <2>1, CallerBegins
  <2>3. QED BY <2>1, <2>2, ShutFades DEF Before
<1>1. /\ pc[c] = "rejecting" /\ pc'[c] = "idle" /\ hand'[c] = None /\ doomed' = doomed
      /\ UNCHANGED <<registry, older, last_used, condemned>>
  BY <1>0 DEF Reject, Leave, Before, LocalsOK, Move, worldVars, brokerVars, pool
<1>2. PoolOK' BY <1>0, <1>1 DEF Before, PoolOK
<1>3. /\ Unique' /\ (\A p \in registry' : project'[p].root = project[p].root)
      /\ \A d \in Callers : Held(d)'
  <2>1. /\ Unique' /\ (\A p \in registry' : project'[p].root = project[p].root)
        /\ \A d \in Callers : pc'[d] = pc[d] /\ root'[d] = root[d] /\ hand'[d] = hand[d] => Held(d)'
    BY <1>0, <1>1, <1>2, RootsStay DEF Before
  <2>2. Held(c)' BY <1>1 DEF Held
  <2>3. QED BY <1>0, <2>1, <2>2 DEF Before
<1>4. Timed' /\ WorldOK' BY <1>0, <1>1, <1>3 DEF Before, Timed, WorldOK
<1>5. \A d \in Callers : Disposed(d)' BY <1>0, <1>1 DEF Before, Disposed
<1>6. ASSUME NEW p \in Projects, project'[p].up, Referenced(p)' PROVE Covered(p)'
  <2>1. Referenced(p) /\ project[p].up /\ p # hand[c]
    BY <1>0, <1>1, <1>6, NoneIsNoOther DEF Before, Referenced, Fades
  <2>2. Covered(p) BY <1>0, <2>1 DEF Before
  <2>3. Opening(p) => Opening(p)' BY <1>0, <1>1, <2>1 DEF Before, Opening
  <2>4. QED BY <1>1, <2>2, <2>3 DEF Covered
<1>7. QED BY <1>0, <1>2, <1>3, <1>4, <1>5, <1>6, PartsNext DEF Before, Fades
-----------------------------------------------------------------------------
(* The reaper, shutdown_all and the world leave every caller where it is.   *)
CallersStay == UNCHANGED <<pc, root, hand, doomed>> /\ LocalsOK'

(* What leaves the pool with its instants is condemned.                     *)
LEMMA CondemningKeeps ==
  ASSUME IInv, CallersStay, project' = project, NEW gone \in SUBSET registry, Pop(gone),
         condemned' = condemned \cup gone, last_used' \subseteq last_used,
         \A p \in registry \ gone : project[p].root \in last_used'
  PROVE  IInv'
<1>0. /\ TypeOK /\ PoolOK /\ Unique /\ WorldOK
      /\ \A c \in Callers : Held(c) /\ Disposed(c)
      /\ \A p \in Projects : project[p].up /\ Referenced(p) => Covered(p)
  BY Parts DEF IInv
<1>1. PoolOK' /\ registry' = registry \ gone BY <1>0, PopKeeps
<1>2. Fades BY <1>0, UnchangedFades
<1>3. Unique' /\ \A c \in Callers : Held(c)' BY <1>0, <1>1, <1>2, RootsStay DEF CallersStay
<1>4. Timed' BY <1>1 DEF Timed
<1>5. WorldOK' BY <1>0 DEF WorldOK, PoolOK
<1>6. \A c \in Callers : Disposed(c)' BY <1>0 DEF Disposed, CallersStay
<1>7. ASSUME NEW p \in Projects, project'[p].up, Referenced(p)' PROVE Covered(p)'
  <2>1. Referenced(p) BY <1>1, <1>7 DEF Referenced, CallersStay
  <2>2. Covered(p) BY <1>0, <1>7, <2>1
  <2>3. Opening(p)' <=> Opening(p) BY DEF Opening, CallersStay
  <2>4. QED BY <1>1, <2>2, <2>3 DEF Covered, CallersStay
<1>8. QED BY <1>1, <1>2, <1>3, <1>4, <1>5, <1>6, <1>7, PartsNext DEF CallersStay, Fades

(* What a project loses, or whoever is told to shut it down, disturbs no    *)
(* other.                                                                  *)
LEMMA FadingKeeps ==
  ASSUME IInv, CallersStay, Fades, UNCHANGED <<registry, older, last_used>>,
         condemned' \subseteq condemned,
         \A p \in condemned \ condemned' : ~project'[p].up
  PROVE  IInv'
<1>0. /\ TypeOK /\ PoolOK /\ Unique /\ Timed /\ WorldOK
      /\ \A c \in Callers : Held(c) /\ Disposed(c)
      /\ \A p \in Projects : project[p].up /\ Referenced(p) => Covered(p)
  BY Parts DEF IInv
<1>1. PoolOK' BY <1>0 DEF PoolOK
<1>2. /\ Unique' /\ (\A p \in registry' : project'[p].root = project[p].root)
      /\ \A c \in Callers : Held(c)'
  BY <1>0, <1>1, RootsStay DEF CallersStay
<1>3. Timed' BY <1>0, <1>2 DEF Timed
<1>4. WorldOK' BY <1>0 DEF WorldOK
<1>5. \A c \in Callers : Disposed(c)' BY <1>0 DEF Disposed, CallersStay
<1>6. ASSUME NEW p \in Projects, project'[p].up, Referenced(p)' PROVE Covered(p)'
  <2>1. Referenced(p) /\ project[p].up BY <1>6 DEF Referenced, CallersStay, Fades
  <2>2. Covered(p) BY <1>0, <2>1
  <2>3. Opening(p)' <=> Opening(p) BY DEF Opening, CallersStay
  <2>4. QED BY <1>6, <2>2, <2>3 DEF Covered, CallersStay
<1>7. QED BY <1>1, <1>2, <1>3, <1>4, <1>5, <1>6, PartsNext DEF CallersStay, Fades

LEMMA ReaperKeeps == ASSUME IInv, ReaperTick PROVE IInv'
<1>1. PICK expired \in SUBSET last_used : Reap(expired) BY DEF ReaperTick
<1> DEFINE busy == {r \in expired : \E p \in Entries(r) : active_jobs(p) > 0}
           gone == {p \in registry : project[p].root \in expired \ busy}
<1>2. /\ Pop(gone) /\ last_used' = last_used \ (expired \ busy) /\ condemned' = condemned \cup gone
      /\ UNCHANGED <<opening_locks, manifest, project, pc, root, hand, lock, hash, doomed>>
  BY <1>1 DEF Reap
<1> HIDE DEF busy
<1>3. CallersStay BY <1>2 DEF CallersStay, LocalsOK, IInv, TypeOK
<1>4. \A p \in registry \ gone : project[p].root \in last_used'
  BY <1>2, Parts DEF Timed
<1>5. gone \in SUBSET registry OBVIOUS
<1> HIDE DEF gone
<1>6. QED BY <1>2, <1>3, <1>4, <1>5, CondemningKeeps

LEMMA ShutdownAllKeeps == ASSUME IInv, shutdown_all PROVE IInv'
<1>1. /\ Pop(registry) /\ last_used' \subseteq last_used /\ condemned' = condemned \cup registry
      /\ project' = project
  BY DEF shutdown_all
<1>2. CallersStay BY DEF shutdown_all, CallersStay, LocalsOK, IInv, TypeOK
<1>3. QED BY <1>1, <1>2, CondemningKeeps

LEMMA ShutCondemnedKeeps == ASSUME IInv, ShutCondemned PROVE IInv'
<1>1. PICK p \in condemned : /\ condemned' = condemned \ {p} /\ Shut(p)
                             /\ UNCHANGED <<brokerVars, manifest, pc, root, hand, lock, hash, doomed>>
  BY DEF ShutCondemned
<1>2. Fades /\ p \in Projects /\ \A q \in Projects : project'[q].up => q # p
  BY <1>1, ShutFades DEF IInv, TypeOK
<1>3. CallersStay BY <1>1 DEF CallersStay, LocalsOK, IInv, TypeOK, brokerVars
<1>4. QED BY <1>1, <1>2, <1>3, FadingKeeps DEF brokerVars, pool

LEMMA WorldKeeps == ASSUME IInv, ManifestChanges \/ ActorDies PROVE IInv'
<1>1. CASE ManifestChanges
  <2>1. Fades BY <1>1, UnchangedFades DEF ManifestChanges, IInv
  <2>2. CallersStay
    BY <1>1 DEF ManifestChanges, CallersStay, LocalsOK, IInv, TypeOK, brokerVars
  <2>3. QED BY <1>1, <2>1, <2>2, FadingKeeps DEF ManifestChanges, brokerVars, pool
<1>2. CASE ActorDies
  <2>1. \E p : Shut(p) BY <1>2 DEF ActorDies
  <2>2. Fades BY <2>1, ShutFades DEF IInv
  <2>3. CallersStay
    BY <1>2 DEF ActorDies, CallersStay, LocalsOK, IInv, TypeOK, brokerVars, worldVars
  <2>4. QED BY <1>2, <2>2, <2>3, FadingKeeps DEF ActorDies, brokerVars, worldVars, pool
<1>3. QED BY <1>1, <1>2

-----------------------------------------------------------------------------
LEMMA Initially == ASSUME Init PROVE IInv
<1>1. PoolOK
  <2>1. IsFiniteSet(registry) /\ Cardinality(registry) = 0 BY FS_EmptySet DEF Init
  <2>2. QED BY <2>1, BrokerConstants DEF Init, PoolOK
<1>2. Unique /\ Timed /\ WorldOK BY DEF Init, Unique, Timed, WorldOK
<1>3. LocalsOK BY DEF Init, LocalsOK, Stages
<1>4. NoProject \in ProjectType /\ ~NoProject.up BY DEF NoProject, ProjectType
<1>5. project \in [Projects -> ProjectType] /\ \A p \in Projects : ~project[p].up
  BY <1>4 DEF Init
<1>6. \A c \in Callers : Held(c) /\ Disposed(c) BY DEF Init, Held, Disposed
<1>7. QED BY <1>1, <1>2, <1>3, <1>5, <1>6, Parts

LEMMA Inductive == ASSUME IInv, [Next]_vars PROVE IInv'
<1>1. CASE UNCHANGED vars
  <2>1. Fades BY <1>1, UnchangedFades DEF IInv, vars
  <2>2. CallersStay
    BY <1>1 DEF vars, CallersStay, LocalsOK, IInv, TypeOK, brokerVars, worldVars
  <2>3. QED BY <1>1, <2>1, <2>2, FadingKeeps DEF vars, brokerVars, worldVars, pool
<1>2. ASSUME NEW c \in Callers, CallerStep(c) PROVE IInv'
  BY <1>2, QuietSteps, PopStaleKeeps, EvictedKeeps, OpenKeeps, InstallLosesKeeps, InstallKeeps,
     DisposeKeeps, RejectKeeps
  DEF CallerStep, Running
<1>3. QED
  BY <1>1, <1>2, ReaperKeeps, ShutdownAllKeeps, ShutCondemnedKeeps, WorldKeeps
  DEF Next, CallerStep

LEMMA InvariantHolds == SafeSpec => []IInv
<1>1. Init => IInv BY Initially
<1>2. IInv /\ [Next]_vars => IInv' BY Inductive
<1>3. QED BY <1>1, <1>2, PTL DEF SafeSpec
-----------------------------------------------------------------------------
(* The pool keeps its types: it never holds more than max_projects projects *)
(* nor two of one root, however acquires, evictions, the reaper and        *)
(* shutdown_all interleave.                                                *)
THEOREM PoolKeepsItsLimit == SafeSpec => []TypeOK
<1>1. IInv => TypeOK BY DEF IInv
<1>2. QED BY <1>1, InvariantHolds, PTL

(* Every resident project has a last-used instant for reap_idle to expire.  *)
THEOREM EveryEntryCanExpire == SafeSpec => []RegisteredIsTimed
<1>1. IInv => RegisteredIsTimed BY DEF IInv
<1>2. QED BY <1>1, InvariantHolds, PTL

(* A project that is up is in the pool, in the hands of the call opening    *)
(* it, or popped by somebody who is about to shut it down.                 *)
THEOREM NoWorkerIsOrphaned == SafeSpec => []NoOrphan
<1>1. IInv => NoOrphan BY DEF IInv
<1>2. QED BY <1>1, InvariantHolds, PTL
=============================================================================
