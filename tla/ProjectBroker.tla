---------------------------- MODULE ProjectBroker ----------------------------
(***************************************************************************)
(* ProjectBroker::acquire and the three ways a resident project leaves the *)
(* pool: the LRU eviction for room, the idle reaper, shutdown_all.         *)
(*                                                                         *)
(* The registry mutex is held for one action at a time; between two of a   *)
(* caller's actions every other caller, the reaper, the manifest and the   *)
(* projects' own actors move. The opening locks are Arc<AsyncMutex> values *)
(* found by root in a table every exit removes the root from. A project is *)
(* an Arc: the id of one nobody refers to any more stands for a new one.   *)
(***************************************************************************)
EXTENDS Naturals, FiniteSets

CONSTANTS
  Roots,        \* canonical Lake roots
  Callers,      \* tool calls
  Projects,     \* identities of LeanProject values, enough to have a free one
  Locks,        \* identities of opening locks, enough to have a free one
  Hashes,       \* contents of lake-manifest.json
  MaxProjects,  \* BrokerConfig::max_projects
  ReaperRuns,   \* BrokerConfig::idle_timeout is not zero
  ActorsDie,    \* an actor may panic or its breaker trip
  ServerExits,  \* shutdown_all may be called, by an exit path or by Drop
  None

ASSUME BrokerConstants ==
  /\ MaxProjects \in Nat \ {0}
  /\ {ReaperRuns, ActorsDie, ServerExits} \subseteq BOOLEAN
  /\ None \notin Roots \cup Callers \cup Projects \cup Locks \cup Hashes

VARIABLES
  registry,       \* BrokerInner::registry: the resident projects ...
  older,          \* ... and the LRU's order: <<p, q>> when q was used after p
  last_used,      \* the roots BrokerInner::last_used has an instant for
  opening_locks,  \* BrokerInner::opening_locks
  project,        \* what each LeanProject is
  manifest,       \* the manifest on disk
  condemned,      \* projects the reaper or shutdown_all popped and is to shut down
  pc,             \* where each caller is in acquire, or using its project
  root,           \* the root the caller resolved its hint to
  hand,           \* the project the caller holds an Arc of
  lock,           \* the opening lock the caller holds an Arc of
  hash,           \* the manifest hash its LakeProjectMeta was built with
  doomed          \* the project the caller popped or lost with, to shut down next

pool == <<registry, older>>
brokerVars == <<pool, last_used, opening_locks>>
worldVars == <<manifest, condemned>>
vars == <<brokerVars, worldVars, project, pc, root, hand, lock, hash, doomed>>

ProjectType == [root : Roots \cup {None}, hash : Hashes \cup {None}, up : BOOLEAN]
NoProject == [root |-> None, hash |-> None, up |-> FALSE]

\* `acquire` holds the guard of its opening lock from here to its return.
Guarded == {"recheck", "recompare", "unlock", "restale", "reevicted", "build", "open",
            "install", "disposing", "rejecting"}
Stages == Guarded \cup {"idle", "compare", "touch", "stale", "evicted", "missed", "wait",
                        "acquired", "working"}

RegisteredRoots == {project[p].root : p \in registry}

\* LeanProject::active_jobs: the calls that were counted and have not ended.
active_jobs(p) == Cardinality({c \in Callers : pc[c] = "working" /\ hand[c] = p})

TypeOK ==
  /\ registry \subseteq Projects /\ Cardinality(registry) <= MaxProjects
  /\ \A p, q \in registry : project[p].root = project[q].root => p = q
  /\ older \subseteq registry \X registry
  /\ last_used \subseteq Roots
  /\ opening_locks \in [Roots -> Locks \cup {None}]
  /\ project \in [Projects -> ProjectType]
  /\ manifest \in [Roots -> Hashes]
  /\ condemned \subseteq Projects
  /\ pc \in [Callers -> Stages]
  /\ root \in [Callers -> Roots \cup {None}]
  /\ hand \in [Callers -> Projects \cup {None}]
  /\ lock \in [Callers -> Locks \cup {None}]
  /\ hash \in [Callers -> Hashes \cup {None}]
  /\ doomed \in [Callers -> Projects \cup {None}]

Init ==
  /\ registry = {} /\ older = {} /\ last_used = {}
  /\ opening_locks = [r \in Roots |-> None]
  /\ project = [p \in Projects |-> NoProject]
  /\ manifest \in [Roots -> Hashes]
  /\ condemned = {}
  /\ pc = [c \in Callers |-> "idle"]
  /\ root = [c \in Callers |-> None]
  /\ hand = [c \in Callers |-> None]
  /\ lock = [c \in Callers |-> None]
  /\ hash = [c \in Callers |-> None]
  /\ doomed = [c \in Callers |-> None]

-----------------------------------------------------------------------------
(* LruCache, Arc and the opening locks. *)
Entries(r) == {p \in registry : project[p].root = r}
\* pop: the others keep their order.
Pop(gone) ==
  /\ registry' = registry \ gone
  /\ older' = older \cap (registry' \X registry')
\* put: p is the most recently used, after those that are kept.
Put(kept, p) ==
  /\ registry' = kept \cup {p}
  /\ older' = (older \cap (kept \X kept)) \cup (kept \X {p})
\* get: the entry becomes the most recently used one.
Get(p) == Put(registry \ {p}, p)

Referenced(p) ==
  p \in registry \/ p \in condemned \/ \E c \in Callers : hand[c] = p \/ doomed[c] = p
LockInUse(l) ==
  (\E r \in Roots : opening_locks[r] = l) \/ \E c \in Callers : lock[c] = l

\* An Arc nobody holds any more is dropped (evaluated last in an action).
Keep(projects) ==
  project' = [p \in Projects |-> IF Referenced(p)' THEN projects[p] ELSE NoProject]
\* LeanProject::shutdown, of a project or of none.
Shut(p) == Keep([q \in Projects |-> [project[q] EXCEPT !.up = @ /\ q # p]])
Move(c, stage) == pc' = [pc EXCEPT ![c] = stage]
ForgetLockOf(c) == opening_locks' = [opening_locks EXCEPT ![root[c]] = None]

\* The call ends here: its future drops every Arc and guard it holds.
Leave(c) ==
  /\ Move(c, "idle")
  /\ root' = [root EXCEPT ![c] = None]
  /\ hand' = [hand EXCEPT ![c] = None]
  /\ lock' = [lock EXCEPT ![c] = None]
  /\ hash' = [hash EXCEPT ![c] = None]
  /\ UNCHANGED doomed
\* `acquire` returns the project in hand; the guard of the lock goes with it.
Acquired(c, p) ==
  /\ Move(c, "acquired")
  /\ hand' = [hand EXCEPT ![c] = p]
  /\ lock' = [lock EXCEPT ![c] = None]
  /\ hash' = [hash EXCEPT ![c] = None]
  /\ UNCHANGED root

-----------------------------------------------------------------------------
(* acquire, the fast path. *)
Lookup(c, r) ==
  /\ pc[c] = "idle"
  /\ root' = [root EXCEPT ![c] = r]
  /\ IF Entries(r) = {}
     THEN Move(c, "missed") /\ UNCHANGED <<pool, hand>>
     ELSE \E p \in Entries(r) :
            /\ Get(p)
            /\ hand' = [hand EXCEPT ![c] = p]
            /\ Move(c, "compare")
  /\ UNCHANGED <<last_used, opening_locks, worldVars, project, lock, hash, doomed>>

\* The manifest hash and `healthy`, read with no lock held.
Current(p) == project[p].up /\ project[p].hash = manifest[project[p].root]
Compare(c) ==
  /\ pc[c] = "compare"
  /\ Move(c, IF Current(hand[c]) THEN "touch" ELSE "stale")
  /\ UNCHANGED <<brokerVars, worldVars, project, root, hand, lock, hash, doomed>>
\* ... or the metadata cannot be read: an early return, whatever is held.
CompareFails(c) ==
  /\ pc[c] \in {"compare", "recompare"}
  /\ Leave(c)
  /\ UNCHANGED <<brokerVars, worldVars>>
  /\ Keep(project)

Touch(c) ==
  /\ pc[c] = "touch"
  /\ last_used' = last_used \cup {root[c]}
  /\ Acquired(c, hand[c])
  /\ UNCHANGED <<pool, opening_locks, worldVars, project, doomed>>

(* pop(&root): whatever the registry holds for the root by now. *)
PopStale(c) ==
  /\ pc[c] \in {"stale", "restale"}
  /\ last_used' = last_used \ {root[c]}
  /\ IF Entries(root[c]) = {}
     THEN UNCHANGED <<pool, doomed>>
     ELSE \E p \in Entries(root[c]) :
            /\ Pop({p})
            /\ doomed' = [doomed EXCEPT ![c] = p]
  /\ Move(c, IF pc[c] = "stale" THEN "evicted" ELSE "reevicted")
  /\ UNCHANGED <<opening_locks, worldVars, project, root, hand, lock, hash>>

\* shutdown() of what was popped, then on; the stale Arc itself is dropped.
Evicted(c) ==
  /\ pc[c] \in {"evicted", "reevicted"}
  /\ doomed' = [doomed EXCEPT ![c] = None]
  /\ hand' = [hand EXCEPT ![c] = None]
  /\ Move(c, IF pc[c] = "evicted" THEN "missed" ELSE "build")
  /\ UNCHANGED <<brokerVars, worldVars, root, lock, hash>>
  /\ Shut(doomed[c])

-----------------------------------------------------------------------------
(* The opening lock: found or made under the registry mutex, then awaited.  *)
TakeLock(c) ==
  /\ pc[c] = "missed"
  /\ IF opening_locks[root[c]] # None
     THEN /\ lock' = [lock EXCEPT ![c] = opening_locks[root[c]]]
          /\ UNCHANGED opening_locks
     ELSE LET l == CHOOSE l \in Locks : ~LockInUse(l)
          IN  /\ \E free \in Locks : ~LockInUse(free)
              /\ lock' = [lock EXCEPT ![c] = l]
              /\ opening_locks' = [opening_locks EXCEPT ![root[c]] = l]
  /\ Move(c, "wait")
  /\ UNCHANGED <<pool, last_used, worldVars, project, root, hand, hash, doomed>>

LockedByItsArcs(l) == \E c \in Callers : lock[c] = l
Locked(l) == \E c \in Callers : lock[c] = l /\ pc[c] \in Guarded
Acquire(c) ==
  /\ pc[c] = "wait"
  /\ ~Locked(lock[c])
  /\ Move(c, "recheck")
  /\ UNCHANGED <<brokerVars, worldVars, project, root, hand, lock, hash, doomed>>

(* Someone may have opened the root while we waited. *)
Recheck(c) ==
  /\ pc[c] = "recheck"
  /\ IF Entries(root[c]) = {}
     THEN Move(c, "build") /\ UNCHANGED <<pool, hand>>
     ELSE \E p \in Entries(root[c]) :
            /\ Get(p)
            /\ hand' = [hand EXCEPT ![c] = p]
            /\ Move(c, "recompare")
  /\ UNCHANGED <<last_used, opening_locks, worldVars, project, root, lock, hash, doomed>>
Recompare(c) ==
  /\ pc[c] = "recompare"
  /\ Move(c, IF Current(hand[c]) THEN "unlock" ELSE "restale")
  /\ UNCHANGED <<brokerVars, worldVars, project, root, hand, lock, hash, doomed>>
Unlock(c) ==
  /\ pc[c] = "unlock"
  /\ ForgetLockOf(c)
  /\ Move(c, "touch")
  /\ UNCHANGED <<pool, last_used, worldVars, project, root, hand, lock, hash, doomed>>

(* The slow path: metadata, then the project and its worker, both on the   *)
(* blocking pool; either may fail.                                         *)
BuildMeta(c) ==
  /\ pc[c] = "build"
  /\ hash' = [hash EXCEPT ![c] = manifest[root[c]]]
  /\ Move(c, "open")
  /\ UNCHANGED <<brokerVars, worldVars, project, root, hand, lock, doomed>>
Open(c) ==
  /\ pc[c] = "open"
  /\ \E free \in Projects : ~Referenced(free)
  /\ LET p == CHOOSE p \in Projects : ~Referenced(p)
     IN  /\ project' = [project EXCEPT ![p] =
                          [root |-> root[c], hash |-> hash[c], up |-> TRUE]]
         /\ hand' = [hand EXCEPT ![c] = p]
  /\ Move(c, "install")
  /\ UNCHANGED <<brokerVars, worldVars, root, lock, hash, doomed>>
OpenFails(c) ==
  /\ pc[c] \in {"build", "open"}
  /\ ForgetLockOf(c)
  /\ Leave(c)
  /\ UNCHANGED <<pool, last_used, worldVars, project>>

\* pop_idle_lru: the least recently used entry with no job.
IdleEntries == {p \in registry : active_jobs(p) = 0}
IdleLru == {p \in IdleEntries : \A q \in IdleEntries : <<q, p>> \notin older}
FullAtOneMore == Cardinality(registry) > MaxProjects
Full == Cardinality(registry) >= MaxProjects

(* The final locked section. Someone else won the race: theirs is used as  *)
(* it is, and ours is the victim.                                          *)
InstallLoses(c) ==
  /\ pc[c] = "install"
  /\ \E p \in Entries(root[c]) :
       /\ Get(p)
       /\ hand' = [hand EXCEPT ![c] = p]
  /\ last_used' = last_used \cup {root[c]}
  /\ ForgetLockOf(c)
  /\ doomed' = [doomed EXCEPT ![c] = hand[c]]
  /\ Move(c, "disposing")
  /\ UNCHANGED <<worldVars, project, root, lock, hash>>
\* ... room is free or an idle entry makes room, and ours is registered;
InstallUntimed(c) ==
  /\ pc[c] = "install" /\ Entries(root[c]) = {}
  /\ \/ /\ ~Full /\ Put(registry, hand[c])
        /\ UNCHANGED <<last_used, doomed>>
     \/ /\ Full
        /\ \E victim \in IdleLru :
             /\ Put(registry \ {victim}, hand[c])
             /\ last_used' = last_used \ {project[victim].root}
             /\ doomed' = [doomed EXCEPT ![c] = victim]
  /\ ForgetLockOf(c)
  /\ Move(c, "disposing")
  /\ UNCHANGED <<worldVars, project, root, hand, lock, hash>>
Install(c) ==
  /\ pc[c] = "install" /\ Entries(root[c]) = {}
  /\ \/ /\ ~Full /\ Put(registry, hand[c])
        /\ last_used' = last_used \cup {root[c]}
        /\ UNCHANGED doomed
     \/ /\ Full
        /\ \E victim \in IdleLru :
             /\ Put(registry \ {victim}, hand[c])
             /\ last_used' = (last_used \ {project[victim].root}) \cup {root[c]}
             /\ doomed' = [doomed EXCEPT ![c] = victim]
  /\ ForgetLockOf(c)
  /\ Move(c, "disposing")
  /\ UNCHANGED <<worldVars, project, root, hand, lock, hash>>
\* ... or every entry is active, and the call is refused, retryably.
InstallRefused(c) ==
  /\ pc[c] = "install" /\ Entries(root[c]) = {}
  /\ Full /\ IdleEntries = {}
  /\ ForgetLockOf(c)
  /\ Move(c, "rejecting")
  /\ UNCHANGED <<pool, last_used, worldVars, project, root, hand, lock, hash, doomed>>

\* The victim and the race's loser are shut down after the registry is released.
DisposeNothing(c) ==
  /\ pc[c] = "disposing"
  /\ doomed' = [doomed EXCEPT ![c] = None]
  /\ Acquired(c, hand[c])
  /\ UNCHANGED <<brokerVars, worldVars>>
  /\ Keep(project)
Dispose(c) ==
  /\ pc[c] = "disposing"
  /\ doomed' = [doomed EXCEPT ![c] = None]
  /\ Acquired(c, hand[c])
  /\ UNCHANGED <<brokerVars, worldVars>>
  /\ Shut(doomed[c])
Reject(c) ==
  /\ pc[c] = "rejecting"
  /\ Leave(c)
  /\ UNCHANGED <<brokerVars, worldVars>>
  /\ Shut(hand[c])

-----------------------------------------------------------------------------
(* The call on the project it was handed: job_meta counts it, and a        *)
(* project that is down refuses it. What else can happen to a call is      *)
(* ProjectMailbox's subject.                                               *)
BeginCall(c) ==
  /\ pc[c] = "acquired"
  /\ IF project[hand[c]].up
     THEN Move(c, "working") /\ UNCHANGED <<root, hand, lock, hash, doomed>>
     ELSE Leave(c)
  /\ UNCHANGED <<brokerVars, worldVars>>
  /\ Keep(project)
EndCall(c) ==
  /\ pc[c] = "working"
  /\ Leave(c)
  /\ UNCHANGED <<brokerVars, worldVars>>
  /\ Keep(project)

(* The future of the call is dropped at one of acquire's await points. The *)
(* opening lock's guard is released, its entry in the table stays; what    *)
(* the blocking pool was opening is dropped when it is done.               *)
Abandon(c) ==
  /\ pc[c] \in {"wait", "build", "open"}
  /\ Leave(c)
  /\ UNCHANGED <<brokerVars, worldVars, project>>

-----------------------------------------------------------------------------
(* The reaper: which instants have expired is the clock's choice. It shuts *)
(* down what it popped before its next tick; that shutdown_all waits for it *)
(* here is a bound of the model.                                           *)
Reap(expired) ==
  LET busy == {r \in expired : \E p \in Entries(r) : active_jobs(p) > 0}
      gone == {p \in registry : project[p].root \in expired \ busy}
  IN  /\ ReaperRuns /\ condemned = {}
      /\ Pop(gone)
      /\ last_used' = last_used \ (expired \ busy)
      /\ condemned' = condemned \cup gone
      /\ UNCHANGED <<opening_locks, manifest, project, pc, root, hand, lock, hash, doomed>>
ReaperTick == \E expired \in SUBSET last_used : Reap(expired)

shutdown_all ==
  /\ ServerExits /\ condemned = {}
  /\ Pop(registry)
  /\ last_used' = last_used \ RegisteredRoots
  /\ condemned' = condemned \cup registry
  /\ opening_locks' = [r \in Roots |-> None]
  /\ UNCHANGED <<manifest, project, pc, root, hand, lock, hash, doomed>>

ShutCondemned ==
  \E p \in condemned :
    /\ condemned' = condemned \ {p}
    /\ UNCHANGED <<brokerVars, manifest, pc, root, hand, lock, hash, doomed>>
    /\ Shut(p)

(* `lake update` rewrites a manifest; an actor panics or its breaker trips. *)
ManifestChanges ==
  \E r \in Roots, h \in Hashes :
    /\ manifest' = [manifest EXCEPT ![r] = h]
    /\ UNCHANGED <<brokerVars, condemned, project, pc, root, hand, lock, hash, doomed>>
ActorDies ==
  /\ ActorsDie
  /\ \E p \in Projects :
    /\ Referenced(p) /\ project[p].up
    /\ UNCHANGED <<brokerVars, worldVars, pc, root, hand, lock, hash, doomed>>
    /\ Shut(p)

-----------------------------------------------------------------------------
Running(c) ==
  \/ Compare(c) \/ Touch(c) \/ PopStale(c) \/ Evicted(c) \/ TakeLock(c)
  \/ Recheck(c) \/ Recompare(c) \/ Unlock(c) \/ BuildMeta(c) \/ Open(c) \/ OpenFails(c)
  \/ InstallLoses(c) \/ Install(c) \/ InstallRefused(c) \/ Dispose(c) \/ Reject(c)
  \/ CompareFails(c) \/ BeginCall(c) \/ EndCall(c)
CallerStarts(c) == \E r \in Roots : Lookup(c, r)

Next ==
  \/ \E c \in Callers : CallerStarts(c) \/ Running(c) \/ Acquire(c) \/ Abandon(c)
  \/ ReaperTick \/ shutdown_all \/ ShutCondemned \/ ManifestChanges \/ ActorDies

SafeSpec == Init /\ [][Next]_vars
\* The runtime polls every call that has begun and the blocking pool returns;
\* tokio's Mutex is fair, so a waiter is passed over finitely often; the
\* reaper ticks and what was popped is shut down.
Spec ==
  /\ SafeSpec
  /\ \A c \in Callers : WF_vars(Running(c)) /\ SF_vars(Acquire(c))
  /\ WF_vars(ReaperTick) /\ WF_vars(ShutCondemned)

-----------------------------------------------------------------------------
(* Every resident project has an instant the reaper can see expire: however *)
(* evictions, lost races and touches interleave, none is left resident for  *)
(* ever.                                                                    *)
RegisteredIsTimed == RegisteredRoots \subseteq last_used

(* No worker outlives the pool unseen: a project that is up and held by     *)
(* somebody is registered, was just opened by the caller that holds it, or  *)
(* is about to be shut down by whoever popped it.                           *)
Opening(p) == \E c \in Callers : hand[c] = p /\ pc[c] \in {"install", "rejecting"}
NoOrphan ==
  \A p \in Projects :
    project[p].up /\ Referenced(p) =>
      \/ p \in registry \/ Opening(p) \/ p \in condemned
      \/ \E c \in Callers : doomed[c] = p

(* Each call on the broker ends, behind whatever lock it waits.             *)
EveryAcquireEnds == \A c \in Callers : pc[c] # "idle" ~> pc[c] = "idle"

(* Once the calls stop, every worker is released.                           *)
Quiet == \A c \in Callers : pc[c] = "idle"
QuietReleasesWorkers == <>[]Quiet => <>[](registry = {} /\ condemned = {})

(* broker.rs on the slow path: concurrent misses for the same root are      *)
(* coalesced so only one project controller is opened.                      *)
MissesCoalesced ==
  \A c, d \in Callers :
    pc[c] = "open" /\ pc[d] = "open" /\ root[c] = root[d] => c = d

(* broker.rs on the stale path: the stale entry is evicted. What is popped  *)
(* is the project that was compared.                                        *)
EvictsOnlyStale ==
  [][\A c \in Callers : pc[c] \in {"stale", "restale"} /\ doomed'[c] # None
                          => doomed'[c] = hand[c]]_vars
=============================================================================
