---------------------------- MODULE QueryCaches ----------------------------
(***************************************************************************)
(* The two caches a warm tool call is answered from: the broker's          *)
(* LakeProjectMeta, revalidated by the stamps of the files it was read     *)
(* from, and the project handle's module-query answers, keyed by path,     *)
(* content hash and question. A call takes several steps; between any two  *)
(* of them other calls run, sources are edited, Lake's files are written   *)
(* and modules are built.                                                  *)
(*                                                                         *)
(* Contents, mtimes and manifests are version numbers that only grow (0:   *)
(* the file is absent), so that equal stamps mean equal contents. Of the   *)
(* pool there is one root's entry, by what the code compares: ProjectBroker *)
(* has the locks, the limit and the order of eviction; how a job is        *)
(* answered is ProjectActor.                                               *)
(***************************************************************************)
EXTENDS Naturals, Sequences, SequencesExt

CONSTANTS
  Callers, Paths,
  Questions, Budgets,     \* a batch is a question (its selectors) and its budgets
  Unkeyable,              \* questions from_query or from_batch makes no key for
  Capacity,               \* entries of each LRU
  InputFiles,             \* a sequence: what build_from_canonical reads, in its order
  Required,               \* the inputs whose absence is BadProject
  MovesUnderBuild,        \* hypothesis of MetaIsAFreshBuild: Lake's files may be
                          \* written while a caller reads and stamps them
  \* Bounds of the model.
  MaxMoves, MaxHandles

Inputs == Range(InputFiles)
Manifest == "lake-manifest.json"
ASSUME CacheConstants ==
  /\ InputFiles \in Seq(Inputs) /\ Manifest \in Required /\ Required \subseteq Inputs
  /\ Capacity \in Nat \ {0} /\ Unkeyable \subseteq Questions
  /\ MovesUnderBuild \in BOOLEAN
  /\ MaxMoves \in Nat /\ MaxHandles \in Nat \ {0}

VARIABLES
  moves,           \* how often a file was written or a module built
  input,           \* Lake's files
  bytes,           \* the Lean sources
  built,           \* the built modules of the import closure
  meta_cache,      \* ProjectBroker::meta_cache's entry for the root, or NoMeta
  handles,         \* the LeanProjects opened so far, with their module_queries
  resident,        \* which of them the registry has for the root, or 0
  pc, call         \* where each caller is, and what it holds

diskVars == <<moves, input, bytes, built>>
poolVars == <<handles, resident>>
vars == <<diskVars, meta_cache, poolVars, pc, call>>

NoMeta == [stamp |-> <<>>, meta |-> <<>>]
\* What a call holds, each field filled when its step is reached; `locked`: it
\* has waited for the opening lock. `seen` and `lost_race` are history.
Idle == [path |-> "", question |-> "", budgets |-> 0, seen |-> {},
         read |-> <<>>, meta |-> <<>>, stamp |-> <<>>, hash |-> 0, handle |-> 0,
         locked |-> FALSE, lost_race |-> FALSE,
         computed |-> <<>>, answer |-> <<>>, freshly_processed |-> FALSE]
-----------------------------------------------------------------------------
Init ==
  /\ moves = 0 /\ input = [f \in Inputs |-> 1]
  /\ bytes = [p \in Paths |-> 1] /\ built = 1
  /\ meta_cache = NoMeta /\ handles = <<>> /\ resident = 0
  /\ pc = [c \in Callers |-> "idle"] /\ call = [c \in Callers |-> Idle]

Goto(c, step) == pc' = [pc EXCEPT ![c] = step]
Hangup(c) == Goto(c, "idle") /\ call' = [call EXCEPT ![c] = Idle]

(* What a fresh build would read now; None where build_from_canonical fails. *)
FreshMeta == input
Buildable == \A f \in Required : input[f] # 0

(* A tool handler begins: which file it asks about, what, and how much it   *)
(* may answer. `seen`: the metadata fresh builds would have made since.      *)
BeginCall(c) ==
  /\ pc[c] = "idle" /\ Goto(c, "meta")
  /\ \E p \in Paths, q \in Questions, b \in Budgets :
       call' = [call EXCEPT ![c] = [Idle EXCEPT !.path = p, !.question = q, !.budgets = b,
                                                !.seen = {FreshMeta}]]
  /\ UNCHANGED <<diskVars, meta_cache, poolVars>>

(* LakeProjectMeta::input_stamp: (length, mtime) of every input. *)
StampOfManifest(m) == [f \in {Manifest} |-> input[f]]
input_stamp(m) == [f \in Inputs |-> input[f]]

(* ProjectBroker::meta: the handler asks it first, and acquire again when   *)
(* it holds a resident project to compare. Served from the cache: MetaHit. *)
Then(c) == IF call[c].handle = 0 THEN "read" ELSE "compare"
MetaHit(c) ==
  /\ pc[c] = "meta" /\ meta_cache # NoMeta
  /\ meta_cache.stamp = input_stamp(meta_cache.meta)
  /\ call' = [call EXCEPT ![c].meta = meta_cache.meta] /\ Goto(c, Then(c))
  /\ UNCHANGED <<diskVars, meta_cache, poolVars>>

MetaMiss(c) ==
  /\ pc[c] = "meta"
  /\ meta_cache = NoMeta \/ meta_cache.stamp # input_stamp(meta_cache.meta)
  /\ Goto(c, "build") /\ UNCHANGED <<diskVars, meta_cache, poolVars, call>>

(* build_from_canonical reads its inputs one after the other. *)
BuildReads(c) ==
  LET f == InputFiles[Len(call[c].read) + 1]
  IN  /\ pc[c] = "build"
      /\ f \in Required => input[f] # 0
      /\ call' = [call EXCEPT ![c].read = Append(@, input[f])]
      /\ Goto(c, IF Len(call[c].read) + 1 = Len(InputFiles) THEN "stamp" ELSE "build")
      /\ UNCHANGED <<diskVars, meta_cache, poolVars>>
BuildFails(c) ==
  /\ pc[c] = "build"
  /\ LET f == InputFiles[Len(call[c].read) + 1] IN f \in Required /\ input[f] = 0
  /\ Hangup(c)
  /\ UNCHANGED <<diskVars, meta_cache, poolVars>>

BuiltMeta(c) ==
  [f \in Inputs |-> call[c].read[CHOOSE i \in 1..Len(InputFiles) : InputFiles[i] = f]]
StampMeta(c) ==
  /\ pc[c] = "stamp" /\ Goto(c, "put")
  /\ call' = [call EXCEPT ![c].read = <<>>, ![c].meta = BuiltMeta(c),
                           ![c].stamp = input_stamp(BuiltMeta(c))]
  /\ UNCHANGED <<diskVars, meta_cache, poolVars>>
PutMeta(c) ==
  /\ pc[c] = "put" /\ Goto(c, Then(c))
  /\ meta_cache' = [stamp |-> call[c].stamp, meta |-> call[c].meta]
  /\ call' = [call EXCEPT ![c].stamp = <<>>]
  /\ UNCHANGED <<diskVars, poolVars>>

(* read_query_file: the bytes, their hash and their imports, in one read. *)
ReadQueryFile(c) ==
  /\ pc[c] = "read" /\ Goto(c, "acquire")
  /\ call' = [call EXCEPT ![c].meta = <<>>, ![c].hash = bytes[call[c].path]]
  /\ UNCHANGED <<diskVars, meta_cache, poolVars>>

(* acquire: the registry's project, if the metadata's manifest is its own;  *)
(* else it is taken out, and after the opening lock the same once more. The *)
(* lock itself is not here: it can be lost (ProjectBroker, MissesCoalesced), *)
(* so two callers may be opening at once.                                  *)
FindResident(c) ==
  /\ pc[c] = "acquire" /\ resident # 0 /\ Goto(c, "meta")
  /\ call' = [call EXCEPT ![c].handle = resident]
  /\ UNCHANGED <<diskVars, meta_cache, poolVars>>
LookAgainOrOpen(c) ==
  /\ Goto(c, IF call[c].locked THEN "open" ELSE "acquire")
  /\ call' = [call EXCEPT ![c].handle = 0, ![c].meta = <<>>, ![c].locked = TRUE]
FindNone(c) ==
  /\ pc[c] = "acquire" /\ resident = 0 /\ LookAgainOrOpen(c)
  /\ UNCHANGED <<diskVars, meta_cache, poolVars>>
\* A handle that is replaced stays with the calls that already hold it.
ReusableUnchecked(c) == TRUE
Reusable(c) == handles[call[c].handle].manifest = call[c].meta[Manifest]
Reuse(c) ==
  /\ pc[c] = "compare" /\ Reusable(c) /\ Goto(c, "lookup")
  /\ call' = [call EXCEPT ![c].meta = <<>>, ![c].locked = FALSE]
  /\ UNCHANGED <<diskVars, meta_cache, poolVars>>
\* The manifest is another one, or the actor died, which it may at any time.
Evict(c) ==
  /\ pc[c] = "compare" /\ resident' = 0 /\ LookAgainOrOpen(c)
  /\ UNCHANGED <<diskVars, meta_cache, handles>>

(* from_explicit, past the cache: what the new project keeps is the hash of *)
(* the manifest as it is read now. Any required file may be missing by the *)
(* time it is read, LeanProject::open fail, or the pool be full.           *)
OpenReads(c) ==
  /\ pc[c] = "open" /\ input[Manifest] # 0 /\ Goto(c, "install")
  /\ call' = [call EXCEPT ![c].read = <<input[Manifest]>>]
  /\ UNCHANGED <<diskVars, meta_cache, poolVars>>
OpenFails(c) ==
  /\ \/ pc[c] = "open" /\ ~Buildable
     \/ pc[c] = "install"
  /\ Hangup(c)
  /\ UNCHANGED <<diskVars, meta_cache, poolVars>>
Register(c) ==
  /\ pc[c] = "install" /\ resident = 0 /\ Len(handles) < MaxHandles
  /\ handles' = Append(handles, [manifest |-> call[c].read[1], module_queries |-> <<>>])
  /\ resident' = Len(handles) + 1
  /\ call' = [call EXCEPT ![c].read = <<>>, ![c].locked = FALSE, ![c].handle = Len(handles) + 1]
  /\ Goto(c, "lookup")
  /\ UNCHANGED <<diskVars, meta_cache>>
\* Someone else was first: theirs is handed out, and nobody compares it.
LoseRace(c) ==
  /\ pc[c] = "install" /\ resident # 0 /\ Goto(c, "lookup")
  /\ call' = [call EXCEPT ![c].read = <<>>, ![c].locked = FALSE, ![c].handle = resident,
                           ![c].lost_race = TRUE]
  /\ UNCHANGED <<diskVars, meta_cache, poolVars>>
\* The reaper, the LRU or shutdown_all.
PoolEvicts ==
  /\ resident # 0 /\ resident' = 0
  /\ UNCHANGED <<diskVars, meta_cache, handles, pc, call>>

-----------------------------------------------------------------------------
(* ModuleQueryCache: an LRU, most recently used last. *)
KeyOfQuestion(c) == <<call[c].path, call[c].hash, call[c].question>>
Key(c) == <<call[c].path, call[c].hash, call[c].question, call[c].budgets>>

Cache(c) == handles[call[c].handle].module_queries
Found(c) == {i \in DOMAIN Cache(c) : Cache(c)[i].key = Key(c)}
Where(c) == CHOOSE i \in Found(c) : TRUE
Others(c) == IF Found(c) = {} THEN Cache(c) ELSE RemoveAt(Cache(c), Where(c))
\* LruCache::put drops the entry used longest ago.
Put(entries, e) ==
  IF Len(entries) < Capacity THEN Append(entries, e) ELSE Append(Tail(entries), e)
Store(c, entries) == handles' = [handles EXCEPT ![call[c].handle].module_queries = entries]

Respond(c, answer, fresh) ==
  /\ call' = [call EXCEPT ![c].computed = <<>>, ![c].answer = answer, ![c].freshly_processed = fresh]
  /\ Goto(c, "answered")

(* A hit never enters the actor's mailbox. *)
Hit(c) ==
  /\ pc[c] = "lookup" /\ call[c].question \notin Unkeyable /\ Found(c) # {}
  /\ Store(c, Append(Others(c), Cache(c)[Where(c)]))
  /\ Respond(c, Cache(c)[Where(c)].answer, FALSE)
  /\ UNCHANGED <<diskVars, meta_cache, resident>>
Miss(c) ==
  /\ pc[c] = "lookup" /\ (call[c].question \in Unkeyable \/ Found(c) = {})
  /\ Goto(c, "process")
  /\ UNCHANGED <<diskVars, meta_cache, poolVars, call>>

(* The worker elaborates the bytes it was sent against what is built. Every *)
(* outcome is an answer, one with missing imports included; an error ends  *)
(* the call and is not cached.                                             *)
Process(c) ==
  /\ pc[c] = "process" /\ Goto(c, "insert")
  /\ call' = [call EXCEPT ![c].computed =
                 [path |-> call[c].path, bytes |-> call[c].hash, question |-> call[c].question,
                  budgets |-> call[c].budgets, built |-> built, handle |-> call[c].handle]]
  /\ UNCHANGED <<diskVars, meta_cache, poolVars>>
ProcessFails(c) ==
  /\ pc[c] = "process" /\ Hangup(c)
  /\ UNCHANGED <<diskVars, meta_cache, poolVars>>
Insert(c) ==
  /\ pc[c] = "insert"
  /\ IF call[c].question \in Unkeyable THEN UNCHANGED handles
     ELSE Store(c, Put(Others(c), [key |-> Key(c), answer |-> call[c].computed]))
  /\ Respond(c, call[c].computed, TRUE)
  /\ UNCHANGED <<diskVars, meta_cache, resident>>
EndCall(c) ==
  /\ pc[c] = "answered" /\ Hangup(c)
  /\ UNCHANGED <<diskVars, meta_cache, poolVars>>
-----------------------------------------------------------------------------
(* The world: every live call remembers the metadata it could have seen. *)
Reading(c) == pc[c] \in {"build", "stamp"}
Remember == call' = [c \in Callers |->
  IF pc[c] = "idle" THEN call[c] ELSE [call[c] EXCEPT !.seen = @ \cup {input'}]]
Move == moves < MaxMoves /\ moves' = moves + 1
NextVersion == moves + 2
WriteInput(f) ==
  /\ Move
  /\ (\E c \in Callers : Reading(c)) => MovesUnderBuild
  /\ \E v \in {0, NextVersion} \ {input[f]} : input' = [input EXCEPT ![f] = v]
  /\ Remember /\ UNCHANGED <<bytes, built, meta_cache, poolVars, pc>>
EditSource(p) ==
  /\ Move /\ bytes' = [bytes EXCEPT ![p] = NextVersion]
  /\ UNCHANGED <<input, built, meta_cache, poolVars, pc, call>>
LakeBuild ==
  /\ Move /\ built' = NextVersion
  /\ UNCHANGED <<input, bytes, meta_cache, poolVars, pc, call>>

Meta(c) ==
  MetaHit(c) \/ MetaMiss(c) \/ BuildReads(c) \/ BuildFails(c) \/ StampMeta(c) \/ PutMeta(c)
Acquire(c) ==
  \/ FindResident(c) \/ FindNone(c) \/ Reuse(c) \/ Evict(c)
  \/ OpenReads(c) \/ OpenFails(c) \/ Register(c) \/ LoseRace(c)
Query(c) ==
  Hit(c) \/ Miss(c) \/ Process(c) \/ ProcessFails(c) \/ Insert(c) \/ EndCall(c)
Next ==
  \/ \E c \in Callers : BeginCall(c) \/ Meta(c) \/ ReadQueryFile(c) \/ Acquire(c) \/ Query(c)
  \/ \E f \in Inputs : WriteInput(f)
  \/ \E p \in Paths : EditSource(p)
  \/ LakeBuild \/ PoolEvicts
Spec == Init /\ [][Next]_vars
-----------------------------------------------------------------------------
(* Whatever the two caches were filled with by whom, a call is answered on  *)
(* the bytes it read itself, for the question it asked and under the byte  *)
(* budgets it set: an answer cut to a smaller budget is not handed to a    *)
(* caller who asked for more.                                              *)
AnswersItsOwnQuestion ==
  \A c \in Callers : pc[c] = "answered" =>
    LET a == call[c].answer
    IN  /\ a.path = call[c].path /\ a.bytes = call[c].hash
        /\ a.question = call[c].question /\ a.budgets = call[c].budgets

(* The metadata cache is transparent: what a call goes on with, and what it *)
(* compares a resident project with, is what a fresh build would have made *)
(* at some moment of that call. While Lake's files are written under a     *)
(* builder it is not (MovesUnderBuild): the builder stamps what it did not *)
(* read, and the next caller hits it.                                      *)
MetaIsAFreshBuild ==
  \A c \in Callers : pc[c] \in {"read", "compare"} =>
    call[c].meta \in call[c].seen

(* No answer crosses a change of the manifest: it was computed through the  *)
(* very handle the call holds, and that handle was opened under a manifest *)
(* the project had at some moment of the call: acquire compares it with    *)
(* metadata that may come from the cache, so this takes MetaIsAFreshBuild  *)
(* and its hypothesis. The exception is the handle of another caller who   *)
(* was first to open: it is handed out uncompared and may have been opened *)
(* under a manifest of before the call.                                    *)
AnswersOfOwnHandle ==
  \A c \in Callers : pc[c] = "answered" =>
    /\ call[c].answer.handle = call[c].handle
    /\ call[c].lost_race
       \/ handles[call[c].handle].manifest \in {m[Manifest] : m \in call[c].seen}

(* cache.rs: "there is no interval after which a hit becomes less true than *)
(* it was". A hit describes the modules as they are built now.             *)
HitsStayTrue ==
  [][\A c \in Callers : Hit(c) => call'[c].answer.built = built]_vars
=============================================================================
