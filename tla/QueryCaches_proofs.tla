------------------------ MODULE QueryCaches_proofs ------------------------
(***************************************************************************)
(* That the caches of QueryCaches are transparent, for every number of     *)
(* callers, files, questions and handles and every capacity: a call is     *)
(* answered on what it read and asked (AnswersItsOwnQuestion), through the *)
(* handle it holds (AnswersOfOwnHandle), and, while nobody writes Lake's   *)
(* files under a builder, from metadata a fresh build would have made      *)
(* (MetaIsAFreshBuild).                                                    *)
(*                                                                         *)
(* One inductive invariant carries all three: CachesTrue says what an      *)
(* entry of either cache is worth to whoever finds it, CallTrue what a     *)
(* call holds at each of its steps.                                        *)
(***************************************************************************)
EXTENDS QueryCaches, TLAPS

Metas == [Inputs -> Nat]
Answers == [path : Paths, bytes : Nat, question : Questions, budgets : Budgets,
            built : Nat, handle : Nat]
Entries == [key : Paths \X Nat \X Questions \X Budgets, answer : Answers]
Handles == [manifest : Nat, module_queries : Seq(Entries)]
Steps == {"idle", "meta", "build", "stamp", "put", "read", "acquire", "compare",
          "open", "install", "lookup", "process", "insert", "answered"}

WorldTypes ==
  /\ moves \in Nat /\ input \in Metas /\ bytes \in [Paths -> Nat] /\ built \in Nat
  /\ handles \in Seq(Handles) /\ resident \in {0} \cup DOMAIN handles
CallTypes ==
  /\ pc \in [Callers -> Steps]
  /\ DOMAIN call = Callers /\ \A c \in Callers : DOMAIN call[c] = DOMAIN Idle

(* An entry answers exactly what its key says, through the handle it is     *)
(* kept in; a stamp is what was read, unless Lake's files moved meanwhile. *)
TrueEntries(h) ==
  {e \in Entries :
    /\ e.key = <<e.answer.path, e.answer.bytes, e.answer.question, e.answer.budgets>>
    /\ e.answer.handle = h}
HandlesTrue ==
  \A h \in DOMAIN handles : handles[h].module_queries \in Seq(TrueEntries(h))
MetaCacheTrue ==
  meta_cache = NoMeta \/
    /\ meta_cache.meta \in Metas
    /\ ~MovesUnderBuild => meta_cache.stamp = meta_cache.meta
CachesTrue == HandlesTrue /\ MetaCacheTrue

Holding(step) == step \in {"lookup", "process", "insert", "answered"}

AskedTrue(c) ==
  /\ call[c].path \in Paths /\ call[c].question \in Questions /\ call[c].budgets \in Budgets
  /\ call[c].hash \in Nat
  /\ input \in call[c].seen /\ call[c].seen \subseteq Metas
(* What has been read so far is what the files still say. *)
ReadTrue(c) ==
  /\ call[c].read \in Seq(Nat)
  /\ Len(call[c].read) <= Len(InputFiles)
  /\ ~MovesUnderBuild => \A i \in 1..Len(call[c].read) : call[c].read[i] = input[InputFiles[i]]
(* The handle a call holds, and the manifests it may have been opened under. *)
SeenManifests(c) == {m[Manifest] : m \in call[c].seen}
HandleTrue(c) ==
  /\ call[c].handle \in DOMAIN handles
  /\ MovesUnderBuild \/ call[c].lost_race
     \/ handles[call[c].handle].manifest \in SeenManifests(c)
(* Before it holds one: the one it is about to compare, or none.            *)
HandleFound(c) == call[c].handle \in {0} \cup DOMAIN handles
MetaTrue(c) ==
  /\ call[c].meta \in Metas
  /\ ~MovesUnderBuild => call[c].meta \in call[c].seen
AnswerTrue(c, a) ==
  /\ a \in Answers /\ a.handle = call[c].handle
  /\ a.path = call[c].path /\ a.bytes = call[c].hash
  /\ a.question = call[c].question /\ a.budgets = call[c].budgets

CallTrue(c) ==
  /\ pc[c] # "idle" => AskedTrue(c)
  /\ pc[c] \in {"meta", "put", "read", "acquire", "compare", "open"} => call[c].read = <<>>
  /\ pc[c] = "build" => ReadTrue(c) /\ Len(call[c].read) < Len(InputFiles)
  /\ pc[c] = "stamp" => ReadTrue(c) /\ Len(call[c].read) = Len(InputFiles)
  /\ pc[c] = "put" /\ ~MovesUnderBuild => call[c].stamp = call[c].meta
  /\ pc[c] \in {"put", "read", "compare"} => MetaTrue(c)
  /\ pc[c] \in {"meta", "build", "stamp", "put"} => HandleFound(c)
  /\ pc[c] \in {"read", "acquire"} => call[c].handle = 0
  /\ pc[c] = "compare" => call[c].handle \in DOMAIN handles
  /\ pc[c] = "install" => \E m \in SeenManifests(c) : call[c].read = <<m>>
  /\ Holding(pc[c]) => HandleTrue(c)
  /\ pc[c] = "insert" => AnswerTrue(c, call[c].computed)
  /\ pc[c] = "answered" => AnswerTrue(c, call[c].answer)

IInv == WorldTypes /\ CallTypes /\ CachesTrue /\ \A c \in Callers : CallTrue(c)
-----------------------------------------------------------------------------
(* The lists a handle keeps: whatever is put in, and whatever is dropped    *)
(* for it, only entries that are true come to stand there.                 *)
LEMMA AppendKeeps ==
  ASSUME NEW T, NEW s \in Seq(T), NEW e \in T
  PROVE  Append(s, e) \in Seq(T)
OBVIOUS

LEMMA PutKeeps ==
  ASSUME NEW T, NEW s \in Seq(T), NEW e \in T
  PROVE  Put(s, e) \in Seq(T)
<1>1. CASE Len(s) < Capacity BY <1>1, AppendKeeps DEF Put
<1>2. CASE ~(Len(s) < Capacity)
  <2>1. s # <<>> BY <1>2, CacheConstants
  <2>2. Tail(s) \in Seq(T) BY <2>1
  <2>3. QED BY <1>2, <2>2, AppendKeeps DEF Put
<1>3. QED BY <1>1, <1>2

LEMMA RemoveKeeps ==
  ASSUME NEW T, NEW s \in Seq(T), NEW i \in DOMAIN s
  PROVE  RemoveAt(s, i) \in Seq(T)
<1>1. SubSeq(s, 1, i - 1) \in Seq(T) OBVIOUS
<1>2. SubSeq(s, i + 1, Len(s)) \in Seq(T) OBVIOUS
<1>3. QED BY <1>1, <1>2 DEF RemoveAt

LEMMA OthersKeep ==
  ASSUME NEW T, NEW c, Cache(c) \in Seq(T)
  PROVE  Others(c) \in Seq(T)
<1>1. CASE Found(c) = {} BY <1>1 DEF Others
<1>2. CASE Found(c) # {}
  <2>1. Where(c) \in DOMAIN Cache(c) BY <1>2 DEF Where, Found
  <2>2. QED BY <1>2, <2>1, RemoveKeeps DEF Others
<1>3. QED BY <1>1, <1>2

(* Handles are only ever added, each with the manifest it was opened under. *)
HandlesStand ==
  /\ DOMAIN handles \subseteq DOMAIN handles'
  /\ \A h \in DOMAIN handles : handles'[h].manifest = handles[h].manifest

LEMMA StoreIsTrue ==
  ASSUME IInv, NEW c \in Callers, HandleTrue(c),
         NEW entries \in Seq(TrueEntries(call[c].handle)), Store(c, entries)
  PROVE  (handles \in Seq(Handles))' /\ HandlesTrue' /\ HandlesStand
<1> DEFINE h == call[c].handle
<1>1. h \in DOMAIN handles /\ handles \in Seq(Handles)
  BY DEF HandleTrue, IInv, WorldTypes
<1>2. entries \in Seq(Entries) BY DEF TrueEntries
<1>3. [handles[h] EXCEPT !.module_queries = entries] \in Handles
  <2>1. handles[h] \in Handles BY <1>1
  <2>2. ASSUME NEW S, NEW e \in S, NEW r \in [manifest : Nat, module_queries : S]
        PROVE  [r EXCEPT !.module_queries = e] \in [manifest : Nat, module_queries : S]
    OBVIOUS
  <2>3. QED BY <1>2, <2>1, <2>2 DEF Handles
<1>4. handles' = [handles EXCEPT ![h] = [handles[h] EXCEPT !.module_queries = entries]]
  BY DEF Store
<1>5. handles' \in Seq(Handles) /\ DOMAIN handles' = DOMAIN handles
  BY <1>1, <1>3, <1>4
<1>6. \A g \in DOMAIN handles :
        /\ handles'[g].manifest = handles[g].manifest
        /\ handles'[g].module_queries = IF g = h THEN entries ELSE handles[g].module_queries
  BY <1>1, <1>4 DEF Handles
<1>7. \A g \in DOMAIN handles' : handles'[g].module_queries \in Seq(TrueEntries(g))
  <2> HIDE DEF h
  <2>1. \A g \in DOMAIN handles : handles[g].module_queries \in Seq(TrueEntries(g))
    BY DEF IInv, CachesTrue, HandlesTrue
  <2>2. entries \in Seq(TrueEntries(h)) BY DEF h
  <2>3. QED BY <1>5, <1>6, <2>1, <2>2
<1>8. QED BY <1>5, <1>6, <1>7 DEF HandlesStand, HandlesTrue, TrueEntries, Answers, Entries

(* A caller whose own step this is not keeps what it had.                   *)
LEMMA Bystander ==
  ASSUME IInv, NEW d \in Callers, pc'[d] = pc[d], call'[d] = call[d],
         UNCHANGED input, HandlesStand
  PROVE  CallTrue(d)'
<1>1. CallTrue(d) BY DEF IInv
<1>2. AskedTrue(d) => AskedTrue(d)' BY DEF AskedTrue
<1>3. ReadTrue(d) => ReadTrue(d)' BY DEF ReadTrue
<1>4. HandleTrue(d) => HandleTrue(d)' BY DEF HandleTrue, HandlesStand, SeenManifests
<1>5. /\ HandleFound(d) => HandleFound(d)'
      /\ MetaTrue(d) => MetaTrue(d)'
      /\ SeenManifests(d)' = SeenManifests(d)
      /\ call[d].handle \in DOMAIN handles => call'[d].handle \in DOMAIN handles'
  BY DEF HandleFound, MetaTrue, SeenManifests, HandlesStand
<1>6. AnswerTrue(d, call[d].computed) => AnswerTrue(d, call[d].computed)' BY DEF AnswerTrue
<1>7. AnswerTrue(d, call[d].answer) => AnswerTrue(d, call[d].answer)' BY DEF AnswerTrue
<1>8. QED BY <1>1, <1>2, <1>3, <1>4, <1>5, <1>6, <1>7 DEF CallTrue

LEMMA CallerMoves ==
  ASSUME IInv, NEW c \in Callers,
         \A d \in Callers : d # c => pc'[d] = pc[d] /\ call'[d] = call[d],
         UNCHANGED input, HandlesStand,
         WorldTypes', CallTypes', CachesTrue', CallTrue(c)'
  PROVE  IInv'
<1>1. \A d \in Callers \ {c} : CallTrue(d)'
  <2>1. TAKE d \in Callers \ {c}
  <2>2. QED BY Bystander
<1>2. QED BY <1>1 DEF IInv

(* A step that touches no cache and nothing on disk, and opens nothing.     *)
LEMMA QuietMove ==
  ASSUME IInv, NEW c \in Callers,
         \A d \in Callers : d # c => pc'[d] = pc[d] /\ call'[d] = call[d],
         UNCHANGED <<diskVars, meta_cache, handles>>, resident' \in {0, resident},
         CallTypes', CallTrue(c)'
  PROVE  IInv'
<1>1. HandlesStand BY DEF HandlesStand
<1>2. WorldTypes' BY DEF IInv, WorldTypes, diskVars
<1>3. CachesTrue' BY DEF IInv, CachesTrue, HandlesTrue, MetaCacheTrue
<1>4. QED BY <1>1, <1>2, <1>3, CallerMoves DEF diskVars

LEMMA HangupMoves ==
  ASSUME IInv, NEW c \in Callers, Hangup(c), UNCHANGED <<diskVars, meta_cache, poolVars>>
  PROVE  IInv'
<1>1. CallTypes' /\ pc'[c] = "idle" BY DEF IInv, CallTypes, Hangup, Goto, Steps
<1>2. \A d \in Callers : d # c => pc'[d] = pc[d] /\ call'[d] = call[d]
  BY DEF IInv, CallTypes, Hangup, Goto
<1>3. CallTrue(c)' BY <1>1 DEF CallTrue, Holding
<1>4. QED BY <1>1, <1>2, <1>3, QuietMove DEF poolVars

-----------------------------------------------------------------------------
LEMMA InputsRead ==
  /\ \A i \in 1..Len(InputFiles) : InputFiles[i] \in Inputs
  /\ \A f \in Inputs : \E i \in 1..Len(InputFiles) : InputFiles[i] = f
  /\ Manifest \in Inputs /\ Len(InputFiles) \in Nat \ {0}
<1>1. InputFiles \in Seq(Inputs) /\ Manifest \in Inputs BY CacheConstants
<1>2. Inputs = {InputFiles[i] : i \in DOMAIN InputFiles} BY DEF Inputs, Range
<1>3. DOMAIN InputFiles = 1..Len(InputFiles) /\ Len(InputFiles) \in Nat BY <1>1
<1>4. \A f \in Inputs : \E i \in 1..Len(InputFiles) : InputFiles[i] = f BY <1>2, <1>3
<1>5. QED BY <1>1, <1>3, <1>4

LEMMA StampIsInput ==
  ASSUME input \in Metas, NEW m
  PROVE  input_stamp(m) = input
BY DEF Metas, input_stamp

LEMMA BeginCallKeeps ==
  ASSUME IInv, NEW c \in Callers, BeginCall(c)
  PROVE  IInv'
<1>1. PICK p \in Paths, q \in Questions, b \in Budgets :
        call' = [call EXCEPT ![c] = [Idle EXCEPT !.path = p, !.question = q, !.budgets = b,
                                                 !.seen = {FreshMeta}]]
  BY DEF BeginCall
<1>2. pc' = [pc EXCEPT ![c] = "meta"] /\ UNCHANGED <<diskVars, meta_cache, handles, resident>>
  BY DEF BeginCall, Goto, poolVars
<1>3. /\ call'[c].path = p /\ call'[c].question = q /\ call'[c].budgets = b
      /\ call'[c].seen = {input} /\ call'[c].read = <<>> /\ call'[c].hash = 0
      /\ call'[c].handle = 0
  BY <1>1 DEF IInv, CallTypes, Idle, FreshMeta
<1>4. CallTypes' /\ pc'[c] = "meta" BY <1>1, <1>2 DEF IInv, CallTypes, Steps, Idle
<1>5. \A d \in Callers : d # c => pc'[d] = pc[d] /\ call'[d] = call[d]
  BY <1>1, <1>2 DEF IInv, CallTypes
<1>6. AskedTrue(c)' BY <1>2, <1>3 DEF AskedTrue, IInv, WorldTypes, diskVars
<1>7. CallTrue(c)' BY <1>3, <1>4, <1>6 DEF CallTrue, Holding, HandleFound
<1>8. QED BY <1>2, <1>4, <1>5, <1>7, QuietMove

(* Where ProjectBroker::meta returns to: the handler, which holds no handle *)
(* yet, or acquire, which holds the one it compares.                       *)
LEMMA GoesOn ==
  ASSUME NEW c \in Callers, HandleFound(c),
         pc'[c] = Then(c), call'[c].handle = call[c].handle, call'[c].read = <<>>,
         UNCHANGED handles, AskedTrue(c)', MetaTrue(c)'
  PROVE  CallTrue(c)'
<1>1. CASE call[c].handle = 0 BY <1>1 DEF CallTrue, Holding, Then
<1>2. CASE call[c].handle # 0
  <2>1. call'[c].handle \in DOMAIN handles' BY <1>2 DEF HandleFound
  <2>2. QED BY <1>2, <2>1 DEF CallTrue, Holding, Then
<1>3. QED BY <1>1, <1>2

LEMMA MetaHitKeeps ==
  ASSUME IInv, NEW c \in Callers, MetaHit(c)
  PROVE  IInv'
<1>1. /\ pc' = [pc EXCEPT ![c] = Then(c)]
      /\ UNCHANGED <<diskVars, meta_cache, handles, resident>>
      /\ call' = [call EXCEPT ![c].meta = meta_cache.meta]
      /\ pc[c] = "meta" /\ meta_cache # NoMeta
      /\ meta_cache.stamp = input_stamp(meta_cache.meta)
  BY DEF MetaHit, Goto, poolVars
<1>2. CallTypes' /\ pc'[c] = Then(c) BY <1>1 DEF IInv, CallTypes, Steps, Then
<1>3. \A d \in Callers : d # c => pc'[d] = pc[d] /\ call'[d] = call[d]
  BY <1>1 DEF IInv, CallTypes
<1>4. AskedTrue(c) /\ HandleFound(c) /\ call[c].read = <<>>
  BY <1>1 DEF IInv, CallTrue
<1>5. /\ call'[c].meta = meta_cache.meta
      /\ \A field \in DOMAIN Idle \ {"meta"} : call'[c][field] = call[c][field]
  BY <1>1 DEF Idle, IInv, CallTypes
<1>6. /\ call'[c].path = call[c].path /\ call'[c].question = call[c].question
      /\ call'[c].budgets = call[c].budgets /\ call'[c].hash = call[c].hash
      /\ call'[c].seen = call[c].seen /\ call'[c].handle = call[c].handle
      /\ call'[c].read = <<>>
  BY <1>4, <1>5 DEF Idle
<1>7. AskedTrue(c)' BY <1>1, <1>4, <1>6 DEF AskedTrue, diskVars
<1>8. ~MovesUnderBuild => meta_cache.meta = input
  BY <1>1, StampIsInput DEF IInv, CachesTrue, MetaCacheTrue, WorldTypes
<1>9. MetaTrue(c)'
  BY <1>1, <1>4, <1>5, <1>6, <1>8 DEF MetaTrue, AskedTrue, IInv, CachesTrue, MetaCacheTrue
<1>10. CallTrue(c)' BY <1>1, <1>2, <1>4, <1>6, <1>7, <1>9, GoesOn
<1>11. QED BY <1>1, <1>2, <1>3, <1>10, QuietMove

LEMMA MetaMissKeeps ==
  ASSUME IInv, NEW c \in Callers, MetaMiss(c)
  PROVE  IInv'
<1>1. /\ pc' = [pc EXCEPT ![c] = "build"] /\ UNCHANGED <<diskVars, meta_cache, handles, resident, call>>
      /\ pc[c] = "meta"
  BY DEF MetaMiss, Goto, poolVars
<1>2. CallTypes' /\ pc'[c] = "build" BY <1>1 DEF IInv, CallTypes, Steps
<1>3. AskedTrue(c)' /\ call'[c].read = <<>> /\ HandleFound(c)'
  BY <1>1 DEF IInv, CallTrue, AskedTrue, HandleFound, diskVars
<1>4. ReadTrue(c)' BY <1>3, InputsRead DEF ReadTrue
<1>5. CallTrue(c)' BY <1>2, <1>3, <1>4, InputsRead DEF CallTrue, Holding
<1>6. QED BY <1>1, <1>2, <1>5, QuietMove DEF IInv, CallTypes

LEMMA BuildReadsKeeps ==
  ASSUME IInv, NEW c \in Callers, BuildReads(c)
  PROVE  IInv'
<1> DEFINE n == Len(call[c].read) + 1
           f == InputFiles[n]
           step == IF n = Len(InputFiles) THEN "stamp" ELSE "build"
<1>1. /\ pc' = [pc EXCEPT ![c] = step] /\ UNCHANGED <<diskVars, meta_cache, handles, resident>>
      /\ call' = [call EXCEPT ![c].read = Append(@, input[f])]
      /\ pc[c] = "build"
  BY DEF BuildReads, Goto, poolVars
<1>2. AskedTrue(c) /\ ReadTrue(c) /\ Len(call[c].read) < Len(InputFiles) /\ HandleFound(c)
  BY <1>1 DEF IInv, CallTrue
<1>3. CallTypes' /\ pc'[c] = step BY <1>1 DEF IInv, CallTypes, Steps
<1>4. \A d \in Callers : d # c => pc'[d] = pc[d] /\ call'[d] = call[d]
  BY <1>1 DEF IInv, CallTypes
<1>5. call'[c] = [call[c] EXCEPT !.read = Append(call[c].read, input[f])]
  BY <1>1 DEF IInv, CallTypes
<1>6. call'[c].read = Append(call[c].read, input[f]) /\ AskedTrue(c)' /\ HandleFound(c)'
  BY <1>1, <1>2, <1>5 DEF AskedTrue, HandleFound, Idle, IInv, CallTypes, diskVars
<1>7. ReadTrue(c)' /\ Len(call'[c].read) = n
  <2>1. n \in 1..Len(InputFiles) /\ call[c].read \in Seq(Nat)
    BY <1>2, InputsRead DEF ReadTrue
  <2>2. input[f] \in Nat BY <2>1, InputsRead DEF IInv, WorldTypes, Metas
  <2>3. call'[c].read \in Seq(Nat) /\ Len(call'[c].read) = n BY <1>6, <2>1, <2>2
  <2>4. ASSUME ~MovesUnderBuild, NEW i \in 1..Len(call'[c].read)
        PROVE  call'[c].read[i] = input'[InputFiles[i]]
    BY <1>1, <1>2, <1>6, <2>1, <2>2, <2>3, <2>4 DEF ReadTrue, diskVars
  <2>5. QED BY <2>1, <2>3, <2>4 DEF ReadTrue
<1>8. CallTrue(c)'
  <2>1. CASE n = Len(InputFiles) BY <1>3, <1>6, <1>7, <2>1 DEF CallTrue, Holding
  <2>2. CASE n # Len(InputFiles)
    <3>1. Len(call'[c].read) < Len(InputFiles)
      BY <1>2, <1>7, <2>2, InputsRead DEF ReadTrue
    <3>2. QED BY <1>3, <1>6, <1>7, <2>2, <3>1 DEF CallTrue, Holding
  <2>3. QED BY <2>1, <2>2
<1>9. QED BY <1>1, <1>3, <1>4, <1>8, QuietMove

LEMMA StampMetaKeeps ==
  ASSUME IInv, NEW c \in Callers, StampMeta(c)
  PROVE  IInv'
<1> DEFINE built_meta == BuiltMeta(c)
<1>1. /\ pc' = [pc EXCEPT ![c] = "put"] /\ UNCHANGED <<diskVars, meta_cache, handles, resident>>
      /\ call' = [call EXCEPT ![c].read = <<>>, ![c].meta = built_meta,
                              ![c].stamp = input_stamp(built_meta)]
      /\ pc[c] = "stamp"
  BY DEF StampMeta, Goto, poolVars
<1>2. AskedTrue(c) /\ ReadTrue(c) /\ Len(call[c].read) = Len(InputFiles) /\ HandleFound(c)
  BY <1>1 DEF IInv, CallTrue
<1>3. CallTypes' /\ pc'[c] = "put" BY <1>1 DEF IInv, CallTypes, Steps
<1>4. \A d \in Callers : d # c => pc'[d] = pc[d] /\ call'[d] = call[d]
  BY <1>1 DEF IInv, CallTypes
<1>5. /\ call'[c].meta = built_meta /\ call'[c].stamp = input_stamp(built_meta)
      /\ call'[c].seen = call[c].seen /\ call'[c].read = <<>>
      /\ AskedTrue(c)' /\ HandleFound(c)'
  <2> HIDE DEF built_meta
  <2>1. QED BY <1>1, <1>2 DEF AskedTrue, HandleFound, Idle, IInv, CallTypes, diskVars
<1>6. \A g \in Inputs : LET i == CHOOSE i \in 1..Len(InputFiles) : InputFiles[i] = g
                        IN  i \in 1..Len(InputFiles) /\ InputFiles[i] = g
  BY InputsRead
<1>7. built_meta \in Metas
  <2>1. \A i \in 1..Len(InputFiles) : call[c].read[i] \in Nat BY <1>2 DEF ReadTrue
  <2>2. QED BY <1>6, <2>1 DEF BuiltMeta, Metas
<1>8. ~MovesUnderBuild => built_meta = input
  BY <1>2, <1>6 DEF BuiltMeta, ReadTrue, IInv, WorldTypes, Metas
<1>9. input_stamp(built_meta) = input BY StampIsInput DEF IInv, WorldTypes
<1>10. CallTrue(c)'
  <2> HIDE DEF built_meta
  <2>1. MetaTrue(c)' BY <1>1, <1>5, <1>7, <1>8 DEF MetaTrue, AskedTrue, diskVars
  <2>2. QED BY <1>2, <1>3, <1>5, <1>8, <1>9, <2>1 DEF CallTrue, Holding
<1>11. QED BY <1>1, <1>3, <1>4, <1>10, QuietMove

LEMMA PutMetaKeeps ==
  ASSUME IInv, NEW c \in Callers, PutMeta(c)
  PROVE  IInv'
<1>1. /\ pc' = [pc EXCEPT ![c] = Then(c)] /\ UNCHANGED <<diskVars, handles, resident>>
      /\ meta_cache' = [stamp |-> call[c].stamp, meta |-> call[c].meta]
      /\ call' = [call EXCEPT ![c].stamp = <<>>]
      /\ pc[c] = "put"
  BY DEF PutMeta, Goto, poolVars
<1>2. /\ AskedTrue(c) /\ HandleFound(c) /\ MetaTrue(c) /\ call[c].read = <<>>
      /\ ~MovesUnderBuild => call[c].stamp = call[c].meta
  BY <1>1 DEF IInv, CallTrue
<1>3. CallTypes' /\ pc'[c] = Then(c) BY <1>1 DEF IInv, CallTypes, Steps, Then
<1>4. \A d \in Callers : d # c => pc'[d] = pc[d] /\ call'[d] = call[d]
  BY <1>1 DEF IInv, CallTypes
<1>5. \A field \in DOMAIN Idle \ {"stamp"} : call'[c][field] = call[c][field]
  BY <1>1 DEF Idle, IInv, CallTypes
<1>6. /\ call'[c].path = call[c].path /\ call'[c].question = call[c].question
      /\ call'[c].budgets = call[c].budgets /\ call'[c].hash = call[c].hash
      /\ call'[c].seen = call[c].seen /\ call'[c].handle = call[c].handle
      /\ call'[c].read = <<>> /\ call'[c].meta = call[c].meta
  BY <1>2, <1>5 DEF Idle
<1>7. AskedTrue(c)' /\ MetaTrue(c)' BY <1>1, <1>2, <1>6 DEF AskedTrue, MetaTrue, diskVars
<1>8. CallTrue(c)' BY <1>1, <1>2, <1>3, <1>6, <1>7, GoesOn
<1>9. CachesTrue' BY <1>1, <1>2 DEF IInv, CachesTrue, HandlesTrue, MetaCacheTrue, MetaTrue
<1>10. WorldTypes' /\ HandlesStand BY <1>1 DEF IInv, WorldTypes, diskVars, HandlesStand
<1>11. QED BY <1>1, <1>3, <1>4, <1>8, <1>9, <1>10, CallerMoves DEF diskVars

LEMMA MetaKeeps ==
  ASSUME IInv, NEW c \in Callers, Meta(c)
  PROVE  IInv'
<1>1. CASE BuildFails(c) BY <1>1, HangupMoves DEF BuildFails
<1>2. QED BY <1>1, MetaHitKeeps, MetaMissKeeps, BuildReadsKeeps, StampMetaKeeps, PutMetaKeeps
          DEF Meta
-----------------------------------------------------------------------------
LEMMA ReadQueryFileKeeps ==
  ASSUME IInv, NEW c \in Callers, ReadQueryFile(c)
  PROVE  IInv'
<1>1. /\ pc' = [pc EXCEPT ![c] = "acquire"] /\ UNCHANGED <<diskVars, meta_cache, handles, resident>>
      /\ call' = [call EXCEPT ![c].meta = <<>>, ![c].hash = bytes[call[c].path]]
      /\ pc[c] = "read"
  BY DEF ReadQueryFile, Goto, poolVars
<1>2. AskedTrue(c) /\ call[c].read = <<>> /\ call[c].handle = 0 BY <1>1 DEF IInv, CallTrue
<1>3. CallTypes' /\ pc'[c] = "acquire" BY <1>1 DEF IInv, CallTypes, Steps
<1>4. \A d \in Callers : d # c => pc'[d] = pc[d] /\ call'[d] = call[d]
  BY <1>1 DEF IInv, CallTypes
<1>5. bytes[call[c].path] \in Nat BY <1>2 DEF AskedTrue, IInv, WorldTypes
<1>6. AskedTrue(c)' /\ call'[c].read = <<>> /\ call'[c].handle = 0
  BY <1>1, <1>2, <1>5 DEF AskedTrue, Idle, IInv, CallTypes, diskVars
<1>7. CallTrue(c)' BY <1>3, <1>6 DEF CallTrue, Holding
<1>8. QED BY <1>1, <1>3, <1>4, <1>7, QuietMove

LEMMA FindResidentKeeps ==
  ASSUME IInv, NEW c \in Callers, FindResident(c)
  PROVE  IInv'
<1>1. /\ pc' = [pc EXCEPT ![c] = "meta"]
      /\ UNCHANGED <<diskVars, meta_cache, handles, resident>>
      /\ call' = [call EXCEPT ![c].handle = resident]
      /\ pc[c] = "acquire"
  BY DEF FindResident, Goto, poolVars
<1>2. AskedTrue(c) /\ call[c].read = <<>> BY <1>1 DEF IInv, CallTrue
<1>3. CallTypes' /\ pc'[c] = "meta" BY <1>1 DEF IInv, CallTypes, Steps
<1>4. \A d \in Callers : d # c => pc'[d] = pc[d] /\ call'[d] = call[d]
  BY <1>1 DEF IInv, CallTypes
<1>5. AskedTrue(c)' /\ call'[c].read = <<>> /\ call'[c].handle = resident
  BY <1>1, <1>2 DEF AskedTrue, Idle, IInv, CallTypes, diskVars
<1>6. HandleFound(c)' BY <1>1, <1>5 DEF HandleFound, IInv, WorldTypes
<1>7. CallTrue(c)' BY <1>3, <1>5, <1>6 DEF CallTrue, Holding
<1>8. QED BY <1>1, <1>3, <1>4, <1>7, QuietMove

(* Nothing to reuse: it looks again once it has the lock, and then opens.   *)
LEMMA LookAgainOrOpenKeeps ==
  ASSUME IInv, NEW c \in Callers, pc[c] \in {"acquire", "compare"}, LookAgainOrOpen(c),
         UNCHANGED <<diskVars, meta_cache, handles>>, resident' \in {0, resident}
  PROVE  IInv'
<1> DEFINE step == IF call[c].locked THEN "open" ELSE "acquire"
<1>1. /\ pc' = [pc EXCEPT ![c] = step]
      /\ call' = [call EXCEPT ![c].handle = 0, ![c].meta = <<>>, ![c].locked = TRUE]
  BY DEF LookAgainOrOpen, Goto
<1>2. AskedTrue(c) /\ call[c].read = <<>> BY DEF IInv, CallTrue
<1>3. CallTypes' /\ pc'[c] = step BY <1>1 DEF IInv, CallTypes, Steps
<1>4. \A d \in Callers : d # c => pc'[d] = pc[d] /\ call'[d] = call[d]
  BY <1>1 DEF IInv, CallTypes
<1>5. AskedTrue(c)' /\ call'[c].read = <<>> /\ call'[c].handle = 0
  BY <1>1, <1>2 DEF AskedTrue, Idle, IInv, CallTypes, diskVars
<1>6. CallTrue(c)' BY <1>3, <1>5 DEF CallTrue, Holding
<1>7. QED BY <1>3, <1>4, <1>6, QuietMove

LEMMA ReuseKeeps ==
  ASSUME IInv, NEW c \in Callers, Reuse(c)
  PROVE  IInv'
<1>1. /\ pc' = [pc EXCEPT ![c] = "lookup"]
      /\ UNCHANGED <<diskVars, meta_cache, handles, resident>>
      /\ call' = [call EXCEPT ![c].meta = <<>>, ![c].locked = FALSE]
      /\ pc[c] = "compare" /\ handles[call[c].handle].manifest = call[c].meta[Manifest]
  BY DEF Reuse, Reusable, Goto, poolVars
<1>2. AskedTrue(c) /\ MetaTrue(c) /\ call[c].handle \in DOMAIN handles
  BY <1>1 DEF IInv, CallTrue
<1>3. CallTypes' /\ pc'[c] = "lookup" BY <1>1 DEF IInv, CallTypes, Steps
<1>4. \A d \in Callers : d # c => pc'[d] = pc[d] /\ call'[d] = call[d]
  BY <1>1 DEF IInv, CallTypes
<1>5. call'[c].handle = call[c].handle /\ call'[c].seen = call[c].seen /\ AskedTrue(c)'
  BY <1>1, <1>2 DEF AskedTrue, Idle, IInv, CallTypes, diskVars
<1>6. ~MovesUnderBuild => handles[call[c].handle].manifest \in SeenManifests(c)
  BY <1>1, <1>2 DEF MetaTrue, SeenManifests
<1>7. HandleTrue(c)' BY <1>1, <1>2, <1>5, <1>6 DEF HandleTrue, SeenManifests
<1>8. CallTrue(c)' BY <1>3, <1>5, <1>7 DEF CallTrue, Holding
<1>9. QED BY <1>1, <1>3, <1>4, <1>8, QuietMove

(* What a fresh open reads is what the file says at that moment.            *)
LEMMA OpenReadsKeeps ==
  ASSUME IInv, NEW c \in Callers, OpenReads(c)
  PROVE  IInv'
<1>1. /\ pc' = [pc EXCEPT ![c] = "install"]
      /\ UNCHANGED <<diskVars, meta_cache, handles, resident>>
      /\ call' = [call EXCEPT ![c].read = <<input[Manifest]>>]
      /\ pc[c] = "open"
  BY DEF OpenReads, Goto, poolVars
<1>2. AskedTrue(c) BY <1>1 DEF IInv, CallTrue
<1>3. CallTypes' /\ pc'[c] = "install" BY <1>1 DEF IInv, CallTypes, Steps
<1>4. \A d \in Callers : d # c => pc'[d] = pc[d] /\ call'[d] = call[d]
  BY <1>1 DEF IInv, CallTypes
<1>5. AskedTrue(c)' /\ call'[c].seen = call[c].seen /\ call'[c].read = <<input[Manifest]>>
  BY <1>1, <1>2 DEF AskedTrue, Idle, IInv, CallTypes, diskVars
<1>6. input[Manifest] \in SeenManifests(c)' BY <1>2, <1>5 DEF SeenManifests, AskedTrue
<1>7. CallTrue(c)' BY <1>3, <1>5, <1>6 DEF CallTrue, Holding
<1>8. QED BY <1>1, <1>3, <1>4, <1>7, QuietMove

LEMMA RegisterKeeps ==
  ASSUME IInv, NEW c \in Callers, Register(c)
  PROVE  IInv'
<1> DEFINE new == [manifest |-> call[c].read[1], module_queries |-> <<>>]
<1>1. /\ pc' = [pc EXCEPT ![c] = "lookup"] /\ UNCHANGED <<diskVars, meta_cache>>
      /\ call' = [call EXCEPT ![c].read = <<>>, ![c].locked = FALSE,
                              ![c].handle = Len(handles) + 1]
      /\ handles' = Append(handles, new) /\ resident' = Len(handles) + 1
      /\ pc[c] = "install"
  BY DEF Register, Goto
<1>2. AskedTrue(c) /\ \E m \in SeenManifests(c) : call[c].read = <<m>>
  BY <1>1 DEF IInv, CallTrue
<1>3. CallTypes' /\ pc'[c] = "lookup" BY <1>1 DEF IInv, CallTypes, Steps
<1>4. \A d \in Callers : d # c => pc'[d] = pc[d] /\ call'[d] = call[d]
  BY <1>1 DEF IInv, CallTypes
<1>5. call'[c].handle = Len(handles) + 1 /\ call'[c].seen = call[c].seen /\ AskedTrue(c)'
  BY <1>1, <1>2 DEF AskedTrue, Idle, IInv, CallTypes, diskVars
<1>6. new \in Handles /\ new.manifest \in SeenManifests(c)
  <2>1. PICK m \in SeenManifests(c) : call[c].read = <<m>> BY <1>2
  <2>2. m \in Nat BY <1>2, <2>1, InputsRead DEF SeenManifests, AskedTrue, Metas
  <2>3. QED BY <2>1, <2>2 DEF Handles
<1>7. /\ handles \in Seq(Handles) /\ handles' \in Seq(Handles)
      /\ Len(handles') = Len(handles) + 1 /\ handles'[Len(handles) + 1] = new
      /\ \A h \in DOMAIN handles : handles'[h] = handles[h]
  <2> HIDE DEF new
  <2>1. QED BY <1>1, <1>6 DEF IInv, WorldTypes
<1>8. HandlesStand BY <1>7 DEF HandlesStand
<1>9. HandlesTrue'
  <2>1. ASSUME NEW h \in DOMAIN handles'
        PROVE  handles'[h].module_queries \in Seq(TrueEntries(h))
    <3>1. CASE h \in DOMAIN handles
      BY <1>7, <3>1 DEF IInv, CachesTrue, HandlesTrue
    <3>2. CASE h = Len(handles) + 1
      <4>1. handles'[h].module_queries = <<>> BY <1>7, <3>2
      <4>2. QED BY <4>1
    <3>3. QED BY <1>7, <2>1, <3>1, <3>2
  <2>2. QED BY <2>1 DEF HandlesTrue, TrueEntries, Entries, Answers
<1>10. WorldTypes' /\ CachesTrue'
  <2>1. resident' \in DOMAIN handles' BY <1>1, <1>7
  <2>2. QED BY <1>1, <1>7, <1>9, <2>1 DEF IInv, WorldTypes, diskVars, CachesTrue, MetaCacheTrue
<1>11. HandleTrue(c)'
  <2>1. call'[c].handle \in DOMAIN handles' BY <1>5, <1>7
  <2>2. handles'[call'[c].handle].manifest \in SeenManifests(c)'
    BY <1>5, <1>6, <1>7 DEF SeenManifests
  <2>3. QED BY <2>1, <2>2 DEF HandleTrue
<1>12. CallTrue(c)' BY <1>3, <1>5, <1>11 DEF CallTrue, Holding
<1>13. QED BY <1>1, <1>3, <1>4, <1>8, <1>10, <1>12, CallerMoves DEF diskVars

LEMMA LoseRaceKeeps ==
  ASSUME IInv, NEW c \in Callers, LoseRace(c)
  PROVE  IInv'
<1>1. /\ pc' = [pc EXCEPT ![c] = "lookup"]
      /\ UNCHANGED <<diskVars, meta_cache, handles, resident>>
      /\ call' = [call EXCEPT ![c].read = <<>>, ![c].locked = FALSE, ![c].handle = resident,
                              ![c].lost_race = TRUE]
      /\ pc[c] = "install" /\ resident # 0
  BY DEF LoseRace, Goto, poolVars
<1>2. AskedTrue(c) BY <1>1 DEF IInv, CallTrue
<1>3. CallTypes' /\ pc'[c] = "lookup" BY <1>1 DEF IInv, CallTypes, Steps
<1>4. \A d \in Callers : d # c => pc'[d] = pc[d] /\ call'[d] = call[d]
  BY <1>1 DEF IInv, CallTypes
<1>5. call'[c].handle = resident /\ call'[c].lost_race /\ AskedTrue(c)'
  BY <1>1, <1>2 DEF AskedTrue, Idle, IInv, CallTypes, diskVars
<1>6. HandleTrue(c)' BY <1>1, <1>5 DEF HandleTrue, IInv, WorldTypes
<1>7. CallTrue(c)' BY <1>3, <1>5, <1>6 DEF CallTrue, Holding
<1>8. QED BY <1>1, <1>3, <1>4, <1>7, QuietMove

LEMMA AcquireKeeps ==
  ASSUME IInv, NEW c \in Callers, Acquire(c)
  PROVE  IInv'
<1>1. CASE OpenFails(c) BY <1>1, HangupMoves DEF OpenFails
<1>2. CASE FindNone(c) BY <1>2, LookAgainOrOpenKeeps DEF FindNone, poolVars
<1>3. CASE Evict(c) BY <1>3, LookAgainOrOpenKeeps DEF Evict
<1>4. QED
  BY <1>1, <1>2, <1>3, FindResidentKeeps, ReuseKeeps, OpenReadsKeeps, RegisterKeeps,
     LoseRaceKeeps DEF Acquire

-----------------------------------------------------------------------------
(* What an answer does for its caller: it leaves what was asked alone.      *)
LEMMA RespondIsTrue ==
  ASSUME IInv, NEW c \in Callers, pc[c] \in {"lookup", "insert"},
         NEW answer, AnswerTrue(c, answer), NEW fresh, Respond(c, answer, fresh),
         UNCHANGED <<diskVars, meta_cache>>,
         handles' \in Seq(Handles), HandlesTrue', HandlesStand, UNCHANGED resident
  PROVE  IInv'
<1>1. /\ pc' = [pc EXCEPT ![c] = "answered"]
      /\ call' = [call EXCEPT ![c].computed = <<>>, ![c].answer = answer,
                              ![c].freshly_processed = fresh]
  BY DEF Respond, Goto
<1>2. AskedTrue(c) /\ HandleTrue(c) BY DEF IInv, CallTrue, Holding
<1>3. CallTypes' /\ pc'[c] = "answered" BY <1>1 DEF IInv, CallTypes, Steps
<1>4. \A d \in Callers : d # c => pc'[d] = pc[d] /\ call'[d] = call[d]
  BY <1>1 DEF IInv, CallTypes
<1>5. /\ call'[c].answer = answer
      /\ \A field \in DOMAIN Idle \ {"computed", "answer", "freshly_processed"} :
           call'[c][field] = call[c][field]
  BY <1>1 DEF Idle, IInv, CallTypes
<1>6. /\ call'[c].path = call[c].path /\ call'[c].question = call[c].question
      /\ call'[c].budgets = call[c].budgets /\ call'[c].hash = call[c].hash
      /\ call'[c].seen = call[c].seen /\ call'[c].handle = call[c].handle
      /\ call'[c].lost_race = call[c].lost_race
  BY <1>5 DEF Idle
<1>7. AskedTrue(c)' BY <1>2, <1>6 DEF AskedTrue, diskVars
<1>8. HandleTrue(c)' BY <1>2, <1>6 DEF HandleTrue, HandlesStand, SeenManifests
<1>9. AnswerTrue(c, call[c].answer)' BY <1>5, <1>6 DEF AnswerTrue, Answers
<1>10. CallTrue(c)' BY <1>3, <1>7, <1>8, <1>9 DEF CallTrue, Holding
<1>11. WorldTypes' /\ CachesTrue'
  BY DEF IInv, WorldTypes, diskVars, CachesTrue, MetaCacheTrue, HandlesStand
<1>12. QED BY <1>3, <1>4, <1>10, <1>11, CallerMoves DEF diskVars

LEMMA HitKeeps ==
  ASSUME IInv, NEW c \in Callers, Hit(c)
  PROVE  IInv'
<1> DEFINE h == call[c].handle
           e == Cache(c)[Where(c)]
<1>1. /\ pc[c] = "lookup" /\ Found(c) # {} /\ UNCHANGED <<diskVars, meta_cache, resident>>
      /\ Store(c, Append(Others(c), e)) /\ Respond(c, e.answer, FALSE)
  BY DEF Hit
<1>2. AskedTrue(c) /\ HandleTrue(c) BY <1>1 DEF IInv, CallTrue, Holding
<1>3. Cache(c) \in Seq(TrueEntries(h))
  BY <1>2 DEF Cache, HandleTrue, IInv, CachesTrue, HandlesTrue
<1>4. Where(c) \in DOMAIN Cache(c) /\ e.key = Key(c) BY <1>1 DEF Where, Found
<1>5. e \in TrueEntries(h) BY <1>3, <1>4
<1>6. AnswerTrue(c, e.answer)
  <2>1. e.answer \in Answers /\ e.answer.handle = h
    BY <1>5 DEF TrueEntries, Entries
  <2>2. Key(c) = <<e.answer.path, e.answer.bytes, e.answer.question, e.answer.budgets>>
    BY <1>4, <1>5 DEF TrueEntries
  <2>3. QED BY <2>1, <2>2 DEF AnswerTrue, Key
<1>7. Append(Others(c), e) \in Seq(TrueEntries(h)) BY <1>3, <1>5, OthersKeep, AppendKeeps
<1>8. QED BY <1>1, <1>2, <1>6, <1>7, StoreIsTrue, RespondIsTrue

LEMMA MissKeeps ==
  ASSUME IInv, NEW c \in Callers, Miss(c)
  PROVE  IInv'
<1>1. /\ pc' = [pc EXCEPT ![c] = "process"] /\ UNCHANGED <<diskVars, meta_cache, handles, resident, call>>
      /\ pc[c] = "lookup"
  BY DEF Miss, Goto, poolVars
<1>2. CallTypes' /\ pc'[c] = "process" BY <1>1 DEF IInv, CallTypes, Steps
<1>3. AskedTrue(c) /\ HandleTrue(c) BY <1>1 DEF IInv, CallTrue, Holding
<1>4. AskedTrue(c)' /\ HandleTrue(c)'
  BY <1>1, <1>3 DEF AskedTrue, HandleTrue, SeenManifests, diskVars
<1>5. CallTrue(c)' BY <1>2, <1>4 DEF CallTrue, Holding
<1>6. QED BY <1>1, <1>2, <1>5, QuietMove DEF IInv, CallTypes

LEMMA ProcessKeeps ==
  ASSUME IInv, NEW c \in Callers, Process(c)
  PROVE  IInv'
<1> DEFINE computed ==
      [path |-> call[c].path, bytes |-> call[c].hash, question |-> call[c].question,
       budgets |-> call[c].budgets, built |-> built, handle |-> call[c].handle]
<1>1. /\ pc' = [pc EXCEPT ![c] = "insert"] /\ UNCHANGED <<diskVars, meta_cache, handles, resident>>
      /\ call' = [call EXCEPT ![c].computed = computed]
      /\ pc[c] = "process"
  BY DEF Process, Goto, poolVars
<1>2. AskedTrue(c) /\ HandleTrue(c) BY <1>1 DEF IInv, CallTrue, Holding
<1>3. CallTypes' /\ pc'[c] = "insert" BY <1>1 DEF IInv, CallTypes, Steps
<1>4. \A d \in Callers : d # c => pc'[d] = pc[d] /\ call'[d] = call[d]
  BY <1>1 DEF IInv, CallTypes
<1>5. /\ call'[c].computed = computed
      /\ call'[c].path = call[c].path /\ call'[c].question = call[c].question
      /\ call'[c].budgets = call[c].budgets /\ call'[c].hash = call[c].hash
      /\ call'[c].seen = call[c].seen /\ call'[c].handle = call[c].handle
      /\ call'[c].lost_race = call[c].lost_race
  BY <1>1 DEF Idle, IInv, CallTypes
<1>6. AskedTrue(c)' /\ HandleTrue(c)'
  BY <1>1, <1>2, <1>5 DEF AskedTrue, HandleTrue, SeenManifests, diskVars
<1>7. computed \in Answers
  BY <1>2 DEF Answers, AskedTrue, HandleTrue, IInv, WorldTypes
<1>8. AnswerTrue(c, call[c].computed)' BY <1>5, <1>7 DEF AnswerTrue, Answers
<1>9. CallTrue(c)' BY <1>3, <1>6, <1>8 DEF CallTrue, Holding
<1>10. QED BY <1>1, <1>3, <1>4, <1>9, QuietMove

LEMMA InsertKeeps ==
  ASSUME IInv, NEW c \in Callers, Insert(c)
  PROVE  IInv'
<1> DEFINE h == call[c].handle
           e == [key |-> Key(c), answer |-> call[c].computed]
<1>1. /\ pc[c] = "insert" /\ UNCHANGED <<diskVars, meta_cache, resident>>
      /\ UNCHANGED handles \/ Store(c, Put(Others(c), e))
      /\ Respond(c, call[c].computed, TRUE)
  BY DEF Insert
<1>2. AskedTrue(c) /\ HandleTrue(c) /\ AnswerTrue(c, call[c].computed)
  BY <1>1 DEF IInv, CallTrue, Holding
<1>3. CASE UNCHANGED handles
  <2>1. handles' \in Seq(Handles) /\ HandlesTrue' /\ HandlesStand
    BY <1>3 DEF IInv, WorldTypes, CachesTrue, HandlesTrue, HandlesStand
  <2>2. QED BY <1>1, <1>2, <2>1, RespondIsTrue
<1>4. CASE Store(c, Put(Others(c), e))
  <2>1. Cache(c) \in Seq(TrueEntries(h))
    BY <1>2 DEF Cache, HandleTrue, IInv, CachesTrue, HandlesTrue
  <2>2. e \in TrueEntries(h)
    <3>1. Key(c) \in Paths \X Nat \X Questions \X Budgets BY <1>2 DEF Key, AskedTrue
    <3>2. Key(c) = <<call[c].computed.path, call[c].computed.bytes,
                     call[c].computed.question, call[c].computed.budgets>>
      BY <1>2 DEF Key, AnswerTrue
    <3>3. call[c].computed \in Answers /\ call[c].computed.handle = h
      BY <1>2 DEF AnswerTrue
    <3>4. QED BY <3>1, <3>2, <3>3 DEF TrueEntries, Entries
  <2>3. Put(Others(c), e) \in Seq(TrueEntries(h)) BY <2>1, <2>2, OthersKeep, PutKeeps
  <2>4. QED BY <1>1, <1>2, <1>4, <2>3, StoreIsTrue, RespondIsTrue
<1>5. QED BY <1>1, <1>3, <1>4

LEMMA QueryKeeps ==
  ASSUME IInv, NEW c \in Callers, Query(c)
  PROVE  IInv'
<1>1. CASE ProcessFails(c) \/ EndCall(c)
  BY <1>1, HangupMoves DEF ProcessFails, EndCall, Hangup
<1>2. QED BY <1>1, HitKeeps, MissKeeps, ProcessKeeps, InsertKeeps DEF Query

-----------------------------------------------------------------------------
(* The world moves: a written input is one more thing every live call could *)
(* have seen; it moves under a reader only where MovesUnderBuild allows it. *)
LEMMA WriteInputKeeps ==
  ASSUME IInv, NEW f \in Inputs, WriteInput(f)
  PROVE  IInv'
<1>1. PICK v \in {0, NextVersion} : input' = [input EXCEPT ![f] = v]
  BY DEF WriteInput
<1>2. /\ moves' = moves + 1 /\ Remember
      /\ UNCHANGED <<bytes, built, meta_cache, handles, resident, pc>>
      /\ (\E c \in Callers : Reading(c)) => MovesUnderBuild
  BY DEF WriteInput, Move, poolVars
<1>3. v \in Nat BY DEF IInv, WorldTypes, NextVersion
<1>4. input' \in Metas BY <1>1, <1>3 DEF IInv, WorldTypes, Metas
<1>5. WorldTypes' /\ CachesTrue'
  BY <1>2, <1>4 DEF IInv, WorldTypes, CachesTrue, HandlesTrue, MetaCacheTrue
<1>6. \A c \in Callers :
        call'[c] = IF pc[c] = "idle" THEN call[c]
                   ELSE [call[c] EXCEPT !.seen = call[c].seen \cup {input'}]
  BY <1>2 DEF Remember
<1>7. CallTypes' BY <1>2, <1>6 DEF IInv, CallTypes, Remember
<1>8. ASSUME NEW c \in Callers
      PROVE  CallTrue(c)'
  <2>1. CASE pc[c] = "idle" BY <1>2, <2>1 DEF CallTrue, Holding
  <2>2. CASE pc[c] # "idle"
    <3>1. CallTrue(c) /\ AskedTrue(c) BY <2>2 DEF IInv, CallTrue
    <3>2. /\ call'[c].seen = call[c].seen \cup {input'}
          /\ \A field \in DOMAIN Idle \ {"seen"} : call'[c][field] = call[c][field]
      BY <1>6, <2>2 DEF IInv, CallTypes, Idle
    <3>3. /\ call'[c].path = call[c].path /\ call'[c].question = call[c].question
          /\ call'[c].budgets = call[c].budgets /\ call'[c].hash = call[c].hash
          /\ call'[c].read = call[c].read /\ call'[c].meta = call[c].meta
          /\ call'[c].stamp = call[c].stamp /\ call'[c].handle = call[c].handle
          /\ call'[c].computed = call[c].computed /\ call'[c].answer = call[c].answer
          /\ call'[c].lost_race = call[c].lost_race
      BY <3>2 DEF Idle
    <3>4. AskedTrue(c)' BY <1>4, <3>1, <3>2, <3>3 DEF AskedTrue
    <3>5. pc[c] \in {"build", "stamp"} /\ ReadTrue(c) => ReadTrue(c)'
      BY <1>2, <3>3 DEF ReadTrue, Reading
    <3>6. /\ HandleTrue(c) => HandleTrue(c)'
          /\ MetaTrue(c) => MetaTrue(c)'
          /\ HandleFound(c) => HandleFound(c)'
          /\ SeenManifests(c) \subseteq SeenManifests(c)'
      BY <1>2, <3>2, <3>3 DEF HandleTrue, MetaTrue, HandleFound, SeenManifests
    <3>7. /\ AnswerTrue(c, call[c].computed) => AnswerTrue(c, call[c].computed)'
          /\ AnswerTrue(c, call[c].answer) => AnswerTrue(c, call[c].answer)'
      BY <3>3 DEF AnswerTrue
    <3>8. QED BY <1>2, <3>1, <3>2, <3>3, <3>4, <3>5, <3>6, <3>7 DEF CallTrue
  <2>3. QED BY <2>1, <2>2
<1>9. QED BY <1>5, <1>7, <1>8 DEF IInv

LEMMA SourcesKeep ==
  ASSUME IInv, (\E p \in Paths : EditSource(p)) \/ LakeBuild \/ PoolEvicts
  PROVE  IInv'
<1>1. /\ moves' \in Nat /\ bytes' \in [Paths -> Nat] /\ built' \in Nat /\ resident' \in {0, resident}
      /\ UNCHANGED <<input, meta_cache, handles, pc, call>>
  BY DEF EditSource, LakeBuild, PoolEvicts, Move, NextVersion, IInv, WorldTypes, diskVars, poolVars
<1>2. HandlesStand BY <1>1 DEF HandlesStand
<1>3. WorldTypes' /\ CallTypes' /\ CachesTrue'
  BY <1>1 DEF IInv, WorldTypes, CallTypes, CachesTrue, HandlesTrue, MetaCacheTrue
<1>4. \A c \in Callers : CallTrue(c)' BY <1>1, <1>2, Bystander
<1>5. QED BY <1>3, <1>4 DEF IInv

-----------------------------------------------------------------------------
LEMMA InitIsTrue == Init => IInv
<1>1. SUFFICES ASSUME Init PROVE IInv OBVIOUS
<1>2. WorldTypes BY <1>1 DEF Init, WorldTypes, Metas
<1>3. CallTypes BY <1>1 DEF Init, CallTypes, Steps
<1>4. CachesTrue BY <1>1 DEF Init, CachesTrue, HandlesTrue, MetaCacheTrue
<1>5. \A c \in Callers : CallTrue(c) BY <1>1 DEF Init, CallTrue, Holding
<1>6. QED BY <1>2, <1>3, <1>4, <1>5 DEF IInv

LEMMA NextKeeps == IInv /\ [Next]_vars => IInv'
<1>1. SUFFICES ASSUME IInv, [Next]_vars PROVE IInv' OBVIOUS
<1>2. ASSUME NEW c \in Callers,
             BeginCall(c) \/ Meta(c) \/ ReadQueryFile(c) \/ Acquire(c) \/ Query(c)
      PROVE  IInv'
  BY <1>1, <1>2, BeginCallKeeps, MetaKeeps, ReadQueryFileKeeps, AcquireKeeps, QueryKeeps
<1>3. CASE \E f \in Inputs : WriteInput(f) BY <1>1, <1>3, WriteInputKeeps
<1>4. CASE (\E p \in Paths : EditSource(p)) \/ LakeBuild \/ PoolEvicts
  BY <1>1, <1>4, SourcesKeep
<1>5. CASE UNCHANGED vars
  <2>1. UNCHANGED <<moves, input, bytes, built, meta_cache, handles, resident, pc, call>>
    BY <1>5 DEF vars, diskVars, poolVars
  <2>2. HandlesStand BY <2>1 DEF HandlesStand
  <2>3. WorldTypes' /\ CallTypes' /\ CachesTrue'
    BY <1>1, <2>1 DEF IInv, WorldTypes, CallTypes, CachesTrue, HandlesTrue, MetaCacheTrue
  <2>4. \A c \in Callers : CallTrue(c)' BY <1>1, <2>1, <2>2, Bystander
  <2>5. QED BY <2>3, <2>4 DEF IInv
<1>6. QED BY <1>1, <1>2, <1>3, <1>4, <1>5 DEF Next

LEMMA CachesStayTrue == Spec => []IInv
BY InitIsTrue, NextKeeps, PTL DEF Spec

(* Whatever the caches were filled with by whom, a call is answered on the  *)
(* bytes it read, for its question and under its budgets.                  *)
THEOREM OwnQuestionAnswered == Spec => []AnswersItsOwnQuestion
<1>1. IInv => AnswersItsOwnQuestion
  BY DEF IInv, CallTrue, AnswerTrue, AnswersItsOwnQuestion
<1>2. QED BY <1>1, CachesStayTrue, PTL

(* While nobody writes Lake's files under a builder, an answer was computed *)
(* through the handle the call holds, and that handle was opened under a   *)
(* manifest the project had during the call, unless it was handed out by a *)
(* lost race.                                                              *)
THEOREM AnsweredByOwnHandle ==
  ASSUME ~MovesUnderBuild
  PROVE  Spec => []AnswersOfOwnHandle
<1>1. IInv => AnswersOfOwnHandle
  BY DEF IInv, CallTrue, AnswerTrue, HandleTrue, SeenManifests, Holding, AnswersOfOwnHandle
<1>2. QED BY <1>1, CachesStayTrue, PTL

(* While nobody writes Lake's files under a builder, the metadata a call    *)
(* goes on with is what a fresh build during the call would have made.     *)
THEOREM CachedMetaIsFresh ==
  ASSUME ~MovesUnderBuild
  PROVE  Spec => []MetaIsAFreshBuild
<1>1. IInv => MetaIsAFreshBuild BY DEF IInv, CallTrue, MetaTrue, MetaIsAFreshBuild
<1>2. QED BY <1>1, CachesStayTrue, PTL
=============================================================================
