# lean-host-mcp: TLA+ models, checks and proofs

lean-host-mcp is an MCP server that keeps Lean worker processes resident, one
per Lake project, and serves tool calls from them. What is hard in it is not
any single handler but what happens between them: a call racing an eviction, a
worker dying in the middle of a request, `lake build` moving artifacts under a
pooled session, an actor thread unwinding with messages in its mailbox. This
directory models that part of the program, checks it with TLC and proves the
properties that matter most with TLAPS.

Paths below are relative to `src/crates/lean-host-mcp/src/` unless they say
otherwise; line numbers are those of this commit. `PROJECT.json` maps every
definition to the lines it models.

## 1. Inventory

### The resident-project core

| Component | State | Operations | Interacts with |
| --- | --- | --- | --- |
| **Project mailbox** - the async half of `LeanProject` and `actor_main` (`project.rs`) | `healthy`, `actor_tx`, `active_jobs`, the bounded channel, one oneshot per call | `job_meta`, `enqueue`, `reject`, `shutdown`, `is_idle`, the receive loop, unwinding after a panic | callers (tool handlers), broker (`is_idle`, `shutdown`), actor thread |
| **Project actor** - `ProjectActorState` (`project.rs`) | worker handle and generation base, `imports_seen` with stamps, restart deque, `healthy`, `cycled_while_idle`, snapshot, restart statistics | `run_job`, `run_semantic_job`, `cycle_if_imports_rebuilt`, `account_lifecycle_restarts_since`, `record_restart_or_stop`, `rebuild_after_worker_death`, `cycle_over_soft_budget`, `prewarm_most_recent_profile` | worker handle, artifacts on disk, the snapshot callers read |
| **Worker child and supervisor** - the crate `lean-rs-worker-parent` (external), `lean-host-mcp-worker/src/main.rs` | process, session pool, residue, restart counter | open a session, execute, restart before an over-budget import, kill on deadline or RSS, cycle | the actor's handle |
| **Project broker** - `ProjectBroker` (`broker.rs`) | `registry` (LRU), `last_used`, `opening_locks`, metadata cache | `acquire`, `evict`/`pop_idle_lru`, the idle reaper, `shutdown_all`, the per-tool dispatch methods | projects, the file system (manifest, lakefile), the clock |
| **Query caches** - `cache.rs`, and `LakeProjectMeta` in `broker.rs` | module-query results by file contents, metadata by file stamps | get, insert, evict | broker, actor |
| **Lake metadata and freshness** (`lake_meta.rs`) | none | locate a root, hash a manifest, `import_artifact_stamp` | broker, actor |
| **Diagnosis and taint** (`diagnosis.rs`) | none | classify restart causes, `execution_taint` | actor, tools |

### Around it

| Component | State | What is hard |
| --- | --- | --- |
| Toolchain resolution and gate (`toolchain.rs`) | none | the order of releases, candidates, patches and nightlies when the nearest supported release is chosen |
| Worker installation (`cli/install_worker.rs`) | binary and sidecar under the install root | publication order under a kill; what `--auto`, `--list` and the gate each make of the same files |
| Process registry (`cli/processes.rs`) | one record file per server process | records of dead processes, reuse of a PID, two processes on one path |
| Server lifetime (`main.rs`, `server.rs`, `transport_http.rs`, `parent_watch`) | transports, the parent watch | which exit path reaches `shutdown_all`, and when |
| Proof-action tools (`tools/proof_action.rs`) | none across calls | expansion of files into declarations, grouping, the one retry of a tainted verdict, truncation |
| Proof search (`tools/proof_search.rs`) | none | which searches are planned, and that a guess by name never outranks what was corroborated |
| Ilean index reader (`ilean.rs`) | none | index files rewritten and sources edited while they are read |
| Position, declaration and semantic tools (`tools/position.rs`, `tools/declaration.rs`, `tools/semantic.rs`), `diagnosis.rs`, `trust.rs`, `projections.rs`, `envelope.rs` | none | every condition an answer met must be said somewhere in it |
| Semantic search (`semantic_search.rs`), smoke and doctor (`smoke.rs`) | none across calls | spawn and release of the embedding child; otherwise numeric or pure I/O |
| Configuration (`config_*.rs`), request aliases, error types | none or load-once | precedence of environment, file and default |

### How the core fits together

A tool call resolves a project hint to a canonical root and calls
`ProjectBroker::acquire`. That either finds a current project in the LRU
registry, or opens one behind a per-root lock, evicting an idle project if the
pool is full. The call then owns an `Arc<LeanProject>`; `job_meta` counts it in
`active_jobs`, `enqueue` sends a message with a oneshot into the bounded
mailbox. The project's own thread takes messages in turn, and for each drives
the worker child through a retry loop; between messages it may cycle the child
to release memory. The broker reads `active_jobs` to decide whom it may evict;
dropping a project's `Sender` is what ends the thread and with it the child.

### What makes each part correct

* *Mailbox*: the job counter is exact on every path (a leak pins a project for
  ever, an undercount has it evicted with work queued); no call is lost or
  answered twice; every call ends; a shut-down actor exits.
* *Actor*: no call is answered from an environment older than the artifacts it
  found; the crash-loop breaker's window slides and a tripped project runs
  nothing; the generation, restart and taint facts attached to an answer are
  true; a retry starts on a fresh child; idle cycles do not thrash.
* *Broker*: the pool keeps its limit and one project per root; nothing resident
  escapes the reaper; no worker lives on unregistered; misses on one root are
  coalesced; an eviction removes only what was judged evictable; calls behind
  an opening lock are not stuck.

* *Query caches*: a hit answers the question it was asked, of the bytes the
  caller read, through the handle the caller holds; cached metadata is what a
  build during the call would have made.
* *Installation and gate*: the gate serves only what passed its own smoke test
  for this header and protocol, the three readers of a sidecar agree, an
  install that says it succeeded is served.
* *Server and registry*: a running server can be found; no way out forgets a
  project; a server whose client is gone leaves.
* *Tools*: no verdict of a recycled worker passes for the source's own; rows
  come back in the order asked for and truncation is said; index claims of
  freshness are true and narrowing loses nothing; every condition met is
  visible in the response; the release advised to an unsupported project can be
  followed.

The hazards, each at the line where it bites and with the properties that
would catch it, are in `PROJECT.json` under `hazards`.

## 2. Modules and the code

### CallContract - what a project promises a call

The abstract specification. A call is idle, running on a live project, running
on one already down, or abandoned; it is answered once; a project already down
only ever refuses; a live one refuses for one reason, a full mailbox. No
mailbox, no thread, no channel.

### ProjectMailbox - the channel and its two ends

| Model | Code |
| --- | --- |
| `JobMeta`, `CloneSender`, `SendAccepted` / `SendFull` / `SendClosed` | `job_meta` and `enqueue`: the count is taken before the mailbox is looked at; the `Sender` is cloned under the lock and used outside it; `try_send` never waits |
| `ReceiveReply`, `Abandon` | the awaited oneshot, and a tool future dropped while it waits |
| `Receive` | `actor_main`: run the message while `healthy`, `reject` it otherwise |
| `JobReturns`, `SendReply` | the end of `run_job`, which consumes the `JobMeta` one step before the reply is sent |
| `Panic`, `DropQueued` | unwinding: the message in hand and then each queued one drop with their guards and their reply senders |
| `ActorExits` | `recv` yields `None` only with an empty queue and no `Sender` left, the clones held by waiting callers included |
| `Shutdown` | `LeanProject::shutdown`, from the broker, the reaper or `Drop` |

`contractCall` is the refinement mapping to `CallContract`; `late` is the one
history variable it needs (the call began on a project already down).

### ProjectActor - one job at a time, and the child it supervises

One thread, so the actor's own steps are in order; what interleaves are builds,
the clock and the child. A call goes through `phase`: `attempt` (a request to
the worker), `account` (the supervisor's restart count since the baseline is
put on the books), `settle` (finish, retry or trip), back to `idle`.

| Model | Code |
| --- | --- |
| `BeginJob`, `BeginJobRecycled`, `BeginJobCycleFails` | `run_job` up to its first request: note the profile and its artifact stamp, recycle if the stamp advanced |
| `SemanticJob` | `run_semantic_job`, which uses a child of its own |
| `Answered`, `Failed`, `Killed`, `Died` (all `Request`) | one request: the replacements the supervisor makes first (dead child, over the hard residue budget), the session, the outcome, the replacement after a kill |
| `AccountNone`, `AccountRestarts`, `AccountTrips` | `account_lifecycle_restarts_since` |
| `Admits`, `Trips`, `PopsTo`, `Push` | `record_restart_or_stop`; the deque is the tail, from `window_start`, of the list of all instants ever pushed |
| `Finish`, `FailJob`, `Rebuild`, `RebuildFails`, `RebuildTrips` | the finalization point, the early return, and `rebuild_after_worker_death` with the way back to the top of the loop |
| `IdleCycleOnly`, `IdleCyclePrewarmed`, `IdleCyclePrewarmFails`, `IdleCycleFails`, `PrewarmStamp` | `cycle_over_soft_budget` and `prewarm_most_recent_profile`; the pre-warm's stamp is read after its import, hence an action of its own |
| `Build`, `Vanish`, `Tick` | `lake build`, `lake clean`, time |

A `cycle()` that fails is not described further by `project.rs`: `BeginJobCycleFails`
and `IdleCycleFails` let the old child be dead, or live on where the switch
`FailedCyclesSpare` says so.

Imports are abstracted to profiles, an `.olean`'s modification time to a build
number (0 for none, the code's `None`), residue to a count of imports. The
child's session pool, its restart counter and its planned restarts are the
external crate's, modelled from how `project.rs` uses `LeanWorkerHostHandle`.
`ghost` holds counters that only properties read.

### ProjectBroker - acquire, evict, reap

Each action is one stretch of code under the registry mutex, or one await. The
stages of a caller name where it is in `acquire`: `compare`/`touch` on the fast
path, `stale`/`evicted`, `missed`/`wait` (the opening lock), the same checks
again under the lock, `build`/`open`/`install`, `disposing`/`rejecting`.
`opening_locks` maps a root to the identity of a lock, because two callers may
hold different locks for one root. `Abandon` is the future dropped at an await.
A project's mailbox is reduced to a call that is counted and later ends, or is
refused when the project is down: `ProjectMailbox` says that this is all that
can happen to it.

The registry is a set of projects and the order of the LRU is `older`, a set of
pairs, so that a `get` or a `pop` is one set expression; `Pop`, `Put` and `Get`
are the crate's operations.

### QueryCaches - the two caches behind a warm call

| Model | Code |
| --- | --- |
| `BeginCall`, `MetaHit`, `MetaMiss` | a tool call reaching `resolve`; the cached `LakeProjectMeta` is compared stamp by stamp |
| `BuildReads`, `BuildFails`, `StampMeta`, `PutMeta` | `LakeProjectMeta::build_from_canonical` one file at a time, `MetaStamp::read` after it, the insert |
| `ReadQueryFile` | the file is read and hashed before the project is acquired |
| `FindResident`, `FindNone`, `Reuse`, `Evict` | `acquire`: the registry is read; a resident project is compared with the hash of `self.meta(&root)`, which may itself come from the cache; one that differs or is down is popped, and the caller looks again under the opening lock |
| `OpenReads`, `OpenFails`, `Register`, `LoseRace` | the open: the new project keeps the hash of the manifest as read then; at the registry it is installed, or the project of whoever came first is handed out uncompared |
| `PoolEvicts` | reaper, LRU and `shutdown_all`, at any time (`ProjectBroker` has them) |
| `Hit`, `Miss`, `Process`, `ProcessFails`, `Insert` | `process_module_query` and its batch form: look up, ask, store, all through the handle the call holds |
| `WriteInput`, `EditSource`, `LakeBuild` | Lake's files, a source, the artifacts of the closure move |

The opening lock excludes nobody here: it can be lost (section 6), so a caller
that holds one is only a caller that looked twice.

### WorkerInstall - what install-worker leaves on disk, and the gate

One action per file operation of `install_one` (`RemoveOld`, `Rename`, or
`CopyStarts`/`CopyEnds` when the rename crosses devices; `Smoke`, `HashHeader`
or `HashFails`, `Truncate`, `Write`, `Finish`), with `Crash` possible between any two. `Clean`
and `Prune` remove directories, `Republish` moves a toolchain's `lean.h`, `Elan`
makes it unreadable or takes the toolchain away and brings it back,
`UpgradeHost` moves the protocol version. `resolve_ready` is the gate,
`worker_freshness` is `--auto`'s judgement and `ListRow` the listing's: three
pieces of code over the same two files.

### ServerLifetime - a server process and the registry

Each PID goes through the stages of `serve`: record created, written, transport
initialising, serving, ended, shut down, record dropped, runtime dropped, exit;
`Kill` takes it away at any point. `ParentLost` and `FailedProbe` are the parent
watch, `Open` a project opened by a handler at any time the transport serves,
`DoctorReads`/`DoctorRemoves` one `doctor processes` run, record by record.
`ClientMoves` and `StrangerMoves` hand PIDs to other programs.

### LeanVerify - lean_verify and lean_trial(proof_step)

`BeginCall`; `ExpandExplicit`/`ExpandInventory` per target; `FinishExpansion`
(truncation to `MAX_VERIFY_TARGETS`); per source group `PrepareGroup` (the
snapshot is read), `CallWorker` (a second call when the first is tainted and
non-positive), `ProjectGroup` (relabelling); `Finish` (rows in request order).
`EditFile` saves sources in between, and any worker call may be recycled. A
A source with missing imports makes an inventory `needs_build` whatever it was
before, one that listed nothing included; a verdict batch that met missing
imports passes on the statuses of its rows. A
group's targets are a set of records: `order`, which the code keeps too, is their
place in the vector, so that `push_declarations` and `truncate` are stated in
closed form (a name's place is the number of names asked before it; a target
survives a cut when fewer than `limit` are ahead of it) and can be proved about.

### Toolchain, References, ProofSearch, SemanticTools - the public tools

`Toolchain` is arithmetic: `version_key`, `version_scalar`, the window's verdict
and `nearest`. `References` is the index scan of `find_references` at project
scope and of a module's inventory, one `.ilean` per step (`Visit`), the mtimes
asked at the end (`CollectStale`), while `LakeReads`/`LakeWrites` compile and
sources are edited. `ProofSearch` is `plan_searches` and `rank_results` as
operators over a small library of declarations. Both sort through `Listing`,
which states the order a finite set is listed in by the rank of its elements,
without recursion, so that what a sort returns can be proved. `SemanticTools`
extends them all with one action per mode handler: what outcomes each of its
worker calls may have (taint and missing imports beside the outcome proper), which of warnings, next actions, trust facts and result fields it sets
for each, and `Respond`/`semantic_issues`, which turn those into issues.
`suffered` is the history of the conditions a request met.

## 3. Runs

| Run | Instance | What it shows |
| --- | --- | --- |
| `mailbox` | 2 callers, capacity 1 | safety, liveness and the refinement of `CallContract` |
| `actor_restarts` | 1 profile, pool 1, limit 2 in a window of 1 tick, 1 retry, every switch but the pre-warm race on, failed cycles that spare the child included | breaker, generations, taint, restart facts, retries, idle cycles |
| `actor_fresh` | 3 profiles on a pool of 2, hard budget 3, 4 jobs, switches off | `ServedFresh` and the mirror invariant behind it |
| `broker_pool` | 2 callers, 2 roots, pool of 1, 2 manifests per root, reaper, `shutdown_all` | pool limit, one project per root, nothing untimed, nothing orphaned |
| `broker_liveness` | 2 callers, 1 root, actors die | calls end, quiet pools drain |
| `broker_coalesce` | 1 root, 3 callers | code against a comment, section 6 |
| `install` | 3 toolchains (supported, unknown, out of window), 1 installer, 2 headers, 2 protocols, one toolchain that moves (`lean.h` republished, unreadable, gone), `--force` and kills at any step | the gate serves only what was smoked for a header it could read, or inherits; three judges agree; success is served |
| `caches` | 2 callers, 1 path, 2 questions (one without a key), 2 budgets, capacity 1, 2 handles, one move of lakefile, manifest, source or modules | a hit answers its own question; metadata is a fresh build's; no answer crosses a change of manifest |
| `server` | 2 PIDs, 1 launch, 2 doctor runs, PIDs reused, `ps` failing | records kept, no project forgotten, a server leaves with its client |
| `verify` | 2 files, 3 names and a blank one, limit of 3 targets, 1 edit | honest rows, honest coverage, request order |
| `tools` | 2 sources, 4 disk moves, 15 requests, 16 goals, 3 windows, 7 pins | no condition unsaid, index claims true, corroborated first, advice can be followed |
| `tool_advice` | the same instance | code against documentation, section 6 |

**Why the bounds are enough.** *Mailbox*: two callers and one slot give a full
mailbox, a message behind the one in hand, a caller between clone and send
while the actor unwinds, and a second call by the same caller; the invariants
are then proved for every number of callers and every capacity. *Actor*:
`MaxRestarts = 2` with `MaxRetries = 1` lets a single call cause more abnormal
restarts than the limit, from both places that record them; `MaxClock = 2`
steps past the window of 1; three profiles on a pool of two evict on both sides
of the mirror; `MaxBuilds = 2` makes one rebuild of each profile; `MaxReplaced`
and `MaxJobs` only bound counters. *Broker*: a pool of one with two roots
forces an eviction on every second open; two callers are what every race in the
code needs except the lost coalescing, which takes three. `Projects` and
`Locks` are identities and are re-used as soon as nobody refers to them: the
numbers are one more than can be held at once. The reaper and `shutdown_all`
wait for what they popped to be shut down before they pop again
(`condemned = {}`), which bounds that set and keeps only orders that can be
told apart by nothing in the model. `broker_liveness` keeps one manifest
content, so that a call cannot be sent round by a manifest changing for ever,
and `broker_pool` keeps the actors alive; between them both sources of
staleness are exercised. `SYMMETRY` is used in safety runs only.

*Install*: one installer, because two at once break the properties by design of
the code (section 6); a window with each verdict; two headers and two protocols
make every record stale once. *Caches*: two callers and one entry make every
hit somebody else's insert and every insert an eviction; the callers are
symmetric. One move (`MaxMoves`) is enough because each of the three properties
compares two moments, with one file moved between them; two handles are the one
before it and the one after. The theorems are for any number of moves.
*Server*: one launch beside the records of earlier servers, and a second PID
for the stranger or the doctor's other record; the second doctor run reads what
the first left. *Verify*: three targets over two files overflow a limit of
three by one inventory; one edit falls between any two of a call's reads.
*Tools*: two sources and `MaxTime = 4` let an edit fall before, during and
after a compilation of either; the requests are every kind, an alias of each, a
wrong one and an undecodable one; `Base = 3` keeps versions three deep, and the
theorem holds for every base.

**Deadlock.** The broker never deadlocks and is checked for it. The mailbox
stops for good once its actor is gone and no caller calls again; the actor
stops at the bound on jobs, servers at the bound on launches, a tool request
when it is answered: those runs say `CHECK_DEADLOCK FALSE`. `install`, `caches`
and `verify` are checked for it.

**Fairness.** *Mailbox*: weak fairness of the actor thread (a thread runs; a
job ends because every worker request has a deadline) and of each call's own
steps (the runtime polls what it was given). Nothing makes a caller begin or
abandon, a broker shut down, or a thread panic. *Broker*: weak fairness of each
call's steps (the blocking pool returns, a job ends), of the reaper and of the
shutdown of what was popped; strong fairness of taking the opening lock,
because tokio's `Mutex` queues its waiters first come first served. *Server*:
weak fairness of a server's own steps (the runtime runs) and of its parent
watch (an interval timer); none of the client, of signals, of the end of
input, of `ps` or of a doctor. Everything else: safety only.

**Switches.** What the environment may do is a constant where a property
depends on it. `ArtifactsVanish`, `BuildsRacePrewarm`, `FailuresSkipImport` and
`FailedCyclesSpare` are the hypotheses of `ServedFresh`: with all four off it
holds, with any one on it fails (section 6). `FailuresSkipImport` is one
because a request that fails before its import leaves the mirror `imports_seen`
ahead of the child's pool by a profile; with three profiles on a pool of two a
profile the child still pools can then be forgotten by the mirror, and its
rebuild goes unnoticed. `FailedCyclesSpare` is one because the new stamp is
noted before the child is cycled: if that fails and the old child lives, the
next call sees no advance and is answered by it. `actor_restarts` has all but
the second on. `MovesUnderBuild` is the hypothesis of `MetaIsAFreshBuild`, and
of `AnswersOfOwnHandle`, which compares manifests with that metadata;
`HeaderMoves` that of `ServedWasSmoked`; `Estranged` (modules whose name does
not spell their path) that of the index's claims. `PidsRecycle` and `PsFails`
are on: the server's properties hold all the same. `Unflagged`, in
`SemanticTools`, lists the modes and conditions the code says nothing about
(section 6); `NoSilentDegrade` is about all the others.

**Mutants.** Every property of a passing run has a mutant in `PROJECT.json`: a
definition replaced by a variant written beside it (`...TooMany`,
`...SampledLate`, `NextGenerationOfHandle` and the like), which TLC must find
to violate that property. The variants are used for nothing else.

## 4. Proofs

TLAPS checks these for every value of the constants that satisfies the named
assumptions of each module (`MailboxConstants`, `ActorConstants`,
`BrokerConstants`, ...): any set of callers, roots, profiles, PIDs or
toolchains, any capacities, budgets, limits and windows. Where a theorem needs
a switch off it says so in its `ASSUME Hypotheses`.

`ProjectMailbox_proofs`, about `SafeSpec` (`Spec` without its fairness, which
safety does not need)

* `TypeCorrect` - `[]TypeOK`. That the counter is a natural number already
  needs it to be exact: it is decremented without a test.
* `ActiveJobsAlwaysExact` - `active_jobs` is the number of live `JobMeta`s. Not
  inductive alone: decrementing once is right only if the message that dies was
  counted once, so the invariant also says that a queued caller is waiting or
  has abandoned its call, that no caller is queued twice, and that a caller is
  not both queued and in hand. Each action then adds or removes one counted
  caller.
* `OnePlaceEach` - `[]WaitingCallHasOnePlace`, from the same invariant: no caller
  is queued twice, one that is queued is not in hand and has no reply, and one
  that waits is queued, in hand, or has an outcome to pick up.
* `IdleIsSettled` - what the broker may conclude from `is_idle`: a corollary of
  exactness and of a waiting call having a place.
* `MailboxKeepsContract` - `SafeSpec => Contract!SafeSpec`, the safety half of
  `ImplementsContract`: initial states map to initial states and each of the
  mailbox's actions maps to an action of `CallContract` or leaves the contract's
  variables alone. The mapping rests on the invariant of places above and on one
  more (`DownInv`): a live project has a living actor, and a call that began on
  a project already down is never queued, in hand or answered by its own job.

`ProjectActor_proofs`

* `ShapeCorrect` - `TypeOK`, plus two facts without which it is not inductive:
  the deque never exceeds the restart limit (or the number of entries the
  breaker pushes as it trips would be negative), and a call's baseline count of
  children is never ahead of the current one.
* `NothingRunsOnceTripped` - `[]TrippedRunsNothing`, inductive as it stands.
* `WindowSlides` - `[]BreakerWindowSlides`. The invariant adds that instants
  are in clock order and that whatever the deque has dropped is older than the
  window. The step is the lemma `PushedWindow`, on plain lists: appending `n`
  copies of now, with at most the limit left after the pop, pairs each new
  entry with one that was dropped, and that one is more than a window old.
* `GenerationIsACount`, `PublishedOnlyGrows` - from one lemma, `StepMoves`:
  every step moves the generation by exactly the number of children it uses up
  (none, one or two), and publishes nothing, the current generation or the
  next one after making it.

* `IdleNeverThrashes` - `[]IdleCyclesAreEarned`: at most one idle cycle since the
  last message, none before the first. The conjunct that makes it inductive:
  while `cycled_while_idle` is unset there was none since that message, and
  before the first message nothing is imported yet.
* `RestartFactHolds` - `[]RestartFactIsTrue`. While a call runs, its baselines
  agree (the generation it began at is one more than the children used up by
  then) and each thing the code tests at the end - a recorded cause, the hard
  RSS limit, an advanced generation - means a child was used up since.
* `RetriesStartFresh`, `TaintIsRight` - `[]RetryOnFreshChild` and
  `[]TaintIsExact`, from one invariant. The code keeps only the last cause of a
  call, so a planned restart after a death would hide the death; it cannot,
  because a call that was disrupted and goes on does so by a retry, the retry
  starts on a live child with no residue, and `residue_restart_policy` has then
  nothing to do before the import.

`ProjectActor_proofs`, last part, with the four switches off

* `AnswersAreFresh` and `MirrorRemembers` - `[]ServedFresh` and
  `[]PoolIsRemembered`. The invariant follows the mirror through the middle of
  a call: between calls the child's pool is a suffix of `imports_seen`; while a
  request is outstanding it will be one as soon as the call's profile is used;
  once the request is over and it replaced a child, the pool holds at most that
  profile, which is the one entry `forget_pooled_import_profiles` keeps. The
  lemma that carries it is `UsedSuffix`: two MRU lists evicting by the same
  rule, one a suffix of the other, stay so whatever is used next. It is for
  `BeginJob` that the suffix matters: a pooled profile is remembered, its stamp
  is compared, and a comparison that says "not rebuilt" says that the pooled
  environment is as new as the artifact.

`ProjectBroker_proofs`, about `SafeSpec`

* `PoolKeepsItsLimit` (`[]TypeOK`), `EveryEntryCanExpire`
  (`[]RegisteredIsTimed`), `NoWorkerIsOrphaned` (`[]NoOrphan`), from one
  invariant: beside the three it says what a caller holds at each stage and
  that a project somebody popped is shut down before that caller goes on.

`ServerLifetime_proofs`

* `RecordsAreKept` - `[]OnlyRacedRecordsVanish`; needs that a PID in a doctor's
  list of dead ones that has a server again was marked as raced.
* `ProjectsAreTold` - `[]NoProjectIsForgotten`; needs that projects exist only
  from the stage a transport serves in.

`WorkerInstall_proofs`

* `ThreeJudgesAgree` - `[]FreshnessMirrorsGate`, from the three readings of the
  files alone, with no hypothesis. Where `lean.h` cannot be read gate and
  `--auto` skip the comparison, and the list says `unknown`: the property states
  it.
* `VouchingIsEarned`, `SuccessIsReady` - `[]ServedWasSmoked` and
  `[]SuccessIsServed`, for one installer at a time and with `HeaderMoves` off;
  flags, kills at any step of an install or a removal, and toolchains that move,
  vanish or become unreadable between installs are all in. The invariant: the
  sidecar of a worker that is being installed does not vouch, or the new binary
  is marked as one that inherits its word (`Job`); a sidecar that vouches for a
  binary vouches for one that was smoked or inherits, digest and protocol never
  being ahead of the toolchain and the host (`Disk`). That mark is set when the
  worker is built, not when it is served, which is what makes the exception one
  to name: a sidecar that does not vouch then never vouches for this binary
  before `Write`.

`QueryCaches_proofs`

* `OwnQuestionAnswered` (`[]AnswersItsOwnQuestion`), `AnsweredByOwnHandle`
  (`[]AnswersOfOwnHandle`) and `CachedMetaIsFresh` (`[]MetaIsAFreshBuild`), the
  last two with `MovesUnderBuild` off, from one invariant. The properties speak of a call at
  its end, when the caller that computed the answer may be long gone; so the
  invariant says what an entry is worth to whoever finds it: its key is what was
  asked and read to compute it, it names the handle whose cache it is in, and
  the stamp kept with metadata is what the metadata was built from
  (`CachesTrue`); and what a call holds at each of its steps (`CallTrue`): what
  a builder has read so far is what the files still say; the handle it goes on
  with was compared with metadata of the call, or opened under a manifest read
  during it, or is marked as that of a lost race. The lemmas on `Put`,
  `RemoveAt` and `Others` say that eviction and promotion bring in no entry that
  was not there.

`SemanticTools_proofs`, about all of `Toolchain`, `Listing`, `References`,
`ProofSearch` and `SemanticTools`

* Listings. `ListedIsInOrder`: listing a finite set by a strict order gives each
  element at one place and only those, in that order; `AtPicks` and others say
  the same of the elements of a sequence at a set of places. Every sort, filter
  and deduplication of the tool modules is one of these. They are proved by
  counting ranks, not by induction on the set.
* `ScalarIsMonotone` - `version_scalar` orders versions as `version_key` does,
  for every base greater than one. `NearestIsNeighbour` - whatever the window,
  the release advised is supported and no canonical release lies between it and
  the pin; that there is a nearest one at all is by well-founded order on the
  distances. `AdviceCanBeFollowed` (`[]AdvisedReleaseIsNeighbour`) carries it to
  what a response says.
* `DegradesAloud` - `[]NoSilentDegrade`. Not inductive: the property looks at
  the response once it is sent, the condition was met one or several worker
  calls earlier. `DegradeInv` adds what each stage owes: nothing has been met
  before the handler runs, a proof search shows in its result what its target
  profile and semantic search met, and at `respond` every condition is shown or
  among the notes. `WarningsBecomeIssues` is then the last step: pairing notes
  with actions may misplace an action (section 6) but drops no warning. There is
  one lemma per handler, and `RespondsHonestly` is what they share.
* `LexicalGuessesLast` - `[]CorroboratedFirst`. `SearchInv` adds that a search
  in progress has no candidates yet and that what it runs is what
  `plan_searches` planned for its goal. Under it, `PlansAreWellLabelled` says
  what the planned searches' labels mean, `CorroborationIsVouching` that
  `is_corroborated`, which reads only labels, agrees with what found the
  candidate, and `RankingPutsVouchedFirst` that demotion and the cut at `limit`
  keep the order. With the test by substring in its place the second of these
  is false.
* `BuildFreshIsTrue` (`[]FreshClaimIsTrue`) and `NarrowingIsSafe`
  (`[]NarrowingLosesNothing`), from one invariant, `RefInv`. `DiskInv` is what an
  mtime shows: a readable index at least as new as its source, not torn by an
  edit under the compiler, holds what the source holds. `ScanReads` is what the
  scan has at hand in the middle: what it found in a module is all the module's
  index holds, unless the index was written since the scan first read it; each
  module asked for is still to do or done. `ScanCompared` says, once the mtimes
  were compared, that the modules not judged stale agree with the sources they
  were compared with. The two ends need it for opposite reasons - an answer must
  not claim too much, and must not lose what it read.

`LeanVerify_proofs`

* `EveryRowIsHonest` (`[]RowsAreHonest`), `OneRowPerTarget`
  (`[]RowsFollowRequest`) and `CleanAnswersCover` (`[]CoverageIsHonest`), from
  one invariant, `IInv`. None of the three is inductive: they speak of rows made
  several steps after the inventory that asked for them. `ExpansionShape` says
  what identifies a target - no two share a place or an id, an id that is not
  plain was made from the target's own place - and `Counted` that there are as
  many as were requested until a cut is admitted. `Covered` follows what an
  inventory found to the targets (and so is lost at the cut, which must say so).
  `ReplyInHand` says the reply about to be projected is the last one, and that
  only a recycle made it lose verdicts: this is what fails when the taint of an
  earlier call is kept. `RowsOfTargets` pairs the rows so far with the targets of
  the groups done. The lemmas that carry it: `NewTargetsAreNew` and `PushKeeps`
  (a name asked twice, in one group or across groups of one source, still gets an
  id of its own), `TruncationKeeps` (each target kept has a rank below the limit
  over all groups, and ranks are distinct), `InventoriesList` (an inventory that
  is usable and not cut lists all its source declares, supplemented by a fresh
  index or not, or is `needs_build` and the answer warns of it), `RowIsHonest`, and `RowsCountTargets`, by which the summary's
  counts are about targets: `verified = requested` leaves no row that is not.
  From `VerifyConstants` the proofs use the shape of a request, that contents
  give verdicts, and that the set of names is finite.

The model's bounds (`MaxJobs`, `MaxClock` and so on) are arbitrary naturals in
the proofs, so they restrict nothing there.

**Only model-checked.** Liveness under fairness: `EveryCallEnds`,
`ShutdownEndsActor`, `EveryAcquireEnds`, `QuietReleasesWorkers`,
`LeavesWithItsClient` and the liveness half of `ImplementsContract`; TLAPS
proves neither liveness from fairness nor `ENABLED`. Nothing here is proved by
induction over data: the induction theorems that take an operator as a
parameter cannot be used, so a recursive definition is either stated in closed
form, as `Listed` is by rank and truncation by what is ahead of a target, or
argued by a least counterexample (well-foundedness of the naturals). No module uses a `RECURSIVE` operator.

## 5. Not modelled, and why

* **Configuration** (schema, file, init): load-once, each field by itself,
  environment over file over default; no state and nothing to interleave.
* **Spelling and rendering**: synonyms of request fields, result rows that
  rename what the worker said (`projections.rs`), goal and hover text, the
  wording of diagnoses, logs, envelopes, doctor and smoke reports.
* **Parsers**: lakefile and manifest, the streaming JSON decoder of `.ilean`,
  and the extraction of heads, constants and name fragments from a goal's text
  (its result is an input of `ProofSearch`).
* **The semantic ranking**: floating point; what it admits and how it is merged
  is modelled.
* **Numbers that are only reported**: CPU, RSS, timings, queue statistics.
* **The MCP tool router and progress notifications**: the transport library's.
* **The inside of `lean-rs-worker-parent`, of Lean, Lake and elan**: external,
  modelled as far as the code here shows how they are used.
* **Composition of actor and mailbox**: each is checked by itself. The mailbox's
  `JobReturns` stands for a whole run of the actor, with the verdicts the actor
  can give; the broker's project is the mailbox reduced to "counted, ends, or
  refused". Nothing checks these two reductions as refinements.

## 6. Where code and documentation differ

With a run of kind `violation` and an entry in `findings`:

1. `broker_coalesce`, `broker.rs:800`: every exit of `acquire` removes the
   opening lock by root while others wait on it; the next caller makes another
   lock and two projects of one root are opened at once.
2. `tool_advice`, `semantic.rs:959`: warnings and next actions are two lists
   joined by position; an action pushed without a warning moves every later
   one, so the incomplete-build warning loses its `lake build`.

Stated in the modules or reached by turning a switch on, with no run:

* *Actor.* An absent artifact overwrites the remembered stamp before the
  comparison gives up for want of one, so a rebuild across a missing `.olean`
  is never noticed (`project.rs:1963`; `docs/operations.md:74-76`;
  `ArtifactsVanish`). The pre-warm's stamp is read after its import
  (`project.rs:2166`; `BuildsRacePrewarm`). All restarts of a request are booked
  under the last one's cause, so a planned one can count toward the breaker
  (`project.rs:2245`; `docs/operations.md:147-148`; `PlannedNeverCounts`). One
  death can take two breaker entries; early `Err` returns leave the snapshot's
  generation behind until the next call; the idle cycle also runs once the
  breaker has tripped. A call whose `cycle()` fails has noted the new stamp
  already (`project.rs:1963`, 1972): should the child survive that, the next
  call is answered from the old environment (`FailedCyclesSpare`).
* *Broker.* Between the staleness check and `pop(&root)` another caller may have
  reopened the root: the fresh project is shut down (`broker.rs:743`, against
  the comment at 736). The winner of a race of opens is handed out without
  comparing its manifest hash (`broker.rs:813`; `LoseRace`, the exception of
  `AnswersOfOwnHandle`). A caller that has acquired a
  project but not yet counted its job does not keep it from being evicted; its
  call is refused (`BeginCall`).
* *Caches.* Metadata is stamped after it was built (`broker.rs:402-403`, against
  380-383; `MovesUnderBuild`): files that move in between are cached under their
  later stamp, and the next caller is served what no build of its time could
  have made. A cached answer outlives a rebuild of the modules
  its file imports (`cache.rs:8-11`; `HitsStayTrue`). An answer a tainted call
  stored is served later without the warning (`broker.rs:453-462`, 522-531).
* *Installation.* `--force` and `--toolchain` move a new binary in beside the
  sidecar of the one it replaces, which goes on vouching until it is rewritten
  (`install_worker.rs:482`, against the comment at 494 and
  `docs/operations.md:399`; `ProvenBeforeVouched`) - for ever when the
  installer is killed, or when `hash_lean_header` fails (`HashFails`), before
  that; the same after a removal killed between the two files. Where `lean.h`
  cannot be read the gate serves, and `--auto` calls current, a worker whatever
  header its sidecar records (`toolchain.rs:331`, `install_worker.rs:332-336`),
  while the list says `unknown`; `docs/operations.md:419-420` calls header
  drift a hard refusal (`DriftUnseen`). A header republished during the build
  is recorded as built against (`HeaderMoves`); two installers of one toolchain
  can record each other's binary. A tie between two nearest releases is broken
  by comparing spellings (`toolchain.rs:572`).
* *Server.* The parent watch begins after the transport is initialised and ends
  with it, so a client lost before or after is not seen
  (`docs/operations.md:228-229`; `LeavesWithAnyClient`); the process can end
  while actors still shut their children down (`docs/operations.md:230-235`;
  `WorkersEndFirst`); doctor suggests `kill` for whatever now runs under a
  recorded PID (`docs/operations.md:250-251`; `TerminatesOnlyServers`). A torn
  record fails every later doctor run; a failing `ps` at the start reads as
  "no parent" and counts as a loss of it later.
* *Index scans.* The same hit is returned twice when `files` names a file twice
  (`ilean.rs:256-284`; `NoHitTwice`); a file named by another spelling of its
  path loses its hits in a scan that falls back to the whole tree
  (`ilean.rs:159-160`); a module whose name does not spell its path escapes the
  staleness check (`Estranged`).
* *Proof search.* A warning can be given for one goal together with results that
  contradict it (`WarningsExclude`, near `proof_search.rs:884`); in mode `simp`
  nothing is ever corroborated (954-961).
* *Verification.* An inventory taken by a worker that was recycled is taken for
  complete; the inventory and the group's source are separate reads of the
  file; `summary.failed` counts rows that were recycled, ambiguous or
  unsupported; the identity reported is the last group's; header failures and
  missing imports under taint are not relabelled. Missing imports turn any
  inventory into `needs_build`, an `unavailable` one that lists nothing and is
  not truncated included (`declaration_inventory.rs:263-270`), and
  `needs_build` counts as usable (`proof_action.rs:604`, 632): the answer has
  `truncated = false` and every requested target verified, and only the
  needs-build warning says that nothing of that file was looked at. The rows of
  a batch with missing imports keep their statuses, `verified` included, under
  the same warning.
* *Responses that say nothing of a condition* (`Unflagged`): `unsupported` or an
  exhausted budget in `command` and `file_diagnostics` looks like an empty
  list; `declaration`, file-scope `references` and `declarations` and
  `proof_search` never mention taint; `proof_position` drops it when the header
  did not parse or the query is unsupported; `proof_search` drops every note of
  the proof state it started from: missing imports, an incomplete build, an
  ambiguous position (`proof_search.rs:287-372`); `lean_verify` does not look at
  the taint of its inventories' own calls (`proof_action.rs:589-650`) or of
  batches with a bad header, an unsupported request or missing imports
  (1072-1134); file-scope `references` takes a result of another kind for an
  empty list (`position.rs:1146-1168`). Degraded responses lose the toolchain
  advisories (`broker.rs:676-687`, 1012). `lean_lookup`'s description names a
  `changed_coverage` that does not exist (near `semantic.rs:685`).

## 7. Plan

Done: the mailbox with its contract, the actor, the broker, the caches, the
installer and its gate, the server's life with the process registry,
verification, index scans, proof search and the public tools. Proved: every
invariant and action property the runs check, and the safety half of the
refinement of `CallContract`.

Left, in this order:

1. Composition: `ProjectActor` as the implementation of the mailbox's
   `JobReturns`, so that the two modules' `healthy` is one thing; the broker on
   `CallContract` in place of its own reduction of a project.
2. Precedence of configuration sources, as operators against a reference
   definition.

## 8. Running

```
tlasany ProjectActor.tla
tlc -workers 2 -config MCProjectActorFresh.cfg MCProjectActor
tlapm ProjectActor_proofs.tla
tlapm SemanticTools_proofs.tla
```

The slowest runs are `tools` (6 million states), `broker_pool`, `caches` (4.4
million), `install` and `verify`, one and a half to three minutes each on two
cores; the rest take about a minute or less.
