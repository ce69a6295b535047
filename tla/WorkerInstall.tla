--------------------------- MODULE WorkerInstall ---------------------------
(***************************************************************************)
(* `lean-host-mcp install-worker` and the gate that later decides whether  *)
(* a project may be opened with what it left on disk.                      *)
(*                                                                         *)
(* An install directory holds a binary and its sidecar, worker.json. They  *)
(* are written by separate file operations, minutes apart from the first   *)
(* look at the directory, by a process that may be killed at any of them   *)
(* and that does not know what a server reads meanwhile. Digests of lean.h *)
(* and protocol versions are numbers; 0 is the code's "none".              *)
(***************************************************************************)
EXTENDS Naturals

CONSTANTS
  Installers,      \* install-worker processes
  Window,          \* ToolchainId -> window_verdict
  \* What may happen: a hypothesis of ServedWasSmoked.
  HeaderMoves,     \* a toolchain is republished while a worker is built for it
  \* Bounds of the model: of what elan changes meanwhile, and how often.
  Volatile, MaxHeader, MaxProtocol

Ids == DOMAIN Window
Verdicts == {"supported", "unknown", "out_of_window"}

ASSUME InstallConstants ==
  /\ Window \in [Ids -> Verdicts] /\ Ids # {}
  /\ HeaderMoves \in BOOLEAN
  /\ Volatile \subseteq Ids
  /\ {MaxHeader, MaxProtocol} \subseteq Nat \ {0}

VARIABLES
  elan,            \* what <elan_dir> is: there with a readable lean.h, there, or gone
  lean_h,          \* digest of <elan_dir>/include/lean/lean.h, the last there was
  host_protocol,   \* PROTOCOL_VERSION of the installed lean-host-mcp
  binary,          \* <install_root>/<id>/lean-host-mcp-worker
  sidecar,         \* <install_root>/<id>/worker.json
  pc, task         \* where each installer is, and what it holds

diskVars == <<binary, sidecar>>
hostVars == <<elan, lean_h, host_protocol>>
vars == <<hostVars, diskVars, pc, task>>

\* `smoked`: its own post-build smoke test passed; `inherits`: when it was built
\* the sidecar it was to be put beside vouched already (both history).
Binary == [header : Nat, protocol : Nat, runs : BOOLEAN, smoked : BOOLEAN, inherits : BOOLEAN]
Sidecar == [digest : Nat, protocol : Nat, smoke : {"passed", "failed", "none"}]
NoBinary == [header |-> 0, protocol |-> 0, runs |-> FALSE, smoked |-> FALSE,
             inherits |-> FALSE]
NoSidecar == [digest |-> 0, protocol |-> 0, smoke |-> "none"]
Present(id) == binary[id] # NoBinary
Recorded(id) == sidecar[id] # NoSidecar

Task == [id : Ids, staged : Binary, smoke : {"passed", "failed"}, digest : Nat]
NoTask == [id |-> CHOOSE id \in Ids : TRUE, staged |-> NoBinary, smoke |-> "failed", digest |-> 0]
Steps == {"idle", "remove_old", "move", "copy", "smoke", "hash", "truncate", "write",
          "finish", "clear"}

TypeOK ==
  /\ elan \in [Ids -> {"readable", "unreadable", "missing"}]
  /\ lean_h \in [Ids -> Nat \ {0}] /\ host_protocol \in Nat \ {0}
  /\ binary \in [Ids -> Binary] /\ sidecar \in [Ids -> Sidecar]
  /\ pc \in [Installers -> Steps] /\ task \in [Installers -> Task]

-----------------------------------------------------------------------------
(* hash_lean_header, 0 for an error. Who gets no digest compares nothing.   *)
hash_lean_header(id) == IF elan[id] = "readable" THEN lean_h[id] ELSE 0
header_drifted(id) == hash_lean_header(id) \notin {0, sidecar[id].digest}
protocol_differs(id) == sidecar[id].protocol \notin {0, host_protocol}
\* The sidecar alone would have the gate serve whatever binary is beside it.
Vouched(id) ==
  sidecar[id].smoke = "passed" /\ sidecar[id].digest = lean_h[id] /\ ~protocol_differs(id)

(* resolve_ready_for: what opening a project makes of the files.            *)
resolve_ready(id) ==
  IF Window[id] = "out_of_window" THEN "unsupported"
  ELSE IF elan[id] = "missing" THEN "toolchain_not_installed"
  ELSE IF ~Present(id) THEN "not_installed"
  ELSE IF Recorded(id) /\ header_drifted(id) THEN "stale"
  ELSE IF Recorded(id) /\ protocol_differs(id) THEN "incompatible"
  ELSE IF Recorded(id) /\ sidecar[id].smoke = "failed" THEN "unusable"
  ELSE IF Window[id] = "unknown" THEN "unknown_pin"
  ELSE IF sidecar[id].smoke = "passed" THEN "ready" ELSE "ready_with_note"

(* worker_freshness_in: what --auto makes of them. *)
FreshnessIgnoresProtocol(id) ==
  IF ~Present(id) THEN "absent"
  ELSE IF Recorded(id) /\ ~header_drifted(id) /\ sidecar[id].smoke = "passed"
       THEN "current" ELSE "stale"
worker_freshness(id) ==
  IF ~Present(id) THEN "absent"
  ELSE IF Recorded(id) /\ ~header_drifted(id) /\ sidecar[id].smoke = "passed"
          /\ ~protocol_differs(id)
       THEN "current" ELSE "stale"

(* run_list's row for one installed worker. *)
ListRow(id) ==
  [support |-> Window[id],
   build |-> IF ~Recorded(id) \/ hash_lean_header(id) = 0 THEN "unknown"
             ELSE IF header_drifted(id) THEN "stale" ELSE "fresh",
   runtime |-> CASE sidecar[id].smoke = "passed" -> "runs"
                 [] sidecar[id].smoke = "failed" -> "crashed" [] OTHER -> "untested",
   protocol |-> IF sidecar[id].protocol = 0 THEN "unknown"
                ELSE IF protocol_differs(id) THEN "incompatible" ELSE "compatible"]

prune_reason(id) ==
  Window[id] = "out_of_window" \/ (Recorded(id) /\ sidecar[id].smoke = "failed")
-----------------------------------------------------------------------------
\* What an older host may have left: no protocol in the sidecar, perhaps no
\* smoke record either, or no sidecar at all.
Init ==
  /\ elan = [id \in Ids |-> "readable"]
  /\ lean_h = [id \in Ids |-> 1] /\ host_protocol = 1
  /\ binary \in [Ids -> {NoBinary} \cup
                  [header : {1}, protocol : {1}, runs : {TRUE}, smoked : BOOLEAN, inherits : {FALSE}]]
  /\ sidecar \in [Ids -> {NoSidecar} \cup
                   [digest : {1}, protocol : {0}, smoke : {"none", "passed"}]]
  /\ \A id \in Ids : /\ Recorded(id) => Present(id)
                     /\ sidecar[id].smoke = "passed" <=> binary[id].smoked
  /\ pc = [i \in Installers |-> "idle"]
  /\ task = [i \in Installers |-> NoTask]

Goto(i, step) == pc' = [pc EXCEPT ![i] = step]
\* The process ends, or goes on with the next toolchain of its scan.
Leave(i) == Goto(i, "idle") /\ task' = [task EXCEPT ![i] = NoTask]

(* run_auto takes the toolchains discover_elan_toolchains found one after   *)
(* the other and goes on after a failure, so an installer at rest may      *)
(* decide about any of them. --toolchain, like --force, does not skip the  *)
(* one it names when it is current. Both end before the build when elan has no such toolchain.              *)
auto_decision(id, force) ==
  IF Window[id] = "out_of_window" THEN "skip"
  ELSE IF worker_freshness(id) # "current" \/ force THEN "install" ELSE "skip"

(* install_one up to build_worker: the build takes the header of its time,  *)
(* and nobody knows yet whether the result runs. A build that fails leaves *)
(* no trace.                                                               *)
Build(i, id) ==
  /\ pc[i] = "idle" /\ elan[id] # "missing"
  /\ \E force \in BOOLEAN : auto_decision(id, force) = "install"
  /\ \E runs \in BOOLEAN :
       task' = [task EXCEPT
         ![i].id = id,
         ![i].staged = [header |-> lean_h[id], protocol |-> host_protocol, runs |-> runs,
                        smoked |-> FALSE, inherits |-> Vouched(id)]]
  /\ Goto(i, "remove_old")
  /\ UNCHANGED <<hostVars, diskVars>>

Install(i, file) == binary' = [binary EXCEPT ![task[i].id] = file]
RemoveOld(i) ==
  /\ pc[i] = "remove_old" /\ Install(i, NoBinary) /\ Goto(i, "move")
  /\ UNCHANGED <<hostVars, sidecar, task>>
Rename(i) ==
  /\ pc[i] = "move" /\ Install(i, task[i].staged) /\ Goto(i, "smoke")
  /\ UNCHANGED <<hostVars, sidecar, task>>
\* Across devices: a copy, of which part is visible before the rest.
CopyStarts(i) ==
  /\ pc[i] = "move" /\ Install(i, [task[i].staged EXCEPT !.runs = FALSE]) /\ Goto(i, "copy")
  /\ UNCHANGED <<hostVars, sidecar, task>>
CopyEnds(i) ==
  /\ pc[i] = "copy" /\ Install(i, task[i].staged) /\ Goto(i, "smoke")
  /\ UNCHANGED <<hostVars, sidecar, task>>

(* smoke::probe: any failure is a verdict, also one that is not the        *)
(* binary's fault.                                                         *)
Smoke(i) ==
  /\ pc[i] = "smoke"
  /\ \E verdict \in {"passed", "failed"} :
       /\ verdict = "passed" => binary[task[i].id].runs
       /\ task' = [task EXCEPT ![i].smoke = verdict]
       /\ binary' = IF verdict = "passed" THEN [binary EXCEPT ![task[i].id].smoked = TRUE]
                    ELSE binary
  /\ Goto(i, "hash")
  /\ UNCHANGED <<hostVars, sidecar>>

HashHeader(i) ==
  /\ pc[i] = "hash" /\ hash_lean_header(task[i].id) # 0
  /\ task' = [task EXCEPT ![i].digest = hash_lean_header(task[i].id)]
  /\ Goto(i, "truncate")
  /\ UNCHANGED <<hostVars, diskVars>>
\* The binary is in place by now, beside whatever sidecar was there before.
HashFails(i) ==
  /\ pc[i] = "hash" /\ hash_lean_header(task[i].id) = 0 /\ Leave(i)
  /\ UNCHANGED <<hostVars, diskVars>>

(* WorkerSidecar::record: std::fs::write truncates, then writes. *)
Record(i, record) == sidecar' = [sidecar EXCEPT ![task[i].id] = record]
KeepRecorded(i) ==
  /\ pc[i] = "truncate" /\ Recorded(task[i].id) /\ Goto(i, "finish")
  /\ UNCHANGED <<hostVars, diskVars, task>>
TruncateUnlessRecorded(i) ==
  KeepRecorded(i) \/ /\ pc[i] = "truncate" /\ ~Recorded(task[i].id) /\ Goto(i, "write")
                     /\ UNCHANGED <<hostVars, diskVars, task>>
Truncate(i) ==
  /\ pc[i] = "truncate" /\ Record(i, NoSidecar) /\ Goto(i, "write")
  /\ UNCHANGED <<hostVars, binary, task>>
AssumedSmoke(i) == "passed"
RecordedSmoke(i) == task[i].smoke
Write(i) ==
  /\ pc[i] = "write" /\ Goto(i, "finish")
  /\ Record(i, [digest |-> task[i].digest, protocol |-> host_protocol,
                smoke |-> RecordedSmoke(i)])
  /\ UNCHANGED <<hostVars, binary, task>>

\* install_one succeeds or reports the failed smoke test; --auto goes on.
Finish(i) ==
  /\ pc[i] = "finish" /\ Leave(i)
  /\ UNCHANGED <<hostVars, diskVars>>

-----------------------------------------------------------------------------
(* --clean and --prune: remove_dir_all takes the files one by one, and may  *)
(* be killed between them.                                                 *)
Remove(i, id) ==
  /\ pc[i] = "idle" /\ Goto(i, "clear")
  /\ task' = [task EXCEPT ![i].id = id]
  /\ UNCHANGED <<hostVars, diskVars>>
Clean(i, id) == (Present(id) \/ Recorded(id)) /\ Remove(i, id)
Prune(i, id) == Present(id) /\ prune_reason(id) /\ Remove(i, id)
ClearFile(i) ==
  /\ pc[i] = "clear"
  /\ \/ Present(task[i].id) /\ Install(i, NoBinary) /\ UNCHANGED sidecar
     \/ Recorded(task[i].id) /\ Record(i, NoSidecar) /\ UNCHANGED binary
  /\ UNCHANGED <<hostVars, pc, task>>
ClearEnds(i) ==
  /\ pc[i] = "clear" /\ ~Present(task[i].id) /\ ~Recorded(task[i].id) /\ Leave(i)
  /\ UNCHANGED <<hostVars, diskVars>>

-----------------------------------------------------------------------------
(* A kill, a power cut, or an error of the file system that run() reports. *)
Crash(i) ==
  /\ pc[i] # "idle" /\ Leave(i)
  /\ UNCHANGED <<hostVars, diskVars>>

Building(id) == \E i \in Installers : pc[i] \notin {"idle", "clear"} /\ task[i].id = id
Republish(id) ==
  /\ id \in Volatile /\ lean_h[id] < MaxHeader /\ (Building(id) => HeaderMoves)
  /\ lean_h' = [lean_h EXCEPT ![id] = @ + 1]
  /\ UNCHANGED <<elan, host_protocol, diskVars, pc, task>>
(* elan installs or removes the toolchain, lean.h can no longer be read, or *)
(* again.                                                                  *)
Elan(id) ==
  /\ id \in Volatile
  /\ \E state \in {"readable", "unreadable", "missing"} : elan' = [elan EXCEPT ![id] = state]
  /\ UNCHANGED <<lean_h, host_protocol, diskVars, pc, task>>
UpgradeHost ==
  /\ host_protocol < MaxProtocol /\ \A i \in Installers : pc[i] = "idle"
  /\ host_protocol' = host_protocol + 1
  /\ UNCHANGED <<elan, lean_h, diskVars, pc, task>>

Publish(i) == RemoveOld(i) \/ Rename(i) \/ CopyStarts(i) \/ CopyEnds(i)
Vouch(i) ==
  Smoke(i) \/ HashHeader(i) \/ HashFails(i) \/ Truncate(i) \/ Write(i) \/ Finish(i)
RemoveWorkers(i) ==
  ClearFile(i) \/ ClearEnds(i) \/ \E id \in Ids : Clean(i, id) \/ Prune(i, id)
Next ==
  \/ \E i \in Installers : Publish(i) \/ Vouch(i) \/ RemoveWorkers(i) \/ Crash(i)
  \/ \E i \in Installers, id \in Ids : Build(i, id)
  \/ UpgradeHost \/ \E id \in Ids : Republish(id) \/ Elan(id)
Spec == Init /\ [][Next]_vars

-----------------------------------------------------------------------------
(* A project opens without a warning only on a worker that itself passed    *)
(* its smoke test, was built for the header the toolchain has now, and     *)
(* talks the host's protocol (a sidecar from before the protocol was       *)
(* recorded leaves that to the handshake): install_one's "prove the worker *)
(* can actually run before vouching for it", through kills at any step,    *)
(* flags, republished toolchains and upgraded hosts. There are two         *)
(* exceptions. A worker that was put beside a sidecar that already vouched *)
(* inherits its word until Write: that of a current worker replaced by     *)
(* --force or --toolchain, or one left without its binary by a kill in the *)
(* middle of that or of a removal. And where lean.h cannot be read, a      *)
(* sidecar of another header vouches for whatever binary is there, for the *)
(* gate compares no header.                                                *)
Earned(id) ==
  /\ binary[id].smoked \/ binary[id].inherits
  /\ binary[id].header = lean_h[id]
  /\ sidecar[id].protocol # 0 => binary[id].protocol = host_protocol
DriftUnseen(id) == elan[id] = "unreadable" /\ sidecar[id].digest # lean_h[id]
ServedWasSmoked ==
  \A id \in Ids : resolve_ready(id) = "ready" => Earned(id) \/ DriftUnseen(id)

(* --auto, --list and the gate judge the same files in three places of the *)
(* code. While elan has the toolchain: what --auto leaves alone as current *)
(* the gate serves without a warning, and what the gate serves so --auto   *)
(* does not rebuild; the list finds nothing amiss with just those; and of  *)
(* those it calls "fresh" the ones whose lean.h can be read, where the     *)
(* others are served with a header nobody compared.                        *)
NothingAmiss(row) ==
  row.build # "stale" /\ row.runtime = "runs" /\ row.protocol # "incompatible"
FreshnessMirrorsGate ==
  \A id \in Ids : Window[id] = "supported" /\ elan[id] # "missing" =>
    /\ worker_freshness(id) = "current" <=> resolve_ready(id) = "ready"
    /\ Present(id) => (NothingAmiss(ListRow(id)) <=> resolve_ready(id) = "ready")
    /\ resolve_ready(id) = "ready" => (ListRow(id).build = "fresh" <=> elan[id] = "readable")

(* An install that reports success leaves a worker that the gate serves, as *)
(* long as elan keeps its toolchain.                                       *)
SuccessIsServed ==
  \A i \in Installers :
    pc[i] = "finish" /\ task[i].smoke = "passed" /\ elan[task[i].id] # "missing" =>
      resolve_ready(task[i].id) \in {"ready", "unknown_pin"}

(* install_worker.rs:494 says "Prove the worker can actually run before     *)
(* vouching for it". The code does not, when a flag makes it replace a     *)
(* worker that is current: the old sidecar is not taken away with the old  *)
(* binary and vouches for the new one until it is proved and recorded, and *)
(* ever after where the installer is killed or fails before.               *)
ProvenBeforeVouched ==
  \A id \in Ids : resolve_ready(id) = "ready" => binary[id].smoked
=============================================================================
