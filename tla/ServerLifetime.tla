---------------------------- MODULE ServerLifetime ----------------------------
(***************************************************************************)
(* The life of a lean-host-mcp process from `serve` to its exit, the       *)
(* record it keeps in the per-user process registry, and                   *)
(* `doctor processes`, which reads and cleans that registry while servers  *)
(* start, end, are killed and leave their PIDs to other programs.          *)
(*                                                                         *)
(* A step is what one process does between two points where another may    *)
(* move. A signal that nobody handles, an initialize that fails and a      *)
(* client that closes stdin are steps that may happen at any time; no      *)
(* property may count on them.                                             *)
(***************************************************************************)
EXTENDS Naturals, FiniteSets

CONSTANTS
  Pids,         \* process ids
  MaxLaunches,  \* bound: servers ever started
  MaxDoctors,   \* bound: runs of `doctor processes`
  PidsRecycle,  \* a PID may be given to another program, or to another server
  PsFails       \* `ps` may fail to run or to answer

ASSUME ServerConstants ==
  /\ MaxLaunches \in Nat /\ MaxDoctors \in Nat
  /\ {PidsRecycle, PsFails} \subseteq BOOLEAN

VARIABLES
  server,    \* what runs under each PID
  registry,  \* the record file of each PID
  project,   \* the resident projects of each PID, as one
  doctor,    \* the doctor run under way
  launches, doctors

vars == <<server, registry, project, doctor, launches, doctors>>

Transports == {"stdio", "http"}
\* "registered" to "shut" is the life of `_process_record` in `serve`.
Recorded == {"registered", "initializing", "serving", "ended", "shut"}
Stages == Recorded \cup {"free", "stranger", "starting", "created", "unlisted", "dropped"}
\* The process that launched the server: alive, gone, or its PID is another's.
Clients == {"alive", "dead", "recycled"}
\* A parent PID that was read: the launcher's, init's, or none because ps failed.
Parents == {"client", "init", "none"}

\* `raced`: a doctor had already found this PID dead when the server took it.
ServerType == [stage : Stages, transport : Transports, client : Clients,
               parent_pid : Parents, raced : BOOLEAN]
ProcessRecord == [file : {"written"}, transport : Transports, parent_pid_at_start : Parents]
Absent == [file |-> "absent", transport |-> "stdio", parent_pid_at_start |-> "none"]
\* fs::write created it and has not written it.
Torn == [file |-> "torn", transport |-> "stdio", parent_pid_at_start |-> "none"]

NoServer == [stage |-> "free", transport |-> "stdio", client |-> "alive",
             parent_pid |-> "none", raced |-> FALSE]
NoDoctor == [active |-> FALSE, cleanup |-> FALSE, left |-> {}, dead |-> {}, terminate |-> {}]

TypeOK ==
  /\ server \in [Pids -> ServerType]
  /\ registry \in [Pids -> ProcessRecord \cup {Absent, Torn}]
  /\ project \in [Pids -> {"none", "resident", "draining"}]
  /\ doctor \in [active : BOOLEAN, cleanup : BOOLEAN, left : SUBSET Pids,
                 dead : SUBSET Pids, terminate : SUBSET Pids]
  /\ launches \in 0..MaxLaunches /\ doctors \in 0..MaxDoctors

\* Servers killed earlier have left their records, whole or torn.
Init ==
  /\ server = [p \in Pids |-> NoServer]
  /\ registry \in [Pids -> {Absent, Torn, [Absent EXCEPT !.file = "written",
                                             !.parent_pid_at_start = "client"]}]
  /\ project = [p \in Pids |-> "none"]
  /\ doctor = NoDoctor
  /\ launches = 0 /\ doctors = 0

-----------------------------------------------------------------------------
(* What the probes answer. *)
process_alive(p) == server[p].stage # "free"
\* current_parent_pid: a process whose launcher is gone is init's.
current_parent_pid(p) == IF server[p].client = "alive" THEN "client" ELSE "init"
ProbedParent(p) == {current_parent_pid(p)} \cup IF PsFails THEN {"none"} ELSE {}
ClientPidAlive(p) == server[p].client # "dead"

At(p, stage) == server[p].stage = stage
Goes(p, stage) == server' = [server EXCEPT ![p].stage = stage]
\* ProjectBroker::shutdown_all: the actors are told to stop, nobody joins them.
shutdown_all(p) == project' = [project EXCEPT ![p] = IF @ = "none" THEN @ ELSE "draining"]
Counters == <<launches, doctors>>

-----------------------------------------------------------------------------
(* serve: registration. *)
Launch(p, transport) ==
  /\ At(p, "free") /\ launches < MaxLaunches
  /\ PidsRecycle \/ p \notin doctor.dead
  /\ launches' = launches + 1
  /\ server' = [server EXCEPT ![p] =
       [NoServer EXCEPT !.stage = "starting", !.transport = transport,
                        !.raced = p \in doctor.dead]]
  /\ UNCHANGED <<registry, project, doctor, doctors>>

\* The record is built, its parent PID probed, and the file created empty.
CreateRecord(p) ==
  /\ At(p, "starting")
  /\ \E parent \in ProbedParent(p) :
       server' = [server EXCEPT ![p].stage = "created", ![p].parent_pid = parent]
  /\ registry' = [registry EXCEPT ![p] = Torn]
  /\ UNCHANGED <<project, doctor, Counters>>

\* Mutant of WriteRecord: `let _ = ServerProcessRecord::register(..)`.
WriteRecordAndDrop(p) ==
  /\ At(p, "created")
  /\ Goes(p, "registered")
  /\ registry' = [registry EXCEPT ![p] = Absent]
  /\ UNCHANGED <<project, doctor, Counters>>

WriteRecord(p) ==
  /\ At(p, "created")
  /\ Goes(p, "registered")
  /\ registry' = [registry EXCEPT ![p] =
       [file |-> "written", transport |-> server[p].transport, parent_pid_at_start |-> server[p].parent_pid]]
  /\ UNCHANGED <<project, doctor, Counters>>

\* `register` fails, before or after it created the file: `serve` returns at
\* once, and no ServerProcessRecord exists whose Drop would remove the file.
RegisterFails(p) ==
  /\ server[p].stage \in {"starting", "created"}
  /\ Goes(p, "dropped")
  /\ UNCHANGED <<registry, project, doctor, Counters>>

-----------------------------------------------------------------------------
(* serve: the transport, then shutdown_all, then the drops. *)
\* serve_stdio probes its parent before it waits for `initialize`.
StartStdio(p) ==
  /\ At(p, "registered") /\ server[p].transport = "stdio"
  /\ \E parent \in ProbedParent(p) :
       server' = [server EXCEPT ![p].stage = "initializing", ![p].parent_pid = parent]
  /\ UNCHANGED <<registry, project, doctor, Counters>>

\* transport_http::serve binds its listener, or fails to.
StartHttp(p) ==
  /\ At(p, "registered") /\ server[p].transport = "http"
  /\ \E stage \in {"serving", "ended"} : Goes(p, stage)
  /\ UNCHANGED <<registry, project, doctor, Counters>>

Initialized(p) ==
  /\ At(p, "initializing") /\ Goes(p, "serving")
  /\ UNCHANGED <<registry, project, doctor, Counters>>

\* End of stdin, a transport error, or the shutdown signal of the HTTP server.
TransportEnds(p) ==
  /\ server[p].stage \in {"initializing", "serving"} /\ Goes(p, "ended")
  /\ UNCHANGED <<registry, project, doctor, Counters>>

\* wait_for_parent_loss: a parent that was not probed, or init, is not watched.
ParentGone(p) == ~ClientPidAlive(p)   \* mutant of ParentLost: its PID only
ParentLost(p) == ~ClientPidAlive(p) \/ current_parent_pid(p) # "client"
SeeParentLoss(p) ==
  /\ At(p, "serving") /\ server[p].transport = "stdio"
  /\ server[p].parent_pid = "client"
  /\ ParentLost(p)
  /\ Goes(p, "ended")
  /\ UNCHANGED <<registry, project, doctor, Counters>>

\* A `ps` that fails answers None, which is not the parent either.
FailedProbe(p) ==
  /\ PsFails
  /\ At(p, "serving") /\ server[p].transport = "stdio"
  /\ server[p].parent_pid = "client"
  /\ Goes(p, "ended")
  /\ UNCHANGED <<registry, project, doctor, Counters>>

ShutDown(p) ==
  /\ At(p, "ended") /\ Goes(p, "shut") /\ shutdown_all(p)
  /\ UNCHANGED <<registry, doctor, Counters>>

DropRecord(p) ==
  /\ At(p, "shut") /\ Goes(p, "unlisted")
  /\ registry' = [registry EXCEPT ![p] = Absent]
  /\ UNCHANGED <<project, doctor, Counters>>

\* Mutant of DropRuntime: a broker that does not shut down when it is dropped.
DropRuntimeOnly(p) ==
  /\ At(p, "unlisted") /\ Goes(p, "dropped")
  /\ UNCHANGED <<registry, project, doctor, Counters>>

\* run_serve drops the runtime: it cancels the handlers still running, waits
\* for an open under way, and the last Arc of the broker drops with them.
DropRuntime(p) ==
  /\ At(p, "unlisted") /\ Goes(p, "dropped") /\ shutdown_all(p)
  /\ UNCHANGED <<registry, doctor, Counters>>

\* main returns: the actor threads end where they are.
Exit(p) ==
  /\ At(p, "dropped")
  /\ server' = [server EXCEPT ![p] = NoServer]
  /\ project' = [project EXCEPT ![p] = "none"]
  /\ UNCHANGED <<registry, doctor, Counters>>

\* A handler opens a project; one that outlives its transport still may.
Open(p) ==
  /\ server[p].stage \in {"serving", "ended", "shut", "unlisted"}
  /\ project[p] = "none"
  /\ project' = [project EXCEPT ![p] = "resident"]
  /\ UNCHANGED <<server, registry, doctor, Counters>>

\* The actor thread leaves its loop and has reaped its worker.
ActorEnds(p) ==
  /\ project[p] = "draining"
  /\ project' = [project EXCEPT ![p] = "none"]
  /\ UNCHANGED <<server, registry, doctor, Counters>>

-----------------------------------------------------------------------------
(* The world: launchers, signals, other programs. *)
\* SIGKILL, or a SIGTERM that stdio does not handle: no Drop runs.
Kill(p) ==
  /\ server[p].stage \notin {"free", "stranger"}
  /\ server' = [server EXCEPT ![p] = NoServer]
  /\ project' = [project EXCEPT ![p] = "none"]
  /\ UNCHANGED <<registry, doctor, Counters>>

\* Its record has the launcher of an HTTP server too, but nothing looks at it.
ClientMoves(p) ==
  /\ server[p].stage \in Recorded \cup {"starting", "created"}
  /\ server[p].transport = "stdio"
  /\ \/ server[p].client = "alive" /\ server' = [server EXCEPT ![p].client = "dead"]
     \/ /\ PidsRecycle /\ server[p].client = "dead"
        /\ server' = [server EXCEPT ![p].client = "recycled"]
  /\ UNCHANGED <<registry, project, doctor, Counters>>

StrangerMoves(p) ==
  /\ PidsRecycle
  /\ \/ At(p, "free") /\ registry[p] # Absent /\ Goes(p, "stranger")
     \/ At(p, "stranger") /\ Goes(p, "free")
  /\ UNCHANGED <<registry, project, doctor, Counters>>

-----------------------------------------------------------------------------
(* doctor processes [--cleanup-stale-records]. *)
\* list_records: the directory is read first, then file by file.
DoctorStarts(cleanup) ==
  /\ ~doctor.active /\ doctors < MaxDoctors
  /\ doctors' = doctors + 1
  /\ doctor' = [NoDoctor EXCEPT !.active = TRUE, !.cleanup = cleanup,
                                !.left = {p \in Pids : registry[p] # Absent}]
  /\ UNCHANGED <<server, registry, project, launches>>

\* `p` is a stranger's when the probe finds another program under the PID; its
\* launcher is not the one that is recorded.
stale_stdio_client(p) ==
  LET parents == IF At(p, "stranger") THEN {"init"} ELSE ProbedParent(p)
  IN {process_alive(p) /\ registry[p].transport = "stdio"
        /\ registry[p].parent_pid_at_start = "client" /\ parent # "client" : parent \in parents}

DoctorReads(p) ==
  /\ doctor.active /\ p \in doctor.left
  /\ \/ \* A file that is gone by now, or does not parse, fails the whole run.
        /\ registry[p] \in {Absent, Torn}
        /\ doctor' = NoDoctor
     \/ /\ registry[p] \notin {Absent, Torn}
        /\ \E stale \in stale_stdio_client(p) :
             doctor' = [doctor EXCEPT
               !.left = @ \ {p},
               !.dead = IF process_alive(p) THEN @ ELSE @ \cup {p},
               !.terminate = IF stale THEN @ \cup {p} ELSE @]
  /\ UNCHANGED <<server, registry, project, Counters>>

\* remove_file by path, whoever's record is there by now.
DoctorRemoves(p) ==
  /\ doctor.active /\ doctor.left = {} /\ doctor.cleanup /\ p \in doctor.dead
  /\ \/ registry[p] = Absent /\ doctor' = NoDoctor /\ UNCHANGED registry
     \/ /\ registry[p] # Absent
        /\ registry' = [registry EXCEPT ![p] = Absent]
        /\ doctor' = [doctor EXCEPT !.dead = @ \ {p}]
  /\ UNCHANGED <<server, project, Counters>>

DoctorEnds ==
  /\ doctor.active /\ doctor.left = {}
  /\ doctor.cleanup => doctor.dead = {}
  /\ doctor' = NoDoctor
  /\ UNCHANGED <<server, registry, project, Counters>>

-----------------------------------------------------------------------------
ServerStep(p) ==
  \/ CreateRecord(p) \/ WriteRecord(p) \/ StartStdio(p) \/ StartHttp(p)
  \/ ShutDown(p) \/ DropRecord(p) \/ DropRuntime(p) \/ Exit(p)
Watch(p) == SeeParentLoss(p)
World(p) ==
  \/ \E transport \in Transports : Launch(p, transport)
  \/ RegisterFails(p) \/ Initialized(p) \/ TransportEnds(p) \/ FailedProbe(p)
  \/ Open(p) \/ ActorEnds(p) \/ Kill(p) \/ ClientMoves(p) \/ StrangerMoves(p)
Doctor ==
  \/ \E cleanup \in BOOLEAN : DoctorStarts(cleanup)
  \/ \E p \in Pids : DoctorReads(p) \/ DoctorRemoves(p)
  \/ DoctorEnds

Next == (\E p \in Pids : ServerStep(p) \/ Watch(p) \/ World(p)) \/ Doctor

\* The server's own code runs, and its one-second tick fires.
Fairness == \A p \in Pids : WF_vars(ServerStep(p)) /\ WF_vars(Watch(p))

Spec == Init /\ [][Next]_vars /\ Fairness

-----------------------------------------------------------------------------
(* A running server can be found by `doctor`: between register and the     *)
(* drop of its ServerProcessRecord its complete record is in the registry. *)
(* The one exception is a PID that some doctor had found dead before this  *)
(* server took it: remove_file goes by path (processes.rs:137-145).        *)
OnlyRacedRecordsVanish ==
  \A p \in Pids :
    server[p].stage \in Recorded /\ ~server[p].raced =>
      /\ registry[p] \in ProcessRecord
      /\ registry[p].transport = server[p].transport

(* Whatever ended the transport, and whatever a handler opened while the   *)
(* server was coming down, no project is left that nobody told to stop     *)
(* when main returns (main.rs:205-213, ProjectBroker's Drop).              *)
NoProjectIsForgotten ==
  \A p \in Pids : At(p, "dropped") => project[p] # "resident"

(* A stdio server whose launcher disappears while it serves ends, also when *)
(* the launcher's PID has been given to another process meanwhile, and     *)
(* without any help from its transport (main.rs:278-290).                  *)
LeavesWithItsClient ==
  \A p \in Pids :
    (/\ At(p, "serving") /\ server[p].transport = "stdio"
     /\ server[p].parent_pid = "client" /\ server[p].client # "alive")
      ~> At(p, "free")

(* operations.md:228-229: a stdio server "watches the process that launched *)
(* it and exits if that parent PID disappears or changes".                 *)
LeavesWithAnyClient ==
  \A p \in Pids :
    (server[p].stage \in Recorded /\ server[p].transport = "stdio"
       /\ server[p].client # "alive") ~> At(p, "free")

(* operations.md:232-234: before the process returns its worker children   *)
(* have been through their structured shutdown.                            *)
WorkersEndFirst ==
  [][\A p \in Pids : Exit(p) => project[p] = "none"]_vars

(* operations.md:250-251: `kill -TERM <pid>` is suggested for "a live      *)
(* stdio server" that was reparented, for nobody else.                     *)
TerminatesOnlyServers ==
  [][\A p \in doctor'.terminate \ doctor.terminate : ~At(p, "stranger")]_vars
=============================================================================
