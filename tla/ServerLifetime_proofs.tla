----------------------- MODULE ServerLifetime_proofs -----------------------
(***************************************************************************)
(* For any PIDs, any number of launches and doctor runs, with PIDs reused  *)
(* and ps failing or not: a live server keeps its record, and no way out   *)
(* of `serve` leaves a project unasked to stop.                            *)
(***************************************************************************)
EXTENDS ServerLifetime, TLAPS

(* A server under a PID that a doctor run holds for dead was started after  *)
(* the doctor looked: it is marked as raced.                               *)
FoundDead(p) ==
  p \in doctor.dead /\ server[p].stage \notin {"free", "stranger"} => server[p].raced

(* Its record is the one it wrote.                                          *)
Listed(p) ==
  server[p].stage \in Recorded /\ ~server[p].raced =>
    registry[p] \in ProcessRecord /\ registry[p].transport = server[p].transport

(* Projects exist only behind a transport that has begun to serve, and none *)
(* is resident once the runtime has been dropped.                          *)
Projects(p) ==
  /\ server[p].stage \in {"free", "stranger", "starting", "created", "registered", "initializing"} =>
       project[p] \in {"none", "draining"}
  /\ At(p, "dropped") => project[p] # "resident"

IInv == TypeOK /\ \A p \in Pids : FoundDead(p) /\ Listed(p) /\ Projects(p)
-----------------------------------------------------------------------------
(* What a step does to the process at hand, every other staying as it is.   *)
Server(p) == ServerStep(p) \/ Watch(p) \/ World(p)

LEMMA ProbesAreParents ==
  ASSUME NEW p \in Pids, NEW parent \in ProbedParent(p)
  PROVE  parent \in Parents
<1>1. CASE PsFails BY <1>1 DEF ProbedParent, current_parent_pid, Parents
<1>2. CASE ~PsFails BY <1>2 DEF ProbedParent, current_parent_pid, Parents
<1>3. QED BY <1>1, <1>2

LEMMA SetStage ==
  ASSUME server \in [Pids -> ServerType], NEW p \in Pids, NEW stage \in Stages
  PROVE  [server EXCEPT ![p].stage = stage] \in [Pids -> ServerType]
BY DEF ServerType

LEMMA SetStageAndParent ==
  ASSUME server \in [Pids -> ServerType], NEW p \in Pids, NEW stage \in Stages,
         NEW parent \in Parents
  PROVE  [server EXCEPT ![p].stage = stage, ![p].parent_pid = parent] \in [Pids -> ServerType]
BY DEF ServerType

LEMMA NewServer ==
  ASSUME NEW transport \in Transports, NEW raced \in BOOLEAN
  PROVE  [NoServer EXCEPT !.stage = "starting", !.transport = transport, !.raced = raced]
           \in ServerType
BY DEF NoServer, ServerType, Stages, Clients, Parents

(* Nothing but the stage moves.                                             *)
LEMMA StageMoves ==
  ASSUME TypeOK, NEW p \in Pids, NEW stage \in Stages, Goes(p, stage),
         UNCHANGED <<registry, project, doctor, Counters>>
  PROVE  /\ TypeOK' /\ doctor' = doctor
         /\ \A q \in Pids : q # p => /\ server'[q] = server[q] /\ registry'[q] = registry[q]
                                     /\ project'[q] = project[q]
<1>1. server' \in [Pids -> ServerType] BY SetStage DEF TypeOK, Goes
<1>2. TypeOK' BY <1>1 DEF TypeOK, Counters
<1>3. \A q \in Pids : q # p => server'[q] = server[q] BY DEF TypeOK, Goes
<1>4. QED BY <1>2, <1>3

LEMMA StaysTyped ==
  ASSUME TypeOK, NEW p \in Pids, Server(p)
  PROVE  /\ TypeOK' /\ doctor' = doctor
         /\ \A q \in Pids : q # p => /\ server'[q] = server[q] /\ registry'[q] = registry[q]
                                     /\ project'[q] = project[q]
<1> USE DEF TypeOK, ServerType, ProcessRecord, Absent, Torn, Stages, Recorded, Transports, Clients,
            Parents, NoServer, Counters, At, Goes
<1>1. CASE CreateRecord(p)
  <2>1. PICK parent \in ProbedParent(p) :
          server' = [server EXCEPT ![p].stage = "created", ![p].parent_pid = parent]
    BY <1>1 DEF CreateRecord
  <2>2. parent \in Parents BY <2>1, ProbesAreParents
  <2>3. server' \in [Pids -> ServerType] BY <2>1, <2>2, SetStageAndParent
  <2>4. registry' \in [Pids -> ProcessRecord \cup {Absent, Torn}]
    BY <1>1 DEF CreateRecord
  <2>5. QED BY <1>1, <2>1, <2>3, <2>4 DEF CreateRecord
<1>2. CASE WriteRecord(p)
  <2>1. server' \in [Pids -> ServerType] BY <1>2, SetStage DEF WriteRecord
  <2>2. [file |-> "written", transport |-> server[p].transport,
         parent_pid_at_start |-> server[p].parent_pid] \in ProcessRecord
    OBVIOUS
  <2>3. registry' \in [Pids -> ProcessRecord \cup {Absent, Torn}]
    BY <1>2, <2>2 DEF WriteRecord
  <2>4. QED BY <1>2, <2>1, <2>3 DEF WriteRecord
<1>3. CASE StartStdio(p)
  <2>1. PICK parent \in ProbedParent(p) :
          server' = [server EXCEPT ![p].stage = "initializing", ![p].parent_pid = parent]
    BY <1>3 DEF StartStdio
  <2>2. parent \in Parents BY <2>1, ProbesAreParents
  <2>3. server' \in [Pids -> ServerType] BY <2>1, <2>2, SetStageAndParent
  <2>4. QED BY <1>3, <2>1, <2>3 DEF StartStdio
<1>4. CASE StartHttp(p)
  <2>0. PICK stage \in {"serving", "ended"} : server' = [server EXCEPT ![p].stage = stage]
    BY <1>4 DEF StartHttp
  <2>1. server' \in [Pids -> ServerType] BY <2>0, SetStage
  <2>2. QED BY <1>4, <2>0, <2>1 DEF StartHttp
<1>5. CASE ShutDown(p)
  <2>1. project' = [project EXCEPT ![p] = IF @ = "none" THEN @ ELSE "draining"]
    BY <1>5 DEF ShutDown, shutdown_all
  <2>2. project' \in [Pids -> {"none", "resident", "draining"}] BY <2>1
  <2>3. server' \in [Pids -> ServerType] BY <1>5, SetStage DEF ShutDown
  <2>4. QED BY <1>5, <2>1, <2>2, <2>3 DEF ShutDown
<1>6. CASE DropRecord(p) BY <1>6 DEF DropRecord
<1>7. CASE DropRuntime(p)
  <2>1. project' = [project EXCEPT ![p] = IF @ = "none" THEN @ ELSE "draining"]
    BY <1>7 DEF DropRuntime, shutdown_all
  <2>2. project' \in [Pids -> {"none", "resident", "draining"}] BY <2>1
  <2>3. server' \in [Pids -> ServerType] BY <1>7, SetStage DEF DropRuntime
  <2>4. QED BY <1>7, <2>1, <2>2, <2>3 DEF DropRuntime
<1>8. CASE Exit(p) BY <1>8 DEF Exit
<1>9. CASE SeeParentLoss(p)
  <2>1. Goes(p, "ended") /\ UNCHANGED <<registry, project, doctor, Counters>>
    BY ONLY <1>9 DEF SeeParentLoss
  <2>2. "ended" \in Stages BY ONLY DEF Stages, Recorded
  <2>3. QED BY ONLY TypeOK, p \in Pids, <2>1, <2>2, StageMoves
<1>10. CASE \E transport \in Transports : Launch(p, transport)
  <2>1. PICK transport \in Transports : Launch(p, transport)
    BY <1>10
  <2> DEFINE raced == p \in doctor.dead
  <2>a. raced \in BOOLEAN OBVIOUS
  <2>b. server' = [server EXCEPT ![p] =
          [NoServer EXCEPT !.stage = "starting", !.transport = transport, !.raced = raced]]
    BY <2>1 DEF Launch
  <2>2. server' \in [Pids -> ServerType]
    <3> HIDE DEF raced
    <3>1. QED BY <2>a, <2>b, NewServer
  <2>3. launches' \in 0..MaxLaunches
    <3>1. launches \in 0..MaxLaunches /\ launches < MaxLaunches /\ launches' = launches + 1
      BY <2>1 DEF Launch
    <3>2. QED BY <3>1, ServerConstants
  <2>4. QED BY <2>1, <2>2, <2>3 DEF Launch
<1>11. CASE RegisterFails(p)
  <2>1. Goes(p, "dropped") /\ UNCHANGED <<registry, project, doctor, Counters>>
    BY ONLY <1>11 DEF RegisterFails
  <2>2. "dropped" \in Stages BY ONLY DEF Stages, Recorded
  <2>3. QED BY ONLY TypeOK, p \in Pids, <2>1, <2>2, StageMoves
<1>12. CASE Initialized(p)
  <2>1. Goes(p, "serving") /\ UNCHANGED <<registry, project, doctor, Counters>>
    BY ONLY <1>12 DEF Initialized
  <2>2. "serving" \in Stages BY ONLY DEF Stages, Recorded
  <2>3. QED BY ONLY TypeOK, p \in Pids, <2>1, <2>2, StageMoves
<1>13. CASE TransportEnds(p)
  <2>1. Goes(p, "ended") /\ UNCHANGED <<registry, project, doctor, Counters>>
    BY ONLY <1>13 DEF TransportEnds
  <2>2. "ended" \in Stages BY ONLY DEF Stages, Recorded
  <2>3. QED BY ONLY TypeOK, p \in Pids, <2>1, <2>2, StageMoves
<1>14. CASE FailedProbe(p)
  <2>1. Goes(p, "ended") /\ UNCHANGED <<registry, project, doctor, Counters>>
    BY ONLY <1>14 DEF FailedProbe
  <2>2. "ended" \in Stages BY ONLY DEF Stages, Recorded
  <2>3. QED BY ONLY TypeOK, p \in Pids, <2>1, <2>2, StageMoves
<1>15. CASE Open(p) BY <1>15 DEF Open
<1>16. CASE ActorEnds(p) BY <1>16 DEF ActorEnds
<1>17. CASE Kill(p) BY <1>17 DEF Kill
<1>18. CASE ClientMoves(p) BY <1>18 DEF ClientMoves
<1>19. CASE StrangerMoves(p)
  <2>1. PICK stage \in {"free", "stranger"} : server' = [server EXCEPT ![p].stage = stage]
    BY <1>19 DEF StrangerMoves
  <2>2. server' \in [Pids -> ServerType] BY <2>1, SetStage
  <2>3. QED BY <1>19, <2>1, <2>2 DEF StrangerMoves
<1> QED
  BY <1>1, <1>2, <1>3, <1>4, <1>5, <1>6, <1>7, <1>8, <1>9, <1>10, <1>11, <1>12, <1>13, <1>14,
     <1>15, <1>16, <1>17, <1>18, <1>19 DEF Server, ServerStep, Watch, World

(* The doctor touches no process; it reads what is dead and removes what it *)
(* read.                                                                   *)
LEMMA DoctorStaysTyped ==
  ASSUME TypeOK, Doctor
  PROVE  /\ TypeOK' /\ server' = server /\ project' = project
         /\ \A p \in doctor'.dead : p \in doctor.dead \/ server[p].stage = "free"
         /\ \A p \in Pids : registry'[p] # registry[p] => p \in doctor.dead
<1> DEFINE DoctorType == [active : BOOLEAN, cleanup : BOOLEAN, left : SUBSET Pids,
                          dead : SUBSET Pids, terminate : SUBSET Pids]
<1>0. doctor \in DoctorType /\ NoDoctor \in DoctorType /\ NoDoctor.dead = {}
  BY DEF TypeOK, NoDoctor
<1>1. CASE \E cleanup \in BOOLEAN : DoctorStarts(cleanup)
  <2>1. PICK cleanup \in BOOLEAN : DoctorStarts(cleanup)
    BY <1>1
  <2>2. doctors' \in 0..MaxDoctors
    <3>1. doctors \in 0..MaxDoctors /\ doctors < MaxDoctors /\ doctors' = doctors + 1
      BY <2>1 DEF DoctorStarts, TypeOK
    <3>2. QED BY <3>1, ServerConstants
  <2>3. doctor' \in DoctorType /\ doctor'.dead = {}
    BY <2>1 DEF DoctorStarts, NoDoctor
  <2>4. UNCHANGED <<server, registry, project, launches>>
    BY <2>1 DEF DoctorStarts
  <2>5. QED BY <2>2, <2>3, <2>4 DEF TypeOK
<1>2. CASE \E p \in Pids : DoctorReads(p)
  <2>1. PICK p \in Pids : DoctorReads(p)
    BY <1>2
  <2>2. UNCHANGED <<server, registry, project, launches, doctors>>
    BY <2>1 DEF DoctorReads, Counters
  <2>3. doctor' \in DoctorType /\ \A q \in doctor'.dead : q \in doctor.dead \/ server[q].stage = "free"
    <3>1. CASE doctor' = NoDoctor
      BY <1>0, <3>1
    <3>2. CASE doctor' # NoDoctor
      <4>1. PICK dead \in {doctor.dead, doctor.dead \cup {p}},
                 terminate \in {doctor.terminate, doctor.terminate \cup {p}} :
              /\ doctor' = [doctor EXCEPT !.left = @ \ {p}, !.dead = dead, !.terminate = terminate]
              /\ process_alive(p) => dead = doctor.dead
        BY <2>1, <3>2 DEF DoctorReads
      <4>2. dead \subseteq Pids /\ terminate \subseteq Pids
        BY <1>0, <4>1
      <4>3. QED BY <1>0, <4>1, <4>2 DEF process_alive
    <3>3. QED BY <3>1, <3>2
  <2>4. QED BY <2>2, <2>3 DEF TypeOK
<1>3. CASE \E p \in Pids : DoctorRemoves(p)
  <2>1. PICK p \in Pids : DoctorRemoves(p)
    BY <1>3
  <2>2. UNCHANGED <<server, project, launches, doctors>> /\ p \in doctor.dead
    BY <2>1 DEF DoctorRemoves, Counters
  <2>3. doctor' \in DoctorType /\ doctor'.dead \subseteq doctor.dead
    <3>1. CASE doctor' = NoDoctor
      BY <1>0, <3>1
    <3>2. CASE doctor' = [doctor EXCEPT !.dead = @ \ {p}]
      BY <1>0, <3>2
    <3>3. QED BY <2>1, <3>1, <3>2 DEF DoctorRemoves
  <2>4. registry' = registry \/ registry' = [registry EXCEPT ![p] = Absent]
    BY <2>1 DEF DoctorRemoves
  <2>5. QED BY <2>2, <2>3, <2>4 DEF TypeOK
<1>4. CASE DoctorEnds
  BY <1>0, <1>4 DEF DoctorEnds, TypeOK, Counters
<1>5. QED BY <1>1, <1>2, <1>3, <1>4 DEF Doctor
-----------------------------------------------------------------------------
LEMMA Initially == Init => IInv
<1> SUFFICES ASSUME Init PROVE IInv
  OBVIOUS
<1>1. NoServer \in ServerType /\ NoServer.stage = "free"
  BY DEF NoServer, ServerType, Stages, Transports, Clients, Parents
<1>2. [Absent EXCEPT !.file = "written", !.parent_pid_at_start = "client"] \in ProcessRecord
  BY DEF Absent, ProcessRecord, Transports, Parents
<1>3. registry \in [Pids -> ProcessRecord \cup {Absent, Torn}]
  BY <1>2 DEF Init
<1>4. doctor \in [active : BOOLEAN, cleanup : BOOLEAN, left : SUBSET Pids,
                  dead : SUBSET Pids, terminate : SUBSET Pids]
      /\ doctor.dead = {}
  BY DEF Init, NoDoctor
<1>5. TypeOK
  BY <1>1, <1>3, <1>4, ServerConstants DEF Init, TypeOK
<1>6. \A p \in Pids : FoundDead(p) /\ Listed(p) /\ Projects(p)
  BY <1>1, <1>4 DEF Init, FoundDead, Listed, Projects, Recorded, At
<1>7. QED BY <1>5, <1>6 DEF IInv

(* The record of the process at hand: written once, by the process itself.  *)
LEMMA StaysListed ==
  ASSUME TypeOK, NEW p \in Pids, Server(p), Listed(p)
  PROVE  Listed(p)'
<1> USE DEF TypeOK, Listed, At, Goes, Recorded
<1>1. CASE CreateRecord(p) BY <1>1 DEF CreateRecord, ServerType
<1>2. CASE WriteRecord(p) BY <1>2 DEF WriteRecord, ServerType, ProcessRecord
<1>3. CASE StartStdio(p) BY <1>3 DEF StartStdio, ServerType
<1>4. CASE StartHttp(p) BY <1>4 DEF StartHttp, ServerType
<1>5. CASE ShutDown(p) BY <1>5 DEF ShutDown, ServerType
<1>6. CASE DropRecord(p) BY <1>6 DEF DropRecord, ServerType
<1>7. CASE DropRuntime(p) BY <1>7 DEF DropRuntime, ServerType
<1>8. CASE Exit(p) BY <1>8 DEF Exit, NoServer
<1>9. CASE SeeParentLoss(p) BY <1>9 DEF SeeParentLoss, ServerType
<1>10. CASE \E transport \in Transports : Launch(p, transport)
  BY <1>10 DEF Launch, NoServer
<1>11. CASE RegisterFails(p) BY <1>11 DEF RegisterFails, ServerType
<1>12. CASE Initialized(p) BY <1>12 DEF Initialized, ServerType
<1>13. CASE TransportEnds(p) BY <1>13 DEF TransportEnds, ServerType
<1>14. CASE FailedProbe(p) BY <1>14 DEF FailedProbe, ServerType
<1>15. CASE Open(p) BY <1>15 DEF Open
<1>16. CASE ActorEnds(p) BY <1>16 DEF ActorEnds
<1>17. CASE Kill(p) BY <1>17 DEF Kill, NoServer
<1>18. CASE ClientMoves(p) BY <1>18 DEF ClientMoves, ServerType
<1>19. CASE StrangerMoves(p) BY <1>19 DEF StrangerMoves, ServerType
<1> QED
  BY <1>1, <1>2, <1>3, <1>4, <1>5, <1>6, <1>7, <1>8, <1>9, <1>10, <1>11, <1>12, <1>13, <1>14,
     <1>15, <1>16, <1>17, <1>18, <1>19 DEF Server, ServerStep, Watch, World

(* Its projects: none before it serves, none left resident by any way out.  *)
LEMMA StaysShut ==
  ASSUME TypeOK, NEW p \in Pids, Server(p), Projects(p)
  PROVE  Projects(p)'
<1> USE DEF TypeOK, Projects, At, Goes
<1>1. CASE CreateRecord(p) BY <1>1 DEF CreateRecord, ServerType
<1>2. CASE WriteRecord(p) BY <1>2 DEF WriteRecord, ServerType
<1>3. CASE StartStdio(p) BY <1>3 DEF StartStdio, ServerType
<1>4. CASE StartHttp(p) BY <1>4 DEF StartHttp, ServerType
<1>5. CASE ShutDown(p) BY <1>5 DEF ShutDown, ServerType
<1>6. CASE DropRecord(p) BY <1>6 DEF DropRecord, ServerType
<1>7. CASE DropRuntime(p) BY <1>7 DEF DropRuntime, ServerType, shutdown_all
<1>8. CASE Exit(p) BY <1>8 DEF Exit, NoServer
<1>9. CASE SeeParentLoss(p) BY <1>9 DEF SeeParentLoss, ServerType
<1>10. CASE \E transport \in Transports : Launch(p, transport)
  BY <1>10 DEF Launch, NoServer
<1>11. CASE RegisterFails(p) BY <1>11 DEF RegisterFails, ServerType
<1>12. CASE Initialized(p) BY <1>12 DEF Initialized, ServerType
<1>13. CASE TransportEnds(p) BY <1>13 DEF TransportEnds, ServerType
<1>14. CASE FailedProbe(p) BY <1>14 DEF FailedProbe, ServerType
<1>15. CASE Open(p) BY <1>15 DEF Open
<1>16. CASE ActorEnds(p) BY <1>16 DEF ActorEnds
<1>17. CASE Kill(p) BY <1>17 DEF Kill, NoServer
<1>18. CASE ClientMoves(p) BY <1>18 DEF ClientMoves, ServerType
<1>19. CASE StrangerMoves(p) BY <1>19 DEF StrangerMoves, ServerType
<1> QED
  BY <1>1, <1>2, <1>3, <1>4, <1>5, <1>6, <1>7, <1>8, <1>9, <1>10, <1>11, <1>12, <1>13, <1>14,
     <1>15, <1>16, <1>17, <1>18, <1>19 DEF Server, ServerStep, Watch, World

(* Its being marked as raced: Launch looks at the doctor that is running.   *)
LEMMA StaysRaced ==
  ASSUME TypeOK, NEW p \in Pids, Server(p), FoundDead(p)
  PROVE  FoundDead(p)'
<1>1. doctor' = doctor
  BY StaysTyped
<1>2. CASE \E transport \in Transports : Launch(p, transport)
  <2>1. PICK transport \in Transports : Launch(p, transport)
    BY <1>2
  <2>2. server'[p].raced = (p \in doctor.dead)
    BY <2>1, Zenon DEF Launch, TypeOK, NoServer
  <2>3. QED BY <1>1, <2>2 DEF FoundDead
<1>3. CASE ~\E transport \in Transports : Launch(p, transport)
  <2>1. \/ server'[p].stage = "free" \/ server'[p].stage = "stranger"
        \/ server'[p].raced = server[p].raced /\ server[p].stage \notin {"free", "stranger"}
        \/ server'[p] = server[p]
    <3> USE DEF TypeOK, At, Goes, ServerType
    <3>1. CASE CreateRecord(p) BY <3>1 DEF CreateRecord
    <3>2. CASE WriteRecord(p) BY <3>2 DEF WriteRecord
    <3>3. CASE StartStdio(p) BY <3>3 DEF StartStdio
    <3>4. CASE StartHttp(p) BY <3>4 DEF StartHttp
    <3>5. CASE ShutDown(p) BY <3>5 DEF ShutDown
    <3>6. CASE DropRecord(p) BY <3>6 DEF DropRecord
    <3>7. CASE DropRuntime(p) BY <3>7 DEF DropRuntime
    <3>8. CASE Exit(p) BY <3>8 DEF Exit, NoServer
    <3>9. CASE SeeParentLoss(p) BY <3>9 DEF SeeParentLoss
    <3>10. CASE RegisterFails(p) BY <3>10 DEF RegisterFails
    <3>11. CASE Initialized(p) BY <3>11 DEF Initialized
    <3>12. CASE TransportEnds(p) BY <3>12 DEF TransportEnds
    <3>13. CASE FailedProbe(p) BY <3>13 DEF FailedProbe
    <3>14. CASE Open(p) \/ ActorEnds(p) BY <3>14 DEF Open, ActorEnds
    <3>15. CASE Kill(p) BY <3>15 DEF Kill, NoServer
    <3>16. CASE ClientMoves(p) BY <3>16 DEF ClientMoves, Recorded
    <3>17. CASE StrangerMoves(p) BY <3>17 DEF StrangerMoves
    <3> QED
      BY <1>3, <3>1, <3>2, <3>3, <3>4, <3>5, <3>6, <3>7, <3>8, <3>9, <3>10, <3>11, <3>12, <3>13,
         <3>14, <3>15, <3>16, <3>17 DEF Server, ServerStep, Watch, World
  <2>2. QED BY <1>1, <2>1 DEF FoundDead
<1>4. QED BY <1>2, <1>3
-----------------------------------------------------------------------------
LEMMA Inductive == IInv /\ [Next]_vars => IInv'
<1> SUFFICES ASSUME IInv, [Next]_vars PROVE IInv'
  OBVIOUS
<1>1. CASE \E p \in Pids : Server(p)
  <2>1. PICK p \in Pids : Server(p)
    BY <1>1
  <2>2. /\ TypeOK' /\ doctor' = doctor
        /\ \A q \in Pids : q # p => /\ server'[q] = server[q] /\ registry'[q] = registry[q]
                                    /\ project'[q] = project[q]
    BY <2>1, StaysTyped DEF IInv
  <2>3. FoundDead(p)' /\ Listed(p)' /\ Projects(p)'
    BY <2>1, StaysRaced, StaysListed, StaysShut DEF IInv
  <2>4. ASSUME NEW q \in Pids, q # p PROVE FoundDead(q)' /\ Listed(q)' /\ Projects(q)'
    BY <2>2, <2>4 DEF IInv, FoundDead, Listed, Projects, At
  <2>5. QED BY <2>2, <2>3, <2>4 DEF IInv
<1>2. CASE Doctor
  <2>1. /\ TypeOK' /\ server' = server /\ project' = project
        /\ \A p \in doctor'.dead : p \in doctor.dead \/ server[p].stage = "free"
        /\ \A p \in Pids : registry'[p] # registry[p] => p \in doctor.dead
    BY <1>2, DoctorStaysTyped DEF IInv
  <2>2. ASSUME NEW p \in Pids PROVE FoundDead(p)' /\ Listed(p)' /\ Projects(p)'
    <3>1. FoundDead(p)'
      BY <2>1 DEF IInv, FoundDead
    <3>2. Listed(p)'
      BY <2>1 DEF IInv, FoundDead, Listed, Recorded
    <3>3. Projects(p)'
      BY <2>1 DEF IInv, Projects, At
    <3>4. QED BY <3>1, <3>2, <3>3
  <2>3. QED BY <2>1, <2>2 DEF IInv
<1>3. CASE UNCHANGED vars
  BY <1>3 DEF IInv, vars, TypeOK, FoundDead, Listed, Projects, At
<1>4. QED BY <1>1, <1>2, <1>3 DEF Next, Server

(* A running server that no doctor had found dead is always on record.      *)
THEOREM RecordsAreKept == Spec => []OnlyRacedRecordsVanish
<1>1. IInv => OnlyRacedRecordsVanish
  BY DEF IInv, Listed, OnlyRacedRecordsVanish
<1>2. QED BY <1>1, Initially, Inductive, PTL DEF Spec

(* Whatever ended the server, no project is left that was not told to stop. *)
THEOREM ProjectsAreTold == Spec => []NoProjectIsForgotten
<1>1. IInv => NoProjectIsForgotten
  BY DEF IInv, Projects, NoProjectIsForgotten
<1>2. QED BY <1>1, Initially, Inductive, PTL DEF Spec
=============================================================================
