------------------------ MODULE WorkerInstall_proofs ------------------------
(***************************************************************************)
(* For any toolchains, any number of republished headers and upgraded      *)
(* hosts, flags, and kills at any step: what one install-worker process at *)
(* a time leaves on disk is vouched for only when it was smoked, or was    *)
(* put beside a sidecar that vouched already.                              *)
(***************************************************************************)
EXTENDS WorkerInstall, TLAPS

Hypotheses == ~HeaderMoves /\ \A i, j \in Installers : i = j

(* Nothing recorded is ahead of the toolchain or the host, so a sidecar    *)
(* that has ceased to vouch does not begin again.                          *)
Disk(id) ==
  /\ sidecar[id].digest <= lean_h[id] /\ sidecar[id].protocol <= host_protocol
  /\ Vouched(id) /\ Present(id) => Earned(id)

(* From its decision to its record an installer works on a worker nobody   *)
(* vouches for, or one it knows to inherit, and what it holds is of the    *)
(* toolchain and host there are.                                           *)
Staging == {"remove_old", "move", "copy"}
Published == {"smoke", "hash", "truncate", "write"}
Job(i) ==
  LET id == task[i].id
  IN  /\ pc[i] \notin {"idle", "clear"} => Window[id] # "out_of_window"
      /\ pc[i] \in Staging =>
           /\ Vouched(id) => task[i].staged.inherits
           /\ task[i].staged.header = lean_h[id] /\ task[i].staged.protocol = host_protocol
      /\ pc[i] \in Published =>
           /\ Vouched(id) => binary[id].inherits
           /\ binary[id].header = lean_h[id] /\ binary[id].protocol = host_protocol
      /\ pc[i] \in {"hash", "truncate", "write"} /\ task[i].smoke = "passed" => binary[id].smoked
      /\ pc[i] \in {"truncate", "write"} => task[i].digest = lean_h[id]
      /\ pc[i] = "finish" /\ task[i].smoke = "passed" => Vouched(id) /\ Present(id)

IInv == TypeOK /\ (\A id \in Ids : Disk(id)) /\ \A i \in Installers : Job(i)
-----------------------------------------------------------------------------
(* Updates of one file or of one installer's task keep their types.         *)
LEMMA IdsAreNamed == (CHOOSE id \in Ids : TRUE) \in Ids
BY InstallConstants

LEMMA NothingIsTyped ==
  NoBinary \in Binary /\ NoSidecar \in Sidecar /\ NoTask \in Task
BY IdsAreNamed DEF NoBinary, Binary, NoSidecar, Sidecar, NoTask, Task

LEMMA SetTask ==
  ASSUME task \in [Installers -> Task], NEW i \in Installers, NEW id \in Ids,
         NEW staged \in Binary, NEW verdict \in {"passed", "failed"}, NEW digest \in Nat
  PROVE  /\ [task EXCEPT ![i].id = id] \in [Installers -> Task]
         /\ [task EXCEPT ![i].id = id, ![i].staged = staged] \in [Installers -> Task]
         /\ [task EXCEPT ![i].smoke = verdict] \in [Installers -> Task]
         /\ [task EXCEPT ![i].digest = digest] \in [Installers -> Task]
BY DEF Task

LEMMA SetSmoked ==
  ASSUME binary \in [Ids -> Binary], NEW id \in Ids
  PROVE  [binary EXCEPT ![id].smoked = TRUE] \in [Ids -> Binary]
BY DEF Binary

LEMMA TaskFields ==
  ASSUME TypeOK, NEW i \in Installers
  PROVE  /\ task[i].id \in Ids /\ task[i].staged \in Binary
         /\ task[i].smoke \in {"passed", "failed"} /\ task[i].digest \in Nat
         /\ [task[i].staged EXCEPT !.runs = FALSE] \in Binary
BY DEF TypeOK, Task, Binary

Installer(i) == Publish(i) \/ Vouch(i) \/ RemoveWorkers(i) \/ Crash(i) \/ \E id \in Ids : Build(i, id)

LEMMA StaysTyped ==
  ASSUME TypeOK, NEW i \in Installers, Installer(i)
  PROVE  TypeOK'
<1> USE TaskFields, NothingIsTyped DEF TypeOK, Steps, Goto
<1>1. CASE RemoveOld(i) BY <1>1 DEF RemoveOld, Install, hostVars
<1>2. CASE Rename(i) BY <1>2 DEF Rename, Install, hostVars
<1>3. CASE CopyStarts(i) BY <1>3 DEF CopyStarts, Install, hostVars
<1>4. CASE CopyEnds(i) BY <1>4 DEF CopyEnds, Install, hostVars
<1>5. CASE Smoke(i)
  <2>1. PICK verdict \in {"passed", "failed"} :
          /\ task' = [task EXCEPT ![i].smoke = verdict]
          /\ binary' = IF verdict = "passed" THEN [binary EXCEPT ![task[i].id].smoked = TRUE]
                       ELSE binary
    BY <1>5 DEF Smoke
  <2>2. task' \in [Installers -> Task] BY <2>1, SetTask, 0 \in Nat
  <2>3. binary' \in [Ids -> Binary] BY <2>1, SetSmoked
  <2>4. QED BY <1>5, <2>2, <2>3 DEF Smoke, hostVars
<1>6. CASE HashHeader(i)
  <2>1. lean_h[task[i].id] \in Nat OBVIOUS
  <2>2. task' \in [Installers -> Task]
    BY <1>6, <2>1, SetTask DEF HashHeader, hash_lean_header
  <2>3. QED BY <1>6, <2>2 DEF HashHeader, hostVars, diskVars
<1>7. CASE Truncate(i) BY <1>7 DEF Truncate, Record, hostVars
<1>8. CASE Write(i)
  <2>1. [digest |-> task[i].digest, protocol |-> host_protocol, smoke |-> RecordedSmoke(i)]
          \in Sidecar
    BY DEF Sidecar, RecordedSmoke
  <2>2. QED BY <1>8, <2>1 DEF Write, Record, hostVars
<1>9. CASE Finish(i) \/ HashFails(i) \/ Crash(i) \/ ClearEnds(i)
  BY <1>9 DEF Finish, HashFails, Crash, ClearEnds, Leave, hostVars, diskVars
<1>10. CASE \E id \in Ids : Clean(i, id) \/ Prune(i, id)
  <2>1. PICK id \in Ids : Remove(i, id) BY <1>10 DEF Clean, Prune
  <2>2. task' \in [Installers -> Task] BY <2>1, SetTask DEF Remove
  <2>3. QED BY <2>1, <2>2 DEF Remove, hostVars, diskVars
<1>11. CASE ClearFile(i) BY <1>11 DEF ClearFile, Install, Record, hostVars
<1>12. CASE \E id \in Ids : Build(i, id)
  <2>1. PICK id \in Ids, runs \in BOOLEAN :
          task' = [task EXCEPT
            ![i].id = id,
            ![i].staged = [header |-> lean_h[id], protocol |-> host_protocol, runs |-> runs,
                           smoked |-> FALSE, inherits |-> Vouched(id)]]
    BY <1>12 DEF Build
  <2>2. [header |-> lean_h[id], protocol |-> host_protocol, runs |-> runs, smoked |-> FALSE,
         inherits |-> Vouched(id)] \in Binary
    BY DEF Binary, Vouched
  <2>3. task' \in [Installers -> Task] BY <2>1, <2>2, SetTask
  <2>4. QED BY <1>12, <2>3 DEF Build, hostVars, diskVars
<1>13. QED
  BY <1>1, <1>2, <1>3, <1>4, <1>5, <1>6, <1>7, <1>8, <1>9, <1>10, <1>11, <1>12
  DEF Installer, Publish, Vouch, RemoveWorkers

LEMMA WorldStaysTyped ==
  ASSUME TypeOK, UpgradeHost \/ \E id \in Ids : Republish(id) \/ Elan(id)
  PROVE  TypeOK'
<1>1. CASE UpgradeHost BY <1>1 DEF TypeOK, UpgradeHost, diskVars
<1>2. CASE \E id \in Ids : Republish(id)
  <2>1. PICK id \in Ids : Republish(id) BY <1>2
  <2>2. lean_h' \in [Ids -> Nat \ {0}] BY <2>1 DEF TypeOK, Republish
  <2>3. QED BY <2>1, <2>2 DEF TypeOK, Republish, diskVars
<1>3. CASE \E id \in Ids : Elan(id)
  <2>1. PICK id \in Ids : Elan(id) BY <1>3
  <2>2. elan' \in [Ids -> {"readable", "unreadable", "missing"}] BY <2>1 DEF TypeOK, Elan
  <2>3. QED BY <2>1, <2>2 DEF TypeOK, Elan, diskVars
<1>4. QED BY <1>1, <1>2, <1>3

-----------------------------------------------------------------------------
LEMMA DiskFields ==
  ASSUME TypeOK, NEW id \in Ids
  PROVE  /\ lean_h[id] \in Nat \ {0} /\ host_protocol \in Nat \ {0}
         /\ binary[id].header \in Nat /\ binary[id].protocol \in Nat
         /\ binary[id].smoked \in BOOLEAN /\ binary[id].inherits \in BOOLEAN
         /\ sidecar[id].digest \in Nat /\ sidecar[id].protocol \in Nat
         /\ sidecar[id].smoke \in {"passed", "failed", "none"}
BY DEF TypeOK, Binary, Sidecar

(* A worker nobody touches in a step keeps what the invariant says of it.  *)
LEMMA OthersKeep ==
  ASSUME NEW id \in Ids, Disk(id), UNCHANGED hostVars,
         binary'[id] = binary[id], sidecar'[id] = sidecar[id]
  PROVE  Disk(id)'
BY DEF Disk, Vouched, Earned, Present, protocol_differs, hostVars

LEMMA Initially == ASSUME Init PROVE IInv
<1>1. TypeOK
  <2>1. /\ elan \in [Ids -> {"readable", "unreadable", "missing"}]
        /\ lean_h \in [Ids -> Nat \ {0}] /\ host_protocol \in Nat \ {0}
        /\ pc \in [Installers -> Steps]
    BY DEF Init, Steps
  <2>2. ASSUME NEW b \in [header : {1}, protocol : {1}, runs : {TRUE}, smoked : BOOLEAN,
                          inherits : {FALSE}]
        PROVE  b \in Binary
    <3>1. /\ b.smoked \in BOOLEAN
          /\ b = [header |-> 1, protocol |-> 1, runs |-> TRUE, smoked |-> b.smoked,
                   inherits |-> FALSE]
      OBVIOUS
    <3> DEFINE smoked == b.smoked
    <3> HIDE DEF smoked
    <3>2. [header |-> 1, protocol |-> 1, runs |-> TRUE, smoked |-> smoked, inherits |-> FALSE]
            \in Binary
      BY <3>1 DEF Binary, smoked
    <3>3. QED BY <3>1, <3>2 DEF smoked
  <2>3. [digest : {1}, protocol : {0}, smoke : {"none", "passed"}] \subseteq Sidecar
    BY DEF Sidecar
  <2> DEFINE OldBinaries == [header : {1}, protocol : {1}, runs : {TRUE}, smoked : BOOLEAN,
                              inherits : {FALSE}]
             OldSidecars == [digest : {1}, protocol : {0}, smoke : {"none", "passed"}]
  <2>4. /\ binary \in [Ids -> {NoBinary} \cup OldBinaries]
        /\ sidecar \in [Ids -> {NoSidecar} \cup OldSidecars]
    BY DEF Init
  <2>5. (\A b \in OldBinaries : b \in Binary) /\ \A r \in OldSidecars : r \in Sidecar
    BY <2>2, <2>3
  <2> HIDE DEF OldBinaries, OldSidecars
  <2>6. binary \in [Ids -> Binary] /\ sidecar \in [Ids -> Sidecar]
    BY <2>4, <2>5, NothingIsTyped
  <2>7. task \in [Installers -> Task] BY NothingIsTyped DEF Init
  <2>8. QED BY <2>1, <2>6, <2>7 DEF TypeOK
<1>2. ASSUME NEW id \in Ids PROVE Disk(id)
  <2>1. /\ \/ sidecar[id] = NoSidecar
           \/ sidecar[id].digest = 1 /\ sidecar[id].protocol = 0
        /\ binary[id] = NoBinary \/ binary[id].header = 1
        /\ sidecar[id].smoke = "passed" => binary[id].smoked
        /\ lean_h[id] = 1 /\ host_protocol = 1
    BY DEF Init
  <2>2. NoSidecar.digest = 0 /\ NoSidecar.protocol = 0 /\ ~NoBinary.smoked
    BY DEF NoSidecar, NoBinary
  <2>3. sidecar[id].digest <= 1 /\ sidecar[id].protocol = 0
    BY <2>1, <2>2
  <2>4. Vouched(id) => binary[id].smoked /\ Present(id) /\ binary[id].header = 1
    BY <2>1, <2>2 DEF Vouched, Present
  <2>5. QED BY <2>1, <2>3, <2>4 DEF Disk, Earned
<1>3. ASSUME NEW i \in Installers PROVE Job(i)
  BY DEF Init, Job, Staging, Published
<1>4. QED BY <1>1, <1>2, <1>3 DEF IInv

-----------------------------------------------------------------------------
(* One step of the installer there is, on the worker it works on.           *)
LEMMA PublishKeeps ==
  ASSUME IInv, NEW i \in Installers, Publish(i), TypeOK'
  PROVE  (\A id \in Ids : Disk(id)') /\ Job(i)'
<1>0. PICK id \in Ids : id = task[i].id BY TaskFields DEF IInv
<1>1. /\ sidecar' = sidecar /\ task' = task /\ UNCHANGED hostVars
      /\ \A other \in Ids : other # id => binary'[other] = binary[other]
      /\ pc[i] \in Staging /\ pc'[i] \in {"move", "copy", "smoke"}
      /\ \/ binary'[id] = NoBinary /\ pc'[i] # "smoke"
         \/ /\ binary'[id].header = task[i].staged.header
            /\ binary'[id].protocol = task[i].staged.protocol
            /\ binary'[id].inherits = task[i].staged.inherits
  <2>1. TypeOK BY DEF IInv
  <2> USE <1>0, <2>1, TaskFields DEF Install, Goto, TypeOK, Staging, hostVars
  <2>2. CASE RemoveOld(i) BY <2>2 DEF RemoveOld
  <2>3. CASE Rename(i) BY <2>3 DEF Rename
  <2>4. CASE CopyStarts(i)
    <3>1. binary'[id] = [task[i].staged EXCEPT !.runs = FALSE] BY <2>4 DEF CopyStarts
    <3>2. /\ binary'[id].header = task[i].staged.header
          /\ binary'[id].protocol = task[i].staged.protocol
          /\ binary'[id].inherits = task[i].staged.inherits
      BY <3>1 DEF Binary
    <3>3. QED BY <2>4, <3>2 DEF CopyStarts
  <2>5. CASE CopyEnds(i) BY <2>5 DEF CopyEnds
  <2>6. QED BY <2>2, <2>3, <2>4, <2>5 DEF Publish
<1>2. TypeOK /\ Job(i) /\ Disk(id) BY DEF IInv
<1>3. /\ Vouched(id) => task[i].staged.inherits
      /\ Window[id] # "out_of_window"
      /\ task[i].staged.header = lean_h[id] /\ task[i].staged.protocol = host_protocol
  BY <1>0, <1>1, <1>2 DEF Job, Staging
<1>4. Vouched(id)' => task[i].staged.inherits
  BY <1>1, <1>3 DEF Vouched, protocol_differs, hostVars
<1>5. Disk(id)' BY <1>1, <1>2, <1>3, <1>4 DEF Disk, Earned, Present, hostVars
<1>6. ASSUME NEW other \in Ids, other # id PROVE Disk(other)'
  <2>1. Disk(other) BY DEF IInv
  <2>2. QED BY <1>1, <1>6, <2>1, OthersKeep
<1>7. Job(i)' BY <1>0, <1>1, <1>3, <1>4 DEF Job, Staging, Published, hostVars
<1>8. QED BY <1>5, <1>6, <1>7

LEMMA VouchKeeps ==
  ASSUME IInv, NEW i \in Installers, Vouch(i), TypeOK'
  PROVE  (\A id \in Ids : Disk(id)') /\ Job(i)'
<1>0. PICK id \in Ids : id = task[i].id BY TaskFields DEF IInv
<1>1. TypeOK /\ Job(i) /\ Disk(id) BY DEF IInv
<1>2. pc[i] \in Published \cup {"finish"} /\ UNCHANGED hostVars
  BY DEF Vouch, Smoke, HashHeader, HashFails, Truncate, Write, Finish, Published, hostVars
<1>3. Window[id] # "out_of_window" BY <1>0, <1>1, <1>2 DEF Job, Published
<1>4. \A other \in Ids : other # id => binary'[other] = binary[other] /\ sidecar'[other] = sidecar[other]
  BY <1>0, <1>1
  DEF Vouch, Smoke, HashHeader, HashFails, Truncate, Write, Finish, Record, TypeOK, hostVars, diskVars
<1>5. ASSUME NEW other \in Ids, other # id PROVE Disk(other)'
  <2>1. Disk(other) BY DEF IInv
  <2>2. QED BY <1>2, <1>4, <1>5, <2>1, OthersKeep
<1>6. CASE Smoke(i)
  <2>1. PICK verdict \in {"passed", "failed"} :
          /\ task' = [task EXCEPT ![i].smoke = verdict]
          /\ binary' = IF verdict = "passed" THEN [binary EXCEPT ![task[i].id].smoked = TRUE]
                       ELSE binary
    BY <1>6 DEF Smoke
  <2>2. pc[i] = "smoke" /\ pc'[i] = "hash" /\ sidecar' = sidecar
    BY <1>1, <1>6 DEF Smoke, Goto, TypeOK
  <2>3. /\ task'[i].id = id /\ task'[i].smoke = verdict /\ task'[i].staged = task[i].staged
    BY <1>0, <1>1, <2>1 DEF TypeOK, Task
  <2>4. /\ binary'[id].header = binary[id].header /\ binary'[id].protocol = binary[id].protocol
        /\ binary'[id].inherits = binary[id].inherits
        /\ verdict = "passed" => binary'[id].smoked
    BY <1>0, <1>1, <2>1 DEF TypeOK, Binary
  <2>5. /\ Vouched(id) => binary[id].inherits
        /\ binary[id].header = lean_h[id] /\ binary[id].protocol = host_protocol
    BY <1>0, <1>1, <2>2 DEF Job, Published
  <2>6. Vouched(id)' => binary'[id].inherits
    BY <1>2, <2>2, <2>4, <2>5 DEF Vouched, protocol_differs, hostVars
  <2>7. Disk(id)' BY <1>1, <1>2, <2>2, <2>4, <2>5, <2>6 DEF Disk, Earned, hostVars
  <2>8. Job(i)'
    BY <1>0, <1>1, <1>2, <1>3, <2>2, <2>3, <2>4, <2>5, <2>6 DEF Job, Staging, Published, hostVars
  <2>9. QED BY <1>5, <2>7, <2>8
<1>7. CASE HashHeader(i)
  <2>0. hash_lean_header(id) # 0 => hash_lean_header(id) = lean_h[id] BY DEF hash_lean_header
  <2>1. /\ pc[i] = "hash" /\ pc'[i] = "truncate" /\ sidecar' = sidecar /\ binary' = binary
        /\ task' = [task EXCEPT ![i].digest = lean_h[id]]
    BY <1>0, <1>1, <1>7, <2>0 DEF HashHeader, Goto, TypeOK, diskVars
  <2>2. /\ task'[i].id = id /\ task'[i].smoke = task[i].smoke /\ task'[i].digest = lean_h[id]
        /\ task'[i].staged = task[i].staged
    BY <1>0, <1>1, <2>1 DEF TypeOK, Task
  <2>3. Vouched(id)' => binary'[id].inherits
    BY <1>0, <1>1, <1>2, <2>1 DEF Job, Published, Vouched, protocol_differs, hostVars
  <2>4. Disk(id)' BY <1>1, <1>2, <2>1, OthersKeep
  <2>5. Job(i)' BY <1>0, <1>1, <1>2, <1>3, <2>1, <2>2, <2>3 DEF Job, Staging, Published, hostVars
  <2>6. QED BY <1>5, <2>4, <2>5
<1>8. CASE Truncate(i)
  <2>1. /\ pc[i] = "truncate" /\ pc'[i] = "write" /\ sidecar'[id] = NoSidecar
        /\ binary' = binary /\ task' = task
    BY <1>0, <1>1, <1>8 DEF Truncate, Record, Goto, TypeOK
  <2>2. ~Vouched(id)' BY <2>1 DEF Vouched, NoSidecar
  <2>3. sidecar'[id].digest = 0 /\ sidecar'[id].protocol = 0 BY <2>1 DEF NoSidecar
  <2>4. Disk(id)' BY <1>1, <1>2, <2>2, <2>3, DiskFields DEF Disk, hostVars
  <2>5. Job(i)' BY <1>0, <1>1, <1>2, <1>3, <2>1, <2>2 DEF Job, Staging, Published, hostVars
  <2>6. QED BY <1>5, <2>4, <2>5
<1>9. CASE Write(i)
  <2>1. /\ pc[i] = "write" /\ pc'[i] = "finish" /\ binary' = binary /\ task' = task
        /\ sidecar'[id] = [digest |-> task[i].digest, protocol |-> host_protocol,
                           smoke |-> task[i].smoke]
    BY <1>0, <1>1, <1>9 DEF Write, Record, RecordedSmoke, Goto, TypeOK
  <2>2. /\ task[i].digest = lean_h[id]
        /\ binary[id].header = lean_h[id] /\ binary[id].protocol = host_protocol
        /\ task[i].smoke = "passed" => binary[id].smoked
    BY <1>0, <1>1, <2>1 DEF Job, Published
  <2>3. /\ sidecar'[id].digest = lean_h[id] /\ sidecar'[id].protocol = host_protocol
        /\ sidecar'[id].smoke = task[i].smoke
    BY <2>1, <2>2
  <2>4. Vouched(id)' <=> task[i].smoke = "passed"
    BY <1>2, <2>3 DEF Vouched, protocol_differs, hostVars
  <2>5. Present(id)'
    BY <1>1, <2>1, <2>2, DiskFields DEF Present, NoBinary
  <2>6. Vouched(id)' => Earned(id)'
    BY <1>2, <2>1, <2>2, <2>4 DEF Earned, hostVars
  <2>7. Disk(id)'
    BY <1>1, <1>2, <2>3, <2>5, <2>6, DiskFields DEF Disk, hostVars
  <2>8. Job(i)' BY <1>0, <1>3, <2>1, <2>4, <2>5 DEF Job, Staging, Published
  <2>9. QED BY <1>5, <2>7, <2>8
<1>10. CASE Finish(i) \/ HashFails(i)
  <2>1. pc[i] \in {"finish", "hash"} /\ pc'[i] = "idle" /\ sidecar' = sidecar /\ binary' = binary
    BY <1>1, <1>10 DEF Finish, HashFails, Leave, Goto, TypeOK, diskVars
  <2>2. Disk(id)' BY <1>1, <1>2, <2>1, OthersKeep
  <2>3. Job(i)' BY <2>1 DEF Job, Staging, Published
  <2>4. QED BY <1>5, <2>2, <2>3
<1>11. QED BY <1>6, <1>7, <1>8, <1>9, <1>10 DEF Vouch

(* Whichever file a removal takes first, what is left vouches for nothing. *)
LEMMA RemovalKeeps ==
  ASSUME IInv, NEW i \in Installers, RemoveWorkers(i), TypeOK'
  PROVE  (\A id \in Ids : Disk(id)') /\ Job(i)'
<1>0. PICK id \in Ids : id = task[i].id BY TaskFields DEF IInv
<1>1. TypeOK /\ \A other \in Ids : Disk(other) BY DEF IInv
<1>2. CASE ClearFile(i)
  <2>1. /\ pc[i] = "clear" /\ pc' = pc /\ task' = task /\ UNCHANGED hostVars
        /\ \A other \in Ids : other # id =>
             binary'[other] = binary[other] /\ sidecar'[other] = sidecar[other]
        /\ \/ binary'[id] = NoBinary /\ sidecar' = sidecar
           \/ sidecar'[id] = NoSidecar /\ binary' = binary
    BY <1>0, <1>1, <1>2 DEF ClearFile, Install, Record, TypeOK, hostVars
  <2>2. ASSUME NEW other \in Ids, other # id PROVE Disk(other)'
    BY <1>1, <2>1, <2>2, OthersKeep
  <2>3. ASSUME binary'[id] = NoBinary, sidecar' = sidecar PROVE Disk(id)'
    BY <1>1, <2>1, <2>3 DEF Disk, Present, hostVars
  <2>4. ASSUME sidecar'[id] = NoSidecar PROVE Disk(id)'
    <3>1. ~Vouched(id)' /\ sidecar'[id].digest = 0 /\ sidecar'[id].protocol = 0
      BY <2>4 DEF Vouched, NoSidecar
    <3>2. QED BY <1>1, <2>1, <3>1, DiskFields DEF Disk, hostVars
  <2>5. Job(i)' BY <2>1 DEF Job, Staging, Published
  <2>6. Disk(id)' BY <2>1, <2>3, <2>4
  <2>7. QED BY <2>2, <2>5, <2>6
<1>3. CASE ClearEnds(i) \/ \E other \in Ids : Clean(i, other) \/ Prune(i, other)
  <2>1. pc'[i] \in {"idle", "clear"} /\ UNCHANGED <<binary, sidecar>> /\ UNCHANGED hostVars
    BY <1>1, <1>3 DEF ClearEnds, Leave, Clean, Prune, Remove, Goto, TypeOK, hostVars, diskVars
  <2>2. \A other \in Ids : Disk(other)' BY <1>1, <2>1, OthersKeep
  <2>3. Job(i)' BY <2>1 DEF Job, Staging, Published
  <2>4. QED BY <2>2, <2>3
<1>4. QED BY <1>2, <1>3 DEF RemoveWorkers

(* The build knows what it inherits: whether the sidecar there vouches.     *)
LEMMA BuildKeeps ==
  ASSUME IInv, NEW i \in Installers, NEW id \in Ids, Build(i, id), TypeOK'
  PROVE  (\A other \in Ids : Disk(other)') /\ Job(i)'
<1>1. TypeOK /\ \A other \in Ids : Disk(other) BY DEF IInv
<1>2. PICK runs \in BOOLEAN :
        task' = [task EXCEPT
          ![i].id = id,
          ![i].staged = [header |-> lean_h[id], protocol |-> host_protocol, runs |-> runs,
                         smoked |-> FALSE, inherits |-> Vouched(id)]]
  BY DEF Build
<1>3. pc'[i] = "remove_old" /\ UNCHANGED <<binary, sidecar>> /\ UNCHANGED hostVars
  BY <1>1 DEF Build, Goto, TypeOK, hostVars, diskVars
<1>4. /\ task'[i].id = id /\ task'[i].staged.header = lean_h[id]
      /\ task'[i].staged.protocol = host_protocol
      /\ task'[i].staged.inherits = Vouched(id)
  BY <1>1, <1>2 DEF TypeOK, Task
<1>5. Window[id] # "out_of_window" BY DEF Build, auto_decision
<1>6. \A other \in Ids : Disk(other)' BY <1>1, <1>3, OthersKeep
<1>7. Vouched(id)' => Vouched(id)
  BY <1>3 DEF Vouched, protocol_differs, hostVars
<1>8. Job(i)' BY <1>3, <1>4, <1>5, <1>7 DEF Job, Staging, Published, hostVars
<1>9. QED BY <1>6, <1>8

LEMMA CrashKeeps ==
  ASSUME IInv, NEW i \in Installers, Crash(i), TypeOK'
  PROVE  (\A id \in Ids : Disk(id)') /\ Job(i)'
<1>1. TypeOK /\ \A id \in Ids : Disk(id) BY DEF IInv
<1>2. pc'[i] = "idle" /\ UNCHANGED <<binary, sidecar>> /\ UNCHANGED hostVars
  BY <1>1 DEF Crash, Leave, Goto, TypeOK, hostVars, diskVars
<1>3. \A id \in Ids : Disk(id)' BY <1>1, <1>2, OthersKeep
<1>4. Job(i)' BY <1>2 DEF Job, Staging, Published
<1>5. QED BY <1>3, <1>4

-----------------------------------------------------------------------------
(* A header republished or a host upgraded makes sidecars stale and none   *)
(* fresh; neither happens under a worker that is being installed.          *)
LEMMA WorldKeeps ==
  ASSUME IInv, Hypotheses, TypeOK', UpgradeHost \/ \E id \in Ids : Republish(id) \/ Elan(id)
  PROVE  IInv'
<1>0. TypeOK /\ UNCHANGED <<binary, sidecar, pc, task>>
  BY DEF IInv, UpgradeHost, Republish, Elan, diskVars
<1>1. CASE UpgradeHost
  <2>1. /\ lean_h' = lean_h /\ host_protocol' = host_protocol + 1
        /\ \A i \in Installers : pc[i] = "idle"
    BY <1>1 DEF UpgradeHost
  <2>2. ASSUME NEW id \in Ids PROVE Disk(id)'
    <3>1. Disk(id) BY DEF IInv
    <3>2. Vouched(id)' => Vouched(id) /\ sidecar[id].protocol = 0
      BY <1>0, <2>1, <3>1, DiskFields DEF Disk, Vouched, protocol_differs
    <3>3. QED
      BY <1>0, <2>1, <3>1, <3>2, DiskFields DEF Disk, Earned, Present
  <2>3. ASSUME NEW i \in Installers PROVE Job(i)'
    BY <1>0, <2>1 DEF Job, Staging, Published
  <2>4. QED BY <2>2, <2>3 DEF IInv
<1>2. CASE \E id \in Ids : Republish(id)
  <2>0. PICK moved \in Ids : Republish(moved) BY <1>2
  <2>1. /\ host_protocol' = host_protocol /\ lean_h'[moved] = lean_h[moved] + 1
        /\ \A id \in Ids : id # moved => lean_h'[id] = lean_h[id]
        /\ \A i \in Installers : pc[i] \notin {"idle", "clear"} => task[i].id # moved
    BY <1>0, <2>0 DEF Republish, Building, TypeOK, Hypotheses
  <2>2. ASSUME NEW id \in Ids PROVE Disk(id)'
    <3>1. Disk(id) BY DEF IInv
    <3>2. CASE id = moved
      <4>1. ~Vouched(id)'
        BY <1>0, <2>1, <3>1, <3>2, DiskFields DEF Disk, Vouched
      <4>2. QED BY <1>0, <2>1, <3>1, <3>2, <4>1, DiskFields DEF Disk
    <3>3. CASE id # moved
      BY <1>0, <2>1, <3>1, <3>3 DEF Disk, Vouched, Earned, Present, protocol_differs
    <3>4. QED BY <3>2, <3>3
  <2>3. ASSUME NEW i \in Installers PROVE Job(i)'
    <3>1. Job(i) /\ task[i].id \in Ids BY <1>0, TaskFields DEF IInv
    <3>2. CASE pc[i] \in {"idle", "clear"} BY <1>0, <3>2 DEF Job, Staging, Published
    <3>3. CASE pc[i] \notin {"idle", "clear"}
      <4>1. lean_h'[task[i].id] = lean_h[task[i].id] BY <2>1, <3>1, <3>3
      <4>2. QED
        BY <1>0, <2>1, <3>1, <4>1
        DEF Job, Staging, Published, Vouched, Present, protocol_differs
    <3>4. QED BY <3>2, <3>3
  <2>4. QED BY <2>2, <2>3 DEF IInv
<1>3. CASE \E id \in Ids : Elan(id)
  <2>1. lean_h' = lean_h /\ host_protocol' = host_protocol BY <1>3 DEF Elan
  <2>2. ASSUME NEW id \in Ids PROVE Disk(id)'
    <3>1. Disk(id) BY DEF IInv
    <3>2. QED
      BY <1>0, <2>1, <3>1 DEF Disk, Vouched, Earned, Present, protocol_differs
  <2>3. ASSUME NEW i \in Installers PROVE Job(i)'
    <3>1. Job(i) BY DEF IInv
    <3>2. QED BY <1>0, <2>1, <3>1 DEF Job, Staging, Published, Vouched, Present, protocol_differs
  <2>4. QED BY <2>2, <2>3 DEF IInv
<1>4. QED BY <1>1, <1>2, <1>3

LEMMA Inductive ==
  ASSUME Hypotheses, IInv, [Next]_vars
  PROVE  IInv'
<1>1. CASE UNCHANGED vars
  BY <1>1
  DEF vars, hostVars, diskVars, IInv, TypeOK, Disk, Job, Vouched, Earned, Present, Staging, Published,
      protocol_differs
<1>2. CASE UpgradeHost \/ \E id \in Ids : Republish(id) \/ Elan(id)
  BY <1>2, WorldStaysTyped, WorldKeeps DEF IInv
<1>3. ASSUME NEW i \in Installers, Installer(i) PROVE IInv'
  <2>1. TypeOK' BY <1>3, StaysTyped DEF IInv
  <2>2. (\A id \in Ids : Disk(id)') /\ Job(i)'
    BY <1>3, <2>1, PublishKeeps, VouchKeeps, RemovalKeeps, BuildKeeps, CrashKeeps DEF Installer
  <2>3. \A j \in Installers : j = i BY DEF Hypotheses
  <2>4. QED BY <2>1, <2>2, <2>3 DEF IInv
<1>4. QED BY <1>1, <1>2, <1>3 DEF Next, Installer

LEMMA InvariantHolds == ASSUME Hypotheses PROVE Spec => []IInv
<1>1. Init => IInv BY Initially
<1>2. IInv /\ [Next]_vars => IInv' BY Inductive
<1>3. QED BY <1>1, <1>2, PTL DEF Spec
-----------------------------------------------------------------------------
(* For every window of toolchains, while no header moves under a build and *)
(* installers come one at a time, and however often they are told to       *)
(* overwrite or are killed, headers republished, made unreadable or taken  *)
(* away, and hosts upgraded: whatever resolve_ready serves without a       *)
(* warning is of the header and protocol of now and passed its own smoke   *)
(* test or was put beside a sidecar that vouched already, unless lean.h    *)
(* cannot be read and the sidecar is of another one.                       *)
THEOREM VouchingIsEarned == ASSUME Hypotheses PROVE Spec => []ServedWasSmoked
<1>1. IInv => ServedWasSmoked
  <2> SUFFICES ASSUME IInv, NEW id \in Ids, resolve_ready(id) = "ready", ~DriftUnseen(id)
               PROVE  Earned(id)
    BY DEF ServedWasSmoked
  <2>1. /\ Present(id) /\ sidecar[id].smoke = "passed" /\ elan[id] # "missing"
        /\ Recorded(id) => ~header_drifted(id) /\ ~protocol_differs(id)
    BY DEF resolve_ready
  <2>2. Recorded(id) BY <2>1 DEF Recorded, NoSidecar
  <2>3. elan[id] \in {"readable", "unreadable"} /\ lean_h[id] \in Nat \ {0}
    BY <2>1 DEF IInv, TypeOK
  <2>4. sidecar[id].digest = lean_h[id]
    BY <2>1, <2>2, <2>3 DEF header_drifted, hash_lean_header, DriftUnseen
  <2>5. QED BY <2>1, <2>2, <2>4 DEF IInv, Disk, Vouched
<1>2. QED BY <1>1, InvariantHolds, PTL

(* Under the same hypotheses an install_one that reports success leaves a   *)
(* worker that resolve_ready serves, with a warning only for a pin whose   *)
(* place in the window is unknown.                                         *)
THEOREM SuccessIsReady == ASSUME Hypotheses PROVE Spec => []SuccessIsServed
<1>1. IInv => SuccessIsServed
  <2> SUFFICES ASSUME IInv, NEW i \in Installers, pc[i] = "finish", task[i].smoke = "passed",
                      elan[task[i].id] # "missing"
               PROVE  resolve_ready(task[i].id) \in {"ready", "unknown_pin"}
    BY DEF SuccessIsServed
  <2>1. /\ Vouched(task[i].id) /\ Present(task[i].id)
        /\ Window[task[i].id] # "out_of_window"
    BY DEF IInv, Job
  <2>2. ~header_drifted(task[i].id) BY <2>1 DEF header_drifted, hash_lean_header, Vouched
  <2>3. QED BY <2>1, <2>2 DEF resolve_ready, Vouched
<1>2. QED BY <1>1, InvariantHolds, PTL

(* The three places that judge a worker of a supported toolchain elan has  *)
(* agree in every reachable state, whatever the hypotheses, and the list   *)
(* alone tells whether anybody compared the header.                        *)
THEOREM ThreeJudgesAgree == Spec => []FreshnessMirrorsGate
<1>1. Init => TypeOK BY Initially DEF IInv
<1>2. TypeOK /\ [Next]_vars => TypeOK'
  <2> SUFFICES ASSUME TypeOK, [Next]_vars PROVE TypeOK'
    OBVIOUS
  <2>1. CASE UNCHANGED vars BY <2>1 DEF vars, hostVars, diskVars, TypeOK
  <2>2. ASSUME NEW i \in Installers, Installer(i) PROVE TypeOK' BY <2>2, StaysTyped
  <2>3. QED BY <2>1, <2>2, WorldStaysTyped DEF Next, Installer
<1>3. TypeOK => FreshnessMirrorsGate
  <2> SUFFICES ASSUME TypeOK, NEW id \in Ids, Window[id] = "supported", elan[id] # "missing"
               PROVE  /\ worker_freshness(id) = "current" <=> resolve_ready(id) = "ready"
                      /\ Present(id) => (NothingAmiss(ListRow(id)) <=> resolve_ready(id) = "ready")
                      /\ resolve_ready(id) = "ready" =>
                           (ListRow(id).build = "fresh" <=> elan[id] = "readable")
    BY DEF FreshnessMirrorsGate
  <2>1. sidecar[id].smoke = "passed" => Recorded(id) /\ sidecar[id].smoke # "failed"
    BY DEF Recorded, NoSidecar
  <2>2. worker_freshness(id) = "current" <=> resolve_ready(id) = "ready"
    BY <2>1 DEF worker_freshness, resolve_ready
  <2>3. elan[id] = "readable" <=> hash_lean_header(id) # 0
    BY DEF TypeOK, hash_lean_header
  <2>4. /\ ListRow(id).build # "stale" <=> ~Recorded(id) \/ ~header_drifted(id)
        /\ ListRow(id).build = "fresh" <=>
             Recorded(id) /\ hash_lean_header(id) # 0 /\ ~header_drifted(id)
    BY DEF ListRow, header_drifted
  <2>5. ListRow(id).runtime = "runs" <=> sidecar[id].smoke = "passed"
    BY DEF ListRow
  <2>6. ListRow(id).protocol # "incompatible" <=> ~protocol_differs(id)
    BY DEF ListRow, protocol_differs
  <2>7. Present(id) => (NothingAmiss(ListRow(id)) <=> resolve_ready(id) = "ready")
    BY <2>1, <2>4, <2>5, <2>6 DEF NothingAmiss, resolve_ready
  <2>8. resolve_ready(id) = "ready" => Recorded(id) /\ ~header_drifted(id)
    BY <2>1 DEF resolve_ready
  <2>9. QED BY <2>2, <2>3, <2>4, <2>7, <2>8
<1>4. QED BY <1>1, <1>2, <1>3, PTL DEF Spec
=============================================================================
