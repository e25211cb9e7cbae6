---------------------------- MODULE WorkersProofs ----------------------------
(***************************************************************************)
(* Theorems about Workers, for any number of processes, crashes and        *)
(* restarts: types, one leader, and what stop() leaves behind.             *)
(***************************************************************************)
EXTENDS Workers, TLAPS

(* TypeOK in four parts.                                                    *)
Phases == {"none", "try", "taken", "stale", "retry", "retaken", "made", "loaded", "up", "gone"}
Monitors == {"none", "watch", "ending", "backoff", "spawning", "over"}

ProcessType ==
    /\ phase \in [Proc -> Phases] /\ leads \in [Proc -> BOOLEAN] /\ stuck \in [Proc -> BOOLEAN]
    /\ port \in 0 .. Processes /\ crashes \in 0 .. MaxCrashes
    /\ \A p \in Proc : /\ leads[p] => phase[p] \in {"loaded", "up"}
                       /\ stuck[p] => phase[p] = "up"
                       /\ port = p <=> phase[p] = "up"

LockType == file \in FileType /\ fd \in [Proc -> 0 .. Earlier] /\ snatched \in BOOLEAN

Spawn == \A p \in Proc : monitor[p] = "none" <=> phase[p] = "none"

DaemonType ==
    /\ monitor \in [Proc -> Monitors]
    /\ restarts \in [Proc -> 0 .. MaxRestarts + 1] /\ fails \in [Proc -> 0 .. FailLimit]
    /\ current \in 0 .. Processes /\ target \in 0 .. Processes
    /\ asked \subseteq Proc /\ lost \subseteq Proc
    /\ stopping \in {"no", "asked", "done"}

LEMMA Parts == TypeOK <=> ProcessType /\ LockType /\ Spawn /\ DaemonType
  <1>1. TypeOK => ProcessType /\ LockType /\ Spawn
    BY DEF TypeOK, ProcessType, LockType, Spawn, Phases
  <1>2. TypeOK => DaemonType
    BY DEF TypeOK, DaemonType, Monitors
  <1>3. ProcessType /\ LockType /\ Spawn /\ DaemonType => TypeOK
    BY DEF TypeOK, ProcessType, LockType, Spawn, DaemonType, Phases, Monitors
  <1> QED BY <1>1, <1>2, <1>3

(* A process has a file open while it creates the lock or, as a leader,     *)
(* rewrites it; a monitor that may probe is below the limit of failures;    *)
(* _running lists only what was spawned.                                    *)
Shape ==
    /\ \A p \in Proc : fd[p] # 0 => phase[p] = "made" \/ (leads[p] /\ phase[p] = "up")
    /\ \A p \in Proc : phase[p] = "made" => fd[p] = p
    /\ \A p \in Proc : monitor[p] \notin {"ending", "over"} => fails[p] < FailLimit
    /\ current # 0 => phase[current] # "none"

(* Unless a file was snatched, the file of whoever leads, or is about to,   *)
(* is there and names it, and nobody writes to any other.                   *)
Holds(p) == leads[p] \/ phase[p] = "made"
LockHeld ==
    ~snatched => \A p \in Proc : /\ Holds(p) => file.inode = p /\ file.owner = p
                                 /\ fd[p] \in {0, p}

(* The processes that live are the one that _running lists, or stop() ends, *)
(* and those that are lost.                                                 *)
Survivors ==
    \A p \in Proc : Alive(p) => \/ p \in lost
                                \/ stopping = "no" /\ p = current
                                \/ stopping = "asked" /\ p = target

IInv == TypeOK /\ Shape /\ LockHeld /\ Survivors
-----------------------------------------------------------------------------
LEMMA FileIn ==
  ASSUME NEW i \in 0 .. Earlier, NEW q \in 0 .. Earlier, NEW e \in BOOLEAN, NEW o \in BOOLEAN
  PROVE  File(i, q, e, o) \in FileType
  BY DEF File, FileType

LEMMA NoFileIn == NoFile \in FileType
  <1>1. 0 \in 0 .. Earlier /\ FALSE \in BOOLEAN
    BY CronLockAssumption DEF Earlier
  <1> QED BY <1>1, FileIn DEF NoFile

LEMMA Start == Init => IInv
  <1> SUFFICES ASSUME Init PROVE IInv
      OBVIOUS
  <1> USE CronLockAssumption, WorkersAssumption
  <1>1. ProcessType
    BY DEF Init, LockInit, ProcessType, Phases, Proc
  <1>2. LockType
    <2>1. 0 \in 0 .. Earlier /\ Earlier \in 0 .. Earlier /\ FALSE \in BOOLEAN
      BY DEF Earlier
    <2>2. NoFile \in FileType /\ File(Earlier, Earlier, FALSE, FALSE) \in FileType
      BY <2>1, FileIn, NoFileIn
    <2>3. fd \in [Proc -> 0 .. Earlier]
      BY <2>1 DEF Init, LockInit
    <2>4. file \in FileType /\ snatched \in BOOLEAN
      BY <2>2 DEF Init, LockInit
    <2> QED BY <2>3, <2>4 DEF LockType
  <1>3. Spawn
    BY DEF Init, LockInit, Spawn, Proc
  <1>4. DaemonType
    BY DEF Init, DaemonType, Monitors, Proc
  <1>5. Shape
    BY DEF Init, LockInit, Shape, Proc
  <1>6. LockHeld
    BY DEF Init, LockInit, LockHeld, Holds, Proc
  <1>7. Survivors
    BY DEF Init, LockInit, Survivors, Alive, Proc
  <1> QED BY <1>1, <1>2, <1>3, <1>4, <1>5, <1>6, <1>7, Parts DEF IInv
-----------------------------------------------------------------------------
(* The steps of the processes, while the daemon's variables stay.           *)
Sound == ProcessType /\ LockType /\ Spawn /\ Shape

LEMMA CreateStep ==
  ASSUME Sound, NEW p \in Proc, Create(p), UNCHANGED daemonVars
  PROVE  Sound'
  <1> USE CronLockAssumption
  <1>1. CASE Here
    <2>1. UNCHANGED <<leads, stuck, port, crashes, snatched, file, fd>>
      BY <1>1 DEF Create
    <2>2. phase' = [phase EXCEPT ![p] = IF phase[p] = "try" THEN "taken" ELSE "retaken"]
          /\ phase[p] \in {"try", "retry"}
      BY <1>1 DEF Create, To
    <2>3. ProcessType' /\ LockType'
      BY <2>1, <2>2 DEF Sound, ProcessType, LockType, Phases
    <2>4. Spawn' /\ Shape'
      BY <2>1, <2>2 DEF Sound, ProcessType, Phases, Spawn, Shape, daemonVars, Proc
    <2> QED BY <2>3, <2>4 DEF Sound
  <1>2. CASE ~Here
    <2>1. UNCHANGED <<leads, stuck, port, crashes, snatched>>
      BY <1>2 DEF Create
    <2>2. /\ phase' = [phase EXCEPT ![p] = "made"] /\ phase[p] \in {"try", "retry"}
          /\ fd' = [fd EXCEPT ![p] = p] /\ file' = File(p, p, TRUE, FALSE)
      BY <1>2 DEF Create, To
    <2>3. p \in 0 .. Earlier
      BY DEF Proc, Earlier
    <2>4. file' \in FileType
      BY <2>2, <2>3, FileIn
    <2>5. ProcessType'
      BY <2>1, <2>2 DEF Sound, ProcessType, Phases
    <2>6. LockType'
      BY <2>1, <2>2, <2>3, <2>4 DEF Sound, LockType
    <2>7. Spawn' /\ Shape'
      BY <2>1, <2>2 DEF Sound, ProcessType, LockType, Phases, Spawn, Shape, daemonVars, Proc
    <2> QED BY <2>5, <2>6, <2>7 DEF Sound
  <1> QED BY <1>1, <1>2

LEMMA LookStep ==
  ASSUME Sound, NEW p \in Proc, Look(p), UNCHANGED daemonVars
  PROVE  Sound'
  <1>1. UNCHANGED <<leads, stuck, port, file, fd, crashes, snatched>>
    BY DEF Look
  <1>2. /\ phase[p] \in {"taken", "retaken"}
        /\ \E ph \in {"stale", "loaded"} : phase' = [phase EXCEPT ![p] = ph]
    BY DEF Look, To
  <1>3. PICK ph \in {"stale", "loaded"} : phase' = [phase EXCEPT ![p] = ph]
    BY <1>2
  <1>4. ProcessType' /\ LockType'
    BY <1>1, <1>2, <1>3 DEF Sound, ProcessType, LockType, Phases
  <1>5. Spawn' /\ Shape'
    BY <1>1, <1>2, <1>3 DEF Sound, ProcessType, Phases, Spawn, Shape, daemonVars, Proc
  <1> QED BY <1>4, <1>5 DEF Sound

LEMMA UnlinkStep ==
  ASSUME Sound, NEW p \in Proc, Unlink(p), UNCHANGED daemonVars
  PROVE  Sound'
  <1>1. /\ UNCHANGED <<leads, stuck, port, fd, crashes>> /\ file' = NoFile
        /\ phase[p] = "stale" /\ phase' = [phase EXCEPT ![p] = "retry"]
    BY DEF Unlink, To
  <1>2. snatched' \in BOOLEAN
    BY DEF Unlink
  <1>3. file' \in FileType
    BY <1>1, NoFileIn
  <1>4. ProcessType' /\ LockType'
    BY <1>1, <1>2, <1>3 DEF Sound, ProcessType, LockType, Phases
  <1>5. Spawn' /\ Shape'
    BY <1>1 DEF Sound, ProcessType, Phases, Spawn, Shape, daemonVars, Proc
  <1> QED BY <1>4, <1>5 DEF Sound

LEMMA TruncateStep ==
  ASSUME Sound, NEW p \in Proc, Truncate(p), UNCHANGED daemonVars
  PROVE  Sound'
  <1>1. /\ UNCHANGED <<phase, leads, stuck, port, crashes, snatched>>
        /\ phase[p] = "up" /\ leads[p]
        /\ file' = [file EXCEPT !.empty = TRUE] /\ fd' = [fd EXCEPT ![p] = file.inode]
    BY DEF Truncate
  <1>2. file' \in FileType /\ file.inode \in 0 .. Earlier
    BY <1>1 DEF Sound, LockType, FileType
  <1>3. ProcessType' /\ LockType'
    BY <1>1, <1>2 DEF Sound, ProcessType, LockType
  <1>4. Spawn' /\ Shape'
    BY <1>1, <1>2 DEF Sound, ProcessType, LockType, Spawn, Shape, daemonVars, Proc
  <1> QED BY <1>3, <1>4 DEF Sound

LEMMA WriteStep ==
  ASSUME Sound, NEW p \in Proc, Write(p), UNCHANGED daemonVars
  PROVE  Sound'
  <1>1. /\ UNCHANGED <<stuck, port, crashes, snatched>> /\ fd[p] # 0
        /\ fd' = [fd EXCEPT ![p] = 0] /\ leads' = [leads EXCEPT ![p] = TRUE]
        /\ phase' = [phase EXCEPT ![p] = IF phase[p] = "made" THEN "loaded" ELSE phase[p]]
        /\ file' \in {file, File(fd[p], p, FALSE, FALSE)}
    BY DEF Write, To
  <1>2. p \in 0 .. Earlier /\ fd[p] \in 0 .. Earlier
    BY CronLockAssumption DEF Sound, LockType, Proc, Earlier
  <1>3. file' \in FileType
    BY <1>1, <1>2, FileIn DEF Sound, LockType
  <1>4. phase[p] \in {"made", "up"}
    BY <1>1 DEF Sound, Shape
  <1>5. ProcessType'
    BY <1>1, <1>4 DEF Sound, ProcessType, Phases
  <1>6. LockType'
    BY <1>1, <1>3, CronLockAssumption DEF Sound, LockType, Earlier
  <1>7. Spawn' /\ Shape'
    BY <1>1, <1>4 DEF Sound, ProcessType, LockType, Phases, Spawn, Shape, daemonVars, Proc
  <1> QED BY <1>5, <1>6, <1>7 DEF Sound

LEMMA GrowOldStep ==
  ASSUME Sound, GrowOld, UNCHANGED daemonVars
  PROVE  Sound'
  <1>1. /\ UNCHANGED <<phase, leads, stuck, port, fd, crashes, snatched>>
        /\ file' = [file EXCEPT !.old = TRUE]
    BY DEF GrowOld
  <1>2. file' \in FileType
    BY <1>1 DEF Sound, LockType, FileType
  <1> QED BY <1>1, <1>2 DEF Sound, ProcessType, LockType, Spawn, Shape, daemonVars

LEMMA GoneStep ==
  ASSUME Sound, NEW p \in Proc, Gone(p), phase[p] # "none", file' \in {file, NoFile},
         crashes' \in 0 .. MaxCrashes, snatched' = snatched, UNCHANGED daemonVars
  PROVE  Sound'
  <1>1. /\ phase' = [phase EXCEPT ![p] = "gone"] /\ leads' = [leads EXCEPT ![p] = FALSE]
        /\ stuck' = [stuck EXCEPT ![p] = FALSE] /\ fd' = [fd EXCEPT ![p] = 0]
        /\ port' = IF port = p THEN 0 ELSE port
    BY DEF Gone, To
  <1>2. file' \in FileType
    BY NoFileIn DEF Sound, LockType
  <1>3. ProcessType'
    BY <1>1, CronLockAssumption DEF Sound, ProcessType, Phases, Proc
  <1>4. LockType'
    BY <1>1, <1>2, CronLockAssumption DEF Sound, LockType, Earlier
  <1>5. Spawn' /\ Shape'
    BY <1>1 DEF Sound, ProcessType, LockType, Phases, Spawn, Shape, daemonVars, Proc
  <1> QED BY <1>3, <1>4, <1>5 DEF Sound

LEMMA BindStep ==
  ASSUME Sound, NEW p \in Proc, Bind(p), UNCHANGED daemonVars
  PROVE  Sound'
  <1>1. CASE port = 0
    <2>1. /\ UNCHANGED <<leads, stuck, file, fd, crashes, snatched>> /\ phase[p] = "loaded"
          /\ port' = p /\ phase' = [phase EXCEPT ![p] = "up"]
      BY <1>1 DEF Bind, To
    <2>2. ProcessType' /\ LockType'
      BY <1>1, <2>1, CronLockAssumption DEF Sound, ProcessType, LockType, Phases, Proc
    <2>3. Spawn' /\ Shape'
      BY <2>1 DEF Sound, ProcessType, LockType, Phases, Spawn, Shape, daemonVars, Proc
    <2> QED BY <2>2, <2>3 DEF Sound
  <1>2. CASE port # 0
    BY <1>2, GoneStep DEF Bind, Leave, Sound, ProcessType
  <1> QED BY <1>1, <1>2

LEMMA StuckStep ==
  ASSUME Sound, NEW p \in Proc, GetStuck(p) \/ GoOn(p), UNCHANGED daemonVars
  PROVE  Sound'
  <1>1. /\ UNCHANGED <<phase, leads, port, file, fd, crashes, snatched>>
        /\ \/ phase[p] = "up" /\ stuck' = [stuck EXCEPT ![p] = TRUE]
           \/ stuck' = [stuck EXCEPT ![p] = FALSE]
    BY DEF GetStuck, GoOn
  <1>2. ProcessType'
    BY <1>1 DEF Sound, ProcessType
  <1> QED BY <1>1, <1>2 DEF Sound, LockType, Spawn, Shape, daemonVars
-----------------------------------------------------------------------------
(* The steps of the daemon.  Those that leave the processes alone disturb   *)
(* the monitors and what the daemon knows.                                  *)
LEMMA Quiet ==
  ASSUME ProcessType, LockType, Spawn, Shape, UNCHANGED processVars, DaemonType,
         NEW p \in Proc, monitor[p] # "none", monitor'[p] # "none",
         monitor'[p] \notin {"ending", "over"} => fails'[p] < FailLimit,
         \A q \in Proc \ {p} : monitor'[q] = monitor[q] /\ fails'[q] = fails[q],
         current' \in {0, current}
  PROVE  ProcessType' /\ LockType' /\ Spawn' /\ Shape'
  <1>1. ProcessType' /\ LockType'
    BY DEF ProcessType, LockType, processVars
  <1>2. Spawn'
    BY DEF Spawn, processVars
  <1>3. Shape'
    BY DEF Shape, processVars
  <1> QED BY <1>1, <1>2, <1>3

LEMMA BackOffStep ==
  ASSUME Sound, DaemonType, NEW p \in Proc, monitor[p] \in {"watch", "ending"}, ~Frozen, BackOff(p),
         UNCHANGED <<current, asked, stopping, target, lost, processVars>>
  PROVE  Sound' /\ DaemonType'
  <1> USE WorkersAssumption
  <1>1. /\ restarts' = [restarts EXCEPT ![p] = @ + 1] /\ fails' = [fails EXCEPT ![p] = 0]
        /\ \E st \in {"backoff", "watch"} : monitor' = [monitor EXCEPT ![p] = st]
    BY DEF BackOff, Monitor
  <1>2. PICK st \in {"backoff", "watch"} : monitor' = [monitor EXCEPT ![p] = st]
    BY <1>1
  <1>3. restarts[p] <= MaxRestarts /\ restarts[p] \in Nat
    BY DEF Frozen, DaemonType
  <1>4. restarts' \in [Proc -> 0 .. MaxRestarts + 1]
    BY <1>1, <1>3 DEF DaemonType
  <1>5. DaemonType'
    BY <1>1, <1>2, <1>4 DEF DaemonType, Monitors
  <1>6. Sound'
    BY <1>1, <1>2, Quiet DEF Sound, DaemonType
  <1> QED BY <1>5, <1>6

LEMMA ProbeStep ==
  ASSUME Sound, DaemonType, NEW p \in Proc, Probe(p)
  PROVE  Sound' /\ DaemonType'
  <1> USE WorkersAssumption
  <1>1. /\ monitor[p] = "watch"
        /\ UNCHANGED <<restarts, current, stopping, target, lost, processVars>>
    BY DEF Probe
  <1>2. fails[p] \in Nat /\ fails[p] < FailLimit
    BY <1>1 DEF Sound, Shape, DaemonType
  <1>3. CASE Responds
    <2>1. fails' = [fails EXCEPT ![p] = 0] /\ UNCHANGED <<monitor, asked>>
      BY <1>3 DEF Probe
    <2>2. DaemonType'
      BY <1>1, <2>1 DEF DaemonType
    <2>3. Sound'
      BY <1>1, <2>1, Quiet DEF Sound, DaemonType
    <2> QED BY <2>2, <2>3
  <1>4. CASE ~Responds
    <2>1. /\ fails' = [fails EXCEPT ![p] = @ + 1]
          /\ \/ fails[p] + 1 < FailLimit /\ UNCHANGED <<monitor, asked>>
             \/ monitor' = [monitor EXCEPT ![p] = "ending"] /\ asked' = asked \cup {p}
      BY <1>4 DEF Probe, Monitor
    <2>2. fails' \in [Proc -> 0 .. FailLimit]
      BY <2>1, <1>2 DEF DaemonType
    <2>3. DaemonType'
      BY <1>1, <2>1, <2>2 DEF DaemonType, Monitors
    <2>4. Sound'
      BY <1>1, <1>2, <2>1, Quiet DEF Sound, DaemonType
    <2> QED BY <2>3, <2>4
  <1> QED BY <1>3, <1>4

LEMMA MonitorMoves ==
  ASSUME Sound, DaemonType, NEW p \in Proc, WakeUp(p) \/ SpawnFails(p) \/ LeaveLoop(p)
  PROVE  Sound' /\ DaemonType'
  <1>1. /\ monitor[p] \in {"backoff", "spawning", "watch"} /\ UNCHANGED fails
        /\ UNCHANGED <<restarts, asked, stopping, target, processVars>>
        /\ \E st \in {"over", "spawning", "watch"} : monitor' = [monitor EXCEPT ![p] = st]
        /\ current' \in {0, current}
    BY DEF WakeUp, SpawnFails, LeaveLoop, Monitor
  <1>2. PICK st \in {"over", "spawning", "watch"} : monitor' = [monitor EXCEPT ![p] = st]
    BY <1>1
  <1>3. lost' \subseteq Proc
    BY DEF WakeUp, SpawnFails, LeaveLoop, DaemonType, Alive
  <1>4. monitor' \in [Proc -> Monitors]
    BY <1>2 DEF DaemonType, Monitors
  <1>5. current' \in 0 .. Processes
    BY <1>1, CronLockAssumption DEF DaemonType
  <1>6. DaemonType'
    BY <1>1, <1>3, <1>4, <1>5 DEF DaemonType
  <1>7. fails[p] < FailLimit
    BY <1>1 DEF Sound, Shape
  <1>8. Sound'
    BY <1>1, <1>2, <1>7, Quiet DEF Sound, DaemonType
  <1> QED BY <1>6, <1>8

LEMMA StopStep ==
  ASSUME Sound, DaemonType, Stop \/ StopDone
  PROVE  Sound' /\ DaemonType'
  <1>1. CASE StopDone
    <2>1. UNCHANGED <<monitor, restarts, fails, asked, target, lost, processVars>> /\ current' = 0
          /\ stopping' = "done"
      BY <1>1 DEF StopDone
    <2>2. Sound'
      BY <2>1 DEF Sound, ProcessType, LockType, Spawn, Shape, processVars
    <2>3. DaemonType'
      BY <2>1, CronLockAssumption DEF DaemonType
    <2> QED BY <2>2, <2>3
  <1>2. CASE Stop /\ current = 0
    <2>1. UNCHANGED <<monitor, restarts, fails, asked, current, lost, processVars>>
          /\ stopping' = "asked" /\ target' = current
      BY <1>2 DEF Stop
    <2>2. Sound'
      BY <2>1 DEF Sound, ProcessType, LockType, Spawn, Shape, processVars
    <2>3. DaemonType'
      BY <2>1 DEF DaemonType
    <2> QED BY <2>2, <2>3
  <1>3. CASE Stop /\ current # 0
    <2>1. /\ UNCHANGED <<restarts, fails, current, lost, processVars>>
          /\ stopping' = "asked" /\ target' = current
          /\ monitor' = [monitor EXCEPT ![current] = "over"] /\ asked' = asked \cup {current}
      BY <1>3 DEF Stop, Monitor
    <2>2. current \in Proc /\ monitor[current] # "none"
      BY <1>3 DEF DaemonType, Sound, Shape, Spawn, Proc
    <2>3. DaemonType'
      BY <2>1, <2>2 DEF DaemonType, Monitors
    <2>4. Sound'
      BY <2>1, <2>2, Quiet DEF Sound, DaemonType
    <2> QED BY <2>3, <2>4
  <1> QED BY <1>1, <1>2, <1>3

LEMMA SpawnedStep ==
  ASSUME Sound, DaemonType, NEW p \in Proc, Spawned(p)
  PROVE  Sound' /\ DaemonType'
  <1>1. /\ UNCHANGED <<fails, asked, stopping, target>>
        /\ UNCHANGED <<leads, stuck, port, file, fd, crashes, snatched>>
        /\ monitor[p] = "spawning"
    BY DEF Spawned
  <1>2. PICK q \in Proc : /\ phase[q] = "none" /\ phase' = [phase EXCEPT ![q] = "try"]
                          /\ monitor' = [monitor EXCEPT ![p] = "watch", ![q] = "watch"]
                          /\ restarts' = [restarts EXCEPT ![q] = restarts[p]]
                          /\ current' = q
                          /\ lost' = lost \cup (IF stopping # "no" THEN {q} ELSE {})
                                          \cup (IF Alive(current) THEN {current} ELSE {})
    BY DEF Spawned, To
  <1>3. lost' \subseteq Proc
    BY <1>2 DEF DaemonType, Alive
  <1>4. monitor' \in [Proc -> Monitors] /\ restarts' \in [Proc -> 0 .. MaxRestarts + 1]
    BY <1>2 DEF DaemonType, Monitors
  <1>5. current' \in 0 .. Processes
    BY <1>2 DEF Proc
  <1>6. DaemonType'
    BY <1>1, <1>3, <1>4, <1>5 DEF DaemonType
  <1>7. ProcessType' /\ LockType'
    BY <1>1, <1>2 DEF Sound, ProcessType, LockType, Phases
  <1>8. monitor[q] = "none" /\ q # p
    BY <1>1, <1>2 DEF Sound, Spawn
  <1>9. Spawn'
    BY <1>1, <1>2, <1>8 DEF Sound, Spawn, ProcessType, DaemonType
  <1>10. Shape'
    BY <1>1, <1>2, <1>8 DEF Sound, Shape, ProcessType, LockType, DaemonType
  <1> QED BY <1>6, <1>7, <1>9, <1>10 DEF Sound
-----------------------------------------------------------------------------
(* Who removes or replaces the file: a challenger (then it was snatched, or *)
(* nobody that lives had it), a process that creates it (then it was not    *)
(* there), and the leader that leaves.                                      *)
LEMMA LockBoot ==
  ASSUME Sound, LockHeld, NEW p \in Proc, Create(p) \/ Look(p) \/ Unlink(p)
  PROVE  LockHeld'
  <1> SUFFICES ASSUME ~snatched', NEW q \in Proc
               PROVE  /\ Holds(q)' => file'.inode = q /\ file'.owner = q
                      /\ fd'[q] \in {0, q}
      BY DEF LockHeld
  <1>1. ~snatched
    BY DEF Create, Look, Unlink
  <1>2. /\ Holds(q) => file.inode = q /\ file.owner = q
        /\ fd[q] \in {0, q}
    BY <1>1 DEF LockHeld
  <1>3. CASE Create(p)
    <2>1. CASE Here
      BY <1>2, <1>3, <2>1 DEF Create, Holds, To, Sound, ProcessType
    <2>2. CASE ~Here
      <3>1. ~Holds(q)
        BY <1>2, <2>2 DEF Here, Proc
      <3>2. /\ phase' = [phase EXCEPT ![p] = "made"] /\ leads' = leads
            /\ fd' = [fd EXCEPT ![p] = p] /\ file' = File(p, p, TRUE, FALSE)
        BY <1>3, <2>2 DEF Create, To
      <3>3. file'.inode = p /\ file'.owner = p
        BY <3>2 DEF File
      <3> QED BY <1>2, <3>1, <3>2, <3>3 DEF Holds, Sound, ProcessType, LockType
    <2> QED BY <2>1, <2>2
  <1>4. CASE Look(p)
    BY <1>2, <1>4 DEF Look, Holds, To, Sound, ProcessType
  <1>5. CASE Unlink(p)
    <2>1. ~(Here /\ Alive(file.owner))
      BY <1>5 DEF Unlink
    <2>2. ~Holds(q)
      BY <1>2, <2>1 DEF Holds, Here, Alive, Proc, Sound, ProcessType
    <2> QED BY <1>2, <1>5, <2>2 DEF Unlink, Holds, To, Sound, ProcessType
  <1> QED BY <1>3, <1>4, <1>5

LEMMA LockWritten ==
  ASSUME Sound, LockHeld, NEW p \in Proc, Truncate(p) \/ Write(p)
  PROVE  LockHeld'
  <1> SUFFICES ASSUME ~snatched', NEW q \in Proc
               PROVE  /\ Holds(q)' => file'.inode = q /\ file'.owner = q
                      /\ fd'[q] \in {0, q}
      BY DEF LockHeld
  <1>1. ~snatched
    BY DEF Truncate, Write
  <1>2. \A r \in Proc : /\ Holds(r) => file.inode = r /\ file.owner = r
                        /\ fd[r] \in {0, r}
    BY <1>1 DEF LockHeld
  <1>3. CASE Truncate(p)
    <2>1. /\ UNCHANGED <<phase, leads>> /\ fd' = [fd EXCEPT ![p] = file.inode]
          /\ file' = [file EXCEPT !.empty = TRUE] /\ Holds(p)
      BY <1>3 DEF Truncate, Holds
    <2>2. file'.inode = file.inode /\ file'.owner = file.owner
      BY <2>1 DEF Sound, LockType, FileType
    <2> QED BY <1>2, <2>1, <2>2 DEF Holds, Sound, LockType
  <1>4. CASE Write(p)
    <2>1. Holds(p) /\ fd[p] = p /\ file.inode = p
      BY <1>2, <1>4 DEF Write, Holds, Sound, Shape
    <2>2. /\ fd' = [fd EXCEPT ![p] = 0] /\ leads' = [leads EXCEPT ![p] = TRUE]
          /\ phase' = [phase EXCEPT ![p] = IF phase[p] = "made" THEN "loaded" ELSE phase[p]]
          /\ file' = File(p, p, FALSE, FALSE)
      BY <1>4, <2>1 DEF Write, To
    <2>3. file'.inode = p /\ file'.owner = p
      BY <2>2 DEF File
    <2>4. Holds(q)' => Holds(q)
      BY <2>1, <2>2 DEF Holds, Sound, ProcessType
    <2> QED BY <1>2, <2>1, <2>2, <2>3, <2>4 DEF Sound, LockType
  <1> QED BY <1>3, <1>4

LEMMA LockLeft ==
  ASSUME Sound, LockHeld, NEW p \in Proc, Gone(p), snatched' = snatched,
         file' = file \/ (leads[p] /\ file' = NoFile)
  PROVE  LockHeld'
  <1> SUFFICES ASSUME ~snatched', NEW q \in Proc
               PROVE  /\ Holds(q)' => file'.inode = q /\ file'.owner = q
                      /\ fd'[q] \in {0, q}
      BY DEF LockHeld
  <1>1. \A r \in Proc : /\ Holds(r) => file.inode = r /\ file.owner = r
                        /\ fd[r] \in {0, r}
    BY DEF LockHeld
  <1>2. /\ phase' = [phase EXCEPT ![p] = "gone"] /\ leads' = [leads EXCEPT ![p] = FALSE]
        /\ fd' = [fd EXCEPT ![p] = 0]
    BY DEF Gone, To
  <1>3. Holds(q)' => Holds(q) /\ q # p
    BY <1>2 DEF Holds, Sound, ProcessType
  <1>4. leads[p] /\ q # p => ~Holds(q)
    BY <1>1 DEF Holds
  <1> QED BY <1>1, <1>2, <1>3, <1>4 DEF Sound, LockType

LEMMA LockKept ==
  ASSUME Sound, LockHeld, UNCHANGED <<leads, fd, snatched>>,
         file'.inode = file.inode, file'.owner = file.owner,
         \A q \in Proc : phase'[q] = "made" => phase[q] = "made"
  PROVE  LockHeld'
  BY DEF LockHeld, Holds

LEMMA LockStep == ASSUME Sound, DaemonType, LockHeld, [Next]_vars PROVE LockHeld'
  <1>1. CASE \E p \in Proc : MonitorStep(p)
    <2>1. PICK p \in Proc : MonitorStep(p)
      BY <1>1
    <2>2. UNCHANGED <<leads, fd, snatched, file>>
      BY <2>1 DEF MonitorStep, NoticeDeath, Probe, Ended, WakeUp, Spawned, SpawnFails, LeaveLoop, processVars
    <2>3. ASSUME NEW q \in Proc, phase'[q] = "made" PROVE phase[q] = "made"
      BY <2>1, <2>3 DEF MonitorStep, NoticeDeath, Probe, Ended, WakeUp, Spawned, SpawnFails, LeaveLoop,
                        processVars, To, Sound, ProcessType
    <2> QED BY <2>2, <2>3, LockKept
  <1>2. CASE \E p \in Proc : ProcessStep(p)
    <2>1. PICK p \in Proc : ProcessStep(p)
      BY <1>2
    <2>2. CASE Create(p) \/ Look(p) \/ Unlink(p)
      BY <2>2, LockBoot
    <2>3. CASE Truncate(p) \/ Write(p)
      BY <2>3, LockWritten
    <2>4. CASE Crash(p)
      BY <2>4, LockLeft DEF Crash
    <2>5. CASE GetStuck(p) \/ GoOn(p)
      BY <2>5, LockKept DEF GetStuck, GoOn
    <2>6. CASE Bind(p)
      <3>1. CASE port = 0
        BY <2>6, <3>1, LockKept DEF Bind, To, Sound, ProcessType
      <3>2. CASE port # 0
        BY <2>6, <3>2, LockLeft DEF Bind, Leave
      <3> QED BY <3>1, <3>2
    <2> QED BY <2>1, <2>2, <2>3, <2>4, <2>5, <2>6 DEF ProcessStep, Boot
  <1>3. CASE \E p \in Proc : Exit(p)
    BY <1>3, LockLeft DEF Exit, Leave
  <1>4. CASE \E p \in Proc : Kill(p)
    BY <1>4, LockLeft DEF Kill, Killed
  <1>5. CASE GrowOld
    BY <1>5, LockKept DEF GrowOld, Sound, LockType, FileType
  <1>6. CASE UNCHANGED processVars
    BY <1>6, LockKept DEF processVars
  <1>7. Stop \/ StopDone \/ UNCHANGED vars => UNCHANGED processVars
    BY DEF Stop, StopDone, vars
  <1> QED BY <1>1, <1>2, <1>3, <1>4, <1>5, <1>6, <1>7 DEF Next
-----------------------------------------------------------------------------
(* A process is born only where _running lists it, and leaves _running only *)
(* into lost, into the hands of stop(), or dead.                            *)
LEMMA Births ==
  ASSUME Survivors, UNCHANGED daemonVars, \A p \in Proc : Alive(p)' => Alive(p)
  PROVE  Survivors'
  BY DEF Survivors, daemonVars

LEMMA SurvivorsStep == ASSUME Sound, DaemonType, Survivors, [Next]_vars PROVE Survivors'
  <1>1. CASE \E p \in Proc : ProcessStep(p) \/ Exit(p) \/ Kill(p)
    <2>1. PICK p \in Proc : ProcessStep(p) \/ Exit(p) \/ Kill(p)
      BY <1>1
    <2>2. UNCHANGED daemonVars
      BY <2>1 DEF ProcessStep, Exit, Kill
    <2>3. Alive(p) /\ \/ phase' = phase
                      \/ \E ph \in Phases : phase' = [phase EXCEPT ![p] = ph]
      <3>1. CASE Boot(p)
        BY <3>1 DEF Boot, Create, Look, Unlink, Write, Bind, Leave, Gone, To, Alive, Phases, Sound, Shape
      <3>2. CASE Truncate(p) \/ GetStuck(p) \/ GoOn(p)
        BY <3>2 DEF Truncate, GetStuck, GoOn, Alive, Sound, ProcessType
      <3>3. CASE Crash(p) \/ Exit(p) \/ Kill(p)
        BY <3>3 DEF Crash, Exit, Kill, Killed, Leave, Gone, To, Alive, Phases
      <3> QED BY <2>1, <3>1, <3>2, <3>3 DEF ProcessStep
    <2>4. ASSUME NEW q \in Proc, Alive(q)' PROVE Alive(q)
      BY <2>3, <2>4 DEF Alive, Sound, ProcessType
    <2> QED BY <2>2, <2>4, Births
  <1>2. CASE GrowOld /\ UNCHANGED daemonVars
    BY <1>2, Births DEF GrowOld, Alive
  <1>3. CASE UNCHANGED vars
    BY <1>3, Births DEF vars, processVars, Alive
  <1>4. CASE \E p \in Proc : NoticeDeath(p) \/ Probe(p) \/ Ended(p) \/ SpawnFails(p) \/ LeaveLoop(p)
    <2>1. UNCHANGED <<phase, current, stopping, target, lost>>
      BY <1>4 DEF NoticeDeath, Probe, Ended, SpawnFails, LeaveLoop, processVars
    <2> QED BY <2>1 DEF Survivors, Alive
  <1>5. CASE \E p \in Proc : WakeUp(p)
    <2>1. /\ UNCHANGED <<phase, stopping, target>>
          /\ \/ UNCHANGED <<current, lost>>
             \/ stopping = "no" /\ lost' = IF Alive(current) THEN lost \cup {current} ELSE lost
      BY <1>5 DEF WakeUp, processVars
    <2> QED BY <2>1 DEF Survivors, Alive
  <1>6. CASE \E p \in Proc : Spawned(p)
    <2>1. PICK p \in Proc : Spawned(p)
      BY <1>6
    <2>2. PICK q \in Proc : /\ phase' = [phase EXCEPT ![q] = "try"] /\ current' = q
                            /\ UNCHANGED <<stopping, target>>
                            /\ lost' = lost \cup (IF stopping # "no" THEN {q} ELSE {})
                                            \cup (IF Alive(current) THEN {current} ELSE {})
      BY <2>1 DEF Spawned, To
    <2>3. ASSUME NEW r \in Proc, r # q, Alive(r)' PROVE Alive(r)
      BY <2>2, <2>3 DEF Alive, Sound, ProcessType
    <2> QED BY <2>2, <2>3 DEF Survivors
  <1>7. CASE Stop
    <2>1. UNCHANGED <<phase, lost>> /\ stopping = "no" /\ stopping' = "asked" /\ target' = current
      BY <1>7 DEF Stop, processVars
    <2> QED BY <2>1 DEF Survivors, Alive
  <1>8. CASE StopDone
    <2>1. UNCHANGED <<phase, lost, target>> /\ stopping = "asked" /\ stopping' = "done" /\ ~Alive(target)
      BY <1>8 DEF StopDone, processVars
    <2> QED BY <2>1 DEF Survivors, Alive
  <1> QED BY <1>1, <1>2, <1>3, <1>4, <1>5, <1>6, <1>7, <1>8 DEF Next, MonitorStep
-----------------------------------------------------------------------------
LEMMA SoundStep == ASSUME Sound, DaemonType, [Next]_vars PROVE Sound' /\ DaemonType'
  <1>1. ASSUME UNCHANGED daemonVars PROVE DaemonType'
    BY <1>1 DEF DaemonType, daemonVars
  <1>2. CASE \E p \in Proc : ProcessStep(p)
    <2>1. PICK p \in Proc : ProcessStep(p)
      BY <1>2
    <2>2. UNCHANGED daemonVars
      BY <2>1 DEF ProcessStep
    <2>3. CASE Create(p)
      BY <1>1, <2>2, <2>3, CreateStep
    <2>4. CASE Look(p)
      BY <1>1, <2>2, <2>4, LookStep
    <2>5. CASE Unlink(p)
      BY <1>1, <2>2, <2>5, UnlinkStep
    <2>6. CASE Write(p)
      BY <1>1, <2>2, <2>6, WriteStep
    <2>7. CASE Bind(p)
      BY <1>1, <2>2, <2>7, BindStep
    <2>8. CASE Truncate(p)
      BY <1>1, <2>2, <2>8, TruncateStep
    <2>9. CASE GetStuck(p) \/ GoOn(p)
      BY <1>1, <2>2, <2>9, StuckStep
    <2>10. CASE Crash(p)
      <3>1. crashes' \in 0 .. MaxCrashes
        BY <2>10, CronLockAssumption DEF Crash, Sound, ProcessType
      <3> QED BY <1>1, <2>2, <2>10, <3>1, GoneStep DEF Crash, Alive
    <2> QED BY <2>1, <2>3, <2>4, <2>5, <2>6, <2>7, <2>8, <2>9, <2>10 DEF ProcessStep, Boot
  <1>3. CASE \E p \in Proc : Exit(p) \/ Kill(p)
    <2>1. PICK p \in Proc : Exit(p) \/ Kill(p)
      BY <1>3
    <2>2. /\ Gone(p) /\ phase[p] # "none" /\ file' \in {file, NoFile}
          /\ crashes' = crashes /\ snatched' = snatched /\ UNCHANGED daemonVars
      BY <2>1 DEF Exit, Kill, Killed, Leave, Alive
    <2>3. crashes' \in 0 .. MaxCrashes
      BY <2>2 DEF Sound, ProcessType
    <2> QED BY <1>1, <2>2, <2>3, GoneStep
  <1>4. CASE GrowOld /\ UNCHANGED daemonVars
    BY <1>1, <1>4, GrowOldStep
  <1>5. CASE UNCHANGED vars
    BY <1>1, <1>5 DEF vars, processVars, daemonVars, Sound, ProcessType, LockType, Spawn, Shape
  <1>6. CASE \E p \in Proc : MonitorStep(p)
    <2>1. PICK p \in Proc : MonitorStep(p)
      BY <1>6
    <2>2. CASE NoticeDeath(p) \/ Ended(p)
      BY <2>1, <2>2, BackOffStep DEF MonitorStep, NoticeDeath, Ended
    <2>3. CASE Probe(p)
      BY <2>3, ProbeStep
    <2>4. CASE WakeUp(p) \/ SpawnFails(p) \/ LeaveLoop(p)
      BY <2>4, MonitorMoves
    <2>5. CASE Spawned(p)
      BY <2>5, SpawnedStep
    <2> QED BY <2>1, <2>2, <2>3, <2>4, <2>5 DEF MonitorStep
  <1>7. CASE Stop \/ StopDone
    BY <1>7, StopStep
  <1> QED BY <1>2, <1>3, <1>4, <1>5, <1>6, <1>7 DEF Next

LEMMA Inductive == Spec => []IInv
  <1>1. Init => IInv
    BY Start
  <1>2. IInv /\ [Next]_vars => IInv'
    <2> SUFFICES ASSUME IInv, [Next]_vars PROVE IInv'
        OBVIOUS
    <2>1. Sound /\ DaemonType
      BY Parts DEF IInv, Sound
    <2>2. Sound' /\ DaemonType'
      BY <2>1, SoundStep
    <2>3. LockHeld' /\ Survivors'
      BY <2>1, LockStep, SurvivorsStep DEF IInv
    <2>4. (TypeOK <=> ProcessType /\ LockType /\ Spawn /\ DaemonType)'
      BY Parts, PTL
    <2> QED BY <2>2, <2>3, <2>4 DEF IInv, Sound
  <1> QED BY <1>1, <1>2, PTL DEF Spec

(* Types, and which process may lead, be stuck, have the port or a monitor. *)
THEOREM WorkersTyped == Spec => []TypeOK
  <1>1. IInv => TypeOK
    BY DEF IInv
  <1> QED BY <1>1, Inductive, PTL

(* FileLeader: nobody leads beside another, unless the file of a process    *)
(* that lives was removed.                                                  *)
THEOREM LockIsExclusive == Spec => []OneLeader
  <1>1. IInv => OneLeader
    BY DEF IInv, LockHeld, Holds, OneLeader
  <1> QED BY <1>1, Inductive, PTL

(* WorkerLifecycle.stop leaves behind only what a monitor hid from it.      *)
THEOREM StopIsThorough == Spec => []StopEndsWhatItSees
  <1>1. IInv => StopEndsWhatItSees
    BY DEF IInv, Survivors, StopEndsWhatItSees
  <1> QED BY <1>1, Inductive, PTL
=============================================================================
