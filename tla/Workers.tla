------------------------------- MODULE Workers -------------------------------
(***************************************************************************)
(* The daemon's side of one worker (workers/lifecycle.py): WorkerLifecycle *)
(* spawns its process, and a monitor task per process asks its port for    *)
(* /health every 5 s and restarts it when it died or does not answer.      *)
(*                                                                         *)
(*   monitor   the monitor of each process: in its loop ("watch"), waiting *)
(*             in _restart for the process to end ("ending"), asleep there *)
(*             ("backoff"), in the spawn of the next ("spawning"), over    *)
(*   restarts, fails   restart_count, consecutive_failures                 *)
(*   current   the process that _running lists, 0 if none                  *)
(*   asked     the processes that were sent SIGTERM                        *)
(*   stopping  stop(): "no", "asked", "done"; target: the process it ends  *)
(*   lost      history: processes that _running no longer lists, or never  *)
(*             did while stop() could see it, although they lived          *)
(***************************************************************************)
EXTENDS CronLock

CONSTANTS MaxRestarts,   \* _MAX_RESTART_COUNT
          FailLimit      \* _HEALTH_FAIL_LIMIT

ASSUME WorkersAssumption == MaxRestarts \in Nat /\ FailLimit \in Nat \ {0}

VARIABLES monitor, restarts, fails, current, asked, stopping, target, lost
daemonVars == <<monitor, restarts, fails, current, asked, stopping, target, lost>>
vars == <<processVars, daemonVars>>

Monitor(p, st) == monitor' = [monitor EXCEPT ![p] = st]

Init ==
    /\ LockInit
    /\ monitor = [p \in Proc |-> IF p = 1 THEN "watch" ELSE "none"]
    /\ restarts = [p \in Proc |-> 0]
    /\ fails = [p \in Proc |-> 0]
    /\ current = 1
    /\ asked = {} /\ lost = {}
    /\ stopping = "no" /\ target = 0
-----------------------------------------------------------------------------
Responds == port # 0 /\ ~stuck[port]

(* _restart, once the process is dead: the sleep before the next.  Past the *)
(* limit it returns to the loop at once.                                    *)
BackOff(p) ==
    /\ restarts' = [restarts EXCEPT ![p] = @ + 1]
    /\ fails' = [fails EXCEPT ![p] = 0]
    /\ Monitor(p, IF restarts[p] < MaxRestarts THEN "backoff" ELSE "watch")

(* There the monitor finds its process dead, goes back into _restart, and   *)
(* so on.  Nothing in this circle awaits: no task of the daemon runs again. *)
Frozen == \E p \in Proc : restarts[p] > MaxRestarts

NoticeDeath(p) ==
    /\ monitor[p] = "watch" /\ stopping = "no" /\ ~Alive(p)
    /\ BackOff(p)
    /\ UNCHANGED <<current, asked, stopping, target, lost, processVars>>

(* A probe goes to the port of the worker, whichever process has it.        *)
Probe(p) ==
    /\ monitor[p] = "watch" /\ stopping = "no" /\ Alive(p)
    /\ \/ /\ Responds
          /\ fails' = [fails EXCEPT ![p] = 0]
          /\ UNCHANGED <<monitor, asked>>
       \/ /\ ~Responds
          /\ fails' = [fails EXCEPT ![p] = @ + 1]
          /\ IF fails[p] + 1 < FailLimit
               THEN UNCHANGED <<monitor, asked>>
               ELSE Monitor(p, "ending") /\ asked' = asked \cup {p}
    /\ UNCHANGED <<restarts, current, stopping, target, lost, processVars>>

(* A process that was asked to end does so in order if it serves and its    *)
(* loop runs; else it is killed after a while.                              *)
Exit(p) ==
    /\ p \in asked /\ phase[p] = "up" /\ ~stuck[p]
    /\ Leave(p)
    /\ UNCHANGED daemonVars

Kill(p) ==
    /\ Alive(p)
    /\ \/ monitor[p] = "ending"
       \/ stopping = "asked" /\ target = p
    /\ Killed(p)
    /\ UNCHANGED daemonVars

Ended(p) ==
    /\ monitor[p] = "ending" /\ ~Alive(p)
    /\ BackOff(p)
    /\ UNCHANGED <<current, asked, stopping, target, lost, processVars>>

(* After the sleep whatever _running lists is dropped from it, and a new    *)
(* process is spawned.                                                      *)
WakeUp(p) ==
    /\ monitor[p] = "backoff"
    /\ IF stopping # "no"
         THEN Monitor(p, "over") /\ UNCHANGED <<current, lost>>
         ELSE /\ Monitor(p, "spawning")
              /\ current' = 0
              /\ lost' = IF Alive(current) THEN lost \cup {current} ELSE lost
    /\ UNCHANGED <<restarts, fails, asked, stopping, target, processVars>>

(* The monitor that spawned goes back to its own loop, where its process is *)
(* still dead.                                                              *)
Spawned(p) ==
    /\ monitor[p] = "spawning"
    /\ \E q \in Proc :
        /\ phase[q] = "none" /\ \A r \in 1 .. (q - 1) : phase[r] # "none"
        /\ To(q, "try")
        /\ monitor' = [monitor EXCEPT ![p] = "watch", ![q] = "watch"]
        /\ restarts' = [restarts EXCEPT ![q] = restarts[p]]
        /\ current' = q
        /\ lost' = lost \cup (IF stopping # "no" THEN {q} ELSE {})
                        \cup (IF Alive(current) THEN {current} ELSE {})
    /\ UNCHANGED <<fails, asked, stopping, target>>
    /\ UNCHANGED <<leads, stuck, port, file, fd, crashes, snatched>>

SpawnFails(p) ==
    /\ monitor[p] = "spawning"
    /\ Monitor(p, "watch")
    /\ UNCHANGED <<restarts, fails, current, asked, stopping, target, lost, processVars>>

LeaveLoop(p) ==
    /\ monitor[p] = "watch" /\ stopping # "no"
    /\ Monitor(p, "over")
    /\ UNCHANGED <<restarts, fails, current, asked, stopping, target, lost, processVars>>
-----------------------------------------------------------------------------
(* stop(): the monitor of the process that is listed is cancelled, wherever *)
(* it is, and the process is sent SIGTERM.                                  *)
Stop ==
    /\ stopping = "no"
    /\ stopping' = "asked"
    /\ target' = current
    /\ IF current = 0
         THEN UNCHANGED <<monitor, asked>>
         ELSE Monitor(current, "over") /\ asked' = asked \cup {current}
    /\ UNCHANGED <<restarts, fails, current, lost, processVars>>

StopDone_NoWait ==
    /\ stopping = "asked"
    /\ stopping' = "done"
    /\ current' = 0
    /\ UNCHANGED <<monitor, restarts, fails, asked, target, lost, processVars>>
StopDone ==
    /\ stopping = "asked" /\ ~Alive(target)
    /\ stopping' = "done"
    /\ current' = 0
    /\ UNCHANGED <<monitor, restarts, fails, asked, target, lost, processVars>>
-----------------------------------------------------------------------------
MonitorStep(p) ==
    /\ ~Frozen
    /\ \/ NoticeDeath(p) \/ Probe(p) \/ Ended(p) \/ WakeUp(p)
       \/ Spawned(p) \/ SpawnFails(p) \/ LeaveLoop(p)

ProcessStep(p) ==
    /\ Boot(p) \/ Truncate(p) \/ Crash(p) \/ GetStuck(p) \/ GoOn(p)
    /\ UNCHANGED daemonVars

Next ==
    \/ \E p \in Proc : MonitorStep(p) \/ ProcessStep(p) \/ Exit(p)
    \/ \E p \in Proc : ~Frozen /\ Kill(p)
    \/ GrowOld /\ UNCHANGED daemonVars
    \/ ~Frozen /\ (Stop \/ StopDone)

Spec == Init /\ [][Next]_vars
-----------------------------------------------------------------------------
FileType ==
    [inode : 0 .. Earlier, owner : 0 .. Earlier, empty : BOOLEAN, old : BOOLEAN]

(* Types; only a process that is up is stuck or has the port; only one that *)
(* is past the lock leads; a process has a monitor if it was ever spawned.  *)
TypeOK ==
    /\ phase \in [Proc -> {"none", "try", "taken", "stale", "retry", "retaken", "made", "loaded", "up", "gone"}]
    /\ leads \in [Proc -> BOOLEAN] /\ stuck \in [Proc -> BOOLEAN]
    /\ \A p \in Proc : /\ leads[p] => phase[p] \in {"loaded", "up"}
                       /\ stuck[p] => phase[p] = "up"
                       /\ port = p <=> phase[p] = "up"
                       /\ monitor[p] = "none" <=> phase[p] = "none"
    /\ file \in FileType /\ fd \in [Proc -> 0 .. Earlier]
    /\ port \in 0 .. Processes /\ crashes \in 0 .. MaxCrashes /\ snatched \in BOOLEAN
    /\ monitor \in [Proc -> {"none", "watch", "ending", "backoff", "spawning", "over"}]
    /\ restarts \in [Proc -> 0 .. MaxRestarts + 1] /\ fails \in [Proc -> 0 .. FailLimit]
    /\ current \in 0 .. Processes /\ target \in 0 .. Processes
    /\ asked \subseteq Proc /\ lost \subseteq Proc
    /\ stopping \in {"no", "asked", "done"}

(* "File-based exclusive leader lock" (cron_lock.py:30): unless a challenger*)
(* removed the file of a process that lives, because it was being written,  *)
(* because its owner had been blocked for 90 s, or because another had been *)
(* faster, one process leads and the file names it.                         *)
OneLeader ==
    ~snatched => /\ \A p, q \in Proc : leads[p] /\ leads[q] => p = q
                 /\ \A p \in Proc : leads[p] => file.owner = p

(* "Terminate every worker" (lifecycle.py:119): stop() leaves no process    *)
(* behind, but those that a monitor hid from it: it had dropped one that    *)
(* lives from _running, or was about to spawn one.                          *)
StopEndsWhatItSees == stopping = "done" => \A p \in Proc : Alive(p) => p \in lost
=============================================================================
