------------------------------ MODULE CronLock ------------------------------
(***************************************************************************)
(* The processes of a worker that hosts the cron module (workers/app.py,   *)
(* modules/cron/module.py) and the lock file by which one of them leads    *)
(* (workers/cron_lock.py).  A process boots by trying to take the lock,    *)
(* whatever comes of it, and then binds the port of the worker; a leader   *)
(* rewrites the file every 30 s, and removes it when it stops in order.    *)
(*                                                                         *)
(*   phase   where a process is: in its attempts to take the lock ("try",  *)
(*           "taken", "stale", "retry", "retaken", "made"), past them      *)
(*           ("loaded"), serving ("up"), dead ("gone"), not spawned yet    *)
(*           ("none")                                                      *)
(*   leads   the cron module runs its loops: FileLeader._owned             *)
(*   stuck   its event loop is blocked: it answers and renews nothing      *)
(*   port    the process that has bound the port, 0 if none                *)
(*   file    the lock file: the process that created it, which identifies  *)
(*           the inode (0: there is no file), the one that its contents    *)
(*           name, whether it is empty (created or truncated and not yet   *)
(*           written) and whether renewed_at is more than 90 s ago         *)
(*   fd      the file that a process has opened to write, 0 if none        *)
(*   crashes     how many processes died of their own                      *)
(*   snatched    history: the file of a live process has been unlinked     *)
(***************************************************************************)
EXTENDS Naturals

CONSTANTS Processes,     \* how many processes there may be
          MaxCrashes     \* bound of the model on crashes

ASSUME CronLockAssumption == Processes \in Nat \ {0} /\ MaxCrashes \in Nat

VARIABLES phase, leads, stuck, port, file, fd, crashes, snatched
processVars == <<phase, leads, stuck, port, file, fd, crashes, snatched>>

Proc == 1 .. Processes
Earlier == Processes + 1      \* a process of an earlier boot, long dead
File(i, p, e, o) == [inode |-> i, owner |-> p, empty |-> e, old |-> o]
NoFile == File(0, 0, FALSE, FALSE)
Here == file.inode # 0

Alive(p) == p \in Proc /\ phase[p] \notin {"none", "gone"}
To(p, ph) == phase' = [phase EXCEPT ![p] = ph]

LockInit ==
    /\ phase = [p \in Proc |-> IF p = 1 THEN "try" ELSE "none"]
    /\ leads = [p \in Proc |-> FALSE]
    /\ stuck = [p \in Proc |-> FALSE]
    /\ port = 0
    /\ file \in {NoFile, File(Earlier, Earlier, FALSE, FALSE)}
    /\ fd = [p \in Proc |-> 0]
    /\ crashes = 0 /\ snatched = FALSE
-----------------------------------------------------------------------------
(* FileLeader.acquire, in each of its two attempts: exclusive creation, ... *)
Create_OwnsAtOnce(p) ==
    /\ phase[p] \in {"try", "retry"}
    /\ IF Here
         THEN /\ To(p, IF phase[p] = "try" THEN "taken" ELSE "retaken")
              /\ UNCHANGED <<file, fd, leads>>
         ELSE /\ To(p, "made")
              /\ file' = File(p, p, TRUE, FALSE)
              /\ fd' = [fd EXCEPT ![p] = p]
              /\ leads' = [leads EXCEPT ![p] = TRUE]
    /\ UNCHANGED <<stuck, port, crashes, snatched>>
Create(p) ==
    /\ phase[p] \in {"try", "retry"}
    /\ IF Here
         THEN /\ To(p, IF phase[p] = "try" THEN "taken" ELSE "retaken")
              /\ UNCHANGED <<file, fd>>
         ELSE /\ To(p, "made")
              /\ file' = File(p, p, TRUE, FALSE)
              /\ fd' = [fd EXCEPT ![p] = p]
    /\ UNCHANGED <<leads, stuck, port, crashes, snatched>>

(* ... a look at the file of another, of which nothing but a renewal within *)
(* the last 90 s by a process that lives proves that it is held, ...        *)
Stale == ~Here \/ file.empty \/ file.old \/ ~Alive(file.owner)

Look(p) ==
    /\ phase[p] \in {"taken", "retaken"}
    /\ To(p, IF phase[p] = "taken" /\ Stale THEN "stale" ELSE "loaded")
    /\ UNCHANGED <<leads, stuck, port, file, fd, crashes, snatched>>

(* ... and the removal of a stale file: of the one that is there by now.    *)
Unlink(p) ==
    /\ phase[p] = "stale"
    /\ To(p, "retry")
    /\ file' = NoFile
    /\ snatched' = (snatched \/ (Here /\ Alive(file.owner)))
    /\ UNCHANGED <<leads, stuck, port, fd, crashes>>

(* FileLeader.refresh, called by a leader's loop: the file that is there is *)
(* truncated, whosever it is, ...                                           *)
Truncate(p) ==
    /\ phase[p] = "up" /\ leads[p] /\ ~stuck[p] /\ fd[p] = 0 /\ Here
    /\ file' = [file EXCEPT !.empty = TRUE]
    /\ fd' = [fd EXCEPT ![p] = file.inode]
    /\ UNCHANGED <<phase, leads, stuck, port, crashes, snatched>>

(* ... and written, as it is after its creation.  What goes to a file that  *)
(* has been unlinked meanwhile is lost.                                     *)
Write(p) ==
    /\ fd[p] # 0
    /\ file' = IF file.inode = fd[p] THEN File(fd[p], p, FALSE, FALSE) ELSE file
    /\ fd' = [fd EXCEPT ![p] = 0]
    /\ leads' = [leads EXCEPT ![p] = TRUE]
    /\ To(p, IF phase[p] = "made" THEN "loaded" ELSE phase[p])
    /\ UNCHANGED <<stuck, port, crashes, snatched>>

(* A leader that has not renewed for 90 s.                                  *)
GrowOld ==
    /\ Here /\ ~file.empty /\ ~file.old /\ Alive(file.owner) /\ stuck[file.owner]
    /\ file' = [file EXCEPT !.old = TRUE]
    /\ UNCHANGED <<phase, leads, stuck, port, fd, crashes, snatched>>
-----------------------------------------------------------------------------
(* The end of process p: of its own (crash), by a signal, or in order.      *)
Gone(p) ==
    /\ To(p, "gone")
    /\ leads' = [leads EXCEPT ![p] = FALSE]
    /\ stuck' = [stuck EXCEPT ![p] = FALSE]
    /\ fd' = [fd EXCEPT ![p] = 0]
    /\ port' = IF port = p THEN 0 ELSE port

Crash(p) ==
    /\ Alive(p) /\ crashes < MaxCrashes
    /\ Gone(p)
    /\ crashes' = crashes + 1
    /\ UNCHANGED <<file, snatched>>

Killed(p) == Gone(p) /\ UNCHANGED <<file, crashes, snatched>>

(* CronModule.on_stop: a leader, and nobody else, removes the file.         *)
Leave_Anyone(p) == Gone(p) /\ file' = NoFile /\ UNCHANGED <<crashes, snatched>>
Leave(p) ==
    /\ Gone(p)
    /\ file' = IF leads[p] THEN NoFile ELSE file
    /\ UNCHANGED <<crashes, snatched>>

(* uvicorn binds the port when the modules have started; if it is taken, it *)
(* stops them and exits.                                                    *)
Bind(p) ==
    /\ phase[p] = "loaded"
    /\ \/ /\ port = 0 /\ port' = p
          /\ To(p, "up")
          /\ UNCHANGED <<leads, stuck, file, fd, crashes, snatched>>
       \/ port # 0 /\ Leave(p)

GetStuck(p) ==
    /\ phase[p] = "up" /\ ~stuck[p]
    /\ stuck' = [stuck EXCEPT ![p] = TRUE]
    /\ UNCHANGED <<phase, leads, port, file, fd, crashes, snatched>>

GoOn(p) ==
    /\ stuck[p]
    /\ stuck' = [stuck EXCEPT ![p] = FALSE]
    /\ UNCHANGED <<phase, leads, port, file, fd, crashes, snatched>>

Boot(p) == Create(p) \/ Look(p) \/ Unlink(p) \/ Write(p) \/ Bind(p)
=============================================================================
