------------------------------ MODULE WorkersMC ------------------------------
(* The instances of Workers for TLC, and what the code does not keep.       *)
EXTENDS Workers

(* "worker_permanently_failed ... -- monitor stops" (lifecycle.py:355-358): *)
(* a monitor that is past the limit of restarts has left its loop.          *)
MonitorStops == \A p \in Proc : restarts[p] > MaxRestarts => monitor[p] = "over"

(* "Terminate every worker" (lifecycle.py:119).                             *)
StopEndsAll == stopping = "done" => \A p \in Proc : ~Alive(p)

(* "exclusive leader lock" (cron_lock.py:30), whatever happens.             *)
AlwaysOneLeader == \A p, q \in Proc : leads[p] /\ leads[q] => p = q

(* "race with another challenger; will retry" (cron_lock.py:75): when every *)
(* process has started, one that serves leads.                              *)
CronIsLed ==
    /\ port # 0 /\ ~stuck[port]
    /\ \A p \in Proc : ~Alive(p) \/ phase[p] = "up"
    => \E p \in Proc : leads[p]
=============================================================================
