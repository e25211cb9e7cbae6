----------------------------- MODULE McpPoolMC -----------------------------
(* What the code says of the pool of the daemon and does not keep.          *)
EXTENDS McpPool

Quiet == \A k \in Tasks : At(k, "idle")

(* "Single connection per server: apps share the same transport connection" *)
(* (core/mcp_pool.py:11): an update of the configuration, and an acquire    *)
(* whose reconnect fails, leave the modules with the entry they have, which *)
(* they reconnect by themselves.                                            *)
OneConnection == Quiet => Cardinality({t \in Links : Open(t)}) <= 1

(* "Ref-counting: tracks which apps use which servers" (line 7): after a    *)
(* redeployment the old module releases the app of the new one.             *)
UsersAreTracked == \A m \in Attached : tracked /\ module[m].app \in refs

(* "Disconnect a server (force - ignores ref count)" (line 233): the next   *)
(* call of a module connects its entry again, out of the daemon's sight.    *)
ForcedOff == Quiet /\ listed[Daemon] = None => \A t \in Links : ~Open(t)

(* "Health monitoring: periodic background task pings all connected         *)
(* servers" (line 9): a dead transport is noticed, and connected again.     *)
(* Heals without the exceptions.                                            *)
AlwaysHeals == <>[](tracked => Usable(listed[Daemon]))

(* The loop of the monitor goes on until the daemon stops: what a reconnect *)
(* lets pass it catches after a ping only (lines 265-288).                  *)
MonitorLives == ~At(Monitor, "dead")
=============================================================================
