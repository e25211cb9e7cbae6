---------------------------- MODULE RedisQueueMC ----------------------------
(***************************************************************************)
(* Instances of RedisQueue for TLC, the refinement mapping to SessionFifo, *)
(* the specification with fairness, and the statements of the repository's *)
(* documentation and tests that the runs with expected violations refute.  *)
(***************************************************************************)
EXTENDS RedisQueue, Lines, TLC

Symmetric == Permutations(Rows) \cup Permutations(Users)

(* The refinement mapping: the line is the queued rows by position.         *)
Queued == {r \in Rows : status[r] = "queued"}
ByPosition == Arranged(Queued, position)
Over == {r \in Rows : status[r] \in Terminal}

Fifo == INSTANCE SessionFifo
            WITH line <- ByPosition, working <- Running, slot <- marker, over <- Over

(* Every step of the Redis backend is a step of the abstract FIFO or        *)
(* changes nothing it sees: no interleaving of turns, heartbeats, expiries  *)
(* and aborts serves a row out of turn or while the slot is taken.          *)
ImplementsSessionFifo == Fifo!Spec

(* Redis counts leases down whatever happens, a live turn's heartbeat loop  *)
(* runs on the event loop, and a daemon that boots finishes booting.        *)
FairSpec ==
    /\ Spec
    /\ WF_vars(Tick)
    /\ \A r \in Rows : WF_vars(HeartbeatCheck(r)) /\ WF_vars(HeartbeatExtend(r))
    /\ WF_vars(BootNext)

(* What the lease is for: when the turn that holds the running marker is    *)
(* gone, the marker does not block the session forever.                     *)
LeaseFreesSlot ==
    \A r \in Rows : (marker = r /\ r \notin held) ~> marker # r

(* config.py: the queue "Survives daemon restart".  So no boot step cancels *)
(* a row that was still waiting.                                            *)
QueueSurvivesRestart ==
    [][boot # "serving" =>
        \A r \in Rows : status[r] = "queued" => status'[r] # "cancelled"]_vars

(* test_redis_queue.py: when the hash says running and the survival pointer *)
(* points at the row, rehydrate_on_boot must resurrect it.  So the boot     *)
(* never returns to serving with such a row.                                *)
RehydrateRecovers ==
    [][boot # "serving" /\ boot' = "serving" =>
        \A r \in Rows : ~(pointer' = r /\ status'[r] = "running")]_vars

(* _dispatch.py: a row whose heartbeats were missed is reaped, so it does   *)
(* not stay running once its lease is over and its turn is gone.            *)
ExpiredLeaseIsReaped ==
    \A r \in Rows :
        (status[r] = "running" /\ marker # r /\ r \notin held) ~> status[r] # "running"
=============================================================================
