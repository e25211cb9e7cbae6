--------------------------- MODULE MemoryQueueMC ---------------------------
(***************************************************************************)
(* Instances of MemoryQueue for TLC, its refinement of SessionFifo, and    *)
(* the specification with fairness.                                        *)
(***************************************************************************)
EXTENDS MemoryQueue

Over == {r \in Rows : status[r] \in Terminal}
Working == {r \in Rows : status[r] = "running"}

Fifo == INSTANCE SessionFifo
            WITH line <- line, working <- Working, slot <- slot, over <- Over

(* Every step of the memory backend, the reaper's included, is a step of    *)
(* the abstract FIFO or changes nothing it sees.                            *)
ImplementsSessionFifo == Fifo!Spec

(* Time passes, live turns beat, and the reaper runs every 15 seconds.      *)
FairSpec ==
    /\ Spec
    /\ WF_vars(Tick) /\ WF_vars(ReapExpiredLeases)
    /\ \A r \in Rows : WF_vars(Heartbeat(r))

(* A row whose turn is gone does not stay running: it is reaped, or taken   *)
(* up by somebody.                                                          *)
VanishedTurnIsReaped ==
    \A r \in Rows :
        (status[r] = "running" /\ live[r] = 0) ~> (status[r] # "running" \/ live[r] > 0)

(* config.py: a queued message expires after ttl_seconds.  So no message    *)
(* is failed by the dequeue's sweep while it is younger than that.          *)
OnlyOldMessagesExpire ==
    [][\A r \in Rows :
        status[r] = "queued" /\ status'[r] = "failed" /\ live[r] = 0 => since[r] = Old]_vars
=============================================================================
