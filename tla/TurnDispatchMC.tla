--------------------------- MODULE TurnDispatchMC ---------------------------
(***************************************************************************)
(* Instances of TurnDispatch, and what the repository says of it that the  *)
(* code does not keep.                                                     *)
(***************************************************************************)
EXTENDS TurnDispatch, TLC

Symmetric == Permutations(Messages)

(* config.py: messages sent while a turn is running are enqueued "instead   *)
(* of erroring out".  So no row is failed with session_busy.                *)
QueuedNotErrored ==
    \A t \in Messages : IsRow(t) => fate[t] # "timeout"

(* config.py: 'wait' = block until the turn finishes and return the result. *)
(* So a POST does not wait for good once the turn of its row has finished.  *)
WaitReturns ==
    \A p \in Messages :
        (At(p, "waiting") /\ task[post[p].ticket] = "done") ~> ~At(p, "waiting")

(* _dispatch.py: no queue flip on PAUSED, the caller marks the row failed.  *)
PausedRowIsFailed ==
    \A t \in Messages : (IsRow(t) /\ fate[t] = "paused") ~> t \in over
=============================================================================
