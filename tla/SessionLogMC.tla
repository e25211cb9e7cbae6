---------------------------- MODULE SessionLogMC ----------------------------
(***************************************************************************)
(* The log of a session as it is checked, and what the repository says of  *)
(* it that the code does not keep.  Its specification and properties have  *)
(* names of their own here, and the queue of the flusher is the backlog,   *)
(* so that one module can speak of the log and of the dispatcher.          *)
(***************************************************************************)
EXTENDS Integers, Sequences, SequencesExt

CONSTANTS MaxCalls, MaxCrashes, MaxFailures

VARIABLES
    wire, alloc, loaded, pinned, mem,
    backlog, batch, writer,
    log, tail, meta,
    waiting, evicting, orphan, copy,
    calls, life, failures, mishaps

Log == INSTANCE SessionLog WITH queue <- backlog

ASSUME LogAssumption == Log!Bounded

LogSpec == Log!Spec
LogFairSpec == Log!FairSpec
-----------------------------------------------------------------------------
(* Types, and the shape of what is loaded, open and being written.          *)
LogTypeOK == Log!TypeOK

(* The events that one daemon accepts are numbered in that order.           *)
InOrder == Log!InOrder

(* What a daemon accepts reaches events.jsonl, without holes.               *)
NothingDropped == Log!NothingDropped

(* Memory and events.jsonl agree again and again.                           *)
LogCatchesUp == Log!LogCatchesUp
-----------------------------------------------------------------------------
(* event_buffer.py: "so a resumed session never reuses a seq already        *)
(* persisted on disk".  No event has the number of one that was in the log  *)
(* when the daemon that accepted it started.                                *)
ResumedNeverReuses ==
    \A j, k \in 1..Len(mem) : mem[j].life < mem[k].life => mem[j].seq # mem[k].seq

(* session_bus.py: "nothing is dropped from the durable log".               *)
NothingEverDropped ==
    \A k \in Log!OfThisLife :
        mem[k] \in ToSet(backlog) \cup ToSet(batch) \cup ToSet(log)

(* DiskFlusher.flush waits "until every shard's queue is empty + drained",  *)
(* so an evicted session can be reloaded in full.                           *)
EvictedIsOnDisk == "evicted" \notin mishaps
=============================================================================
