----------------------------- MODULE RedisQueue -----------------------------
(***************************************************************************)
(* The Redis backend of the per-session message queue                      *)
(* (core/app/queue_redis.py), for ONE session, together with the processes *)
(* that call it: the turns that own a row, their heartbeats, the passing   *)
(* of time, and a daemon that crashes and runs its boot sequence again.    *)
(*                                                                         *)
(* A Lua script is one atomic step.  A Python method that issues several   *)
(* Redis commands is several steps.                                        *)
(*                                                                         *)
(*   status, position, ...   the hash queue:msg:{row}                      *)
(*   zset                    queue:zset:{sid}, scored by position          *)
(*   counter                 queue:pos:{sid}                               *)
(*   marker, lease           queue:running:{sid} and its remaining EX      *)
(*   pointer                 queue:was_running:{sid}                       *)
(*   listed                  sid \in queue:sessions                        *)
(*                                                                         *)
(* A definition named Def_Fault is Def with one plausible fault seeded in  *)
(* it.  It is used in no specification: it is there to be put in place of  *)
(* Def, to see that a property notices.                                    *)
(***************************************************************************)
EXTENDS Integers, FiniteSets

CONSTANTS
    Rows,           \* row ids (uuid4 hex): each is enqueued at most once
    Users, NoUser,  \* authors of messages, and the author of no row yet
    NoRow,          \* an absent Redis key
    MaxDepth,       \* session.queue.max_depth
    LeaseTicks,     \* lease length, in heartbeat periods
    MaxArrivals,    \* bound: messages accepted over the behaviour
    MaxCrashes,     \* bound: daemon crashes over the behaviour
    Faults          \* what may go wrong besides a crash while serving

ASSUME RowsAssumption == NoRow \notin Rows
ASSUME BoundsAssumption ==
    /\ MaxDepth \in Nat \ {0}
    /\ LeaseTicks \in Nat /\ LeaseTicks >= 2
    /\ MaxArrivals \in Nat /\ MaxCrashes \in Nat
ASSUME FaultsAssumption ==
    Faults \subseteq
        {"late_beats",       \* a live turn misses heartbeats (a blocked loop)
         "vanishing_turns",  \* a turn's task ends without touching its row
         "boot_crash",       \* the daemon crashes while it boots
         "boot_error"}       \* a Redis error aborts the boot steps; it serves

VARIABLES
    status, position, author, age, newest,   \* the hash of each row
    zset, counter, marker, lease, pointer, listed,
    held,       \* rows whose turn task is alive in the daemon
    beat,       \* progress of each row's heartbeat in this period
    boot,       \* where the daemon is: serving, or a step of its boot
    arrivals,   \* messages accepted so far
    crashes

hash    == <<status, position, author, age, newest>>
redis   == <<hash, zset, counter, marker, lease, pointer, listed>>
process == <<held, beat, boot>>
bounds  == <<arrivals, crashes>>
vars    == <<redis, process, bounds>>

Terminal == {"completed", "failed", "cancelled"}
Status   == {"absent", "queued", "running"} \cup Terminal
Fresh == 0      \* enqueued_at is within auto_merge_window_s
Stale == 1      \* older than the window, not past its TTL
Expired == 2    \* ttl_expires_at_unix < now
Beat == {"due", "checked", "done"}
Boot == {"serving", "scan", "reset", "readded", "unmarked", "purge", "dropped"}

Init ==
    /\ status = [r \in Rows |-> "absent"]
    /\ position = [r \in Rows |-> 0]
    /\ author = [r \in Rows |-> NoUser]
    /\ age = [r \in Rows |-> Fresh]
    /\ newest = [r \in Rows |-> 0]
    /\ zset = {} /\ counter = 0
    /\ marker = NoRow /\ lease = 0 /\ pointer = NoRow /\ listed = FALSE
    /\ held = {} /\ beat = [r \in Rows |-> "done"]
    /\ boot = "serving"
    /\ arrivals = 0 /\ crashes = 0
-----------------------------------------------------------------------------
(* Helpers.  ZRANGE 0 0 and ZREVRANGE 0 0 over a set of rows, and depth. *)
Lowest_Newest(r, S) == r \in S /\ \A q \in S : position[q] <= position[r]
Lowest(r, S)  == r \in S /\ \A q \in S : position[r] <= position[q]
Highest(r, S) == r \in S /\ \A q \in S : position[q] <= position[r]

Depth_QueuedOnly == Cardinality(zset)
Depth == Cardinality(zset) + (IF marker = NoRow THEN 0 ELSE 1)

Running == {r \in Rows : status[r] = "running"}

Live == {r \in zset : age[r] # Expired}

(* The part of enqueue, merge and replace that writes a new row: refused at *)
(* the cap, else INCR, HMSET, ZADD, SADD.                                   *)
PushRow(r, u) ==
    /\ status[r] = "absent"
    /\ Depth < MaxDepth
    /\ counter' = counter + 1
    /\ status' = [status EXCEPT ![r] = "queued"]
    /\ position' = [position EXCEPT ![r] = counter + 1]
    /\ author' = [author EXCEPT ![r] = u]
    /\ age' = [age EXCEPT ![r] = Fresh]
    /\ newest' = [newest EXCEPT ![r] = arrivals + 1]
    /\ zset' = zset \cup {r}
    /\ listed' = TRUE
    /\ UNCHANGED <<marker, lease, pointer>>

(* The row a merge or a replace may be folded into.                         *)
Mergeable_AnyRow(r, u) ==
    r \in zset /\ status[r] = "queued" /\ author[r] = u /\ age[r] = Fresh
Mergeable(r, u) ==
    Highest(r, zset) /\ status[r] = "queued" /\ author[r] = u /\ age[r] = Fresh
Replaceable(r, u) ==
    Highest(r, zset) /\ status[r] = "queued" /\ author[r] = u

FoldInto(r) ==
    /\ age' = [age EXCEPT ![r] = Fresh]
    /\ newest' = [newest EXCEPT ![r] = arrivals + 1]
    /\ UNCHANGED <<status, position, author>>
    /\ UNCHANGED <<zset, counter, marker, lease, pointer, listed>>

Accept ==
    /\ boot = "serving" /\ arrivals < MaxArrivals
    /\ arrivals' = arrivals + 1
    /\ UNCHANGED <<process, crashes>>

Enqueue(r, u) == PushRow(r, u) /\ Accept

MergeOrEnqueue(r, u) ==
    /\ Accept
    /\ \/ Mergeable(r, u) /\ FoldInto(r)
       \/ (\A q \in Rows : ~Mergeable(q, u)) /\ PushRow(r, u)

ReplaceLastOrEnqueue(r, u) ==
    /\ Accept
    /\ \/ Replaceable(r, u) /\ FoldInto(r)
       \/ (\A q \in Rows : ~Replaceable(q, u)) /\ PushRow(r, u)
-----------------------------------------------------------------------------
(* The drain loop shared by the dequeue and finish_and_drain scripts.  base *)
(* is the status of the rows when the loop starts.  Rows popped before the  *)
(* first one that is not expired end as failed / queue_ttl_expired.         *)
DrainNothing(base) ==
    /\ Live = {}
    /\ status' = [q \in Rows |-> IF q \in zset THEN "failed" ELSE base[q]]
    /\ zset' = {}
    /\ listed' = FALSE

MarkRunning_NoPointer(n) ==
    /\ marker' = n /\ lease' = LeaseTicks
    /\ beat' = [beat EXCEPT ![n] = "done"]
    /\ UNCHANGED <<pointer, listed>>

MarkRunning(n) ==
    /\ marker' = n /\ lease' = LeaseTicks /\ pointer' = n
    /\ beat' = [beat EXCEPT ![n] = "done"]
    /\ UNCHANGED listed

PoppedBefore(n) == {q \in zset \ Live : position[q] < position[n]}

DrainTo(base, n) ==
    /\ Lowest(n, Live)
    /\ status' = [q \in Rows |-> IF q = n THEN "running"
                                 ELSE IF q \in PoppedBefore(n) THEN "failed"
                                 ELSE base[q]]
    /\ zset' = zset \ (PoppedBefore(n) \cup {n})
    /\ MarkRunning(n)

UnchangedByDrain == <<position, author, age, newest, counter, boot, bounds>>

(* next_queued: nothing happens while a row is marked running.  The caller  *)
(* that receives a row starts its turn.                                     *)
SlotFree_Unchecked == TRUE
SlotFree == marker = NoRow

NextQueued ==
    /\ boot = "serving" /\ SlotFree
    /\ \/ /\ DrainNothing(status)
          /\ UNCHANGED <<marker, lease, pointer, held, beat>>
       \/ \E n \in zset : DrainTo(status, n) /\ held' = held \cup {n}
    /\ UNCHANGED UnchangedByDrain

(* finish_and_drain(row, terminal) by the turn that holds the row, after    *)
(* which that turn is over.  A marker owned by another row is left alone;   *)
(* without a marker no status is flipped, but the queue is still drained.   *)
Finished(terminal) ==
    IF marker = NoRow \/ status[marker] \in Terminal THEN status
    ELSE [status EXCEPT ![marker] = terminal]

Owns(r) == marker \in {NoRow, r}

FinishAndDrain(r, terminal) ==
    /\ boot = "serving" /\ r \in held
    /\ \/ /\ ~Owns(r)
          /\ held' = held \ {r}
          /\ UNCHANGED <<status, zset, listed, marker, lease, pointer, beat>>
       \/ /\ Owns(r)
          /\ \/ /\ DrainNothing(Finished(terminal))
                /\ marker' = NoRow /\ lease' = 0 /\ pointer' = NoRow
                /\ held' = held \ {r}
                /\ UNCHANGED beat
             \/ \E n \in zset : /\ DrainTo(Finished(terminal), n)
                                /\ held' = (held \ {r}) \cup {n}
    /\ UNCHANGED UnchangedByDrain

(* mark_done / mark_failed / mark_cancelled: write-once, without a drain.   *)
SetTerminal_Overwrites(r, terminal) ==
    /\ status' = [status EXCEPT ![r] = terminal]
    /\ zset' = zset \ {r}
    /\ IF marker = r
       THEN marker' = NoRow /\ lease' = 0 /\ pointer' = NoRow
       ELSE UNCHANGED <<marker, lease, pointer>>
    /\ UNCHANGED <<position, author, age, newest, counter, listed>>

SetTerminal(r, terminal) ==
    /\ status[r] \notin Terminal
    /\ status' = [status EXCEPT ![r] = terminal]
    /\ zset' = zset \ {r}
    /\ IF marker = r
       THEN marker' = NoRow /\ lease' = 0 /\ pointer' = NoRow
       ELSE UNCHANGED <<marker, lease, pointer>>
    /\ UNCHANGED <<position, author, age, newest, counter, listed>>

(* A turn that pauses on a credential, or that the resume loop ran, marks   *)
(* its own row and ends; the queue is not drained in the same step.         *)
MarkOwnRow(r, terminal) ==
    /\ boot = "serving" /\ r \in held
    /\ SetTerminal(r, terminal)
    /\ held' = held \ {r}
    /\ UNCHANGED <<beat, boot, bounds>>

(* Abort marks the running row cancelled while its task is still unwinding. *)
Abort(r) ==
    /\ boot = "serving" /\ status[r] = "running"
    /\ SetTerminal(r, "cancelled")
    /\ UNCHANGED <<process, bounds>>

(* cancel of one queued row; clear is one cancel after another over the     *)
(* members it read with ZRANGE.                                             *)
Cancel(r) ==
    /\ boot = "serving" /\ r \in zset
    /\ zset' = zset \ {r}
    /\ status' = [status EXCEPT ![r] = IF @ \in Terminal THEN @ ELSE "cancelled"]
    /\ UNCHANGED <<position, author, age, newest, counter, marker, lease, pointer, listed>>
    /\ UNCHANGED <<process, bounds>>

(* The task of a turn ends without a queue call: it was cancelled, the POST *)
(* that popped the row answered server-busy, or the Redis call failed.      *)
TurnVanishes(r) ==
    /\ "vanishing_turns" \in Faults /\ boot = "serving" /\ r \in held
    /\ held' = held \ {r}
    /\ UNCHANGED <<redis, beat, boot, bounds>>
-----------------------------------------------------------------------------
(* heartbeat reads the marker and, in a later command, extends whatever     *)
(* marker is there by then.                                                 *)
HeartbeatCheck_AnyOwner(r) ==
    /\ boot = "serving" /\ r \in held /\ beat[r] = "due"
    /\ beat' = [beat EXCEPT ![r] = "checked"]
    /\ UNCHANGED <<redis, held, boot, bounds>>

HeartbeatCheck(r) ==
    /\ boot = "serving" /\ r \in held /\ beat[r] = "due"
    /\ beat' = [beat EXCEPT ![r] = IF marker = r THEN "checked" ELSE "done"]
    /\ UNCHANGED <<redis, held, boot, bounds>>

HeartbeatExtend_Adds(r) ==
    /\ boot = "serving" /\ r \in held /\ beat[r] = "checked"
    /\ lease' = IF marker = NoRow THEN lease ELSE lease + LeaseTicks
    /\ beat' = [beat EXCEPT ![r] = "done"]
    /\ UNCHANGED <<hash, zset, counter, marker, pointer, listed, held, boot, bounds>>

HeartbeatExtend(r) ==
    /\ boot = "serving" /\ r \in held /\ beat[r] = "checked"
    /\ lease' = IF marker = NoRow THEN lease ELSE LeaseTicks
    /\ beat' = [beat EXCEPT ![r] = "done"]
    /\ UNCHANGED <<hash, zset, counter, marker, pointer, listed, held, boot, bounds>>

(* One heartbeat period passes: Redis counts the lease down and drops the   *)
(* marker when it runs out.                                                 *)
Tick ==
    /\ marker # NoRow
    /\ "late_beats" \notin Faults => \A r \in held : beat[r] = "done"
    /\ lease' = lease - 1
    /\ marker' = IF lease = 1 THEN NoRow ELSE marker
    /\ beat' = [r \in Rows |-> IF r \in held THEN "due" ELSE beat[r]]
    /\ UNCHANGED <<hash, zset, counter, pointer, listed, held, boot, bounds>>

(* The reaper looks at every listed session and changes nothing.            *)
ReapExpiredLeases == UNCHANGED vars

(* A queued row leaves the merge window, then its TTL.  All rows have the   *)
(* same TTL, so an older row is never fresher than a younger one.           *)
GrowOld(r) ==
    /\ r \in zset /\ age[r] < Expired
    /\ \A q \in zset : position[q] < position[r] => age[q] > age[r]
    /\ age' = [age EXCEPT ![r] = @ + 1]
    /\ UNCHANGED <<status, position, author, newest>>
    /\ UNCHANGED <<zset, counter, marker, lease, pointer, listed, process, bounds>>
-----------------------------------------------------------------------------
(* The daemon dies with every turn it runs, restarts, and runs              *)
(* rehydrate_on_boot and then purge_queued_on_boot before it serves.        *)
Crash ==
    /\ crashes < MaxCrashes
    /\ boot = "serving" \/ "boot_crash" \in Faults
    /\ crashes' = crashes + 1
    /\ held' = {} /\ beat' = [r \in Rows |-> "done"]
    /\ boot' = "scan"
    /\ UNCHANGED <<redis, arrivals>>

BootStep(from, to) ==
    /\ boot = from /\ boot' = to
    /\ UNCHANGED <<held, beat, bounds, position, author, age, newest, counter>>

RehydrateScan ==
    \/ /\ ~listed /\ BootStep("scan", "serving")
       /\ UNCHANGED <<status, zset, marker, lease, pointer, listed>>
    \/ /\ listed /\ pointer \notin Running
       /\ BootStep("scan", "purge")
       /\ pointer' = NoRow
       /\ UNCHANGED <<status, zset, marker, lease, listed>>
    \/ /\ listed /\ pointer \in Running
       /\ BootStep("scan", "reset")
       /\ status' = [status EXCEPT ![pointer] = "queued"]
       /\ UNCHANGED <<zset, marker, lease, pointer, listed>>

RehydrateAdd ==
    /\ BootStep("reset", "readded")
    /\ zset' = zset \cup {pointer}
    /\ UNCHANGED <<status, marker, lease, pointer, listed>>

RehydrateUnmark ==
    /\ BootStep("readded", "unmarked")
    /\ marker' = NoRow /\ lease' = 0
    /\ UNCHANGED <<status, zset, pointer, listed>>

RehydrateForget ==
    /\ BootStep("unmarked", "purge")
    /\ pointer' = NoRow
    /\ UNCHANGED <<status, zset, marker, lease, listed>>

PurgeRow(r) ==
    /\ r \in zset
    /\ BootStep("purge", "purge")
    /\ status' = [status EXCEPT ![r] = "cancelled"]
    /\ UNCHANGED <<zset, marker, lease, pointer, listed>>

PurgeDrop_Unmarked ==
    /\ BootStep("purge", "dropped")
    /\ zset' = {}
    /\ UNCHANGED <<status, marker, lease, pointer, listed>>

PurgeDrop ==
    /\ \A r \in zset : status[r] = "cancelled"
    /\ BootStep("purge", "dropped")
    /\ zset' = {}
    /\ UNCHANGED <<status, marker, lease, pointer, listed>>

PurgeForget ==
    /\ BootStep("dropped", "serving")
    /\ listed' = FALSE
    /\ UNCHANGED <<status, zset, marker, lease, pointer>>

(* server.py logs a failure of these steps and serves with what they left.  *)
BootFails ==
    /\ "boot_error" \in Faults
    /\ boot # "serving" /\ BootStep(boot, "serving")
    /\ UNCHANGED <<status, zset, marker, lease, pointer, listed>>

BootNext ==
    \/ RehydrateScan \/ RehydrateAdd \/ RehydrateUnmark \/ RehydrateForget
    \/ (\E r \in Rows : PurgeRow(r)) \/ PurgeDrop \/ PurgeForget \/ BootFails
-----------------------------------------------------------------------------
Next ==
    \/ \E r \in Rows, u \in Users :
          Enqueue(r, u) \/ MergeOrEnqueue(r, u) \/ ReplaceLastOrEnqueue(r, u)
    \/ NextQueued
    \/ \E r \in Rows, t \in Terminal : FinishAndDrain(r, t) \/ MarkOwnRow(r, t)
    \/ \E r \in Rows : Abort(r) \/ Cancel(r) \/ TurnVanishes(r) \/ GrowOld(r)
    \/ \E r \in Rows : HeartbeatCheck(r) \/ HeartbeatExtend(r)
    \/ Tick \/ ReapExpiredLeases \/ Crash \/ BootNext

Spec == Init /\ [][Next]_vars
-----------------------------------------------------------------------------
(* Types, and what the type of a Redis key is.                              *)
TypeOK ==
    /\ status \in [Rows -> Status]
    /\ position \in [Rows -> Nat]
    /\ author \in [Rows -> Users \cup {NoUser}]
    /\ age \in [Rows -> {Fresh, Stale, Expired}]
    /\ newest \in [Rows -> Nat]
    /\ zset \in SUBSET Rows
    /\ counter \in Nat /\ arrivals \in Nat /\ crashes \in Nat
    /\ marker \in Rows \cup {NoRow} /\ lease \in 0..LeaseTicks
    /\ pointer \in Rows \cup {NoRow} /\ listed \in BOOLEAN
    /\ held \in SUBSET Rows /\ beat \in [Rows -> Beat] /\ boot \in Boot

(* The point of the running marker: as long as heartbeats are on time, two  *)
(* turns of one session never run at once (an aborted turn, whose row is    *)
(* terminal, may still be unwinding).                                       *)
OneTurnAtATime ==
    \A r, q \in held : status[r] = "running" /\ status[q] = "running" => r = q

(* FIFO: no row runs while a row accepted before it is still waiting in the *)
(* queue, whatever crashes, expiries and re-queues happened in between.     *)
NoOvertaking ==
    \A r \in Rows, q \in zset : status[r] = "running" => position[r] < position[q]

(* FIFO at the grain of messages: everything folded into an earlier row     *)
(* arrived before everything in a later row, so a merge or a replacement    *)
(* never lets a message jump ahead of a message that was accepted before.   *)
ArrivalOrder ==
    \A r, q \in Rows :
        /\ status[r] \in {"queued", "running"}
        /\ status[q] \in {"queued", "running"}
        /\ position[r] < position[q]
        => newest[r] < newest[q]

(* max_depth bounds waiting plus running rows whenever the daemon serves,   *)
(* although the boot sequence may exceed it for a moment.                   *)
DepthBounded ==
    boot = "serving" => Cardinality(zset \cup ({marker} \ {NoRow})) <= MaxDepth

(* No accepted message is stranded: a row whose status is queued can be     *)
(* reached by the next dequeue and by the next boot.  The boot sequence     *)
(* breaks this when it crashes between its own commands.                    *)
QueuedIsReachable ==
    boot = "serving" =>
        \A r \in Rows : status[r] = "queued" => r \in zset /\ listed

(* What crash recovery relies on: the survival pointer names the row that a *)
(* live turn works on and the session is in the set that the boot scans, so *)
(* that a crash at any moment leaves a row the next boot can find.          *)
RunningIsRecoverable ==
    boot = "serving" =>
        \A r \in held : status[r] = "running" => pointer = r /\ listed

(* write-once: a row never leaves a terminal status, whichever of abort,    *)
(* finish, pause, cancel, expiry and boot comes second.                     *)
TerminalIsFinal ==
    [][\A r \in Rows : status[r] \in Terminal => status'[r] = status[r]]_vars
=============================================================================
