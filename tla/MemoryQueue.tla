---------------------------- MODULE MemoryQueue ----------------------------
(***************************************************************************)
(* The in-process backend of the per-session message queue                 *)
(* (MemoryQueueBackend, core/app/message_queue.py), for ONE session, with  *)
(* the turns that own a row, their heartbeats, the passing of time and the *)
(* reaper.  No method suspends between its first read and its last write,  *)
(* so every method is one step.  A restart of the process loses all of it. *)
(*                                                                         *)
(*   status, author, since, folded, expired   the row dicts in _by_id      *)
(*   line                                     _queued[sid]                 *)
(*   slot, lease              _running[sid] and its lease_until            *)
(*                                                                         *)
(* Def_Fault is Def with a plausible fault seeded in it (see RedisQueue).  *)
(***************************************************************************)
EXTENDS Naturals, Sequences, FiniteSets, SequencesExt, Lines

CONSTANTS
    Rows, Users, NoUser, NoRow,
    MaxDepth,       \* session.queue.max_depth
    LeaseTicks,     \* lease length, in heartbeat periods
    MaxArrivals,    \* bound: messages accepted over the behaviour
    MaxTurns,       \* bound: live turns of one row
    Faults          \* subset of {"late_beats", "vanishing_turns"}

ASSUME MemoryRows == NoRow \notin Rows
ASSUME MemoryBounds ==
    /\ MaxDepth \in Nat \ {0} /\ LeaseTicks \in Nat /\ LeaseTicks >= 2
    /\ MaxArrivals \in Nat /\ MaxTurns \in Nat \ {0}
ASSUME MemoryFaults == Faults \subseteq {"late_beats", "vanishing_turns"}

VARIABLES
    status, author,
    since,      \* age of enqueued_at: of the newest message of the row
    folded,     \* enqueued_at was refreshed after ttl_expires_at was set
    expired,    \* ttl_expires_at < now
    newest,     \* the last message folded into the row
    line, slot, lease,
    taken,      \* the newest message when the row was last handed to a turn
    live,       \* how many turn tasks run for the row
    beaten,     \* a turn of the row sent its heartbeat in this period
    tardy,      \* history: a turn has missed a period
    arrivals

row     == <<status, author, since, folded, expired, newest>>
message == <<author, since, folded, expired, newest>>
queue   == <<line, slot, lease>>
process == <<taken, live, beaten, tardy>>
vars    == <<row, queue, process, arrivals>>

Terminal == {"completed", "failed", "cancelled"}
Fresh == 0      \* within auto_merge_window_s
Stale == 1      \* older than the window, younger than the TTL
Old   == 2      \* older than the TTL

Init ==
    /\ status = [r \in Rows |-> "absent"]
    /\ author = [r \in Rows |-> NoUser]
    /\ since = [r \in Rows |-> Fresh]
    /\ folded = [r \in Rows |-> FALSE] /\ expired = [r \in Rows |-> FALSE]
    /\ newest = [r \in Rows |-> 0]
    /\ line = <<>> /\ slot = NoRow /\ lease = 0
    /\ taken = [r \in Rows |-> 0] /\ live = [r \in Rows |-> 0]
    /\ beaten = [r \in Rows |-> TRUE] /\ tardy = FALSE
    /\ arrivals = 0

Depth_LineOnly == Len(line)
Depth == Len(line) + (IF slot = NoRow THEN 0 ELSE 1)
-----------------------------------------------------------------------------
(* Ids are random: which fresh one a row gets makes no difference.          *)
PushRow(r, u) ==
    /\ status[r] = "absent"
    /\ r = CHOOSE q \in Rows : status[q] = "absent"
    /\ Depth < MaxDepth
    /\ status' = [status EXCEPT ![r] = "queued"]
    /\ author' = [author EXCEPT ![r] = u]
    /\ newest' = [newest EXCEPT ![r] = arrivals + 1]
    /\ line' = Append(line, r)
    /\ UNCHANGED <<since, folded, expired, slot, lease>>

(* Folding refreshes enqueued_at but not ttl_expires_at.                    *)
FoldInto(r) ==
    /\ newest' = [newest EXCEPT ![r] = arrivals + 1]
    /\ since' = [since EXCEPT ![r] = Fresh]
    /\ folded' = [folded EXCEPT ![r] = TRUE]
    /\ UNCHANGED <<status, author, expired, queue>>

Accept ==
    /\ arrivals < MaxArrivals /\ arrivals' = arrivals + 1
    /\ UNCHANGED process

Replaceable_AnyRow(r, u) == r \in ToSet(line) /\ author[r] = u
Replaceable(r, u) == line # <<>> /\ Last(line) = r /\ author[r] = u
Mergeable(r, u) == Replaceable(r, u) /\ since[r] = Fresh

Enqueue(r, u) == PushRow(r, u) /\ Accept

MergeOrEnqueue(r, u) ==
    /\ Accept
    /\ \/ Mergeable(r, u) /\ FoldInto(r)
       \/ (\A q \in Rows : ~Mergeable(q, u)) /\ PushRow(r, u)

ReplaceLastOrEnqueue(r, u) ==
    /\ Accept
    /\ \/ Replaceable(r, u) /\ FoldInto(r)
       \/ (\A q \in Rows : ~Replaceable(q, u)) /\ PushRow(r, u)
-----------------------------------------------------------------------------
(* next_queued once the slot is free: every expired row of the line fails,  *)
(* then the first row left gets the slot, and its caller starts a turn.     *)
Serve(base, waiting, turns) ==
    LET dead == {r \in ToSet(waiting) : expired[r]}
        left == Without(waiting, dead)
        swept == [r \in Rows |-> IF r \in dead THEN "failed" ELSE base[r]]
    IN  IF left = <<>>
        THEN /\ status' = swept /\ line' = left
             /\ slot' = NoRow /\ lease' = 0
             /\ live' = turns
             /\ UNCHANGED <<taken, beaten, tardy>>
        ELSE LET n == Head(left) IN
             /\ turns[n] < MaxTurns
             /\ status' = [swept EXCEPT ![n] = "running"] /\ line' = Tail(left)
             /\ slot' = n /\ lease' = LeaseTicks
             /\ live' = [turns EXCEPT ![n] = @ + 1]
             /\ taken' = [taken EXCEPT ![n] = newest[n]]
             /\ beaten' = [beaten EXCEPT ![n] = TRUE]
             /\ UNCHANGED tardy

SlotTaken_Never == FALSE
SlotTaken == slot # NoRow

NextQueued ==
    /\ ~SlotTaken
    /\ Serve(status, line, live)
    /\ UNCHANGED <<message, arrivals>>

(* _set_status: write-once; frees the slot and leaves the line.             *)
Settled_SlotKept(r) == FALSE
Settled(r) == slot = r

SetStatus_Overwrites(r, terminal) ==
    /\ status' = [status EXCEPT ![r] = terminal]
    /\ line' = Without(line, {r})
    /\ IF Settled(r) THEN slot' = NoRow /\ lease' = 0 ELSE UNCHANGED <<slot, lease>>
SetStatus(r, terminal) ==
    /\ status' = [status EXCEPT ![r] = IF @ \in Terminal THEN @ ELSE terminal]
    /\ line' = Without(line, {r})
    /\ IF Settled(r) THEN slot' = NoRow /\ lease' = 0 ELSE UNCHANGED <<slot, lease>>

TurnEnds(r) == live[r] > 0 /\ live' = [live EXCEPT ![r] = @ - 1]

(* finish_and_drain by a turn of the row: whoever holds the slot by then.   *)
FinishAndDrain(r, terminal) ==
    LET ended == [status EXCEPT ![r] = IF @ \in Terminal THEN @ ELSE terminal] IN
    /\ live[r] > 0
    /\ \/ /\ slot \notin {NoRow, r}
          /\ status' = ended /\ line' = Without(line, {r})
          /\ TurnEnds(r)
          /\ UNCHANGED <<slot, lease, taken, beaten, tardy>>
       \/ /\ slot \in {NoRow, r}
          /\ Serve(ended, Without(line, {r}), [live EXCEPT ![r] = @ - 1])
    /\ UNCHANGED <<message, arrivals>>

(* mark_done / mark_failed / mark_cancelled by the turn itself.             *)
MarkOwnRow(r, terminal) ==
    /\ TurnEnds(r) /\ SetStatus(r, terminal)
    /\ UNCHANGED <<message, taken, beaten, tardy, arrivals>>

(* mark_cancelled by abort, while the turn still unwinds.                   *)
Abort(r) ==
    /\ status[r] = "running" /\ SetStatus(r, "cancelled")
    /\ UNCHANGED <<message, process, arrivals>>

Cancel(r) ==
    /\ status[r] = "queued"
    /\ status' = [status EXCEPT ![r] = "cancelled"]
    /\ line' = Without(line, {r})
    /\ UNCHANGED <<message, slot, lease, process, arrivals>>

Clear ==
    /\ line # <<>>
    /\ status' = [r \in Rows |-> IF r \in ToSet(line) THEN "cancelled" ELSE status[r]]
    /\ line' = <<>>
    /\ UNCHANGED <<message, slot, lease, process, arrivals>>

(* The task of a turn ends without a queue call.                            *)
TurnVanishes(r) ==
    /\ "vanishing_turns" \in Faults
    /\ TurnEnds(r)
    /\ UNCHANGED <<row, queue, taken, beaten, tardy, arrivals>>
-----------------------------------------------------------------------------
Heartbeat_Adds(r) ==
    /\ live[r] > 0 /\ ~beaten[r]
    /\ beaten' = [beaten EXCEPT ![r] = TRUE]
    /\ lease' = IF status[r] = "running" THEN lease + LeaseTicks ELSE lease
    /\ UNCHANGED <<row, line, slot, taken, live, tardy, arrivals>>

Heartbeat(r) ==
    /\ live[r] > 0 /\ ~beaten[r]
    /\ beaten' = [beaten EXCEPT ![r] = TRUE]
    /\ lease' = IF status[r] = "running" THEN LeaseTicks ELSE lease
    /\ UNCHANGED <<row, line, slot, taken, live, tardy, arrivals>>

Tick ==
    /\ slot # NoRow /\ lease > 0
    /\ "late_beats" \notin Faults => \A r \in Rows : live[r] > 0 => beaten[r]
    /\ lease' = lease - 1
    /\ beaten' = [r \in Rows |-> live[r] = 0]
    /\ tardy' = (tardy \/ \E r \in Rows : live[r] > 0 /\ ~beaten[r])
    /\ UNCHANGED <<row, line, slot, taken, live, arrivals>>

(* reap_expired_leases: the running row goes back to the head of the line,  *)
(* whether or not a turn is still at work on it.                            *)
LeaseOver_Early == lease < LeaseTicks
LeaseOver_Never == lease < 0
LeaseOver == lease = 0

ReapExpiredLeases ==
    /\ slot # NoRow /\ LeaseOver
    /\ status' = [status EXCEPT ![slot] = "queued"]
    /\ line' = <<slot>> \o line
    /\ slot' = NoRow /\ lease' = 0
    /\ UNCHANGED <<message, process, arrivals>>

(* Time passes for a row.  All rows have the same TTL, which is longer than *)
(* the merge window, and everything in an older row is older than           *)
(* everything in a younger one.                                             *)
Pending == {r \in Rows : status[r] \in {"queued", "running"}}

GrowOld(r) ==
    LET older == {q \in Pending : newest[q] < newest[r]} IN
    /\ r \in Pending
    /\ \/ /\ since[r] = Fresh
          /\ \A q \in older : since[q] > Fresh
          /\ since' = [since EXCEPT ![r] = Stale]
          /\ UNCHANGED expired
       \/ /\ ~expired[r]
          /\ \A q \in older : since[q] = Old
          /\ expired' = [expired EXCEPT ![r] = TRUE]
          /\ IF folded[r] THEN UNCHANGED since
             ELSE since[r] = Stale /\ since' = [since EXCEPT ![r] = Old]
       \/ /\ expired[r] /\ since[r] = Stale
          /\ since' = [since EXCEPT ![r] = Old]
          /\ UNCHANGED expired
    /\ UNCHANGED <<status, author, folded, newest, queue, process, arrivals>>

Next ==
    \/ \E r \in Rows, u \in Users :
          Enqueue(r, u) \/ MergeOrEnqueue(r, u) \/ ReplaceLastOrEnqueue(r, u)
    \/ NextQueued \/ Clear
    \/ \E r \in Rows, t \in Terminal : FinishAndDrain(r, t) \/ MarkOwnRow(r, t)
    \/ \E r \in Rows : Abort(r) \/ Cancel(r) \/ TurnVanishes(r)
    \/ \E r \in Rows : Heartbeat(r) \/ GrowOld(r)
    \/ Tick \/ ReapExpiredLeases

Spec == Init /\ [][Next]_vars
-----------------------------------------------------------------------------
(* The three places a row's state is kept in agree: the status in _by_id,   *)
(* the list _queued and the slot _running, through reaping, late finishes   *)
(* and clears.  No row is in the line twice.                                *)
IndexesAgree ==
    /\ \A r \in Rows : status[r] = "queued" <=> r \in ToSet(line)
    /\ \A r \in Rows : status[r] = "running" <=> slot = r
    /\ IsInjective(line)

(* Types, and that the three indexes agree.                                 *)
TypeOK ==
    /\ status \in [Rows -> {"absent", "queued", "running"} \cup Terminal]
    /\ author \in [Rows -> Users \cup {NoUser}]
    /\ since \in [Rows -> {Fresh, Stale, Old}]
    /\ folded \in [Rows -> BOOLEAN] /\ expired \in [Rows -> BOOLEAN]
    /\ newest \in [Rows -> Nat] /\ taken \in [Rows -> Nat]
    /\ line \in Seq(Rows) /\ slot \in Rows \cup {NoRow} /\ lease \in 0..LeaseTicks
    /\ live \in [Rows -> 0..MaxTurns] /\ beaten \in [Rows -> BOOLEAN]
    /\ tardy \in BOOLEAN
    /\ arrivals \in Nat
    /\ IndexesAgree

(* Two turns that own a row of a session never run at once (turns of a row  *)
(* that is terminal are unwinding).                                         *)
OneOwner ==
    /\ \A r, q \in Rows :
          live[r] > 0 /\ live[q] > 0 /\ status[r] \notin Terminal
          /\ status[q] \notin Terminal => r = q
    /\ \A r \in Rows : status[r] \notin Terminal => live[r] <= 1

(* A row is completed only for messages its turn has seen: nothing is       *)
(* folded into a row while a turn works on it, although a reaped row is a   *)
(* queued row again.                                                        *)
NothingUnseen == \A r \in Rows : status[r] = "completed" => taken[r] = newest[r]

(* One turn at a time works on a session, and has seen all that it          *)
(* completes, unless a heartbeat was late: then the reaper takes the row of *)
(* a live turn.                                                             *)
OneTurnAtATime == ~tardy => OneOwner /\ NothingUnseen

(* FIFO by message along the slot and the line, also after reaping.         *)
ArrivalOrder ==
    LET s == IF slot = NoRow THEN line ELSE <<slot>> \o line IN
    \A i, j \in DOMAIN s : i < j => newest[s[i]] < newest[s[j]]

(* max_depth bounds the rows waiting and running, also after reaping.       *)
DepthBounded == Cardinality(ToSet(line) \cup ({slot} \ {NoRow})) <= MaxDepth

(* write-once: a row never leaves a terminal status.                        *)
TerminalIsFinal ==
    [][\A r \in Rows : status[r] \in Terminal => status'[r] = status[r]]_vars
=============================================================================
