----------------------------- MODULE SessionLog -----------------------------
(***************************************************************************)
(* The durable event log of ONE session, and the two counters that number  *)
(* its events: the bus stamps what it broadcasts from the counter of       *)
(* EventBuffer (core/events), the store stamps what is recorded without a  *)
(* number from its SeqAllocator (core/runtime/session_store).  A write-    *)
(* behind flusher moves accepted events from the queue to events.jsonl and *)
(* then moves last_seq in meta.json forward.                               *)
(*                                                                         *)
(*   wire, alloc            EventBuffer._seq, SeqAllocator._seq (0: no key)*)
(*   loaded, pinned, mem    InMemorySessionStore._sessions[sid]            *)
(*   queue, batch, writer   a flusher shard: its queue, the batch its      *)
(*                          thread still has to write, and how far it is   *)
(*   log, tail, meta        events.jsonl, its last line, meta.json last_seq*)
(*   waiting                calls suspended inside store.open              *)
(*   evicting               _maybe_evict has flushed, not yet dropped      *)
(*   orphan, copy           the boot task that marks interrupted sessions, *)
(*                          and the last_seq of the meta.json it has read  *)
(*                                                                         *)
(* A definition named Def_Fault is Def with one plausible fault seeded in  *)
(* it, to see that a property notices; no specification uses it.           *)
(***************************************************************************)
EXTENDS Integers, Sequences, SequencesExt, Lines

CONSTANTS
    MaxCalls,       \* bound: calls over the behaviour
    MaxCrashes,     \* bound: crashes over the behaviour
    MaxFailures     \* bound: failed writes and full queues over the behaviour

(* The bounds are numbers: assumed where the module is instantiated.         *)
Bounded == MaxCalls \in Nat /\ MaxCrashes \in Nat /\ MaxFailures \in Nat

VARIABLES
    wire, alloc, loaded, pinned, mem,
    queue, batch, writer,
    log, tail, meta,
    waiting, evicting, orphan, copy,
    calls,          \* calls so far: the id of the last one
    life,           \* crashes so far
    failures,       \* failed writes and full queues so far
    mishaps         \* what went wrong in this life, and on disk before it

counters == <<wire, alloc>>
session  == <<loaded, pinned, mem>>
flusher  == <<queue, batch, writer>>
disk     == <<log, tail, meta>>
tasks    == <<waiting, evicting, orphan, copy>>
history  == <<calls, life, failures, mishaps>>
vars     == <<counters, session, flusher, disk, tasks, history>>

(* id: the call that recorded the event; life: the daemon that accepted it. *)
Event == [id : 1..MaxCalls, seq : Nat \ {0}, life : 0..MaxCrashes]

(* A call inside open: it wants the store's lock, or it has loaded the      *)
(* session and awaits the upsert of the index.  seq 0: not numbered yet.    *)
Call == [id : 1..MaxCalls, kind : {"event", "message", "read"},
         seq : Nat, at : {"lock", "upsert"}]

Mishap ==
    {"overtaken",   \* an event was numbered, and one after it accepted first
     "evicted",     \* the session was dropped with events not on disk
     "merged",      \* a line was appended to a torn one, and lost with it
     "lost",        \* the queue was full, or lines could not be written
     "behind",      \* a write failed, and meta.json does not cover the log
     "rolled back"} \* meta.json was overwritten with an older copy

Init ==
    /\ wire = 0 /\ alloc = 0
    /\ loaded = FALSE /\ pinned = FALSE /\ mem = <<>>
    /\ queue = <<>> /\ batch = <<>> /\ writer = "idle"
    /\ log = <<>> /\ tail = "clean" /\ meta = 0
    /\ waiting = {} /\ evicting = FALSE /\ orphan = "done" /\ copy = 0
    /\ calls = 0 /\ life = 0 /\ failures = 0 /\ mishaps = {}
-----------------------------------------------------------------------------
(* Numbers. *)
Larger(m, n) == IF m >= n THEN m ELSE n
TailSeq(s) == IF s = <<>> THEN 0 ELSE Last(s).seq

(* The next number of the bus.  Without a counter, it goes on after what is *)
(* in memory, or what meta.json says when that is more.                     *)
NextWire_FromMeta == (IF wire = 0 THEN meta ELSE wire) + 1
NextWire == (IF wire = 0 THEN Larger(TailSeq(mem), meta) ELSE wire) + 1

(* The next number of the store.  Without a counter, it goes on after what  *)
(* meta.json says, and reads the last line of the log only without one.     *)
NextAlloc ==
    1 + IF alloc # 0 THEN alloc
        ELSE IF meta # 0 THEN meta
        ELSE IF tail = "clean" THEN TailSeq(log) ELSE 0

(* append_event: an event is in memory and queued for the disk in one step; *)
(* a queue that is full, or too full of this session, drops it.             *)
Overtaken(i, n) ==
    IF \E w \in waiting : w.id # i /\ w.seq \in 1..n THEN {"overtaken"} ELSE {}

Fail == failures < MaxFailures /\ failures' = failures + 1

Enter(i, n) ==
    LET e == [id |-> i, seq |-> n, life |-> life]
    IN  /\ mem' = Append(mem, e)
        /\ \/ /\ queue' = Append(queue, e)
              /\ mishaps' = mishaps \cup Overtaken(i, n)
              /\ UNCHANGED failures
           \/ /\ Fail
              /\ mishaps' = mishaps \cup Overtaken(i, n) \cup {"lost"}
              /\ UNCHANGED queue
        /\ UNCHANGED <<batch, writer, disk, evicting, orphan, copy, life>>

(* An event that the bus has numbered pushes the store's counter forward.   *)
AcceptEvent(i, n) == Enter(i, n) /\ alloc' = Larger(alloc, n)

(* One that it has not is numbered by the store, which pushes the bus's.    *)
AcceptMessage_NotMirrored(i, seen) ==
    /\ Enter(i, NextAlloc)
    /\ alloc' = NextAlloc
    /\ wire' = Larger(wire, seen)
AcceptMessage(i, seen) ==
    /\ Enter(i, NextAlloc)
    /\ alloc' = NextAlloc
    /\ wire' = Larger(Larger(wire, seen), NextAlloc)
-----------------------------------------------------------------------------
(* Calls.  A call that finds the session in memory is done in one step; the *)
(* others queue up for the lock of the store.                               *)
Issue == calls < MaxCalls /\ calls' = calls + 1

AskToOpen(kind, n) ==
    /\ waiting' = waiting \cup
           {[id |-> calls + 1, kind |-> kind, seq |-> n, at |-> "lock"]}
    /\ UNCHANGED <<alloc, session, flusher, disk, evicting, orphan, copy, life, failures, mishaps>>

(* emit of an event that is persisted, and of a streaming token.            *)
EmitEvent ==
    /\ Issue
    /\ wire' = NextWire
    /\ \/ /\ loaded
          /\ AcceptEvent(calls + 1, NextWire)
          /\ UNCHANGED <<loaded, pinned, waiting>>
       \/ ~loaded /\ AskToOpen("event", NextWire)

EmitToken ==
    /\ Issue
    /\ wire' = NextWire
    /\ UNCHANGED <<alloc, session, flusher, disk, tasks, life, failures, mishaps>>

(* record(seq = 0): a message of the conversation.                          *)
RecordMessage ==
    /\ Issue
    /\ \/ loaded /\ AcceptMessage(calls + 1, 0) /\ UNCHANGED <<loaded, pinned, waiting>>
       \/ ~loaded /\ AskToOpen("message", 0) /\ UNCHANGED wire

(* A replay or a page of history: it opens what exists and does not pin it. *)
OnDisk == meta # 0 \/ log # <<>> \/ tail # "clean"
Read ==
    /\ Issue /\ ~loaded /\ OnDisk
    /\ AskToOpen("read", 0)
    /\ UNCHANGED wire

(* The lock goes to the first that asked.                                   *)
HasLock(w) ==
    /\ w \in waiting /\ w.at = "lock" /\ ~evicting
    /\ \A v \in waiting : v.at = "lock" => w.id <= v.id

(* It loads the log, and lets go of the lock before it updates the index.   *)
Load(w) ==
    /\ HasLock(w) /\ ~loaded
    /\ loaded' = TRUE /\ pinned' = (w.kind # "read") /\ mem' = log
    /\ waiting' = (waiting \ {w}) \cup {[w EXCEPT !.at = "upsert"]}
    /\ UNCHANGED <<counters, flusher, disk, evicting, orphan, copy, history>>

(* The call that finds the session loaded goes on at once.                  *)
Join(w) ==
    /\ HasLock(w) /\ loaded
    /\ waiting' = waiting \ {w}
    /\ pinned' = (pinned \/ w.kind # "read")
    /\ \/ w.kind = "event" /\ AcceptEvent(w.id, w.seq) /\ UNCHANGED wire
       \/ w.kind = "message" /\ AcceptMessage(w.id, 0)
       \/ w.kind = "read" /\ UNCHANGED <<counters, mem, flusher, disk, evicting, orphan, copy, life, failures, mishaps>>
    /\ UNCHANGED <<loaded, calls>>

(* After the upsert the bus learns the last number of the session.          *)
Resume(w) ==
    /\ w \in waiting /\ w.at = "upsert"
    /\ waiting' = waiting \ {w}
    /\ \/ /\ w.kind = "event" /\ AcceptEvent(w.id, w.seq)
          /\ wire' = Larger(wire, TailSeq(mem))
       \/ w.kind = "message" /\ AcceptMessage(w.id, TailSeq(mem))
       \/ /\ w.kind = "read" /\ wire' = Larger(wire, TailSeq(mem))
          /\ UNCHANGED <<alloc, mem, flusher, disk, evicting, orphan, copy, life, failures, mishaps>>
    /\ UNCHANGED <<loaded, pinned, calls>>
-----------------------------------------------------------------------------
(* The flusher.  It takes all that is queued, in the order of the numbers,  *)
(* and keeps of each number beyond meta.json the first event that has it.   *)
Newer_Gap(e, seq) == e.seq > seq + 1
Newer(e, seq) == e.seq > seq

Chosen(s) ==
    LET first == {k \in 1..Len(s) :
                    Newer(s[k], meta) /\ \A j \in 1..(k - 1) : s[j].seq # s[k].seq}
    IN  {s[k] : k \in first}

Kept(s) == Arranged(Chosen(s), [e \in Chosen(s) |-> e.seq])

Gather_NewestFirst ==
    /\ writer = "idle" /\ queue # <<>>
    /\ batch' = Kept(<<Last(queue)>>)
    /\ queue' = Front(queue)
    /\ writer' = IF batch' = <<>> THEN "idle" ELSE "writing"
    /\ UNCHANGED <<counters, session, disk, tasks, history>>

Gather ==
    /\ writer = "idle" /\ queue # <<>>
    /\ batch' = Kept(queue)
    /\ queue' = <<>>
    /\ writer' = IF batch' = <<>> THEN "idle" ELSE "writing"
    /\ UNCHANGED <<counters, session, disk, tasks, history>>

(* One line of events.jsonl.  A line that follows a torn one is part of it, *)
(* and no reader can parse the two.  The last event stays in batch, for     *)
(* meta.json.                                                               *)
AppendLine ==
    /\ writer = "writing"
    /\ IF tail = "torn"
       THEN /\ log' = log /\ tail' = "unreadable"
            /\ mishaps' = mishaps \cup {"merged"}
       ELSE /\ log' = Append(log, Head(batch)) /\ tail' = "clean"
            /\ UNCHANGED mishaps
    /\ IF Len(batch) = 1
       THEN writer' = "logged" /\ UNCHANGED batch
       ELSE batch' = Tail(batch) /\ UNCHANGED writer
    /\ UNCHANGED <<counters, session, queue, meta, tasks, calls, life, failures>>

WriteMeta_KeepsBatch ==
    /\ writer = "logged"
    /\ meta' = Last(batch).seq
    /\ writer' = "idle"
    /\ UNCHANGED <<counters, session, batch, queue, log, tail, tasks, history>>

WriteMeta_OfMemory ==
    /\ writer = "logged"
    /\ meta' = Larger(TailSeq(mem), Last(batch).seq)
    /\ batch' = <<>> /\ writer' = "idle"
    /\ UNCHANGED <<counters, session, queue, log, tail, tasks, history>>

WriteMeta ==
    /\ writer = "logged"
    /\ meta' = Last(batch).seq
    /\ batch' = <<>> /\ writer' = "idle"
    /\ UNCHANGED <<counters, session, queue, log, tail, tasks, history>>

(* A write that fails is logged, and the rest of the batch is gone; part of *)
(* a line may be in the file.                                               *)
WriteFails ==
    /\ writer # "idle" /\ Fail
    /\ batch' = <<>> /\ writer' = "idle"
    /\ tail' \in {tail} \cup (IF writer = "writing" THEN {"torn"} ELSE {})
    /\ mishaps' = mishaps \cup (IF writer = "writing" THEN {"lost"} ELSE {})
                          \cup (IF TailSeq(log) > meta THEN {"behind"} ELSE {})
    /\ UNCHANGED <<counters, session, queue, log, meta, tasks, calls, life>>
-----------------------------------------------------------------------------
(* Eviction of a session that is not pinned, under the lock.  flush returns *)
(* as soon as it sees an empty queue, whatever the writer still holds, and  *)
(* it suspends the eviction, so that events may come in before the drop.    *)
EvictFlush ==
    /\ loaded /\ ~pinned /\ ~evicting /\ waiting = {}
    /\ queue = <<>>
    /\ evicting' = TRUE
    /\ UNCHANGED <<counters, session, flusher, disk, waiting, orphan, copy, history>>

Unwritten == queue # <<>> \/ writer = "writing"

EvictDrop ==
    /\ evicting
    /\ evicting' = FALSE
    /\ loaded' = FALSE /\ mem' = <<>>
    /\ mishaps' = IF Unwritten THEN mishaps \cup {"evicted"} ELSE mishaps
    /\ UNCHANGED <<pinned, counters, flusher, disk, waiting, orphan, copy, calls, life, failures>>

(* The counter of the bus is forgotten 30 minutes after the last emission,  *)
(* by when the flusher (every 25 ms) and every open have finished.          *)
ForgetCounter ==
    /\ wire # 0 /\ waiting = {} /\ ~evicting /\ queue = <<>> /\ writer = "idle"
    /\ wire' = 0
    /\ UNCHANGED <<alloc, session, flusher, disk, tasks, history>>

(* The boot task reads meta.json of every session first, and then writes    *)
(* each copy back with interrupted = true, unless it is so marked already.  *)
OrphanRead ==
    /\ orphan = "boot"
    /\ \/ orphan' = "done" /\ UNCHANGED copy
       \/ meta # 0 /\ orphan' = "read" /\ copy' = meta
    /\ UNCHANGED <<counters, session, flusher, disk, waiting, evicting, history>>

OrphanWrite ==
    /\ orphan = "read"
    /\ meta' = copy
    /\ orphan' = "done" /\ copy' = 0
    /\ mishaps' = IF copy < meta THEN mishaps \cup {"rolled back"} ELSE mishaps
    /\ UNCHANGED <<counters, session, flusher, log, tail, waiting, evicting, calls, life, failures>>

(* The daemon dies: the disk is left as it is, but for half a line.         *)
Crash ==
    /\ life < MaxCrashes
    /\ life' = life + 1
    /\ tail' \in {tail} \cup (IF writer = "writing" THEN {"torn"} ELSE {})
    /\ wire' = 0 /\ alloc' = 0
    /\ loaded' = FALSE /\ pinned' = FALSE /\ mem' = <<>>
    /\ queue' = <<>> /\ batch' = <<>> /\ writer' = "idle"
    /\ waiting' = {} /\ evicting' = FALSE /\ orphan' = "boot" /\ copy' = 0
    /\ mishaps' = mishaps \cap {"merged"}
    /\ UNCHANGED <<log, meta, calls, failures>>

Next ==
    \/ EmitEvent \/ EmitToken \/ RecordMessage \/ Read
    \/ \E w \in waiting : Load(w) \/ Join(w) \/ Resume(w)
    \/ Gather \/ AppendLine \/ WriteMeta \/ WriteFails
    \/ EvictFlush \/ EvictDrop \/ ForgetCounter
    \/ OrphanRead \/ OrphanWrite \/ Crash

Spec == Init /\ [][Next]_vars

(* A shard's loop waits for the queue, and the thread it starts ends.       *)
FairSpec == Spec /\ WF_vars(Gather) /\ WF_vars(AppendLine) /\ WF_vars(WriteMeta)
-----------------------------------------------------------------------------
(* Every variable keeps its type, no two calls in open are the same, a      *)
(* session that is not loaded has nothing in memory, and the writer is idle *)
(* exactly when it has nothing left to write.                               *)
TypeOK ==
    /\ wire \in Nat /\ alloc \in Nat /\ meta \in Nat /\ copy \in Nat
    /\ {loaded, pinned, evicting} \subseteq BOOLEAN
    /\ ToSet(mem) \cup ToSet(queue) \cup ToSet(batch) \cup ToSet(log) \subseteq Event
    /\ waiting \subseteq Call
    /\ \A v, w \in waiting : v.id = w.id => v = w
    /\ writer \in {"idle", "writing", "logged"}
    /\ tail \in {"clean", "torn", "unreadable"}
    /\ orphan \in {"boot", "read", "done"}
    /\ calls \in 0..MaxCalls /\ life \in 0..MaxCrashes /\ failures \in 0..MaxFailures
    /\ mishaps \subseteq Mishap
    /\ ~loaded => mem = <<>>
    /\ writer = "idle" <=> batch = <<>>

OfThisLife == {k \in 1..Len(mem) : mem[k].life = life}

(* The two counters never give numbers out of order: the events that one    *)
(* daemon accepts are numbered in the order of acceptance, unless a call    *)
(* was overtaken after the bus had numbered its event, or meta.json, from   *)
(* which a forgotten counter goes on, was overwritten with an old copy.     *)
InOrder ==
    mishaps \cap {"overtaken", "rolled back", "behind"} = {} =>
        \A j, k \in OfThisLife : j < k => mem[j].seq < mem[k].seq

(* A crash loses only the end of the conversation: when an event is in the  *)
(* log, so is every event that was accepted before it in the same life.     *)
NoHoles ==
    \A j, k \in OfThisLife : j < k /\ mem[k] \in ToSet(log) => mem[j] \in ToSet(log)

(* Nothing is dropped from the durable log: what a daemon has accepted is   *)
(* on its way to the log or in it, and gets there without holes.            *)
NothingDropped ==
    mishaps \cap {"overtaken", "merged", "lost"} = {} =>
        /\ \A k \in OfThisLife : mem[k] \in ToSet(queue) \cup ToSet(batch) \cup ToSet(log)
        /\ NoHoles

(* The session in memory and the log agree again and again, so that an      *)
(* eviction, a restart or another reader sees the same conversation.        *)
LogCatchesUp == []<>(loaded /\ mishaps = {} => mem = log)
=============================================================================
