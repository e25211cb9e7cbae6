---------------------------- MODULE SessionFifo ----------------------------
(***************************************************************************)
(* What a message queue backend promises to the dispatcher, for one        *)
(* session: rows wait in a line in the order they were accepted, at most   *)
(* one row holds the running slot, a row is taken only from the front of   *)
(* the line and only while the slot is free, and a row that is over stays  *)
(* over.  Both backends (RedisQueue, MemoryQueue) are shown to implement   *)
(* this; how they know that a slot is free, what expires, and how a crash  *)
(* is recovered is theirs.                                                 *)
(***************************************************************************)
EXTENDS Naturals, Sequences, SequencesExt, Lines

CONSTANTS Rows, NoRow

VARIABLES
    line,       \* rows waiting, first accepted first
    working,    \* rows whose turn was started and is not known to be over
    slot,       \* the row that holds the session's running slot
    over        \* rows that ended: completed, failed or cancelled

fifo == <<line, working, slot, over>>

Waiting == ToSet(line)

Init == line = <<>> /\ working = {} /\ slot = NoRow /\ over = {}

(* A message is accepted as a new row, at the end of the line.              *)
Join(r) ==
    /\ r \notin Waiting \cup working \cup over
    /\ line' = Append(line, r)
    /\ UNCHANGED <<working, slot, over>>

(* Rows end: cancelled, aborted, expired, or finished with nothing to run   *)
(* next.  The slot is freed when its holder is among them.                  *)
End(S) ==
    /\ S # {} /\ S \subseteq Waiting \cup working
    /\ line' = Without(line, S)
    /\ working' = working \ S
    /\ over' = over \cup S
    /\ slot' \in {NoRow, slot} /\ slot' \notin S

(* The k-th row of the line gets the slot; the rows before it end (their    *)
(* TTL ran out), and so may the row that held the slot until now.           *)
Serve(k, fin) ==
    /\ slot \in fin \cup {NoRow} /\ fin \subseteq working
    /\ k \in 1..Len(line)
    /\ LET passed == {line[i] : i \in 1..(k - 1)}
       IN  over' = over \cup fin \cup passed
    /\ line' = SubSeq(line, k + 1, Len(line))
    /\ working' = (working \ fin) \cup {line[k]}
    /\ slot' = line[k]

(* The slot's lease runs out although its row is not over.                  *)
Lapse == slot # NoRow /\ slot' = NoRow /\ UNCHANGED <<line, working, over>>

(* A row whose turn is presumed dead goes back to the front of the line.    *)
Rejoin(r) ==
    /\ r \in working
    /\ line' = <<r>> \o line
    /\ working' = working \ {r}
    /\ slot' \in {NoRow, slot}
    /\ UNCHANGED over

Next ==
    \/ \E r \in Rows : Join(r) \/ Rejoin(r)
    \/ \E S \in SUBSET Rows : End(S)
    \/ \E k \in 1..Len(line), fin \in SUBSET working : Serve(k, fin)
    \/ Lapse

Spec == Init /\ [][Next]_fifo
=============================================================================
