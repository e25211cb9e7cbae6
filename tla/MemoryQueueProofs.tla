------------------------- MODULE MemoryQueueProofs -------------------------
(***************************************************************************)
(* Theorems about the in-process queue, for every set of rows and users,   *)
(* every cap and lease, and every bound.                                   *)
(***************************************************************************)
EXTENDS MemoryQueueMC, LinesProofs

Types ==
    /\ status \in [Rows -> {"absent", "queued", "running"} \cup Terminal]
    /\ author \in [Rows -> Users \cup {NoUser}]
    /\ since \in [Rows -> {Fresh, Stale, Old}]
    /\ folded \in [Rows -> BOOLEAN] /\ expired \in [Rows -> BOOLEAN]
    /\ newest \in [Rows -> Nat] /\ taken \in [Rows -> Nat]
    /\ line \in Seq(Rows) /\ slot \in Rows \cup {NoRow} /\ lease \in 0..LeaseTicks
    /\ live \in [Rows -> 0..MaxTurns] /\ beaten \in [Rows -> BOOLEAN]
    /\ tardy \in BOOLEAN
    /\ arrivals \in Nat

(* next_queued and the second half of finish_and_drain, taken apart: the    *)
(* rows that are swept, and the one that gets the slot.                     *)
Nobody(base, turns, dead) ==
    /\ status' = [r \in Rows |-> IF r \in dead THEN "failed" ELSE base[r]]
    /\ line' = <<>> /\ slot' = NoRow /\ lease' = 0 /\ live' = turns
    /\ UNCHANGED <<taken, beaten, tardy>>

Somebody(base, left, turns, dead, n) ==
    /\ turns[n] < MaxTurns
    /\ status' = [[r \in Rows |-> IF r \in dead THEN "failed" ELSE base[r]]
                     EXCEPT ![n] = "running"]
    /\ line' = Tail(left) /\ slot' = n /\ lease' = LeaseTicks
    /\ live' = [turns EXCEPT ![n] = @ + 1]
    /\ taken' = [taken EXCEPT ![n] = newest[n]]
    /\ beaten' = [beaten EXCEPT ![n] = TRUE]
    /\ UNCHANGED tardy

(* Serve sweeps the expired rows and then pops, or finds nobody.            *)
LEMMA ServeParts ==
    ASSUME NEW base, NEW waiting \in Seq(Rows), NEW turns, Serve(base, waiting, turns)
    PROVE  \E dead, left :
              /\ dead = {r \in ToSet(waiting) : expired[r]}
              /\ left = Without(waiting, dead) /\ left \in Seq(Rows)
              /\ ToSet(left) = ToSet(waiting) \ dead
              /\ IsInjective(waiting) => IsInjective(left)
              /\ \/ left = <<>> /\ Nobody(base, turns, dead)
                 \/ left # <<>> /\ Somebody(base, left, turns, dead, Head(left))
<1> DEFINE dead == {r \in ToSet(waiting) : expired[r]}
           left == Without(waiting, dead)
<1>1. /\ left \in Seq(Rows) /\ ToSet(left) = ToSet(waiting) \ dead
      /\ IsInjective(waiting) => IsInjective(left)
  BY WithoutType
<1>2. \/ left = <<>> /\ Nobody(base, turns, dead)
      \/ left # <<>> /\ Somebody(base, left, turns, dead, Head(left))
  BY DEF Serve, Nobody, Somebody
<1> QED BY <1>1, <1>2
-----------------------------------------------------------------------------
(* Types, and the three indexes.                                            *)

(* What Serve does to them, from indexes that agree but for the slot.       *)
LEMMA ServeTypes ==
    ASSUME Types, NEW base \in [Rows -> {"absent", "queued", "running"} \cup Terminal],
           NEW waiting \in Seq(Rows), NEW turns \in [Rows -> 0..MaxTurns],
           \A r \in Rows : base[r] = "queued" <=> r \in ToSet(waiting),
           \A r \in Rows : base[r] # "running",
           IsInjective(waiting), Serve(base, waiting, turns), UNCHANGED <<message, arrivals>>
    PROVE  Types' /\ IndexesAgree'
<1>1. PICK dead, left :
              /\ dead = {r \in ToSet(waiting) : expired[r]}
              /\ left = Without(waiting, dead) /\ left \in Seq(Rows)
              /\ ToSet(left) = ToSet(waiting) \ dead
              /\ IsInjective(waiting) => IsInjective(left)
              /\ \/ left = <<>> /\ Nobody(base, turns, dead)
                 \/ left # <<>> /\ Somebody(base, left, turns, dead, Head(left))
  BY ServeParts
<1>2. dead \subseteq ToSet(waiting)
  BY <1>1
<1>3. CASE left = <<>> /\ Nobody(base, turns, dead)
  <2>1. ToSet(waiting) = dead
    BY <1>1, <1>2, <1>3, EmptyLine
  <2>2. Types'
    BY <1>3, EmptyLine, MemoryBounds DEF Types, Nobody, message, Terminal
  <2>3. IndexesAgree'
    BY <1>3, <2>1, EmptyLine, MemoryRows DEF Nobody, IndexesAgree, Terminal
  <2> QED BY <2>2, <2>3
<1>4. CASE left # <<>> /\ Somebody(base, left, turns, dead, Head(left))
  <2> DEFINE n == Head(left)
  <2>1. /\ n \in ToSet(left) /\ n \in Rows /\ Tail(left) \in Seq(Rows)
        /\ IsInjective(Tail(left)) /\ ToSet(Tail(left)) = ToSet(left) \ {n}
    BY <1>1, <1>4, LeaveLine
  <2> HIDE DEF n
  <2>2. Somebody(base, left, turns, dead, n)
    BY <1>4 DEF n
  <2>3. Types'
    <3>1. /\ status' \in [Rows -> {"absent", "queued", "running"} \cup Terminal]
          /\ author' \in [Rows -> Users \cup {NoUser}]
          /\ since' \in [Rows -> {Fresh, Stale, Old}]
          /\ folded' \in [Rows -> BOOLEAN] /\ expired' \in [Rows -> BOOLEAN]
          /\ newest' \in [Rows -> Nat] /\ arrivals' \in Nat /\ tardy' \in BOOLEAN
      BY <2>1, <2>2 DEF Types, Somebody, message, Terminal
    <3>2. taken' \in [Rows -> Nat] /\ beaten' \in [Rows -> BOOLEAN]
      BY <2>1, <2>2 DEF Types, Somebody
    <3>3. line' \in Seq(Rows) /\ slot' \in Rows \cup {NoRow} /\ lease' \in 0..LeaseTicks
      BY <2>1, <2>2, MemoryBounds DEF Somebody
    <3>4. live' \in [Rows -> 0..MaxTurns]
      BY <2>1, <2>2, MemoryBounds DEF Somebody
    <3> QED BY <3>1, <3>2, <3>3, <3>4 DEF Types
  <2>4. IndexesAgree'
    BY <1>1, <1>2, <2>1, <2>2, MemoryRows DEF Somebody, IndexesAgree, Terminal
  <2> QED BY <2>3, <2>4
<1> QED BY <1>1, <1>3, <1>4

(* Types and the agreement of the three indexes are inductive.              *)
LEMMA TypeStep == TypeOK /\ [Next]_vars => TypeOK'
<1> SUFFICES ASSUME Types, IndexesAgree, [Next]_vars PROVE Types' /\ IndexesAgree'
  BY DEF TypeOK, Types
<1> USE DEF queue, process, message, row
<1>1. ASSUME NEW r \in Rows, NEW u \in Users, PushRow(r, u), Accept
      PROVE  Types' /\ IndexesAgree'
  <2>1. /\ line' \in Seq(Rows) /\ ToSet(line') = ToSet(line) \cup {r}
        /\ IsInjective(line) /\ r \notin ToSet(line) => IsInjective(line')
    <3>1. line' = Append(line, r)
      BY <1>1 DEF PushRow
    <3> QED BY <3>1, JoinLine DEF Types
  <2>2. Types'
    <3>1. /\ status' \in [Rows -> {"absent", "queued", "running"} \cup Terminal]
          /\ author' \in [Rows -> Users \cup {NoUser}]
          /\ since' \in [Rows -> {Fresh, Stale, Old}]
          /\ folded' \in [Rows -> BOOLEAN] /\ expired' \in [Rows -> BOOLEAN]
      BY <1>1 DEF Types, PushRow, Accept
    <3>2. newest' \in [Rows -> Nat] /\ arrivals' \in Nat
      BY <1>1 DEF Types, PushRow, Accept
    <3>3. line' \in Seq(Rows)
      BY <1>1 DEF Types, PushRow
    <3>4. UNCHANGED <<slot, lease, taken, live, beaten, tardy>>
      BY <1>1 DEF PushRow, Accept
    <3> QED BY <3>1, <3>2, <3>3, <3>4 DEF Types
  <2>3. IndexesAgree'
    BY <1>1, <2>1, MemoryRows DEF Types, IndexesAgree, PushRow, Accept, Terminal
  <2> QED BY <2>2, <2>3
<1>2. ASSUME NEW r \in Rows, FoldInto(r), Accept
      PROVE  Types' /\ IndexesAgree'
  BY <1>2 DEF Types, IndexesAgree, FoldInto, Accept
<1>3. CASE NextQueued
  <2>1. \A r \in Rows : status[r] # "running"
    BY <1>3, MemoryRows DEF NextQueued, SlotTaken, IndexesAgree
  <2> QED BY <1>3, <2>1, ServeTypes DEF NextQueued, Types, IndexesAgree
<1>4. CASE Clear
  <2>1. line' = <<>> /\ status' = [r \in Rows |-> IF r \in ToSet(line) THEN "cancelled" ELSE status[r]]
    BY <1>4 DEF Clear
  <2>2. Types'
    BY <1>4, <2>1, EmptyLine DEF Types, Clear, Terminal
  <2>3. IndexesAgree'
    BY <1>4, <2>1, EmptyLine DEF Types, IndexesAgree, Clear, Terminal
  <2> QED BY <2>2, <2>3
<1>5. ASSUME NEW r \in Rows, NEW t \in Terminal, FinishAndDrain(r, t)
      PROVE  Types' /\ IndexesAgree'
  <2> DEFINE ended == [status EXCEPT ![r] = IF @ \in Terminal THEN @ ELSE t]
             turns == [live EXCEPT ![r] = @ - 1]
             left == Without(line, {r})
  <2>1. /\ left \in Seq(Rows) /\ ToSet(left) = ToSet(line) \ {r} /\ IsInjective(left)
    BY WithoutType DEF Types, IndexesAgree
  <2>2. ended \in [Rows -> {"absent", "queued", "running"} \cup Terminal]
    BY DEF Types
  <2>3. turns \in [Rows -> 0..MaxTurns]
    BY <1>5, MemoryBounds DEF Types, FinishAndDrain
  <2>4. /\ ended[r] \in Terminal
        /\ \A q \in Rows : q # r => ended[q] = status[q]
    BY DEF Types
  <2>5. UNCHANGED <<message, arrivals>>
    BY <1>5 DEF FinishAndDrain
  <2> HIDE DEF left, ended, turns
  <2>6. \A q \in Rows : ended[q] = "queued" <=> q \in ToSet(left)
    BY <2>1, <2>4 DEF IndexesAgree, Terminal
  <2>7. CASE slot \notin {NoRow, r}
    <3>1. status' = ended /\ line' = left /\ live' = turns
          /\ UNCHANGED <<slot, lease, taken, beaten, tardy>>
      BY <1>5, <2>7 DEF FinishAndDrain, TurnEnds, ended, left, turns
    <3>2. Types'
      BY <2>1, <2>2, <2>3, <2>5, <3>1 DEF Types
    <3>3. IndexesAgree'
      BY <2>1, <2>4, <2>6, <2>7, <3>1 DEF IndexesAgree, Terminal
    <3> QED BY <3>2, <3>3
  <2>8. CASE slot \in {NoRow, r}
    <3>1. Serve(ended, left, turns)
      BY <1>5, <2>8 DEF FinishAndDrain, ended, left, turns
    <3>2. \A q \in Rows : ended[q] # "running"
      BY <2>4, <2>8, MemoryRows DEF IndexesAgree, Terminal
    <3> QED BY <2>1, <2>2, <2>3, <2>5, <2>6, <3>1, <3>2, ServeTypes
  <2> QED BY <2>7, <2>8
<1>6. ASSUME NEW r \in Rows, NEW t \in Terminal, SetStatus(r, t),
             live' \in [Rows -> 0..MaxTurns], UNCHANGED <<message, taken, beaten, tardy, arrivals>>
      PROVE  Types' /\ IndexesAgree'
  <2>1. line' = Without(line, {r}) /\ status' = [status EXCEPT ![r] = IF @ \in Terminal THEN @ ELSE t]
    BY <1>6 DEF SetStatus
  <2>2. line' \in Seq(Rows) /\ ToSet(line') = ToSet(line) \ {r} /\ IsInjective(line')
    BY <2>1, WithoutType DEF Types, IndexesAgree
  <2>3. IF slot = r THEN slot' = NoRow /\ lease' = 0 ELSE UNCHANGED <<slot, lease>>
    BY <1>6 DEF SetStatus, Settled
  <2>4. Types'
    <3>1. status' \in [Rows -> {"absent", "queued", "running"} \cup Terminal]
      BY <2>1 DEF Types
    <3>2. slot' \in Rows \cup {NoRow} /\ lease' \in 0..LeaseTicks
      BY <2>3, MemoryBounds DEF Types
    <3> QED BY <1>6, <2>2, <3>1, <3>2 DEF Types
  <2>5. IndexesAgree'
    <3>1. status'[r] \in Terminal /\ \A q \in Rows : q # r => status'[q] = status[q]
      BY <2>1 DEF Types
    <3>2. \A q \in Rows : status'[q] = "queued" <=> q \in ToSet(line')
      BY <2>2, <3>1 DEF IndexesAgree, Terminal
    <3>3. \A q \in Rows : status'[q] = "running" <=> slot' = q
      BY <2>3, <3>1, MemoryRows DEF IndexesAgree, Terminal
    <3> QED BY <2>2, <3>2, <3>3 DEF IndexesAgree
  <2> QED BY <2>4, <2>5
<1>7. ASSUME NEW r \in Rows, NEW t \in Terminal, MarkOwnRow(r, t)
      PROVE  Types' /\ IndexesAgree'
  <2>1. live' \in [Rows -> 0..MaxTurns]
    BY <1>7, MemoryBounds DEF MarkOwnRow, TurnEnds, Types
  <2> QED BY <1>6, <1>7, <2>1 DEF MarkOwnRow
<1>8. ASSUME NEW r \in Rows, Abort(r) PROVE Types' /\ IndexesAgree'
  BY <1>6, <1>8 DEF Abort, Types, Terminal
<1>9. ASSUME NEW r \in Rows, Cancel(r) PROVE Types' /\ IndexesAgree'
  <2>1. line' = Without(line, {r}) /\ status' = [status EXCEPT ![r] = "cancelled"] /\ status[r] = "queued"
    BY <1>9 DEF Cancel
  <2>2. line' \in Seq(Rows) /\ ToSet(line') = ToSet(line) \ {r} /\ IsInjective(line')
    BY <2>1, WithoutType DEF Types, IndexesAgree
  <2>3. Types'
    BY <1>9, <2>1, <2>2 DEF Types, Cancel, Terminal
  <2>4. IndexesAgree'
    BY <1>9, <2>1, <2>2 DEF Types, IndexesAgree, Cancel, Terminal
  <2> QED BY <2>3, <2>4
<1>10. ASSUME NEW r \in Rows, TurnVanishes(r) PROVE Types' /\ IndexesAgree'
  BY <1>10, MemoryBounds DEF Types, IndexesAgree, TurnVanishes, TurnEnds
<1>11. ASSUME NEW r \in Rows, Heartbeat(r) PROVE Types' /\ IndexesAgree'
  BY <1>11, MemoryBounds DEF Types, IndexesAgree, Heartbeat
<1>12. ASSUME NEW r \in Rows, GrowOld(r) PROVE Types' /\ IndexesAgree'
  BY <1>12 DEF Types, IndexesAgree, GrowOld
<1>13. CASE Tick
  <2>1. lease' \in 0..LeaseTicks
    BY <1>13, MemoryBounds DEF Types, Tick
  <2>2. beaten' \in [Rows -> BOOLEAN] /\ tardy' \in BOOLEAN
    BY <1>13 DEF Types, Tick
  <2>3. Types'
    BY <1>13, <2>1, <2>2 DEF Types, Tick
  <2>4. IndexesAgree'
    BY <1>13 DEF IndexesAgree, Tick
  <2> QED BY <2>3, <2>4
<1>14. CASE ReapExpiredLeases
  <2>1. slot \in Rows /\ slot' = NoRow /\ lease' = 0 /\ line' = <<slot>> \o line
        /\ status' = [status EXCEPT ![slot] = "queued"]
    BY <1>14 DEF ReapExpiredLeases, Types
  <2>2. slot \notin ToSet(line)
    BY <2>1 DEF IndexesAgree
  <2>3. line' \in Seq(Rows) /\ ToSet(line') = ToSet(line) \cup {slot} /\ IsInjective(line')
    BY <2>1, <2>2, RejoinLine DEF Types, IndexesAgree
  <2>4. Types'
    BY <1>14, <2>1, <2>3, MemoryBounds DEF Types, ReapExpiredLeases
  <2>5. IndexesAgree'
    BY <2>1, <2>3, MemoryRows DEF Types, IndexesAgree
  <2> QED BY <2>4, <2>5
<1>15. CASE UNCHANGED vars
  BY <1>15 DEF vars, Types, IndexesAgree
<1> QED
  BY <1>1, <1>2, <1>3, <1>4, <1>5, <1>7, <1>8, <1>9, <1>10, <1>11, <1>12, <1>13, <1>14, <1>15
  DEF Next, Enqueue, MergeOrEnqueue, ReplaceLastOrEnqueue

(* The status in _by_id, the list and the running slot agree after whatever *)
(* calls, late finishes and reaps, and every variable keeps its type.       *)
THEOREM IndexesStayTogether == Spec => []TypeOK
<1>1. Init => TypeOK
  <2> SUFFICES ASSUME Init PROVE Types /\ IndexesAgree
    BY DEF TypeOK, Types
  <2>1. Types
    <3>1. line \in Seq(Rows) /\ lease \in 0..LeaseTicks
      BY EmptyLine, MemoryBounds DEF Init
    <3>2. live \in [Rows -> 0..MaxTurns]
      BY MemoryBounds DEF Init
    <3>3. folded \in [Rows -> BOOLEAN] /\ expired \in [Rows -> BOOLEAN] /\ beaten \in [Rows -> BOOLEAN]
      BY DEF Init
    <3> QED BY <3>1, <3>2, <3>3 DEF Init, Types
  <2>2. IndexesAgree
    BY EmptyLine, MemoryRows DEF Init, IndexesAgree
  <2> QED BY <2>1, <2>2
<1> QED BY <1>1, TypeStep, PTL DEF Spec
-----------------------------------------------------------------------------
(***************************************************************************)
(* One turn at a time.  As long as no heartbeat was late, a turn that is   *)
(* at work on a row that is not over has the slot to itself, has seen all  *)
(* of the row's messages, and its lease is at most one period short, and   *)
(* not short at all once it has beaten in this period.                     *)
(***************************************************************************)
AtWork(r) == live[r] > 0 /\ status[r] \notin Terminal

Beating ==
    ~tardy => \A r \in Rows :
        /\ AtWork(r) =>
              /\ slot = r /\ live[r] = 1 /\ taken[r] = newest[r]
              /\ lease >= LeaseTicks - 1
              /\ beaten[r] => lease = LeaseTicks
        /\ status[r] = "completed" => taken[r] = newest[r]

(* The history of a late heartbeat is never forgotten.                      *)
LEMMA TardyStays == Types /\ [Next]_vars /\ ~tardy' => ~tardy
  BY DEF Next, vars, Types, Enqueue, MergeOrEnqueue, ReplaceLastOrEnqueue, Accept, NextQueued,
         Serve, Clear, FinishAndDrain, MarkOwnRow, Abort, Cancel, TurnVanishes, Heartbeat, GrowOld,
         Tick, ReapExpiredLeases, process

(* Whoever gets the slot is alone, since the turns that are left unwind.    *)
LEMMA ServeBeats ==
    ASSUME Types, NEW base, NEW waiting \in Seq(Rows), NEW turns \in [Rows -> 0..MaxTurns],
           \A q \in ToSet(waiting) : turns[q] = 0,
           \A q \in Rows : turns[q] > 0 => base[q] \in Terminal,
           \A q \in Rows : base[q] = "completed" => taken[q] = newest[q],
           Serve(base, waiting, turns), UNCHANGED message
    PROVE  Beating'
<1>1. PICK dead, left :
              /\ dead = {r \in ToSet(waiting) : expired[r]}
              /\ left = Without(waiting, dead) /\ left \in Seq(Rows)
              /\ ToSet(left) = ToSet(waiting) \ dead
              /\ IsInjective(waiting) => IsInjective(left)
              /\ \/ left = <<>> /\ Nobody(base, turns, dead)
                 \/ left # <<>> /\ Somebody(base, left, turns, dead, Head(left))
  BY ServeParts
<1>2. newest' = newest
  BY DEF message
<1>3. CASE left = <<>> /\ Nobody(base, turns, dead)
  <2>1. \A q \in Rows : ~AtWork(q)'
    BY <1>3 DEF Nobody, AtWork, Terminal
  <2>2. \A q \in Rows : status'[q] = "completed" => taken'[q] = newest'[q]
    BY <1>2, <1>3 DEF Nobody
  <2> QED BY <2>1, <2>2 DEF Beating
<1>4. CASE left # <<>> /\ Somebody(base, left, turns, dead, Head(left))
  <2> DEFINE n == Head(left)
  <2>1. n \in ToSet(waiting) /\ n \in Rows
    BY <1>1, <1>4, LeaveLine
  <2> HIDE DEF n
  <2>2. Somebody(base, left, turns, dead, n)
    BY <1>4 DEF n
  <2>3. \A q \in Rows : AtWork(q)' => q = n
    BY <2>1, <2>2 DEF Somebody, AtWork, Terminal
  <2>4. slot' = n /\ live'[n] = 1 /\ taken'[n] = newest'[n] /\ lease' = LeaseTicks
    BY <1>2, <2>1, <2>2 DEF Somebody, Types
  <2>5. \A q \in Rows : status'[q] = "completed" => taken'[q] = newest'[q]
    BY <1>2, <2>1, <2>2 DEF Somebody, Types
  <2> QED BY <2>3, <2>4, <2>5, MemoryBounds DEF Beating
<1> QED BY <1>1, <1>3, <1>4

(* Turns that end, rows that are over, and rows that leave the line leave   *)
(* the others as they were.                                                 *)
LEMMA EndBeats ==
    ASSUME Types, Types', Beating, ~tardy,
           \A q \in Rows : AtWork(q)' => AtWork(q) /\ live'[q] <= live[q],
           \A q \in Rows : AtWork(q)' /\ slot = q => slot' = q /\ lease' = lease,
           \A q \in Rows : status'[q] = "completed" => status[q] = "completed" \/ AtWork(q),
           UNCHANGED <<newest, taken, beaten>>
    PROVE  Beating'
<1> SUFFICES ASSUME NEW q \in Rows
             PROVE  /\ AtWork(q)' =>
                         /\ slot' = q /\ live'[q] = 1 /\ taken'[q] = newest'[q]
                         /\ lease' >= LeaseTicks - 1
                         /\ beaten'[q] => lease' = LeaseTicks
                    /\ status'[q] = "completed" => taken'[q] = newest'[q]
  BY DEF Beating
<1>1. ASSUME AtWork(q)'
      PROVE  /\ slot' = q /\ live'[q] = 1 /\ taken'[q] = newest'[q]
             /\ lease' >= LeaseTicks - 1
             /\ beaten'[q] => lease' = LeaseTicks
  <2>1. AtWork(q) /\ live'[q] <= live[q] /\ live'[q] > 0
    BY <1>1 DEF AtWork
  <2>2. /\ slot = q /\ live[q] = 1 /\ taken[q] = newest[q]
        /\ lease >= LeaseTicks - 1 /\ (beaten[q] => lease = LeaseTicks)
    BY <2>1 DEF Beating
  <2>3. slot' = q /\ lease' = lease
    BY <1>1, <2>2
  <2>4. live'[q] = 1
    BY <2>1, <2>2 DEF Types
  <2> QED BY <2>2, <2>3, <2>4
<1>2. status'[q] = "completed" => taken'[q] = newest'[q]
  BY DEF Beating
<1> QED BY <1>1, <1>2

(* While heartbeats are on time, Beating is inductive.                      *)
LEMMA BeatingStep == TypeOK /\ TypeOK' /\ Beating /\ [Next]_vars => Beating'
<1> SUFFICES ASSUME Types, IndexesAgree, Types', IndexesAgree', Beating, [Next]_vars, ~tardy, ~tardy'
             PROVE  Beating'
  <2>1. Types /\ [Next]_vars /\ ~tardy' => ~tardy
    BY TardyStays
  <2>2. tardy' => Beating'
    BY DEF Beating
  <2> QED BY <2>1, <2>2 DEF TypeOK, Types
<1> USE DEF queue, process, message, row
<1>0. \A r \in Rows : /\ live[r] \in Nat /\ lease \in Nat
                      /\ status[r] \in {"queued", "absent"} => live[r] = 0
  <2> TAKE r \in Rows
  <2>1. live[r] \in Nat /\ lease \in Nat
    BY MemoryBounds DEF Types
  <2>2. status[r] \in {"queued", "absent"} => ~AtWork(r)
    BY DEF Beating, IndexesAgree, AtWork
  <2> QED BY <2>1, <2>2 DEF AtWork, Terminal
<1>1. ASSUME NEW r \in Rows, NEW u \in Users, PushRow(r, u), Accept PROVE Beating'
  <2>1. /\ status[r] = "absent" /\ status' = [status EXCEPT ![r] = "queued"]
        /\ newest' = [newest EXCEPT ![r] = arrivals + 1]
        /\ UNCHANGED <<slot, lease, taken, live, beaten>>
    BY <1>1 DEF PushRow, Accept
  <2> QED BY <1>0, <2>1 DEF Beating, AtWork, Types, Terminal
<1>2. ASSUME NEW r \in Rows, NEW u \in Users, Replaceable(r, u), FoldInto(r), Accept PROVE Beating'
  <2>1. r \in ToSet(line)
    <3>1. line \in Seq(Rows) /\ line # <<>> /\ r = line[Len(line)]
      BY <1>2 DEF Replaceable, Last, Types
    <3>2. Len(line) \in Nat \ {0} /\ DOMAIN line = 1..Len(line)
      BY <3>1, LenProperties, EmptySeq
    <3> QED BY <3>1, <3>2 DEF ToSet
  <2>2. status[r] = "queued"
    BY <2>1 DEF IndexesAgree
  <2>3. newest' = [newest EXCEPT ![r] = arrivals + 1] /\ UNCHANGED <<status, slot, lease, taken, live, beaten>>
    BY <1>2 DEF FoldInto, Accept
  <2> QED BY <1>0, <2>2, <2>3 DEF Beating, AtWork, Types, Terminal
<1>3. CASE NextQueued
  <2>1. Serve(status, line, live) /\ slot = NoRow /\ UNCHANGED message
    BY <1>3 DEF NextQueued, SlotTaken
  <2>2. \A q \in Rows : live[q] > 0 => status[q] \in Terminal
    BY <2>1, MemoryRows DEF Beating, AtWork
  <2>3. \A q \in ToSet(line) : live[q] = 0
    BY <1>0 DEF IndexesAgree, Types, ToSet
  <2>4. \A q \in Rows : status[q] = "completed" => taken[q] = newest[q]
    BY DEF Beating
  <2>5. line \in Seq(Rows) /\ live \in [Rows -> 0..MaxTurns]
    BY DEF Types
  <2> QED BY <2>1, <2>2, <2>3, <2>4, <2>5, ServeBeats
<1>4. CASE Clear
  <2>1. /\ status' = [r \in Rows |-> IF r \in ToSet(line) THEN "cancelled" ELSE status[r]]
        /\ UNCHANGED <<newest, taken, beaten, slot, lease, live>>
    BY <1>4 DEF Clear
  <2>2. \A q \in Rows : AtWork(q)' => AtWork(q) /\ live'[q] <= live[q]
    BY <1>0, <2>1 DEF AtWork, Terminal
  <2> QED BY <2>1, <2>2, EndBeats
<1>5. ASSUME NEW r \in Rows, NEW t \in Terminal, FinishAndDrain(r, t) PROVE Beating'
  <2> DEFINE ended == [status EXCEPT ![r] = IF @ \in Terminal THEN @ ELSE t]
             turns == [live EXCEPT ![r] = @ - 1]
             left == Without(line, {r})
  <2>0. line \in Seq(Rows)
    BY DEF Types
  <2>1. left \in Seq(Rows) /\ ToSet(left) = ToSet(line) \ {r}
    BY <2>0, WithoutType
  <2>2. /\ turns \in [Rows -> 0..MaxTurns] /\ turns[r] = live[r] - 1 /\ live[r] > 0
        /\ \A q \in Rows : q # r => turns[q] = live[q]
    <3>0. live[r] > 0
      BY <1>5 DEF FinishAndDrain
    <3>1. live[r] \in 1..MaxTurns /\ live \in [Rows -> 0..MaxTurns]
      <4>1. live \in [Rows -> 0..MaxTurns] /\ MaxTurns \in Nat
        BY MemoryBounds DEF Types
      <4>2. live[r] \in 0..MaxTurns
        BY <4>1
      <4> QED BY <3>0, <4>1, <4>2
    <3> QED BY <3>1, MemoryBounds
  <2>3. /\ ended[r] \in Terminal /\ ended[r] = IF status[r] \in Terminal THEN status[r] ELSE t
        /\ \A q \in Rows : q # r => ended[q] = status[q]
    BY DEF Types
  <2>4. UNCHANGED message
    BY <1>5 DEF FinishAndDrain
  <2>5. \A q \in Rows : ended[q] = "completed" => taken[q] = newest[q]
    BY <2>2, <2>3 DEF Beating, AtWork
  <2> HIDE DEF left, ended, turns
  <2>6. CASE slot \notin {NoRow, r}
    <3>1. status' = ended /\ live' = turns /\ UNCHANGED <<slot, lease, taken, beaten, newest>>
      BY <1>5, <2>6 DEF FinishAndDrain, TurnEnds, ended, turns
    <3>2. \A q \in Rows : AtWork(q)' => AtWork(q) /\ live'[q] <= live[q]
      BY <1>0, <2>2, <2>3, <3>1 DEF AtWork
    <3>3. \A q \in Rows : status'[q] = "completed" => status[q] = "completed" \/ AtWork(q)
      BY <2>2, <2>3, <3>1 DEF AtWork
    <3> QED BY <3>1, <3>2, <3>3, EndBeats
  <2>7. CASE slot \in {NoRow, r}
    <3>1. Serve(ended, left, turns)
      BY <1>5, <2>7 DEF FinishAndDrain, ended, left, turns
    <3>2. \A q \in Rows : turns[q] > 0 => ended[q] \in Terminal
      <4> SUFFICES ASSUME NEW q \in Rows, turns[q] > 0, q # r PROVE status[q] \in Terminal
        BY <2>3
      <4>1. slot # q
        BY <2>7, MemoryRows
      <4>2. live[q] > 0
        BY <2>2
      <4> QED BY <4>1, <4>2 DEF Beating, AtWork
    <3>3. \A q \in ToSet(left) : turns[q] = 0
      <4>1. ToSet(line) \subseteq Rows
        BY <2>0, LenProperties DEF ToSet
      <4>2. \A q \in ToSet(left) : q \in Rows /\ q \in ToSet(line) /\ q # r
        BY <2>1, <4>1
      <4> QED BY <1>0, <2>2, <4>2 DEF IndexesAgree
    <3> QED BY <2>1, <2>2, <2>4, <2>5, <3>1, <3>2, <3>3, ServeBeats
  <2> QED BY <2>6, <2>7
<1>6. ASSUME NEW r \in Rows, NEW t \in Terminal, SetStatus(r, t), UNCHANGED <<message, taken, beaten>>,
             live[r] > 0 \/ t # "completed", UNCHANGED live \/ TurnEnds(r)
      PROVE  Beating'
  <2>1. /\ status' = [status EXCEPT ![r] = IF @ \in Terminal THEN @ ELSE t]
        /\ slot # r => UNCHANGED <<slot, lease>>
    BY <1>6 DEF SetStatus, Settled
  <2>2. \A q \in Rows : live'[q] <= live[q] /\ live'[q] \in Nat
    <3>1. CASE UNCHANGED live
      BY <1>0, <3>1
    <3>2. CASE TurnEnds(r)
      <4>1. \A q \in Rows : live'[q] = IF q = r THEN live[q] - 1 ELSE live[q]
        BY <3>2 DEF TurnEnds, Types
      <4>2. live[r] > 0
        BY <3>2 DEF TurnEnds
      <4> QED BY <1>0, <4>1, <4>2
    <3> QED BY <1>6, <3>1, <3>2
  <2>3. \A q \in Rows : AtWork(q)' => AtWork(q) /\ live'[q] <= live[q] /\ q # r
    BY <1>0, <2>1, <2>2 DEF AtWork, Types
  <2>4. \A q \in Rows : status'[q] = "completed" => status[q] = "completed" \/ AtWork(q)
    BY <1>6, <2>1 DEF AtWork, Types
  <2> QED BY <1>6, <2>1, <2>3, <2>4, EndBeats
<1>7. ASSUME NEW r \in Rows, NEW t \in Terminal, MarkOwnRow(r, t) PROVE Beating'
  BY <1>6, <1>7 DEF MarkOwnRow, TurnEnds
<1>8. ASSUME NEW r \in Rows, Abort(r) PROVE Beating'
  BY <1>6, <1>8 DEF Abort, Terminal
<1>9. ASSUME NEW r \in Rows, Cancel(r) PROVE Beating'
  <2>1. /\ status' = [status EXCEPT ![r] = "cancelled"]
        /\ UNCHANGED <<newest, taken, beaten, slot, lease, live>>
    BY <1>9 DEF Cancel
  <2>2. /\ \A q \in Rows : AtWork(q)' => AtWork(q) /\ live'[q] <= live[q]
        /\ \A q \in Rows : status'[q] = "completed" => status[q] = "completed" \/ AtWork(q)
    BY <1>0, <2>1 DEF AtWork, Terminal, Types
  <2> QED BY <2>1, <2>2, EndBeats
<1>10. ASSUME NEW r \in Rows, TurnVanishes(r) PROVE Beating'
  <2>1. /\ live' = [live EXCEPT ![r] = @ - 1]
        /\ UNCHANGED <<status, newest, taken, beaten, slot, lease>>
    BY <1>10 DEF TurnVanishes, TurnEnds
  <2>2. /\ \A q \in Rows : AtWork(q)' => AtWork(q) /\ live'[q] <= live[q]
        /\ \A q \in Rows : status'[q] = "completed" => status[q] = "completed" \/ AtWork(q)
    BY <1>0, <2>1 DEF AtWork, Terminal, Types
  <2> QED BY <2>1, <2>2, EndBeats
<1>11. ASSUME NEW r \in Rows, Heartbeat(r) PROVE Beating'
  <2>1. /\ beaten' = [beaten EXCEPT ![r] = TRUE]
        /\ lease' = IF status[r] = "running" THEN LeaseTicks ELSE lease
        /\ UNCHANGED <<status, newest, taken, slot, live>> /\ live[r] > 0
    BY <1>11 DEF Heartbeat
  <2>2. CASE status[r] \in Terminal
    BY <1>0, <2>1, <2>2 DEF Beating, AtWork, Types, Terminal
  <2>3. CASE status[r] \notin Terminal
    <3>1. slot = r /\ status[r] = "running"
      BY <2>1, <2>3 DEF Beating, AtWork, IndexesAgree
    <3> QED BY <1>0, <2>1, <3>1, MemoryBounds DEF Beating, AtWork, Types
  <2> QED BY <2>2, <2>3
<1>12. ASSUME NEW r \in Rows, GrowOld(r) PROVE Beating'
  BY <1>12 DEF Beating, AtWork, GrowOld
<1>13. CASE Tick
  <2>1. /\ lease' = lease - 1 /\ beaten' = [r \in Rows |-> live[r] = 0]
        /\ \A r \in Rows : live[r] > 0 => beaten[r]
        /\ UNCHANGED <<status, newest, taken, slot, live>>
    BY <1>13 DEF Tick
  <2> SUFFICES ASSUME NEW q \in Rows
               PROVE  /\ AtWork(q)' =>
                           /\ slot' = q /\ live'[q] = 1 /\ taken'[q] = newest'[q]
                           /\ lease' >= LeaseTicks - 1
                           /\ beaten'[q] => lease' = LeaseTicks
                      /\ status'[q] = "completed" => taken'[q] = newest'[q]
    BY DEF Beating
  <2>2. ASSUME AtWork(q)'
        PROVE  /\ slot' = q /\ live'[q] = 1 /\ taken'[q] = newest'[q]
               /\ lease' >= LeaseTicks - 1 /\ ~beaten'[q]
    <3>1. AtWork(q) /\ beaten[q]
      BY <2>1, <2>2 DEF AtWork
    <3>2. slot = q /\ live[q] = 1 /\ taken[q] = newest[q] /\ lease = LeaseTicks
      BY <3>1 DEF Beating
    <3>3. lease' >= LeaseTicks - 1
      BY <2>1, <3>2, MemoryBounds
    <3>4. ~beaten'[q]
      <4>1. ~(live[q] = 0)
        BY <3>2
      <4> QED BY <2>1, <4>1, Zenon
    <3> QED BY <2>1, <3>2, <3>3, <3>4
  <2>3. status'[q] = "completed" => taken'[q] = newest'[q]
    BY <2>1 DEF Beating
  <2> QED BY <2>2, <2>3
<1>14. CASE ReapExpiredLeases
  <2>1. /\ slot \in Rows /\ slot' = NoRow /\ lease = 0 /\ status' = [status EXCEPT ![slot] = "queued"]
        /\ UNCHANGED <<newest, taken, live>>
    BY <1>14 DEF ReapExpiredLeases, LeaseOver, Types
  <2>2. \A q \in Rows : ~AtWork(q)
    BY <2>1, MemoryBounds DEF Beating
  <2>3. \A q \in Rows : ~AtWork(q)'
    BY <2>1, <2>2, MemoryRows DEF AtWork, IndexesAgree, Types, Terminal
  <2> QED BY <2>1, <2>3 DEF Beating, Types
<1>15. CASE UNCHANGED vars
  BY <1>15 DEF vars, Beating, AtWork
<1> QED
  BY <1>1, <1>2, <1>3, <1>4, <1>5, <1>7, <1>8, <1>9, <1>10, <1>11, <1>12, <1>13, <1>14, <1>15
  DEF Next, Enqueue, MergeOrEnqueue, ReplaceLastOrEnqueue, Mergeable

(* Two turns that own a row never run at once, and what a turn completes it *)
(* has seen, unless a heartbeat was late.                                   *)
THEOREM OneAtATime == Spec => []OneTurnAtATime
<1>1. Init => Beating
  BY DEF Init, Beating, AtWork
<1>2. TypeOK /\ TypeOK' /\ Beating /\ [Next]_vars => Beating'
  BY BeatingStep
<1>3. TypeOK /\ Beating => OneTurnAtATime
  <2> SUFFICES ASSUME Types, Beating, ~tardy PROVE OneOwner /\ NothingUnseen
    BY DEF TypeOK, Types, OneTurnAtATime
  <2>1. \A r \in Rows : status[r] \notin Terminal => live[r] = 0 \/ (AtWork(r) /\ live[r] = 1)
    BY MemoryBounds DEF Types, Beating, AtWork
  <2>2. OneOwner
    BY <2>1 DEF OneOwner, Beating, AtWork
  <2>3. NothingUnseen
    BY DEF NothingUnseen, Beating
  <2> QED BY <2>2, <2>3
<1> QED BY <1>1, <1>2, <1>3, IndexesStayTogether, PTL DEF Spec

-----------------------------------------------------------------------------
(***************************************************************************)
(* The order of the line, and of the slot before it: rows stand by their   *)
(* newest message (Arrived), so what is expired stands in front (Aged),    *)
(* and a turn that is left of a reaped row can only be that of the first   *)
(* row, as long as nothing holds the slot (Hurried).                       *)
(***************************************************************************)
Arrived ==
    /\ \A r \in Rows : newest[r] <= arrivals
    /\ \A p, q \in Rows : Ahead(line, p, q) => newest[p] < newest[q]
    /\ slot # NoRow => \A q \in ToSet(line) : newest[slot] < newest[q]

Aged ==
    /\ \A r \in Rows : status[r] = "absent" => since[r] = Fresh /\ ~expired[r]
    /\ \A r \in Rows : since[r] = Old => expired[r]
    /\ \A r, q \in Pending : newest[r] < newest[q] /\ expired[q] => expired[r]

Hurried ==
    /\ \A r \in Rows : status[r] = "absent" => live[r] = 0
    /\ \A p, q \in Rows : Ahead(line, p, q) => live[q] = 0
    /\ slot # NoRow => \A q \in ToSet(line) : live[q] = 0

(* Whoever stands ahead of somebody is in the line, and so is the other.    *)
LEMMA AheadBoth ==
    ASSUME NEW s \in Seq(Rows), NEW p, NEW q, Ahead(s, p, q)
    PROVE  p \in Rows /\ q \in Rows /\ p \in ToSet(s) /\ q \in ToSet(s)
<1>1. Len(s) \in Nat /\ DOMAIN s = 1..Len(s) /\ \A i \in 1..Len(s) : s[i] \in Rows
  BY LenProperties, ElementOfSeq
<1> QED BY <1>1 DEF Ahead, ToSet

(* What next_queued and finish_and_drain leave of the line stands in order. *)
LEMMA ServeOrder ==
    ASSUME Types, NEW base, NEW waiting \in Seq(Rows), NEW turns, IsInjective(waiting),
           Serve(base, waiting, turns)
    PROVE  /\ \A p, q : Ahead(line', p, q) => Ahead(waiting, p, q)
           /\ ToSet(line') \subseteq ToSet(waiting)
           /\ \A q \in Rows : status'[q] = "absent" => base[q] = "absent"
           /\ \/ slot' = NoRow /\ live' = turns /\ line' = <<>>
              \/ /\ slot' \in ToSet(waiting) /\ slot' \in Rows
                 /\ live' = [turns EXCEPT ![slot'] = @ + 1]
                 /\ slot' \notin ToSet(line')
                 /\ \A q \in ToSet(line') : Ahead(waiting, slot', q)
<1>1. PICK dead, left :
              /\ dead = {r \in ToSet(waiting) : expired[r]}
              /\ left = Without(waiting, dead) /\ left \in Seq(Rows)
              /\ ToSet(left) = ToSet(waiting) \ dead
              /\ IsInjective(waiting) => IsInjective(left)
              /\ \/ left = <<>> /\ Nobody(base, turns, dead)
                 \/ left # <<>> /\ Somebody(base, left, turns, dead, Head(left))
  BY ServeParts
<1>2. \A p, q : Ahead(left, p, q) => Ahead(waiting, p, q)
  BY <1>1, AheadWithout
<1>3. CASE left = <<>> /\ Nobody(base, turns, dead)
  <2>1. line' = <<>> /\ line' = left /\ slot' = NoRow /\ live' = turns
    BY <1>3 DEF Nobody
  <2>2. \A q \in Rows : status'[q] = "absent" => base[q] = "absent"
    BY <1>3 DEF Nobody
  <2> QED BY <1>1, <1>2, <2>1, <2>2
<1>4. CASE left # <<>> /\ Somebody(base, left, turns, dead, Head(left))
  <2>1. line' = Tail(left) /\ slot' = Head(left) /\ live' = [turns EXCEPT ![slot'] = @ + 1]
    BY <1>4 DEF Somebody
  <2>2. /\ slot' \in ToSet(left) /\ slot' \in Rows
        /\ ToSet(line') = ToSet(left) \ {slot'}
    BY <1>1, <1>4, <2>1, LeaveLine
  <2>3. /\ \A p, q : Ahead(line', p, q) => Ahead(left, p, q)
        /\ \A q \in ToSet(line') : Ahead(left, slot', q)
    BY <1>1, <1>4, <2>1, AheadLeave
  <2>4. \A q \in Rows : status'[q] = "absent" => base[q] = "absent"
    BY <1>4, <2>1 DEF Somebody
  <2> QED BY <1>1, <1>2, <2>1, <2>2, <2>3, <2>4
<1> QED BY <1>1, <1>3, <1>4

(* The line is in the order in which its rows' messages arrived.            *)
LEMMA ArrivedStep == TypeOK /\ TypeOK' /\ Arrived /\ [Next]_vars => Arrived'
<1> SUFFICES ASSUME Types, IndexesAgree, Types', IndexesAgree', Arrived, [Next]_vars
             PROVE  Arrived'
  BY DEF TypeOK, Types
<1> USE DEF queue, process, message, row
<1>0. /\ line \in Seq(Rows) /\ newest \in [Rows -> Nat] /\ arrivals \in Nat
      /\ slot \in Rows \cup {NoRow} /\ ToSet(line) \subseteq Rows
  <2>1. line \in Seq(Rows)
    BY DEF Types
  <2>2. ToSet(line) \subseteq Rows
    BY <2>1, LenProperties, ElementOfSeq DEF ToSet
  <2> QED BY <2>2 DEF Types
<1>1. ASSUME NEW r \in Rows, NEW u \in Users, PushRow(r, u), Accept PROVE Arrived'
  <2>1. /\ newest' = [newest EXCEPT ![r] = arrivals + 1] /\ arrivals' = arrivals + 1
        /\ line' = Append(line, r) /\ slot' = slot /\ status[r] = "absent"
    BY <1>1 DEF PushRow, Accept
  <2>2. ToSet(line') = ToSet(line) \cup {r} /\ r \notin ToSet(line) /\ slot # r
    <3>1. ToSet(line') = ToSet(line) \cup {r}
      BY <1>0, <2>1, JoinLine
    <3> QED BY <2>1, <3>1 DEF IndexesAgree
  <2>3. \A p, q \in Rows : Ahead(line', p, q) => Ahead(line, p, q) \/ (p \in ToSet(line) /\ q = r)
    BY <1>0, <2>1, AheadJoin
  <2>4. \A p, q \in Rows : Ahead(line, p, q) => p # r /\ q # r
    BY <1>0, <2>2, AheadBoth
  <2>5. \A p, q \in Rows : Ahead(line', p, q) => newest'[p] < newest'[q]
    BY <1>0, <2>1, <2>2, <2>3, <2>4 DEF Arrived
  <2>6. \A q \in Rows : newest'[q] <= arrivals'
    BY <1>0, <2>1 DEF Arrived
  <2>7. slot' # NoRow => \A q \in ToSet(line') : newest'[slot'] < newest'[q]
    BY <1>0, <2>1, <2>2 DEF Arrived
  <2> QED BY <2>5, <2>6, <2>7 DEF Arrived
<1>2. ASSUME NEW r \in Rows, NEW u \in Users, Replaceable(r, u), FoldInto(r), Accept PROVE Arrived'
  <2>1. /\ newest' = [newest EXCEPT ![r] = arrivals + 1] /\ arrivals' = arrivals + 1
        /\ UNCHANGED <<line, slot>> /\ line # <<>> /\ Last(line) = r
    BY <1>2 DEF FoldInto, Accept, Replaceable
  <2>2. r \in ToSet(line) /\ slot # r
    <3>1. r \in ToSet(line)
      BY <1>0, <2>1, AheadLast
    <3> QED BY <3>1 DEF IndexesAgree
  <2>3. \A p, q \in Rows : Ahead(line, p, q) => p # r
    <3> SUFFICES ASSUME NEW p \in Rows, NEW q \in Rows, Ahead(line, r, q) PROVE FALSE
      OBVIOUS
    <3>1. newest[r] < newest[q]
      BY DEF Arrived
    <3>2. q # r => Ahead(line, q, r)
      BY <1>0, <2>1, AheadBoth, AheadLast
    <3>3. q # r => newest[q] < newest[r]
      BY <3>2 DEF Arrived
    <3> QED BY <1>0, <3>1, <3>3
  <2>4. \A p, q \in Rows : Ahead(line', p, q) => newest'[p] < newest'[q]
    BY <1>0, <2>1, <2>3 DEF Arrived
  <2>5. \A q \in Rows : newest'[q] <= arrivals'
    BY <1>0, <2>1 DEF Arrived
  <2>6. slot' # NoRow => \A q \in ToSet(line') : newest'[slot'] < newest'[q]
    BY <1>0, <2>1, <2>2 DEF Arrived
  <2> QED BY <2>4, <2>5, <2>6 DEF Arrived
<1>3. ASSUME NEW base, NEW waiting, NEW turns, waiting \in Seq(Rows), IsInjective(waiting),
             \A p, q \in Rows : Ahead(waiting, p, q) => Ahead(line, p, q),
             Serve(base, waiting, turns), UNCHANGED <<newest, arrivals>>
      PROVE  Arrived'
  <2>1. /\ \A p, q : Ahead(line', p, q) => Ahead(waiting, p, q)
        /\ slot' # NoRow => slot' \in Rows /\ \A q \in ToSet(line') : Ahead(waiting, slot', q)
    BY <1>3, ServeOrder
  <2>2. \A p, q \in Rows : Ahead(line', p, q) => newest'[p] < newest'[q]
    BY <1>3, <2>1 DEF Arrived
  <2>3. slot' # NoRow => \A q \in ToSet(line') : newest'[slot'] < newest'[q]
    BY <1>3, <2>1, AheadBoth DEF Arrived
  <2> QED BY <1>3, <2>2, <2>3 DEF Arrived
<1>4. CASE NextQueued
  BY <1>0, <1>3, <1>4 DEF NextQueued, IndexesAgree
<1>5. ASSUME \A p, q \in Rows : Ahead(line', p, q) => Ahead(line, p, q),
             ToSet(line') \subseteq ToSet(line), slot' \in {slot, NoRow},
             UNCHANGED <<newest, arrivals>>
      PROVE  Arrived'
  BY <1>5 DEF Arrived
<1>6. ASSUME NEW r \in Rows, line' = Without(line, {r}), slot' \in {slot, NoRow},
             UNCHANGED <<newest, arrivals>>
      PROVE  Arrived'
  BY <1>0, <1>5, <1>6, AheadWithout, WithoutType
<1>7. CASE Clear
  <2>1. line' = <<>> /\ UNCHANGED <<slot, newest, arrivals>>
    BY <1>7 DEF Clear
  <2>2. \A p, q \in Rows : ~Ahead(line', p, q)
    BY <2>1, EmptySeq DEF Ahead
  <2> QED BY <1>5, <2>1, <2>2, EmptyLine
<1>8. ASSUME NEW r \in Rows, NEW t \in Terminal, FinishAndDrain(r, t) PROVE Arrived'
  <2>1. Without(line, {r}) \in Seq(Rows) /\ IsInjective(Without(line, {r}))
    BY <1>0, WithoutType DEF IndexesAgree
  <2>2. \A p, q \in Rows : Ahead(Without(line, {r}), p, q) => Ahead(line, p, q)
    BY <1>0, AheadWithout
  <2>3. UNCHANGED <<newest, arrivals>>
    BY <1>8 DEF FinishAndDrain
  <2>4. \/ slot' = slot /\ line' = Without(line, {r})
        \/ \E base, turns : Serve(base, Without(line, {r}), turns)
    BY <1>8 DEF FinishAndDrain
  <2> QED BY <1>3, <1>6, <2>1, <2>2, <2>3, <2>4
<1>9. ASSUME NEW r \in Rows, NEW t \in Terminal, MarkOwnRow(r, t) PROVE Arrived'
  BY <1>6, <1>9 DEF MarkOwnRow, SetStatus
<1>10. ASSUME NEW r \in Rows, Abort(r) PROVE Arrived'
  BY <1>6, <1>10 DEF Abort, SetStatus
<1>11. ASSUME NEW r \in Rows, Cancel(r) PROVE Arrived'
  BY <1>6, <1>11 DEF Cancel
<1>12. ASSUME NEW r \in Rows, TurnVanishes(r) \/ Heartbeat(r) \/ GrowOld(r) PROVE Arrived'
  BY <1>12 DEF Arrived, TurnVanishes, Heartbeat, GrowOld
<1>13. CASE Tick
  BY <1>13 DEF Arrived, Tick
<1>14. CASE ReapExpiredLeases
  <2>1. /\ slot \in Rows /\ slot # NoRow /\ slot' = NoRow
        /\ line' = <<slot>> \o line /\ UNCHANGED <<newest, arrivals>>
    BY <1>0, <1>14 DEF ReapExpiredLeases
  <2>2. \A p, q \in Rows : Ahead(line', p, q) => Ahead(line, p, q) \/ (p = slot /\ q \in ToSet(line))
    BY <1>0, <2>1, AheadRejoin
  <2> QED BY <2>1, <2>2 DEF Arrived
<1>15. CASE UNCHANGED vars
  BY <1>15 DEF vars, Arrived
<1> QED
  BY <1>1, <1>2, <1>4, <1>7, <1>8, <1>9, <1>10, <1>11, <1>12, <1>13, <1>14, <1>15
  DEF Next, Enqueue, MergeOrEnqueue, ReplaceLastOrEnqueue, Mergeable

(* Whoever waits or works stays as he is, or ends; nobody else starts.      *)
LEMMA AgedOnly ==
    ASSUME Types, Types', Aged, UNCHANGED <<since, expired, newest>>,
           \A r \in Rows : status'[r] = "absent" => status[r] = "absent",
           Pending' \subseteq Pending
    PROVE  Aged'
  BY DEF Aged, Types

(* An earlier row is never younger than a later one, folds apart.           *)
LEMMA AgedStep == TypeOK /\ TypeOK' /\ Arrived /\ Aged /\ [Next]_vars => Aged'
<1> SUFFICES ASSUME Types, IndexesAgree, Types', IndexesAgree', Arrived, Aged, [Next]_vars
             PROVE  Aged'
  BY DEF TypeOK, Types
<1> USE DEF queue, process, message, row
<1>0. /\ line \in Seq(Rows) /\ newest \in [Rows -> Nat] /\ arrivals \in Nat
      /\ slot \in Rows \cup {NoRow} /\ expired \in [Rows -> BOOLEAN]
      /\ since \in [Rows -> {Fresh, Stale, Old}] /\ ToSet(line) \subseteq Rows
      /\ Pending = ToSet(line) \cup ({slot} \cap Rows)
  <2>1. line \in Seq(Rows)
    BY DEF Types
  <2>2. ToSet(line) \subseteq Rows
    BY <2>1, LenProperties, ElementOfSeq DEF ToSet
  <2>3. Pending = ToSet(line) \cup ({slot} \cap Rows)
    BY <2>2 DEF IndexesAgree, Pending
  <2> QED BY <2>2, <2>3 DEF Types
<1>1. ASSUME NEW r \in Rows, NEW u \in Users, PushRow(r, u), Accept PROVE Aged'
  <2>1. /\ newest' = [newest EXCEPT ![r] = arrivals + 1] /\ status[r] = "absent"
        /\ status' = [status EXCEPT ![r] = "queued"] /\ UNCHANGED <<since, expired>>
    BY <1>1 DEF PushRow, Accept
  <2>2. Pending' = Pending \cup {r} /\ r \notin Pending /\ ~expired[r]
    BY <2>1 DEF Pending, Types, Aged
  <2>3. \A p, q \in Pending' : newest'[p] < newest'[q] /\ expired'[q] => expired'[p]
    BY <1>0, <2>1, <2>2 DEF Aged, Arrived, Pending
  <2>4. \A p \in Rows : status'[p] = "absent" => status[p] = "absent"
    BY <2>1 DEF Types
  <2> QED BY <2>1, <2>3, <2>4 DEF Aged
<1>2. ASSUME NEW r \in Rows, NEW u \in Users, Replaceable(r, u), FoldInto(r), Accept PROVE Aged'
  <2>1. /\ newest' = [newest EXCEPT ![r] = arrivals + 1]
        /\ since' = [since EXCEPT ![r] = Fresh] /\ UNCHANGED <<status, expired>>
        /\ line # <<>> /\ Last(line) = r
    BY <1>2 DEF FoldInto, Accept, Replaceable
  <2>2. r \in ToSet(line) /\ \A q \in ToSet(line) : q # r => Ahead(line, q, r)
    BY <1>0, <2>1, AheadLast
  <2>3. \A q \in Pending : q # r => newest[q] < newest[r]
    BY <1>0, <2>2, MemoryRows DEF Arrived
  <2>4. Pending' = Pending
    BY <2>1 DEF Pending
  <2>5. \A p, q \in Pending' : newest'[p] < newest'[q] /\ expired'[q] => expired'[p]
    <3> SUFFICES ASSUME NEW p \in Pending, NEW q \in Pending, newest'[p] < newest'[q], expired[q]
                 PROVE  expired[p]
      BY <2>1, <2>4
    <3>1. CASE p = r
      BY <1>0, <2>1, <3>1 DEF Arrived, Pending
    <3>2. CASE q = r /\ p # r
      BY <2>2, <2>3, <3>2 DEF Aged, Pending
    <3>3. CASE q # r /\ p # r
      BY <1>0, <2>1, <3>3 DEF Aged, Pending
    <3> QED BY <3>1, <3>2, <3>3
  <2>6. \A p \in Rows : since'[p] = Old => expired'[p]
    BY <1>0, <2>1 DEF Aged, Fresh, Old
  <2>7. \A p \in Rows : status'[p] = "absent" => since'[p] = Fresh /\ ~expired'[p]
    BY <1>0, <2>1 DEF Aged
  <2> QED BY <2>5, <2>6, <2>7 DEF Aged
<1>3. ASSUME UNCHANGED <<since, expired, newest>>, ToSet(line') \subseteq ToSet(line) \cup {slot},
             slot' \in {slot, NoRow} \cup ToSet(line),
             \A r \in Rows : status'[r] = "absent" => status[r] = "absent"
      PROVE  Aged'
  <2>1. Pending' = ToSet(line') \cup ({slot'} \cap Rows)
    <3>1. line' \in Seq(Rows)
      BY DEF Types
    <3>2. ToSet(line') \subseteq Rows
      BY <3>1, LenProperties, ElementOfSeq DEF ToSet
    <3> QED BY <3>2 DEF IndexesAgree, Pending
  <2>2. Pending' \subseteq Pending
    <3> SUFFICES ASSUME NEW q, q \in Pending' PROVE q \in ToSet(line) \cup ({slot} \cap Rows)
      BY <1>0
    <3>1. q \in Rows /\ (q \in ToSet(line') \/ q = slot')
      BY <2>1 DEF Pending
    <3>2. q # NoRow
      BY <3>1, MemoryRows
    <3> QED BY <1>3, <3>1, <3>2
  <2> QED BY <1>3, <2>2, AgedOnly
<1>4. CASE NextQueued
  <2>1. Serve(status, line, live) /\ UNCHANGED <<since, expired, newest>>
    BY <1>4 DEF NextQueued
  <2>2. /\ ToSet(line') \subseteq ToSet(line)
        /\ \A q \in Rows : status'[q] = "absent" => status[q] = "absent"
        /\ slot' = NoRow \/ slot' \in ToSet(line)
    BY <1>0, <2>1, ServeOrder DEF IndexesAgree
  <2> QED BY <1>3, <2>1, <2>2
<1>5. CASE Clear
  <2>1. /\ status' = [r \in Rows |-> IF r \in ToSet(line) THEN "cancelled" ELSE status[r]]
        /\ line' = <<>> /\ UNCHANGED <<slot, since, expired, newest>>
    BY <1>5 DEF Clear
  <2> QED BY <1>3, <2>1, EmptyLine
<1>6. ASSUME NEW r \in Rows, NEW t \in Terminal, FinishAndDrain(r, t) PROVE Aged'
  <2> DEFINE ended == [status EXCEPT ![r] = IF @ \in Terminal THEN @ ELSE t]
             left == Without(line, {r})
  <2>1. left \in Seq(Rows) /\ IsInjective(left) /\ ToSet(left) \subseteq ToSet(line)
    BY <1>0, WithoutType DEF IndexesAgree
  <2>2. \A q \in Rows : ended[q] = "absent" => status[q] = "absent"
    BY DEF Terminal, Types
  <2>3. UNCHANGED <<since, expired, newest>>
    BY <1>6 DEF FinishAndDrain
  <2> HIDE DEF ended, left
  <2>4. \/ slot' = slot /\ line' = left /\ status' = ended
        \/ \E turns : Serve(ended, left, turns)
    BY <1>6 DEF FinishAndDrain, ended, left
  <2>5. ASSUME NEW turns, Serve(ended, left, turns) PROVE Aged'
    <3>1. /\ ToSet(line') \subseteq ToSet(left)
          /\ \A q \in Rows : status'[q] = "absent" => ended[q] = "absent"
          /\ slot' = NoRow \/ slot' \in ToSet(left)
      BY <2>1, <2>5, ServeOrder
    <3> QED BY <1>3, <2>1, <2>2, <2>3, <3>1
  <2> QED BY <1>3, <2>1, <2>2, <2>3, <2>4, <2>5
<1>7. ASSUME NEW r \in Rows, NEW t \in Terminal, line' = Without(line, {r}), slot' \in {slot, NoRow},
             status' = [status EXCEPT ![r] = t] \/ status' = status,
             UNCHANGED <<since, expired, newest>>
      PROVE  Aged'
  <2>1. ToSet(line') \subseteq ToSet(line)
    BY <1>0, <1>7, WithoutType
  <2>2. \A q \in Rows : status'[q] = "absent" => status[q] = "absent"
    BY <1>7 DEF Types, Terminal
  <2> QED BY <1>3, <1>7, <2>1, <2>2
<1>8. ASSUME NEW r \in Rows, NEW t \in Terminal, SetStatus(r, t), UNCHANGED <<since, expired, newest>>
      PROVE  Aged'
  BY <1>7, <1>8 DEF SetStatus, Types
<1>9. ASSUME NEW r \in Rows, NEW t \in Terminal, MarkOwnRow(r, t) PROVE Aged'
  BY <1>8, <1>9 DEF MarkOwnRow
<1>10. ASSUME NEW r \in Rows, Abort(r) PROVE Aged'
  BY <1>8, <1>10 DEF Abort, Terminal
<1>11. ASSUME NEW r \in Rows, Cancel(r) PROVE Aged'
  BY <1>7, <1>11 DEF Cancel, Terminal
<1>12. ASSUME UNCHANGED <<status, since, expired, newest>> PROVE Aged'
  BY <1>12 DEF Aged, Pending
<1>13. ASSUME NEW r \in Rows, TurnVanishes(r) \/ Heartbeat(r) PROVE Aged'
  BY <1>12, <1>13 DEF TurnVanishes, Heartbeat
<1>14. CASE Tick
  BY <1>12, <1>14 DEF Tick
<1>15. CASE ReapExpiredLeases
  <2>1. /\ slot \in Rows /\ slot' = NoRow /\ line' = <<slot>> \o line
        /\ status' = [status EXCEPT ![slot] = "queued"] /\ UNCHANGED <<since, expired, newest>>
    BY <1>0, <1>15 DEF ReapExpiredLeases
  <2>2. ToSet(line') = ToSet(line) \cup {slot}
    BY <1>0, <2>1, RejoinLine
  <2>3. \A q \in Rows : status'[q] = "absent" => status[q] = "absent"
    BY <2>1 DEF Types
  <2> QED BY <1>3, <2>1, <2>2, <2>3
<1>16. ASSUME NEW r \in Rows, GrowOld(r) PROVE Aged'
  <2>1. /\ r \in Pending /\ UNCHANGED <<status, newest>> /\ Pending' = Pending
        /\ \/ /\ since' = [since EXCEPT ![r] = Stale] /\ expired' = expired
           \/ /\ \A q \in Pending : newest[q] < newest[r] => since[q] = Old
              /\ expired' = [expired EXCEPT ![r] = TRUE]
              /\ since' = since \/ since' = [since EXCEPT ![r] = Old]
           \/ /\ expired[r] /\ since' = [since EXCEPT ![r] = Old] /\ expired' = expired
    BY <1>16 DEF GrowOld, Pending
  <2>2. \A p \in Rows : status'[p] = "absent" => since'[p] = Fresh /\ ~expired'[p]
    BY <1>0, <2>1 DEF Aged, Pending
  <2>3. \A p \in Rows : since'[p] = Old => expired'[p]
    BY <1>0, <2>1 DEF Aged, Stale, Old
  <2>4. \A p, q \in Pending' : newest'[p] < newest'[q] /\ expired'[q] => expired'[p]
    <3> SUFFICES ASSUME NEW p \in Pending, NEW q \in Pending, newest[p] < newest[q], expired'[q]
                 PROVE  expired'[p]
      BY <2>1
    <3>1. p \in Rows /\ q \in Rows
      BY DEF Pending
    <3>2. CASE q # r \/ expired[q]
      BY <1>0, <2>1, <3>1, <3>2 DEF Aged
    <3>3. CASE q = r /\ ~expired[q]
      <4>1. since[p] = Old /\ p # r
        BY <1>0, <2>1, <3>1, <3>3
      <4> QED BY <1>0, <2>1, <3>1, <4>1 DEF Aged
    <3> QED BY <3>2, <3>3
  <2> QED BY <2>2, <2>3, <2>4 DEF Aged
<1>17. CASE UNCHANGED vars
  BY <1>12, <1>17 DEF vars
<1> QED
  BY <1>1, <1>2, <1>4, <1>5, <1>6, <1>9, <1>10, <1>11, <1>13, <1>14, <1>15, <1>16, <1>17
  DEF Next, Enqueue, MergeOrEnqueue, ReplaceLastOrEnqueue, Mergeable

(* An expired row has no row ahead of it that is not expired.               *)
LEMMA HurriedStep == TypeOK /\ TypeOK' /\ Hurried /\ [Next]_vars => Hurried'
<1> SUFFICES ASSUME Types, IndexesAgree, Types', IndexesAgree', Hurried, [Next]_vars
             PROVE  Hurried'
  BY DEF TypeOK, Types
<1> USE DEF queue, process, message, row
<1>0. /\ line \in Seq(Rows) /\ IsInjective(line) /\ ToSet(line) \subseteq Rows
      /\ slot \in Rows \cup {NoRow}
      /\ live \in [Rows -> 0..MaxTurns] /\ MaxTurns \in Nat \ {0}
  <2>1. line \in Seq(Rows)
    BY DEF Types
  <2>2. ToSet(line) \subseteq Rows
    BY <2>1, LenProperties, ElementOfSeq DEF ToSet
  <2> QED BY <2>2, MemoryBounds DEF Types, IndexesAgree
<1>1. ASSUME NEW r \in Rows, NEW u \in Users, PushRow(r, u), Accept PROVE Hurried'
  <2>1. /\ status[r] = "absent" /\ status' = [status EXCEPT ![r] = "queued"]
        /\ line' = Append(line, r) /\ UNCHANGED <<slot, live>>
    BY <1>1 DEF PushRow, Accept
  <2>2. ToSet(line') = ToSet(line) \cup {r}
    BY <1>0, <2>1, JoinLine
  <2>3. \A p, q \in Rows : Ahead(line', p, q) => Ahead(line, p, q) \/ q = r
    BY <1>0, <2>1, AheadJoin
  <2> QED BY <2>1, <2>2, <2>3 DEF Hurried, Types
<1>2. ASSUME NEW base, NEW waiting, NEW turns \in [Rows -> 0..MaxTurns],
             waiting \in Seq(Rows), IsInjective(waiting),
             \A p, q \in Rows : Ahead(waiting, p, q) => Ahead(line, p, q),
             \A q \in Rows : live[q] = 0 => turns[q] = 0,
             \A q \in Rows : base[q] = "absent" => status[q] = "absent",
             Serve(base, waiting, turns)
      PROVE  Hurried'
  <2>1. /\ \A p, q : Ahead(line', p, q) => Ahead(waiting, p, q)
        /\ \A q \in Rows : status'[q] = "absent" => base[q] = "absent"
        /\ \/ slot' = NoRow /\ live' = turns /\ line' = <<>>
           \/ /\ slot' \in Rows
              /\ live' = [turns EXCEPT ![slot'] = @ + 1]
              /\ slot' \notin ToSet(line')
              /\ \A q \in ToSet(line') : Ahead(waiting, slot', q)
    BY <1>2, ServeOrder
  <2>2. \A q \in Rows : q # slot' => live'[q] = turns[q]
    BY <2>1
  <2>3. line' \in Seq(Rows) /\ ToSet(line') \subseteq Rows
    <3>1. line' \in Seq(Rows)
      BY DEF Types
    <3> QED BY <3>1, LenProperties, ElementOfSeq DEF ToSet
  <2>4. \A p, q \in Rows : Ahead(line', p, q) => q # slot'
    BY <2>1, <2>3, AheadBoth, MemoryRows
  <2>5. \A p, q \in Rows : Ahead(line', p, q) => live'[q] = 0
    BY <1>2, <2>1, <2>2, <2>4 DEF Hurried
  <2>6. slot' # NoRow => \A q \in ToSet(line') : live'[q] = 0
    BY <1>2, <2>1, <2>2, <2>3 DEF Hurried
  <2>7. \A q \in Rows : status'[q] = "absent" => q # slot'
    BY DEF IndexesAgree
  <2>8. \A q \in Rows : status'[q] = "absent" => live'[q] = 0
    BY <1>2, <2>1, <2>2, <2>7 DEF Hurried
  <2> QED BY <2>5, <2>6, <2>8 DEF Hurried
<1>3. CASE NextQueued
  BY <1>0, <1>2, <1>3 DEF NextQueued
<1>4. ASSUME \A p, q \in Rows : Ahead(line', p, q) => Ahead(line, p, q),
             ToSet(line') \subseteq ToSet(line), slot' \in {slot, NoRow},
             \A q \in Rows : live[q] = 0 => live'[q] = 0,
             \A q \in Rows : status'[q] = "absent" => status[q] = "absent"
      PROVE  Hurried'
  BY <1>0, <1>4 DEF Hurried
<1>5. CASE Clear
  <2>1. /\ status' = [r \in Rows |-> IF r \in ToSet(line) THEN "cancelled" ELSE status[r]]
        /\ line' = <<>> /\ UNCHANGED <<slot, live>>
    BY <1>5 DEF Clear
  <2>2. \A p, q \in Rows : ~Ahead(line', p, q)
    BY <2>1, EmptySeq DEF Ahead
  <2> QED BY <1>4, <2>1, <2>2, EmptyLine
<1>6. ASSUME NEW r \in Rows, NEW t \in Terminal, line' = Without(line, {r}), slot' \in {slot, NoRow},
             status' = [status EXCEPT ![r] = t] \/ status' = status,
             \A q \in Rows : live[q] = 0 => live'[q] = 0
      PROVE  Hurried'
  <2>1. ToSet(line') \subseteq ToSet(line)
    BY <1>0, <1>6, WithoutType
  <2>2. \A q \in Rows : status'[q] = "absent" => status[q] = "absent"
    BY <1>6 DEF Types, Terminal
  <2>3. \A p, q \in Rows : Ahead(line', p, q) => Ahead(line, p, q)
    BY <1>0, <1>6, AheadWithout
  <2> QED BY <1>4, <1>6, <2>1, <2>2, <2>3
<1>7. ASSUME NEW r \in Rows, TurnEnds(r) PROVE \A q \in Rows : live[q] = 0 => live'[q] = 0
  BY <1>0, <1>7 DEF TurnEnds
<1>8. ASSUME NEW r \in Rows, NEW t \in Terminal, SetStatus(r, t),
             \A q \in Rows : live[q] = 0 => live'[q] = 0
      PROVE  Hurried'
  BY <1>6, <1>8 DEF SetStatus, Types
<1>9. ASSUME NEW r \in Rows, NEW t \in Terminal, MarkOwnRow(r, t) PROVE Hurried'
  BY <1>7, <1>8, <1>9 DEF MarkOwnRow
<1>10. ASSUME NEW r \in Rows, Abort(r) PROVE Hurried'
  BY <1>8, <1>10 DEF Abort, Terminal
<1>11. ASSUME NEW r \in Rows, Cancel(r) PROVE Hurried'
  BY <1>6, <1>11 DEF Cancel, Terminal
<1>12. ASSUME NEW r \in Rows, NEW t \in Terminal, FinishAndDrain(r, t) PROVE Hurried'
  <2> DEFINE ended == [status EXCEPT ![r] = IF @ \in Terminal THEN @ ELSE t]
             turns == [live EXCEPT ![r] = @ - 1]
             left == Without(line, {r})
  <2>1. left \in Seq(Rows) /\ IsInjective(left) /\ ToSet(left) \subseteq ToSet(line)
    BY <1>0, WithoutType
  <2>2. \A p, q \in Rows : Ahead(left, p, q) => Ahead(line, p, q)
    BY <1>0, AheadWithout
  <2>3. \A q \in Rows : ended[q] = "absent" => status[q] = "absent"
    BY DEF Terminal, Types
  <2>4. turns \in [Rows -> 0..MaxTurns] /\ \A q \in Rows : live[q] = 0 => turns[q] = 0
    <3>1. live[r] > 0 /\ live[r] \in 0..MaxTurns
      BY <1>0, <1>12 DEF FinishAndDrain
    <3> QED BY <1>0, <3>1
  <2> HIDE DEF ended, turns, left
  <2>5. \/ slot' = slot /\ line' = left /\ status' = ended /\ live' = turns
        \/ Serve(ended, left, turns)
    BY <1>12 DEF FinishAndDrain, TurnEnds, ended, turns, left
  <2>6. CASE slot' = slot /\ line' = left /\ status' = ended /\ live' = turns
    BY <1>4, <2>1, <2>2, <2>3, <2>4, <2>6
  <2>7. CASE Serve(ended, left, turns)
    BY <1>2, <2>1, <2>2, <2>3, <2>4, <2>7
  <2> QED BY <2>5, <2>6, <2>7
<1>13. ASSUME NEW r \in Rows, TurnVanishes(r) PROVE Hurried'
  BY <1>4, <1>7, <1>13 DEF TurnVanishes
<1>14. ASSUME NEW r \in Rows, Heartbeat(r) \/ GrowOld(r) PROVE Hurried'
  BY <1>14 DEF Hurried, Heartbeat, GrowOld
<1>15. CASE Tick
  BY <1>15 DEF Hurried, Tick
<1>16. CASE ReapExpiredLeases
  <2>1. /\ slot \in Rows /\ slot # NoRow /\ slot' = NoRow /\ line' = <<slot>> \o line
        /\ status' = [status EXCEPT ![slot] = "queued"] /\ live' = live
    BY <1>0, <1>16 DEF ReapExpiredLeases
  <2>2. \A p, q \in Rows : Ahead(line', p, q) => Ahead(line, p, q) \/ (p = slot /\ q \in ToSet(line))
    BY <1>0, <2>1, AheadRejoin
  <2>3. \A q \in Rows : status'[q] = "absent" => status[q] = "absent"
    BY <2>1 DEF Types
  <2> QED BY <2>1, <2>2, <2>3 DEF Hurried
<1>17. ASSUME NEW r \in Rows, FoldInto(r), Accept PROVE Hurried'
  BY <1>17 DEF Hurried, FoldInto, Accept
<1>18. CASE UNCHANGED vars
  BY <1>18 DEF vars, Hurried
<1> QED
  BY <1>1, <1>3, <1>5, <1>9, <1>10, <1>11, <1>12, <1>13, <1>14, <1>15, <1>16, <1>17, <1>18
  DEF Next, Enqueue, MergeOrEnqueue, ReplaceLastOrEnqueue

-----------------------------------------------------------------------------
(***************************************************************************)
(* Every step of the backend is a step of the abstract FIFO.               *)
(***************************************************************************)

(* The operators of the abstract specification, instantiated, are those of  *)
(* Lines.                                                                   *)
LEMMA SameLines ==
    ASSUME NEW s, NEW S
    PROVE  Fifo!Without(s, S) = Without(s, S) /\ Fifo!ToSet(s) = ToSet(s)
BY DEF Fifo!Without, Without, Fifo!ToSet, ToSet

(* Rows that end, wherever they were.                                       *)
LEMMA RowsEnd ==
    ASSUME NEW S \in SUBSET Rows, S # {}, S \subseteq ToSet(line) \cup Working,
           line' = Without(line, S), Working' = Working \ S, Over' = Over \cup S,
           slot' \in {NoRow, slot}, slot' \notin S
    PROVE  Fifo!Next
<1>1. Fifo!End(S)
  BY SameLines DEF Fifo!End, Fifo!Waiting
<1> QED BY <1>1 DEF Fifo!Next

(* next_queued, and finish_and_drain of the rows in ending, of which none   *)
(* has a row ahead of it: the expired rows of the line and those that end   *)
(* in it are its first, so the row that is served comes after them.         *)
LEMMA ServeImplements ==
    ASSUME Types, IndexesAgree, Types', IndexesAgree', Arrived, Aged,
           NEW ending \in SUBSET Rows, NEW base, NEW turns,
           \A q \in ending : base[q] \in Terminal /\ status[q] # "absent",
           \A q \in Rows \ ending : base[q] = status[q],
           \A q \in ending : \A p \in Rows : ~Ahead(line, p, q),
           slot \in ending \cup {NoRow},
           Serve(base, Without(line, ending), turns)
    PROVE  [Fifo!Next]_(Fifo!fifo)
<1>0. /\ line \in Seq(Rows) /\ ToSet(line) \subseteq Rows /\ Len(line) \in Nat
      /\ DOMAIN line = 1..Len(line)
      /\ status \in [Rows -> {"absent", "queued", "running"} \cup Terminal]
      /\ slot \in Rows \cup {NoRow}
  <2>1. line \in Seq(Rows)
    BY DEF Types
  <2>2. ToSet(line) \subseteq Rows /\ Len(line) \in Nat /\ DOMAIN line = 1..Len(line)
    BY <2>1, LenProperties, ElementOfSeq DEF ToSet
  <2> QED BY <2>1, <2>2 DEF Types
<1> DEFINE waiting == Without(line, ending)
<1>1. waiting \in Seq(Rows) /\ ToSet(waiting) = ToSet(line) \ ending
  BY <1>0, WithoutType
<1>2. PICK dead, left :
              /\ dead = {r \in ToSet(waiting) : expired[r]}
              /\ left = Without(waiting, dead) /\ left \in Seq(Rows)
              /\ ToSet(left) = ToSet(waiting) \ dead
              /\ IsInjective(waiting) => IsInjective(left)
              /\ \/ left = <<>> /\ Nobody(base, turns, dead)
                 \/ left # <<>> /\ Somebody(base, left, turns, dead, Head(left))
  BY <1>1, ServeParts
<1> DEFINE gone == ending \cup dead
           finished == ending \cap Working
<1>3. left = Without(line, gone)
  BY <1>0, <1>2, WithoutTwice
<1>4. dead = {q \in ToSet(line) : q \notin ending /\ expired[q]} /\ gone \subseteq Rows
  BY <1>0, <1>1, <1>2
<1>5. \A p, q : Ahead(line, p, q) /\ q \in gone => p \in gone
  <2> SUFFICES ASSUME NEW p, NEW q, Ahead(line, p, q), q \in gone PROVE p \in gone
    OBVIOUS
  <2>1. p \in Rows /\ q \in Rows /\ p \in ToSet(line) /\ q \in ToSet(line)
    BY <1>0, AheadBoth
  <2>2. expired[q]
    BY <1>4, <2>1
  <2>3. p \in Pending /\ q \in Pending /\ newest[p] < newest[q]
    BY <2>1 DEF Pending, IndexesAgree, Arrived
  <2>4. expired[p]
    BY <2>2, <2>3 DEF Aged
  <2> QED BY <1>4, <2>1, <2>4
<1>6. PICK k \in 0..Len(line) : \A i \in 1..Len(line) : line[i] \in gone <=> i <= k
  BY <1>0, <1>5, FirstRows
<1>7. left = SubSeq(line, k + 1, Len(line))
  BY <1>0, <1>3, <1>6, WithoutFirst
<1>8. /\ left = <<>> => k = Len(line)
      /\ left # <<>> => /\ k + 1 \in 1..Len(line) /\ Head(left) = line[k + 1]
                        /\ Tail(left) = SubSeq(line, k + 2, Len(line))
  BY <1>0, <1>7, NextInLine
<1>9. {line[i] : i \in 1..k} = ToSet(line) \cap gone
  BY <1>0, <1>6 DEF ToSet
<1>10. /\ Working \subseteq finished /\ slot \in finished \cup {NoRow}
       /\ Over \cup gone = Over \cup finished \cup (ToSet(line) \cap gone)
  <2>1. Working \subseteq ending
    BY MemoryRows DEF Working, IndexesAgree
  <2>2. slot \in finished \cup {NoRow}
    BY <1>0 DEF Working, IndexesAgree
  <2>3. \A q \in ending : q \in Over \/ q \in Working \/ q \in ToSet(line)
    BY <1>0 DEF Over, Working, IndexesAgree
  <2>4. finished \subseteq gone /\ gone \subseteq ending \cup ToSet(line)
    BY <1>4
  <2> QED BY <2>1, <2>2, <2>3, <2>4
<1> HIDE DEF waiting, gone, finished
<1>11. CASE left = <<>> /\ Nobody(base, turns, dead)
  <2> DEFINE S == ToSet(line) \cup finished
  <2>1. line' = <<>> /\ slot' = NoRow
    BY <1>11 DEF Nobody
  <2>2. ToSet(line) \subseteq gone
    BY <1>0, <1>6, <1>8, <1>11 DEF ToSet
  <2>3. Working' = {}
    BY <2>1, MemoryRows DEF Working, IndexesAgree
  <2>4. Over' = Over \cup gone
    BY <1>0, <1>4, <1>11 DEF Over, Nobody, Terminal, gone
  <2>5. Over' = Over \cup S
    BY <1>10, <2>2, <2>4
  <2>6. S \in SUBSET Rows /\ S \subseteq ToSet(line) \cup Working
    BY <1>0 DEF finished, Working
  <2>7. line' = Without(line, S)
    <3>1. Without(line, S) \in Seq(Rows) /\ ToSet(Without(line, S)) = {}
      BY <1>0, WithoutType
    <3> QED BY <2>1, <3>1, EmptyLine
  <2>8. Working' = Working \ S
    BY <1>10, <2>3
  <2>9. NoRow \notin S
    BY <2>6, MemoryRows
  <2>10. CASE S = {}
    <3>1. line = <<>>
      BY <1>0, <2>10, EmptyLine
    <3>2. Working = {} /\ slot = NoRow
      BY <1>10, <2>10
    <3> QED BY <2>1, <2>3, <2>5, <2>10, <3>1, <3>2 DEF Fifo!fifo
  <2> HIDE DEF S
  <2>11. CASE S # {}
    BY <2>1, <2>5, <2>6, <2>7, <2>8, <2>9, <2>11, RowsEnd
  <2> QED BY <2>10, <2>11
<1>12. CASE left # <<>> /\ Somebody(base, left, turns, dead, Head(left))
  <2> DEFINE n == Head(left)
  <2>1. n \in ToSet(left) /\ n \in Rows
    BY <1>2, <1>12, LeaveLine
  <2>2. n \in ToSet(line) /\ n \notin gone
    BY <1>1, <1>2, <2>1 DEF gone
  <2>3. n = line[k + 1] /\ k + 1 \in 1..Len(line) /\ line' = SubSeq(line, (k + 1) + 1, Len(line))
    <3>1. line' = Tail(left)
      BY <1>12 DEF Somebody
    <3>2. k + 2 = (k + 1) + 1
      BY <1>0
    <3> QED BY <1>8, <1>12, <3>1, <3>2
  <2>4. slot' = n
    BY <1>12 DEF Somebody
  <2> HIDE DEF n
  <2>5. Somebody(base, left, turns, dead, n)
    BY <1>12 DEF n
  <2>6. Working' = (Working \ finished) \cup {n}
    <3>1. Working' = {n}
      BY <2>1, <2>4 DEF Working, IndexesAgree
    <3> QED BY <1>10, <3>1
  <2>7. Over' = Over \cup gone
    <3>1. status[n] = "queued"
      BY <2>1, <2>2 DEF IndexesAgree
    <3> QED BY <1>0, <1>4, <2>1, <2>2, <2>5, <3>1 DEF Over, Somebody, Terminal, gone
  <2>8. Over' = Over \cup finished \cup {line[i] : i \in 1..((k + 1) - 1)}
    <3>1. (k + 1) - 1 = k
      BY <1>0
    <3> QED BY <1>9, <1>10, <2>7, <3>1
  <2>9. finished \subseteq Working
    BY DEF finished
  <2>10. Fifo!Serve(k + 1, finished)
    BY <1>10, <2>3, <2>4, <2>6, <2>8, <2>9 DEF Fifo!Serve
  <2> QED BY <2>3, <2>9, <2>10 DEF Fifo!Next
<1> QED BY <1>2, <1>11, <1>12

(* Nothing of what the abstract FIFO sees changes.                          *)
LEMMA NothingSeen ==
    ASSUME UNCHANGED <<status, line, slot>> PROVE UNCHANGED Fifo!fifo
BY DEF Fifo!fifo, Working, Over

(* One row ends, outside of the dispatch: it may be waiting, running or     *)
(* over already.                                                            *)
LEMMA OneEnds ==
    ASSUME Types, IndexesAgree, NEW r \in Rows, NEW t \in Terminal, status[r] # "absent",
           status' = [status EXCEPT ![r] = IF @ \in Terminal THEN @ ELSE t],
           line' = Without(line, {r}), slot' = IF slot = r THEN NoRow ELSE slot
    PROVE  [Fifo!Next]_(Fifo!fifo)
<1>0. /\ line \in Seq(Rows)
      /\ status \in [Rows -> {"absent", "queued", "running"} \cup Terminal]
      /\ slot \in Rows \cup {NoRow}
  BY DEF Types
<1>1. CASE status[r] \in Terminal
  <2>1. status' = status
    BY <1>0, <1>1
  <2>2. ToSet(line) \cap {r} = {} /\ slot # r
    BY <1>1 DEF IndexesAgree, Terminal
  <2>3. line' = line
    BY <1>0, <2>2, WithoutNone
  <2> QED BY <2>1, <2>2, <2>3, NothingSeen
<1>2. CASE status[r] \notin Terminal
  <2>1. {r} \subseteq ToSet(line) \cup Working
    BY <1>0, <1>2 DEF Working, IndexesAgree
  <2>2. Working' = Working \ {r} /\ Over' = Over \cup {r}
    BY <1>0, <1>2 DEF Working, Over, Terminal
  <2>3. slot' \in {NoRow, slot} /\ slot' \notin {r}
    BY MemoryRows
  <2> QED BY <2>1, <2>2, <2>3, RowsEnd
<1> QED BY <1>1, <1>2

(* Every step is a step of the abstract FIFO, or changes nothing it sees.   *)
LEMMA FifoStep ==
    TypeOK /\ TypeOK' /\ Arrived /\ Aged /\ Hurried /\ [Next]_vars => [Fifo!Next]_(Fifo!fifo)
<1> SUFFICES ASSUME Types, IndexesAgree, Types', IndexesAgree', Arrived, Aged, Hurried, [Next]_vars
             PROVE  [Fifo!Next]_(Fifo!fifo)
  BY DEF TypeOK, Types
<1> USE DEF queue, process, message, row
<1>0. /\ line \in Seq(Rows) /\ ToSet(line) \subseteq Rows
      /\ status \in [Rows -> {"absent", "queued", "running"} \cup Terminal]
      /\ slot \in Rows \cup {NoRow} /\ live \in [Rows -> 0..MaxTurns] /\ MaxTurns \in Nat \ {0}
  <2>1. line \in Seq(Rows)
    BY DEF Types
  <2>2. ToSet(line) \subseteq Rows
    BY <2>1, LenProperties, ElementOfSeq DEF ToSet
  <2> QED BY <2>1, <2>2, MemoryBounds DEF Types
<1>1. ASSUME NEW r \in Rows, NEW u \in Users, PushRow(r, u) PROVE Fifo!Next
  <2>1. /\ status[r] = "absent" /\ status' = [status EXCEPT ![r] = "queued"]
        /\ line' = Append(line, r) /\ slot' = slot
    BY <1>1 DEF PushRow
  <2>2. r \notin ToSet(line) \cup Working \cup Over
    BY <2>1 DEF IndexesAgree, Working, Over, Terminal
  <2>3. Working' = Working /\ Over' = Over
    BY <1>0, <2>1 DEF Working, Over, Terminal
  <2>4. Fifo!Join(r)
    BY <2>1, <2>2, <2>3, SameLines DEF Fifo!Join, Fifo!Waiting
  <2> QED BY <2>4 DEF Fifo!Next
<1>2. CASE NextQueued
  <2>1. Without(line, {}) = line
    BY <1>0, WithoutNone
  <2>2. Serve(status, Without(line, {}), live) /\ slot = NoRow
    BY <1>2, <2>1 DEF NextQueued, SlotTaken
  <2> QED BY <2>2, ServeImplements
<1>3. CASE Clear
  <2>1. /\ line # <<>> /\ line' = <<>> /\ slot' = slot
        /\ status' = [r \in Rows |-> IF r \in ToSet(line) THEN "cancelled" ELSE status[r]]
    BY <1>3 DEF Clear
  <2>2. ToSet(line) # {} /\ slot \notin ToSet(line)
    BY <1>0, <2>1, EmptyLine, MemoryRows DEF IndexesAgree
  <2>3. Working' = Working \ ToSet(line) /\ Over' = Over \cup ToSet(line)
    BY <1>0, <2>1 DEF Working, Over, Terminal, IndexesAgree
  <2>4. Without(line, ToSet(line)) = <<>>
    <3>1. Without(line, ToSet(line)) \in Seq(Rows) /\ ToSet(Without(line, ToSet(line))) = {}
      BY <1>0, WithoutType
    <3> QED BY <3>1, EmptyLine
  <2> QED BY <1>0, <2>1, <2>2, <2>3, <2>4, RowsEnd
<1>4. ASSUME NEW r \in Rows, NEW t \in Terminal, FinishAndDrain(r, t)
      PROVE  [Fifo!Next]_(Fifo!fifo)
  <2> DEFINE ended == [status EXCEPT ![r] = IF @ \in Terminal THEN @ ELSE t]
             turns == [live EXCEPT ![r] = @ - 1]
  <2>1. live[r] > 0
    BY <1>4 DEF FinishAndDrain
  <2>2. status[r] # "absent"
    BY <2>1 DEF Hurried
  <2>3. CASE slot \notin {NoRow, r}
    <3>1. status' = ended /\ line' = Without(line, {r}) /\ slot' = slot
      BY <1>4, <2>3 DEF FinishAndDrain
    <3> QED BY <2>2, <2>3, <3>1, OneEnds
  <2>4. CASE slot \in {NoRow, r}
    <3>1. Serve(ended, Without(line, {r}), turns)
      BY <1>4, <2>4 DEF FinishAndDrain
    <3>2. ended[r] \in Terminal /\ \A q \in Rows \ {r} : ended[q] = status[q]
      BY <1>0
    <3>3. \A p \in Rows : ~Ahead(line, p, r)
      BY <2>1 DEF Hurried
    <3> HIDE DEF ended, turns
    <3>4. slot \in {r} \cup {NoRow} /\ {r} \in SUBSET Rows
      BY <2>4
    <3> QED BY <2>2, <3>1, <3>2, <3>3, <3>4, ServeImplements
  <2> QED BY <2>3, <2>4
<1>5. ASSUME NEW r \in Rows, NEW t \in Terminal, SetStatus(r, t), status[r] # "absent"
      PROVE  [Fifo!Next]_(Fifo!fifo)
  BY <1>5, OneEnds DEF SetStatus, Settled
<1>6. ASSUME NEW r \in Rows, NEW t \in Terminal, MarkOwnRow(r, t)
      PROVE  [Fifo!Next]_(Fifo!fifo)
  BY <1>5, <1>6 DEF MarkOwnRow, TurnEnds, Hurried
<1>7. ASSUME NEW r \in Rows, Abort(r) PROVE [Fifo!Next]_(Fifo!fifo)
  BY <1>5, <1>7 DEF Abort, Terminal
<1>8. ASSUME NEW r \in Rows, Cancel(r) PROVE [Fifo!Next]_(Fifo!fifo)
  <2>1. /\ status[r] = "queued" /\ status' = [status EXCEPT ![r] = "cancelled"]
        /\ line' = Without(line, {r}) /\ slot' = slot
    BY <1>8 DEF Cancel
  <2>2. slot # r
    BY <2>1 DEF IndexesAgree
  <2> QED BY <2>1, <2>2, OneEnds DEF Terminal
<1>9. CASE ReapExpiredLeases
  <2>1. /\ slot \in Rows /\ slot' = NoRow /\ line' = <<slot>> \o line
        /\ status' = [status EXCEPT ![slot] = "queued"]
    BY <1>0, <1>9 DEF ReapExpiredLeases
  <2>2. status[slot] = "running"
    BY <2>1 DEF IndexesAgree
  <2>3. slot \in Working /\ Working' = Working \ {slot} /\ Over' = Over
    BY <1>0, <2>1, <2>2 DEF Working, Over, Terminal
  <2>4. Fifo!Rejoin(slot)
    BY <2>1, <2>3 DEF Fifo!Rejoin
  <2> QED BY <2>1, <2>4 DEF Fifo!Next
<1>10. ASSUME NEW r \in Rows, FoldInto(r) PROVE UNCHANGED Fifo!fifo
  BY <1>10, NothingSeen DEF FoldInto
<1>11. ASSUME NEW r \in Rows, TurnVanishes(r) \/ Heartbeat(r) \/ GrowOld(r) PROVE UNCHANGED Fifo!fifo
  BY <1>11, NothingSeen DEF TurnVanishes, Heartbeat, GrowOld
<1>12. CASE Tick \/ UNCHANGED vars
  BY <1>12, NothingSeen DEF Tick, vars
<1> QED
  BY <1>1, <1>2, <1>3, <1>4, <1>6, <1>7, <1>8, <1>9, <1>10, <1>11, <1>12
  DEF Next, Enqueue, MergeOrEnqueue, ReplaceLastOrEnqueue

(* Rows stand by their newest message along the slot and the line, and      *)
(* time passes for the older rows first: what the refinement rests on.      *)
LEMMA LineInOrder == Spec => [](TypeOK /\ Arrived /\ Aged /\ Hurried)
<1>1. Init => Arrived /\ Aged /\ Hurried
  BY EmptySeq, EmptyLine DEF Init, Arrived, Aged, Hurried, Ahead, Pending, Fresh, Old
<1> QED BY <1>1, IndexesStayTogether, ArrivedStep, AgedStep, HurriedStep, PTL DEF Spec

(* Every behaviour of the in-process queue, the reaper's steps and the late *)
(* finishes of reaped turns included, is one of the abstract FIFO.          *)
THEOREM MemoryQueueIsFifo == Spec => ImplementsSessionFifo
<1>1. Init => Fifo!Init
  BY DEF Init, Fifo!Init, Working, Over, Terminal
<1> QED BY <1>1, LineInOrder, FifoStep, PTL DEF Spec, ImplementsSessionFifo, Fifo!Spec
=============================================================================
