-------------------------- MODULE RedisQueueProofs --------------------------
(***************************************************************************)
(* Theorems about RedisQueue for every set of rows, every depth, lease and *)
(* bound, proved from the assumptions named in that module.                *)
(***************************************************************************)
EXTENDS RedisQueueMC, LinesProofs

(* While a row is being rehydrated the survival pointer names it.           *)
BootPointer ==
    boot = "reset" => pointer \in Rows /\ status[pointer] = "queued"

(* A marker always has some lease left: Redis drops it with its last tick.  *)
MarkerHasLease == marker # NoRow => lease >= 1

(* The types of all the variables, for every action of the module.          *)
LEMMA TypeStep == TypeOK /\ BootPointer /\ MarkerHasLease /\ [Next]_vars => TypeOK'
<1> USE DEF TypeOK, hash, redis, process, bounds
<1> SUFFICES ASSUME TypeOK, BootPointer, MarkerHasLease, [Next]_vars PROVE TypeOK'
  OBVIOUS
<1>0. LeaseTicks \in Nat /\ LeaseTicks >= 2 /\ NoRow \notin Rows
  BY RowsAssumption, BoundsAssumption
<1>a. /\ {"absent", "queued", "running", "completed", "failed", "cancelled"} \subseteq Status
      /\ Terminal \subseteq Status /\ "cancelled" \in Terminal
      /\ {"due", "checked", "done"} \subseteq Beat
      /\ {"serving", "scan", "reset", "readded", "unmarked", "purge", "dropped"}
            \subseteq Boot
  BY DEF Status, Terminal, Beat, Boot
<1>b. /\ 0 \in 0..LeaseTicks /\ LeaseTicks \in 0..LeaseTicks
      /\ \A l \in 0..LeaseTicks : l >= 1 => l - 1 \in 0..LeaseTicks
  BY <1>0
<1>c. /\ Fresh \in {Fresh, Stale, Expired}
      /\ \A a \in {Fresh, Stale, Expired} : a < Expired => a + 1 \in {Fresh, Stale, Expired}
  BY DEF Fresh, Stale, Expired
<1> USE <1>a, <1>b, <1>c
<1>1. ASSUME NEW r \in Rows, NEW u \in Users, PushRow(r, u), Accept
      PROVE  TypeOK'
  BY <1>1 DEF PushRow, Accept
<1>2. ASSUME NEW r \in Rows, FoldInto(r), Accept PROVE TypeOK'
  BY <1>2 DEF FoldInto, Accept
<1>3. ASSUME NEW r \in Rows, NEW u \in Users,
             Enqueue(r, u) \/ MergeOrEnqueue(r, u) \/ ReplaceLastOrEnqueue(r, u)
      PROVE  TypeOK'
  BY <1>1, <1>2, <1>3 DEF Enqueue, MergeOrEnqueue, ReplaceLastOrEnqueue
<1>4. ASSUME NextQueued PROVE TypeOK'
  <2>1. CASE DrainNothing(status) /\ UNCHANGED <<marker, lease, pointer, held, beat>>
    <3>1. status' \in [Rows -> Status] /\ zset' = {} /\ listed' = FALSE
      BY <2>1 DEF DrainNothing
    <3>2. UNCHANGED <<position, author, age, newest, counter, boot, arrivals, crashes,
                      marker, lease, pointer, held, beat>>
      BY <1>4, <2>1 DEF NextQueued, UnchangedByDrain
    <3> QED BY <3>1, <3>2
  <2>2. ASSUME NEW n \in zset, DrainTo(status, n), held' = held \cup {n}
        PROVE  TypeOK'
    BY <1>0, <1>4, <2>2 DEF NextQueued, DrainTo, MarkRunning, UnchangedByDrain
  <2> QED BY <1>4, <2>1, <2>2 DEF NextQueued
<1>5. ASSUME NEW r \in Rows, NEW t \in Terminal, FinishAndDrain(r, t)
      PROVE  TypeOK'
  <2>0. Finished(t) \in [Rows -> Status]
    BY <1>5 DEF Finished
  <2>1. CASE /\ held' = held \ {r}
             /\ UNCHANGED <<status, zset, listed, marker, lease, pointer, beat>>
    BY <1>5, <2>1 DEF FinishAndDrain, UnchangedByDrain
  <2>2. CASE /\ DrainNothing(Finished(t))
             /\ marker' = NoRow /\ lease' = 0 /\ pointer' = NoRow
             /\ held' = held \ {r}
             /\ UNCHANGED beat
    <3>1. status' \in [Rows -> Status] /\ zset' = {} /\ listed' = FALSE
      BY <2>0, <2>2 DEF DrainNothing
    <3>2. UNCHANGED <<position, author, age, newest, counter, boot, arrivals, crashes,
                      beat>>
      BY <1>5, <2>2 DEF FinishAndDrain, UnchangedByDrain
    <3> QED BY <1>0, <2>2, <3>1, <3>2
  <2>3. ASSUME NEW n \in zset, DrainTo(Finished(t), n),
               held' = (held \ {r}) \cup {n}
        PROVE  TypeOK'
    BY <1>0, <1>5, <2>0, <2>3
       DEF FinishAndDrain, DrainTo, MarkRunning, UnchangedByDrain
  <2> QED BY <1>5, <2>1, <2>2, <2>3 DEF FinishAndDrain
<1>6. ASSUME NEW r \in Rows, NEW t \in Terminal, SetTerminal(r, t),
             held' \in {held, held \ {r}}, UNCHANGED <<beat, boot, bounds>>
      PROVE  TypeOK'
  BY <1>0, <1>6 DEF SetTerminal
<1>7. ASSUME NEW r \in Rows, NEW t \in Terminal, MarkOwnRow(r, t) PROVE TypeOK'
  BY <1>6, <1>7 DEF MarkOwnRow
<1>8. ASSUME NEW r \in Rows, Abort(r) PROVE TypeOK'
  <2>1. "cancelled" \in Terminal  OBVIOUS
  <2> QED BY <1>6, <1>8, <2>1 DEF Abort
<1>9. ASSUME NEW r \in Rows, Cancel(r) PROVE TypeOK'
  BY <1>9 DEF Cancel
<1>10. ASSUME NEW r \in Rows, TurnVanishes(r) \/ GrowOld(r) PROVE TypeOK'
  <2>1. CASE TurnVanishes(r)
    BY <2>1 DEF TurnVanishes
  <2>2. CASE GrowOld(r)
    BY <2>2 DEF GrowOld
  <2> QED BY <1>10, <2>1, <2>2
<1>11. ASSUME NEW r \in Rows, HeartbeatCheck(r) \/ HeartbeatExtend(r)
       PROVE  TypeOK'
  <2>1. CASE HeartbeatCheck(r)
    <3>1. beat' \in [Rows -> Beat]
      BY <2>1 DEF HeartbeatCheck
    <3> QED BY <2>1, <3>1 DEF HeartbeatCheck
  <2>2. CASE HeartbeatExtend(r)
    <3>1. lease' \in 0..LeaseTicks /\ beat' \in [Rows -> Beat]
      BY <1>0, <2>2 DEF HeartbeatExtend
    <3> QED BY <2>2, <3>1 DEF HeartbeatExtend
  <2> QED BY <1>11, <2>1, <2>2
<1>12. CASE Tick
  BY <1>12 DEF Tick, MarkerHasLease
<1>13. CASE Crash
  BY <1>13 DEF Crash
<1>14. CASE BootNext
  <2>1. CASE RehydrateScan
    <3>1. status' \in [Rows -> Status] /\ pointer' \in Rows \cup {NoRow}
      BY <2>1 DEF RehydrateScan, BootStep, Running
    <3> QED BY <2>1, <3>1 DEF RehydrateScan, BootStep
  <2>2. CASE RehydrateAdd
    BY <2>2 DEF RehydrateAdd, BootStep, BootPointer
  <2>3. CASE RehydrateUnmark \/ RehydrateForget \/ PurgeDrop \/ PurgeForget \/ BootFails
    BY <1>0, <2>3 DEF RehydrateUnmark, RehydrateForget, PurgeDrop, PurgeForget,
                      BootFails, BootStep
  <2>4. CASE \E r \in Rows : PurgeRow(r)
    BY <2>4 DEF PurgeRow, BootStep
  <2> QED BY <1>14, <2>1, <2>2, <2>3, <2>4 DEF BootNext
<1>15. CASE ReapExpiredLeases \/ UNCHANGED vars
  BY <1>15 DEF ReapExpiredLeases, vars
<1> QED
  BY <1>3, <1>4, <1>5, <1>7, <1>8, <1>9, <1>10, <1>11, <1>12, <1>13, <1>14, <1>15
     DEF Next
-----------------------------------------------------------------------------
(***************************************************************************)
(* The inductive invariant behind the FIFO properties.  A row that is      *)
(* active but not in the zset (running, or stranded by a boot that was cut *)
(* short) precedes every row of the zset and does not follow the row the   *)
(* survival pointer names: that is why a re-queued row may take its old    *)
(* position again, and why a merge into the tail disturbs nobody.          *)
(***************************************************************************)
Active == {r \in Rows : status[r] \in {"queued", "running"}}
Out    == Active \ zset

Positioned ==
    \A r \in Rows : status[r] # "absent" =>
        /\ position[r] \in 1..counter
        /\ \A q \in Rows : status[q] # "absent" /\ position[q] = position[r] => q = r
ZsetIdle == \A r \in zset : status[r] \in {"queued", "cancelled"}
OutFirst == \A r \in Out, q \in zset : position[r] < position[q]
PointerLast ==
    pointer # NoRow =>
        status[pointer] # "absent" /\ \A r \in Out : position[r] <= position[pointer]
NewestBounded == \A r \in Rows : newest[r] <= arrivals
NewestInOrder ==
    \A r, q \in Active \cup zset : position[r] < position[q] => newest[r] < newest[q]
HeldNotWaiting ==
    /\ \A r \in held : r \notin zset /\ status[r] \notin {"absent", "queued"}
    /\ boot # "serving" => held = {}

Ordered == Positioned /\ ZsetIdle /\ OutFirst /\ PointerLast /\ NewestBounded
               /\ NewestInOrder
IInv == TypeOK /\ BootPointer /\ MarkerHasLease /\ HeldNotWaiting /\ Ordered

(* Steps by what they do to the order of the rows.  Most of them only end   *)
(* rows, take ended rows out of the zset, or drop the pointer.              *)
Shrink ==
    /\ \A r \in Rows : \/ status'[r] = status[r]
                       \/ status[r] # "absent" /\ status'[r] \in Terminal
    /\ zset' \subseteq zset
    /\ \A r \in zset : r \notin zset' => status'[r] \in Terminal
    /\ \A r \in zset' : status'[r] \in {status[r], "cancelled"}
    /\ pointer' \in {pointer, NoRow}
    /\ UNCHANGED <<position, newest, counter, arrivals>>

LEMMA ShrinkStep == TypeOK /\ TypeOK' /\ Ordered /\ Shrink => Ordered'
<1> SUFFICES ASSUME TypeOK, TypeOK', Ordered, Shrink PROVE Ordered'
  OBVIOUS
<1> USE DEF TypeOK, Ordered, Shrink
<1>1. Out' \subseteq Out /\ Active' \subseteq Active
  BY DEF Out, Active, Terminal
<1>2. Positioned'
  BY DEF Positioned, Terminal
<1>3. ZsetIdle'
  BY DEF ZsetIdle
<1>4. OutFirst'
  BY <1>1 DEF OutFirst
<1>5. PointerLast'
  BY <1>1 DEF PointerLast, Terminal
<1>6. NewestBounded' /\ NewestInOrder'
  BY <1>1 DEF NewestBounded, NewestInOrder
<1> QED BY <1>2, <1>3, <1>4, <1>5, <1>6

(* A new row goes behind every other one.                                   *)
LEMMA PushStep ==
    ASSUME NEW r \in Rows, NEW u \in Users,
           TypeOK, TypeOK', Ordered, PushRow(r, u), Accept
    PROVE  Ordered'
<1> USE DEF TypeOK, Ordered, PushRow, Accept
<1>1. Active' = Active \cup {r} /\ zset' = zset \cup {r} /\ Out' \subseteq Out
  BY DEF Out, Active
<1>2. Positioned'
  BY DEF Positioned
<1>3. \A q \in Active \cup zset : q # r /\ position'[q] = position[q] /\ position[q] < position'[r]
  BY DEF Active, Positioned, ZsetIdle
<1>4. ZsetIdle'
  BY DEF ZsetIdle
<1>5. OutFirst'
  BY <1>1, <1>3 DEF OutFirst, Out, ZsetIdle
<1>6. PointerLast'
  BY <1>1, <1>3, RowsAssumption DEF PointerLast, Out
<1>7. NewestBounded'
  BY DEF NewestBounded
<1>8. NewestInOrder'
  <2>1. newest'[r] = arrivals + 1
        /\ \A q \in Active \cup zset : newest'[q] = newest[q] /\ newest[q] <= arrivals
    BY <1>3 DEF NewestBounded, Active
  <2>2. \A p, q \in Active \cup zset : position[p] < position[q] => newest[p] < newest[q]
    BY DEF NewestInOrder
  <2>3. Active' \cup zset' = Active \cup zset \cup {r}
    BY <1>1
  <2>4. /\ Active \cup zset \subseteq Rows
        /\ \A q \in Active \cup zset : newest[q] \in Nat /\ position[q] \in Nat
        /\ position'[r] \in Nat
    BY DEF Active
  <2> QED BY ONLY <1>3, <2>1, <2>2, <2>3, <2>4, arrivals \in Nat DEF NewestInOrder
<1> QED BY <1>2, <1>4, <1>5, <1>6, <1>7, <1>8

(* A message folded into the tail of the zset leaves it the newest row.     *)
LEMMA FoldStep ==
    ASSUME NEW r \in Rows, TypeOK, TypeOK', Ordered,
           Highest(r, zset), status[r] = "queued", FoldInto(r), Accept
    PROVE  Ordered'
<1> USE DEF TypeOK, Ordered, FoldInto, Accept
<1>1. \A q \in Active \cup zset : position[q] <= position[r]
  BY DEF Highest, Active, OutFirst, Out
<1>2. Positioned' /\ ZsetIdle' /\ OutFirst' /\ PointerLast'
  BY DEF Positioned, ZsetIdle, OutFirst, PointerLast, Out, Active
<1>3. NewestBounded'
  BY DEF NewestBounded
<1>4. NewestInOrder'
  BY <1>1 DEF NewestInOrder, NewestBounded, Active, Positioned
<1> QED BY <1>2, <1>3, <1>4

(* The drain loop takes the first row that is not expired; every row that   *)
(* stays in the zset is behind it.                                          *)
LEMMA DrainStep ==
    ASSUME NEW base \in [Rows -> Status], NEW n \in zset,
           \A q \in Rows : \/ base[q] = status[q]
                           \/ /\ base[q] \in Terminal /\ status[q] # "absent"
                              /\ q \notin zset,
           TypeOK, TypeOK', Ordered, DrainTo(base, n),
           UNCHANGED <<position, newest, counter, arrivals>>
    PROVE  Ordered'
<1> USE DEF TypeOK, Ordered, DrainTo, MarkRunning
<1>1. /\ Active' \subseteq Active \cup {n}
      /\ Out' \subseteq Out \cup {n}
      /\ zset' \subseteq zset
      /\ n \in Rows /\ status'[n] = "running" /\ n \notin zset'
  BY DEF Out, Active, Terminal, PoppedBefore
<1>2. Positioned'
  BY DEF Positioned, Terminal, ZsetIdle, PoppedBefore
<1>3. \A q \in zset' : position[n] < position[q] /\ q \in zset /\ q # n
  BY DEF Lowest, Live, Positioned, PoppedBefore, ZsetIdle
<1>4. ZsetIdle'
  BY <1>3 DEF ZsetIdle, PoppedBefore
<1>5. OutFirst'
  BY <1>1, <1>3 DEF OutFirst
<1>6. PointerLast'
  <2>1. pointer' = n /\ position' = position
    OBVIOUS
  <2>2. \A r \in Out' : position[r] <= position[n]
    <3>1. position \in [Rows -> Nat] /\ n \in Rows /\ Out \subseteq Rows
      BY DEF Out, Active
    <3>2. \A r \in Out : position[r] < position[n]
      BY DEF OutFirst
    <3> QED BY ONLY <1>1, <3>1, <3>2
  <2> QED BY <1>1, <2>1, <2>2 DEF PointerLast
<1>7. NewestBounded'
  BY DEF NewestBounded
<1>8. NewestInOrder'
  BY <1>1 DEF NewestInOrder
<1> QED BY <1>2, <1>4, <1>5, <1>6, <1>7, <1>8

(* Rehydration: the row named by the pointer changes back to queued, and    *)
(* then takes its old position at the head of the zset.                     *)
LEMMA ResetStep ==
    ASSUME TypeOK, TypeOK', Ordered, pointer \in Running,
           status' = [status EXCEPT ![pointer] = "queued"],
           UNCHANGED <<position, newest, counter, arrivals, zset, pointer>>
    PROVE  Ordered'
<1> USE DEF TypeOK, Ordered, Running
<1>1. Active' = Active /\ Out' = Out
  BY DEF Out, Active
<1>2. Positioned' /\ ZsetIdle' /\ NewestBounded'
  BY DEF Positioned, ZsetIdle, NewestBounded
<1>3. OutFirst' /\ PointerLast' /\ NewestInOrder'
  BY <1>1 DEF OutFirst, PointerLast, NewestInOrder
<1> QED BY <1>2, <1>3

LEMMA ReaddStep ==
    ASSUME TypeOK, TypeOK', Ordered, pointer \in Rows, status[pointer] = "queued",
           zset' = zset \cup {pointer},
           UNCHANGED <<status, position, newest, counter, arrivals, pointer>>
    PROVE  Ordered'
<1> USE DEF TypeOK, Ordered
<1>1. Active' = Active /\ Out' = Out \ {pointer} /\ pointer \in Active
  BY DEF Out, Active
<1>2. Positioned' /\ ZsetIdle' /\ NewestBounded'
  BY DEF Positioned, ZsetIdle, NewestBounded
<1>3. \A r \in Out : r # pointer => position[r] < position[pointer]
  <2>1. \A r \in Out : status[r] # "absent" /\ position[r] <= position[pointer]
                       /\ position[r] \in Nat /\ position[pointer] \in Nat
    BY RowsAssumption DEF PointerLast, Out, Active
  <2>2. \A r \in Out : position[r] = position[pointer] => r = pointer
    BY <2>1 DEF Positioned, Out, Active
  <2> QED BY ONLY <2>1, <2>2
<1>4. OutFirst' /\ PointerLast' /\ NewestInOrder'
  BY <1>1, <1>3 DEF OutFirst, PointerLast, NewestInOrder
<1> QED BY <1>2, <1>4
-----------------------------------------------------------------------------
(* What each action is, among those classes.                                *)
LEMMA OrderedStep == IInv /\ TypeOK' /\ [Next]_vars => Ordered'
<1> SUFFICES ASSUME IInv, TypeOK', [Next]_vars PROVE Ordered'
  OBVIOUS
<1> USE DEF IInv, hash, redis, process, bounds
<1>0. TypeOK /\ Ordered /\ HeldNotWaiting /\ BootPointer
  OBVIOUS
<1>a. ASSUME Shrink PROVE Ordered'
  BY <1>0, <1>a, ShrinkStep
<1>b. ASSUME UNCHANGED <<status, zset, position, newest, counter, arrivals>>,
             pointer' \in {pointer, NoRow}
      PROVE  Ordered'
  BY <1>a, <1>b DEF Shrink
<1>1. ASSUME NEW r \in Rows, NEW u \in Users,
             Enqueue(r, u) \/ MergeOrEnqueue(r, u) \/ ReplaceLastOrEnqueue(r, u)
      PROVE  Ordered'
  <2>1. CASE PushRow(r, u) /\ Accept
    BY <1>0, <2>1, PushStep
  <2>2. CASE Highest(r, zset) /\ status[r] = "queued" /\ FoldInto(r) /\ Accept
    BY <1>0, <2>2, FoldStep
  <2> QED BY <1>1, <2>1, <2>2
          DEF Enqueue, MergeOrEnqueue, ReplaceLastOrEnqueue, Mergeable, Replaceable
<1>2. CASE NextQueued
  <2>1. CASE DrainNothing(status) /\ UNCHANGED pointer
    <3>1. Shrink
      BY <1>0, <1>2, <2>1 DEF NextQueued, DrainNothing, UnchangedByDrain, Shrink,
                              Ordered, ZsetIdle, Terminal, TypeOK
    <3> QED BY <1>a, <3>1
  <2>2. ASSUME NEW n \in zset, DrainTo(status, n) PROVE Ordered'
    <3>1. UNCHANGED <<position, newest, counter, arrivals>>
      BY <1>2 DEF NextQueued, UnchangedByDrain
    <3>2. status \in [Rows -> Status]
      BY <1>0 DEF TypeOK
    <3> QED BY <1>0, <2>2, <3>1, <3>2, DrainStep
  <2> QED BY <1>2, <2>1, <2>2 DEF NextQueued
<1>3. ASSUME NEW r \in Rows, NEW t \in Terminal, FinishAndDrain(r, t)
      PROVE  Ordered'
  <2>1. UNCHANGED <<position, newest, counter, arrivals>>
    BY <1>3 DEF FinishAndDrain, UnchangedByDrain
  <2>2. CASE UNCHANGED <<status, zset, pointer>>
    BY <1>b, <2>1, <2>2
  <2>3. ASSUME Owns(r)
        PROVE  /\ Finished(t) \in [Rows -> Status]
               /\ \A q \in Rows : \/ Finished(t)[q] = status[q]
                                  \/ /\ Finished(t)[q] \in Terminal
                                     /\ status[q] # "absent" /\ q \notin zset
    BY <1>0, <1>3, <2>3
       DEF Finished, Owns, TypeOK, HeldNotWaiting, FinishAndDrain, Status, Terminal
  <2>4. CASE Owns(r) /\ DrainNothing(Finished(t)) /\ pointer' = NoRow
    <3>1. Shrink
      BY <1>0, <2>1, <2>3, <2>4
         DEF DrainNothing, Shrink, Ordered, ZsetIdle, Terminal, TypeOK
    <3> QED BY <1>a, <3>1
  <2>5. ASSUME Owns(r), NEW n \in zset, DrainTo(Finished(t), n) PROVE Ordered'
    BY <1>0, <2>1, <2>3, <2>5, DrainStep
  <2> QED BY <1>3, <2>2, <2>4, <2>5 DEF FinishAndDrain
<1>4. ASSUME NEW r \in Rows, NEW t \in Terminal, SetTerminal(r, t),
             status[r] # "absent", UNCHANGED arrivals
      PROVE  Ordered'
  <2>1. Shrink
    BY <1>0, <1>4 DEF SetTerminal, Shrink, TypeOK
  <2> QED BY <1>a, <2>1
<1>5. ASSUME NEW r \in Rows, NEW t \in Terminal, MarkOwnRow(r, t) PROVE Ordered'
  BY <1>0, <1>4, <1>5 DEF MarkOwnRow, HeldNotWaiting
<1>6. ASSUME NEW r \in Rows, Abort(r) PROVE Ordered'
  <2>1. "cancelled" \in Terminal
    BY DEF Terminal
  <2> QED BY <1>4, <1>6, <2>1 DEF Abort
<1>7. ASSUME NEW r \in Rows, Cancel(r) PROVE Ordered'
  <2>1. Shrink
    BY <1>0, <1>7 DEF Cancel, Shrink, TypeOK, Terminal, Ordered, ZsetIdle
  <2> QED BY <1>a, <2>1
<1>8. ASSUME NEW r \in Rows,
             \/ TurnVanishes(r) \/ GrowOld(r)
             \/ HeartbeatCheck(r) \/ HeartbeatExtend(r)
      PROVE  Ordered'
  BY <1>b, <1>8 DEF TurnVanishes, GrowOld, HeartbeatCheck, HeartbeatExtend
<1>9. CASE Tick \/ Crash \/ ReapExpiredLeases \/ UNCHANGED vars
  BY <1>b, <1>9 DEF Tick, Crash, ReapExpiredLeases, vars
<1>10. CASE RehydrateScan
  <2>1. CASE UNCHANGED status
    BY <1>b, <1>10, <2>1 DEF RehydrateScan, BootStep
  <2>2. CASE /\ pointer \in Running
             /\ status' = [status EXCEPT ![pointer] = "queued"]
             /\ UNCHANGED <<zset, pointer>>
    BY <1>0, <1>10, <2>2, ResetStep DEF RehydrateScan, BootStep
  <2> QED BY <1>10, <2>1, <2>2 DEF RehydrateScan
<1>11. CASE RehydrateAdd
  BY <1>0, <1>11, ReaddStep DEF RehydrateAdd, BootStep, BootPointer
<1>12. CASE RehydrateUnmark \/ RehydrateForget \/ PurgeForget \/ BootFails
  BY <1>b, <1>12 DEF RehydrateUnmark, RehydrateForget, PurgeForget, BootFails, BootStep
<1>13. CASE PurgeDrop \/ \E r \in Rows : PurgeRow(r)
  <2>1. Shrink
    BY <1>0, <1>13 DEF PurgeDrop, PurgeRow, BootStep, Shrink, TypeOK, Terminal,
                       Ordered, ZsetIdle
  <2> QED BY <1>a, <2>1
<1> QED
  BY <1>1, <1>2, <1>3, <1>5, <1>6, <1>7, <1>8, <1>9, <1>10, <1>11, <1>12, <1>13
     DEF Next, BootNext

(* The other conjuncts: where the boot is, what leases and holders are.     *)
LEMMA SideStep ==
    IInv /\ TypeOK' /\ [Next]_vars => BootPointer' /\ MarkerHasLease' /\ HeldNotWaiting'
<1> SUFFICES ASSUME IInv, TypeOK', [Next]_vars
             PROVE  BootPointer' /\ MarkerHasLease' /\ HeldNotWaiting'
  OBVIOUS
<1> USE DEF hash, redis, process, bounds
<1>0. /\ TypeOK /\ BootPointer /\ MarkerHasLease /\ HeldNotWaiting /\ ZsetIdle
      /\ LeaseTicks \in Nat /\ LeaseTicks >= 2 /\ NoRow \notin Rows
  BY RowsAssumption, BoundsAssumption DEF IInv, Ordered
<1> USE DEF TypeOK, BootPointer, MarkerHasLease, HeldNotWaiting
<1>1. ASSUME NEW r \in Rows, NEW u \in Users, PushRow(r, u) \/ FoldInto(r), Accept
      PROVE  BootPointer' /\ MarkerHasLease' /\ HeldNotWaiting'
  BY <1>0, <1>1 DEF PushRow, FoldInto, Accept
<1>2. ASSUME NEW r \in Rows, NEW u \in Users,
             Enqueue(r, u) \/ MergeOrEnqueue(r, u) \/ ReplaceLastOrEnqueue(r, u)
      PROVE  BootPointer' /\ MarkerHasLease' /\ HeldNotWaiting'
  BY <1>1, <1>2 DEF Enqueue, MergeOrEnqueue, ReplaceLastOrEnqueue
<1>3. CASE NextQueued
  <2>1. CASE DrainNothing(status) /\ UNCHANGED <<marker, lease, pointer, held, beat>>
    BY <1>0, <1>3, <2>1 DEF NextQueued, DrainNothing, UnchangedByDrain
  <2>2. ASSUME NEW n \in zset, DrainTo(status, n), held' = held \cup {n}
        PROVE  BootPointer' /\ MarkerHasLease' /\ HeldNotWaiting'
    BY <1>0, <1>3, <2>2
       DEF NextQueued, DrainTo, MarkRunning, UnchangedByDrain, PoppedBefore
  <2> QED BY <1>3, <2>1, <2>2 DEF NextQueued
<1>4. ASSUME NEW r \in Rows, NEW t \in Terminal, FinishAndDrain(r, t)
      PROVE  BootPointer' /\ MarkerHasLease' /\ HeldNotWaiting'
  <2>0. /\ boot = "serving" /\ boot' = "serving"
        /\ \A q \in Rows : Finished(t)[q] \in {status[q], t}
    BY <1>0, <1>4 DEF FinishAndDrain, UnchangedByDrain, Finished
  <2>1. CASE held' = held \ {r} /\ UNCHANGED <<status, zset, marker, lease, pointer>>
    BY <1>0, <2>0, <2>1
  <2>2. CASE /\ DrainNothing(Finished(t)) /\ marker' = NoRow
             /\ held' = held \ {r}
    BY <1>0, <2>0, <2>2 DEF DrainNothing, Terminal
  <2>3. ASSUME NEW n \in zset, DrainTo(Finished(t), n), held' = (held \ {r}) \cup {n}
        PROVE  BootPointer' /\ MarkerHasLease' /\ HeldNotWaiting'
    BY <1>0, <2>0, <2>3 DEF DrainTo, MarkRunning, PoppedBefore, Terminal
  <2> QED BY <1>4, <2>1, <2>2, <2>3 DEF FinishAndDrain
<1>5. ASSUME NEW r \in Rows, NEW t \in Terminal, SetTerminal(r, t), boot = "serving",
             held' \in {held, held \ {r}}, UNCHANGED boot
      PROVE  BootPointer' /\ MarkerHasLease' /\ HeldNotWaiting'
  BY <1>0, <1>5 DEF SetTerminal, Terminal
<1>6. ASSUME NEW r \in Rows, NEW t \in Terminal, MarkOwnRow(r, t) \/ Abort(r)
      PROVE  BootPointer' /\ MarkerHasLease' /\ HeldNotWaiting'
  <2>1. "cancelled" \in Terminal
    BY DEF Terminal
  <2> QED BY <1>5, <1>6, <2>1 DEF MarkOwnRow, Abort
<1>7. ASSUME NEW r \in Rows, Cancel(r) \/ TurnVanishes(r) \/ GrowOld(r)
      PROVE  BootPointer' /\ MarkerHasLease' /\ HeldNotWaiting'
  BY <1>0, <1>7 DEF Cancel, TurnVanishes, GrowOld
<1>8. ASSUME NEW r \in Rows, HeartbeatCheck(r) \/ HeartbeatExtend(r)
      PROVE  BootPointer' /\ MarkerHasLease' /\ HeldNotWaiting'
  BY <1>0, <1>8 DEF HeartbeatCheck, HeartbeatExtend
<1>9. CASE Tick \/ Crash \/ ReapExpiredLeases \/ UNCHANGED vars
  BY <1>0, <1>9 DEF Tick, Crash, ReapExpiredLeases, vars
<1>10. CASE BootNext
  <2>0. held = {} /\ held' = {}
    BY <1>0, <1>10 DEF BootNext, RehydrateScan, RehydrateAdd, RehydrateUnmark,
          RehydrateForget, PurgeRow, PurgeDrop, PurgeForget, BootFails, BootStep
  <2>1. CASE RehydrateScan
    BY <1>0, <2>0, <2>1 DEF RehydrateScan, BootStep, Running
  <2>2. CASE RehydrateAdd \/ RehydrateUnmark \/ RehydrateForget
    BY <1>0, <2>0, <2>2 DEF RehydrateAdd, RehydrateUnmark, RehydrateForget, BootStep
  <2>3. CASE (\E r \in Rows : PurgeRow(r)) \/ PurgeDrop \/ PurgeForget \/ BootFails
    BY <1>0, <2>0, <2>3 DEF PurgeRow, PurgeDrop, PurgeForget, BootFails, BootStep
  <2> QED BY <1>10, <2>1, <2>2, <2>3 DEF BootNext
<1> QED
  <2>1. \E t \in Terminal : TRUE
    BY DEF Terminal
  <2> QED
    BY <1>2, <1>3, <1>4, <1>6, <1>7, <1>8, <1>9, <1>10, <2>1 DEF Next

(* The inductive invariant holds in every reachable state.                  *)
LEMMA InductiveInvariant == Spec => []IInv
<1>1. Init => IInv
  <2> SUFFICES ASSUME Init PROVE IInv
    OBVIOUS
  <2>1. TypeOK
    <3>1. /\ "absent" \in Status /\ "done" \in Beat /\ "serving" \in Boot
          /\ 0 \in 0..LeaseTicks
      BY BoundsAssumption DEF Status, Beat, Boot
    <3> QED BY <3>1 DEF Init, TypeOK
  <2>2. BootPointer /\ MarkerHasLease /\ HeldNotWaiting
    BY DEF Init, BootPointer, MarkerHasLease, HeldNotWaiting
  <2>3. Active = {} /\ Out = {}
    BY DEF Init, Active, Out
  <2>4. Ordered
    BY <2>3 DEF Init, Ordered, Positioned, ZsetIdle, OutFirst, PointerLast,
                NewestBounded, NewestInOrder
  <2> QED BY <2>1, <2>2, <2>4 DEF IInv
<1>2. IInv /\ [Next]_vars => IInv'
  BY TypeStep, OrderedStep, SideStep DEF IInv
<1> QED BY <1>1, <1>2, PTL DEF Spec

(* Every variable keeps its type: in particular a lease never goes below    *)
(* zero, and the row a boot re-queues is a row.                             *)
THEOREM TypeCorrect == Spec => []TypeOK
<1>1. IInv => TypeOK
  BY DEF IInv
<1> QED BY <1>1, InductiveInvariant, PTL

(* FIFO by row, for every fault the module knows: late heartbeats, vanished *)
(* turns, crashes while serving or booting, and failed boots.               *)
THEOREM FifoByRow == Spec => []NoOvertaking
<1>1. IInv => NoOvertaking
  BY DEF IInv, Ordered, OutFirst, ZsetIdle, NoOvertaking, Out, Active, TypeOK
<1> QED BY <1>1, InductiveInvariant, PTL

(* FIFO by message, under the same faults.                                  *)
THEOREM FifoByArrival == Spec => []ArrivalOrder
<1>1. IInv => ArrivalOrder
  BY DEF IInv, Ordered, NewestInOrder, ArrivalOrder, Active
<1> QED BY <1>1, InductiveInvariant, PTL
-----------------------------------------------------------------------------
(***************************************************************************)
(* Mutual exclusion.  With timely heartbeats the lease of a live turn      *)
(* never runs out: it is full when the turn has beaten in this period, and *)
(* at most one tick short before.  So the marker still names the turn.     *)
(***************************************************************************)
Beating ==
    \A r \in held : status[r] = "running" =>
        /\ marker = r
        /\ lease >= LeaseTicks - 1
        /\ beat[r] = "done" => lease = LeaseTicks

LEMMA BeatingStep ==
    ASSUME "late_beats" \notin Faults
    PROVE  IInv /\ TypeOK' /\ Beating /\ [Next]_vars => Beating'
<1> SUFFICES ASSUME IInv, TypeOK', Beating, [Next]_vars PROVE Beating'
  OBVIOUS
<1> USE DEF hash, redis, process, bounds
<1>0. /\ TypeOK /\ HeldNotWaiting /\ MarkerHasLease
      /\ LeaseTicks \in Nat /\ LeaseTicks >= 2 /\ NoRow \notin Rows
  BY RowsAssumption, BoundsAssumption DEF IInv
<1> USE DEF TypeOK, HeldNotWaiting, MarkerHasLease, Beating
<1>1. ASSUME NEW r \in Rows, NEW u \in Users, PushRow(r, u) \/ FoldInto(r), Accept
      PROVE  Beating'
  BY <1>0, <1>1 DEF PushRow, FoldInto, Accept
<1>2. ASSUME NEW r \in Rows, NEW u \in Users,
             Enqueue(r, u) \/ MergeOrEnqueue(r, u) \/ ReplaceLastOrEnqueue(r, u)
      PROVE  Beating'
  BY <1>1, <1>2 DEF Enqueue, MergeOrEnqueue, ReplaceLastOrEnqueue
<1>3. CASE NextQueued
  <2>1. CASE DrainNothing(status) /\ UNCHANGED <<marker, lease, pointer, held, beat>>
    BY <1>0, <1>3, <2>1 DEF NextQueued, DrainNothing
  <2>2. ASSUME NEW n \in zset, DrainTo(status, n), held' = held \cup {n}
        PROVE  Beating'
    BY <1>0, <1>3, <2>2
       DEF NextQueued, SlotFree, DrainTo, MarkRunning, PoppedBefore
  <2> QED BY <1>3, <2>1, <2>2 DEF NextQueued
<1>4. ASSUME NEW r \in Rows, NEW t \in Terminal, FinishAndDrain(r, t)
      PROVE  Beating'
  <2>1. CASE held' = held \ {r} /\ UNCHANGED <<status, marker, lease, beat>>
    BY <1>0, <2>1
  <2>2. ASSUME Owns(r)
        PROVE  \A q \in held \ {r} : status[q] # "running" /\ Finished(t)[q] # "running"
    BY <1>0, <2>2 DEF Owns, Finished, Terminal
  <2>3. CASE Owns(r) /\ DrainNothing(Finished(t)) /\ held' = held \ {r}
    BY <1>0, <2>2, <2>3 DEF DrainNothing
  <2>4. ASSUME Owns(r), NEW n \in zset, DrainTo(Finished(t), n),
               held' = (held \ {r}) \cup {n}
        PROVE  Beating'
    BY <1>0, <2>2, <2>4 DEF DrainTo, MarkRunning, PoppedBefore
  <2> QED BY <1>4, <2>1, <2>3, <2>4 DEF FinishAndDrain
<1>5. ASSUME NEW r \in Rows, NEW t \in Terminal, SetTerminal(r, t),
             held' \in {held, held \ {r}}, UNCHANGED beat
      PROVE  Beating'
  BY <1>0, <1>5 DEF SetTerminal, Terminal
<1>6. ASSUME NEW r \in Rows, NEW t \in Terminal, MarkOwnRow(r, t) \/ Abort(r)
      PROVE  Beating'
  <2>1. "cancelled" \in Terminal
    BY DEF Terminal
  <2> QED BY <1>5, <1>6, <2>1 DEF MarkOwnRow, Abort
<1>7. ASSUME NEW r \in Rows, Cancel(r) \/ TurnVanishes(r) \/ GrowOld(r)
      PROVE  Beating'
  BY <1>0, <1>7 DEF Cancel, TurnVanishes, GrowOld
<1>8. ASSUME NEW r \in Rows, HeartbeatCheck(r) \/ HeartbeatExtend(r)
      PROVE  Beating'
  BY <1>0, <1>8 DEF HeartbeatCheck, HeartbeatExtend
<1>9. CASE Tick
  BY <1>0, <1>9 DEF Tick
<1>10. CASE Crash \/ ReapExpiredLeases \/ UNCHANGED vars
  BY <1>0, <1>10 DEF Crash, ReapExpiredLeases, vars
<1>11. CASE BootNext
  <2>0. held = {} /\ held' = {}
    BY <1>0, <1>11 DEF BootNext, RehydrateScan, RehydrateAdd, RehydrateUnmark,
          RehydrateForget, PurgeRow, PurgeDrop, PurgeForget, BootFails, BootStep
  <2> QED BY <2>0
<1> QED
  <2>1. \E t \in Terminal : TRUE
    BY DEF Terminal
  <2> QED
    BY <1>2, <1>3, <1>4, <1>6, <1>7, <1>8, <1>9, <1>10, <1>11, <2>1 DEF Next

(* As long as every live turn beats once per period, no two turns of a      *)
(* session run at once, whatever is aborted, paused, vanished, expired or   *)
(* crashed, while serving or booting.                                       *)
THEOREM MutualExclusion ==
    ASSUME "late_beats" \notin Faults
    PROVE  Spec => []OneTurnAtATime
<1>1. Init => Beating
  BY DEF Init, Beating
<1>2. IInv /\ Beating /\ [Next]_vars => Beating'
  BY BeatingStep, TypeStep DEF IInv
<1>3. Beating => OneTurnAtATime
  BY DEF Beating, OneTurnAtATime
<1> QED BY <1>1, <1>2, <1>3, InductiveInvariant, PTL DEF Spec
-----------------------------------------------------------------------------
(***************************************************************************)
(* Write-once.  A daemon whose boot steps always ran to their end serves   *)
(* only with queued rows in the zset: the purge leaves an empty zset, and  *)
(* it skips a session only when that session has no zset.                  *)
(***************************************************************************)
Clean ==
    /\ ~listed => zset = {}
    /\ boot = "serving" => \A r \in zset : status[r] = "queued"
    /\ boot \notin {"serving", "scan"} => listed
    /\ boot = "dropped" => zset = {}

LEMMA CleanStep ==
    ASSUME "boot_error" \notin Faults
    PROVE  IInv /\ TypeOK' /\ Clean /\ [Next]_vars => Clean'
<1> SUFFICES ASSUME IInv, TypeOK', Clean, [Next]_vars PROVE Clean'
  OBVIOUS
<1> USE DEF hash, redis, process, bounds
<1>0. TypeOK /\ HeldNotWaiting /\ BootPointer
  BY DEF IInv
<1> USE DEF TypeOK, Clean
<1>1. ASSUME NEW r \in Rows, NEW u \in Users, PushRow(r, u) \/ FoldInto(r), Accept
      PROVE  Clean'
  BY <1>0, <1>1 DEF PushRow, FoldInto, Accept
<1>2. ASSUME NEW r \in Rows, NEW u \in Users,
             Enqueue(r, u) \/ MergeOrEnqueue(r, u) \/ ReplaceLastOrEnqueue(r, u)
      PROVE  Clean'
  BY <1>1, <1>2 DEF Enqueue, MergeOrEnqueue, ReplaceLastOrEnqueue
<1>3. CASE NextQueued
  <2>1. CASE DrainNothing(status)
    BY <1>0, <1>3, <2>1 DEF NextQueued, DrainNothing, UnchangedByDrain
  <2>2. ASSUME NEW n \in zset, DrainTo(status, n) PROVE Clean'
    BY <1>0, <1>3, <2>2 DEF NextQueued, DrainTo, MarkRunning, UnchangedByDrain
  <2> QED BY <1>3, <2>1, <2>2 DEF NextQueued
<1>4. ASSUME NEW r \in Rows, NEW t \in Terminal, FinishAndDrain(r, t)
      PROVE  Clean'
  <2>0. /\ boot = "serving" /\ boot' = "serving"
    BY <1>4 DEF FinishAndDrain, UnchangedByDrain
  <2>1. CASE UNCHANGED <<status, zset, listed>>
    BY <1>0, <2>0, <2>1
  <2>2. CASE DrainNothing(Finished(t))
    BY <1>0, <2>0, <2>2 DEF DrainNothing
  <2>3. ASSUME Owns(r), NEW n \in zset, DrainTo(Finished(t), n) PROVE Clean'
    <3>1. \A q \in zset : q # marker => Finished(t)[q] = "queued"
      BY <1>0, <2>0 DEF Finished
    <3>2. marker \notin zset
      BY <1>0, <1>4, <2>3, RowsAssumption DEF Owns, HeldNotWaiting, FinishAndDrain
    <3> QED BY <1>0, <2>0, <2>3, <3>1, <3>2 DEF DrainTo, MarkRunning
  <2> QED BY <1>4, <2>1, <2>2, <2>3 DEF FinishAndDrain
<1>5. ASSUME NEW r \in Rows, NEW t \in Terminal, SetTerminal(r, t), boot' = boot
      PROVE  Clean'
  BY <1>0, <1>5 DEF SetTerminal
<1>6. ASSUME NEW r \in Rows, NEW t \in Terminal, MarkOwnRow(r, t) \/ Abort(r)
      PROVE  Clean'
  <2>1. "cancelled" \in Terminal
    BY DEF Terminal
  <2> QED BY <1>5, <1>6, <2>1 DEF MarkOwnRow, Abort
<1>7. ASSUME NEW r \in Rows, Cancel(r) \/ TurnVanishes(r) \/ GrowOld(r)
      PROVE  Clean'
  BY <1>0, <1>7 DEF Cancel, TurnVanishes, GrowOld
<1>8. CASE \/ \E r \in Rows : HeartbeatCheck(r) \/ HeartbeatExtend(r)
           \/ Tick \/ Crash \/ ReapExpiredLeases \/ UNCHANGED vars
  BY <1>0, <1>8 DEF HeartbeatCheck, HeartbeatExtend, Tick, Crash, ReapExpiredLeases, vars
<1>9. CASE RehydrateScan \/ RehydrateAdd \/ RehydrateUnmark \/ RehydrateForget
  BY <1>0, <1>9 DEF RehydrateScan, RehydrateAdd, RehydrateUnmark, RehydrateForget, BootStep
<1>10. CASE (\E r \in Rows : PurgeRow(r)) \/ PurgeDrop \/ PurgeForget \/ BootFails
  BY <1>0, <1>10 DEF PurgeRow, PurgeDrop, PurgeForget, BootFails, BootStep
<1> QED
  <2>1. \E t \in Terminal : TRUE
    BY DEF Terminal
  <2> QED
    BY <1>2, <1>3, <1>4, <1>6, <1>7, <1>8, <1>9, <1>10, <2>1 DEF Next, BootNext

(* Clean holds whenever no boot was aborted by an error.                    *)
LEMMA CleanInvariant ==
    ASSUME "boot_error" \notin Faults
    PROVE  Spec => []Clean
<1>1. Init => Clean
  BY DEF Init, Clean
<1>2. IInv /\ Clean /\ [Next]_vars => Clean'
  BY CleanStep, TypeStep DEF IInv
<1> QED BY <1>1, <1>2, InductiveInvariant, PTL DEF Spec

LEMMA FinalStep ==
    IInv /\ Clean /\ [Next]_vars
        => [\A r \in Rows : status[r] \in Terminal => status'[r] = status[r]]_vars
<1> SUFFICES ASSUME IInv, Clean, Next
             PROVE  \A r \in Rows : status[r] \in Terminal => status'[r] = status[r]
  OBVIOUS
<1> DEFINE Goal == \A r \in Rows : status[r] \in Terminal => status'[r] = status[r]
<1> USE DEF hash, redis, process, bounds
<1>0. /\ TypeOK /\ ZsetIdle /\ HeldNotWaiting
      /\ {"queued", "running", "absent"} \cap Terminal = {}
      /\ "cancelled" \in Terminal
  BY DEF IInv, Ordered, Terminal
<1> USE DEF TypeOK, Clean
<1>1. ASSUME NEW r \in Rows, NEW u \in Users,
             Enqueue(r, u) \/ MergeOrEnqueue(r, u) \/ ReplaceLastOrEnqueue(r, u)
      PROVE  Goal
  BY <1>0, <1>1 DEF Enqueue, MergeOrEnqueue, ReplaceLastOrEnqueue, PushRow, FoldInto
<1>2. CASE NextQueued
  BY <1>0, <1>2 DEF NextQueued, DrainNothing, DrainTo, PoppedBefore
<1>3. ASSUME NEW r \in Rows, NEW t \in Terminal, FinishAndDrain(r, t)
      PROVE  Goal
  <2>1. boot = "serving" /\ \A q \in Rows : status[q] \in Terminal => Finished(t)[q] = status[q]
    BY <1>0, <1>3 DEF FinishAndDrain, Finished
  <2> QED BY <1>0, <1>3, <2>1 DEF FinishAndDrain, DrainNothing, DrainTo, PoppedBefore
<1>4. ASSUME NEW r \in Rows, NEW t \in Terminal, SetTerminal(r, t) PROVE Goal
  BY <1>0, <1>4 DEF SetTerminal
<1>5. ASSUME NEW r \in Rows, NEW t \in Terminal, MarkOwnRow(r, t) \/ Abort(r)
      PROVE  Goal
  BY <1>0, <1>4, <1>5 DEF MarkOwnRow, Abort
<1>6. ASSUME NEW r \in Rows, Cancel(r) PROVE Goal
  BY <1>0, <1>6 DEF Cancel
<1>7. CASE UNCHANGED status
  BY <1>7
<1>8. CASE RehydrateScan
  BY <1>0, <1>8 DEF RehydrateScan, Running
<1>9. ASSUME NEW r \in Rows, PurgeRow(r) PROVE Goal
  BY <1>0, <1>9 DEF PurgeRow, ZsetIdle
<1>10. ASSUME NEW r \in Rows,
              \/ TurnVanishes(r) \/ GrowOld(r)
              \/ HeartbeatCheck(r) \/ HeartbeatExtend(r)
       PROVE  UNCHANGED status
  BY <1>10 DEF TurnVanishes, GrowOld, HeartbeatCheck, HeartbeatExtend
<1>11. ASSUME \/ Tick \/ ReapExpiredLeases \/ Crash
              \/ RehydrateAdd \/ RehydrateUnmark \/ RehydrateForget
              \/ PurgeDrop \/ PurgeForget \/ BootFails
       PROVE  UNCHANGED status
  BY <1>11 DEF Tick, ReapExpiredLeases, Crash, RehydrateAdd, RehydrateUnmark,
               RehydrateForget, PurgeDrop, PurgeForget, BootFails, vars
<1> QED
  <2>1. \E t \in Terminal : TRUE
    BY <1>0
  <2> QED
    BY <1>1, <1>2, <1>3, <1>5, <1>6, <1>7, <1>8, <1>9, <1>10, <1>11, <2>1
       DEF Next, BootNext

(* As long as no Redis error cuts the boot steps short, a row never leaves  *)
(* a terminal status, whichever of abort, finish, pause, cancel, expiry,    *)
(* crash and boot comes second.                                             *)
THEOREM WriteOnce ==
    ASSUME "boot_error" \notin Faults
    PROVE  Spec => TerminalIsFinal
<1>1. Spec => []Clean
  BY CleanInvariant
<1> QED BY <1>1, InductiveInvariant, FinalStep, PTL DEF Spec, TerminalIsFinal
-----------------------------------------------------------------------------
(***************************************************************************)
(* The cap.  Only an accepted message adds a row to the occupied places    *)
(* while the daemon serves, and it does so below the cap; every other step *)
(* moves rows out of them, or from waiting to running.                     *)
(***************************************************************************)
Occupied == zset \cup ({marker} \ {NoRow})
Capped ==
    /\ IsFiniteSet(zset)
    /\ boot = "serving" => Cardinality(Occupied) <= MaxDepth

(* One more element makes a set at most one larger.                         *)
LEMMA AddOne ==
    ASSUME NEW S, NEW x, IsFiniteSet(S)
    PROVE  /\ IsFiniteSet(S \cup {x})
           /\ Cardinality(S) \in Nat /\ Cardinality(S \cup {x}) \in Nat
           /\ Cardinality(S \cup {x}) <= Cardinality(S) + 1
<1>1. IsFiniteSet(S \cup {x})
      /\ Cardinality(S \cup {x}) = IF x \in S THEN Cardinality(S) ELSE Cardinality(S) + 1
  BY FS_AddElement
<1>2. Cardinality(S) \in Nat /\ Cardinality(S \cup {x}) \in Nat
  BY <1>1, FS_CardinalityType
<1> QED BY <1>1, <1>2

LEMMA OccupiedShrinks ==
    ASSUME IsFiniteSet(zset), Cardinality(Occupied) <= MaxDepth, Occupied' \subseteq Occupied
    PROVE  IsFiniteSet(zset') /\ Cardinality(Occupied') <= MaxDepth
<1>1. IsFiniteSet(Occupied)
  <2>1. CASE marker = NoRow
    <3>1. Occupied = zset
      BY <2>1 DEF Occupied
    <3> QED BY <3>1
  <2>2. CASE marker # NoRow
    <3>1. Occupied = zset \cup {marker}
      BY <2>2 DEF Occupied
    <3> QED BY <3>1, FS_AddElement
  <2> QED BY <2>1, <2>2
<1>2. IsFiniteSet(Occupied') /\ Cardinality(Occupied') <= Cardinality(Occupied)
  BY <1>1, FS_Subset
<1>3. IsFiniteSet(zset')
  <2>1. zset' \subseteq Occupied'
    BY DEF Occupied
  <2> QED BY <1>2, <2>1, FS_Subset
<1>4. MaxDepth \in Nat /\ Cardinality(Occupied) \in Nat /\ Cardinality(Occupied') \in Nat
  BY <1>1, <1>2, FS_CardinalityType, BoundsAssumption
<1> QED BY <1>2, <1>3, <1>4

LEMMA OccupiedGrows ==
    ASSUME NEW r \in Rows, NEW u \in Users, TypeOK, IsFiniteSet(zset), PushRow(r, u)
    PROVE  IsFiniteSet(zset') /\ Cardinality(Occupied') <= MaxDepth
<1>0. /\ zset' = zset \cup {r} /\ marker' = marker /\ Depth < MaxDepth
      /\ MaxDepth \in Nat
  BY BoundsAssumption DEF PushRow
<1>1. /\ IsFiniteSet(zset') /\ IsFiniteSet(zset)
      /\ Cardinality(zset') \in Nat /\ Cardinality(zset) \in Nat
      /\ Cardinality(zset') <= Cardinality(zset) + 1
  BY <1>0, AddOne
<1>2. CASE marker = NoRow
  <2>1. Occupied' = zset'
    BY <1>0, <1>2 DEF Occupied
  <2>2. Depth = Cardinality(zset)
    BY <1>1, <1>2 DEF Depth
  <2> QED BY <1>0, <1>1, <2>1, <2>2
<1>3. CASE marker # NoRow
  <2>1. Occupied' = zset' \cup {marker} /\ Depth = Cardinality(zset) + 1
    BY <1>0, <1>3 DEF Occupied, Depth
  <2>2. /\ Cardinality(zset' \cup {marker}) \in Nat
        /\ Cardinality(zset' \cup {marker}) <= Cardinality(zset') + 1
    BY <1>1, AddOne
  <2> QED BY <1>0, <1>1, <2>1, <2>2
<1> QED BY <1>2, <1>3

(* A boot ends with an empty zset: at most the marker is left.              *)
LEMMA OccupiedAfterBoot ==
    ASSUME TypeOK', zset' = {}
    PROVE  IsFiniteSet(zset') /\ Cardinality(Occupied') <= MaxDepth
<1>0. MaxDepth \in Nat /\ MaxDepth >= 1
  BY BoundsAssumption
<1>1. CASE marker' = NoRow
  <2>1. Occupied' = {}
    BY <1>1 DEF Occupied
  <2> QED BY <1>0, <2>1, FS_EmptySet
<1>2. CASE marker' # NoRow
  <2>1. Occupied' = {marker'}
    BY <1>2 DEF Occupied
  <2> QED BY <1>0, <2>1, FS_EmptySet, FS_Singleton
<1> QED BY <1>1, <1>2

LEMMA CappedStep ==
    ASSUME "boot_error" \notin Faults
    PROVE  IInv /\ TypeOK' /\ Clean /\ Capped /\ [Next]_vars => Capped'
<1> SUFFICES ASSUME IInv, TypeOK', Clean, Capped, [Next]_vars PROVE Capped'
  OBVIOUS
<1> USE DEF hash, redis, process, bounds
<1>0. TypeOK /\ BootPointer
  BY DEF IInv
<1> USE DEF TypeOK
<1>a. ASSUME boot = "serving", Occupied' \subseteq Occupied PROVE Capped'
  BY <1>a, OccupiedShrinks DEF Capped
<1>b. ASSUME boot' # "serving", zset' \subseteq zset PROVE Capped'
  BY <1>b, FS_Subset DEF Capped
<1>c. ASSUME zset' = {} PROVE Capped'
  BY <1>c, OccupiedAfterBoot DEF Capped
<1>1. ASSUME NEW r \in Rows, NEW u \in Users,
             Enqueue(r, u) \/ MergeOrEnqueue(r, u) \/ ReplaceLastOrEnqueue(r, u)
      PROVE  Capped'
  <2>1. CASE PushRow(r, u)
    BY <1>0, <2>1, OccupiedGrows DEF Capped
  <2>2. CASE FoldInto(r) /\ Accept
    <3>1. boot = "serving" /\ Occupied' \subseteq Occupied
      BY <2>2 DEF FoldInto, Accept, Occupied
    <3> QED BY <1>a, <3>1
  <2> QED BY <1>1, <2>1, <2>2 DEF Enqueue, MergeOrEnqueue, ReplaceLastOrEnqueue
<1>2. CASE NextQueued
  <2>1. boot = "serving" /\ Occupied' \subseteq Occupied
    BY <1>0, <1>2, RowsAssumption
       DEF NextQueued, DrainNothing, DrainTo, MarkRunning, Occupied
  <2> QED BY <1>a, <2>1
<1>3. ASSUME NEW r \in Rows, NEW t \in Terminal, FinishAndDrain(r, t)
      PROVE  Capped'
  <2>1. boot = "serving" /\ Occupied' \subseteq Occupied
    BY <1>0, <1>3, RowsAssumption
       DEF FinishAndDrain, DrainNothing, DrainTo, MarkRunning, Occupied
  <2> QED BY <1>a, <2>1
<1>4. ASSUME NEW r \in Rows, NEW t \in Terminal, MarkOwnRow(r, t) \/ Abort(r)
      PROVE  Capped'
  <2>1. boot = "serving" /\ Occupied' \subseteq Occupied
    BY <1>0, <1>4 DEF MarkOwnRow, Abort, SetTerminal, Occupied
  <2> QED BY <1>a, <2>1
<1>5. ASSUME NEW r \in Rows, Cancel(r) \/ TurnVanishes(r) PROVE Capped'
  <2>1. boot = "serving" /\ Occupied' \subseteq Occupied
    BY <1>0, <1>5 DEF Cancel, TurnVanishes, Occupied
  <2> QED BY <1>a, <2>1
<1>6. CASE \/ \E r \in Rows : HeartbeatCheck(r) \/ HeartbeatExtend(r) \/ GrowOld(r)
           \/ Tick \/ Crash \/ ReapExpiredLeases \/ UNCHANGED vars
  <2>1. \/ zset' = zset /\ boot' = "scan"
        \/ boot' = boot /\ zset' = zset /\ Occupied' \subseteq Occupied
    BY <1>0, <1>6
       DEF HeartbeatCheck, HeartbeatExtend, GrowOld, Tick, Crash, ReapExpiredLeases, vars,
           Occupied
  <2> QED BY <1>a, <1>b, <2>1
<1>7. CASE RehydrateAdd
  <2>1. boot' # "serving" /\ zset' = zset \cup {pointer}
    BY <1>7 DEF RehydrateAdd, BootStep
  <2> QED BY <2>1, FS_AddElement DEF Capped
<1>8. CASE \/ RehydrateScan \/ RehydrateUnmark \/ RehydrateForget
           \/ (\E r \in Rows : PurgeRow(r)) \/ PurgeDrop \/ PurgeForget \/ BootFails
  <2>1. \/ zset' = {}
        \/ boot' # "serving" /\ zset' = zset
    BY <1>0, <1>8
       DEF RehydrateScan, RehydrateUnmark, RehydrateForget, PurgeRow, PurgeDrop,
           PurgeForget, BootFails, BootStep, Clean
  <2> QED BY <1>b, <1>c, <2>1
<1> QED
  <2>1. \E t \in Terminal : TRUE
    BY DEF Terminal
  <2> QED
    BY <1>1, <1>2, <1>3, <1>4, <1>5, <1>6, <1>7, <1>8, <2>1 DEF Next, BootNext

(* max_depth bounds the rows waiting and running whenever the daemon        *)
(* serves, as long as no Redis error cuts the boot steps short.             *)
THEOREM DepthTheorem ==
    ASSUME "boot_error" \notin Faults
    PROVE  Spec => []DepthBounded
<1>1. Init => Capped
  <2> SUFFICES ASSUME Init PROVE Capped
    OBVIOUS
  <2>1. Occupied = {} /\ zset = {}
    BY DEF Init, Occupied
  <2> QED BY <2>1, FS_EmptySet, BoundsAssumption DEF Capped
<1>2. IInv /\ Clean /\ Capped /\ [Next]_vars => Capped'
  BY CappedStep, TypeStep DEF IInv
<1>3. Capped => DepthBounded
  BY DEF Capped, DepthBounded, Occupied
<1>4. Spec => []Clean
  BY CleanInvariant
<1> QED BY <1>1, <1>2, <1>3, <1>4, InductiveInvariant, PTL DEF Spec
-----------------------------------------------------------------------------
(***************************************************************************)
(* Reachability.  The set of sessions loses this one only with its zset    *)
(* empty; a row that is queued leaves the zset only with its status.       *)
(***************************************************************************)
Listed ==
    /\ ~listed => zset = {}
    /\ boot \notin {"serving", "scan"} => listed
    /\ boot = "dropped" => zset = {}

LEMMA ListedStep == IInv /\ TypeOK' /\ Listed /\ [Next]_vars => Listed'
<1> SUFFICES ASSUME IInv, TypeOK', Listed, [Next]_vars PROVE Listed'
  OBVIOUS
<1> USE DEF hash, redis, process, bounds
<1>0. TypeOK
  BY DEF IInv
<1> USE DEF TypeOK, Listed
<1>1. ASSUME NEW r \in Rows, NEW u \in Users, PushRow(r, u) \/ FoldInto(r), Accept
      PROVE  Listed'
  BY <1>0, <1>1 DEF PushRow, FoldInto, Accept
<1>2. ASSUME NEW r \in Rows, NEW u \in Users,
             Enqueue(r, u) \/ MergeOrEnqueue(r, u) \/ ReplaceLastOrEnqueue(r, u)
      PROVE  Listed'
  BY <1>1, <1>2 DEF Enqueue, MergeOrEnqueue, ReplaceLastOrEnqueue
<1>3. CASE NextQueued
  <2>1. CASE DrainNothing(status)
    BY <1>0, <1>3, <2>1 DEF NextQueued, DrainNothing, UnchangedByDrain
  <2>2. ASSUME NEW n \in zset, DrainTo(status, n) PROVE Listed'
    BY <1>0, <1>3, <2>2 DEF NextQueued, DrainTo, MarkRunning, UnchangedByDrain
  <2> QED BY <1>3, <2>1, <2>2 DEF NextQueued
<1>4. ASSUME NEW r \in Rows, NEW t \in Terminal, FinishAndDrain(r, t) PROVE Listed'
  <2>0. boot = "serving" /\ boot' = "serving"
    BY <1>4 DEF FinishAndDrain, UnchangedByDrain
  <2>1. CASE UNCHANGED <<zset, listed>>
    BY <1>0, <2>0, <2>1
  <2>2. CASE DrainNothing(Finished(t))
    BY <1>0, <2>0, <2>2 DEF DrainNothing
  <2>3. ASSUME NEW n \in zset, DrainTo(Finished(t), n) PROVE Listed'
    BY <1>0, <2>0, <2>3 DEF DrainTo, MarkRunning
  <2> QED BY <1>4, <2>1, <2>2, <2>3 DEF FinishAndDrain
<1>5. ASSUME NEW r \in Rows, NEW t \in Terminal, SetTerminal(r, t),
             held' \in {held, held \ {r}}, boot' = boot
      PROVE  Listed'
  BY <1>0, <1>5 DEF SetTerminal, Terminal
<1>6. ASSUME NEW r \in Rows, NEW t \in Terminal, MarkOwnRow(r, t) \/ Abort(r)
      PROVE  Listed'
  <2>1. "cancelled" \in Terminal
    BY DEF Terminal
  <2> QED BY <1>5, <1>6, <2>1 DEF MarkOwnRow, Abort
<1>7. ASSUME NEW r \in Rows, Cancel(r) \/ TurnVanishes(r) \/ GrowOld(r)
      PROVE  Listed'
  BY <1>0, <1>7 DEF Cancel, TurnVanishes, GrowOld, Terminal
<1>8. CASE \/ \E r \in Rows : HeartbeatCheck(r) \/ HeartbeatExtend(r)
           \/ Tick \/ Crash \/ ReapExpiredLeases \/ UNCHANGED vars
  BY <1>0, <1>8 DEF HeartbeatCheck, HeartbeatExtend, Tick, Crash, ReapExpiredLeases, vars
<1>9. CASE RehydrateScan \/ RehydrateAdd \/ RehydrateUnmark \/ RehydrateForget
  BY <1>0, <1>9 DEF RehydrateScan, RehydrateAdd, RehydrateUnmark, RehydrateForget, BootStep
<1>10. CASE (\E r \in Rows : PurgeRow(r)) \/ PurgeDrop \/ PurgeForget \/ BootFails
  BY <1>0, <1>10 DEF PurgeRow, PurgeDrop, PurgeForget, BootFails, BootStep
<1> QED
  <2>1. \E t \in Terminal : TRUE
    BY DEF Terminal
  <2> QED
    BY <1>2, <1>3, <1>4, <1>6, <1>7, <1>8, <1>9, <1>10, <2>1 DEF Next, BootNext

LEMMA ListedInvariant == Spec => []Listed
<1>1. Init => Listed
  BY DEF Init, Listed
<1>2. IInv /\ Listed /\ [Next]_vars => Listed'
  BY ListedStep, TypeStep DEF IInv
<1> QED BY <1>1, <1>2, InductiveInvariant, PTL DEF Spec

(* A row that is queued is in the zset, or about to be put there again.     *)
Waiting ==
    \A r \in Rows : status[r] = "queued" => r \in zset \/ (boot = "reset" /\ r = pointer)

LEMMA WaitingStep ==
    ASSUME "boot_crash" \notin Faults, "boot_error" \notin Faults
    PROVE  IInv /\ TypeOK' /\ Listed /\ Waiting /\ [Next]_vars => Waiting'
<1> SUFFICES ASSUME IInv, TypeOK', Listed, Waiting, [Next]_vars PROVE Waiting'
  OBVIOUS
<1> USE DEF hash, redis, process, bounds
<1>0. TypeOK /\ NoRow \notin Rows
  BY RowsAssumption DEF IInv
<1> USE DEF TypeOK, Waiting
<1>1. ASSUME NEW r \in Rows, NEW u \in Users, PushRow(r, u) \/ FoldInto(r), Accept
      PROVE  Waiting'
  BY <1>0, <1>1 DEF PushRow, FoldInto, Accept
<1>2. ASSUME NEW r \in Rows, NEW u \in Users,
             Enqueue(r, u) \/ MergeOrEnqueue(r, u) \/ ReplaceLastOrEnqueue(r, u)
      PROVE  Waiting'
  BY <1>1, <1>2 DEF Enqueue, MergeOrEnqueue, ReplaceLastOrEnqueue
<1>3. CASE NextQueued
  <2>1. CASE DrainNothing(status)
    BY <1>0, <1>3, <2>1 DEF NextQueued, DrainNothing, UnchangedByDrain
  <2>2. ASSUME NEW n \in zset, DrainTo(status, n) PROVE Waiting'
    BY <1>0, <1>3, <2>2 DEF NextQueued, DrainTo, MarkRunning, UnchangedByDrain
  <2> QED BY <1>3, <2>1, <2>2 DEF NextQueued
<1>4. ASSUME NEW r \in Rows, NEW t \in Terminal, FinishAndDrain(r, t) PROVE Waiting'
  <2>0. /\ boot = "serving" /\ boot' = "serving"
        /\ \A q \in Rows : Finished(t)[q] = "queued" => status[q] = "queued"
    BY <1>0, <1>4 DEF FinishAndDrain, UnchangedByDrain, Finished, Terminal
  <2>1. CASE UNCHANGED <<status, zset>>
    BY <1>0, <2>0, <2>1
  <2>2. CASE DrainNothing(Finished(t))
    BY <1>0, <2>0, <2>2 DEF DrainNothing
  <2>3. ASSUME NEW n \in zset, DrainTo(Finished(t), n) PROVE Waiting'
    BY <1>0, <2>0, <2>3 DEF DrainTo, MarkRunning
  <2> QED BY <1>4, <2>1, <2>2, <2>3 DEF FinishAndDrain
<1>5. ASSUME NEW r \in Rows, NEW t \in Terminal, SetTerminal(r, t),
             held' \in {held, held \ {r}}, boot = "serving", boot' = boot
      PROVE  Waiting'
  BY <1>0, <1>5 DEF SetTerminal, Terminal
<1>6. ASSUME NEW r \in Rows, NEW t \in Terminal, MarkOwnRow(r, t) \/ Abort(r)
      PROVE  Waiting'
  <2>1. "cancelled" \in Terminal
    BY DEF Terminal
  <2> QED BY <1>5, <1>6, <2>1 DEF MarkOwnRow, Abort
<1>7. ASSUME NEW r \in Rows, Cancel(r) \/ TurnVanishes(r) \/ GrowOld(r)
      PROVE  Waiting'
  BY <1>0, <1>7 DEF Cancel, TurnVanishes, GrowOld, Terminal
<1>8. CASE \/ \E r \in Rows : HeartbeatCheck(r) \/ HeartbeatExtend(r)
           \/ Tick \/ Crash \/ ReapExpiredLeases \/ UNCHANGED vars
  BY <1>0, <1>8 DEF HeartbeatCheck, HeartbeatExtend, Tick, Crash, ReapExpiredLeases, vars
<1>9. CASE RehydrateScan \/ RehydrateAdd \/ RehydrateUnmark \/ RehydrateForget
  BY <1>0, <1>9 DEF RehydrateScan, RehydrateAdd, RehydrateUnmark, RehydrateForget, BootStep
<1>10. CASE (\E r \in Rows : PurgeRow(r)) \/ PurgeDrop \/ PurgeForget \/ BootFails
  BY <1>0, <1>10 DEF PurgeRow, PurgeDrop, PurgeForget, BootFails, BootStep, Listed
<1> QED
  <2>1. \E t \in Terminal : TRUE
    BY DEF Terminal
  <2> QED
    BY <1>2, <1>3, <1>4, <1>6, <1>7, <1>8, <1>9, <1>10, <2>1 DEF Next, BootNext

(* No accepted message is stranded, as long as every boot ran its recovery  *)
(* and purge to their end: whatever is merged, cancelled, expired, finished *)
(* late or crashed while the daemon serves, a row that is queued can be     *)
(* reached by the next dequeue and by the next boot.                        *)
THEOREM NothingIsStranded ==
    ASSUME "boot_crash" \notin Faults, "boot_error" \notin Faults
    PROVE  Spec => []QueuedIsReachable
<1>1. Init => Waiting
  BY DEF Init, Waiting
<1>2. IInv /\ Listed /\ Waiting /\ [Next]_vars => Waiting'
  BY WaitingStep, TypeStep DEF IInv
<1>3. Listed /\ Waiting => QueuedIsReachable
  BY DEF Listed, Waiting, QueuedIsReachable
<1> QED BY <1>1, <1>2, <1>3, InductiveInvariant, ListedInvariant, PTL DEF Spec
-----------------------------------------------------------------------------
(***************************************************************************)
(* Crash recovery.  With timely heartbeats the marker of a row that a live *)
(* turn runs is there, so that no dequeue forgets the session, and only    *)
(* the end of that turn moves the pointer.                                 *)
(***************************************************************************)
LEMMA RecoverableStep ==
    IInv /\ TypeOK' /\ Beating /\ Listed /\ RunningIsRecoverable /\ [Next]_vars
        => RunningIsRecoverable'
<1> SUFFICES ASSUME IInv, TypeOK', Beating, Listed, RunningIsRecoverable, [Next]_vars
             PROVE  RunningIsRecoverable'
  OBVIOUS
<1> USE DEF hash, redis, process, bounds
<1>0. TypeOK /\ HeldNotWaiting /\ NoRow \notin Rows
  BY RowsAssumption DEF IInv
<1> USE DEF TypeOK, HeldNotWaiting, Beating, RunningIsRecoverable
<1>1. ASSUME NEW r \in Rows, NEW u \in Users, PushRow(r, u) \/ FoldInto(r), Accept
      PROVE  RunningIsRecoverable'
  BY <1>0, <1>1 DEF PushRow, FoldInto, Accept
<1>2. ASSUME NEW r \in Rows, NEW u \in Users,
             Enqueue(r, u) \/ MergeOrEnqueue(r, u) \/ ReplaceLastOrEnqueue(r, u)
      PROVE  RunningIsRecoverable'
  BY <1>1, <1>2 DEF Enqueue, MergeOrEnqueue, ReplaceLastOrEnqueue
<1>3. CASE NextQueued
  <2>1. \A r \in held : status[r] # "running"
    BY <1>0, <1>3 DEF NextQueued, SlotFree
  <2>2. CASE DrainNothing(status) /\ UNCHANGED <<marker, lease, pointer, held, beat>>
    BY <1>0, <2>1, <2>2 DEF DrainNothing
  <2>3. ASSUME NEW n \in zset, DrainTo(status, n), held' = held \cup {n}
        PROVE  RunningIsRecoverable'
    BY <1>0, <2>1, <2>3 DEF Listed, DrainTo, MarkRunning, PoppedBefore
  <2> QED BY <1>3, <2>2, <2>3 DEF NextQueued
<1>4. ASSUME NEW r \in Rows, NEW t \in Terminal, FinishAndDrain(r, t)
      PROVE  RunningIsRecoverable'
  <2>0. boot = "serving" /\ boot' = "serving"
    BY <1>4 DEF FinishAndDrain, UnchangedByDrain
  <2>1. CASE held' = held \ {r} /\ UNCHANGED <<status, pointer, listed>>
    BY <1>0, <2>0, <2>1
  <2>2. ASSUME Owns(r)
        PROVE  \A q \in held \ {r} : status[q] # "running" /\ Finished(t)[q] # "running"
    BY <1>0, <2>2 DEF Owns, Finished, Terminal
  <2>3. CASE Owns(r) /\ DrainNothing(Finished(t)) /\ held' = held \ {r}
    BY <1>0, <2>2, <2>3 DEF DrainNothing
  <2>4. ASSUME Owns(r), NEW n \in zset, DrainTo(Finished(t), n),
               held' = (held \ {r}) \cup {n}
        PROVE  RunningIsRecoverable'
    BY <1>0, <2>2, <2>4 DEF Listed, DrainTo, MarkRunning, PoppedBefore
  <2> QED BY <1>4, <2>1, <2>3, <2>4 DEF FinishAndDrain
<1>5. ASSUME NEW r \in Rows, NEW t \in Terminal, SetTerminal(r, t),
             held' \in {held, held \ {r}}, boot' = boot
      PROVE  RunningIsRecoverable'
  BY <1>0, <1>5 DEF SetTerminal, Terminal
<1>6. ASSUME NEW r \in Rows, NEW t \in Terminal, MarkOwnRow(r, t) \/ Abort(r)
      PROVE  RunningIsRecoverable'
  <2>1. "cancelled" \in Terminal
    BY DEF Terminal
  <2> QED BY <1>5, <1>6, <2>1 DEF MarkOwnRow, Abort
<1>7. ASSUME NEW r \in Rows, Cancel(r) \/ TurnVanishes(r) \/ GrowOld(r)
      PROVE  RunningIsRecoverable'
  BY <1>0, <1>7 DEF Cancel, TurnVanishes, GrowOld, Terminal
<1>8. CASE \/ \E r \in Rows : HeartbeatCheck(r) \/ HeartbeatExtend(r)
           \/ Tick \/ Crash \/ ReapExpiredLeases \/ UNCHANGED vars
  BY <1>0, <1>8 DEF HeartbeatCheck, HeartbeatExtend, Tick, Crash, ReapExpiredLeases, vars
<1>9. CASE BootNext
  <2>0. held = {} /\ held' = {}
    BY <1>0, <1>9 DEF BootNext, RehydrateScan, RehydrateAdd, RehydrateUnmark,
          RehydrateForget, PurgeRow, PurgeDrop, PurgeForget, BootFails, BootStep
  <2> QED BY <2>0
<1> QED
  <2>1. \E t \in Terminal : TRUE
    BY DEF Terminal
  <2> QED
    BY <1>2, <1>3, <1>4, <1>6, <1>7, <1>8, <1>9, <2>1 DEF Next

(* A crash at any moment leaves a row that the next boot can find, whatever *)
(* vanished, was aborted, or was cut short by an earlier crash, as long as  *)
(* every live turn beats once per period.                                   *)
THEOREM CrashIsRecoverable ==
    ASSUME "late_beats" \notin Faults
    PROVE  Spec => []RunningIsRecoverable
<1>1. Init => Beating /\ RunningIsRecoverable
  BY DEF Init, Beating, RunningIsRecoverable
<1>2. IInv /\ Beating /\ [Next]_vars => Beating'
  BY BeatingStep, TypeStep DEF IInv
<1>3. IInv /\ Beating /\ Listed /\ RunningIsRecoverable /\ [Next]_vars => RunningIsRecoverable'
  BY RecoverableStep, TypeStep DEF IInv
<1> QED BY <1>1, <1>2, <1>3, InductiveInvariant, ListedInvariant, PTL DEF Spec

-----------------------------------------------------------------------------
(***************************************************************************)
(* The refinement of SessionFifo.  The line of the queued rows exists in   *)
(* every reachable state, because every step makes the next one from it; a *)
(* marker always names a running row, except while a boot re-queues it.    *)
(***************************************************************************)
InLine == ByScore(ByPosition, Queued, position)

MarkerRuns ==
    /\ marker # NoRow =>
           /\ pointer = marker
           /\ status[marker] = "running" \/ boot \in {"reset", "readded"}
    /\ boot = "unmarked" => marker = NoRow

LEMMA MarkerStep ==
    ASSUME "boot_crash" \notin Faults, "boot_error" \notin Faults
    PROVE  IInv /\ TypeOK' /\ Clean /\ MarkerRuns /\ [Next]_vars => MarkerRuns'
<1> SUFFICES ASSUME IInv, TypeOK', Clean, MarkerRuns, [Next]_vars PROVE MarkerRuns'
  OBVIOUS
<1> USE DEF hash, redis, process, bounds
<1>0. TypeOK /\ HeldNotWaiting /\ ZsetIdle /\ NoRow \notin Rows
  BY RowsAssumption DEF IInv, Ordered
<1> USE DEF TypeOK, MarkerRuns
<1>1. ASSUME NEW r \in Rows, NEW u \in Users, PushRow(r, u) \/ FoldInto(r), Accept
      PROVE  MarkerRuns'
  BY <1>0, <1>1 DEF PushRow, FoldInto, Accept
<1>2. ASSUME NEW r \in Rows, NEW u \in Users,
             Enqueue(r, u) \/ MergeOrEnqueue(r, u) \/ ReplaceLastOrEnqueue(r, u)
      PROVE  MarkerRuns'
  BY <1>1, <1>2 DEF Enqueue, MergeOrEnqueue, ReplaceLastOrEnqueue
<1>3. CASE NextQueued
  <2>1. CASE DrainNothing(status) /\ UNCHANGED <<marker, lease, pointer, held, beat>>
    BY <1>0, <1>3, <2>1 DEF NextQueued, SlotFree
  <2>2. ASSUME NEW n \in zset, DrainTo(status, n) PROVE MarkerRuns'
    BY <1>0, <1>3, <2>2 DEF NextQueued, DrainTo, MarkRunning, UnchangedByDrain
  <2> QED BY <1>3, <2>1, <2>2 DEF NextQueued
<1>4. ASSUME NEW r \in Rows, NEW t \in Terminal, FinishAndDrain(r, t)
      PROVE  MarkerRuns'
  <2>0. boot = "serving" /\ boot' = "serving"
    BY <1>4 DEF FinishAndDrain, UnchangedByDrain
  <2>1. CASE UNCHANGED <<status, marker, pointer>>
    BY <1>0, <2>0, <2>1
  <2>2. CASE marker' = NoRow
    BY <1>0, <2>0, <2>2
  <2>3. ASSUME NEW n \in zset, DrainTo(Finished(t), n) PROVE MarkerRuns'
    BY <1>0, <2>0, <2>3 DEF DrainTo, MarkRunning
  <2> QED BY <1>4, <2>1, <2>2, <2>3 DEF FinishAndDrain
<1>5. ASSUME NEW r \in Rows, NEW t \in Terminal, SetTerminal(r, t), boot' = boot
      PROVE  MarkerRuns'
  BY <1>0, <1>5 DEF SetTerminal
<1>6. ASSUME NEW r \in Rows, NEW t \in Terminal, MarkOwnRow(r, t) \/ Abort(r)
      PROVE  MarkerRuns'
  <2>1. "cancelled" \in Terminal
    BY DEF Terminal
  <2> QED BY <1>5, <1>6, <2>1 DEF MarkOwnRow, Abort
<1>7. ASSUME NEW r \in Rows, Cancel(r) PROVE MarkerRuns'
  <2>1. status[r] = "queued" /\ boot = "serving"
    BY <1>7 DEF Clean, Cancel
  <2> QED BY <1>0, <1>7, <2>1 DEF Cancel
<1>8. ASSUME NEW r \in Rows,
             \/ TurnVanishes(r) \/ GrowOld(r)
             \/ HeartbeatCheck(r) \/ HeartbeatExtend(r)
      PROVE  MarkerRuns'
  BY <1>0, <1>8 DEF TurnVanishes, GrowOld, HeartbeatCheck, HeartbeatExtend
<1>9. CASE Tick \/ ReapExpiredLeases \/ UNCHANGED vars
  BY <1>0, <1>9 DEF Tick, ReapExpiredLeases, vars
<1>10. CASE Crash
  BY <1>0, <1>10 DEF Crash
<1>11. CASE RehydrateScan
  BY <1>0, <1>11 DEF RehydrateScan, BootStep, Running
<1>12. CASE RehydrateAdd \/ RehydrateUnmark \/ RehydrateForget
  BY <1>0, <1>12 DEF RehydrateAdd, RehydrateUnmark, RehydrateForget, BootStep
<1>13. CASE (\E r \in Rows : PurgeRow(r)) \/ PurgeDrop \/ PurgeForget \/ BootFails
  BY <1>0, <1>13 DEF PurgeRow, PurgeDrop, PurgeForget, BootFails, BootStep, ZsetIdle
<1> QED
  <2>1. \E t \in Terminal : TRUE
    BY DEF Terminal
  <2> QED
    BY <1>2, <1>3, <1>4, <1>6, <1>7, <1>8, <1>9, <1>10, <1>11, <1>12, <1>13, <2>1
       DEF Next, BootNext

(* The names of Lines in the instance are those of this module.             *)
LEMMA SameLines ==
    ASSUME NEW s, NEW S
    PROVE  Fifo!Without(s, S) = Without(s, S) /\ Fifo!ToSet(s) = ToSet(s)
BY DEF Fifo!Without, Without, Fifo!ToSet, ToSet

(* Rows end, waiting or running: those that waited leave the line.          *)
LEMMA RowsEnd ==
    ASSUME TypeOK, TypeOK', InLine, NEW S \in SUBSET Rows, S # {},
           S \subseteq Queued \cup Running, position' = position,
           \A q \in Rows : IF q \in S THEN status'[q] \in Terminal ELSE status'[q] = status[q],
           marker' \in {NoRow, marker}, marker' \notin S
    PROVE  Fifo!Next /\ InLine'
<1> USE DEF TypeOK, Queued, Running, Over, Terminal
<1>1. Queued' = Queued \ S /\ Running' = Running \ S /\ Over' = Over \cup S
  OBVIOUS
<1>2. ByScore(Without(ByPosition, S), Queued', position')
  BY <1>1, ByScoreWithout DEF InLine
<1>3. ByPosition' = Without(ByPosition, S)
  BY <1>2, ArrangedIs DEF ByPosition
<1>4. InLine'
  BY <1>2, <1>3 DEF InLine
<1>5. ToSet(ByPosition) = Queued
  BY DEF InLine, ByScore
<1>6. Fifo!End(S)
  BY <1>1, <1>3, <1>5, SameLines DEF Fifo!End, Fifo!Waiting
<1> QED BY <1>4, <1>6 DEF Fifo!Next

(* The drain serves the first row that is not expired.  fin are the rows it *)
(* finishes: none, or the one that holds the marker.                        *)
LEMMA DrainServes ==
    ASSUME TypeOK, TypeOK', InLine, Positioned, Queued = zset,
           NEW base \in [Rows -> Status], NEW fin \in SUBSET Running,
           marker \in fin \cup {NoRow},
           \A q \in Rows : IF q \in fin THEN base[q] \in Terminal ELSE base[q] = status[q],
           NEW n \in zset, DrainTo(base, n), position' = position
    PROVE  Fifo!Next /\ InLine'
<1> USE DEF TypeOK
<1>0. /\ Queued \subseteq Rows /\ n \in Queued /\ n \in Rows
      /\ \A q \in Queued : status[q] = "queued"
      /\ \A q \in Running : status[q] = "running"
  BY DEF Queued, Running
<1>1. PICK k : StandsAt(k, n, ByPosition, Queued, position)
  <2>1. ByScore(ByPosition, Queued, position)
    BY DEF InLine
  <2> QED BY ONLY <1>0, <2>1, ByScoreUpTo
<1> DEFINE ahead == Below(Queued, position, n)
           gone == UpTo(Queued, position, n)
<1>2. gone = ahead \cup {n}
  <2>1. \A q \in Queued : position[q] = position[n] => q = n
    BY <1>0 DEF Positioned
  <2>2. \A q \in Queued : position[q] \in Nat /\ position[n] \in Nat
    BY <1>0
  <2>3. \A q \in Queued : position[q] <= position[n] <=> position[q] < position[n] \/ q = n
    BY ONLY <2>1, <2>2
  <2> QED BY ONLY <1>0, <2>3 DEF Below, UpTo
<1>3. PoppedBefore(n) = ahead
  <2>1. \A q \in Live : position[n] <= position[q] /\ position[q] \in Nat /\ position[n] \in Nat
    BY <1>0 DEF DrainTo, Lowest, Live
  <2>2. \A q \in zset : position[q] < position[n] => q \notin Live
    BY ONLY <2>1
  <2>3. PoppedBefore(n) = {q \in zset : position[q] < position[n]}
    BY ONLY <2>2 DEF PoppedBefore
  <2> QED BY ONLY <2>3, Queued = zset DEF Below
<1>4. \A q \in Rows : status'[q] = IF q = n THEN "running"
                                  ELSE IF q \in ahead THEN "failed" ELSE base[q]
  BY <1>3 DEF DrainTo
<1>5. n \notin ahead /\ n \notin fin /\ ahead \cap fin = {}
  <2>1. position[n] \in Nat /\ \A q \in Queued : q \notin Running
    BY <1>0 DEF Queued, Running
  <2> QED BY ONLY <1>0, <2>1, fin \subseteq Running DEF Below
<1> HIDE DEF ahead, gone
<1>6. ahead \subseteq Queued
  BY DEF ahead, Below
<1>7. \A q \in Rows : /\ q \in fin => status'[q] \in Terminal
                      /\ q \in ahead => status'[q] = "failed"
                      /\ q \notin fin \cup ahead \cup {n} => status'[q] = status[q]
  BY <1>0, <1>4, <1>5, <1>6
<1>8. status'[n] = "running"
  BY <1>0, <1>4
<1>9. Queued' = Queued \ gone
  BY <1>0, <1>2, <1>7, <1>8 DEF Queued, Running, Terminal
<1>10. Running' = (Running \ fin) \cup {n}
  BY <1>0, <1>6, <1>7, <1>8 DEF Running, Terminal
<1>11. Over' = Over \cup fin \cup ahead
  BY <1>0, <1>6, <1>7, <1>8 DEF Over, Running, Terminal
<1>12. ByScore(Without(ByPosition, gone), Queued', position')
  BY <1>9, ByScoreWithout DEF InLine
<1>13. ByPosition' = Without(ByPosition, gone)
  BY <1>12, ArrangedIs DEF ByPosition
<1>14. InLine'
  BY <1>12, <1>13 DEF InLine
<1>15. marker' = n
  BY DEF DrainTo, MarkRunning
<1>16. Fifo!Serve(k, fin)
  <2>1. /\ k \in 1..Len(ByPosition) /\ ByPosition[k] = n
        /\ {ByPosition[i] : i \in 1..(k - 1)} = ahead
        /\ Without(ByPosition, gone) = SubSeq(ByPosition, k + 1, Len(ByPosition))
    BY <1>1 DEF StandsAt, ahead, gone
  <2> QED BY <1>10, <1>11, <1>13, <1>15, <2>1 DEF Fifo!Serve
<1>17. k \in 1..Len(ByPosition)
  BY <1>1 DEF StandsAt
<1>18. \E j \in 1..Len(ByPosition), S \in SUBSET Running : Fifo!Serve(j, S)
  BY ONLY <1>16, <1>17, fin \in SUBSET Running
<1> QED BY <1>14, <1>18 DEF Fifo!Next

(* Nothing of what the abstract FIFO sees changes, or only the slot is      *)
(* freed.                                                                   *)
LEMMA SlotLapses ==
    ASSUME InLine, UNCHANGED <<status, position>>, marker' \in {NoRow, marker}
    PROVE  [Fifo!Next]_(Fifo!fifo) /\ InLine'
<1>1. UNCHANGED <<Queued, Running, Over>>
  BY DEF Queued, Running, Over
<1>2. ByPosition' = ByPosition
  BY <1>1 DEF ByPosition
<1>3. InLine'
  BY <1>1, <1>2 DEF InLine
<1>4. CASE marker' = marker
  BY <1>1, <1>2, <1>3, <1>4 DEF Fifo!fifo
<1>5. CASE marker' # marker
  <2>1. Fifo!Lapse
    BY <1>1, <1>2, <1>5 DEF Fifo!Lapse
  <2> QED BY <1>3, <2>1 DEF Fifo!Next
<1> QED BY <1>4, <1>5

(* A new row joins the line: its position is larger than every other one.   *)
LEMMA PushJoins ==
    ASSUME TypeOK, TypeOK', InLine, Positioned, NEW r \in Rows, NEW u \in Users, PushRow(r, u)
    PROVE  Fifo!Next /\ InLine'
<1> USE DEF TypeOK
<1>0. /\ status[r] = "absent" /\ status' = [status EXCEPT ![r] = "queued"]
      /\ position' = [position EXCEPT ![r] = counter + 1] /\ marker' = marker
  BY DEF PushRow
<1>1. /\ Queued' = Queued \cup {r} /\ Running' = Running /\ Over' = Over
      /\ r \notin Queued \cup Running \cup Over /\ Queued \subseteq Rows
  BY <1>0 DEF Queued, Running, Over, Terminal
<1>2. /\ position'[r] = counter + 1
      /\ \A q \in Queued : position'[q] = position[q] /\ position[q] \in 1..counter
  <2>1. \A q \in Queued : q \in Rows /\ status[q] # "absent"
    BY DEF Queued
  <2> QED BY <1>0, <1>1, <2>1 DEF Positioned
<1>3. ByScore(ByPosition, Queued, position')
  BY <1>2, ByScoreSame DEF InLine
<1>4. /\ position'[r] \in Int /\ \A q \in Queued : position'[q] < position'[r]
  BY <1>2
<1>5. ByScore(Append(ByPosition, r), Queued', position')
  BY <1>1, <1>3, <1>4, ByScoreJoin
<1>6. ByPosition' = Append(ByPosition, r)
  BY <1>5, ArrangedIs DEF ByPosition
<1>7. InLine'
  BY <1>5, <1>6 DEF InLine
<1>8. ToSet(ByPosition) = Queued
  BY DEF InLine, ByScore
<1>9. Fifo!Join(r)
  BY <1>0, <1>1, <1>6, <1>8, SameLines DEF Fifo!Join, Fifo!Waiting
<1> QED BY <1>7, <1>9 DEF Fifo!Next

(* The row that a boot re-queues goes back to the front of the line.        *)
LEMMA ResetRejoins ==
    ASSUME TypeOK, TypeOK', InLine, Queued \subseteq zset, OutFirst, ZsetIdle,
           pointer \in Running, status' = [status EXCEPT ![pointer] = "queued"],
           position' = position, marker' = marker
    PROVE  Fifo!Next /\ InLine'
<1> USE DEF TypeOK
<1>1. /\ pointer \in Rows /\ status[pointer] = "running"
      /\ Queued' = Queued \cup {pointer} /\ Running' = Running \ {pointer} /\ Over' = Over
  BY DEF Queued, Running, Over, Terminal
<1>2. \A q \in Queued : position[pointer] < position[q]
  <2>1. pointer \in Out
    BY <1>1 DEF Out, Active, ZsetIdle
  <2> QED BY <2>1 DEF OutFirst
<1>3. ByScore(<<pointer>> \o ByPosition, Queued', position')
  <2>1. position[pointer] \in Int
    BY <1>1
  <2> QED BY <1>1, <1>2, <2>1, ByScoreRejoin DEF InLine
<1>4. ByPosition' = <<pointer>> \o ByPosition
  BY <1>3, ArrangedIs DEF ByPosition
<1>5. InLine'
  BY <1>3, <1>4 DEF InLine
<1>6. Fifo!Rejoin(pointer)
  BY <1>1, <1>4 DEF Fifo!Rejoin
<1> QED BY <1>1, <1>5, <1>6 DEF Fifo!Next

(* One row ends that was waiting or running.                                *)
LEMMA OneRowEnds ==
    ASSUME TypeOK, TypeOK', InLine, NEW r \in Rows, NEW t \in Terminal,
           r \in Queued \cup Running, status' = [status EXCEPT ![r] = t],
           position' = position, marker' \in {NoRow, marker}, marker' # r
    PROVE  Fifo!Next /\ InLine'
<1>1. \A q \in Rows : IF q \in {r} THEN status'[q] \in Terminal ELSE status'[q] = status[q]
  BY DEF TypeOK
<1>2. {r} \in SUBSET Rows /\ {r} # {} /\ {r} \subseteq Queued \cup Running /\ marker' \notin {r}
  OBVIOUS
<1> QED BY <1>1, <1>2, RowsEnd

(* Everything in the zset ends, with the row that the drain finishes.       *)
LEMMA DrainEnds ==
    ASSUME TypeOK, TypeOK', InLine, Queued = zset,
           NEW base \in [Rows -> Status], NEW fin \in SUBSET Running,
           marker \in fin \cup {NoRow}, marker' = NoRow,
           \A q \in Rows : IF q \in fin THEN base[q] \in Terminal ELSE base[q] = status[q],
           DrainNothing(base), position' = position
    PROVE  [Fifo!Next]_(Fifo!fifo) /\ InLine'
<1> DEFINE S == zset \cup fin
<1>1. /\ S \in SUBSET Rows /\ S \subseteq Queued \cup Running /\ NoRow \notin S
      /\ fin \cap zset = {}
  BY RowsAssumption DEF TypeOK, Queued, Running
<1>2. \A q \in Rows : IF q \in S THEN status'[q] \in Terminal ELSE status'[q] = status[q]
  <2>1. \A q \in Rows : status'[q] = IF q \in zset THEN "failed" ELSE base[q]
    BY DEF DrainNothing
  <2>2. "failed" \in Terminal
    BY DEF Terminal
  <2> QED BY ONLY <1>1, <2>1, <2>2,
             \A q \in Rows : IF q \in fin THEN base[q] \in Terminal ELSE base[q] = status[q]
<1>3. CASE S = {}
  <2>1. \A q \in Rows : status'[q] = status[q]
    BY <1>2, <1>3
  <2>2. status' = status
    BY <2>1 DEF TypeOK
  <2>3. marker' = marker
    BY <1>3
  <2> QED BY <2>2, <2>3, SlotLapses
<1>4. CASE S # {}
  <2> HIDE DEF S
  <2> QED BY <1>1, <1>2, <1>4, RowsEnd
<1> QED BY <1>3, <1>4

(* Every step is a step of the abstract FIFO, or changes nothing it sees,   *)
(* and the line goes on.                                                    *)
LEMMA FifoStep ==
    ASSUME "boot_crash" \notin Faults, "boot_error" \notin Faults
    PROVE  IInv /\ IInv' /\ Clean /\ Waiting /\ MarkerRuns /\ InLine /\ [Next]_vars
               => [Fifo!Next]_(Fifo!fifo) /\ InLine'
<1> DEFINE Goal == [Fifo!Next]_(Fifo!fifo) /\ InLine'
<1> SUFFICES ASSUME IInv, IInv', Clean, Waiting, MarkerRuns, InLine, [Next]_vars PROVE Goal
  OBVIOUS
<1> USE DEF hash, redis, process, bounds
<1>0. /\ TypeOK /\ TypeOK' /\ HeldNotWaiting /\ ZsetIdle /\ OutFirst /\ Positioned /\ BootPointer
      /\ NoRow \notin Rows /\ "cancelled" \in Terminal
  BY RowsAssumption DEF IInv, Ordered, Terminal
<1>a. ASSUME UNCHANGED <<status, position>>, marker' \in {NoRow, marker} PROVE Goal
  BY <1>a, SlotLapses
<1>b. boot = "serving" => Queued = zset
  BY <1>0 DEF TypeOK, Clean, Waiting, Queued
<1>c. ASSUME boot = "serving", NEW r \in held
      PROVE  r \in Rows /\ (status[r] = "running" \/ status[r] \in Terminal)
  BY <1>0, <1>c DEF HeldNotWaiting, TypeOK, Status
<1> HIDE DEF Goal
<1>1. ASSUME NEW r \in Rows, NEW u \in Users, PushRow(r, u) PROVE Goal
  BY <1>0, <1>1, PushJoins DEF Goal
<1>2. ASSUME NEW r \in Rows, FoldInto(r) PROVE Goal
  BY <1>2, <1>a DEF FoldInto
<1>3. CASE NextQueued
  <2>1. /\ boot = "serving" /\ marker = NoRow /\ position' = position
        /\ Queued = zset /\ status \in [Rows -> Status] /\ {} \in SUBSET Running
        /\ \A q \in Rows : IF q \in {} THEN status[q] \in Terminal ELSE status[q] = status[q]
    BY <1>0, <1>3, <1>b DEF NextQueued, SlotFree, UnchangedByDrain, TypeOK
  <2>2. CASE DrainNothing(status) /\ UNCHANGED marker
    BY <1>0, <2>1, <2>2, DrainEnds DEF Goal
  <2>3. ASSUME NEW n \in zset, DrainTo(status, n) PROVE Goal
    BY <1>0, <2>1, <2>3, DrainServes DEF Goal
  <2> QED BY <1>3, <2>2, <2>3 DEF NextQueued
<1>4. ASSUME NEW r \in Rows, NEW t \in Terminal, FinishAndDrain(r, t) PROVE Goal
  <2>0. boot = "serving" /\ r \in held /\ position' = position /\ Queued = zset
    BY <1>4, <1>b DEF FinishAndDrain, UnchangedByDrain
  <2>1. CASE UNCHANGED <<status, marker>>
    BY <2>0, <2>1, <1>a
  <2> DEFINE fin == {marker} \ {NoRow}
             base == Finished(t)
  <2>2. /\ base \in [Rows -> Status] /\ fin \in SUBSET Running /\ marker \in fin \cup {NoRow}
        /\ \A q \in Rows : IF q \in fin THEN base[q] \in Terminal ELSE base[q] = status[q]
    <3>0. t \in Status /\ status \in [Rows -> Status] /\ marker \in Rows \cup {NoRow}
      BY <1>0 DEF TypeOK, Status
    <3>1. CASE marker = NoRow
      BY <3>0, <3>1, <1>0 DEF Finished
    <3>2. CASE marker # NoRow
      <4>1. marker \in Rows /\ status[marker] = "running"
        BY <2>0, <3>0, <3>2 DEF MarkerRuns
      <4>2. base = [status EXCEPT ![marker] = t]
        BY <3>2, <4>1 DEF Finished, Terminal
      <4> QED BY <3>0, <3>2, <4>1, <4>2 DEF Running
    <3> QED BY <3>1, <3>2
  <2> HIDE DEF fin, base
  <2>3. CASE DrainNothing(base) /\ marker' = NoRow
    BY <1>0, <2>0, <2>2, <2>3, DrainEnds DEF Goal
  <2>4. ASSUME NEW n \in zset, DrainTo(base, n) PROVE Goal
    BY <1>0, <2>0, <2>2, <2>4, DrainServes DEF Goal
  <2> QED BY <1>4, <2>1, <2>3, <2>4 DEF FinishAndDrain, base
<1>5. ASSUME NEW r \in Rows, NEW t \in Terminal, SetTerminal(r, t), status[r] = "running"
      PROVE  Goal
  <2>1. r \in Queued \cup Running
    BY <1>5 DEF Running
  <2>2. /\ status' = [status EXCEPT ![r] = t] /\ position' = position
        /\ marker' \in {NoRow, marker} /\ marker' # r
    BY <1>0, <1>5 DEF SetTerminal
  <2> QED BY <1>0, <2>1, <2>2, OneRowEnds DEF Goal
<1>6. ASSUME NEW r \in Rows, NEW t \in Terminal, MarkOwnRow(r, t) PROVE Goal
  <2>1. SetTerminal(r, t) /\ status[r] = "running"
    BY <1>6, <1>c DEF MarkOwnRow, SetTerminal
  <2> QED BY <1>5, <2>1
<1>7. ASSUME NEW r \in Rows, Abort(r) PROVE Goal
  BY <1>0, <1>5, <1>7 DEF Abort
<1>8. ASSUME NEW r \in Rows, Cancel(r) PROVE Goal
  <2>1. boot = "serving" /\ status[r] = "queued"
    BY <1>8 DEF Cancel, Clean
  <2>2. /\ status' = [status EXCEPT ![r] = "cancelled"] /\ position' = position
        /\ marker' = marker
    BY <1>8, <2>1 DEF Cancel, Terminal
  <2>3. marker # r
    BY <1>0, <2>1 DEF MarkerRuns
  <2>4. r \in Queued \cup Running
    BY <2>1 DEF Queued
  <2> QED BY <1>0, <2>2, <2>3, <2>4, OneRowEnds DEF Goal
<1>9. ASSUME NEW r \in Rows,
             \/ TurnVanishes(r) \/ GrowOld(r)
             \/ HeartbeatCheck(r) \/ HeartbeatExtend(r)
      PROVE  Goal
  BY <1>a, <1>9 DEF TurnVanishes, GrowOld, HeartbeatCheck, HeartbeatExtend
<1>10. CASE Tick \/ Crash \/ ReapExpiredLeases \/ UNCHANGED vars
  BY <1>a, <1>10 DEF Tick, Crash, ReapExpiredLeases, vars
<1>11. CASE RehydrateScan
  <2>1. CASE UNCHANGED status
    BY <1>a, <1>11, <2>1 DEF RehydrateScan, BootStep
  <2>2. CASE /\ pointer \in Running
             /\ status' = [status EXCEPT ![pointer] = "queued"]
             /\ UNCHANGED <<marker, pointer>>
    <3>1. boot = "scan" /\ position' = position /\ marker' = marker
      BY <1>11, <2>2 DEF RehydrateScan, BootStep
    <3>2. Queued \subseteq zset
      BY <3>1 DEF Waiting, Queued
    <3> QED BY <1>0, <2>2, <3>1, <3>2, ResetRejoins DEF Goal
  <2> QED BY <1>11, <2>1, <2>2 DEF RehydrateScan
<1>12. CASE RehydrateAdd \/ RehydrateUnmark \/ RehydrateForget \/ PurgeDrop \/ PurgeForget \/ BootFails
  BY <1>a, <1>12 DEF RehydrateAdd, RehydrateUnmark, RehydrateForget, PurgeDrop, PurgeForget,
                     BootFails, BootStep
<1>13. ASSUME NEW r \in Rows, PurgeRow(r) PROVE Goal
  <2>1. /\ boot = "purge" /\ status[r] \in {"queued", "cancelled"}
        /\ status' = [status EXCEPT ![r] = "cancelled"] /\ position' = position
        /\ marker' = marker
    BY <1>0, <1>13 DEF PurgeRow, BootStep, ZsetIdle
  <2>2. CASE status[r] = "cancelled"
    <3>1. status' = status
      BY <1>0, <2>1, <2>2 DEF TypeOK
    <3> QED BY <1>a, <2>1, <3>1
  <2>3. CASE status[r] = "queued"
    <3>1. marker # r
      BY <1>0, <2>1, <2>3 DEF MarkerRuns
    <3>2. r \in Queued \cup Running
      BY <2>3 DEF Queued
    <3> QED BY <1>0, <2>1, <3>1, <3>2, OneRowEnds DEF Goal
  <2> QED BY <2>1, <2>2, <2>3
<1>14. CASE Next
  BY <1>0, <1>1, <1>2, <1>3, <1>4, <1>6, <1>7, <1>8, <1>9, <1>10, <1>11, <1>12, <1>13, <1>14
     DEF Next, BootNext, Enqueue, MergeOrEnqueue, ReplaceLastOrEnqueue
<1> QED BY <1>10, <1>14 DEF Goal

(* Every behaviour of the Redis queue is one of the abstract FIFO, whatever *)
(* heartbeats are late, turns vanish, rows expire, are aborted or cancelled *)
(* and daemons crash while they serve, as long as every boot ran its steps  *)
(* to their end.                                                            *)
THEOREM RedisQueueIsFifo ==
    ASSUME "boot_crash" \notin Faults, "boot_error" \notin Faults
    PROVE  Spec => ImplementsSessionFifo
<1>1. Init => Waiting /\ MarkerRuns /\ InLine /\ Fifo!Init
  <2> SUFFICES ASSUME Init PROVE Waiting /\ MarkerRuns /\ InLine /\ Fifo!Init
    OBVIOUS
  <2>1. Queued = {} /\ Running = {} /\ Over = {}
    BY DEF Init, Queued, Running, Over, Terminal
  <2>2. ByScore(<<>>, Queued, position)
    BY <2>1, ByScoreEmpty
  <2>3. ByPosition = <<>>
    BY <2>2, ArrangedIs DEF ByPosition
  <2>4. InLine
    BY <2>2, <2>3 DEF InLine
  <2>5. Waiting /\ MarkerRuns
    BY DEF Init, Waiting, MarkerRuns
  <2>6. marker = NoRow
    BY DEF Init
  <2> QED BY <2>1, <2>3, <2>4, <2>5, <2>6 DEF Fifo!Init
<1>2. Spec => []Waiting
  <2>1. Init => Waiting
    BY <1>1
  <2>2. IInv /\ IInv' /\ Listed /\ Waiting /\ [Next]_vars => Waiting'
    BY WaitingStep DEF IInv
  <2> QED BY <2>1, <2>2, InductiveInvariant, ListedInvariant, PTL DEF Spec
<1>3. Spec => []MarkerRuns
  <2>1. Init => MarkerRuns
    BY <1>1
  <2>2. IInv /\ IInv' /\ Clean /\ MarkerRuns /\ [Next]_vars => MarkerRuns'
    BY MarkerStep DEF IInv
  <2>3. Spec => []Clean
    BY CleanInvariant
  <2> QED BY <2>1, <2>2, <2>3, InductiveInvariant, PTL DEF Spec
<1>4. Spec => [](IInv /\ Clean /\ Waiting /\ MarkerRuns)
  <2>1. Spec => []Clean
    BY CleanInvariant
  <2> QED BY <1>2, <1>3, <2>1, InductiveInvariant, PTL
<1>5. Init => InLine /\ Fifo!Init
  BY <1>1
<1>6. IInv /\ IInv' /\ Clean /\ Waiting /\ MarkerRuns /\ InLine /\ [Next]_vars
          => [Fifo!Next]_(Fifo!fifo) /\ InLine'
  BY FifoStep
<1> QED BY <1>4, <1>5, <1>6, PTL DEF Spec, ImplementsSessionFifo, Fifo!Spec
=============================================================================
