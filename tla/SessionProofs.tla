--------------------------- MODULE SessionProofs ---------------------------
(***************************************************************************)
(* Theorems about a session: first the dispatcher of its turns, for every  *)
(* set of messages, every cap, every combination of modes and mishaps, and *)
(* both backends, with what it asks of its queue; then its log, for every  *)
(* number of calls, of crashes and of failures.                            *)
(***************************************************************************)
EXTENDS TurnDispatch, SessionLogMC, LinesProofs

(* The queue, whatever is asked of it: a row is in one place only, and the  *)
(* slot is held by a row whose turn is not known to be over.                *)
OnePlace ==
    /\ line \in Seq(Messages) /\ IsInjective(line)
    /\ working \in SUBSET Messages /\ over \in SUBSET Messages
    /\ slot \in Messages \cup {NoRow}
    /\ ToSet(line) \cap working = {} /\ ToSet(line) \cap over = {} /\ working \cap over = {}
    /\ slot # NoRow => slot \in working

(* The operators of the queue, instantiated, are those of Lines.            *)
LEMMA SameLines ==
    /\ \A s, S : Queue!Without(s, S) = Without(s, S)
    /\ \A s : Queue!ToSet(s) = ToSet(s)
    /\ Queue!Waiting = ToSet(line)
BY DEF Queue!Without, Without, Queue!ToSet, ToSet, Queue!Waiting

(* What the calls of the queue do to rows that are in one place.            *)
LEMMA Joins ==
    ASSUME OnePlace, NEW p \in Messages, Queue!Join(p)
    PROVE  /\ OnePlace' /\ p \notin ToSet(line) \cup working \cup over
           /\ ToSet(line') = ToSet(line) \cup {p}
           /\ UNCHANGED <<working, slot, over>>
<1>1. /\ p \notin ToSet(line) \cup working \cup over /\ line' = Append(line, p)
      /\ UNCHANGED <<working, slot, over>>
  BY SameLines DEF Queue!Join
<1>2. line' \in Seq(Messages) /\ ToSet(line') = ToSet(line) \cup {p} /\ IsInjective(line')
  BY <1>1, JoinLine DEF OnePlace
<1> QED BY <1>1, <1>2 DEF OnePlace

(* The head of the line gets the slot.                                      *)
LEMMA Pops ==
    ASSUME OnePlace, NEW fin, Queue!Serve(1, fin)
    PROVE  /\ OnePlace' /\ line # <<>>
           /\ Head(line) \in Messages /\ Head(line) \in ToSet(line)
           /\ Head(line) \notin working \cup over
           /\ slot \in fin \cup {NoRow} /\ fin \subseteq working
           /\ ToSet(line') = ToSet(line) \ {Head(line)}
           /\ working' = (working \ fin) \cup {Head(line)}
           /\ over' = over \cup fin /\ slot' = Head(line)
<1>0. line \in Seq(Messages) /\ Len(line) \in Nat
  BY LenProperties DEF OnePlace
<1>1. /\ slot \in fin \cup {NoRow} /\ fin \subseteq working /\ 1 \in 1..Len(line)
      /\ over' = over \cup fin \cup {line[i] : i \in 1..(1 - 1)}
      /\ line' = SubSeq(line, 1 + 1, Len(line))
      /\ working' = (working \ fin) \cup {line[1]} /\ slot' = line[1]
  BY DEF Queue!Serve
<1>2. line # <<>> /\ Head(line) = line[1]
  <2>1. line # <<>>
    BY <1>1, EmptySeq
  <2> QED BY <1>0, <2>1
<1>3. over' = over \cup fin
  BY <1>1
<1>4. line' = Tail(line)
  <2>1. line = SubSeq(line, 0 + 1, Len(line))
    BY <1>0, SubSeqFull
  <2>2. 0 \in 0..Len(line) /\ 0 + 2 = 2 /\ 1 + 1 = 2
    BY <1>0
  <2>3. Tail(line) = SubSeq(line, 0 + 2, Len(line))
    BY <1>0, <1>2, <2>1, <2>2, NextInLine
  <2> QED BY <1>1, <2>2, <2>3
<1>5. /\ Head(line) \in Messages /\ Head(line) \in ToSet(line)
      /\ line' \in Seq(Messages) /\ IsInjective(line')
      /\ ToSet(line') = ToSet(line) \ {Head(line)}
  BY <1>0, <1>2, <1>4, LeaveLine DEF OnePlace
<1>6. Head(line) \notin working \cup over
  BY <1>5 DEF OnePlace
<1>7. OnePlace'
  <2> DEFINE h == Head(line)
  <2> HIDE DEF h
  <2>1. working' = (working \ fin) \cup {h} /\ over' = over \cup fin /\ slot' = h
    BY <1>1, <1>2, <1>3 DEF h
  <2>2. /\ h \in Messages /\ h \notin working \cup over
        /\ line' \in Seq(Messages) /\ IsInjective(line')
        /\ ToSet(line') = ToSet(line) \ {h}
    BY <1>5, <1>6 DEF h
  <2> QED BY <1>1, <2>1, <2>2 DEF OnePlace
<1> QED BY <1>1, <1>2, <1>3, <1>5, <1>6, <1>7

(* Rows end, and the slot is freed when its holder is among them.           *)
LEMMA Ends ==
    ASSUME OnePlace, NEW S, Ended(S)
    PROVE  /\ OnePlace' /\ S \subseteq ToSet(line) \cup working
           /\ ToSet(line') = ToSet(line) \ S /\ working' = working \ S /\ over' = over \cup S
           /\ slot' = IF slot \in S THEN NoRow ELSE slot
<1>1. /\ S \subseteq ToSet(line) \cup working /\ line' = Without(line, S)
      /\ working' = working \ S /\ over' = over \cup S
      /\ slot' = IF slot \in S THEN NoRow ELSE slot
  BY SameLines DEF Ended, Queue!End
<1>2. line' \in Seq(Messages) /\ ToSet(line') = ToSet(line) \ S /\ IsInjective(line')
  BY <1>1, WithoutType DEF OnePlace
<1>3. ToSet(line) \subseteq Messages
  <2>1. line \in Seq(Messages)
    BY DEF OnePlace
  <2> QED BY <2>1, LenProperties, ElementOfSeq DEF ToSet
<1> QED BY <1>1, <1>2, <1>3 DEF OnePlace

(* The slot is free again although its row is not over.                     *)
LEMMA Lapses ==
    ASSUME OnePlace, slot # NoRow, Queue!Lapse \/ (Queue!Rejoin(slot) /\ slot' = NoRow)
    PROVE  /\ OnePlace' /\ slot' = NoRow /\ slot \in working /\ over' = over
           /\ working' \subseteq working /\ ToSet(line) \subseteq ToSet(line')
           /\ ToSet(line') \cup working' = ToSet(line) \cup working
<1>1. CASE Queue!Lapse
  BY <1>1 DEF Queue!Lapse, OnePlace
<1>2. CASE Queue!Rejoin(slot) /\ slot' = NoRow
  <2>1. /\ slot \in working /\ line' = <<slot>> \o line /\ working' = working \ {slot}
        /\ over' = over /\ slot' = NoRow /\ slot \in Messages
    BY <1>2 DEF Queue!Rejoin, OnePlace
  <2>2. line' \in Seq(Messages) /\ ToSet(line') = ToSet(line) \cup {slot} /\ IsInjective(line')
    BY <2>1, RejoinLine DEF OnePlace
  <2> QED BY <2>1, <2>2 DEF OnePlace
<1> QED BY <1>1, <1>2

-----------------------------------------------------------------------------
(* Types.                                                                   *)
Fields ==
    /\ merging \in BOOLEAN /\ post \in [Messages -> Post]
    /\ task \in [Messages -> Task] /\ source \in [Messages -> Source]
    /\ fate \in [Messages -> Fate]
    /\ corr \in [Messages -> Messages] /\ awaiter \in [Messages -> Messages \cup {NoRow}]
    /\ active \in BOOLEAN /\ abort \in Abort /\ aborts \in 0..MaxAborts

LockFields ==
    /\ lockline \in Seq(Messages) /\ IsInjective(lockline)
    /\ ToSet(lockline) = {t \in Messages : task[t] \in {"locking", "chatting"}}

(* A request goes on, returns, or is answered.                              *)
LEMMA Goes ==
    ASSUME Fields, NEW p \in Messages, NEW where \in Pc, Goto(p, where)
    PROVE  /\ post' \in [Messages -> Post] /\ post'[p].at = where
           /\ \A q \in Messages : q # p => post'[q] = post[q]
<1>1. post[p] \in Post
  BY DEF Fields
<1>2. [post[p] EXCEPT !.at = where] \in Post /\ [post[p] EXCEPT !.at = where].at = where
  BY <1>1 DEF Post
<1>3. post' = [post EXCEPT ![p] = [post[p] EXCEPT !.at = where]]
  BY DEF Goto
<1> QED BY <1>2, <1>3 DEF Fields

(* A request returns.                                                       *)
LEMMA Returns ==
    ASSUME Fields, NEW p \in Messages, Return(p)
    PROVE  /\ post' \in [Messages -> Post] /\ post'[p].at = "done"
           /\ \A q \in Messages : q # p => post'[q] = post[q]
<1>1. Returned \in Post /\ Returned.at = "done"
  BY DEF Returned, NotSent, Post, Pc
<1> QED BY <1>1 DEF Return, Fields

(* The POST that waits for c, if there is one, returns.                     *)
LEMMA Answers ==
    ASSUME Fields, NEW c \in Messages, Answer(c)
    PROVE  /\ post' \in [Messages -> Post] /\ awaiter' \in [Messages -> Messages \cup {NoRow}]
           /\ \A q \in Messages : post'[q] = post[q] \/ (q = awaiter[c] /\ post'[q].at = "done")
           /\ \A d \in Messages : awaiter'[d] \in {NoRow, awaiter[d]}
<1>1. Returned \in Post /\ Returned.at = "done"
  BY DEF Returned, NotSent, Post, Pc
<1> QED BY <1>1 DEF Answer, Fields

(* What POST does when it enqueues: the row is new, or the last row takes   *)
(* the message in.                                                          *)
LEMMA Accepts ==
    ASSUME OnePlace, Fields, NEW p \in Messages, Accept(p)
    PROVE  /\ post' \in [Messages -> Post] /\ corr' \in [Messages -> Messages]
           /\ awaiter' \in [Messages -> Messages \cup {NoRow}]
           /\ post[p].at = "accept" /\ post'[p].at \in {"active again", "done"}
           /\ \A q \in Messages \ {p} :
                 post'[q] = post[q] \/ (post'[q].at = "done" /\ \E c \in Messages : q = awaiter[c])
           /\ \A d \in Messages : awaiter'[d] \in {NoRow, awaiter[d]}
           /\ UNCHANGED queue \/ (Queue!Join(p) /\ post'[p].at = "active again")
<1>1. post[p] \in Post /\ post[p].at = "accept"
  BY DEF Fields, Accept, At
<1>2. Returned \in Post /\ Returned.at = "done"
  BY DEF Returned, NotSent, Post, Pc
<1>3. CASE Refuse(p)
  BY <1>1, <1>2, <1>3 DEF Refuse, Return, Fields
<1>4. CASE Push(p)
  <2> DEFINE new == [post[p] EXCEPT !.at = "active again", !.ticket = p, !.id = p]
  <2>1. new \in Post /\ new.at = "active again"
    BY <1>1 DEF Post, Pc
  <2>2. post' = [post EXCEPT ![p] = new] /\ UNCHANGED <<corr, awaiter>> /\ Queue!Join(p)
    BY <1>4 DEF Push
  <2> HIDE DEF new
  <2> QED BY <1>1, <2>1, <2>2 DEF Fields
<1>5. ASSUME NEW r \in Newest, Merge(p, r)
      PROVE  /\ post' \in [Messages -> Post] /\ post'[p].at = "active again"
             /\ \A q \in Messages \ {p} : post'[q] = post[q]
             /\ UNCHANGED <<queue, corr, awaiter>>
  <2> DEFINE new == [post[p] EXCEPT !.at = "active again", !.ticket = r, !.id = corr[r]]
  <2>0. r \in Messages
    BY DEF Newest
  <2>1. new \in Post /\ new.at = "active again"
    BY <1>1, <2>0 DEF Post, Pc, Fields
  <2>2. post' = [post EXCEPT ![p] = new] /\ UNCHANGED <<queue, corr, awaiter>>
    BY <1>5 DEF Merge
  <2> HIDE DEF new
  <2> QED BY <1>1, <2>1, <2>2 DEF Fields
<1>6. ASSUME NEW r \in Newest, Replace(p, r)
      PROVE  /\ post' \in [Messages -> Post] /\ post'[p].at \in {"active again", "done"}
             /\ \A q \in Messages \ {p} :
                   post'[q] = post[q] \/ (post'[q].at = "done" /\ q = awaiter[corr[r]])
             /\ corr[r] \in Messages /\ corr' \in [Messages -> Messages]
             /\ awaiter' \in [Messages -> Messages \cup {NoRow}]
             /\ \A d \in Messages : awaiter'[d] \in {NoRow, awaiter[d]}
             /\ UNCHANGED queue
  <2> DEFINE new == [post[p] EXCEPT !.at = "active again"]
  <2>0. r \in Messages /\ corr[r] \in Messages
    BY DEF Newest, Fields
  <2>1. new \in Post /\ new.at = "active again"
    BY <1>1 DEF Post, Pc
  <2>2. /\ post' = [q \in Messages |->
                      IF q \in {o \in Messages : o = awaiter[corr[r]] /\ Backend = "memory"}
                      THEN Returned ELSE IF q = p THEN new ELSE post[q]]
        /\ awaiter' = awaiter \/ awaiter' = [awaiter EXCEPT ![corr[r]] = NoRow]
        /\ corr' = [corr EXCEPT ![r] = p] /\ UNCHANGED queue
    BY <1>6 DEF Replace
  <2> HIDE DEF new
  <2> QED BY <1>1, <1>2, <2>0, <2>1, <2>2 DEF Fields
<1>7. \/ Refuse(p) \/ Push(p)
      \/ \E r \in Newest : Merge(p, r) \/ Replace(p, r)
  BY DEF Accept
<1> QED BY <1>1, <1>3, <1>4, <1>5, <1>6, <1>7 DEF Refuse, Return, Fields

(* A turn starts, for the row at the head of the line if one is popped.     *)
LEMMA PopsTo ==
    ASSUME OnePlace, Fields, NEW from \in Source, Pop(from)
    PROVE  /\ OnePlace' /\ fate' = fate
           /\ task' \in [Messages -> Task] /\ source' \in [Messages -> Source]
<1>1. CASE UNCHANGED <<queue, turn>>
  BY <1>1 DEF queue, turn, OnePlace, Fields
<1>2. CASE Queue!Serve(1, {}) /\ Start(Head(line), from)
  <2>1. OnePlace' /\ Head(line) \in Messages
    BY <1>2, Pops
  <2> QED BY <1>2, <2>1 DEF Fields, Start, Task
<1> QED BY <1>1, <1>2 DEF Pop

(* Every call of the queue leaves each row in one place.                    *)
LEMMA OnePlaceStep == Fields /\ OnePlace /\ [Next]_vars => OnePlace'
<1> SUFFICES ASSUME Fields, OnePlace, [Next]_vars PROVE OnePlace'
  OBVIOUS
<1>1. CASE UNCHANGED queue
  BY <1>1 DEF queue, OnePlace
<1>2. ASSUME NEW p \in Messages, Queue!Join(p) PROVE OnePlace'
  BY <1>2, Joins
<1>3. ASSUME NEW fin, Queue!Serve(1, fin) PROVE OnePlace'
  BY <1>3, Pops
<1>4. ASSUME NEW S, Ended(S) PROVE OnePlace'
  BY <1>4, Ends
<1>5. ASSUME NEW p \in Messages, PostNext(p) PROVE OnePlace'
  BY <1>1, <1>2, <1>3, <1>5
  DEF PostNext, ReadActive, Decide, OrphanKick, Accept, Push, Refuse, Merge, Replace, ReadSlot,
      Kick, Kicked, Pop, Direct, Fast, MaybeDrain
<1>6. ASSUME NEW p \in Messages, ReadDepth(p) \/ SocketSend(p) PROVE OnePlace'
  BY <1>1, <1>2, <1>6 DEF ReadDepth, SocketSend
<1>7. ASSUME NEW t \in Messages, TurnNext(t) \/ TurnFails(t) PROVE OnePlace'
  BY <1>1, <1>3, <1>4, <1>7
  DEF TurnNext, TurnFails, Lock, Chat, ChatEnds, AfterPause, MarkFailed, Finalize, FinishAndDrain,
      Loop, LockTimeout, EarlyFailure, Pause, Turn
<1>8. ASSUME NEW S \in SUBSET Messages, Cancel(S) PROVE OnePlace'
  BY <1>4, <1>8 DEF Cancel
<1>9. CASE LeaseExpires
  BY <1>9, Lapses DEF LeaseExpires
<1>10. CASE AbortBegins \/ AbortNext
  BY <1>1, <1>3, <1>4, <1>10
  DEF AbortBegins, AbortNext, AbortMark, AbortClear, AbortRelease, AbortKick, Pop
<1>11. CASE UNCHANGED vars
  BY <1>1, <1>11 DEF vars
<1> QED BY <1>5, <1>6, <1>7, <1>8, <1>9, <1>10, <1>11 DEF Next

(* Types of everything but the queue and the lock.                          *)
LEMMA FieldsStep == OnePlace /\ Fields /\ [Next]_vars => Fields'
<1> SUFFICES ASSUME OnePlace, Fields, [Next]_vars PROVE Fields'
  OBVIOUS
<1> USE DEF turn, session, aborter, Local, Turn
<1>1. ASSUME NEW p \in Messages, ReadDepth(p) PROVE Fields'
  <2> DEFINE deep == Depth > 0
             new(m) == [post[p] EXCEPT !.at = "active", !.mode = m, !.deep = deep]
  <2>1. PICK m \in Modes \ {"socket"} : post' = [post EXCEPT ![p] = new(m)]
    BY <1>1 DEF ReadDepth
  <2>2. deep \in BOOLEAN
    OBVIOUS
  <2> HIDE DEF deep
  <2>3. post[p] \in Post
    BY DEF Fields
  <2>4. new(m) \in Post
    BY <2>2, <2>3 DEF Post, Pc
  <2> HIDE DEF new
  <2>5. post' \in [Messages -> Post]
    BY <2>1, <2>4 DEF Fields
  <2> QED BY <1>1, <2>5 DEF ReadDepth, Fields
<1>2. ASSUME NEW p \in Messages, SocketSend(p) PROVE Fields'
  BY <1>2, Goes, Returns DEF SocketSend, Fields, Pc
<1>3. ASSUME NEW p \in Messages, ReadActive(p) \/ ReadSlot(p) \/ Decide(p) PROVE Fields'
  BY <1>3, Goes DEF ReadActive, ReadSlot, Decide, Fields, Pc
<1>4. ASSUME NEW p \in Messages, OrphanKick(p) PROVE Fields'
  BY <1>4, Goes, PopsTo DEF OrphanKick, Fields, Pc, Source
<1>5. ASSUME NEW p \in Messages, Accept(p) PROVE Fields'
  BY <1>5, Accepts DEF Accept, Fields
<1>6. ASSUME NEW p \in Messages, Kick(p) PROVE Fields'
  <2>1. /\ task' \in [Messages -> Task] /\ source' \in [Messages -> Source] /\ fate' = fate
    BY <1>6, PopsTo DEF Kick, Kicked, Source
  <2>2. post' \in [Messages -> Post] /\ awaiter' \in [Messages -> Messages \cup {NoRow}]
    <3>1. CASE Goto(p, "waiting") /\ awaiter' = [awaiter EXCEPT ![post[p].id] = p]
      BY <3>1, Goes DEF Fields, Pc
    <3>2. CASE Return(p) /\ UNCHANGED awaiter
      BY <3>2, Returns DEF Fields
    <3> QED BY <1>6, <3>1, <3>2 DEF Kick
  <2> QED BY <1>6, <2>1, <2>2 DEF Kick, Fields
<1>7. ASSUME NEW t, Dropped(t) PROVE fate' \in [Messages -> Fate] /\ UNCHANGED <<task, source>>
  BY <1>7 DEF Dropped, Fields, Fate
<1>8. ASSUME NEW p \in Messages, Direct(p) PROVE Fields'
  <2>1. /\ task' \in [Messages -> Task] /\ source' \in [Messages -> Source]
        /\ fate' \in [Messages -> Fate]
    BY <1>7, <1>8, PopsTo DEF Direct, Source, Fields
  <2> QED BY <1>8, <2>1, Returns DEF Direct, Fields
<1>9. ASSUME NEW p \in Messages, Fast(p) PROVE Fields'
  <2>1. /\ task' \in [Messages -> Task] /\ source' \in [Messages -> Source]
        /\ fate' \in [Messages -> Fate]
    BY <1>7, <1>9 DEF Fast, Start, Source, Task, Fields
  <2> QED BY <1>9, <2>1, Returns DEF Fast, Fields
<1>10. ASSUME NEW p \in Messages, MaybeDrain(p) PROVE Fields'
  BY <1>10, Returns, PopsTo DEF MaybeDrain, Fields, Source
<1>11. ASSUME NEW t \in Messages, Lock(t) \/ Chat(t) \/ ChatEnds(t) \/ TurnFails(t) PROVE Fields'
  <2>1. task' \in [Messages -> Task]
    BY <1>11 DEF Lock, Chat, ChatEnds, TurnFails, LockTimeout, EarlyFailure, Pause, Become, Fields, Task
  <2>2. fate' \in [Messages -> Fate]
    BY <1>11 DEF Lock, Chat, ChatEnds, TurnFails, LockTimeout, EarlyFailure, Pause, Fields, Fate
  <2>3. active' \in BOOLEAN
    BY <1>11 DEF Lock, Chat, ChatEnds, TurnFails, LockTimeout, EarlyFailure, Pause, Fields, Leave
  <2>4. UNCHANGED <<merging, post, source, corr, awaiter, abort, aborts>>
    BY <1>11 DEF Lock, Chat, ChatEnds, TurnFails, LockTimeout, EarlyFailure, Pause
  <2> QED BY <2>1, <2>2, <2>3, <2>4 DEF Fields
<1>12. ASSUME NEW t \in Messages, AfterPause(t) PROVE Fields'
  <2>1. corr[t] \in Messages
    BY DEF Fields
  <2>2. post' \in [Messages -> Post] /\ awaiter' \in [Messages -> Messages \cup {NoRow}]
    BY <1>12, <2>1, Answers DEF AfterPause, Fields
  <2>3. task' \in [Messages -> Task] /\ active' \in BOOLEAN
    BY <1>12 DEF AfterPause, Become, Fields, Task
  <2> QED BY <1>12, <2>2, <2>3 DEF AfterPause, Fields
<1>13. ASSUME NEW t \in Messages, Finalize(t) PROVE Fields'
  <2>1. corr[t] \in Messages
    BY DEF Fields
  <2>2. post' \in [Messages -> Post] /\ awaiter' \in [Messages -> Messages \cup {NoRow}]
    BY <1>13, <2>1, Answers DEF Finalize, Fields
  <2>3. task' \in [Messages -> Task] /\ source' \in [Messages -> Source]
    BY <1>13 DEF Finalize, FinishAndDrain, Become, Fields, Task, Source
  <2> QED BY <1>13, <2>2, <2>3 DEF Finalize, Fields
<1>14. ASSUME NEW t \in Messages, Loop(t) PROVE Fields'
  <2>1. task' \in [Messages -> Task] /\ source' \in [Messages -> Source]
    BY <1>14 DEF Loop, Become, Fields, Task, Source
  <2> QED BY <1>14, <2>1 DEF Loop, Fields
<1>15. ASSUME NEW S \in SUBSET Messages, Cancel(S) PROVE Fields'
  BY <1>15 DEF Cancel, Fields
<1>16. CASE LeaseExpires
  BY <1>16 DEF LeaseExpires, Fields
<1>17. CASE AbortBegins
  <2>1. aborts' \in 0..MaxAborts /\ abort' \in Abort
    <3>1. aborts \in 0..MaxAborts /\ MaxAborts \in Nat /\ aborts < MaxAborts
      BY <1>17, DispatchAssumption DEF Fields, AbortBegins
    <3>2. aborts + 1 \in 0..MaxAborts
      BY ONLY <3>1
    <3>3. aborts' = aborts + 1 /\ abort' \in {"mark", "mark and clear"}
      BY <1>17 DEF AbortBegins
    <3> QED BY <3>2, <3>3 DEF Abort
  <2> QED BY <1>17, <2>1 DEF AbortBegins, Fields
<1>18. CASE AbortMark
  <2>1. slot # NoRow => slot \in Messages /\ corr[slot] \in Messages
    BY DEF Fields, OnePlace
  <2>2. post' \in [Messages -> Post] /\ awaiter' \in [Messages -> Messages \cup {NoRow}]
    BY <1>18, <2>1, Answers DEF AbortMark, Fields
  <2>3. abort' \in Abort
    BY <1>18 DEF AbortMark, Abort
  <2> QED BY <1>18, <2>2, <2>3 DEF AbortMark, Fields
<1>19. CASE AbortClear \/ AbortRelease
  BY <1>19 DEF AbortClear, AbortRelease, Fields, Abort
<1>20. CASE AbortKick
  BY <1>20, PopsTo DEF AbortKick, Fields, Abort, Source
<1>21. CASE UNCHANGED vars
  BY <1>21 DEF vars, Fields
<1> QED
  BY <1>1, <1>2, <1>3, <1>4, <1>5, <1>6, <1>8, <1>9, <1>10, <1>11, <1>12, <1>13, <1>14, <1>15,
     <1>16, <1>17, <1>18, <1>19, <1>20, <1>21
  DEF Next, PostNext, TurnNext, AbortNext

-----------------------------------------------------------------------------
(***************************************************************************)
(* Who may still become a row: a request that has not got that far.        *)
(***************************************************************************)
Early == {"new", "active", "slot", "orphan", "fast", "accept"}
Seen == ToSet(line) \cup working \cup over

(* A fast message never is a row, and whoever waits has a POST that waits.  *)
Rowless ==
    \A p \in Messages :
        /\ post[p].at \in Early => p \notin Seen /\ source[p] = "none"
        /\ source[p] = "fast" => post[p].at = "done" /\ p \notin Seen
        /\ source[p] = "none" <=> task[p] = "none"

Awaited == \A c \in Messages : awaiter[c] # NoRow => post[awaiter[c]].at \in {"waiting", "done"}

(* A request that has left the early part does not come back to it, and one *)
(* that has returned stays so.                                              *)
Onward ==
    \A p \in Messages :
        /\ post'[p].at \in Early => post[p].at \in Early
        /\ post[p].at = "done" => post'[p].at = "done"

(* Onward, and whoever has registered an awaiter waits or has returned.     *)
LEMMA PostsStep == OnePlace /\ Fields /\ Fields' /\ Awaited /\ [Next]_vars => Onward /\ Awaited'
<1> SUFFICES ASSUME OnePlace, Fields, Fields', Awaited, [Next]_vars PROVE Onward /\ Awaited'
  OBVIOUS
<1> USE DEF turn, session, aborter, Local, Turn
<1>0. /\ awaiter \in [Messages -> Messages \cup {NoRow}]
      /\ \A q \in Messages : post[q].at \in Pc
  BY DEF Fields, Post
<1>1. ASSUME NEW p \in Messages, NEW from, NEW where, post[p].at = from, post'[p].at = where,
             \A q \in Messages : q # p => post'[q] = post[q],
             from \notin {"waiting", "done"}, from \in Early \/ where \notin Early,
             UNCHANGED awaiter
      PROVE  Onward /\ Awaited'
  BY <1>0, <1>1 DEF Onward, Awaited
<1>2. ASSUME \A q \in Messages : post'[q] = post[q] \/ post'[q].at = "done",
             \A d \in Messages : awaiter'[d] \in {NoRow, awaiter[d]}
      PROVE  Onward /\ Awaited'
  BY <1>0, <1>2 DEF Onward, Awaited, Early
<1>3. ASSUME NEW p \in Messages, ReadDepth(p) PROVE Onward /\ Awaited'
  <2>1. post[p].at = "new" /\ awaiter' = awaiter
    BY <1>3 DEF ReadDepth
  <2>2. PICK m : post' = [post EXCEPT ![p].at = "active", ![p].mode = m, ![p].deep = Depth > 0]
    BY <1>3 DEF ReadDepth
  <2> DEFINE deep == Depth > 0
             new == [post[p] EXCEPT !.at = "active", !.mode = m, !.deep = deep]
  <2>3. post' = [post EXCEPT ![p] = new]
    BY <2>2
  <2>4. post[p] \in Post
    BY DEF Fields
  <2>5. new.at = "active"
    BY <2>4 DEF Post
  <2> HIDE DEF new
  <2>6. post'[p].at = "active" /\ \A q \in Messages : q # p => post'[q] = post[q]
    BY <2>3, <2>5 DEF Fields
  <2> QED BY <1>1, <2>1, <2>6 DEF Early
<1>4. ASSUME NEW p \in Messages, SocketSend(p) PROVE Onward /\ Awaited'
  BY <1>1, <1>4, Goes, Returns DEF SocketSend, Pc, Early
<1>5. ASSUME NEW p \in Messages, ReadActive(p) PROVE Onward /\ Awaited'
  BY <1>1, <1>5, Goes DEF ReadActive, At, Pc, Early
<1>6. ASSUME NEW p \in Messages, ReadSlot(p) \/ Decide(p) \/ OrphanKick(p) PROVE Onward /\ Awaited'
  BY <1>1, <1>6, Goes DEF ReadSlot, Decide, OrphanKick, At, Pc, Early
<1>7. ASSUME NEW p \in Messages, Accept(p) PROVE Onward /\ Awaited'
  <2>1. /\ post[p].at = "accept" /\ post'[p].at \in {"active again", "done"}
        /\ \A q \in Messages \ {p} : post'[q] = post[q] \/ post'[q].at = "done"
        /\ \A d \in Messages : awaiter'[d] \in {NoRow, awaiter[d]}
    BY <1>7, Accepts
  <2>2. Onward
    BY <2>1 DEF Onward, Early
  <2>3. Awaited'
    BY <1>0, <2>1 DEF Awaited
  <2> QED BY <2>2, <2>3
<1>8. ASSUME NEW p \in Messages, Kick(p) PROVE Onward /\ Awaited'
  <2>1. post[p].at = "kick"
    BY <1>8 DEF Kick, At
  <2>2. CASE Goto(p, "waiting") /\ awaiter' = [awaiter EXCEPT ![post[p].id] = p]
    <3>1. post'[p].at = "waiting" /\ \A q \in Messages : q # p => post'[q] = post[q]
      BY <2>2, Goes DEF Pc
    <3>2. \A c \in Messages : awaiter'[c] \in {p, awaiter[c]}
      BY <1>0, <2>2
    <3> QED BY <1>0, <2>1, <3>1, <3>2 DEF Onward, Awaited, Early
  <2>3. CASE Return(p) /\ UNCHANGED awaiter
    BY <1>1, <2>1, <2>3, Returns DEF Early
  <2> QED BY <1>8, <2>2, <2>3 DEF Kick
<1>9. ASSUME NEW p \in Messages, Direct(p) \/ Fast(p) \/ MaybeDrain(p) PROVE Onward /\ Awaited'
  BY <1>1, <1>9, Returns DEF Direct, Fast, MaybeDrain, At, Early
<1>10. CASE UNCHANGED <<post, awaiter>>
  BY <1>10 DEF Onward, Awaited
<1>11. ASSUME NEW t \in Messages, Lock(t) \/ Chat(t) \/ ChatEnds(t) \/ TurnFails(t) \/ Loop(t)
       PROVE  Onward /\ Awaited'
  BY <1>10, <1>11 DEF Lock, Chat, ChatEnds, TurnFails, LockTimeout, EarlyFailure, Pause, Loop
<1>12. ASSUME NEW c \in Messages, Answer(c) PROVE Onward /\ Awaited'
  BY <1>2, <1>12, Answers
<1>13. ASSUME NEW t \in Messages, AfterPause(t) \/ Finalize(t) PROVE Onward /\ Awaited'
  <2>1. corr[t] \in Messages
    BY DEF Fields
  <2> QED BY <1>10, <1>12, <1>13, <2>1 DEF AfterPause, Finalize
<1>14. CASE AbortMark
  <2>1. slot # NoRow => corr[slot] \in Messages
    BY DEF Fields, OnePlace
  <2> QED BY <1>10, <1>12, <1>14, <2>1 DEF AbortMark
<1>15. CASE AbortBegins \/ AbortClear \/ AbortRelease \/ AbortKick \/ LeaseExpires
  BY <1>10, <1>15 DEF AbortBegins, AbortClear, AbortRelease, AbortKick, LeaseExpires
<1>16. ASSUME NEW S \in SUBSET Messages, Cancel(S) PROVE Onward /\ Awaited'
  BY <1>10, <1>16 DEF Cancel
<1>17. CASE UNCHANGED vars
  BY <1>10, <1>17 DEF vars
<1> QED
  BY <1>3, <1>4, <1>5, <1>6, <1>7, <1>8, <1>9, <1>11, <1>13, <1>14, <1>15, <1>16, <1>17
  DEF Next, PostNext, TurnNext, AbortNext

(* A step that starts no fast turn and moves no row into the queue.         *)
LEMMA RowlessKeeps ==
    ASSUME Rowless, Onward, Seen' = Seen,
           \A p \in Messages :
              \/ source'[p] = source[p] /\ (task'[p] = "none" <=> task[p] = "none")
              \/ p \in Seen /\ source'[p] \notin {"none", "fast"} /\ task'[p] # "none"
    PROVE  Rowless'
BY DEF Rowless, Onward

(* The rows that the queue has seen change only when one joins.             *)
LEMMA SeenSame ==
    ASSUME OnePlace
    PROVE  /\ UNCHANGED queue => Seen' = Seen
           /\ \A p \in Messages : Queue!Join(p) => Seen' = Seen \cup {p}
           /\ \A fin : Queue!Serve(1, fin) => Seen' = Seen /\ Head(line) \in Seen
           /\ \A S : Ended(S) => Seen' = Seen
           /\ slot # NoRow /\ (Queue!Lapse \/ (Queue!Rejoin(slot) /\ slot' = NoRow)) => Seen' = Seen
<1>1. UNCHANGED queue => Seen' = Seen
  BY DEF queue, Seen
<1>2. ASSUME NEW p \in Messages, Queue!Join(p) PROVE Seen' = Seen \cup {p}
  BY <1>2, Joins DEF Seen
<1>3. ASSUME NEW fin, Queue!Serve(1, fin) PROVE Seen' = Seen /\ Head(line) \in Seen
  <2> DEFINE h == Head(line)
  <2>1. /\ h \in ToSet(line) /\ fin \subseteq working
        /\ ToSet(line') = ToSet(line) \ {h}
        /\ working' = (working \ fin) \cup {h} /\ over' = over \cup fin
    BY <1>3, Pops
  <2> HIDE DEF h
  <2>2. Seen' = Seen /\ h \in Seen
    BY <2>1 DEF Seen
  <2> QED BY <2>2 DEF h
<1>4. ASSUME NEW S, Ended(S) PROVE Seen' = Seen
  <2>1. /\ S \subseteq ToSet(line) \cup working
        /\ ToSet(line') = ToSet(line) \ S /\ working' = working \ S /\ over' = over \cup S
    BY <1>4, Ends
  <2> QED BY <2>1 DEF Seen
<1>5. ASSUME slot # NoRow, Queue!Lapse \/ (Queue!Rejoin(slot) /\ slot' = NoRow) PROVE Seen' = Seen
  BY <1>5, Lapses DEF Seen
<1> QED BY <1>1, <1>2, <1>3, <1>4, <1>5

(* Rowless is inductive.                                                    *)
LEMMA RowlessStep ==
    OnePlace /\ Fields /\ Fields' /\ Awaited /\ Rowless /\ [Next]_vars => Rowless'
<1> SUFFICES ASSUME OnePlace, Fields, Fields', Awaited, Rowless, [Next]_vars PROVE Rowless'
  OBVIOUS
<1> USE DEF turn, session, aborter, Local, Turn
<1>0. Onward
  BY PostsStep
<1>1. ASSUME UNCHANGED <<source, task>>, Seen' = Seen PROVE Rowless'
  BY <1>0, <1>1, RowlessKeeps
<1>2. ASSUME NEW p \in Messages, Queue!Join(p), post'[p].at \notin Early, post[p].at \in Early,
             UNCHANGED <<source, task>>
      PROVE  Rowless'
  <2>1. Seen' = Seen \cup {p}
    BY <1>2, SeenSame
  <2>2. source[p] # "fast"
    BY <1>2 DEF Rowless
  <2> QED BY <1>0, <1>2, <2>1, <2>2 DEF Rowless, Onward
<1>3. ASSUME NEW from \in Source \ {"none", "fast"}, Start(Head(line), from),
             Head(line) \in Seen, Seen' = Seen
      PROVE  Rowless'
  <2> DEFINE h == Head(line)
  <2>1. /\ task' = [task EXCEPT ![h] = "starting"] /\ source' = [source EXCEPT ![h] = from]
        /\ h \in Seen
    BY <1>3 DEF Start
  <2> HIDE DEF h
  <2>2. \A p \in Messages :
              \/ source'[p] = source[p] /\ task'[p] = task[p]
              \/ p \in Seen /\ source'[p] \notin {"none", "fast"} /\ task'[p] # "none"
    BY <1>3, <2>1 DEF Fields
  <2> QED BY <1>0, <1>3, <2>2, RowlessKeeps
<1>4. ASSUME NEW from \in Source \ {"none", "fast"}, Pop(from) PROVE Rowless'
  BY <1>1, <1>3, <1>4, SeenSame DEF Pop
<1>5. ASSUME NEW p \in Messages, ReadDepth(p) \/ ReadActive(p) \/ Decide(p) \/ ReadSlot(p)
      PROVE  Rowless'
  BY <1>1, <1>5, SeenSame DEF ReadDepth, ReadActive, Decide, ReadSlot
<1>6. ASSUME NEW p \in Messages, SocketSend(p) PROVE Rowless'
  <2>1. CASE Queue!Join(p) /\ Goto(p, "drain?")
    BY <1>2, <1>6, <2>1, Goes DEF SocketSend, Pc, Early
  <2>2. CASE UNCHANGED queue
    BY <1>1, <1>6, <2>2, SeenSame DEF SocketSend
  <2> QED BY <1>6, <2>1, <2>2 DEF SocketSend
<1>7. ASSUME NEW p \in Messages, Accept(p) PROVE Rowless'
  <2>1. /\ post[p].at = "accept"
        /\ UNCHANGED queue \/ (Queue!Join(p) /\ post'[p].at = "active again")
    BY <1>7, Accepts
  <2>2. UNCHANGED <<source, task>>
    BY <1>7 DEF Accept
  <2> QED BY <1>1, <1>2, <2>1, <2>2, SeenSame DEF Early
<1>8. ASSUME NEW p \in Messages, OrphanKick(p) \/ Kick(p) \/ MaybeDrain(p) PROVE Rowless'
  BY <1>4, <1>8 DEF OrphanKick, Kick, Kicked, MaybeDrain, Source
<1>9. ASSUME NEW p \in Messages, Direct(p) PROVE Rowless'
  BY <1>1, <1>4, <1>9, SeenSame DEF Direct, Dropped, Source
<1>10. ASSUME NEW p \in Messages, Fast(p) PROVE Rowless'
  <2>1. post[p].at = "fast" /\ Return(p) /\ Seen' = Seen
    BY <1>10, SeenSame DEF Fast, At
  <2>2. post'[p].at = "done" /\ p \notin Seen
    BY <2>1, Returns DEF Rowless, Early
  <2>3. CASE Start(p, "fast")
    <3>1. /\ source'[p] = "fast" /\ task'[p] = "starting"
          /\ \A q \in Messages : q # p => source'[q] = source[q] /\ task'[q] = task[q]
      BY <2>3 DEF Start, Fields
    <3> QED BY <1>0, <2>1, <2>2, <3>1 DEF Rowless, Onward, Early
  <2>4. CASE Dropped(p)
    BY <1>1, <2>1, <2>4 DEF Dropped
  <2> QED BY <1>10, <2>3, <2>4 DEF Fast
<1>11. ASSUME NEW t \in Messages, Lock(t) \/ Chat(t) \/ ChatEnds(t) \/ TurnFails(t) PROVE Rowless'
  <2>1. Seen' = Seen /\ source' = source
    BY <1>11, SeenSame DEF Lock, Chat, ChatEnds, TurnFails, LockTimeout, EarlyFailure, Pause
  <2>2. \A p \in Messages : task'[p] = "none" <=> task[p] = "none"
    BY <1>11 DEF Lock, Chat, ChatEnds, TurnFails, LockTimeout, EarlyFailure, Pause, Become, Fields
  <2> QED BY <1>0, <2>1, <2>2, RowlessKeeps
<1>12. ASSUME NEW t \in Messages, AfterPause(t) PROVE Rowless'
  <2>1. Seen' = Seen /\ source' = source
    BY <1>12, SeenSame DEF AfterPause, MarkFailed
  <2>2. \A p \in Messages : task'[p] = "none" <=> task[p] = "none"
    BY <1>12 DEF AfterPause, Become, Fields
  <2> QED BY <1>0, <2>1, <2>2, RowlessKeeps
<1>13. ASSUME NEW t \in Messages, NEW from \in Source \ {"none", "fast"}, task[t] # "none",
              \E fin : Queue!Serve(1, fin),
              task' = [task EXCEPT ![t] = "done", ![Head(line)] = "starting"],
              source' = [source EXCEPT ![Head(line)] = from]
       PROVE  Rowless'
  <2> DEFINE h == Head(line)
  <2>1. h \in Seen /\ Seen' = Seen
    BY <1>13, SeenSame
  <2> HIDE DEF h
  <2>2. /\ task' = [task EXCEPT ![t] = "done", ![h] = "starting"]
        /\ source' = [source EXCEPT ![h] = from]
    BY <1>13 DEF h
  <2>3. \A p \in Messages :
              \/ source'[p] = source[p] /\ (task'[p] = "none" <=> task[p] = "none")
              \/ p \in Seen /\ source'[p] \notin {"none", "fast"} /\ task'[p] # "none"
    BY <1>13, <2>1, <2>2 DEF Fields
  <2> QED BY <1>0, <2>1, <2>3, RowlessKeeps
<1>14. ASSUME NEW t \in Messages, task[t] # "none", Become(t, "done") \/ Become(t, "looping"),
              UNCHANGED source, UNCHANGED queue \/ \E S : Ended(S)
       PROVE  Rowless'
  <2>1. Seen' = Seen
    BY <1>14, SeenSame
  <2>2. \A p \in Messages : task'[p] = "none" <=> task[p] = "none"
    BY <1>14 DEF Become, Fields
  <2> QED BY <1>0, <1>14, <2>1, <2>2, RowlessKeeps
<1>15. ASSUME NEW t \in Messages, Finalize(t) PROVE Rowless'
  BY <1>13, <1>14, <1>15 DEF Finalize, FinishAndDrain, MarkFailed, Source
<1>16. ASSUME NEW t \in Messages, Loop(t) PROVE Rowless'
  BY <1>13, <1>14, <1>16 DEF Loop, Source
<1>17. ASSUME NEW S \in SUBSET Messages, Cancel(S) PROVE Rowless'
  BY <1>1, <1>17, SeenSame DEF Cancel
<1>18. CASE LeaseExpires
  BY <1>1, <1>18, SeenSame DEF LeaseExpires
<1>19. CASE AbortBegins \/ AbortMark \/ AbortClear \/ AbortRelease
  BY <1>1, <1>19, SeenSame DEF AbortBegins, AbortMark, AbortClear, AbortRelease
<1>20. CASE AbortKick
  BY <1>4, <1>20 DEF AbortKick, Source
<1>21. CASE UNCHANGED vars
  BY <1>1, <1>21, SeenSame DEF vars
<1> QED
  BY <1>5, <1>6, <1>7, <1>8, <1>9, <1>10, <1>11, <1>12, <1>15, <1>16, <1>17, <1>18, <1>19,
     <1>20, <1>21
  DEF Next, PostNext, TurnNext, AbortNext

-----------------------------------------------------------------------------
(***************************************************************************)
(* A turn and the slot.  RowTurnHoldsSlot is not inductive: a turn in its  *)
(* resume loop is alive though its row is over, and a row that is being    *)
(* worked on without a turn must have lost it to a pause or a busy server. *)
(***************************************************************************)
HeldAt(t) ==
    /\ IsRow(t) /\ task[t] \in Alive /\ t \notin over => slot = t
    /\ task[t] = "looping" => t \in over
    /\ task[t] = "paused" => fate[t] = "paused"
    /\ t \in working => task[t] \in Alive \/ fate[t] \in {"paused", "dropped"}

Held == \A t \in Messages : HeldAt(t)

(* The step takes nothing from the turn of t.                               *)
Undisturbed(t) ==
    /\ t \in over => t \in over'
    /\ t \in working' => t \in working
    /\ slot = t => slot' = t \/ t \in over' \/ task[t] \notin Alive

(* A row in the line has no turn, and a turn whose row is neither over nor  *)
(* in the slot is the fast one.                                             *)
LEMMA NoTurnInLine ==
    ASSUME OnePlace, Rowless, Held, NEW t \in Messages, t \in ToSet(line)
    PROVE  task[t] \notin Alive
<1>1. t \notin working /\ t \notin over /\ slot # t
  BY DispatchAssumption DEF OnePlace
<1>2. source[t] # "fast" /\ (task[t] # "none" => source[t] # "none")
  BY DEF Rowless, Seen
<1>3. HeldAt(t)
  BY DEF Held
<1> QED BY <1>1, <1>2, <1>3 DEF HeldAt, IsRow, Alive

(* A turn of a row that is worked on has the slot.                          *)
LEMMA WorkingTurn ==
    ASSUME OnePlace, Held, NEW t \in Messages, IsRow(t), task[t] \in Alive
    PROVE  t \in working \cup over /\ (t \in working => slot = t)
<1>1. HeldAt(t)
  BY DEF Held
<1> QED BY <1>1, DispatchAssumption DEF HeldAt, OnePlace

(* A turn that the step does not touch.                                     *)
LEMMA TurnRests ==
    ASSUME NEW t, HeldAt(t), Undisturbed(t),
           task'[t] = task[t], source'[t] = source[t], fate'[t] = fate[t]
    PROVE  HeldAt(t)'
BY DEF HeldAt, Undisturbed, IsRow

(* A turn that goes on, or ends with its row.                               *)
LEMMA TurnMoves ==
    ASSUME NEW t, HeldAt(t), Undisturbed(t), task[t] \in Alive, source'[t] = source[t],
           task'[t] = "looping" => t \in over',
           task'[t] = "paused" => fate'[t] = "paused",
           task'[t] \notin Alive => t \notin working' \/ fate'[t] \in {"paused", "dropped"}
    PROVE  HeldAt(t)'
BY DEF HeldAt, Undisturbed, IsRow

(* No call of the queue takes the slot or the end of a row away from a live *)
(* turn, but the one that pops the row.                                     *)
LEMMA QueueUndisturbed ==
    ASSUME OnePlace, NEW t \in Messages
    PROVE  /\ UNCHANGED queue => Undisturbed(t)
           /\ \A p \in Messages : Queue!Join(p) => Undisturbed(t)
           /\ \A fin : Queue!Serve(1, fin) /\ t # Head(line) => Undisturbed(t)
           /\ \A S : Ended(S) => Undisturbed(t)
           /\ LeaseExpires => Undisturbed(t)
<1>1. UNCHANGED queue => Undisturbed(t)
  BY DEF queue, Undisturbed
<1>2. ASSUME NEW p \in Messages, Queue!Join(p) PROVE Undisturbed(t)
  BY <1>2, Joins DEF Undisturbed
<1>3. ASSUME NEW fin, Queue!Serve(1, fin), t # Head(line) PROVE Undisturbed(t)
  <2> DEFINE h == Head(line)
  <2>1. /\ slot \in fin \cup {NoRow} /\ fin \subseteq working /\ t # h
        /\ working' = (working \ fin) \cup {h} /\ over' = over \cup fin
    BY <1>3, Pops
  <2> HIDE DEF h
  <2>2. slot = t => t \in over'
    BY <2>1, DispatchAssumption
  <2> QED BY <2>1, <2>2 DEF Undisturbed
<1>4. ASSUME NEW S, Ended(S) PROVE Undisturbed(t)
  <2>1. /\ working' = working \ S /\ over' = over \cup S
        /\ slot' = IF slot \in S THEN NoRow ELSE slot
    BY <1>4, Ends
  <2> QED BY <2>1 DEF Undisturbed
<1>5. ASSUME LeaseExpires PROVE Undisturbed(t)
  <2>1. /\ slot # NoRow /\ task[slot] \notin Alive
        /\ Queue!Lapse \/ (Queue!Rejoin(slot) /\ slot' = NoRow)
    BY <1>5 DEF LeaseExpires
  <2>2. over' = over /\ working' \subseteq working
    BY <2>1, Lapses
  <2> QED BY <2>1, <2>2 DEF Undisturbed
<1> QED BY <1>1, <1>2, <1>3, <1>4, <1>5

(* The row that is popped gets a turn, or the POST answers server-busy.     *)
LEMMA PopHeld ==
    ASSUME OnePlace, Fields, Rowless, Held, NEW fin, Queue!Serve(1, fin),
           \/ Dropped(Head(line))
           \/ \E from \in Source \ {"none", "fast"} : Start(Head(line), from)
    PROVE  Held'
<1>0. PICK h \in Messages : h = Head(line)
  BY Pops
<1>1. h \in ToSet(line) /\ slot' = h /\ task[h] \notin Alive
  BY <1>0, Pops, NoTurnInLine
<1>2. ASSUME NEW t \in Messages, t # h PROVE Undisturbed(t) /\ HeldAt(t)
  BY <1>0, <1>2, QueueUndisturbed DEF Held
<1>3. CASE Dropped(h)
  <2>1. UNCHANGED <<task, source>> /\ fate' = [fate EXCEPT ![h] = "dropped"]
    BY <1>3 DEF Dropped
  <2>2. ASSUME NEW t \in Messages, t # h PROVE HeldAt(t)'
    BY <1>2, <2>1, <2>2, TurnRests DEF Fields
  <2>3. HeldAt(h)'
    BY <1>1, <2>1 DEF HeldAt, Fields, Alive, Task
  <2> QED BY <2>2, <2>3 DEF Held
<1>4. ASSUME NEW from \in Source \ {"none", "fast"}, Start(h, from) PROVE Held'
  <2>1. /\ task' = [task EXCEPT ![h] = "starting"] /\ source' = [source EXCEPT ![h] = from]
        /\ fate' = fate
    BY <1>4 DEF Start
  <2>2. ASSUME NEW t \in Messages, t # h PROVE HeldAt(t)'
    BY <1>2, <2>1, <2>2, TurnRests DEF Fields
  <2>3. HeldAt(h)'
    BY <1>1, <2>1 DEF HeldAt, Fields, Alive, Task
  <2> QED BY <2>2, <2>3 DEF Held
<1> QED BY <1>0, <1>3, <1>4

(* The row of a finished turn ends as the next one is popped.               *)
LEMMA ChainHeld ==
    ASSUME OnePlace, Fields, Rowless, Held, NEW t \in Messages, task[t] \in Alive,
           NEW fin, Queue!Serve(1, fin), t \in working => t \in fin,
           NEW from \in Source \ {"none", "fast"},
           task' = [task EXCEPT ![t] = "done", ![Head(line)] = "starting"],
           source' = [source EXCEPT ![Head(line)] = from], fate' = fate
    PROVE  Held'
<1>0. PICK h \in Messages : h = Head(line)
  BY Pops
<1>1. /\ h \in ToSet(line) /\ slot' = h /\ task[h] \notin Alive
      /\ working' = (working \ fin) \cup {h}
  BY <1>0, Pops, NoTurnInLine
<1>2. ASSUME NEW u \in Messages, u # h PROVE Undisturbed(u) /\ HeldAt(u)
  BY <1>0, <1>2, QueueUndisturbed DEF Held
<1>3. /\ task' = [task EXCEPT ![t] = "done", ![h] = "starting"]
      /\ source' = [source EXCEPT ![h] = from]
  BY <1>0
<1>4. t # h
  BY <1>1
<1>5. ASSUME NEW u \in Messages, u # h, u # t PROVE HeldAt(u)'
  BY <1>2, <1>3, <1>5, TurnRests DEF Fields
<1>6. HeldAt(h)'
  BY <1>1, <1>3 DEF HeldAt, Fields, Alive, Task
<1>7. HeldAt(t)'
  <2>1. t \notin working'
    BY <1>1, <1>4
  <2>2. task'[t] = "done" /\ source'[t] = source[t]
    BY <1>3, <1>4 DEF Fields
  <2> QED BY <1>2, <1>4, <2>1, <2>2, TurnMoves
<1> QED BY <1>5, <1>6, <1>7 DEF Held

(* Held is inductive: one case per action.                                  *)
LEMMA HeldStep == OnePlace /\ Fields /\ Rowless /\ Held /\ [Next]_vars => Held'
<1> SUFFICES ASSUME OnePlace, Fields, Rowless, Held, [Next]_vars PROVE Held'
  OBVIOUS
<1> USE DEF turn, session, aborter, Local, Turn
<1>1. ASSUME UNCHANGED turn, \A t \in Messages : Undisturbed(t) PROVE Held'
  BY <1>1, TurnRests DEF Held
<1>2. ASSUME NEW t \in Messages, task[t] \in Alive, UNCHANGED source, Undisturbed(t),
             \A u \in Messages \ {t} : Undisturbed(u) /\ task'[u] = task[u] /\ fate'[u] = fate[u],
             task'[t] = "looping" => t \in over',
             task'[t] = "paused" => fate'[t] = "paused",
             task'[t] \notin Alive => t \notin working' \/ fate'[t] \in {"paused", "dropped"}
      PROVE  Held'
  <2>1. HeldAt(t)'
    BY <1>2, TurnMoves DEF Held
  <2>2. ASSUME NEW u \in Messages \ {t} PROVE HeldAt(u)'
    BY <1>2, <2>2, TurnRests DEF Held
  <2> QED BY <2>1, <2>2 DEF Held
<1>3. ASSUME NEW from \in Source \ {"none", "fast"}, Pop(from) PROVE Held'
  BY <1>1, <1>3, PopHeld, QueueUndisturbed DEF Pop
<1>4. ASSUME NEW p \in Messages, ReadDepth(p) \/ ReadActive(p) \/ Decide(p) \/ ReadSlot(p)
      PROVE  Held'
  BY <1>1, <1>4, QueueUndisturbed DEF ReadDepth, ReadActive, Decide, ReadSlot
<1>5. ASSUME NEW p \in Messages, SocketSend(p) \/ Accept(p) PROVE Held'
  BY <1>1, <1>5, Accepts, QueueUndisturbed DEF SocketSend, Accept
<1>6. ASSUME NEW p \in Messages, OrphanKick(p) \/ Kick(p) \/ MaybeDrain(p) PROVE Held'
  BY <1>3, <1>6 DEF OrphanKick, Kick, Kicked, MaybeDrain, Source
<1>7. ASSUME NEW p \in Messages, Direct(p) PROVE Held'
  BY <1>3, <1>7, PopHeld DEF Direct, Source
<1>8. ASSUME NEW p \in Messages, Fast(p) PROVE Held'
  <2>1. p \notin working /\ source[p] = "none" /\ task[p] = "none" /\ UNCHANGED queue
    BY <1>8 DEF Fast, At, Rowless, Early, Seen
  <2>2. \A u \in Messages : Undisturbed(u) /\ HeldAt(u)
    BY <2>1, QueueUndisturbed DEF Held
  <2>3. working' = working
    BY <2>1 DEF queue
  <2>4. CASE Start(p, "fast")
    <3>1. /\ task' = [task EXCEPT ![p] = "starting"] /\ source' = [source EXCEPT ![p] = "fast"]
          /\ fate' = fate
      BY <2>4 DEF Start
    <3>2. HeldAt(p)'
      BY <3>1 DEF HeldAt, IsRow, Fields, Alive, Task
    <3>3. ASSUME NEW u \in Messages, u # p PROVE HeldAt(u)'
      BY <2>2, <3>1, <3>3, TurnRests DEF Fields
    <3> QED BY <3>2, <3>3 DEF Held
  <2>5. CASE Dropped(p)
    <3>1. UNCHANGED <<task, source>> /\ fate' = [fate EXCEPT ![p] = "dropped"]
      BY <2>5 DEF Dropped
    <3>2. HeldAt(p)'
      BY <2>1, <2>3, <3>1 DEF HeldAt, IsRow, Fields, Alive, Task
    <3>3. ASSUME NEW u \in Messages, u # p PROVE HeldAt(u)'
      BY <2>2, <3>1, <3>3, TurnRests DEF Fields
    <3> QED BY <3>2, <3>3 DEF Held
  <2> QED BY <1>8, <2>4, <2>5 DEF Fast
<1>9. ASSUME NEW t \in Messages, Lock(t) \/ Chat(t) \/ ChatEnds(t) \/ TurnFails(t) PROVE Held'
  <2>1. UNCHANGED <<queue, source>> /\ task[t] \in Alive
    BY <1>9 DEF Lock, Chat, ChatEnds, TurnFails, LockTimeout, EarlyFailure, Pause, Alive, Task
  <2>2. /\ \A u \in Messages \ {t} : task'[u] = task[u] /\ fate'[u] = fate[u]
        /\ task'[t] \in Alive \ {"looping"} /\ (task'[t] = "paused" => fate'[t] = "paused")
    BY <1>9
    DEF Lock, Chat, ChatEnds, TurnFails, LockTimeout, EarlyFailure, Pause, Become, Fields, Alive, Task
  <2>3. \A u \in Messages : Undisturbed(u)
    BY <2>1, QueueUndisturbed
  <2> QED BY <1>2, <2>1, <2>2, <2>3
<1>10. ASSUME NEW t \in Messages, AfterPause(t) PROVE Held'
  <2>1. /\ UNCHANGED <<source, fate>> /\ task' = [task EXCEPT ![t] = "done"] /\ task[t] \in Alive
        /\ task[t] = "paused"
    BY <1>10 DEF AfterPause, Become, Alive, Task
  <2>2. fate'[t] = "paused"
    BY <2>1 DEF Held, HeldAt
  <2>3. \A u \in Messages : Undisturbed(u)
    BY <1>10, QueueUndisturbed DEF AfterPause, MarkFailed
  <2>4. task'[t] = "done" /\ \A u \in Messages \ {t} : task'[u] = task[u]
    BY <2>1 DEF Fields
  <2> QED BY <1>2, <2>1, <2>2, <2>3, <2>4
<1>11. ASSUME NEW t \in Messages, task[t] \in Alive, UNCHANGED <<source, fate>>,
              UNCHANGED queue \/ (\E S : Ended(S)), t \notin working',
              Become(t, "done") \/ (Become(t, "looping") /\ t \in over')
       PROVE  Held'
  <2>1. \A u \in Messages : Undisturbed(u)
    BY <1>11, QueueUndisturbed
  <2>2. /\ task'[t] \in {"done", "looping"} /\ (task'[t] = "looping" => t \in over')
        /\ \A u \in Messages \ {t} : task'[u] = task[u]
    BY <1>11 DEF Become, Fields
  <2> QED BY <1>2, <1>11, <2>1, <2>2
<1>12. ASSUME NEW t \in Messages, Finalize(t), source[t] = "fast" PROVE Held'
  <2>1. t \notin working /\ Become(t, "done") /\ UNCHANGED <<queue, source, fate>>
    BY <1>12 DEF Finalize, Rowless, Seen
  <2>2. t \notin working' /\ task[t] \in Alive
    BY <1>12, <2>1 DEF queue, Finalize, Alive, Task
  <2> QED BY <1>11, <2>1, <2>2
<1>13. ASSUME NEW t \in Messages, task[t] = "ending", source[t] \in {"post", "kick", "chain"},
              FinishAndDrain(t), UNCHANGED fate
       PROVE  Held'
  <2>0. IsRow(t) /\ task[t] \in Alive
    BY <1>13 DEF IsRow, Alive, Task
  <2>1. t \in working => slot = t
    BY <2>0, WorkingTurn
  <2> DEFINE fin == {t} \cap working
  <2>2. CASE /\ Queue!Serve(1, fin)
             /\ task' = [task EXCEPT ![t] = "done", ![Head(line)] = "starting"]
             /\ source' = [source EXCEPT ![Head(line)] = "chain"]
    BY <1>13, <2>0, <2>2, ChainHeld DEF Source
  <2>3. CASE /\ IF fin = {} THEN UNCHANGED queue ELSE Ended(fin)
             /\ Become(t, "done") /\ UNCHANGED source
    <3>1. fin = {} => t \notin working /\ UNCHANGED queue
      BY <2>3
    <3>2. fin # {} => working' = working \ fin
      BY <2>3, Ends
    <3>3. t \notin working'
      BY <3>1, <3>2 DEF queue
    <3>4. UNCHANGED queue \/ \E S : Ended(S)
      BY <2>3
    <3> QED BY <1>11, <1>13, <2>0, <2>3, <3>3, <3>4
  <2>4. CASE slot \notin {NoRow, t} /\ Become(t, "done") /\ UNCHANGED <<queue, source>>
    <3>1. t \notin working'
      BY <2>1, <2>4 DEF queue
    <3> QED BY <1>11, <1>13, <2>0, <2>4, <3>1
  <2> QED BY <1>13, <2>2, <2>3, <2>4 DEF FinishAndDrain
<1>14. ASSUME NEW t \in Messages, Finalize(t), source[t] = "resume" PROVE Held'
  <2>1. /\ MarkFailed(t) /\ Become(t, "looping") /\ UNCHANGED <<source, fate>>
        /\ IsRow(t) /\ task[t] \in Alive
    BY <1>14 DEF Finalize, IsRow, Alive, Task
  <2>2. t \in working \cup over
    BY <2>1, WorkingTurn
  <2>3. t \notin working' /\ t \in over'
    BY <2>1, <2>2, Ends DEF MarkFailed, OnePlace, queue
  <2>4. UNCHANGED queue \/ \E S : Ended(S)
    BY <2>1 DEF MarkFailed
  <2> QED BY <1>11, <2>1, <2>3, <2>4
<1>15. ASSUME NEW t \in Messages, Finalize(t) PROVE Held'
  BY <1>12, <1>13, <1>14, <1>15 DEF Finalize
<1>16. ASSUME NEW t \in Messages, Loop(t) PROVE Held'
  <2>1. task[t] \in Alive /\ t \in over /\ t \notin working
    BY <1>16 DEF Loop, Alive, Task, Held, HeldAt, OnePlace
  <2>2. CASE /\ Queue!Serve(1, {})
             /\ task' = [task EXCEPT ![t] = "done", ![Head(line)] = "starting"]
             /\ source' = [source EXCEPT ![Head(line)] = "resume"]
    BY <1>16, <2>1, <2>2, ChainHeld DEF Loop, Source
  <2>3. CASE Become(t, "done") /\ UNCHANGED <<queue, source>>
    <3>1. t \notin working'
      BY <2>1, <2>3 DEF queue
    <3> QED BY <1>11, <1>16, <2>1, <2>3, <3>1 DEF Loop
  <2> QED BY <1>16, <2>2, <2>3 DEF Loop
<1>17. ASSUME NEW S \in SUBSET Messages, Cancel(S) PROVE Held'
  BY <1>1, <1>17, QueueUndisturbed DEF Cancel
<1>18. CASE LeaseExpires
  BY <1>1, <1>18, QueueUndisturbed DEF LeaseExpires
<1>19. CASE AbortBegins \/ AbortMark \/ AbortClear \/ AbortRelease
  BY <1>1, <1>19, QueueUndisturbed DEF AbortBegins, AbortMark, AbortClear, AbortRelease
<1>20. CASE AbortKick
  BY <1>3, <1>20 DEF AbortKick, Source
<1>21. CASE UNCHANGED vars
  BY <1>1, <1>21, QueueUndisturbed DEF vars
<1> QED
  BY <1>4, <1>5, <1>6, <1>7, <1>8, <1>9, <1>10, <1>15, <1>16, <1>17, <1>18, <1>19, <1>20, <1>21
  DEF Next, PostNext, TurnNext, AbortNext

-----------------------------------------------------------------------------
(* The session lock: a turn joins its queue once, and leaves it when its    *)
(* chat ends or when it has waited too long.                                *)
LEMMA LockFieldsStep == OnePlace /\ Fields /\ Rowless /\ Held /\ LockFields /\ [Next]_vars => LockFields'
<1> SUFFICES ASSUME OnePlace, Fields, Rowless, Held, LockFields, [Next]_vars PROVE LockFields'
  OBVIOUS
<1> USE DEF turn, session, aborter, Local, Turn
<1> DEFINE In(t) == task[t] \in {"locking", "chatting"}
<1>1. ASSUME UNCHANGED lockline, \A t \in Messages : In(t)' <=> In(t) PROVE LockFields'
  BY <1>1 DEF LockFields
<1>2. ASSUME UNCHANGED <<lockline, task>> PROVE LockFields'
  BY <1>1, <1>2
<1>3. ASSUME NEW t \in Messages, NEW to \in {"starting", "ending", "looping", "paused", "done"},
             UNCHANGED lockline, ~In(t), task' = [task EXCEPT ![t] = to]
      PROVE  LockFields'
  BY <1>1, <1>3 DEF Fields
<1>4. ASSUME NEW fin, Queue!Serve(1, fin) PROVE Head(line) \in Messages /\ ~In(Head(line))
  <2>1. PICK h \in Messages : h = Head(line) /\ h \in ToSet(line)
    BY <1>4, Pops
  <2>2. task[h] \notin Alive
    BY <2>1, NoTurnInLine
  <2> QED BY <2>1, <2>2 DEF Alive, Task
<1>5. ASSUME NEW from, Pop(from), UNCHANGED lockline PROVE LockFields'
  BY <1>2, <1>3, <1>4, <1>5 DEF Pop, Start
<1>6. ASSUME NEW t \in Messages, ~In(t), NEW fin, Queue!Serve(1, fin), UNCHANGED lockline,
             task' = [task EXCEPT ![t] = "done", ![Head(line)] = "starting"]
      PROVE  LockFields'
  <2>1. PICK h \in Messages : h = Head(line) /\ ~In(h)
    BY <1>4, <1>6
  <2>2. task' = [task EXCEPT ![t] = "done", ![h] = "starting"]
    BY <1>6, <2>1
  <2>3. \A u \in Messages : In(u)' <=> In(u)
    BY <1>6, <2>1, <2>2 DEF Fields
  <2> QED BY <1>1, <1>6, <2>3
<1>7. ASSUME NEW p \in Messages, ReadDepth(p) \/ SocketSend(p) PROVE LockFields'
  BY <1>2, <1>7 DEF ReadDepth, SocketSend
<1>8. ASSUME NEW p \in Messages, ReadActive(p) \/ Decide(p) \/ Accept(p) \/ ReadSlot(p)
      PROVE  LockFields'
  BY <1>2, <1>8 DEF ReadActive, Decide, Accept, ReadSlot
<1>9. ASSUME NEW p \in Messages, OrphanKick(p) \/ Kick(p) \/ Direct(p) \/ MaybeDrain(p)
      PROVE  LockFields'
  BY <1>2, <1>5, <1>9 DEF OrphanKick, Kick, Kicked, Direct, Dropped, MaybeDrain
<1>10. ASSUME NEW p \in Messages, Fast(p) PROVE LockFields'
  <2>1. task[p] = "none" /\ UNCHANGED lockline
    BY <1>10 DEF Fast, At, Rowless, Early
  <2> QED BY <1>2, <1>3, <1>10, <2>1 DEF Fast, Start, Dropped
<1>11. ASSUME NEW t \in Messages, Lock(t) PROVE LockFields'
  <2>1. /\ task[t] = "starting" /\ task' = [task EXCEPT ![t] = "locking"]
        /\ lockline' = Append(lockline, t)
    BY <1>11 DEF Lock, Become
  <2>2. t \notin ToSet(lockline)
    BY <2>1 DEF LockFields
  <2>3. /\ lockline' \in Seq(Messages) /\ IsInjective(lockline')
        /\ ToSet(lockline') = ToSet(lockline) \cup {t}
    BY <2>1, <2>2, JoinLine DEF LockFields
  <2>4. {u \in Messages : In(u)'} = {u \in Messages : In(u)} \cup {t}
    BY <2>1 DEF Fields
  <2> QED BY <2>3, <2>4 DEF LockFields
<1>12. ASSUME NEW t \in Messages, Chat(t) PROVE LockFields'
  <2>1. task[t] = "locking" /\ task' = [task EXCEPT ![t] = "chatting"] /\ lockline' = lockline
    BY <1>12 DEF Chat, Become
  <2> QED BY <1>1, <2>1 DEF Fields
<1>13. ASSUME NEW t \in Messages, ChatEnds(t) \/ LockTimeout(t) PROVE LockFields'
  <2>1. /\ task' = [task EXCEPT ![t] = "ending"] /\ lockline' = Without(lockline, {t})
    BY <1>13 DEF ChatEnds, LockTimeout, Become, Leave
  <2>2. /\ lockline' \in Seq(Messages) /\ IsInjective(lockline')
        /\ ToSet(lockline') = ToSet(lockline) \ {t}
    BY <2>1, WithoutType DEF LockFields
  <2>3. {u \in Messages : In(u)'} = {u \in Messages : In(u)} \ {t}
    BY <2>1 DEF Fields
  <2> QED BY <2>2, <2>3 DEF LockFields
<1>14. ASSUME NEW t \in Messages, EarlyFailure(t) \/ Pause(t) \/ AfterPause(t) PROVE LockFields'
  BY <1>3, <1>14 DEF EarlyFailure, Pause, AfterPause, Become
<1>15. ASSUME NEW t \in Messages, Finalize(t) PROVE LockFields'
  BY <1>3, <1>6, <1>15 DEF Finalize, FinishAndDrain, Become
<1>16. ASSUME NEW t \in Messages, Loop(t) PROVE LockFields'
  BY <1>3, <1>6, <1>16 DEF Loop, Become
<1>17. ASSUME NEW S \in SUBSET Messages, Cancel(S) PROVE LockFields'
  BY <1>2, <1>17 DEF Cancel
<1>18. CASE LeaseExpires \/ AbortBegins \/ AbortMark \/ AbortClear \/ AbortRelease
  BY <1>2, <1>18 DEF LeaseExpires, AbortBegins, AbortMark, AbortClear, AbortRelease
<1>19. CASE AbortKick
  BY <1>5, <1>19 DEF AbortKick
<1>20. CASE UNCHANGED vars
  BY <1>2, <1>20 DEF vars
<1> QED
  BY <1>7, <1>8, <1>9, <1>10, <1>11, <1>12, <1>13, <1>14, <1>15, <1>16, <1>17, <1>18, <1>19, <1>20
  DEF Next, PostNext, TurnNext, TurnFails, AbortNext

(***************************************************************************)
(* The inductive invariant of the dispatcher.                              *)
(***************************************************************************)
Dispatching == OnePlace /\ Fields /\ Awaited /\ Rowless /\ Held /\ LockFields

(* At the start nothing is queued, nobody runs, and no request is under     *)
(* way.                                                                     *)
LEMMA DispatchingInit == Init => Dispatching
<1> SUFFICES ASSUME Init PROVE Dispatching
  OBVIOUS
<1>1. /\ line = <<>> /\ working = {} /\ slot = NoRow /\ over = {}
      /\ <<>> \in Seq(Messages) /\ ToSet(<<>>) = {} /\ IsInjective(<<>>)
  BY EmptyLine DEF Init, Queue!Init
<1>2. /\ post = [p \in Messages |-> NotSent] /\ NotSent \in Post /\ NotSent.at = "new"
      /\ task = [t \in Messages |-> "none"] /\ source = [t \in Messages |-> "none"]
      /\ fate = [t \in Messages |-> "fine"] /\ awaiter = [c \in Messages |-> NoRow]
      /\ lockline = <<>>
  BY DEF Init, NotSent, Post, Pc
<1>3. OnePlace
  BY <1>1 DEF OnePlace
<1>4. Fields
  <2>1. 0 \in 0..MaxAborts
    BY DispatchAssumption
  <2>2. aborts \in 0..MaxAborts
    BY <2>1 DEF Init
  <2>3. /\ "none" \in Task /\ "none" \in Source /\ "fine" \in Fate /\ "idle" \in Abort
    BY DEF Task, Source, Fate, Abort
  <2>4. merging \in BOOLEAN /\ active \in BOOLEAN /\ abort \in Abort
    BY <2>3 DEF Init
  <2>5. corr \in [Messages -> Messages]
    BY DEF Init
  <2>6. post \in [Messages -> Post] /\ awaiter \in [Messages -> Messages \cup {NoRow}]
    BY <1>2
  <2>7. /\ task \in [Messages -> Task] /\ source \in [Messages -> Source]
        /\ fate \in [Messages -> Fate]
    BY <1>2, <2>3
  <2> QED BY <2>2, <2>4, <2>5, <2>6, <2>7 DEF Fields
<1>5. Awaited /\ Held
  BY <1>1, <1>2 DEF Awaited, Held, HeldAt, Alive
<1>6. Rowless
  BY <1>1, <1>2 DEF Rowless, Seen
<1>7. LockFields
  BY <1>1, <1>2 DEF LockFields
<1> QED BY <1>3, <1>4, <1>5, <1>6, <1>7 DEF Dispatching

(* The invariant is inductive: each part from those before it.              *)
LEMMA DispatchingStep == Dispatching /\ [Next]_vars => Dispatching'
BY OnePlaceStep, FieldsStep, PostsStep, RowlessStep, HeldStep, LockFieldsStep DEF Dispatching

(* So it always holds.                                                      *)
LEMMA AlwaysDispatching == Spec => []Dispatching
<1> QED BY DispatchingInit, DispatchingStep, PTL DEF Spec

(* Type correctness of the dispatcher.  Its last part is about the session  *)
(* lock: the turns that wait for it or hold it are queued once each, and    *)
(* nobody else is, so no turn that fails, times out or is answered busy     *)
(* leaves itself in the queue of the lock.                                  *)
THEOREM DispatcherTypes == Spec => []TypeOK
<1>1. Dispatching => TypeOK
  BY DEF Dispatching, OnePlace, Fields, LockFields, TypeOK
<1> QED BY <1>1, AlwaysDispatching, PTL

(* Two turns that own a row never exist at once: the POST that pops a row,  *)
(* the kick, the chain, the resume loop and the abort start a turn only for *)
(* the row they got the slot for, and a turn that ends frees its own slot   *)
(* only.                                                                    *)
THEOREM OneRowTurn == Spec => []RowTurnHoldsSlot
<1>1. Dispatching => RowTurnHoldsSlot
  BY DEF Dispatching, Held, HeldAt, RowTurnHoldsSlot
<1> QED BY <1>1, AlwaysDispatching, PTL

-----------------------------------------------------------------------------
(***************************************************************************)
(* No lost wake-up.  Somebody who will free the session is on the way as   *)
(* long as it is marked active, and somebody who will pop the line as long *)
(* as it waits for a free slot; a paused or dropped turn excuses both.     *)
(***************************************************************************)
Request(p) == ReadDepth(p) \/ SocketSend(p) \/ PostNext(p)
Pressing == {"active again", "slot again", "kick", "direct", "drain?"}
Clearing == {"clear", "release", "kick"}

Marks(t) ==
    \/ source[t] = "fast" /\ (task[t] \in {"starting", "paused"} \/ fate[t] = "early")
    \/ task[t] \in {"locking", "chatting"}
Excused(t) == task[t] \notin Alive /\ fate[t] \in {"paused", "dropped"}

Fresh == \A p \in Messages : post[p].at \in Early => fate[p] = "fine"
Marked == active => (\E p \in Messages : At(p, "fast")) \/ (\E t \in Messages : Marks(t))
Driven ==
    \/ \E p \in Messages : post[p].at \in Pressing
    \/ \E t \in Messages : task[t] = "looping" \/ Excused(t)
    \/ abort \in Clearing
Wakeful == line # <<>> /\ slot = NoRow => Driven

(* Only its own steps move a request that is not answered from elsewhere.   *)
LEMMA OthersStay ==
    ASSUME Dispatching, NEW p \in Messages, Request(p),
           NEW q \in Messages \ {p}, post[q].at \notin {"waiting", "done"}
    PROVE  post'[q] = post[q]
<1>0. OnePlace /\ Fields /\ Awaited
  BY DEF Dispatching
<1>1. CASE ReadDepth(p)
  <2>1. PICK new : post' = [post EXCEPT ![p] = new]
    BY <1>1 DEF ReadDepth
  <2> QED BY <1>0, <2>1 DEF Fields
<1>2. CASE Accept(p)
  <2>1. \A c \in Messages : q # awaiter[c]
    BY <1>0, DispatchAssumption DEF Awaited
  <2>2. post'[q] = post[q] \/ \E c \in Messages : q = awaiter[c]
    <3>1. \A o \in Messages \ {p} :
             post'[o] = post[o] \/ (post'[o].at = "done" /\ \E c \in Messages : o = awaiter[c])
      BY ONLY <1>0, <1>2, Accepts, p \in Messages
    <3> QED BY ONLY <3>1, q \in Messages \ {p}
  <2> QED BY <2>1, <2>2
<1>3. ASSUME NEW where \in Pc, Goto(p, where) PROVE post'[q] = post[q]
  BY <1>0, <1>3, Goes
<1>4. CASE Return(p)
  BY <1>0, <1>4, Returns
<1>5. \/ ReadDepth(p) \/ Accept(p) \/ Return(p)
      \/ \E where \in Pc : Goto(p, where)
  BY DEF Request, PostNext, SocketSend, ReadActive, Decide, OrphanKick, ReadSlot, Kick, Direct,
         Fast, MaybeDrain, Pc
<1> QED BY <1>1, <1>2, <1>3, <1>4, <1>5

Elsewhere ==
    \/ \E t \in Messages : TurnNext(t) \/ TurnFails(t)
    \/ \E S \in SUBSET Messages : Cancel(S)
    \/ LeaseExpires \/ AbortBegins \/ AbortNext \/ UNCHANGED vars

(* Nothing but a request's own steps, or an answer, moves it.               *)
LEMMA RequestsStay ==
    ASSUME Dispatching, Elsewhere, NEW q \in Messages, post[q].at \notin {"waiting", "done"}
    PROVE  post'[q] = post[q]
<1>0. OnePlace /\ Fields /\ Awaited
  BY DEF Dispatching
<1>1. CASE UNCHANGED post
  BY <1>1
<1>3. ASSUME NEW c \in Messages, Answer(c) PROVE post'[q] = post[q]
  <2>1. q # awaiter[c]
    BY <1>0, DispatchAssumption DEF Awaited
  <2> QED BY <1>0, <1>3, <2>1, Answers
<1>4. ASSUME NEW t \in Messages, AfterPause(t) \/ Finalize(t) PROVE post'[q] = post[q]
  <2>1. corr[t] \in Messages
    BY <1>0 DEF Fields
  <2> QED BY <1>1, <1>3, <1>4, <2>1 DEF AfterPause, Finalize
<1>5. CASE AbortMark
  <2>1. slot # NoRow => corr[slot] \in Messages
    BY <1>0 DEF Fields, OnePlace
  <2> QED BY <1>1, <1>3, <1>5, <2>1 DEF AbortMark
<1>6. ASSUME NEW t \in Messages, Lock(t) \/ Chat(t) \/ ChatEnds(t) \/ TurnFails(t) \/ Loop(t)
      PROVE  UNCHANGED post
  BY <1>6 DEF Lock, Chat, ChatEnds, TurnFails, LockTimeout, EarlyFailure, Pause, Loop, Turn
<1>7. ASSUME NEW S \in SUBSET Messages, Cancel(S) PROVE UNCHANGED post
  BY <1>7 DEF Cancel
<1>8. CASE LeaseExpires \/ AbortBegins \/ AbortClear \/ AbortRelease \/ AbortKick \/ UNCHANGED vars
  BY <1>1, <1>8 DEF LeaseExpires, AbortBegins, AbortClear, AbortRelease, AbortKick, vars
<1> QED
  BY <1>1, <1>4, <1>5, <1>6, <1>7, <1>8 DEF Elsewhere, TurnNext, AbortNext

(* Where a request is after a step of its own.                              *)
LEMMA RequestGoes ==
    ASSUME Dispatching, NEW p \in Messages, Request(p)
    PROVE  /\ At(p, "fast") => Fast(p)
           /\ At(p, "active again") => post'[p].at \in {"kick", "slot again"} /\ UNCHANGED queue
           /\ At(p, "slot again") => post'[p].at \in {"kick", "direct"} /\ UNCHANGED queue
           /\ post[p].at \in {"kick", "direct", "drain?"} /\ Popping => Queue!Serve(1, {})
<1>0. Fields
  BY DEF Dispatching
<1>1. At(p, "fast") => Fast(p)
  BY DEF Request, PostNext, ReadDepth, SocketSend, ReadActive, Decide, OrphanKick, Accept,
         ReadSlot, Kick, Direct, MaybeDrain, At
<1>2. At(p, "active again") => ReadActive(p)
  BY DEF Request, PostNext, ReadDepth, SocketSend, Fast, Decide, OrphanKick, Accept,
         ReadSlot, Kick, Direct, MaybeDrain, At
<1>3. At(p, "slot again") => ReadSlot(p)
  BY DEF Request, PostNext, ReadDepth, SocketSend, Fast, Decide, OrphanKick, Accept,
         ReadActive, Kick, Direct, MaybeDrain, At
<1>4. post[p].at \in {"kick", "direct", "drain?"} => Kick(p) \/ Direct(p) \/ MaybeDrain(p)
  BY DEF Request, PostNext, ReadDepth, SocketSend, Fast, Decide, OrphanKick, Accept,
         ReadActive, ReadSlot, At
<1>5. At(p, "active again") => post'[p].at \in {"kick", "slot again"} /\ UNCHANGED queue
  BY <1>0, <1>2, Goes DEF ReadActive, At, Pc
<1>6. At(p, "slot again") => post'[p].at \in {"kick", "direct"} /\ UNCHANGED queue
  BY <1>0, <1>3, Goes DEF ReadSlot, Pc
<1>7. post[p].at \in {"kick", "direct", "drain?"} /\ Popping => Queue!Serve(1, {})
  BY <1>4 DEF Kick, Kicked, Direct, MaybeDrain, Pop
<1> QED BY <1>1, <1>5, <1>6, <1>7

(* The message of a request that has not enqueued has no turn behind it.    *)
LEMMA FreshStep == Dispatching /\ Dispatching' /\ Fresh /\ [Next]_vars => Fresh'
<1> SUFFICES ASSUME Dispatching, Dispatching', Fresh, [Next]_vars,
                    NEW p \in Messages, post'[p].at \in Early
             PROVE  fate'[p] = "fine"
  BY DEF Fresh
<1> USE DEF turn, session, aborter, Local, Turn
<1>0. OnePlace /\ Fields /\ Fields' /\ Awaited /\ Rowless
  BY DEF Dispatching
<1>1. /\ post[p].at \in Early /\ post[p].at # "done" /\ p \notin Seen
      /\ task[p] = "none" /\ fate[p] = "fine"
  BY <1>0, PostsStep DEF Onward, Fresh, Early, Rowless
<1>2. ASSUME NEW t \in Messages, t # p, NEW f, fate' = [fate EXCEPT ![t] = f]
      PROVE  fate'[p] = "fine"
  BY <1>0, <1>1, <1>2 DEF Fields
<1>3. ASSUME Queue!Serve(1, {}) PROVE Head(line) \in Messages /\ Head(line) # p
  BY <1>0, <1>1, <1>3, Pops DEF Seen
<1>4. ASSUME NEW from, Pop(from) PROVE fate'[p] = "fine"
  BY <1>1, <1>4 DEF Pop, Start
<1>5. ASSUME NEW q \in Messages, Direct(q) PROVE fate'[p] = "fine"
  BY <1>1, <1>2, <1>3, <1>4, <1>5 DEF Direct, Dropped
<1>6. ASSUME NEW q \in Messages, Fast(q) PROVE fate'[p] = "fine"
  <2>1. q # p
    BY <1>0, <1>6, Returns DEF Fast, Early
  <2> QED BY <1>1, <1>2, <1>6, <2>1 DEF Fast, Start, Dropped
<1>7. ASSUME NEW q \in Messages, OrphanKick(q) \/ Kick(q) \/ MaybeDrain(q) PROVE fate'[p] = "fine"
  BY <1>4, <1>7 DEF OrphanKick, Kick, Kicked, MaybeDrain
<1>8. ASSUME NEW q \in Messages, \/ ReadDepth(q) \/ SocketSend(q) \/ ReadActive(q) \/ Decide(q)
                                 \/ Accept(q) \/ ReadSlot(q)
      PROVE  fate'[p] = "fine"
  BY <1>1, <1>8 DEF ReadDepth, SocketSend, ReadActive, Decide, Accept, ReadSlot
<1>9. ASSUME NEW t \in Messages, TurnFails(t) PROVE fate'[p] = "fine"
  BY <1>1, <1>2, <1>9 DEF TurnFails, LockTimeout, EarlyFailure, Pause
<1>10. ASSUME NEW t \in Messages, TurnNext(t) PROVE fate'[p] = "fine"
  BY <1>1, <1>10 DEF TurnNext, Lock, Chat, ChatEnds, AfterPause, Finalize, Loop
<1>11. ASSUME NEW S \in SUBSET Messages, Cancel(S) PROVE fate'[p] = "fine"
  BY <1>1, <1>11 DEF Cancel
<1>12. CASE LeaseExpires \/ AbortBegins \/ AbortMark \/ AbortClear \/ AbortRelease \/ UNCHANGED vars
  BY <1>1, <1>12 DEF LeaseExpires, AbortBegins, AbortMark, AbortClear, AbortRelease, vars
<1>13. CASE AbortKick
  BY <1>4, <1>13 DEF AbortKick
<1> QED
  BY <1>5, <1>6, <1>7, <1>8, <1>9, <1>10, <1>11, <1>12, <1>13 DEF Next, PostNext, AbortNext

(* The row that is popped was not the witness of a mark.                    *)
LEMMA PopKeepsMarks ==
    ASSUME Dispatching, NEW fin, Queue!Serve(1, fin), NEW t \in Messages, Marks(t)
    PROVE  t # Head(line)
<1>1. OnePlace /\ Rowless /\ Held
  BY DEF Dispatching
<1>2. Head(line) \in Messages /\ task[Head(line)] \notin Alive /\ Head(line) \in Seen
  BY <1>1, Pops, NoTurnInLine DEF Seen
<1>3. source[Head(line)] # "fast"
  BY <1>1, <1>2 DEF Rowless
<1> QED BY <1>2, <1>3 DEF Marks, Alive, Task

(* The session stays marked active only while somebody will unmark it: a    *)
(* request on the fast path, a fast turn that has not begun its chat, or a  *)
(* turn that waits for the lock or chats.                                   *)
LEMMA MarkedStep == Dispatching /\ Marked /\ [Next]_vars => Marked'
<1> SUFFICES ASSUME Dispatching, Marked, [Next]_vars PROVE Marked'
  OBVIOUS
<1> USE DEF turn, session, aborter, Local, Turn
<1>0. OnePlace /\ Fields /\ Rowless /\ Held
  BY DEF Dispatching
<1>1. ASSUME ~active' PROVE Marked'
  BY <1>1 DEF Marked
<1>2. ASSUME UNCHANGED active,
             \A q \in Messages : At(q, "fast") => post'[q] = post[q],
             \A t \in Messages : Marks(t) => Marks(t)'
      PROVE  Marked'
  BY <1>2 DEF Marked, At
<1>20. ASSUME NEW p \in Messages, Request(p), ~At(p, "fast")
       PROVE  \A q \in Messages : At(q, "fast") => post'[q] = post[q]
  <2>1. ASSUME NEW q \in Messages, At(q, "fast") PROVE post'[q] = post[q]
    <3>1. q # p /\ post[q].at \notin {"waiting", "done"}
      BY <1>20, <2>1 DEF At
    <3> QED BY <1>20, <3>1, OthersStay
  <2> QED BY <2>1
<1>21. ASSUME Elsewhere PROVE \A q \in Messages : At(q, "fast") => post'[q] = post[q]
  BY <1>21, RequestsStay DEF At
<1>3. ASSUME UNCHANGED turn PROVE \A t \in Messages : Marks(t) => Marks(t)'
  BY <1>3 DEF Marks
<1>4. ASSUME NEW fin, Queue!Serve(1, fin),
             \/ Dropped(Head(line))
             \/ \E from : Start(Head(line), from)
      PROVE  \A t \in Messages : Marks(t) => Marks(t)'
  <2> SUFFICES ASSUME NEW t \in Messages, Marks(t) PROVE Marks(t)'
    OBVIOUS
  <2>1. t # Head(line)
    BY <1>4, PopKeepsMarks
  <2>2. PICK h : h = Head(line)
    OBVIOUS
  <2>3. task'[t] = task[t] /\ source'[t] = source[t] /\ fate'[t] = fate[t]
    BY <1>0, <1>4, <2>1, <2>2 DEF Dropped, Start, Fields
  <2> QED BY <2>3 DEF Marks
<1>5. ASSUME NEW from, Pop(from) PROVE \A t \in Messages : Marks(t) => Marks(t)'
  BY <1>3, <1>4, <1>5 DEF Pop
<1>6. ASSUME NEW p \in Messages, Fast(p) PROVE Marked'
  <2>1. CASE Dropped(p) /\ active' = FALSE
    BY <1>1, <2>1
  <2>2. CASE Start(p, "fast")
    <3>1. Marks(p)'
      BY <1>0, <2>2 DEF Start, Marks, Fields
    <3> QED BY <3>1 DEF Marked
  <2> QED BY <1>6, <2>1, <2>2 DEF Fast
<1>7. ASSUME NEW p \in Messages, Decide(p) PROVE Marked'
  <2>1. CASE Goto(p, "fast")
    <3>1. At(p, "fast")'
      BY <1>0, <2>1, Goes DEF At, Pc
    <3> QED BY <3>1 DEF Marked
  <2>2. CASE UNCHANGED active
    <3>1. Request(p) /\ ~At(p, "fast") /\ UNCHANGED turn
      BY <1>7 DEF Decide, At, Request, PostNext
    <3> QED BY <1>2, <1>3, <1>20, <2>2, <3>1
  <2> QED BY <1>7, <2>1, <2>2 DEF Decide
<1>8. ASSUME NEW p \in Messages, \/ ReadDepth(p) \/ SocketSend(p) \/ ReadActive(p) \/ Accept(p)
                                 \/ ReadSlot(p)
      PROVE  Marked'
  <2>1. Request(p) /\ ~At(p, "fast") /\ UNCHANGED <<turn, active>>
    BY <1>8 DEF Request, PostNext, ReadDepth, SocketSend, ReadActive, Accept, ReadSlot, At
  <2> QED BY <1>2, <1>3, <1>20, <2>1
<1>9. ASSUME NEW p \in Messages, OrphanKick(p) \/ Kick(p) \/ MaybeDrain(p) \/ Direct(p)
      PROVE  Marked'
  <2>1. Request(p) /\ ~At(p, "fast") /\ UNCHANGED active
    BY <1>9 DEF Request, PostNext, OrphanKick, Kick, MaybeDrain, Direct, At
  <2>2. \A t \in Messages : Marks(t) => Marks(t)'
    BY <1>4, <1>5, <1>9 DEF OrphanKick, Kick, Kicked, MaybeDrain, Direct
  <2> QED BY <1>2, <1>20, <2>1, <2>2
<1>10. ASSUME NEW t \in Messages, Lock(t) \/ Chat(t) PROVE Marked'
  <2>1. task'[t] \in {"locking", "chatting"}
    BY <1>0, <1>10 DEF Lock, Chat, Become, Fields
  <2> QED BY <2>1 DEF Marked, Marks
<1>11. ASSUME NEW t \in Messages, ChatEnds(t) \/ LockTimeout(t) PROVE Marked'
  BY <1>1, <1>11 DEF ChatEnds, LockTimeout, Leave
<1>12. ASSUME NEW t \in Messages, NEW to, UNCHANGED <<active, source>>, Elsewhere,
              task' = [task EXCEPT ![t] = to],
              \A u \in Messages \ {t} : fate'[u] = fate[u],
              Marks(t) => Marks(t)'
       PROVE  Marked'
  <2>1. \A u \in Messages : Marks(u) => Marks(u)'
    BY <1>0, <1>12 DEF Marks, Fields
  <2> QED BY <1>2, <1>12, <1>21, <2>1
<1>13. ASSUME NEW t \in Messages, EarlyFailure(t) \/ Pause(t) PROVE Marked'
  <2>1. /\ UNCHANGED <<active, source>> /\ Elsewhere
        /\ \E to : task' = [task EXCEPT ![t] = to]
        /\ \A u \in Messages \ {t} : fate'[u] = fate[u]
    BY <1>0, <1>13 DEF EarlyFailure, Pause, Become, Elsewhere, TurnFails, Fields
  <2>2. Marks(t) => Marks(t)'
    BY <1>0, <1>13 DEF EarlyFailure, Pause, Become, Marks, Fields
  <2> QED BY <1>12, <2>1, <2>2
<1>14. ASSUME NEW t \in Messages, AfterPause(t) PROVE Marked'
  <2>1. CASE UNCHANGED active /\ source[t] # "fast"
    <3>1. Elsewhere /\ task[t] = "paused" /\ UNCHANGED <<source, fate>>
          /\ task' = [task EXCEPT ![t] = "done"]
      BY <1>14 DEF AfterPause, Become, Elsewhere, TurnNext
    <3> QED BY <1>12, <2>1, <3>1 DEF Marks
  <2> QED BY <1>1, <1>14, <2>1 DEF AfterPause
<1>15. ASSUME NEW t \in Messages, task[t] \in {"ending", "looping"}, UNCHANGED <<active, source, fate>>,
              Become(t, "done") \/ Become(t, "looping"), Elsewhere
       PROVE  Marked'
  <2>1. Marks(t) => Marks(t)'
    BY <1>15 DEF Marks
  <2> QED BY <1>12, <1>15, <2>1 DEF Become
<1>16. ASSUME NEW t \in Messages, task[t] \in {"ending", "looping"}, UNCHANGED <<active, fate>>,
              NEW fin, Queue!Serve(1, fin), Elsewhere, NEW from,
              task' = [task EXCEPT ![t] = "done", ![Head(line)] = "starting"],
              source' = [source EXCEPT ![Head(line)] = from]
       PROVE  Marked'
  <2>1. ASSUME NEW u \in Messages, Marks(u) PROVE Marks(u)'
    <3>1. u # Head(line)
      BY <1>16, <2>1, PopKeepsMarks
    <3>2. PICK h : h = Head(line)
      OBVIOUS
    <3>3. source'[u] = source[u] /\ fate'[u] = fate[u] /\ (u # t => task'[u] = task[u])
      BY <1>0, <1>16, <3>1, <3>2 DEF Fields
    <3> QED BY <1>16, <2>1, <3>3 DEF Marks
  <2> QED BY <1>2, <1>16, <1>21, <2>1
<1>17. ASSUME NEW t \in Messages, Finalize(t) \/ Loop(t) PROVE Marked'
  <2>1. Elsewhere /\ task[t] \in {"ending", "looping"} /\ UNCHANGED <<active, fate>>
    BY <1>17 DEF Finalize, Loop, Elsewhere, TurnNext
  <2> QED BY <1>15, <1>16, <1>17, <2>1 DEF Finalize, FinishAndDrain, Loop
<1>18. ASSUME NEW S \in SUBSET Messages, Cancel(S) PROVE Marked'
  BY <1>2, <1>3, <1>18, <1>21 DEF Cancel, Elsewhere
<1>19. CASE LeaseExpires \/ AbortBegins \/ AbortMark \/ AbortClear \/ UNCHANGED vars
  <2>1. Elsewhere /\ UNCHANGED <<turn, active>>
    BY <1>19 DEF LeaseExpires, AbortBegins, AbortMark, AbortClear, vars, Elsewhere, AbortNext
  <2> QED BY <1>2, <1>3, <1>21, <2>1
<1>22. CASE AbortRelease
  BY <1>1, <1>22 DEF AbortRelease
<1>23. CASE AbortKick
  <2>1. Elsewhere /\ UNCHANGED active /\ Pop("kick")
    BY <1>23 DEF AbortKick, Elsewhere, AbortNext
  <2> QED BY <1>2, <1>5, <1>21, <2>1
<1> QED
  BY <1>6, <1>7, <1>8, <1>9, <1>10, <1>11, <1>13, <1>14, <1>17, <1>18, <1>19, <1>22, <1>23
  DEF Next, PostNext, TurnNext, TurnFails, AbortNext

(* While the line waits for a free slot, somebody is on the way who pops    *)
(* it: a request that has enqueued, a resume loop, an abort that kicks; or  *)
(* a turn was paused or dropped, and the queue is left to the next message. *)
LEMMA WakefulStep == Dispatching /\ Dispatching' /\ Fresh /\ Wakeful /\ [Next]_vars => Wakeful'
<1> SUFFICES ASSUME Dispatching, Dispatching', Fresh, Wakeful, [Next]_vars,
                    line' # <<>>, slot' = NoRow
             PROVE  Driven'
  BY DEF Wakeful
<1> USE DEF turn, session, aborter, Local, Turn
<1> DEFINE Stirs(t) == task[t] = "looping" \/ Excused(t)
<1>0. OnePlace /\ Fields /\ Fields' /\ Rowless /\ Held
  BY DEF Dispatching
<1>1. ASSUME NEW fin, Queue!Serve(1, fin) PROVE FALSE
  <2>1. slot' \in Messages
    BY <1>0, <1>1, Pops
  <2> QED BY <2>1, DispatchAssumption
<1>2. ASSUME NEW from, Pop(from) PROVE ~Popping /\ UNCHANGED <<queue, turn>>
  BY <1>1, <1>2 DEF Pop
<1>3. ASSUME line # <<>>, slot = NoRow,
             \A q \in Messages : post[q].at \in Pressing => post'[q].at \in Pressing,
             \A t \in Messages : Stirs(t) => Stirs(t)',
             abort \in Clearing => abort' \in Clearing
      PROVE  Driven'
  BY <1>3 DEF Wakeful, Driven
<1>4. ASSUME NEW p \in Messages, Request(p), line # <<>>, slot = NoRow
      PROVE  \A q \in Messages : post[q].at \in Pressing => post'[q].at \in Pressing
  <2> SUFFICES ASSUME NEW q \in Messages, post[q].at \in Pressing PROVE post'[q].at \in Pressing
    OBVIOUS
  <2>1. CASE q # p
    BY <1>4, <2>1, OthersStay DEF Pressing
  <2>2. CASE q = p
    BY <1>1, <1>4, <2>2, RequestGoes DEF Pressing, At, Popping
  <2> QED BY <2>1, <2>2
<1>5. ASSUME Elsewhere
      PROVE  \A q \in Messages : post[q].at \in Pressing => post'[q].at \in Pressing
  BY <1>5, RequestsStay DEF Pressing
<1>6. ASSUME NEW p \in Messages, post'[p].at \in Pressing PROVE Driven'
  BY <1>6 DEF Driven
<1>7. ASSUME NEW t \in Messages, task'[t] = "looping" \/ Excused(t)' PROVE Driven'
  BY <1>7 DEF Driven
<1>8. ASSUME NEW p \in Messages, Request(p), UNCHANGED <<queue, turn, abort>> PROVE Driven'
  <2>1. line # <<>> /\ slot = NoRow
    BY <1>8 DEF queue
  <2>2. \A t \in Messages : Stirs(t) => Stirs(t)'
    BY <1>8 DEF Excused
  <2> QED BY <1>3, <1>4, <1>8, <2>1, <2>2
<1>9. ASSUME NEW p \in Messages, ReadDepth(p) \/ ReadActive(p) \/ Decide(p) \/ ReadSlot(p)
      PROVE  Driven'
  <2>1. Request(p) /\ UNCHANGED <<queue, turn, abort>>
    BY <1>9 DEF Request, PostNext, ReadDepth, ReadActive, Decide, ReadSlot
  <2> QED BY <1>8, <2>1
<1>10. ASSUME NEW p \in Messages, SocketSend(p) \/ Accept(p) PROVE Driven'
  <2>1. Request(p) /\ UNCHANGED <<turn, abort>>
    BY <1>10 DEF Request, PostNext, SocketSend, Accept
  <2>2. UNCHANGED queue \/ post'[p].at \in {"active again", "drain?"}
    BY <1>0, <1>10, Accepts, Goes DEF SocketSend, Pc
  <2> QED BY <1>6, <1>8, <2>1, <2>2 DEF Pressing
<1>11. ASSUME NEW p \in Messages, OrphanKick(p) \/ Kick(p) \/ MaybeDrain(p) \/ Direct(p)
       PROVE  Driven'
  <2>1. Request(p) /\ UNCHANGED abort
    BY <1>11 DEF Request, PostNext, OrphanKick, Kick, MaybeDrain, Direct
  <2>2. UNCHANGED <<queue, turn>>
    BY <1>1, <1>2, <1>11 DEF OrphanKick, Kick, Kicked, MaybeDrain, Direct
  <2> QED BY <1>8, <2>1, <2>2
<1>12. ASSUME NEW p \in Messages, Fast(p) PROVE Driven'
  <2>1. /\ post[p].at = "fast" /\ Request(p) /\ UNCHANGED <<queue, abort>>
        /\ line # <<>> /\ slot = NoRow
    BY <1>12 DEF Fast, At, Request, PostNext, queue
  <2>2. task[p] = "none" /\ fate[p] = "fine"
    BY <1>0, <2>1 DEF Rowless, Fresh, Early
  <2>3. CASE Start(p, "fast")
    <3>1. \A t \in Messages : Stirs(t) => Stirs(t)'
      BY <1>0, <2>2, <2>3 DEF Start, Excused, Fields
    <3> QED BY <1>3, <1>4, <2>1, <3>1
  <2>4. CASE Dropped(p)
    <3>1. Excused(p)'
      BY <1>0, <2>2, <2>4 DEF Dropped, Excused, Fields, Alive
    <3> QED BY <1>7, <3>1
  <2> QED BY <1>12, <2>3, <2>4 DEF Fast
<1>13. ASSUME NEW t \in Messages, NEW to, task[t] \in Alive \ {"looping"}, Elsewhere,
              UNCHANGED <<queue, abort>>, task' = [task EXCEPT ![t] = to],
              \A u \in Messages \ {t} : fate'[u] = fate[u]
       PROVE  Driven'
  <2>1. line # <<>> /\ slot = NoRow
    BY <1>13 DEF queue
  <2>2. \A u \in Messages : Stirs(u) => Stirs(u)'
    BY <1>0, <1>13 DEF Excused, Fields
  <2> QED BY <1>3, <1>5, <1>13, <2>1, <2>2
<1>14. ASSUME NEW t \in Messages, Lock(t) \/ Chat(t) \/ ChatEnds(t) \/ TurnFails(t) PROVE Driven'
  <2>1. /\ task[t] \in Alive \ {"looping"} /\ Elsewhere /\ UNCHANGED <<queue, abort>>
        /\ \E to : task' = [task EXCEPT ![t] = to]
    BY <1>14 DEF Lock, Chat, ChatEnds, TurnFails, LockTimeout, EarlyFailure, Pause, Become,
                 Alive, Task, Elsewhere, TurnNext
  <2>2. \A u \in Messages \ {t} : fate'[u] = fate[u]
    BY <1>0, <1>14 DEF Lock, Chat, ChatEnds, TurnFails, LockTimeout, EarlyFailure, Pause, Fields
  <2> QED BY <1>13, <2>1, <2>2
<1>15. ASSUME NEW t \in Messages, AfterPause(t) PROVE Driven'
  <2>1. fate[t] = "paused" /\ fate' = fate /\ task' = [task EXCEPT ![t] = "done"]
    BY <1>0, <1>15 DEF AfterPause, Become, Held, HeldAt
  <2>2. Excused(t)'
    BY <1>0, <2>1 DEF Excused, Fields, Alive
  <2> QED BY <1>7, <2>2
<1>16. ASSUME NEW S, Ended(S), line = <<>> PROVE FALSE
  <2>1. ToSet(line') = {} /\ line' \in Seq(Messages)
    <3>1. ToSet(line') = ToSet(line) \ S /\ OnePlace'
      BY <1>0, <1>16, Ends
    <3> QED BY <1>16, <3>1, EmptyLine DEF OnePlace
  <2> QED BY <2>1, EmptyLine
<1>17. ASSUME NEW t \in Messages, Finalize(t) PROVE Driven'
  <2>1. CASE source[t] = "fast"
    <3>1. /\ task[t] \in Alive \ {"looping"} /\ Elsewhere /\ UNCHANGED <<queue, abort, fate>>
          /\ task' = [task EXCEPT ![t] = "done"]
      BY <1>17, <2>1 DEF Finalize, Become, Alive, Task, Elsewhere, TurnNext
    <3> QED BY <1>13, <3>1
  <2>2. CASE source[t] \in {"post", "kick", "chain"}
    <3>1. FinishAndDrain(t)
      BY <1>17, <2>2 DEF Finalize
    <3>2. CASE slot \in {NoRow, t} /\ line = <<>>
      BY <1>1, <1>16, <3>1, <3>2 DEF FinishAndDrain, queue
    <3>3. CASE slot \notin {NoRow, t} /\ UNCHANGED queue
      BY <3>3 DEF queue
    <3> QED BY <1>1, <3>1, <3>2, <3>3 DEF FinishAndDrain
  <2>3. CASE source[t] = "resume"
    <3>1. task'[t] = "looping"
      BY <1>0, <1>17, <2>3 DEF Finalize, Become, Fields
    <3> QED BY <1>7, <3>1
  <2> QED BY <1>17, <2>1, <2>2, <2>3 DEF Finalize
<1>18. ASSUME NEW t \in Messages, Loop(t) PROVE FALSE
  <2>1. ~Popping /\ UNCHANGED queue
    BY <1>1, <1>18 DEF Loop
  <2> QED BY <2>1 DEF Popping, queue
<1>19. ASSUME NEW S \in SUBSET Messages, Cancel(S) PROVE Driven'
  <2>1. S \subseteq ToSet(line) /\ Ended(S) /\ UNCHANGED <<turn, abort>> /\ Elsewhere
    BY <1>19, SameLines DEF Cancel, Elsewhere
  <2>2. slot = NoRow
    <3>1. slot' = IF slot \in S THEN NoRow ELSE slot
      BY <2>1 DEF Ended
    <3> QED BY <1>0, <2>1, <3>1 DEF OnePlace
  <2>3. line # <<>>
    BY <1>16, <2>1
  <2>4. \A u \in Messages : Stirs(u) => Stirs(u)'
    BY <2>1 DEF Excused
  <2> QED BY <1>3, <1>5, <2>1, <2>2, <2>3, <2>4
<1>20. CASE LeaseExpires
  <2>1. slot \in Messages /\ slot \in working /\ task[slot] \notin Alive
    BY <1>0, <1>20 DEF LeaseExpires, OnePlace
  <2>2. PICK t \in Messages : t = slot
    BY <2>1
  <2>3. fate[t] \in {"paused", "dropped"} /\ UNCHANGED turn
    BY <1>0, <1>20, <2>1, <2>2 DEF LeaseExpires, Held, HeldAt
  <2>4. Excused(t)'
    BY <2>1, <2>2, <2>3 DEF Excused
  <2> QED BY <1>7, <2>4
<1>21. CASE AbortMark
  BY <1>21 DEF AbortMark, Driven, Clearing
<1>22. CASE AbortClear
  <2>1. line # <<>> => Ended(ToSet(line))
    BY <1>22, SameLines DEF AbortClear
  <2>2. line = <<>> => line' = <<>>
    BY <1>22 DEF AbortClear, queue
  <2>3. line # <<>> => ToSet(line') = {} /\ OnePlace'
    BY <1>0, <2>1, Ends
  <2> QED BY <2>2, <2>3, EmptyLine DEF OnePlace
<1>23. ASSUME UNCHANGED <<queue, turn>>, Elsewhere, abort \in Clearing => abort' \in Clearing
       PROVE  Driven'
  <2>1. line # <<>> /\ slot = NoRow
    BY <1>23 DEF queue
  <2>2. \A u \in Messages : Stirs(u) => Stirs(u)'
    BY <1>23 DEF Excused
  <2> QED BY <1>3, <1>5, <1>23, <2>1, <2>2
<1>24. CASE AbortBegins \/ AbortRelease \/ UNCHANGED vars
  BY <1>23, <1>24 DEF AbortBegins, AbortRelease, vars, Elsewhere, AbortNext, Clearing
<1>25. CASE AbortKick
  <2>1. ~Popping /\ UNCHANGED queue
    BY <1>2, <1>25 DEF AbortKick
  <2> QED BY <2>1 DEF Popping, queue
<1> QED
  BY <1>9, <1>10, <1>11, <1>12, <1>14, <1>15, <1>17, <1>18, <1>19, <1>20, <1>21, <1>22, <1>24, <1>25
  DEF Next, PostNext, TurnNext, AbortNext

(* The three parts about wake-ups always hold.                              *)
LEMMA AlwaysWakeful == Spec => [](Fresh /\ Marked /\ Wakeful)
<1>1. Init => Fresh /\ Marked /\ Wakeful
  BY DEF Init, Queue!Init, Fresh, Marked, Wakeful
<1>2. /\ Dispatching /\ Dispatching' /\ Fresh /\ Marked /\ Wakeful /\ [Next]_vars
      => Fresh' /\ Marked' /\ Wakeful'
  BY FreshStep, MarkedStep, WakefulStep
<1> QED BY <1>1, <1>2, AlwaysDispatching, PTL DEF Spec

(* No lost wake-up: whenever nothing is in flight, the session is free and  *)
(* nothing is left in the queue, unless a credential paused a turn or a     *)
(* POST answered server-busy after it had popped its row.                   *)
THEOREM NoLostWakeUp == Spec => []NothingStranded
<1>1. ASSUME Dispatching, Marked, Wakeful, Idle PROVE SessionIsFree
  <2>1. ToSet(lockline) = {} /\ lockline \in Seq(Messages)
    BY <1>1 DEF Dispatching, LockFields, Idle, Alive, Task
  <2>2. lockline = <<>>
    BY <2>1, EmptyLine
  <2>3. active => \E t \in Messages : Marks(t)
    BY <1>1 DEF Marked, Idle, At
  <2>4. \A t \in Messages : Marks(t) => source[t] = "fast" /\ fate[t] = "early"
    BY <1>1 DEF Marks, Idle, Alive, Task
  <2> QED BY <2>2, <2>3, <2>4 DEF SessionIsFree
<1>2. ASSUME Dispatching, Marked, Wakeful, Idle,
             \A t \in Messages : fate[t] \notin {"paused", "dropped"}
      PROVE  line = <<>> /\ working = {} /\ slot = NoRow
  <2>1. working = {}
    BY <1>2 DEF Dispatching, OnePlace, Held, HeldAt, Idle
  <2>2. slot = NoRow
    BY <1>2, <2>1 DEF Dispatching, OnePlace
  <2>3. ~Driven
    BY <1>2 DEF Driven, Excused, Idle, Pressing, Clearing, Alive, Task
  <2> QED BY <1>2, <2>1, <2>2, <2>3 DEF Wakeful
<1>3. Dispatching /\ Fresh /\ Marked /\ Wakeful => NothingStranded
  BY <1>1, <1>2 DEF NothingStranded
<1> QED BY <1>3, AlwaysDispatching, AlwaysWakeful, PTL

-----------------------------------------------------------------------------
(***************************************************************************)
(* What SessionFifo promises of rows, whichever backend implements it.     *)
(***************************************************************************)
Apart ==
    /\ line \in Seq(Messages) /\ IsInjective(line)
    /\ working \in SUBSET Messages /\ over \in SUBSET Messages
    /\ ToSet(line) \cap working = {} /\ ToSet(line) \cap over = {} /\ working \cap over = {}
    /\ slot \in ToSet(line) \cup working \cup {NoRow}

(* Every operation of a backend leaves them apart.                          *)
LEMMA ApartStep == Apart /\ [Queue!Next]_(Queue!fifo) => Apart'
<1> SUFFICES ASSUME Apart, [Queue!Next]_(Queue!fifo) PROVE Apart'
  OBVIOUS
<1>1. ASSUME NEW r \in Messages, Queue!Join(r) PROVE Apart'
  <2>1. /\ r \notin ToSet(line) \cup working \cup over /\ line' = Append(line, r)
        /\ UNCHANGED <<working, slot, over>>
    BY <1>1, SameLines DEF Queue!Join
  <2>2. line' \in Seq(Messages) /\ ToSet(line') = ToSet(line) \cup {r} /\ IsInjective(line')
    BY <2>1, JoinLine DEF Apart
  <2> QED BY <2>1, <2>2 DEF Apart
<1>2. ASSUME NEW r \in Messages, Queue!Rejoin(r) PROVE Apart'
  <2>1. /\ r \in working /\ line' = <<r>> \o line /\ working' = working \ {r}
        /\ slot' \in {NoRow, slot} /\ over' = over
    BY <1>2 DEF Queue!Rejoin
  <2>2. line' \in Seq(Messages) /\ ToSet(line') = ToSet(line) \cup {r} /\ IsInjective(line')
    BY <2>1, RejoinLine DEF Apart
  <2> QED BY <2>1, <2>2 DEF Apart
<1>3. ASSUME NEW S, Queue!End(S) PROVE Apart'
  <2>1. /\ S \subseteq ToSet(line) \cup working /\ line' = Without(line, S)
        /\ working' = working \ S /\ over' = over \cup S
        /\ slot' \in {NoRow, slot} /\ slot' \notin S
    BY <1>3, SameLines DEF Queue!End
  <2>2. line' \in Seq(Messages) /\ ToSet(line') = ToSet(line) \ S /\ IsInjective(line')
    BY <2>1, WithoutType DEF Apart
  <2>3. ToSet(line) \subseteq Messages
    BY LenProperties, ElementOfSeq DEF ToSet, Apart
  <2> QED BY <2>1, <2>2, <2>3 DEF Apart
<1>4. ASSUME NEW k \in 1..Len(line), NEW fin, Queue!Serve(k, fin) PROVE Apart'
  <2> DEFINE gone == {line[i] : i \in 1..(k - 1)}
             t == SubSeq(line, k + 1, Len(line))
             r == line[k]
  <2>1. /\ fin \subseteq working /\ over' = over \cup fin \cup gone /\ line' = t
        /\ working' = (working \ fin) \cup {r} /\ slot' = r
    BY <1>4 DEF Queue!Serve
  <2>2. /\ t \in Seq(Messages) /\ IsInjective(t)
        /\ ToSet(t) \cup gone \subseteq ToSet(line) /\ ToSet(t) \cap gone = {}
        /\ r \in ToSet(line) /\ r \in Messages /\ r \notin ToSet(t) \cup gone
    BY LeaveUpTo DEF Apart
  <2>3. ToSet(line) \subseteq Messages
    BY LenProperties, ElementOfSeq DEF ToSet, Apart
  <2> HIDE DEF gone, t, r
  <2> QED BY <2>1, <2>2, <2>3 DEF Apart
<1>5. CASE Queue!Lapse
  BY <1>5 DEF Queue!Lapse, Apart
<1>6. CASE UNCHANGED Queue!fifo
  BY <1>6 DEF Queue!fifo, Apart
<1> QED BY <1>1, <1>2, <1>3, <1>4, <1>5, <1>6 DEF Queue!Next

(* Whatever keeps the promise of SessionFifo, Redis, memory or another, has *)
(* each row in one place: waiting, at work or over, waiting once, and never *)
(* the slot with a row that is over.                                        *)
THEOREM FifoKeepsApart == Queue!Spec => []Apart
<1>1. Queue!Init => Apart
  BY EmptyLine DEF Queue!Init, Apart
<1>2. Apart /\ [Queue!Next]_(Queue!fifo) => Apart'
  BY ApartStep
<1> QED BY <1>1, <1>2, PTL DEF Queue!Spec

-----------------------------------------------------------------------------
(***************************************************************************)
(* The dispatcher asks of a backend only what SessionFifo promises, one    *)
(* thing at a time, and starts no turn for a row that is over.             *)
(***************************************************************************)
LEMMA AsksTheQueue ==
    ASSUME Fields, OnePlace, [Next]_vars
    PROVE  [Queue!Next]_(Queue!fifo)
<1>0. ToSet(line) \subseteq Messages /\ working \subseteq Messages
  <2>1. line \in Seq(Messages)
    BY DEF OnePlace
  <2> QED BY <2>1, LenProperties, ElementOfSeq DEF ToSet, OnePlace
<1>1. ASSUME UNCHANGED queue PROVE [Queue!Next]_(Queue!fifo)
  BY <1>1 DEF queue, Queue!fifo
<1>2. ASSUME NEW p \in Messages, Queue!Join(p) PROVE Queue!Next
  BY <1>2 DEF Queue!Next
<1>3. ASSUME NEW fin, Queue!Serve(1, fin) PROVE Queue!Next
  <2>1. fin \in SUBSET working /\ 1 \in 1..Len(line)
    BY <1>3 DEF Queue!Serve
  <2> QED BY <1>3, <2>1 DEF Queue!Next
<1>4. ASSUME NEW S, Ended(S) PROVE Queue!Next
  <2>1. Queue!End(S) /\ S \in SUBSET Messages
    BY <1>0, <1>4, SameLines DEF Ended, Queue!End
  <2> QED BY <2>1 DEF Queue!Next
<1>5. ASSUME NEW p \in Messages, PostNext(p) PROVE [Queue!Next]_(Queue!fifo)
  BY <1>1, <1>2, <1>3, <1>5
  DEF PostNext, ReadActive, Decide, OrphanKick, Accept, Push, Refuse, Merge, Replace, ReadSlot,
      Kick, Kicked, Pop, Direct, Fast, MaybeDrain, Local
<1>6. ASSUME NEW p \in Messages, ReadDepth(p) \/ SocketSend(p) PROVE [Queue!Next]_(Queue!fifo)
  BY <1>1, <1>2, <1>6 DEF ReadDepth, SocketSend
<1>7. ASSUME NEW t \in Messages, TurnNext(t) \/ TurnFails(t) PROVE [Queue!Next]_(Queue!fifo)
  BY <1>1, <1>3, <1>4, <1>7
  DEF TurnNext, TurnFails, Lock, Chat, ChatEnds, AfterPause, MarkFailed, Finalize, FinishAndDrain,
      Loop, LockTimeout, EarlyFailure, Pause, Turn
<1>8. ASSUME NEW S \in SUBSET Messages, Cancel(S) PROVE Queue!Next
  BY <1>4, <1>8 DEF Cancel
<1>9. CASE LeaseExpires
  <2>1. slot \in Messages /\ (Queue!Lapse \/ Queue!Rejoin(slot))
    BY <1>9 DEF LeaseExpires, OnePlace
  <2> QED BY <2>1 DEF Queue!Next
<1>10. CASE AbortBegins \/ AbortNext
  BY <1>1, <1>3, <1>4, <1>10
  DEF AbortBegins, AbortNext, AbortMark, AbortClear, AbortRelease, AbortKick, Pop
<1>11. CASE UNCHANGED vars
  BY <1>1, <1>11 DEF vars
<1> QED BY <1>5, <1>6, <1>7, <1>8, <1>9, <1>10, <1>11 DEF Next

(* The dispatcher implements SessionFifo: however requests, turns, cancels  *)
(* and aborts interleave, what they do to the queue is one operation of a   *)
(* backend at a time, done only when the backend would do it.               *)
THEOREM DispatcherIsFifo == Spec => Queue!Spec
<1>1. Init => Queue!Init
  BY DEF Init
<1>2. Dispatching /\ [Next]_vars => [Queue!Next]_(Queue!fifo)
  BY AsksTheQueue DEF Dispatching
<1> QED BY <1>1, <1>2, AlwaysDispatching, PTL DEF Spec, Queue!Spec

(* A row that is over stays over, and no turn is started for it.            *)
StaysOver ==
    /\ over \subseteq over'
    /\ \A t \in over : task'[t] = "starting" => task[t] = "starting"

LEMMA StaysOverStep ==
    ASSUME OnePlace, Fields, Rowless, [Next]_vars
    PROVE  StaysOver
<1>1. ASSUME NEW t \in Messages \ over, over \subseteq over',
             \A u \in Messages \ {t} : task'[u] = "starting" => task[u] = "starting"
      PROVE  StaysOver
  BY <1>1 DEF StaysOver, OnePlace
<1>2. ASSUME over \subseteq over', \A t \in Messages : task'[t] = "starting" => task[t] = "starting"
      PROVE  StaysOver
  BY <1>2 DEF StaysOver, OnePlace
<1>3. ASSUME NEW S, Ended(S) PROVE over \subseteq over'
  BY <1>3, Ends
<1>4. ASSUME NEW fin, Queue!Serve(1, fin) PROVE Head(line) \in Messages \ over /\ over \subseteq over'
  BY <1>4, Pops
<1>5. ASSUME NEW from, Pop(from) PROVE StaysOver
  <2>1. CASE Queue!Serve(1, {}) /\ Start(Head(line), from)
    BY <1>1, <1>4, <2>1 DEF Start, Fields
  <2>2. CASE UNCHANGED <<queue, turn>>
    BY <1>2, <2>2 DEF queue, turn
  <2> QED BY <1>5, <2>1, <2>2 DEF Pop
<1>6. ASSUME NEW p \in Messages, ReadDepth(p) \/ SocketSend(p) PROVE StaysOver
  <2>1. over' = over /\ task' = task
    BY <1>6, SameLines DEF ReadDepth, SocketSend, queue, turn, Queue!Join
  <2> QED BY <1>2, <2>1
<1>7. ASSUME NEW p \in Messages, ReadActive(p) \/ Decide(p) \/ ReadSlot(p) PROVE StaysOver
  BY <1>2, <1>7 DEF ReadActive, Decide, ReadSlot, queue, turn
<1>8. ASSUME NEW p \in Messages, OrphanKick(p) \/ Kick(p) \/ MaybeDrain(p) PROVE StaysOver
  BY <1>5, <1>8 DEF OrphanKick, Kick, Kicked, MaybeDrain
<1>9. ASSUME NEW p \in Messages, Accept(p) PROVE StaysOver
  <2>1. UNCHANGED queue \/ Queue!Join(p)
    BY <1>9, Accepts
  <2>2. over' = over /\ task' = task
    BY <1>9, <2>1 DEF Accept, turn, queue, Queue!Join
  <2> QED BY <1>2, <2>2
<1>10. ASSUME NEW p \in Messages, Direct(p) PROVE StaysOver
  <2>1. CASE Queue!Serve(1, {}) /\ Dropped(Head(line))
    BY <1>2, <1>4, <2>1 DEF Dropped
  <2> QED BY <1>5, <1>10, <2>1 DEF Direct
<1>11. ASSUME NEW p \in Messages, Fast(p) PROVE StaysOver
  <2>1. p \in Messages \ over /\ over' = over
    BY <1>11 DEF Fast, At, Rowless, Early, Seen, queue
  <2>2. \A u \in Messages \ {p} : task'[u] = task[u]
    BY <1>11 DEF Fast, Start, Dropped, Fields
  <2> QED BY <1>1, <2>1, <2>2
<1>12. ASSUME NEW t \in Messages, Lock(t) \/ Chat(t) \/ ChatEnds(t) \/ TurnFails(t) PROVE StaysOver
  <2>1. over' = over
    BY <1>12 DEF Lock, Chat, ChatEnds, TurnFails, LockTimeout, EarlyFailure, Pause, Turn, queue
  <2>2. \A u \in Messages : task'[u] = "starting" => task[u] = "starting"
    BY <1>12 DEF Lock, Chat, ChatEnds, TurnFails, LockTimeout, EarlyFailure, Pause, Become, Fields
  <2> QED BY <1>2, <2>1, <2>2
<1>13. ASSUME NEW t \in Messages, NEW S, UNCHANGED queue \/ Ended(S),
              Become(t, "done") \/ Become(t, "looping")
       PROVE  StaysOver
  BY <1>2, <1>3, <1>13 DEF queue, Become, Fields
<1>14. ASSUME NEW t \in Messages, NEW fin, Queue!Serve(1, fin),
              task' = [task EXCEPT ![t] = "done", ![Head(line)] = "starting"]
       PROVE  StaysOver
  BY <1>1, <1>4, <1>14 DEF Fields
<1>15. ASSUME NEW t \in Messages, AfterPause(t) PROVE StaysOver
  BY <1>13, <1>15 DEF AfterPause, MarkFailed
<1>16. ASSUME NEW t \in Messages, Finalize(t) PROVE StaysOver
  BY <1>13, <1>14, <1>16 DEF Finalize, FinishAndDrain, MarkFailed
<1>17. ASSUME NEW t \in Messages, Loop(t) PROVE StaysOver
  BY <1>13, <1>14, <1>17 DEF Loop
<1>18. ASSUME NEW S \in SUBSET Messages, Cancel(S) PROVE StaysOver
  BY <1>2, <1>3, <1>18 DEF Cancel, turn
<1>19. CASE LeaseExpires
  BY <1>2, <1>19 DEF LeaseExpires, Queue!Lapse, Queue!Rejoin, turn
<1>20. CASE AbortBegins \/ AbortMark \/ AbortClear \/ AbortRelease
  BY <1>2, <1>3, <1>20 DEF AbortBegins, AbortMark, AbortClear, AbortRelease, queue, turn
<1>21. CASE AbortKick
  BY <1>5, <1>21 DEF AbortKick
<1>22. CASE UNCHANGED vars
  BY <1>2, <1>22 DEF vars, queue, turn
<1> QED
  BY <1>6, <1>7, <1>8, <1>9, <1>10, <1>11, <1>12, <1>15, <1>16, <1>17, <1>18, <1>19, <1>20, <1>21,
     <1>22
  DEF Next, PostNext, TurnNext, AbortNext

(* What ended stays ended: a row that was cancelled, aborted, failed or     *)
(* completed never gets a turn after that, whoever pops the queue when.     *)
THEOREM EndedNeverStarts == Spec => [][StaysOver]_vars
<1>1. Dispatching /\ [Next]_vars => StaysOver
  BY StaysOverStep DEF Dispatching
<1> QED BY <1>1, AlwaysDispatching, PTL DEF Spec

-----------------------------------------------------------------------------
(***************************************************************************)
(* The log of a session.  Its queue is called backlog here.                *)
(*                                                                         *)
(* A number is given to an event at two places, by the bus when it is      *)
(* emitted and by the store when it is accepted, and the two counters      *)
(* forget: the bus after a pause, both in a crash.  The argument is that   *)
(* whichever counter comes next, it goes on after every event of this life *)
(* (NextBeyond) and after whatever is on its way to the disk               *)
(* (NextIsBeyond), because what a forgotten counter starts from, memory or *)
(* meta.json, has by then caught up with the log (Ordered), and meta.json  *)
(* has not run ahead of what is queued (Flowing).                          *)
(***************************************************************************)
(* The operators of the log, instantiated, are those of Lines.              *)
LEMMA LogLines ==
    /\ \A S, score : Log!Arranged(S, score) = Arranged(S, score)
    /\ \A s : Log!ToSet(s) = ToSet(s)
    /\ \A s : Log!Last(s) = s[Len(s)]
<1>1. \A S : Log!Cardinality(S) = Cardinality(S)
  BY DEF Log!Cardinality, Cardinality
<1> QED BY <1>1 DEF Log!Arranged, Arranged, Log!ToSet, ToSet, Log!Last

(* What the prover has to know of a line of events.                         *)
LEMMA EventLine ==
    ASSUME NEW R, NEW s \in Seq(R)
    PROVE  /\ Len(s) \in Nat /\ DOMAIN s = 1..Len(s)
           /\ \A k \in 1..Len(s) : s[k] \in R /\ s[k] \in ToSet(s)
           /\ \A e \in ToSet(s) : e \in R /\ \E k \in 1..Len(s) : s[k] = e
           /\ s # <<>> <=> Len(s) > 0
<1>1. Len(s) \in Nat /\ DOMAIN s = 1..Len(s) /\ \A k \in 1..Len(s) : s[k] \in R
  BY LenProperties
<1>2. s # <<>> <=> Len(s) > 0
  BY EmptySeq
<1> QED BY <1>1, <1>2 DEF ToSet

LEMMA EventFields ==
    \A e \in Log!Event : /\ e.id \in 1..MaxCalls /\ e.seq \in Nat /\ e.seq > 0
                         /\ e.life \in 0..MaxCrashes
BY DEF Log!Event

-----------------------------------------------------------------------------
(* What the flusher takes of its queue: each number beyond meta.json once,  *)
(* in their order; and everything, when the numbers in the queue rise.      *)
Ascending(s) == \A i, j \in 1..Len(s) : i < j => s[i].seq < s[j].seq

LEMMA ChosenLined ==
    ASSUME NEW s \in Seq(Log!Event)
    PROVE  Lined(Log!Chosen(s), [e \in Log!Chosen(s) |-> e.seq])
<1> DEFINE S == Log!Chosen(s)
           score == [e \in Log!Chosen(s) |-> e.seq]
<1>0. Len(s) \in Nat /\ \A k \in 1..Len(s) : s[k] \in Log!Event /\ s[k].seq \in Nat
  BY EventLine, EventFields
<1>1. \A e \in S : \E k \in 1..Len(s) :
          s[k] = e /\ \A j \in 1..(k - 1) : s[j].seq # s[k].seq
  BY DEF Log!Chosen
<1>2. \A e \in S : score[e] = e.seq
  OBVIOUS
<1> HIDE DEF S, score
<1>3. \A e \in S : e.seq \in Nat
  BY <1>0, <1>1
<1>4. ASSUME NEW d \in S, NEW e \in S, d.seq = e.seq PROVE d = e
  <2>1. PICK k \in 1..Len(s) : s[k] = d /\ \A j \in 1..(k - 1) : s[j].seq # s[k].seq
    BY <1>1
  <2>2. PICK m \in 1..Len(s) : s[m] = e /\ \A j \in 1..(m - 1) : s[j].seq # s[m].seq
    BY <1>1
  <2>3. ~(k < m) /\ ~(m < k)
    <3>1. k < m => k \in 1..(m - 1)
      BY <1>0
    <3>2. m < k => m \in 1..(k - 1)
      BY <1>0
    <3> QED BY <1>4, <2>1, <2>2, <3>1, <3>2
  <2>4. k = m
    BY <1>0, <2>3
  <2> QED BY <2>1, <2>2, <2>4
<1> DEFINE f == [k \in 1..Len(s) |-> s[k].seq]
<1>5. \A k \in 1..Len(s) : f[k] \in Nat /\ f[k] = s[k].seq
  BY <1>0
<1> HIDE DEF f
<1>6. PICK b \in Nat : \A k \in 1..Len(s) : f[k] <= b
  BY <1>0, <1>5, NumbersBounded
<1>7. \A e \in S : score[e] <= b
  BY <1>1, <1>2, <1>5, <1>6
<1>8. (\A e \in S : score[e] \in Nat) /\ \A d, e \in S : score[d] = score[e] => d = e
  BY <1>2, <1>3, <1>4
<1>9. Lined(S, score)
  BY <1>7, <1>8, ByScoreExists
<1> QED BY <1>9 DEF S, score

LEMMA KeptLine ==
    ASSUME NEW s \in Seq(Log!Event)
    PROVE  /\ Log!Kept(s) \in Seq(Log!Event) /\ Ascending(Log!Kept(s))
           /\ ToSet(Log!Kept(s)) = Log!Chosen(s)
           /\ \A e \in Log!Chosen(s) : e \in ToSet(s) /\ e.seq > meta
<1> DEFINE S == Log!Chosen(s)
           score == [e \in Log!Chosen(s) |-> e.seq]
<1>0. \A e \in S : e \in ToSet(s) /\ e \in Log!Event /\ e.seq > meta
  BY EventLine DEF Log!Chosen, Log!Newer
<1>1. PICK out : ByScore(out, S, score)
  BY ChosenLined DEF Lined
<1>2. Log!Kept(s) = out
  BY <1>1, ArrangedIs, LogLines DEF Log!Kept
<1>3. out \in Seq(S) /\ ToSet(out) = S
  BY <1>1 DEF ByScore
<1>4. out \in Seq(Log!Event)
  BY <1>0, <1>3, SeqMonotonic
<1>5. Ascending(out)
  <2>1. \A i \in 1..Len(out) : out[i] \in S
    BY <1>3, EventLine
  <2> QED BY <1>1, <2>1 DEF ByScore, Ascending
<1> QED BY <1>0, <1>2, <1>3, <1>4, <1>5

LEMMA KeptAll ==
    ASSUME NEW s \in Seq(Log!Event), meta \in Nat, Ascending(s), \A e \in ToSet(s) : meta < e.seq
    PROVE  ToSet(Log!Kept(s)) = ToSet(s)
<1>1. Len(s) \in Nat /\ \A k \in 1..Len(s) : s[k] \in ToSet(s) /\ s[k].seq \in Nat
  BY EventLine, EventFields
<1>2. \A k \in 1..Len(s) : \A j \in 1..(k - 1) : s[j].seq # s[k].seq
  <2> SUFFICES ASSUME NEW k \in 1..Len(s), NEW j \in 1..(k - 1) PROVE s[j].seq # s[k].seq
    OBVIOUS
  <2>1. j \in 1..Len(s) /\ j < k
    BY <1>1
  <2>2. s[j].seq < s[k].seq
    BY <2>1 DEF Ascending
  <2> QED BY <1>1, <2>1, <2>2
<1>3. \A k \in 1..Len(s) : s[k].seq > meta
  BY <1>1
<1>4. \A k \in 1..Len(s) : s[k] \in Log!Chosen(s)
  BY <1>2, <1>3 DEF Log!Chosen, Log!Newer
<1>5. ToSet(s) \subseteq Log!Chosen(s)
  BY <1>4, EventLine
<1> QED BY <1>5, KeptLine

-----------------------------------------------------------------------------
(***************************************************************************)
(* Types, and what is known of the calls inside open.                      *)
(***************************************************************************)
LogFields ==
    /\ Log!Bounded
    /\ wire \in Nat /\ alloc \in Nat /\ meta \in Nat /\ copy \in Nat
    /\ loaded \in BOOLEAN /\ pinned \in BOOLEAN /\ evicting \in BOOLEAN
    /\ mem \in Seq(Log!Event) /\ backlog \in Seq(Log!Event) /\ batch \in Seq(Log!Event)
    /\ log \in Seq(Log!Event)
    /\ writer \in {"idle", "writing", "logged"}
    /\ tail \in {"clean", "torn", "unreadable"}
    /\ orphan \in {"boot", "read", "done"}
    /\ calls \in 0..MaxCalls /\ life \in 0..MaxCrashes /\ failures \in 0..MaxFailures
    /\ mishaps \subseteq Log!Mishap
    /\ ~loaded => mem = <<>>
    /\ writer = "idle" <=> batch = <<>>
    /\ writer = "logged" => Len(batch) = 1

(* Two calls in open are different ones; whoever awaits the upsert has      *)
(* loaded the session, which nobody evicts meanwhile; and the bus does not  *)
(* forget its counter while an event waits or is on its way to the disk.    *)
Numbering == {w \in waiting : w.kind = "event"}

Opening ==
    /\ waiting \subseteq Log!Call
    /\ \A v, w \in waiting : v.id = w.id => v = w
    /\ \A w \in waiting : w.id <= calls /\ (w.at = "upsert" => loaded)
    /\ \A w \in Numbering : w.seq \in 1..wire
    /\ evicting => loaded /\ waiting = {}
    /\ wire = 0 => backlog = <<>> /\ batch = <<>>

(* The next numbers are numbers, and new to their own counter.              *)
LEMMA LogNumbers ==
    ASSUME LogFields
    PROVE  /\ Log!TailSeq(mem) \in Nat /\ Log!TailSeq(log) \in Nat
           /\ Log!NextWire \in Nat /\ Log!NextWire > 0 /\ Log!NextWire > wire
           /\ Log!NextAlloc \in Nat /\ Log!NextAlloc > 0 /\ Log!NextAlloc > alloc
<1>1. ASSUME NEW s \in Seq(Log!Event) PROVE Log!TailSeq(s) \in Nat
  <2>1. s # <<>> => s[Len(s)] \in Log!Event
    BY EventLine
  <2> QED BY <2>1, EventFields, LogLines DEF Log!TailSeq
<1>2. Log!TailSeq(mem) \in Nat /\ Log!TailSeq(log) \in Nat
  BY <1>1 DEF LogFields
<1> QED BY <1>2 DEF LogFields, Log!NextWire, Log!NextAlloc, Log!Larger

(* An event that is accepted is in memory, and queued unless that failed.   *)
Stored(e) ==
    /\ e \in Log!Event /\ e.life = life
    /\ mem' = Append(mem, e)
    /\ backlog' = Append(backlog, e) \/ (backlog' = backlog /\ "lost" \in mishaps')
    /\ mishaps \subseteq mishaps' /\ mishaps' \subseteq mishaps \cup {"overtaken", "lost"}
    /\ "overtaken" \notin mishaps' => \A w \in waiting : w.id # e.id => w.seq \notin 1..e.seq
    /\ failures' \in 0..MaxFailures
    /\ UNCHANGED <<batch, writer, log, tail, meta, evicting, orphan, copy, life>>

LEMMA EnterStores ==
    ASSUME LogFields, NEW i \in 1..MaxCalls, NEW n \in Nat, n > 0, Log!Enter(i, n)
    PROVE  Stored([id |-> i, seq |-> n, life |-> life])
<1> DEFINE e == [id |-> i, seq |-> n, life |-> life]
<1>1. e \in Log!Event /\ e.life = life /\ e.id = i /\ e.seq = n
  BY DEF LogFields, Log!Event
<1>2. /\ mem' = Append(mem, e)
      /\ backlog' = Append(backlog, e) \/ (backlog' = backlog /\ "lost" \in mishaps')
      /\ mishaps \subseteq mishaps' /\ mishaps' \subseteq mishaps \cup {"overtaken", "lost"}
  BY DEF Log!Enter, Log!Overtaken
<1>3. "overtaken" \notin mishaps' => \A w \in waiting : w.id # i => w.seq \notin 1..n
  BY DEF Log!Enter, Log!Overtaken
<1>4. failures' \in 0..MaxFailures
  BY DEF Log!Enter, Log!Fail, LogFields, Log!Bounded
<1>5. UNCHANGED <<batch, writer, log, tail, meta, evicting, orphan, copy, life>>
  BY DEF Log!Enter, Log!disk
<1> HIDE DEF e
<1>6. Stored(e)
  BY <1>1, <1>2, <1>3, <1>4, <1>5 DEF Stored
<1> QED BY <1>6 DEF e

(* All that the acceptance of an event does, whichever call it is of.       *)
Numbered(e) ==
    \/ e.seq = Log!NextWire /\ alloc' = Log!Larger(alloc, e.seq)
    \/ e.seq = Log!NextAlloc /\ alloc' = e.seq
    \/ alloc' = Log!Larger(alloc, e.seq) /\ \E w \in Numbering : w.id = e.id /\ w.seq = e.seq

Accepted(e) ==
    /\ Stored(e) /\ Numbered(e)
    /\ loaded /\ loaded' = loaded /\ pinned' \in BOOLEAN
    /\ calls' \in 0..MaxCalls /\ calls <= calls' /\ e.id <= calls'
    /\ e.id = calls + 1 \/ \E w \in waiting : w.id = e.id
    /\ waiting' = {w \in waiting : w.id # e.id}
    /\ wire' \in Nat /\ wire <= wire' /\ e.seq <= wire'

(* A call that does not find the session asks to open it.                   *)
Asked(w) ==
    /\ ~loaded /\ w \in Log!Call /\ w.id = calls + 1 /\ w.at = "lock" /\ w.id \in 1..MaxCalls
    /\ waiting' = waiting \cup {w} /\ calls' = calls + 1
    /\ IF w.kind = "event" THEN w.seq = Log!NextWire /\ wire' = Log!NextWire ELSE wire' = wire
    /\ UNCHANGED <<alloc, loaded, pinned, mem, backlog, batch, writer, log, tail, meta,
                   evicting, orphan, copy, life, failures, mishaps>>

Accepting ==
    \/ loaded /\ (Log!EmitEvent \/ Log!RecordMessage)
    \/ \E w \in waiting : w.kind # "read" /\ (Log!Join(w) \/ Log!Resume(w))

LEMMA AcceptsOne ==
    ASSUME LogFields, Opening, Accepting
    PROVE  \E e : Accepted(e)
<1>0. /\ Log!NextWire \in Nat /\ Log!NextWire > 0 /\ Log!NextWire > wire
      /\ Log!NextAlloc \in Nat /\ Log!NextAlloc > 0 /\ Log!NextAlloc > alloc
  BY LogNumbers
<1>1. CASE loaded /\ (Log!EmitEvent \/ Log!RecordMessage)
  <2> DEFINE n == IF Log!EmitEvent THEN Log!NextWire ELSE Log!NextAlloc
             e == [id |-> calls + 1, seq |-> n, life |-> life]
  <2>1. calls + 1 \in 1..MaxCalls /\ calls' = calls + 1
    <3>1. Log!Issue
      BY <1>1 DEF Log!EmitEvent, Log!RecordMessage
    <3> QED BY <3>1 DEF Log!Issue, LogFields, Log!Bounded
  <2>2. n \in Nat /\ n > 0
    BY <1>0
  <2>3. Log!Enter(calls + 1, n)
    BY <1>1 DEF Log!EmitEvent, Log!RecordMessage, Log!AcceptEvent, Log!AcceptMessage
  <2>4. Stored(e)
    BY <2>1, <2>2, <2>3, EnterStores
  <2>5. e.id = calls + 1 /\ e.seq = n
    OBVIOUS
  <2>6. Numbered(e)
    BY <1>1, <2>5 DEF Log!EmitEvent, Log!RecordMessage, Log!AcceptEvent, Log!AcceptMessage, Numbered
  <2>7. waiting' = waiting /\ loaded' = loaded /\ pinned' = pinned
    BY <1>1 DEF Log!EmitEvent, Log!RecordMessage
  <2>8. wire' \in Nat /\ wire <= wire' /\ n <= wire'
    <3>1. CASE Log!EmitEvent
      BY <1>0, <3>1 DEF Log!EmitEvent, LogFields
    <3>2. CASE ~Log!EmitEvent
      <4>1. wire' = Log!Larger(Log!Larger(wire, 0), Log!NextAlloc)
        BY <1>1, <3>2 DEF Log!RecordMessage, Log!AcceptMessage
      <4> QED BY <1>0, <3>2, <4>1 DEF LogFields, Log!Larger
    <3> QED BY <3>1, <3>2
  <2> HIDE DEF e, n
  <2>9. \A w \in waiting : w.id # e.id
    <3>1. \A w \in waiting : w.id \in Int /\ w.id <= calls
      BY DEF Opening, Log!Call
    <3> QED BY <2>5, <3>1 DEF LogFields
  <2>10. waiting' = {w \in waiting : w.id # e.id}
    BY <2>7, <2>9
  <2>11. calls \in Nat /\ MaxCalls \in Nat /\ pinned \in BOOLEAN
    BY DEF LogFields, Log!Bounded
  <2>12. Accepted(e)
    BY <1>1, <2>1, <2>4, <2>5, <2>6, <2>7, <2>8, <2>10, <2>11 DEF Accepted
  <2> QED BY <2>12
<1>2. ASSUME NEW w \in waiting, w.kind # "read", Log!Join(w) \/ Log!Resume(w)
      PROVE  \E e : Accepted(e)
  <2> DEFINE n == IF w.kind = "event" THEN w.seq ELSE Log!NextAlloc
             e == [id |-> w.id, seq |-> n, life |-> life]
  <2>0. /\ w.id \in 1..MaxCalls /\ w.id <= calls /\ w.kind \in {"event", "message"}
        /\ w.seq \in Nat /\ (w.kind = "event" => w.seq \in 1..wire)
    BY <1>2 DEF Opening, Log!Call, Numbering
  <2>1. n \in Nat /\ n > 0
    BY <1>0, <2>0 DEF LogFields
  <2>2. Log!Enter(w.id, n)
    BY <1>2, <2>0 DEF Log!Join, Log!Resume, Log!AcceptEvent, Log!AcceptMessage
  <2>3. Stored(e)
    BY <2>0, <2>1, <2>2, EnterStores
  <2>4. e.id = w.id /\ e.seq = n
    OBVIOUS
  <2>5. Numbered(e)
    <3>1. CASE w.kind = "event"
      <4>1. alloc' = Log!Larger(alloc, n) /\ w \in Numbering
        BY <1>2, <3>1 DEF Log!Join, Log!Resume, Log!AcceptEvent, Numbering
      <4> QED BY <2>4, <3>1, <4>1 DEF Numbered
    <3>2. CASE w.kind # "event"
      <4>1. alloc' = n
        BY <1>2, <2>0, <3>2 DEF Log!Join, Log!Resume, Log!AcceptMessage
      <4> QED BY <2>4, <3>2, <4>1 DEF Numbered
    <3> QED BY <3>1, <3>2
  <2>6. loaded /\ loaded' = loaded /\ pinned' \in BOOLEAN /\ calls' = calls /\ waiting' = waiting \ {w}
    BY <1>2 DEF Log!Join, Log!Resume, Opening, LogFields
  <2>7. wire' \in Nat /\ wire <= wire' /\ n <= wire'
    <3>1. CASE w.kind = "event"
      <4>1. wire' = wire \/ wire' = Log!Larger(wire, Log!TailSeq(mem))
        BY <1>2, <3>1 DEF Log!Join, Log!Resume
      <4>2. wire \in Nat /\ Log!TailSeq(mem) \in Nat
        BY LogNumbers DEF LogFields
      <4>3. wire' \in Nat /\ wire <= wire'
        BY <4>1, <4>2 DEF Log!Larger
      <4> QED BY <2>0, <3>1, <4>2, <4>3
    <3>2. CASE w.kind # "event"
      <4>1. \E m \in {0, Log!TailSeq(mem)} : wire' = Log!Larger(Log!Larger(wire, m), Log!NextAlloc)
        BY <1>2, <2>0, <3>2 DEF Log!Join, Log!Resume, Log!AcceptMessage
      <4> QED BY <1>0, <3>2, <4>1, LogNumbers DEF LogFields, Log!Larger
    <3> QED BY <3>1, <3>2
  <2> HIDE DEF e, n
  <2>8. waiting' = {v \in waiting : v.id # e.id}
    BY <2>4, <2>6 DEF Opening
  <2> QED BY <2>0, <2>3, <2>4, <2>5, <2>6, <2>7, <2>8 DEF Accepted, LogFields
<1> QED BY <1>1, <1>2 DEF Accepting

LEMMA Asks ==
    ASSUME LogFields, (~loaded /\ (Log!EmitEvent \/ Log!RecordMessage)) \/ Log!Read
    PROVE  \E w : Asked(w)
<1>0. Log!NextWire \in Nat /\ Log!NextWire > 0
  BY LogNumbers
<1>1. calls + 1 \in 1..MaxCalls /\ calls' = calls + 1 /\ ~loaded
  BY DEF Log!EmitEvent, Log!RecordMessage, Log!Read, Log!Issue, LogFields, Log!Bounded
<1>2. ASSUME NEW kind \in {"event", "message", "read"}, NEW n \in Nat, Log!AskToOpen(kind, n),
             IF kind = "event" THEN n = Log!NextWire /\ wire' = Log!NextWire ELSE wire' = wire
      PROVE  \E w : Asked(w)
  <2> DEFINE w == [id |-> calls + 1, kind |-> kind, seq |-> n, at |-> "lock"]
  <2>1. /\ w \in Log!Call /\ w.id = calls + 1 /\ w.at = "lock" /\ w.id \in 1..MaxCalls
        /\ w.kind = kind /\ w.seq = n
    BY <1>1 DEF Log!Call
  <2>2. waiting' = waiting \cup {w}
    BY <1>2 DEF Log!AskToOpen
  <2> HIDE DEF w
  <2> QED BY <1>1, <1>2, <2>1, <2>2 DEF Asked, Log!AskToOpen, Log!session, Log!flusher, Log!disk
<1>3. CASE ~loaded /\ Log!EmitEvent
  <2>1. Log!AskToOpen("event", Log!NextWire) /\ wire' = Log!NextWire
    BY <1>3 DEF Log!EmitEvent
  <2> QED BY <1>0, <1>2, <2>1
<1>4. CASE (~loaded /\ Log!RecordMessage) \/ Log!Read
  <2>1. \E kind \in {"message", "read"} : Log!AskToOpen(kind, 0) /\ wire' = wire
    BY <1>4 DEF Log!RecordMessage, Log!Read
  <2> QED BY <1>2, <2>1
<1> QED BY <1>3, <1>4

(* What a step is.                                                          *)
LEMMA LogSteps ==
    ASSUME LogFields, Opening, [Log!Next]_(Log!vars)
    PROVE  \/ \E e : Accepted(e)
           \/ \E w : Asked(w)
           \/ Log!EmitToken
           \/ \E w \in waiting : Log!Load(w) \/ (w.kind = "read" /\ (Log!Join(w) \/ Log!Resume(w)))
           \/ Log!Gather \/ Log!AppendLine \/ Log!WriteMeta \/ Log!WriteFails
           \/ Log!EvictFlush \/ Log!EvictDrop \/ Log!ForgetCounter
           \/ Log!OrphanRead \/ Log!OrphanWrite \/ Log!Crash
           \/ UNCHANGED Log!vars
BY AcceptsOne, Asks DEF Log!Next, Accepting

-----------------------------------------------------------------------------
(* The variables of the log keep their types.                               *)
LEMMA LogFieldsStep ==
    ASSUME LogFields, Opening, [Log!Next]_(Log!vars)
    PROVE  LogFields'
<1>0. Log!Bounded /\ calls \in Nat /\ life \in Nat /\ failures \in Nat /\ wire \in Nat /\ alloc \in Nat
  BY DEF LogFields, Log!Bounded
<1>1. ASSUME NEW e, Accepted(e) PROVE LogFields'
  <2>1. e \in Log!Event /\ mem' \in Seq(Log!Event) /\ backlog' \in Seq(Log!Event)
    <3>1. /\ e \in Log!Event /\ mem \in Seq(Log!Event) /\ backlog \in Seq(Log!Event)
          /\ mem' = Append(mem, e) /\ (backlog' = Append(backlog, e) \/ backlog' = backlog)
      BY <1>1 DEF Accepted, Stored, LogFields
    <3>2. Append(mem, e) \in Seq(Log!Event) /\ Append(backlog, e) \in Seq(Log!Event)
      BY ONLY <3>1, JoinLine
    <3> QED BY <3>1, <3>2
  <2>2. alloc' \in Nat
    BY <1>0, <1>1, <2>1, EventFields DEF Accepted, Numbered, Log!Larger
  <2>3. mishaps' \subseteq Log!Mishap
    BY <1>1 DEF Accepted, Stored, LogFields, Log!Mishap
  <2> QED BY <1>1, <2>1, <2>2, <2>3 DEF Accepted, Stored, LogFields, Log!Bounded
<1>2. ASSUME NEW w, Asked(w) PROVE LogFields'
  <2>1. wire' \in Nat /\ calls' \in 0..MaxCalls
    BY <1>0, <1>2, LogNumbers DEF Asked
  <2> QED BY <1>2, <2>1 DEF Asked, LogFields, Log!Bounded
<1>3. CASE Log!EmitToken
  <2>1. wire' \in Nat /\ calls' \in 0..MaxCalls
    BY <1>0, <1>3, LogNumbers DEF Log!EmitToken, Log!Issue, Log!Bounded
  <2> QED BY <1>3, <2>1 DEF Log!EmitToken, LogFields, Log!Bounded, Log!session, Log!flusher, Log!disk,
                            Log!tasks
<1>4. ASSUME NEW w \in waiting, Log!Load(w) PROVE LogFields'
  BY <1>4 DEF Log!Load, LogFields, Log!Bounded, Log!counters, Log!flusher, Log!disk, Log!history
<1>5. ASSUME NEW w \in waiting, w.kind = "read", Log!Join(w) \/ Log!Resume(w) PROVE LogFields'
  <2>1. /\ wire' = wire \/ wire' = Log!Larger(wire, Log!TailSeq(mem))
        /\ pinned' \in BOOLEAN
        /\ UNCHANGED <<alloc, loaded, mem, backlog, batch, writer, log, tail, meta, evicting,
                       orphan, copy, calls, life, failures, mishaps>>
    BY <1>5 DEF Log!Join, Log!Resume, LogFields, Log!counters, Log!flusher, Log!disk
  <2>2. wire' \in Nat
    BY <1>0, <2>1, LogNumbers DEF Log!Larger
  <2> QED BY <2>1, <2>2 DEF LogFields, Log!Bounded
<1>6. CASE Log!Gather
  <2>1. batch' \in Seq(Log!Event)
    BY <1>6, KeptLine DEF Log!Gather, LogFields
  <2>2. /\ backlog' = <<>> /\ writer' \in {"idle", "writing"} /\ (writer' = "idle" <=> batch' = <<>>)
        /\ UNCHANGED <<wire, alloc, loaded, pinned, mem, log, tail, meta, waiting, evicting,
                       orphan, copy, calls, life, failures, mishaps>>
    BY <1>6 DEF Log!Gather, Log!counters, Log!session, Log!disk, Log!tasks, Log!history
  <2> QED BY <2>1, <2>2, EmptyLine DEF LogFields, Log!Bounded
<1>7. CASE Log!AppendLine
  <2>1. batch # <<>> /\ writer = "writing"
    BY <1>7 DEF Log!AppendLine, LogFields
  <2>2. batch \in Seq(Log!Event) /\ Head(batch) \in Log!Event /\ Tail(batch) \in Seq(Log!Event)
    BY <2>1, LeaveLine DEF LogFields
  <2>3. log' \in Seq(Log!Event)
    <3>1. log' = log \/ log' = Append(log, Head(batch))
      BY <1>7 DEF Log!AppendLine
    <3>2. log \in Seq(Log!Event)
      BY DEF LogFields
    <3>3. Append(log, Head(batch)) \in Seq(Log!Event)
      BY ONLY <2>2, <3>2, JoinLine
    <3> QED BY <3>1, <3>2, <3>3
  <2>4. /\ batch' \in Seq(Log!Event) /\ batch' # <<>> /\ writer' \in {"writing", "logged"}
        /\ writer' = "logged" => Len(batch') = 1
    <3>1. Len(batch) \in Nat /\ Len(batch) > 0
      BY <2>1, <2>2, EventLine
    <3>2. CASE Len(batch) = 1
      BY <1>7, <2>1, <2>2, <3>2 DEF Log!AppendLine
    <3>3. CASE Len(batch) # 1
      <4>1. batch' = Tail(batch) /\ writer' = writer
        BY <1>7, <3>3 DEF Log!AppendLine
      <4>2. Len(Tail(batch)) = Len(batch) - 1
        BY <2>1, <2>2, HeadTailProperties
      <4>3. Tail(batch) # <<>>
        <5>1. Len(Tail(batch)) # 0
          BY <3>1, <3>3, <4>2
        <5> QED BY ONLY <2>2, <5>1, EmptySeq
      <4> QED BY <2>1, <2>2, <4>1, <4>3
    <3> QED BY <3>2, <3>3
  <2>5. tail' \in {"clean", "unreadable"} /\ mishaps' \subseteq Log!Mishap
    BY <1>7 DEF Log!AppendLine, LogFields, Log!Mishap
  <2> QED BY <1>7, <2>3, <2>4, <2>5
          DEF Log!AppendLine, LogFields, Log!Bounded, Log!counters, Log!session, Log!tasks
<1>8. CASE Log!WriteMeta
  <2>1. meta' \in Nat
    <3>1. batch[Len(batch)] \in Log!Event
      BY <1>8, EventLine DEF Log!WriteMeta, LogFields
    <3> QED BY <1>8, <3>1, EventFields, LogLines DEF Log!WriteMeta
  <2> QED BY <1>8, <2>1, EmptyLine DEF Log!WriteMeta, LogFields, Log!Bounded, Log!counters, Log!session,
                                       Log!tasks, Log!history
<1>9. CASE Log!WriteFails
  <2>1. failures' \in 0..MaxFailures /\ tail' \in {"clean", "torn", "unreadable"}
        /\ mishaps' \subseteq Log!Mishap
    <3>1. failures < MaxFailures /\ failures' = failures + 1 /\ MaxFailures \in Nat
      BY <1>9 DEF Log!WriteFails, Log!Fail, LogFields, Log!Bounded
    <3>2. tail' \in {tail, "torn"} /\ mishaps' \subseteq mishaps \cup {"lost", "behind"}
      BY <1>9 DEF Log!WriteFails
    <3>3. mishaps' \subseteq Log!Mishap
      BY <3>2 DEF LogFields, Log!Mishap
    <3> QED BY <1>0, <3>1, <3>2, <3>3 DEF LogFields
  <2> QED BY <1>9, <2>1, EmptyLine DEF Log!WriteFails, LogFields, Log!Bounded, Log!counters,
                                       Log!session, Log!tasks
<1>10. CASE Log!EvictFlush \/ Log!EvictDrop
  <2>1. mishaps' \subseteq Log!Mishap
    BY <1>10 DEF Log!EvictFlush, Log!EvictDrop, LogFields, Log!Mishap, Log!history
  <2> QED BY <1>10, <2>1, EmptyLine
          DEF Log!EvictFlush, Log!EvictDrop, LogFields, Log!Bounded, Log!counters, Log!session,
              Log!flusher, Log!disk, Log!history
<1>11. CASE Log!ForgetCounter
  BY <1>11 DEF Log!ForgetCounter, LogFields, Log!Bounded, Log!session, Log!flusher, Log!disk, Log!tasks,
               Log!history
<1>12. CASE Log!OrphanRead \/ Log!OrphanWrite
  <2>1. mishaps' \subseteq Log!Mishap
    BY <1>12 DEF Log!OrphanRead, Log!OrphanWrite, LogFields, Log!Mishap, Log!history
  <2>2. /\ meta' \in Nat /\ copy' \in Nat /\ orphan' \in {"read", "done"}
        /\ UNCHANGED <<wire, alloc, loaded, pinned, mem, backlog, batch, writer, log, tail,
                       waiting, evicting, calls, life, failures>>
    <3>1. CASE Log!OrphanRead
      BY <3>1 DEF Log!OrphanRead, LogFields, Log!counters, Log!session, Log!flusher, Log!disk, Log!history
    <3>2. CASE Log!OrphanWrite
      BY <3>2 DEF Log!OrphanWrite, LogFields, Log!counters, Log!session, Log!flusher
    <3> QED BY <1>12, <3>1, <3>2
  <2> QED BY <2>1, <2>2 DEF LogFields, Log!Bounded
<1>13. CASE Log!Crash
  <2>1. life' \in 0..MaxCrashes /\ tail' \in {"clean", "torn", "unreadable"}
        /\ mishaps' \subseteq Log!Mishap
    <3>1. life < MaxCrashes /\ life' = life + 1 /\ MaxCrashes \in Nat
      BY <1>13 DEF Log!Crash, LogFields, Log!Bounded
    <3>2. tail' \in {tail, "torn"} /\ mishaps' \subseteq mishaps
      BY <1>13 DEF Log!Crash
    <3> QED BY <1>0, <3>1, <3>2 DEF LogFields
  <2> QED BY <1>13, <2>1, EmptyLine DEF Log!Crash, LogFields, Log!Bounded
<1>14. CASE UNCHANGED Log!vars
  BY <1>14 DEF Log!vars, LogFields, Log!Bounded, Log!counters, Log!session, Log!flusher, Log!disk,
               Log!tasks, Log!history
<1> QED BY <1>1, <1>2, <1>3, <1>4, <1>5, <1>6, <1>7, <1>8, <1>9, <1>10, <1>11, <1>12, <1>13, <1>14,
           LogSteps

(* A call that loads the session is the same call, one step further.        *)
LEMMA LoadedCall ==
    ASSUME NEW w \in Log!Call
    PROVE  LET v == [w EXCEPT !.at = "upsert"]
           IN  v \in Log!Call /\ v.id = w.id /\ v.kind = w.kind /\ v.seq = w.seq /\ v.at = "upsert"
BY DEF Log!Call

(* What is known of the calls inside open is kept.                          *)
LEMMA OpeningStep ==
    ASSUME LogFields, Opening, [Log!Next]_(Log!vars)
    PROVE  Opening'
<1>0. /\ wire \in Nat /\ calls \in Nat
      /\ \A w \in waiting : w.id \in Nat /\ w.id <= calls /\ w.seq \in Nat
  BY DEF LogFields, Opening, Log!Call
<1>a. Opening' <=>
        /\ waiting' \subseteq Log!Call
        /\ \A v, w \in waiting' : v.id = w.id => v = w
        /\ \A w \in waiting' : w.id <= calls' /\ (w.at = "upsert" => loaded')
        /\ \A w \in waiting' : w.kind = "event" => w.seq \in 1..wire'
        /\ evicting' => loaded' /\ waiting' = {}
        /\ wire' = 0 => backlog' = <<>> /\ batch' = <<>>
  BY DEF Opening, Numbering
<1>b. /\ waiting \subseteq Log!Call
      /\ \A v, w \in waiting : v.id = w.id => v = w
      /\ \A w \in waiting : w.id <= calls /\ (w.at = "upsert" => loaded)
      /\ \A w \in waiting : w.kind = "event" => w.seq \in 1..wire
      /\ evicting => loaded /\ waiting = {}
      /\ wire = 0 => backlog = <<>> /\ batch = <<>>
  BY DEF Opening, Numbering
<1>1. ASSUME NEW e, Accepted(e) PROVE Opening'
  <2>1. e.seq \in Nat /\ e.seq > 0 /\ e.seq <= wire' /\ wire <= wire' /\ wire' \in Nat
    BY <1>1, EventFields DEF Accepted, Stored
  <2>2. waiting' \subseteq waiting /\ calls <= calls' /\ calls' \in Nat /\ loaded' = loaded
        /\ evicting' = evicting
    BY <1>1 DEF Accepted, Stored
  <2>3. \A w \in waiting' : w.id <= calls'
    BY <1>0, <1>b, <2>2
  <2>4. \A w \in waiting' : w.kind = "event" => w.seq \in 1..wire'
    BY <1>0, <1>b, <2>1, <2>2
  <2> QED BY <1>a, <1>b, <1>0, <2>1, <2>2, <2>3, <2>4
<1>2. ASSUME NEW w, Asked(w) PROVE Opening'
  <2>1. /\ wire <= wire' /\ wire' \in Nat /\ (w.kind = "event" => w.seq \in 1..wire')
        /\ w \in Log!Call /\ w.id = calls + 1 /\ w.at = "lock" /\ ~loaded /\ loaded' = loaded
        /\ waiting' = waiting \cup {w} /\ calls' = calls + 1
        /\ UNCHANGED <<backlog, batch, evicting>>
    BY <1>0, <1>2, LogNumbers DEF Asked
  <2>2. \A v \in waiting : v.id # w.id
    BY <1>0, <2>1
  <2>3. \A v \in waiting' : v.id <= calls'
    BY <1>0, <2>1
  <2>4. \A v \in waiting' : v.kind = "event" => v.seq \in 1..wire'
    BY <1>0, <1>b, <2>1
  <2> QED BY <1>a, <1>b, <1>0, <2>1, <2>2, <2>3, <2>4
<1>3. CASE Log!EmitToken
  <2>1. /\ wire < wire' /\ wire' \in Nat /\ calls' = calls + 1
        /\ UNCHANGED <<loaded, backlog, batch, waiting, evicting>>
    BY <1>0, <1>3, LogNumbers DEF Log!EmitToken, Log!Issue, Log!session, Log!flusher, Log!tasks
  <2>2. \A w \in waiting : w.kind = "event" => w.seq \in 1..wire'
    BY <1>0, <1>b, <2>1
  <2>3. \A w \in waiting : w.id <= calls'
    BY <1>0, <2>1
  <2> QED BY <1>a, <1>b, <1>0, <2>1, <2>2, <2>3
<1>4. ASSUME NEW w \in waiting, Log!Load(w) PROVE Opening'
  <2> DEFINE v == [w EXCEPT !.at = "upsert"]
  <2>1. v \in Log!Call /\ v.id = w.id /\ v.kind = w.kind /\ v.seq = w.seq
    BY <1>b, LoadedCall
  <2>2. /\ waiting' = (waiting \ {w}) \cup {v} /\ loaded' /\ ~evicting
        /\ UNCHANGED <<wire, backlog, batch, evicting, calls>>
    BY <1>4 DEF Log!Load, Log!HasLock, Log!counters, Log!flusher, Log!history
  <2> HIDE DEF v
  <2>3. \A u \in waiting' : u = v \/ (u \in waiting /\ u.id # v.id)
    BY <1>b, <2>1, <2>2
  <2>4. waiting' \subseteq Log!Call /\ \A u \in waiting' : u.id <= calls
        /\ (u.kind = "event" => u.seq \in 1..wire)
    BY <1>b, <2>1, <2>3
  <2>5. \A t, u \in waiting' : t.id = u.id => t = u
    BY <1>b, <2>3
  <2> QED BY <1>a, <1>b, <2>2, <2>4, <2>5
<1>5. ASSUME NEW w \in waiting, w.kind = "read", Log!Join(w) \/ Log!Resume(w) PROVE Opening'
  <2>1. /\ wire' = wire \/ wire' = Log!Larger(wire, Log!TailSeq(mem))
        /\ waiting' = waiting \ {w}
        /\ UNCHANGED <<loaded, backlog, batch, evicting, calls>>
    BY <1>5 DEF Log!Join, Log!Resume, Log!counters, Log!flusher
  <2>2. wire' \in Nat /\ wire <= wire'
    BY <1>0, <2>1, LogNumbers DEF Log!Larger
  <2>3. \A v \in waiting' : v.kind = "event" => v.seq \in 1..wire'
    BY <1>0, <1>b, <2>1, <2>2
  <2> QED BY <1>a, <1>b, <1>0, <2>1, <2>2, <2>3
<1>6. CASE Log!Gather
  <2>1. wire # 0
    BY <1>6, <1>b DEF Log!Gather
  <2>2. UNCHANGED <<wire, loaded, waiting, evicting, calls>>
    BY <1>6 DEF Log!Gather, Log!counters, Log!session, Log!tasks, Log!history
  <2> QED BY <1>a, <1>b, <2>1, <2>2
<1>7. CASE Log!AppendLine \/ Log!WriteMeta \/ Log!WriteFails
  <2>1. UNCHANGED <<wire, loaded, backlog, waiting, evicting, calls>> /\ writer # "idle"
    BY <1>7 DEF Log!AppendLine, Log!WriteMeta, Log!WriteFails, Log!counters, Log!session, Log!tasks,
                Log!history
  <2>2. wire # 0
    BY <1>b, <2>1 DEF LogFields
  <2> QED BY <1>a, <1>b, <2>1, <2>2
<1>8. CASE Log!EvictFlush
  BY <1>8, <1>a, <1>b DEF Log!EvictFlush, Log!counters, Log!session, Log!flusher, Log!history
<1>9. CASE Log!EvictDrop
  BY <1>9, <1>a, <1>b DEF Log!EvictDrop, Log!counters, Log!flusher
<1>10. CASE Log!ForgetCounter
  BY <1>10, <1>a, <1>b DEF Log!ForgetCounter, LogFields, Log!session, Log!flusher, Log!tasks, Log!history
<1>11. CASE Log!OrphanRead
  BY <1>11, <1>a, <1>b DEF Log!OrphanRead, Log!counters, Log!session, Log!flusher, Log!history
<1>12. CASE Log!OrphanWrite
  BY <1>12, <1>a, <1>b DEF Log!OrphanWrite, Log!counters, Log!session, Log!flusher
<1>13. CASE Log!Crash
  BY <1>13, <1>a DEF Log!Crash
<1>14. CASE UNCHANGED Log!vars
  BY <1>14, <1>a, <1>b DEF Log!vars, Log!counters, Log!session, Log!flusher, Log!disk, Log!tasks,
                           Log!history
<1> QED BY <1>1, <1>2, <1>3, <1>4, <1>5, <1>6, <1>7, <1>8, <1>9, <1>10, <1>11, <1>12, <1>13, <1>14,
           LogSteps

-----------------------------------------------------------------------------
(***************************************************************************)
(* Lines of events: those of one life come last, and their numbers rise.   *)
(***************************************************************************)
Rising(s, l) ==
    \A j, k \in 1..Len(s) : j < k /\ s[j].life = l /\ s[k].life = l => s[j].seq < s[k].seq

Latest(s, l) == \A j, k \in 1..Len(s) : j < k /\ s[j].life = l => s[k].life = l

LEMMA JoinedPlaces ==
    ASSUME NEW R, NEW s \in Seq(R), NEW e \in R
    PROVE  LET t == Append(s, e)
           IN  /\ Len(s) \in Nat /\ Len(t) = Len(s) + 1 /\ t[Len(s) + 1] = e
               /\ \A k \in 1..Len(s) : t[k] = s[k] /\ s[k] \in ToSet(s)
               /\ \A k \in 1..Len(t) : k \in 1..Len(s) \/ k = Len(s) + 1
<1>1. Len(s) \in Nat /\ \A k \in 1..Len(s) : s[k] \in ToSet(s)
  BY EventLine
<1>2. Len(Append(s, e)) = Len(s) + 1 /\ Append(s, e)[Len(s) + 1] = e
      /\ \A k \in 1..Len(s) : Append(s, e)[k] = s[k]
  BY AppendProperties
<1> QED BY <1>1, <1>2

LEMMA LatestJoin ==
    ASSUME NEW s \in Seq(Log!Event), NEW e \in Log!Event, NEW l, e.life = l, Latest(s, l)
    PROVE  Latest(Append(s, e), l)
<1> DEFINE t == Append(s, e)
<1>1. /\ Len(s) \in Nat /\ Len(t) = Len(s) + 1 /\ t[Len(s) + 1] = e
      /\ \A k \in 1..Len(s) : t[k] = s[k]
      /\ \A k \in 1..Len(t) : k \in 1..Len(s) \/ k = Len(s) + 1
  BY JoinedPlaces
<1> HIDE DEF t
<1>2. ASSUME NEW j \in 1..Len(t), NEW k \in 1..Len(t), j < k, t[j].life = l PROVE t[k].life = l
  <2>1. CASE k = Len(s) + 1
    BY <1>1, <2>1
  <2>2. CASE k \in 1..Len(s)
    <3>1. j \in 1..Len(s)
      BY <1>1, <1>2, <2>2
    <3> QED BY <1>1, <1>2, <2>2, <3>1 DEF Latest
  <2> QED BY <1>1, <2>1, <2>2
<1>3. Latest(t, l)
  BY <1>2 DEF Latest
<1> QED BY <1>3 DEF t

LEMMA RisingJoin ==
    ASSUME NEW s \in Seq(Log!Event), NEW e \in Log!Event, NEW l, Rising(s, l),
           \A d \in ToSet(s) : d.life = l => d.seq < e.seq
    PROVE  Rising(Append(s, e), l)
<1> DEFINE t == Append(s, e)
<1>1. /\ Len(s) \in Nat /\ Len(t) = Len(s) + 1 /\ t[Len(s) + 1] = e
      /\ \A k \in 1..Len(s) : t[k] = s[k] /\ s[k] \in ToSet(s)
      /\ \A k \in 1..Len(t) : k \in 1..Len(s) \/ k = Len(s) + 1
  BY JoinedPlaces
<1> HIDE DEF t
<1>2. ASSUME NEW j \in 1..Len(t), NEW k \in 1..Len(t), j < k, t[j].life = l, t[k].life = l
      PROVE  t[j].seq < t[k].seq
  <2>1. j \in 1..Len(s)
    BY <1>1, <1>2
  <2>2. CASE k = Len(s) + 1
    BY <1>1, <1>2, <2>1, <2>2
  <2>3. CASE k \in 1..Len(s)
    BY <1>1, <1>2, <2>1, <2>3 DEF Rising
  <2> QED BY <1>1, <2>2, <2>3
<1>3. Rising(t, l)
  BY <1>2 DEF Rising
<1> QED BY <1>3 DEF t

LEMMA TailIn ==
    ASSUME NEW R, NEW s \in Seq(R), s # <<>>
    PROVE  ToSet(Tail(s)) \subseteq ToSet(s)
<1> DEFINE t == Tail(s)
<1>1. t \in Seq(R) /\ Len(s) \in Nat /\ Len(t) = Len(s) - 1
      /\ \A k \in 1..Len(t) : t[k] = s[k + 1]
  BY HeadTailProperties, LenProperties
<1> HIDE DEF t
<1>2. \A d \in ToSet(t) : \E k \in 1..Len(t) : t[k] = d
  BY <1>1, EventLine
<1>3. \A k \in 1..Len(s) : s[k] \in ToSet(s)
  BY EventLine
<1>4. ToSet(t) \subseteq ToSet(s)
  BY <1>1, <1>2, <1>3
<1> QED BY <1>4 DEF t

(* What is left of a line when its first event is written.                  *)
LEMMA RisingTail ==
    ASSUME NEW s \in Seq(Log!Event), s # <<>>, NEW l, Rising(s, l), \A d \in ToSet(s) : d.life = l
    PROVE  /\ Head(s) = s[1] /\ Head(s) \in ToSet(s) /\ Rising(Tail(s), l)
           /\ ToSet(s) = ToSet(Tail(s)) \cup {Head(s)}
           /\ \A d \in ToSet(Tail(s)) : Head(s).seq < d.seq
<1> DEFINE t == Tail(s)
<1>0. Head(s) = s[1] /\ Head(s) \in ToSet(s) /\ t \in Seq(Log!Event)
  BY LeaveLine
<1>1. Len(s) \in Nat /\ Len(s) > 0 /\ \A k \in 1..Len(s) : s[k] \in ToSet(s)
  BY EventLine
<1>2. Len(t) = Len(s) - 1 /\ \A k \in 1..Len(t) : t[k] = s[k + 1]
  BY HeadTailProperties
<1>3. \A d \in ToSet(s) : \E k \in 1..Len(s) : s[k] = d
  BY EventLine
<1> HIDE DEF t
<1>4. \A k \in 1..Len(t) : t[k] \in ToSet(t)
  BY <1>0, EventLine
<1>5. \A d \in ToSet(t) : \E k \in 1..Len(t) : t[k] = d
  BY <1>0, EventLine
<1>6. \A k \in 1..Len(t) : k + 1 \in 1..Len(s) /\ 1 < k + 1
  BY <1>1, <1>2
<1>7. Rising(t, l)
  <2> SUFFICES ASSUME NEW j \in 1..Len(t), NEW k \in 1..Len(t), j < k, t[j].life = l, t[k].life = l
               PROVE  t[j].seq < t[k].seq
    BY DEF Rising
  <2>1. j + 1 < k + 1
    BY <1>1, <1>2
  <2>2. s[j + 1].seq < s[k + 1].seq
    BY <1>2, <1>6, <2>1 DEF Rising
  <2> QED BY <1>2, <2>2
<1>8. \A d \in ToSet(t) : s[1].seq < d.seq /\ d \in ToSet(s)
  <2> SUFFICES ASSUME NEW k \in 1..Len(t) PROVE s[1].seq < t[k].seq /\ t[k] \in ToSet(s)
    BY <1>5
  <2>1. 1 \in 1..Len(s) /\ k + 1 \in 1..Len(s) /\ 1 < k + 1
    BY <1>1, <1>6
  <2>2. s[1].life = l /\ s[k + 1].life = l
    BY <1>1, <2>1
  <2> QED BY <1>1, <1>2, <2>1, <2>2 DEF Rising
<1>9. \A k \in 1..Len(s) : s[k] = s[1] \/ s[k] \in ToSet(t)
  <2> SUFFICES ASSUME NEW k \in 1..Len(s), k # 1 PROVE s[k] \in ToSet(t)
    OBVIOUS
  <2>1. k - 1 \in 1..Len(t) /\ (k - 1) + 1 = k
    BY <1>1, <1>2
  <2> QED BY <1>2, <1>4, <2>1
<1>10. ToSet(s) = ToSet(t) \cup {Head(s)}
  BY <1>0, <1>3, <1>8, <1>9
<1> QED BY <1>0, <1>7, <1>8, <1>10 DEF t

-----------------------------------------------------------------------------
(***************************************************************************)
(* Which events there are: each is of a call that is past, and no call     *)
(* that still waits has one.  Those in flight were accepted in this life,  *)
(* in memory and in the log those of this life come last, and the counter  *)
(* of the store is never behind them.                                      *)
(***************************************************************************)
InFlight == ToSet(backlog) \cup ToSet(batch)
Everywhere == ToSet(mem) \cup InFlight \cup ToSet(log)
Ours == {e \in Everywhere : e.life = life}

Lived ==
    /\ \A e \in Everywhere : e.id <= calls /\ e.life <= life /\ \A w \in waiting : w.id # e.id
    /\ \A e \in InFlight : e.life = life
    /\ Latest(mem, life) /\ Latest(log, life)
    /\ \A e \in Ours : e.seq <= alloc

(* A step that neither accepts an event nor crashes moves events about.     *)
Quiet ==
    /\ life' = life /\ alloc' = alloc /\ calls <= calls'
    /\ Everywhere' \subseteq Everywhere /\ InFlight' \subseteq InFlight
    /\ mem' = mem \/ mem' = log \/ mem' = <<>>
    /\ log' = log \/ (batch # <<>> /\ log' = Append(log, Head(batch)))
    /\ \A w \in waiting' : w.id = calls + 1 \/ \E v \in waiting : v.id = w.id

LEMMA EventsMove ==
    ASSUME LogFields, Opening, [Log!Next]_(Log!vars)
    PROVE  (\E e : Accepted(e)) \/ Log!Crash \/ Quiet
<1>0. /\ calls \in Nat /\ ToSet(<<>>) = {}
      /\ mem \in Seq(Log!Event) /\ backlog \in Seq(Log!Event) /\ batch \in Seq(Log!Event)
      /\ log \in Seq(Log!Event)
  BY EmptyLine DEF LogFields
<1>1. ASSUME /\ life' = life /\ alloc' = alloc /\ calls <= calls'
             /\ mem' = mem \/ mem' = log \/ mem' = <<>>
             /\ log' = log \/ (batch # <<>> /\ log' = Append(log, Head(batch)))
             /\ backlog' = backlog \/ backlog' = <<>>
             /\ ToSet(batch') \subseteq InFlight
             /\ \A w \in waiting' : w.id = calls + 1 \/ \E v \in waiting : v.id = w.id
      PROVE  Quiet
  <2>1. ToSet(mem') \subseteq ToSet(mem) \cup ToSet(log) /\ ToSet(backlog') \subseteq InFlight
    BY <1>0, <1>1 DEF InFlight
  <2>2. ToSet(log') \subseteq ToSet(log) \cup InFlight
    <3>1. CASE log' = log
      BY <3>1
    <3>2. CASE batch # <<>> /\ log' = Append(log, Head(batch))
      <4>1. Head(batch) \in ToSet(batch) /\ Head(batch) \in Log!Event
        BY <1>0, <3>2, LeaveLine
      <4>2. ToSet(Append(log, Head(batch))) = ToSet(log) \cup {Head(batch)}
        BY <1>0, <4>1, JoinLine
      <4> QED BY <3>2, <4>1, <4>2 DEF InFlight
    <3> QED BY <1>1, <3>1, <3>2
  <2>3. InFlight' = ToSet(backlog') \cup ToSet(batch')
    BY DEF InFlight
  <2>4. Everywhere' = ToSet(mem') \cup InFlight' \cup ToSet(log')
    BY DEF Everywhere
  <2>5. InFlight' \subseteq InFlight /\ Everywhere' \subseteq Everywhere
    BY <1>1, <2>1, <2>2, <2>3, <2>4 DEF Everywhere
  <2> QED BY <1>1, <2>5 DEF Quiet
<1>2. ToSet(batch) \subseteq InFlight
  BY DEF InFlight
<1>3. ASSUME NEW w, Asked(w) PROVE Quiet
  BY <1>0, <1>1, <1>2, <1>3 DEF Asked
<1>4. CASE Log!EmitToken
  BY <1>0, <1>1, <1>2, <1>4
  DEF Log!EmitToken, Log!Issue, Log!session, Log!flusher, Log!disk, Log!tasks
<1>5. ASSUME NEW w \in waiting, Log!Load(w) PROVE Quiet
  <2> DEFINE v == [w EXCEPT !.at = "upsert"]
  <2>1. v.id = w.id
    BY LoadedCall DEF Opening
  <2>2. waiting' = (waiting \ {w}) \cup {v} /\ mem' = log
        /\ UNCHANGED <<alloc, backlog, batch, log, calls, life>>
    BY <1>5 DEF Log!Load, Log!counters, Log!flusher, Log!disk, Log!history
  <2> HIDE DEF v
  <2>3. \A u \in waiting' : \E t \in waiting : t.id = u.id
    BY <2>1, <2>2
  <2> QED BY <1>0, <1>1, <1>2, <2>2, <2>3
<1>6. ASSUME NEW w \in waiting, w.kind = "read", Log!Join(w) \/ Log!Resume(w) PROVE Quiet
  <2>1. waiting' \subseteq waiting /\ UNCHANGED <<alloc, mem, backlog, batch, log, calls, life>>
    BY <1>6 DEF Log!Join, Log!Resume, Log!counters, Log!flusher, Log!disk
  <2> QED BY <1>0, <1>1, <1>2, <2>1
<1>7. CASE Log!Gather
  <2>1. ToSet(batch') \subseteq ToSet(backlog)
    BY <1>0, <1>7, KeptLine DEF Log!Gather
  <2>2. ToSet(batch') \subseteq InFlight
    BY <2>1 DEF InFlight
  <2>3. backlog' = <<>> /\ UNCHANGED <<alloc, mem, log, waiting, calls, life>>
    BY <1>7 DEF Log!Gather, Log!counters, Log!session, Log!disk, Log!tasks, Log!history
  <2> QED BY <1>0, <1>1, <2>2, <2>3
<1>8. CASE Log!AppendLine
  <2>1. batch # <<>> /\ UNCHANGED <<alloc, mem, backlog, waiting, calls, life>>
    BY <1>8 DEF Log!AppendLine, LogFields, Log!counters, Log!session, Log!tasks
  <2>2. log' = log \/ log' = Append(log, Head(batch))
    BY <1>8 DEF Log!AppendLine
  <2>3. batch' = batch \/ batch' = Tail(batch)
    BY <1>8 DEF Log!AppendLine
  <2>4. ToSet(Tail(batch)) \subseteq ToSet(batch)
    BY <1>0, <2>1, TailIn
  <2>5. ToSet(batch') \subseteq InFlight
    BY <1>2, <2>3, <2>4
  <2> QED BY <1>0, <1>1, <2>1, <2>2, <2>5
<1>9. CASE Log!WriteMeta \/ Log!WriteFails
  <2>1. batch' = <<>> /\ UNCHANGED <<alloc, mem, backlog, log, waiting, calls, life>>
    BY <1>9 DEF Log!WriteMeta, Log!WriteFails, Log!counters, Log!session, Log!tasks, Log!history
  <2> QED BY <1>0, <1>1, <2>1
<1>10. CASE Log!EvictFlush
  BY <1>0, <1>1, <1>2, <1>10 DEF Log!EvictFlush, Log!counters, Log!session, Log!flusher, Log!disk,
                                 Log!history
<1>11. CASE Log!EvictDrop
  BY <1>0, <1>1, <1>2, <1>11 DEF Log!EvictDrop, Log!counters, Log!flusher, Log!disk
<1>12. CASE Log!ForgetCounter
  BY <1>0, <1>1, <1>2, <1>12 DEF Log!ForgetCounter, Log!session, Log!flusher, Log!disk, Log!tasks,
                                 Log!history
<1>13. CASE Log!OrphanRead
  BY <1>0, <1>1, <1>2, <1>13 DEF Log!OrphanRead, Log!counters, Log!session, Log!flusher, Log!disk,
                                 Log!history
<1>14. CASE Log!OrphanWrite
  <2>1. UNCHANGED <<alloc, mem, backlog, batch, log, waiting, calls, life>>
    BY <1>14 DEF Log!OrphanWrite, Log!counters, Log!session, Log!flusher
  <2> QED BY <1>0, <1>1, <1>2, <2>1
<1>15. CASE UNCHANGED Log!vars
  BY <1>0, <1>1, <1>2, <1>15 DEF Log!vars, Log!counters, Log!session, Log!flusher, Log!disk,
                                 Log!tasks, Log!history
<1> QED BY <1>3, <1>4, <1>5, <1>6, <1>7, <1>8, <1>9, <1>10, <1>11, <1>12, <1>13, <1>14, <1>15, LogSteps

(* An event that is accepted is new, and is put where it belongs.           *)
LEMMA EventEnters ==
    ASSUME LogFields, Opening, Lived, NEW e, Accepted(e)
    PROVE  /\ e \in Log!Event /\ e.life = life /\ e \notin Everywhere
           /\ ToSet(mem') = ToSet(mem) \cup {e}
           /\ InFlight \subseteq InFlight' /\ InFlight' \subseteq InFlight \cup {e}
           /\ "lost" \notin mishaps' => e \in InFlight'
           /\ Everywhere' = Everywhere \cup {e}
           /\ Ours' = Ours \cup {e}
<1>1. /\ e \in Log!Event /\ e.life = life /\ mem \in Seq(Log!Event) /\ backlog \in Seq(Log!Event)
      /\ mem' = Append(mem, e)
      /\ backlog' = Append(backlog, e) \/ (backlog' = backlog /\ "lost" \in mishaps')
      /\ UNCHANGED <<batch, log, life>>
  BY DEF Accepted, Stored, LogFields
<1>2. e \notin Everywhere
  <2>1. e.id = calls + 1 \/ \E w \in waiting : w.id = e.id
    BY DEF Accepted
  <2>2. calls \in Nat
    BY DEF LogFields
  <2> QED BY <2>1, <2>2 DEF Lived
<1>3. ToSet(Append(mem, e)) = ToSet(mem) \cup {e} /\ ToSet(Append(backlog, e)) = ToSet(backlog) \cup {e}
  BY ONLY <1>1, JoinLine
<1>4. InFlight' = ToSet(backlog') \cup ToSet(batch)
  BY <1>1 DEF InFlight
<1>5. ToSet(mem') = ToSet(mem) \cup {e} /\ InFlight \subseteq InFlight'
      /\ InFlight' \subseteq InFlight \cup {e}
      /\ ("lost" \notin mishaps' => e \in InFlight')
  BY <1>1, <1>3, <1>4 DEF InFlight
<1>6. Everywhere' = ToSet(mem') \cup InFlight' \cup ToSet(log)
  BY <1>1 DEF Everywhere
<1>7. Everywhere' = Everywhere \cup {e}
  BY <1>5, <1>6 DEF Everywhere
<1>8. Ours' = {d \in Everywhere' : d.life = life}
  BY <1>1 DEF Ours
<1>9. Ours' = Ours \cup {e}
  BY <1>1, <1>7, <1>8 DEF Ours
<1> QED BY <1>1, <1>2, <1>5, <1>7, <1>9

(* An accepted event has a number that its own counter had not passed.      *)
LEMMA CounterGoesOn ==
    ASSUME LogFields, NEW e, Accepted(e)
    PROVE  alloc <= alloc' /\ e.seq <= alloc'
<1>1. alloc \in Nat /\ e.seq \in Nat /\ (e.seq = Log!NextAlloc => e.seq > alloc)
  BY LogNumbers, EventFields DEF Accepted, Stored, LogFields
<1> QED BY <1>1 DEF Accepted, Numbered, Log!Larger

LEMMA EmptyOf ==
    ASSUME NEW l
    PROVE  Rising(<<>>, l) /\ Latest(<<>>, l) /\ ToSet(<<>>) = {}
<1>1. Len(<<>>) = 0
  BY EmptySeq
<1> QED BY <1>1, EmptyLine DEF Rising, Latest

LEMMA LivedStep ==
    ASSUME LogFields, Opening, Lived, [Log!Next]_(Log!vars)
    PROVE  Lived'
<1>0. /\ calls \in Nat /\ life \in Nat /\ alloc \in Nat
      /\ mem \in Seq(Log!Event) /\ backlog \in Seq(Log!Event) /\ batch \in Seq(Log!Event)
      /\ log \in Seq(Log!Event)
      /\ \A w \in waiting : w.id \in Nat
  BY DEF LogFields, Opening, Log!Call
<1>1. ASSUME NEW e, Accepted(e) PROVE Lived'
  <2>1. /\ e \in Log!Event /\ e.life = life /\ InFlight' \subseteq InFlight \cup {e}
        /\ Everywhere' = Everywhere \cup {e} /\ Ours' = Ours \cup {e}
    BY <1>1, EventEnters
  <2>2. /\ calls <= calls' /\ calls' \in Nat /\ e.id <= calls' /\ e.id \in Nat
        /\ waiting' = {w \in waiting : w.id # e.id}
        /\ life' = life /\ log' = log /\ mem' = Append(mem, e)
    BY <1>1, EventFields DEF Accepted, Stored
  <2>3. \A d \in Everywhere' : d.id <= calls' /\ d.life <= life' /\ \A w \in waiting' : w.id # d.id
    <3>1. \A d \in Everywhere : d.id \in Nat
      BY <1>0, EventLine, EventFields DEF Everywhere, InFlight
    <3>2. \A d \in Everywhere : d.id <= calls'
      BY <1>0, <2>2, <3>1 DEF Lived
    <3> QED BY <1>0, <2>1, <2>2, <3>2 DEF Lived
  <2>4. \A d \in InFlight' : d.life = life'
    BY <2>1, <2>2 DEF Lived
  <2>5. Latest(Append(mem, e), life)
    BY <1>0, <2>1, LatestJoin DEF Lived
  <2>6. \A d \in Ours' : d.seq <= alloc'
    <3>1. alloc <= alloc' /\ e.seq <= alloc' /\ alloc' \in Nat
      BY <1>1, CounterGoesOn, LogFieldsStep DEF LogFields
    <3>2. \A d \in Ours : d.seq \in Nat
      BY <1>0, EventLine, EventFields DEF Ours, Everywhere, InFlight
    <3> QED BY <1>0, <2>1, <3>1, <3>2 DEF Lived
  <2>7. Latest(mem', life') /\ Latest(log', life')
    BY <2>2, <2>5 DEF Lived
  <2> QED BY <2>3, <2>4, <2>6, <2>7 DEF Lived
<1>2. CASE Log!Crash
  <2>1. /\ mem' = <<>> /\ backlog' = <<>> /\ batch' = <<>> /\ log' = log /\ waiting' = {}
        /\ life' = life + 1 /\ calls' = calls
    BY <1>2 DEF Log!Crash
  <2>2. Everywhere' = ToSet(log) /\ InFlight' = {}
    BY <2>1, EmptyOf DEF Everywhere, InFlight
  <2>3. \A d \in ToSet(log) : d \in Log!Event /\ d.id <= calls /\ d.life <= life
    BY <1>0, EventLine DEF Lived, Everywhere
  <2>4. \A d \in ToSet(log) : d.life \in Nat /\ d.life < life'
    BY <1>0, <2>1, <2>3, EventFields DEF LogFields
  <2>5. Latest(log, life')
    BY <1>0, <2>4, EventLine DEF Latest
  <2>6. Latest(mem', life') /\ Latest(log', life')
    BY <2>1, <2>5, EmptyOf
  <2>7. \A d \in Everywhere' : d.id <= calls' /\ d.life <= life' /\ \A w \in waiting' : w.id # d.id
    BY <1>0, <2>1, <2>2, <2>3, <2>4
  <2>8. Ours' = {}
    BY <1>0, <2>1, <2>2, <2>4 DEF Ours
  <2> QED BY <2>2, <2>6, <2>7, <2>8 DEF Lived
<1>3. CASE Quiet
  <2>1. \A d \in Everywhere' : d.id <= calls' /\ d.life <= life' /\ \A w \in waiting' : w.id # d.id
    <3>1. \A d \in Everywhere : d.id \in Nat
      BY <1>0, EventLine, EventFields DEF Everywhere, InFlight
    <3>2. calls' \in Nat
      BY LogFieldsStep DEF LogFields
    <3>3. \A d \in Everywhere : d.id <= calls' /\ d.id # calls + 1
      BY <1>0, <1>3, <3>1, <3>2 DEF Lived, Quiet
    <3> QED BY <1>3, <3>3 DEF Lived, Quiet
  <2>2. \A d \in InFlight' : d.life = life'
    BY <1>3 DEF Lived, Quiet
  <2>3. Latest(log', life)
    <3>1. CASE log' = log
      BY <3>1 DEF Lived
    <3>2. CASE batch # <<>> /\ log' = Append(log, Head(batch))
      <4>1. Head(batch) \in Log!Event /\ Head(batch) \in ToSet(batch)
        BY <1>0, <3>2, LeaveLine
      <4>2. Head(batch).life = life
        BY <4>1 DEF Lived, InFlight
      <4> QED BY <1>0, <3>2, <4>1, <4>2, LatestJoin DEF Lived
    <3> QED BY <1>3, <3>1, <3>2 DEF Quiet
  <2>4. Latest(mem', life)
    BY <1>3, EmptyOf DEF Lived, Quiet
  <2>5. Latest(mem', life') /\ Latest(log', life')
    BY <1>3, <2>3, <2>4 DEF Quiet
  <2>6. Ours' \subseteq Ours
    BY <1>3 DEF Ours, Quiet
  <2>7. \A d \in Ours' : d.seq <= alloc'
    BY <1>3, <2>6 DEF Lived, Quiet
  <2> QED BY <2>1, <2>2, <2>5, <2>7 DEF Lived
<1> QED BY <1>1, <1>2, <1>3, EventsMove

-----------------------------------------------------------------------------
(* The last number of a line is the largest of its life, when the events of *)
(* that life come last and their numbers rise.                              *)
LEMMA TailIs ==
    \A s : Log!TailSeq(s) = IF s = <<>> THEN 0 ELSE s[Len(s)].seq
BY LogLines DEF Log!TailSeq

LEMMA TailIsLargest ==
    ASSUME NEW s \in Seq(Log!Event), NEW l, Rising(s, l), Latest(s, l)
    PROVE  \A e \in ToSet(s) : e.life = l => e.seq <= Log!TailSeq(s)
<1> SUFFICES ASSUME NEW e \in ToSet(s), e.life = l PROVE e.seq <= Log!TailSeq(s)
  OBVIOUS
<1>0. Len(s) \in Nat /\ \E k \in 1..Len(s) : s[k] = e
  BY EventLine
<1>1. PICK k \in 1..Len(s) : s[k] = e
  BY <1>0
<1>2. s # <<>> /\ Len(s) \in 1..Len(s) /\ e.seq \in Nat
  BY <1>0, <1>1, EventLine, EventFields
<1>3. CASE k = Len(s)
  BY <1>1, <1>2, <1>3, TailIs
<1>4. CASE k < Len(s)
  <2>1. s[Len(s)].life = l
    BY <1>1, <1>2, <1>4 DEF Latest
  <2>2. e.seq < s[Len(s)].seq /\ s[Len(s)].seq \in Nat
    BY <1>1, <1>2, <1>4, <2>1, EventLine, EventFields DEF Rising
  <2> QED BY <1>2, <2>2, TailIs
<1> QED BY <1>0, <1>3, <1>4

-----------------------------------------------------------------------------
(***************************************************************************)
(* The writer: its batch rises and lies beyond meta.json, which is at the  *)
(* last line or behind it as long as no line was merged.                   *)
(***************************************************************************)
Batched ==
    /\ Rising(batch, life)
    /\ \A e \in ToSet(batch) : meta < e.seq
    /\ orphan = "read" => copy <= meta
    /\ "merged" \notin mishaps =>
          /\ meta <= Log!TailSeq(log)
          /\ writer = "logged" => log # <<>> /\ log[Len(log)] = batch[1]

(* What neither writes nor crashes leaves the disk and the writer alone.    *)
Aside ==
    /\ UNCHANGED <<batch, writer, log, tail, meta, orphan, copy, life>>
    /\ mishaps \subseteq mishaps'

Writing == Log!Gather \/ Log!AppendLine \/ Log!WriteMeta \/ Log!WriteFails \/ Log!OrphanRead
           \/ Log!OrphanWrite

LEMMA StepsAside ==
    ASSUME LogFields, Opening, [Log!Next]_(Log!vars)
    PROVE  Aside \/ Writing \/ Log!Crash
<1>1. ASSUME NEW e, Accepted(e) PROVE Aside
  BY <1>1 DEF Accepted, Stored, Aside
<1>2. ASSUME NEW w, Asked(w) PROVE Aside
  BY <1>2 DEF Asked, Aside
<1>3. CASE Log!EmitToken
  BY <1>3 DEF Log!EmitToken, Aside, Log!session, Log!flusher, Log!disk, Log!tasks
<1>4. ASSUME NEW w \in waiting, Log!Load(w) PROVE Aside
  BY <1>4 DEF Log!Load, Aside, Log!counters, Log!flusher, Log!disk, Log!history
<1>5. ASSUME NEW w \in waiting, w.kind = "read", Log!Join(w) \/ Log!Resume(w) PROVE Aside
  BY <1>5 DEF Log!Join, Log!Resume, Aside, Log!counters, Log!flusher, Log!disk
<1>6. CASE Log!EvictFlush
  BY <1>6 DEF Log!EvictFlush, Aside, Log!flusher, Log!disk, Log!history
<1>7. CASE Log!EvictDrop
  BY <1>7 DEF Log!EvictDrop, Aside, Log!flusher, Log!disk
<1>8. CASE Log!ForgetCounter
  BY <1>8 DEF Log!ForgetCounter, Aside, Log!session, Log!flusher, Log!disk, Log!tasks, Log!history
<1>9. CASE UNCHANGED Log!vars
  BY <1>9 DEF Log!vars, Aside, Log!flusher, Log!disk, Log!tasks, Log!history
<1> QED BY <1>1, <1>2, <1>3, <1>4, <1>5, <1>6, <1>7, <1>8, <1>9, LogSteps DEF Writing

(* The first of what is written, and what a line adds to the log.           *)
LEMMA Written ==
    ASSUME LogFields, Opening, Lived, Batched, [Log!Next]_(Log!vars), Log!AppendLine
    PROVE  LET h == Head(batch)
           IN  /\ batch # <<>> /\ h = batch[1] /\ h \in ToSet(batch) /\ h \in Log!Event /\ h.life = life
               /\ \A e \in ToSet(batch) : h.seq <= e.seq
               /\ ToSet(batch) \subseteq ToSet(batch') \cup {h} /\ ToSet(batch') \subseteq ToSet(batch)
               /\ Rising(batch', life) /\ batch' \in Seq(Log!Event) /\ batch' # <<>>
               /\ \/ writer' = "logged" /\ batch' = batch
                  \/ writer' = "writing" /\ h.seq < batch'[1].seq
               /\ \/ log' = log /\ "merged" \in mishaps'
                  \/ /\ log' = Append(log, h) /\ ToSet(log') = ToSet(log) \cup {h}
                     /\ log' # <<>> /\ log'[Len(log')] = h /\ Log!TailSeq(log') = h.seq
<1> DEFINE h == Head(batch)
<1>0. /\ batch \in Seq(Log!Event) /\ batch # <<>> /\ Rising(batch, life) /\ log \in Seq(Log!Event)
      /\ \A e \in ToSet(batch) : e.life = life /\ e \in Log!Event
  BY EventLine DEF LogFields, Lived, Batched, InFlight, Log!AppendLine
<1>1. /\ h = batch[1] /\ h \in ToSet(batch) /\ Rising(Tail(batch), life)
      /\ ToSet(batch) = ToSet(Tail(batch)) \cup {h}
      /\ \A e \in ToSet(Tail(batch)) : h.seq < e.seq
  BY <1>0, RisingTail
<1>2. h \in Log!Event /\ h.life = life /\ Tail(batch) \in Seq(Log!Event)
  BY <1>0, <1>1, LeaveLine
<1>3. \A e \in ToSet(batch) : h.seq <= e.seq
  BY <1>0, <1>1, EventFields
<1>4. writer' \in {"writing", "logged"} /\ batch' \in Seq(Log!Event) /\ batch' # <<>>
  <2>1. writer' = "logged" \/ writer' = "writing"
    BY DEF Log!AppendLine
  <2> QED BY <2>1, LogFieldsStep DEF LogFields
<1>5. ASSUME (batch' = batch /\ writer' = "logged") \/ (batch' = Tail(batch) /\ writer' = "writing")
      PROVE  /\ ToSet(batch) \subseteq ToSet(batch') \cup {h} /\ ToSet(batch') \subseteq ToSet(batch)
             /\ Rising(batch', life)
             /\ \/ writer' = "logged" /\ batch' = batch
                \/ writer' = "writing" /\ h.seq < batch'[1].seq
  <2>1. CASE batch' = batch /\ writer' = "logged"
    BY <1>0, <2>1
  <2>2. CASE batch' = Tail(batch) /\ writer' = "writing"
    <3>1. batch'[1] \in ToSet(batch')
      BY ONLY <1>4, EventLine
    <3> QED BY <1>1, <2>2, <3>1
  <2> QED BY <1>5, <2>1, <2>2
<1>6. \/ log' = log /\ "merged" \in mishaps'
      \/ log' = Append(log, h)
  BY DEF Log!AppendLine
<1>7. ASSUME log' = Append(log, h)
      PROVE  /\ ToSet(log') = ToSet(log) \cup {h}
             /\ log' # <<>> /\ log'[Len(log')] = h /\ Log!TailSeq(log') = h.seq
  <2> DEFINE t == Append(log, h)
  <2>1. /\ t \in Seq(Log!Event) /\ ToSet(t) = ToSet(log) \cup {h}
        /\ Len(log) \in Nat /\ Len(t) = Len(log) + 1 /\ t[Len(log) + 1] = h
    BY <1>0, <1>2, JoinLine, JoinedPlaces
  <2> HIDE DEF t
  <2>2. t # <<>>
    BY <2>1, EventLine
  <2>3. Log!TailSeq(t) = h.seq
    BY <2>1, <2>2, TailIs
  <2>4. log' = t
    BY <1>7 DEF t
  <2>5. Log!TailSeq(log') = Log!TailSeq(t)
    BY <2>4 DEF Log!TailSeq
  <2> QED BY <2>1, <2>2, <2>3, <2>4, <2>5
<1>8. (batch' = batch /\ writer' = "logged") \/ (batch' = Tail(batch) /\ writer' = "writing")
  BY DEF Log!AppendLine
<1> HIDE DEF h
<1>9. /\ ToSet(batch) \subseteq ToSet(batch') \cup {h} /\ ToSet(batch') \subseteq ToSet(batch)
      /\ Rising(batch', life)
      /\ \/ writer' = "logged" /\ batch' = batch
         \/ writer' = "writing" /\ h.seq < batch'[1].seq
  BY <1>5, <1>8
<1>10. \/ log' = log /\ "merged" \in mishaps'
       \/ /\ log' = Append(log, h) /\ ToSet(log') = ToSet(log) \cup {h}
          /\ log' # <<>> /\ log'[Len(log')] = h /\ Log!TailSeq(log') = h.seq
  BY <1>6, <1>7
<1> QED BY <1>0, <1>1, <1>2, <1>3, <1>4, <1>9, <1>10 DEF h

(* What the flusher takes is in rising order, and beyond meta.json.         *)
LEMMA Gathered ==
    ASSUME LogFields, Log!Gather
    PROVE  /\ batch' \in Seq(Log!Event) /\ Ascending(batch') /\ batch = <<>> /\ backlog' = <<>>
           /\ ToSet(batch') \subseteq ToSet(backlog)
           /\ \A e \in ToSet(batch') : meta < e.seq
           /\ batch' # <<>> => batch'[1] \in ToSet(batch')
           /\ writer' = IF batch' = <<>> THEN "idle" ELSE "writing"
           /\ UNCHANGED <<wire, alloc, loaded, mem, log, tail, meta, waiting, evicting, orphan, copy,
                          calls, life, mishaps>>
<1>1. backlog \in Seq(Log!Event) /\ meta \in Nat /\ batch = <<>> /\ batch' = Log!Kept(backlog)
  BY DEF Log!Gather, LogFields
<1>2. /\ batch' \in Seq(Log!Event) /\ Ascending(batch') /\ ToSet(batch') \subseteq ToSet(backlog)
      /\ \A e \in ToSet(batch') : e.seq > meta
  BY <1>1, KeptLine
<1>3. \A e \in ToSet(batch') : e.seq \in Nat
  BY ONLY <1>2, EventLine, EventFields
<1>4. batch' # <<>> => batch'[1] \in ToSet(batch')
  BY ONLY <1>2, EventLine
<1>5. /\ backlog' = <<>> /\ writer' = IF batch' = <<>> THEN "idle" ELSE "writing"
      /\ UNCHANGED <<wire, alloc, loaded, mem, log, tail, meta, waiting, evicting, orphan, copy,
                     calls, life, mishaps>>
  BY DEF Log!Gather, Log!counters, Log!session, Log!disk, Log!tasks, Log!history
<1> QED BY <1>1, <1>2, <1>3, <1>4, <1>5

LEMMA BatchedStep ==
    ASSUME LogFields, Opening, Lived, Batched, [Log!Next]_(Log!vars)
    PROVE  Batched'
<1>0. meta \in Nat /\ copy \in Nat /\ batch \in Seq(Log!Event) /\ log \in Seq(Log!Event)
  BY DEF LogFields
<1>1. CASE Aside
  BY <1>1, TailIs DEF Aside, Batched
<1>2. CASE Log!Gather
  <2>1. Rising(batch', life')
    BY <1>2, Gathered DEF Ascending, Rising
  <2>2. \A e \in ToSet(batch') : meta' < e.seq
    BY <1>2, Gathered
  <2>3. orphan' = "read" => copy' <= meta'
    BY <1>2, Gathered DEF Batched
  <2>4. "merged" \notin mishaps' => meta' <= Log!TailSeq(log') /\ writer' # "logged"
    BY <1>2, Gathered, TailIs DEF Batched
  <2> QED BY <2>1, <2>2, <2>3, <2>4 DEF Batched
<1>3. CASE Log!AppendLine
  <2> DEFINE h == Head(batch)
  <2>0. /\ h = batch[1] /\ h \in ToSet(batch) /\ h \in Log!Event
        /\ ToSet(batch') \subseteq ToSet(batch) /\ Rising(batch', life)
        /\ \/ writer' = "logged" /\ batch' = batch
           \/ writer' = "writing" /\ h.seq < batch'[1].seq
        /\ \/ log' = log /\ "merged" \in mishaps'
           \/ log' # <<>> /\ log'[Len(log')] = h /\ Log!TailSeq(log') = h.seq
    BY <1>3, Written
  <2> HIDE DEF h
  <2>1. UNCHANGED <<meta, orphan, copy, life>> /\ mishaps \subseteq mishaps'
    BY <1>3 DEF Log!AppendLine, Log!tasks
  <2>2. meta < h.seq /\ h.seq \in Nat
    BY <2>0, EventFields DEF Batched
  <2>3. "merged" \notin mishaps' =>
          /\ meta' <= Log!TailSeq(log')
          /\ writer' = "logged" => log' # <<>> /\ log'[Len(log')] = batch'[1]
    BY <1>0, <2>0, <2>1, <2>2
  <2> QED BY <2>0, <2>1, <2>3 DEF Batched
<1>4. CASE Log!WriteMeta
  <2>1. batch' = <<>> /\ meta' = batch[Len(batch)].seq /\ writer = "logged" /\ writer' = "idle"
        /\ UNCHANGED <<log, orphan, copy, life, mishaps>>
    BY <1>4, LogLines DEF Log!WriteMeta, Log!tasks, Log!history
  <2>2. Len(batch) = 1 /\ batch # <<>>
    BY <2>1 DEF LogFields
  <2>3. batch[1] \in ToSet(batch) /\ batch[1].seq \in Nat /\ meta' = batch[1].seq
    BY <1>0, <2>1, <2>2, EventLine, EventFields
  <2>4. meta < meta'
    BY <2>3 DEF Batched
  <2>5. "merged" \notin mishaps' => meta' <= Log!TailSeq(log')
    BY <2>1, <2>3, TailIs DEF Batched
  <2>6. orphan' = "read" => copy' <= meta'
    BY <1>0, <2>1, <2>3, <2>4 DEF Batched
  <2>7. Rising(batch', life') /\ ToSet(batch') = {}
    BY <2>1, EmptyOf
  <2> QED BY <2>1, <2>5, <2>6, <2>7 DEF Batched
<1>5. CASE Log!WriteFails
  <2>1. /\ batch' = <<>> /\ writer' = "idle" /\ mishaps \subseteq mishaps'
        /\ UNCHANGED <<log, meta, orphan, copy, life>>
    BY <1>5 DEF Log!WriteFails, Log!tasks
  <2>2. Rising(batch', life') /\ ToSet(batch') = {}
    BY <2>1, EmptyOf
  <2> QED BY <2>1, <2>2, TailIs DEF Batched
<1>6. CASE Log!OrphanRead
  <2>1. /\ UNCHANGED <<batch, writer, log, meta, life, mishaps>>
        /\ orphan' = "read" => copy' = meta
    BY <1>6 DEF Log!OrphanRead, Log!flusher, Log!disk, Log!history
  <2> QED BY <1>0, <2>1, TailIs DEF Batched
<1>7. CASE Log!OrphanWrite
  <2>1. /\ UNCHANGED <<batch, writer, log, life>> /\ mishaps \subseteq mishaps'
        /\ meta' = copy /\ copy <= meta /\ orphan' = "done"
    BY <1>7 DEF Log!OrphanWrite, Log!flusher, Batched
  <2>2. \A e \in ToSet(batch) : e.seq \in Nat
    BY <1>0, EventLine, EventFields
  <2>3. \A e \in ToSet(batch') : meta' < e.seq
    BY <1>0, <2>1, <2>2 DEF Batched
  <2>4. "merged" \notin mishaps' => meta' <= Log!TailSeq(log')
    <3>1. Log!TailSeq(log) \in Nat /\ Log!TailSeq(log') = Log!TailSeq(log)
      BY <2>1, LogNumbers, TailIs
    <3> QED BY <1>0, <2>1, <3>1 DEF Batched
  <2> QED BY <2>1, <2>3, <2>4 DEF Batched
<1>8. CASE Log!Crash
  <2>1. /\ batch' = <<>> /\ writer' = "idle" /\ orphan' = "boot"
        /\ "merged" \notin mishaps' => "merged" \notin mishaps
        /\ UNCHANGED <<log, meta>>
    BY <1>8 DEF Log!Crash
  <2>2. Rising(batch', life') /\ ToSet(batch') = {}
    BY <1>8, EmptyOf DEF Log!Crash
  <2> QED BY <1>8, <2>1, <2>2, TailIs DEF Batched, Log!Crash
<1> QED BY <1>1, <1>2, <1>3, <1>4, <1>5, <1>6, <1>7, <1>8, StepsAside DEF Writing

-----------------------------------------------------------------------------
(* While the bus has no counter, a session that is being opened is, in      *)
(* memory, what the log is.                                                 *)
Loading == wire = 0 /\ (\E w \in waiting : w.at = "upsert") => mem = log

LEMMA LoadingStep ==
    ASSUME LogFields, Opening, Loading, [Log!Next]_(Log!vars)
    PROVE  Loading'
<1>0. wire \in Nat
  BY DEF LogFields
<1>1. ASSUME NEW e, Accepted(e) PROVE Loading'
  <2>1. wire' # 0
    BY <1>1, EventFields DEF Accepted, Stored
  <2> QED BY <2>1 DEF Loading
<1>2. ASSUME NEW w, Asked(w) PROVE Loading'
  BY <1>2, <1>0, LogNumbers DEF Asked, Loading
<1>3. CASE Log!EmitToken
  BY <1>3, LogNumbers DEF Log!EmitToken, Loading
<1>4. ASSUME NEW w \in waiting, Log!Load(w) PROVE Loading'
  BY <1>4 DEF Log!Load, Loading, Log!disk
<1>5. ASSUME NEW w \in waiting, w.kind = "read", Log!Join(w) \/ Log!Resume(w) PROVE Loading'
  <2>1. /\ wire' = wire \/ wire' = Log!Larger(wire, Log!TailSeq(mem))
        /\ waiting' \subseteq waiting /\ UNCHANGED <<mem, log>>
    BY <1>5 DEF Log!Join, Log!Resume, Log!counters, Log!disk
  <2>2. wire' = 0 => wire = 0
    BY <1>0, <2>1, LogNumbers DEF Log!Larger
  <2> QED BY <2>1, <2>2 DEF Loading
<1>6. CASE Log!Gather
  BY <1>6, Gathered DEF Loading
<1>7. CASE Log!AppendLine
  <2>1. wire' = wire /\ wire # 0
    BY <1>7 DEF Log!AppendLine, Log!counters, Opening, LogFields
  <2> QED BY <2>1 DEF Loading
<1>8. CASE Log!WriteMeta \/ Log!WriteFails
  BY <1>8 DEF Log!WriteMeta, Log!WriteFails, Loading, Log!counters, Log!session, Log!tasks
<1>9. CASE Log!EvictFlush
  BY <1>9 DEF Log!EvictFlush, Loading, Log!counters, Log!session, Log!disk
<1>10. CASE Log!EvictDrop
  BY <1>10 DEF Log!EvictDrop, Loading, Opening, Log!counters, Log!disk
<1>11. CASE Log!ForgetCounter
  BY <1>11 DEF Log!ForgetCounter, Loading, Log!tasks
<1>12. CASE Log!OrphanRead
  BY <1>12 DEF Log!OrphanRead, Loading, Log!counters, Log!session, Log!disk
<1>13. CASE Log!OrphanWrite
  BY <1>13 DEF Log!OrphanWrite, Loading, Log!counters, Log!session
<1>14. CASE Log!Crash
  BY <1>14 DEF Log!Crash, Loading
<1>15. CASE UNCHANGED Log!vars
  BY <1>15 DEF Log!vars, Loading, Log!counters, Log!session, Log!disk, Log!tasks
<1> QED BY <1>1, <1>2, <1>3, <1>4, <1>5, <1>6, <1>7, <1>8, <1>9, <1>10, <1>11, <1>12, <1>13, <1>14,
           <1>15, LogSteps

-----------------------------------------------------------------------------
(***************************************************************************)
(* The numbers of this life: they rise in memory and in the log; the log   *)
(* is behind the batch and, when nothing is being written, not beyond      *)
(* meta.json; and the counter of the bus, and the numbers it has given to  *)
(* events that wait, are not behind any event.                             *)
(***************************************************************************)
Orderly == mishaps \cap {"overtaken", "rolled back", "behind"} = {}

Ordered ==
    Orderly =>
      /\ Rising(mem, life) /\ Rising(log, life)
      /\ \A e \in ToSet(log) : e.life = life =>
            /\ writer = "idle" => e.seq <= meta
            /\ writer = "writing" => e.seq < batch[1].seq
            /\ writer = "logged" => e.seq <= batch[1].seq
      /\ wire # 0 => \A e \in Ours : e.seq <= wire
      /\ \A w \in Numbering : \A e \in Ours : e.seq < w.seq

LEMMA EventNumbers ==
    ASSUME LogFields
    PROVE  \A e \in Everywhere : e \in Log!Event /\ e.seq \in Nat /\ e.seq > 0
<1>1. mem \in Seq(Log!Event) /\ backlog \in Seq(Log!Event) /\ batch \in Seq(Log!Event)
      /\ log \in Seq(Log!Event)
  BY DEF LogFields
<1>2. \A e \in Everywhere : e \in Log!Event
  BY <1>1, EventLine DEF Everywhere, InFlight
<1> QED BY <1>2, EventFields

(* Without a counter of the bus, memory and meta.json cover all there is.   *)
LEMMA UncountedCovered ==
    ASSUME LogFields, Opening, Lived, Ordered, Orderly, wire = 0
    PROVE  \A e \in Ours : e.seq <= Log!TailSeq(mem) \/ e.seq <= meta
<1>1. InFlight = {} /\ writer = "idle"
  <2>1. backlog = <<>> /\ batch = <<>> /\ writer = "idle"
    BY DEF Opening, LogFields
  <2> QED BY <2>1, EmptyOf DEF InFlight
<1>2. \A e \in ToSet(mem) : e.life = life => e.seq <= Log!TailSeq(mem)
  BY TailIsLargest DEF LogFields, Lived, Ordered
<1> QED BY <1>1, <1>2 DEF Ours, Everywhere, Ordered

(* The next numbers are beyond every event of this life.                    *)
LEMMA NextBeyond ==
    ASSUME LogFields, Opening, Lived, Ordered, Orderly
    PROVE  \A e \in Ours : e.seq < Log!NextWire /\ e.seq < Log!NextAlloc
<1> SUFFICES ASSUME NEW e \in Ours PROVE e.seq < Log!NextWire /\ e.seq < Log!NextAlloc
  OBVIOUS
<1>1. /\ e.seq \in Nat /\ e.seq > 0 /\ wire \in Nat /\ alloc \in Nat /\ meta \in Nat
      /\ Log!TailSeq(mem) \in Nat /\ Log!NextWire \in Nat /\ Log!NextWire > wire
      /\ Log!NextAlloc \in Nat /\ Log!NextAlloc > alloc
  BY EventNumbers, LogNumbers DEF Ours, LogFields
<1>2. e.seq <= alloc
  BY DEF Lived
<1>3. CASE wire # 0
  BY <1>1, <1>2, <1>3 DEF Ordered
<1>4. CASE wire = 0
  <2>1. Log!NextWire = Log!Larger(Log!TailSeq(mem), meta) + 1
    BY <1>4 DEF Log!NextWire
  <2>2. e.seq <= Log!TailSeq(mem) \/ e.seq <= meta
    BY <1>4, UncountedCovered
  <2> QED BY <1>1, <1>2, <2>1, <2>2 DEF Log!Larger
<1> QED BY <1>3, <1>4

LEMMA OrderedByAcceptance ==
    ASSUME LogFields, Opening, Lived, Ordered, NEW e, Accepted(e), Orderly'
    PROVE  Ordered'
<1>0. /\ Orderly /\ "overtaken" \notin mishaps'
      /\ UNCHANGED <<batch, writer, log, meta, life>> /\ mem' = Append(mem, e)
      /\ waiting' = {w \in waiting : w.id # e.id}
      /\ wire' \in Nat /\ wire <= wire' /\ e.seq <= wire' /\ wire \in Nat
      /\ mem \in Seq(Log!Event)
  BY DEF Accepted, Stored, Orderly, LogFields
<1>1. e \in Log!Event /\ e.life = life /\ Ours' = Ours \cup {e}
  BY EventEnters
<1>2. e.seq \in Nat /\ \A d \in Ours : d.seq \in Nat
  BY <1>1, EventNumbers, EventFields DEF Ours
<1>3. \A d \in Ours : d.seq < e.seq
  <2>1. \/ e.seq = Log!NextWire
        \/ e.seq = Log!NextAlloc
        \/ \E w \in Numbering : w.seq = e.seq
    BY DEF Accepted, Numbered
  <2> QED BY <1>0, <2>1, NextBeyond DEF Ordered
<1>4. Rising(mem', life)
  <2>1. \A d \in ToSet(mem) : d.life = life => d \in Ours
    BY DEF Ours, Everywhere
  <2> QED BY <1>0, <1>1, <1>3, <2>1, RisingJoin DEF Ordered
<1>5. wire' # 0 => \A d \in Ours' : d.seq <= wire'
  BY <1>0, <1>1, <1>2, <1>3
<1>6. ASSUME NEW w \in Numbering' PROVE \A d \in Ours' : d.seq < w.seq
  <2>1. w \in Numbering /\ w \in waiting /\ w.id # e.id
    BY <1>0 DEF Numbering
  <2>2. w.seq \notin 1..e.seq
    BY <1>0, <2>1 DEF Accepted, Stored
  <2>3. w.seq \in Nat /\ w.seq > 0
    BY <2>1 DEF Opening, LogFields
  <2>4. e.seq < w.seq
    BY <1>2, <2>2, <2>3
  <2> QED BY <1>0, <1>1, <2>1, <2>4 DEF Ordered
<1> QED BY <1>0, <1>4, <1>5, <1>6 DEF Ordered

LEMMA MishapsStay ==
    ASSUME LogFields, Opening, [Log!Next]_(Log!vars)
    PROVE  Log!Crash \/ mishaps \subseteq mishaps'
<1>1. CASE Log!Gather
  BY <1>1, Gathered
<1>2. CASE Log!AppendLine \/ Log!WriteMeta \/ Log!WriteFails
  BY <1>2 DEF Log!AppendLine, Log!WriteMeta, Log!WriteFails, Log!history
<1>3. CASE Log!OrphanRead \/ Log!OrphanWrite
  BY <1>3 DEF Log!OrphanRead, Log!OrphanWrite, Log!history
<1> QED BY <1>1, <1>2, <1>3, StepsAside DEF Aside, Writing

(* What a step does to the counter of the bus and to the calls that wait,   *)
(* when it leaves the disk and its writer alone and accepts nothing.        *)
Abreast ==
    /\ wire' # 0 => \A e \in Ours : e.seq <= wire'
    /\ \A w \in Numbering' : \/ \A e \in Ours : e.seq < w.seq
                             \/ \E v \in Numbering : v.seq = w.seq

LEMMA OrderedAside ==
    ASSUME LogFields, Opening, Lived, Loading, Ordered, Orderly, Quiet, [Log!Next]_(Log!vars), ~Writing
    PROVE  Abreast
<1>0. /\ wire \in Nat /\ Log!NextWire \in Nat /\ Log!NextWire > wire
      /\ \A e \in Ours : e.seq \in Nat /\ e.seq < Log!NextWire
      /\ wire # 0 => \A e \in Ours : e.seq <= wire
  BY LogNumbers, NextBeyond, EventNumbers DEF LogFields, Ours, Ordered
<1>1. ASSUME NEW e, Accepted(e) PROVE Abreast
  <2>1. e \in Everywhere' /\ e \notin Everywhere
    BY <1>1, EventEnters
  <2> QED BY <2>1 DEF Quiet
<1>2. ASSUME NEW w, Asked(w) PROVE Abreast
  <2>1. wire' = wire \/ wire' = Log!NextWire
    BY <1>2 DEF Asked
  <2>2. \A v \in Numbering' : v \in Numbering \/ v.seq = Log!NextWire
    BY <1>2 DEF Asked, Numbering
  <2> QED BY <1>0, <2>1, <2>2 DEF Abreast
<1>3. CASE Log!EmitToken
  <2>1. wire' = Log!NextWire /\ waiting' = waiting
    BY <1>3 DEF Log!EmitToken, Log!tasks
  <2> QED BY <1>0, <2>1 DEF Numbering, Abreast
<1>4. ASSUME NEW w \in waiting, Log!Load(w) PROVE Abreast
  <2> DEFINE v == [w EXCEPT !.at = "upsert"]
  <2>1. v.kind = w.kind /\ v.seq = w.seq
    BY LoadedCall DEF Opening
  <2>2. wire' = wire /\ waiting' = (waiting \ {w}) \cup {v}
    BY <1>4 DEF Log!Load, Log!counters
  <2> HIDE DEF v
  <2>3. \A u \in Numbering' : \E t \in Numbering : t.seq = u.seq
    BY <2>1, <2>2 DEF Numbering
  <2> QED BY <1>0, <2>2, <2>3 DEF Abreast
<1>5. ASSUME NEW w \in waiting, w.kind = "read", Log!Join(w) \/ Log!Resume(w) PROVE Abreast
  <2>1. /\ waiting' \subseteq waiting
        /\ wire' = wire \/ (w.at = "upsert" /\ wire' = Log!Larger(wire, Log!TailSeq(mem)))
    BY <1>5 DEF Log!Join, Log!Resume, Log!counters
  <2>2. \A v \in Numbering' : v \in Numbering
    BY <2>1 DEF Numbering
  <2>3. CASE wire # 0 \/ wire' = wire
    BY <1>0, <2>1, <2>2, <2>3, LogNumbers DEF Log!Larger, Abreast
  <2>4. CASE wire = 0 /\ w.at = "upsert" /\ wire' = Log!Larger(wire, Log!TailSeq(mem))
    <3>1. mem = log /\ InFlight = {}
      <4>1. backlog = <<>> /\ batch = <<>>
        BY <2>4 DEF Opening
      <4> QED BY <2>4, <4>1, EmptyOf DEF Loading, InFlight
    <3>2. \A e \in ToSet(mem) : e.life = life => e.seq <= Log!TailSeq(mem)
      BY TailIsLargest DEF LogFields, Lived, Ordered
    <3>3. \A e \in Ours : e.seq <= Log!TailSeq(mem)
      BY <3>1, <3>2 DEF Ours, Everywhere
    <3>4. wire' = Log!TailSeq(mem)
      BY <2>4, LogNumbers DEF Log!Larger
    <3> QED BY <2>2, <3>3, <3>4 DEF Abreast
  <2> QED BY <2>1, <2>3, <2>4
<1>6. CASE Log!EvictFlush
  BY <1>0, <1>6 DEF Log!EvictFlush, Abreast, Numbering, Log!counters
<1>7. CASE Log!EvictDrop
  BY <1>0, <1>7 DEF Log!EvictDrop, Abreast, Numbering, Log!counters
<1>8. CASE Log!ForgetCounter
  BY <1>8 DEF Log!ForgetCounter, Abreast, Numbering, Log!tasks
<1>9. CASE UNCHANGED Log!vars
  BY <1>0, <1>9 DEF Log!vars, Abreast, Numbering, Log!counters, Log!tasks
<1>10. CASE Log!Crash
  BY <1>10 DEF Log!Crash, Abreast, Numbering
<1>11. \/ \E e : Accepted(e)
       \/ \E w : Asked(w)
       \/ Log!EmitToken
       \/ \E w \in waiting : Log!Load(w) \/ (w.kind = "read" /\ (Log!Join(w) \/ Log!Resume(w)))
       \/ Log!EvictFlush \/ Log!EvictDrop \/ Log!ForgetCounter \/ Log!Crash \/ UNCHANGED Log!vars
  BY LogSteps DEF Writing
<1> QED BY <1>1, <1>2, <1>3, <1>4, <1>5, <1>6, <1>7, <1>8, <1>9, <1>10, <1>11

(* Where the log stands between meta.json and what is being written.        *)
Placed ==
    /\ Rising(log, life)
    /\ \A e \in ToSet(log) : e.life = life =>
          /\ writer = "idle" => e.seq <= meta
          /\ writer = "writing" => e.seq < batch[1].seq
          /\ writer = "logged" => e.seq <= batch[1].seq

LEMMA PlacedByWriting ==
    ASSUME LogFields, Opening, Lived, Batched, Placed, [Log!Next]_(Log!vars), Writing, Orderly'
    PROVE  Placed'
<1>0. /\ meta \in Nat /\ copy \in Nat /\ batch \in Seq(Log!Event) /\ log \in Seq(Log!Event)
      /\ \A e \in ToSet(log) : e.seq \in Nat
  BY EventLine, EventFields DEF LogFields
<1>1. CASE Log!Gather
  <2>1. /\ UNCHANGED <<log, meta, life>> /\ writer = "idle" /\ writer' \in {"idle", "writing"}
        /\ writer' = "writing" => batch' # <<>>
    BY <1>1, Gathered DEF Log!Gather
  <2>2. writer' = "writing" => meta < batch'[1].seq /\ batch'[1].seq \in Nat
    <3>1. batch' # <<>> => batch'[1] \in ToSet(batch') /\ batch'[1] \in Log!Event
      BY <1>1, Gathered, EventLine
    <3> QED BY <1>1, <2>1, <3>1, Gathered, EventFields
  <2>3. \A e \in ToSet(log) : e.life = life => e.seq <= meta
    BY <2>1 DEF Placed
  <2> QED BY <1>0, <2>1, <2>2, <2>3 DEF Placed
<1>2. CASE Log!AppendLine
  <2> DEFINE h == Head(batch)
  <2>0. /\ h = batch[1] /\ h \in Log!Event /\ batch' \in Seq(Log!Event) /\ batch' # <<>>
        /\ \/ writer' = "logged" /\ batch' = batch
           \/ writer' = "writing" /\ h.seq < batch'[1].seq
        /\ log' = log \/ (log' = Append(log, h) /\ ToSet(log') = ToSet(log) \cup {h})
    BY <1>2, Written
  <2> HIDE DEF h
  <2>1. writer = "writing" /\ life' = life
    BY <1>2 DEF Log!AppendLine
  <2>2. \A e \in ToSet(log) : e.life = life => e.seq < h.seq
    BY <2>0, <2>1 DEF Placed
  <2>3. Rising(log', life)
    BY <1>0, <2>0, <2>2, RisingJoin DEF Placed
  <2>4. h.seq \in Nat /\ batch'[1].seq \in Nat
    BY <2>0, EventLine, EventFields
  <2>5. \A e \in ToSet(log') : e.life = life => e.seq <= h.seq
    BY <1>0, <2>0, <2>2, <2>4
  <2>6. \A e \in ToSet(log') : e.seq \in Nat
    BY <1>0, <2>0, <2>4
  <2>7. \A e \in ToSet(log') : e.life = life =>
            /\ writer' = "writing" => e.seq < batch'[1].seq
            /\ writer' = "logged" => e.seq <= batch'[1].seq
    BY <2>0, <2>4, <2>5, <2>6
  <2>8. writer' # "idle"
    BY <2>0
  <2> QED BY <2>1, <2>3, <2>7, <2>8 DEF Placed
<1>3. CASE Log!WriteMeta
  <2>1. meta' = batch[Len(batch)].seq /\ writer = "logged" /\ writer' = "idle" /\ UNCHANGED <<log, life>>
    BY <1>3, LogLines DEF Log!WriteMeta, Log!history
  <2>2. Len(batch) = 1
    BY <2>1 DEF LogFields
  <2> QED BY <2>1, <2>2 DEF Placed
<1>4. CASE Log!WriteFails
  <2>1. /\ writer' = "idle" /\ UNCHANGED <<log, meta, life>>
        /\ Log!TailSeq(log) > meta => "behind" \in mishaps'
    BY <1>4 DEF Log!WriteFails
  <2>2. Log!TailSeq(log) <= meta
    <3>1. ~(Log!TailSeq(log) > meta)
      BY <2>1 DEF Orderly
    <3>2. Log!TailSeq(log) \in Nat
      BY LogNumbers
    <3> QED BY <1>0, <3>1, <3>2
  <2>3. \A e \in ToSet(log) : e.life = life => e.seq <= Log!TailSeq(log)
    BY <1>0, TailIsLargest DEF Placed, Lived
  <2>4. \A e \in ToSet(log) : e.life = life => e.seq <= meta
    BY <1>0, <2>2, <2>3, LogNumbers
  <2> QED BY <2>1, <2>4 DEF Placed
<1>5. CASE Log!OrphanRead
  BY <1>5 DEF Log!OrphanRead, Placed, Log!flusher, Log!disk, Log!history
<1>6. CASE Log!OrphanWrite
  <2>1. /\ UNCHANGED <<batch, writer, log, life>> /\ meta' = copy
        /\ copy < meta => "rolled back" \in mishaps'
    BY <1>6 DEF Log!OrphanWrite, Log!flusher
  <2>2. copy <= meta /\ ~(copy < meta)
    BY <1>6, <2>1 DEF Log!OrphanWrite, Batched, Orderly
  <2>3. meta' = meta
    <3>1. copy = meta
      BY ONLY <1>0, <2>2
    <3> QED BY <2>1, <3>1
  <2> QED BY <2>1, <2>3 DEF Placed
<1> QED BY <1>1, <1>2, <1>3, <1>4, <1>5, <1>6 DEF Writing

LEMMA OrderedStep ==
    ASSUME LogFields, Opening, Lived, Batched, Loading, Ordered, [Log!Next]_(Log!vars)
    PROVE  Ordered'
<1>1. ASSUME NEW e, Accepted(e) PROVE Ordered'
  BY <1>1, OrderedByAcceptance DEF Ordered
<1>2. CASE Log!Crash
  <2>1. mem' = <<>> /\ waiting' = {} /\ wire' = 0 /\ log' = log /\ life' = life + 1
    BY <1>2 DEF Log!Crash
  <2>2. \A e \in ToSet(log) : e.life # life'
    <3>1. \A e \in ToSet(log) : e \in Everywhere
      BY DEF Everywhere
    <3>2. \A e \in ToSet(log) : e.life \in Nat /\ e.life <= life
      BY <3>1, EventNumbers, EventFields DEF Lived, LogFields, Log!Bounded
    <3> QED BY <2>1, <3>2 DEF LogFields
  <2>3. Rising(log, life')
    BY <2>2, EventLine DEF Rising, LogFields
  <2>4. Rising(mem', life') /\ Numbering' = {}
    BY <2>1, EmptyOf DEF Numbering
  <2> QED BY <2>1, <2>2, <2>3, <2>4 DEF Ordered
<1>3. ASSUME Quiet, ~Log!Crash, Orderly' PROVE Ordered'
  <2>0. Orderly
    BY <1>3, MishapsStay DEF Orderly
  <2>1. life' = life /\ Ours' \subseteq Ours
    BY <1>3 DEF Ours, Quiet
  <2>2. Rising(mem', life)
    BY <1>3, <2>0, EmptyOf DEF Ordered, Quiet
  <2>3. Placed
    BY <2>0 DEF Ordered, Placed
  <2>4. Abreast /\ Placed'
    <3>1. CASE Writing
      <4>1. UNCHANGED <<wire, waiting>>
        BY <3>1 DEF Writing, Log!Gather, Log!AppendLine, Log!WriteMeta, Log!WriteFails,
                    Log!OrphanRead, Log!OrphanWrite, Log!counters, Log!tasks
      <4>2. Abreast
        BY <2>0, <4>1 DEF Abreast, Ordered, Numbering
      <4> QED BY <1>3, <2>3, <3>1, <4>2, PlacedByWriting
    <3>2. CASE ~Writing
      <4>1. Abreast
        BY <1>3, <2>0, <3>2, OrderedAside
      <4>2. Placed'
        BY <1>3, <2>3, <3>2, StepsAside DEF Aside, Placed
      <4> QED BY <4>1, <4>2
    <3> QED BY <3>1, <3>2
  <2>5. \A w \in Numbering' : \A e \in Ours : e.seq < w.seq
    BY <2>0, <2>4 DEF Abreast, Ordered
  <2> QED BY <2>1, <2>2, <2>4, <2>5 DEF Abreast, Placed, Ordered
<1> QED BY <1>1, <1>2, <1>3, EventsMove DEF Ordered

-----------------------------------------------------------------------------
(***************************************************************************)
(* What was accepted in this life reaches the log, in order: the queue     *)
(* rises, and is behind the batch; meta.json has not passed what is queued *)
(* nor the numbers still to come; and whatever memory has that the log has *)
(* not is in flight, and so is everything after it.                        *)
(***************************************************************************)
Untroubled == mishaps \cap {"overtaken", "merged", "lost"} = {}

(* n is beyond meta.json and everything that is in flight.                  *)
Beyond(n) == meta < n /\ \A e \in InFlight : e.seq < n

Unlogged ==
    \A k \in Log!OfThisLife : mem[k] \notin ToSet(log) =>
        /\ mem[k] \in InFlight
        /\ \A i \in Log!OfThisLife : k < i => mem[i] \notin ToSet(log) /\ mem[k].seq < mem[i].seq

Queued ==
    /\ Rising(backlog, life)
    /\ \A b \in ToSet(batch), q \in ToSet(backlog) : b.seq < q.seq
    /\ \A q \in ToSet(backlog) : meta < q.seq

Passed ==
    /\ \A w \in Numbering : Beyond(w.seq)
    /\ wire # 0 => meta <= wire /\ \A e \in InFlight : e.seq <= wire
    /\ alloc # 0 => meta <= alloc

Flowing == Untroubled => Queued /\ Passed /\ Unlogged

LEMMA FlightNumbers ==
    ASSUME LogFields
    PROVE  \A e \in InFlight : e \in Log!Event /\ e.seq \in Nat /\ e.seq > 0
BY EventNumbers DEF Everywhere

LEMMA NothingFlies ==
    ASSUME LogFields, Opening, wire = 0
    PROVE  InFlight = {}
<1>1. backlog = <<>> /\ batch = <<>>
  BY DEF Opening
<1> QED BY <1>1, EmptyOf DEF InFlight

(* The next numbers are beyond all that is in flight.                       *)
LEMMA NextIsBeyond ==
    ASSUME LogFields, Opening, Lived, Passed
    PROVE  Beyond(Log!NextWire) /\ Beyond(Log!NextAlloc)
<1>0. /\ wire \in Nat /\ alloc \in Nat /\ meta \in Nat /\ Log!TailSeq(mem) \in Nat
      /\ Log!TailSeq(log) \in Nat
      /\ \A e \in InFlight : e.seq \in Nat /\ e.seq > 0
  BY LogNumbers, FlightNumbers DEF LogFields
<1>1. Beyond(Log!NextWire)
  <2>1. CASE wire # 0
    BY <1>0, <2>1 DEF Passed, Beyond, Log!NextWire
  <2>2. CASE wire = 0
    <3>1. InFlight = {}
      BY <2>2, NothingFlies
    <3>2. meta < Log!NextWire
      BY <1>0, <2>2 DEF Log!NextWire, Log!Larger
    <3> QED BY <3>1, <3>2 DEF Beyond
  <2> QED BY <2>1, <2>2
<1>2. \A e \in InFlight : e.seq <= alloc
  BY DEF Lived, Ours, Everywhere
<1>3. Beyond(Log!NextAlloc)
  <2>1. CASE alloc # 0
    BY <1>0, <1>2, <2>1 DEF Passed, Beyond, Log!NextAlloc
  <2>2. CASE alloc = 0
    <3>1. InFlight = {}
      BY <1>0, <1>2, <2>2
    <3>2. meta < Log!NextAlloc
      BY <1>0, <2>2 DEF Log!NextAlloc
    <3> QED BY <3>1, <3>2 DEF Beyond
  <2> QED BY <2>1, <2>2
<1> QED BY <1>1, <1>3

LEMMA FlowingByAcceptance ==
    ASSUME LogFields, Opening, Lived, Flowing, NEW e, Accepted(e), [Log!Next]_(Log!vars), Untroubled'
    PROVE  Queued' /\ Passed' /\ Unlogged'
<1>0. /\ Untroubled /\ "overtaken" \notin mishaps' /\ "lost" \notin mishaps'
      /\ UNCHANGED <<batch, log, meta, life>>
      /\ mem' = Append(mem, e) /\ backlog' = Append(backlog, e)
      /\ waiting' = {w \in waiting : w.id # e.id}
      /\ wire' \in Nat /\ wire <= wire' /\ e.seq <= wire' /\ wire \in Nat /\ meta \in Nat
      /\ mem \in Seq(Log!Event) /\ backlog \in Seq(Log!Event) /\ batch \in Seq(Log!Event)
  BY DEF Accepted, Stored, Untroubled, LogFields
<1>a. Queued /\ Passed /\ Unlogged
  BY <1>0 DEF Flowing
<1>1. /\ e \in Log!Event /\ e.life = life /\ e \notin Everywhere /\ InFlight' \subseteq InFlight \cup {e}
      /\ InFlight \subseteq InFlight' /\ e \in InFlight'
  BY <1>0, EventEnters
<1>2. e.seq \in Nat /\ \A d \in InFlight : d.seq \in Nat
  BY <1>1, FlightNumbers, EventFields
<1>3. Beyond(e.seq)
  <2>1. \/ e.seq = Log!NextWire
        \/ e.seq = Log!NextAlloc
        \/ \E w \in Numbering : w.seq = e.seq
    BY DEF Accepted, Numbered
  <2> QED BY <1>a, <2>1, NextIsBeyond DEF Passed
<1>4. Queued'
  <2>1. \A q \in ToSet(backlog) : q \in InFlight
    BY DEF InFlight
  <2>2. \A b \in ToSet(batch) : b \in InFlight
    BY DEF InFlight
  <2>3. ToSet(backlog') = ToSet(backlog) \cup {e}
    BY <1>0, <1>1, JoinLine
  <2>4. Rising(backlog', life)
    BY <1>0, <1>1, <1>3, <1>a, <2>1, RisingJoin DEF Beyond, Queued
  <2>5. \A b \in ToSet(batch), q \in ToSet(backlog') : b.seq < q.seq
    BY <1>3, <1>a, <2>2, <2>3 DEF Beyond, Queued
  <2>6. \A q \in ToSet(backlog') : meta < q.seq
    BY <1>3, <1>a, <2>3 DEF Beyond, Queued
  <2> QED BY <1>0, <2>4, <2>5, <2>6 DEF Queued
<1>5. Passed'
  <2>1. ASSUME NEW w \in Numbering' PROVE Beyond(w.seq)'
    <3>1. w \in Numbering /\ w \in waiting /\ w.id # e.id
      BY <1>0 DEF Numbering
    <3>2. w.seq \notin 1..e.seq
      BY <1>0, <3>1 DEF Accepted, Stored
    <3>3. w.seq \in Nat /\ w.seq > 0
      BY <3>1 DEF Opening, LogFields
    <3>4. e.seq < w.seq
      BY <1>2, <3>2, <3>3
    <3>5. \A d \in InFlight' : d.seq < w.seq
      BY <1>1, <1>a, <3>1, <3>4 DEF Passed, Beyond
    <3>6. meta' < w.seq
      BY <1>0, <1>a, <3>1 DEF Passed, Beyond
    <3> QED BY <3>5, <3>6 DEF Beyond
  <2>2. meta < e.seq /\ \A d \in InFlight' : d.seq <= e.seq
    BY <1>1, <1>2, <1>3 DEF Beyond
  <2>3. \A d \in InFlight' : d.seq <= wire'
    BY <1>0, <1>1, <1>2, <2>2
  <2>4. meta' <= wire'
    BY <1>0, <1>2, <2>2
  <2>5. meta' <= alloc'
    <3>1. e.seq <= alloc' /\ alloc' \in Nat
      BY CounterGoesOn, LogFieldsStep DEF LogFields
    <3> QED BY <1>0, <1>2, <2>2, <3>1
  <2> QED BY <2>1, <2>3, <2>4, <2>5 DEF Passed
<1>6. Unlogged'
  <2>1. /\ Len(mem) \in Nat /\ Len(mem') = Len(mem) + 1 /\ mem'[Len(mem) + 1] = e
        /\ \A k \in 1..Len(mem) : mem'[k] = mem[k]
        /\ \A k \in 1..Len(mem') : k \in 1..Len(mem) \/ k = Len(mem) + 1
    BY <1>0, <1>1, JoinedPlaces
  <2>2. \A k \in Log!OfThisLife' : k \in Log!OfThisLife \/ k = Len(mem) + 1
    BY <1>0, <2>1 DEF Log!OfThisLife
  <2>3. e \notin ToSet(log)
    BY <1>1 DEF Everywhere
  <2> SUFFICES ASSUME NEW k \in Log!OfThisLife', mem'[k] \notin ToSet(log)
               PROVE  /\ mem'[k] \in InFlight'
                      /\ \A i \in Log!OfThisLife' : k < i => mem'[i] \notin ToSet(log)
                            /\ mem'[k].seq < mem'[i].seq
    BY <1>0 DEF Unlogged
  <2>4. CASE k = Len(mem) + 1
    <3>1. \A i \in Log!OfThisLife' : ~(k < i)
      BY <2>1, <2>2, <2>4 DEF Log!OfThisLife
    <3> QED BY <1>1, <2>1, <2>4, <3>1
  <2>5. CASE k \in Log!OfThisLife
    <3>1. k \in 1..Len(mem) /\ mem'[k] = mem[k] /\ mem[k] \in InFlight
      BY <1>a, <2>1, <2>5 DEF Log!OfThisLife, Unlogged
    <3>2. ASSUME NEW i \in Log!OfThisLife', k < i
          PROVE  mem'[i] \notin ToSet(log) /\ mem'[k].seq < mem'[i].seq
      <4>1. CASE i = Len(mem) + 1
        BY <1>3, <2>1, <2>3, <3>1, <4>1 DEF Beyond
      <4>2. CASE i \in Log!OfThisLife
        <5>1. mem'[i] = mem[i]
          BY <2>1, <4>2 DEF Log!OfThisLife
        <5> QED BY <1>a, <2>5, <3>1, <3>2, <4>2, <5>1 DEF Unlogged
      <4> QED BY <2>2, <4>1, <4>2
    <3> QED BY <1>1, <3>1, <3>2
  <2> QED BY <2>2, <2>4, <2>5
<1> QED BY <1>4, <1>5, <1>6

LEMMA OneLine ==
    ASSUME NEW R, NEW s \in Seq(R), Len(s) = 1
    PROVE  s[1] \in ToSet(s) /\ ToSet(s) = {s[1]}
<1>1. \A k \in 1..Len(s) : k = 1
  OBVIOUS
<1>2. 1 \in 1..Len(s)
  OBVIOUS
<1> QED BY <1>1, <1>2, EventLine

(* The flusher and the boot task keep what is queued and what is passed.    *)
LEMMA FlowingByWriting ==
    ASSUME LogFields, Opening, Lived, Batched, Flowing, [Log!Next]_(Log!vars), Writing, Untroubled'
    PROVE  Queued' /\ Passed' /\ Unlogged'
<1>0. /\ meta \in Nat /\ copy \in Nat /\ wire \in Nat /\ alloc \in Nat
      /\ batch \in Seq(Log!Event) /\ log \in Seq(Log!Event) /\ backlog \in Seq(Log!Event)
      /\ \A e \in InFlight : e.seq \in Nat
      /\ \A w \in Numbering : w.seq \in Nat
  BY FlightNumbers DEF LogFields, Opening, Numbering
<1>a. Untroubled /\ "merged" \notin mishaps' /\ "lost" \notin mishaps'
  <2>1. mishaps \subseteq mishaps'
    BY Gathered DEF Writing, Log!AppendLine, Log!WriteMeta, Log!WriteFails, Log!OrphanRead,
                    Log!OrphanWrite, Log!history
  <2> QED BY <2>1 DEF Untroubled
<1>b. Queued /\ Passed /\ Unlogged
  BY <1>a DEF Flowing
<1>c. UNCHANGED <<mem, life, wire, alloc, waiting>>
  BY DEF Writing, Log!Gather, Log!AppendLine, Log!WriteMeta, Log!WriteFails, Log!OrphanRead,
         Log!OrphanWrite,
         Log!counters, Log!session, Log!tasks, Log!history
<1>d. Log!OfThisLife' = Log!OfThisLife /\ Numbering' = Numbering
  BY <1>c DEF Log!OfThisLife, Numbering
<1>e. meta' \in Nat
  BY LogFieldsStep DEF LogFields
(* It is enough that nothing new flies, that what leaves is in the log, and *)
(* that meta.json does not pass what is not in the log.                     *)
<1>1. ASSUME meta' <= meta \/ (\E e \in InFlight : meta' = e.seq), InFlight' \subseteq InFlight
      PROVE  Passed'
  <2>1. \A n \in Nat : Beyond(n) => Beyond(n)'
    BY <1>0, <1>1, <1>e DEF Beyond
  <2>2. \A w \in Numbering : Beyond(w.seq)'
    BY <1>0, <1>b, <2>1 DEF Passed
  <2>3. wire # 0 => meta' <= wire /\ \A e \in InFlight' : e.seq <= wire
    BY <1>0, <1>1, <1>b, <1>e DEF Passed
  <2>4. alloc # 0 => meta' <= alloc
    <3>1. \A e \in InFlight : e.seq <= alloc
      BY DEF Lived, Ours, Everywhere
    <3> QED BY <1>0, <1>1, <1>b, <1>e, <3>1 DEF Passed
  <2> QED BY <1>c, <1>d, <2>2, <2>3, <2>4 DEF Passed
<1>2. ASSUME log' = log, \A e \in InFlight : e \in InFlight' \/ e \in ToSet(log)
      PROVE  Unlogged'
  BY <1>2, <1>b, <1>c, <1>d DEF Unlogged
<1>3. CASE Log!Gather
  <2>1. \A q \in ToSet(backlog) : q.life = life /\ meta < q.seq
    BY <1>b DEF Lived, InFlight, Queued
  <2>2. Ascending(backlog)
    <3>1. \A k \in 1..Len(backlog) : backlog[k].life = life
      BY <1>0, <2>1, EventLine
    <3> QED BY <1>b, <3>1 DEF Ascending, Queued, Rising
  <2>3. ToSet(batch') = ToSet(backlog)
    BY <1>0, <1>3, <2>1, <2>2, KeptAll DEF Log!Gather
  <2>4. batch = <<>> /\ backlog' = <<>> /\ log' = log /\ meta' = meta
    BY <1>3, Gathered
  <2>5. InFlight' = InFlight
    BY <2>3, <2>4, EmptyOf DEF InFlight
  <2>6. Queued'
    BY <2>4, EmptyOf DEF Queued
  <2> QED BY <1>0, <1>1, <1>2, <2>4, <2>5, <2>6
<1>4. CASE Log!AppendLine
  <2> DEFINE h == Head(batch)
  <2>0. /\ h \in ToSet(batch) /\ h \in Log!Event
        /\ \A e \in ToSet(batch) : h.seq <= e.seq
        /\ ToSet(batch) \subseteq ToSet(batch') \cup {h} /\ ToSet(batch') \subseteq ToSet(batch)
        /\ ToSet(log') = ToSet(log) \cup {h}
    BY <1>4, <1>a, Written
  <2> HIDE DEF h
  <2>1. backlog' = backlog /\ meta' = meta
    BY <1>4 DEF Log!AppendLine
  <2>2. InFlight' \subseteq InFlight /\ InFlight \subseteq InFlight' \cup {h}
    BY <2>0, <2>1 DEF InFlight
  <2>3. Queued'
    BY <1>b, <1>c, <2>0, <2>1 DEF Queued
  <2>4. Passed'
    BY <1>0, <1>1, <2>1, <2>2
  <2>5. h.seq \in Nat /\ \A e \in InFlight : h.seq <= e.seq
    BY <1>0, <1>b, <2>0, EventFields DEF InFlight, Queued
  <2>6. Unlogged'
    <3> SUFFICES ASSUME NEW k \in Log!OfThisLife, mem[k] \notin ToSet(log')
                 PROVE  /\ mem[k] \in InFlight'
                        /\ \A i \in Log!OfThisLife : k < i => mem[i] \notin ToSet(log')
                              /\ mem[k].seq < mem[i].seq
      BY <1>c, <1>d DEF Unlogged
    <3>1. /\ mem[k] # h /\ mem[k] \in InFlight
          /\ \A i \in Log!OfThisLife : k < i => mem[i] \notin ToSet(log) /\ mem[k].seq < mem[i].seq
      BY <1>b, <2>0 DEF Unlogged
    <3>2. mem[k] \in InFlight'
      BY <2>2, <3>1
    <3>3. h.seq <= mem[k].seq /\ mem[k].seq \in Nat
      BY <1>0, <2>5, <3>1
    <3>4. \A i \in Log!OfThisLife : k < i => mem[i] # h
      BY <2>5, <3>1, <3>3
    <3> QED BY <2>0, <3>1, <3>2, <3>4
  <2> QED BY <2>3, <2>4, <2>6
<1>5. CASE Log!WriteMeta
  <2>1. batch' = <<>> /\ meta' = batch[Len(batch)].seq /\ writer = "logged" /\ UNCHANGED <<log, backlog>>
    BY <1>5, LogLines DEF Log!WriteMeta
  <2>2. Len(batch) = 1 /\ log # <<>> /\ log[Len(log)] = batch[1]
    BY <1>a, <2>1 DEF LogFields, Batched, Untroubled
  <2>3. batch[1] \in ToSet(batch) /\ ToSet(batch) = {batch[1]}
    BY <1>0, <2>2, OneLine
  <2>4. batch[1] \in ToSet(log)
    BY <1>0, <2>2, EventLine
  <2>5. InFlight' = ToSet(backlog) /\ batch[1] \in InFlight
    BY <2>1, <2>3, EmptyOf DEF InFlight
  <2>6. Queued'
    BY <1>b, <1>c, <2>1, <2>2, <2>3, EmptyOf DEF Queued
  <2>7. Passed'
    BY <1>1, <2>1, <2>2, <2>5 DEF InFlight
  <2>8. Unlogged'
    BY <1>2, <2>1, <2>3, <2>4, <2>5 DEF InFlight
  <2> QED BY <2>6, <2>7, <2>8
<1>6. CASE Log!WriteFails
  <2>1. /\ batch' = <<>> /\ writer # "idle" /\ UNCHANGED <<log, backlog, meta>>
        /\ writer = "writing" => "lost" \in mishaps'
    BY <1>6 DEF Log!WriteFails
  <2>2. writer = "logged" /\ Len(batch) = 1 /\ log # <<>> /\ log[Len(log)] = batch[1]
    BY <1>a, <2>1 DEF LogFields, Batched, Untroubled
  <2>3. ToSet(batch) = {batch[1]} /\ batch[1] \in ToSet(log)
    <3>1. ToSet(batch) = {batch[1]}
      BY <1>0, <2>2, OneLine
    <3>2. batch[1] \in ToSet(log)
      BY <1>0, <2>2, EventLine
    <3> QED BY <3>1, <3>2
  <2>4. InFlight' = ToSet(backlog)
    BY <2>1, EmptyOf DEF InFlight
  <2>5. Queued'
    BY <1>b, <1>c, <2>1, EmptyOf DEF Queued
  <2>6. Passed'
    BY <1>0, <1>1, <2>1, <2>4 DEF InFlight
  <2>7. Unlogged'
    BY <1>2, <2>1, <2>3, <2>4 DEF InFlight
  <2> QED BY <2>5, <2>6, <2>7
<1>7. CASE Log!OrphanRead \/ Log!OrphanWrite
  <2>1. UNCHANGED <<batch, backlog, log>> /\ meta' <= meta
    <3>1. CASE Log!OrphanRead
      BY <1>0, <3>1 DEF Log!OrphanRead, Log!flusher, Log!disk
    <3>2. CASE Log!OrphanWrite
      BY <1>0, <3>2 DEF Log!OrphanWrite, Log!flusher, Batched
    <3> QED BY <1>7, <3>1, <3>2
  <2>2. InFlight' = InFlight
    BY <2>1 DEF InFlight
  <2>3. \A q \in ToSet(backlog) : q.seq \in Nat
    BY <1>0 DEF InFlight
  <2>4. Queued'
    BY <1>0, <1>b, <1>c, <1>e, <2>1, <2>3 DEF Queued
  <2> QED BY <1>1, <1>2, <2>1, <2>2, <2>4
<1> QED BY <1>3, <1>4, <1>5, <1>6, <1>7 DEF Writing

(* So do the other steps, that leave what is in flight alone.               *)
Moving ==
    /\ backlog' = backlog
    /\ wire' # 0 => meta <= wire' /\ \A e \in InFlight : e.seq <= wire'
    /\ \A w \in Numbering' : Beyond(w.seq) \/ \E v \in Numbering : v.seq = w.seq

LEMMA OthersMove ==
    ASSUME LogFields, Opening, Lived, Batched, Loading, Passed, Untroubled, Quiet, [Log!Next]_(Log!vars),
           ~Writing, ~Log!Crash
    PROVE  Moving
<1>0. /\ wire \in Nat /\ meta \in Nat /\ Log!NextWire \in Nat /\ Log!NextWire > wire
      /\ Log!TailSeq(mem) \in Nat
      /\ \A e \in InFlight : e.seq \in Nat
      /\ Beyond(Log!NextWire)
      /\ wire # 0 => meta <= wire /\ \A e \in InFlight : e.seq <= wire
  BY LogNumbers, NextIsBeyond, FlightNumbers DEF LogFields, Passed
<1>1. ASSUME NEW e, Accepted(e) PROVE Moving
  <2>1. e \in Everywhere' /\ e \notin Everywhere
    BY <1>1, EventEnters
  <2> QED BY <2>1 DEF Quiet
<1>2. ASSUME NEW w, Asked(w) PROVE Moving
  <2>1. backlog' = backlog /\ (wire' = wire \/ wire' = Log!NextWire)
    BY <1>2 DEF Asked
  <2>2. \A v \in Numbering' : v \in Numbering \/ v.seq = Log!NextWire
    BY <1>2 DEF Asked, Numbering
  <2> QED BY <1>0, <2>1, <2>2 DEF Moving, Beyond
<1>3. CASE Log!EmitToken
  <2>1. wire' = Log!NextWire /\ waiting' = waiting /\ backlog' = backlog
    BY <1>3 DEF Log!EmitToken, Log!tasks, Log!flusher
  <2> QED BY <1>0, <2>1 DEF Numbering, Moving, Beyond
<1>4. ASSUME NEW w \in waiting, Log!Load(w) PROVE Moving
  <2> DEFINE v == [w EXCEPT !.at = "upsert"]
  <2>1. v.kind = w.kind /\ v.seq = w.seq
    BY LoadedCall DEF Opening
  <2>2. wire' = wire /\ waiting' = (waiting \ {w}) \cup {v} /\ backlog' = backlog
    BY <1>4 DEF Log!Load, Log!counters, Log!flusher
  <2> HIDE DEF v
  <2>3. \A u \in Numbering' : \E t \in Numbering : t.seq = u.seq
    BY <2>1, <2>2 DEF Numbering
  <2> QED BY <1>0, <2>2, <2>3 DEF Moving
<1>5. ASSUME NEW w \in waiting, w.kind = "read", Log!Join(w) \/ Log!Resume(w) PROVE Moving
  <2>1. /\ waiting' \subseteq waiting /\ backlog' = backlog
        /\ wire' = wire \/ (w.at = "upsert" /\ wire' = Log!Larger(wire, Log!TailSeq(mem)))
    BY <1>5 DEF Log!Join, Log!Resume, Log!counters, Log!flusher
  <2>2. \A v \in Numbering' : v \in Numbering
    BY <2>1 DEF Numbering
  <2>3. CASE wire # 0 \/ wire' = wire
    <3>1. wire' \in Nat /\ wire <= wire'
      BY <1>0, <2>1 DEF Log!Larger
    <3>2. wire' # 0 => wire # 0
      BY <2>3
    <3> QED BY <1>0, <2>1, <2>2, <3>1, <3>2 DEF Moving
  <2>4. CASE wire = 0 /\ w.at = "upsert" /\ wire' = Log!Larger(wire, Log!TailSeq(mem))
    <3>1. mem = log /\ InFlight = {}
      BY <2>4, NothingFlies DEF Loading
    <3>2. meta <= Log!TailSeq(mem)
      BY <3>1 DEF Batched, Untroubled
    <3>3. wire' = Log!TailSeq(mem)
      BY <1>0, <2>4 DEF Log!Larger
    <3> QED BY <2>1, <2>2, <3>1, <3>2, <3>3 DEF Moving
  <2> QED BY <2>1, <2>3, <2>4
<1>6. CASE Log!EvictFlush
  BY <1>0, <1>6 DEF Log!EvictFlush, Moving, Numbering, Log!counters, Log!flusher
<1>7. CASE Log!EvictDrop
  BY <1>0, <1>7 DEF Log!EvictDrop, Moving, Numbering, Log!counters, Log!flusher
<1>8. CASE Log!ForgetCounter
  BY <1>8 DEF Log!ForgetCounter, Moving, Numbering, Log!tasks, Log!flusher
<1>9. CASE UNCHANGED Log!vars
  BY <1>0, <1>9 DEF Log!vars, Moving, Numbering, Log!counters, Log!tasks, Log!flusher
<1>10. \/ \E e : Accepted(e)
       \/ \E w : Asked(w)
       \/ Log!EmitToken
       \/ \E w \in waiting : Log!Load(w) \/ (w.kind = "read" /\ (Log!Join(w) \/ Log!Resume(w)))
       \/ Log!EvictFlush \/ Log!EvictDrop \/ Log!ForgetCounter \/ UNCHANGED Log!vars
  BY LogSteps DEF Writing
<1> QED BY <1>1, <1>2, <1>3, <1>4, <1>5, <1>6, <1>7, <1>8, <1>9, <1>10

LEMMA FlowingAside ==
    ASSUME LogFields, Opening, Lived, Batched, Loading, Flowing, Quiet, [Log!Next]_(Log!vars),
           ~Writing, ~Log!Crash, Untroubled'
    PROVE  Queued' /\ Passed' /\ Unlogged'
<1>1. Aside
  BY StepsAside
<1>2. Untroubled
  BY <1>1 DEF Aside, Untroubled
<1>3. Queued /\ Passed /\ Unlogged
  BY <1>2 DEF Flowing
<1>4. Moving
  BY <1>2, <1>3, OthersMove
<1>5. UNCHANGED <<batch, backlog, log, meta, life, alloc>>
  BY <1>1, <1>4 DEF Aside, Moving, Quiet
<1>6. InFlight' = InFlight
  BY <1>5 DEF InFlight
<1>7. Queued'
  BY <1>3, <1>5 DEF Queued
<1>8. Passed'
  <2>1. \A w \in Numbering' : Beyond(w.seq)
    BY <1>3, <1>4 DEF Moving, Passed
  <2>2. \A w \in Numbering' : Beyond(w.seq)'
    BY <1>5, <1>6, <2>1 DEF Beyond
  <2> QED BY <1>3, <1>4, <1>5, <1>6, <2>2 DEF Moving, Passed
<1>9. Unlogged'
  <2>1. CASE mem' = mem
    <3>1. Log!OfThisLife' = Log!OfThisLife
      BY <1>5, <2>1 DEF Log!OfThisLife
    <3> QED BY <1>3, <1>5, <1>6, <2>1, <3>1 DEF Unlogged
  <2>2. CASE mem' = log
    <3>1. \A k \in 1..Len(log) : log[k] \in ToSet(log)
      BY EventLine DEF LogFields
    <3> QED BY <1>5, <2>2, <3>1 DEF Unlogged, Log!OfThisLife
  <2>3. CASE mem' = <<>>
    <3>1. Len(mem') = 0
      BY <2>3, EmptySeq
    <3> QED BY <3>1 DEF Unlogged, Log!OfThisLife
  <2> QED BY <2>1, <2>2, <2>3 DEF Quiet
<1> QED BY <1>7, <1>8, <1>9

LEMMA FlowingStep ==
    ASSUME LogFields, Opening, Lived, Batched, Loading, Flowing, [Log!Next]_(Log!vars)
    PROVE  Flowing'
<1>1. ASSUME NEW e, Accepted(e) PROVE Flowing'
  BY <1>1, FlowingByAcceptance DEF Flowing
<1>2. CASE Log!Crash
  <2>1. /\ mem' = <<>> /\ backlog' = <<>> /\ waiting' = {} /\ wire' = 0 /\ alloc' = 0
    BY <1>2 DEF Log!Crash
  <2>2. Queued'
    BY <2>1, EmptyOf DEF Queued
  <2>3. Passed'
    BY <2>1 DEF Passed, Numbering
  <2>4. Unlogged'
    <3>1. Len(mem') = 0
      BY <2>1, EmptySeq
    <3> QED BY <3>1 DEF Unlogged, Log!OfThisLife
  <2> QED BY <2>2, <2>3, <2>4 DEF Flowing
<1>3. CASE Writing
  BY <1>3, FlowingByWriting DEF Flowing
<1>4. CASE Quiet /\ ~Writing /\ ~Log!Crash
  BY <1>4, FlowingAside DEF Flowing
<1> QED BY <1>1, <1>2, <1>3, <1>4, EventsMove

-----------------------------------------------------------------------------
(***************************************************************************)
(* The invariant of the log.  InOrder is read off Ordered and              *)
(* NothingDropped off Flowing; neither is inductive without what is known  *)
(* of the calls in open, of the lives of the events and of the writer.     *)
(***************************************************************************)
LogInvariant ==
    LogFields /\ Opening /\ Lived /\ Batched /\ Loading /\ Ordered /\ Flowing

LEMMA LogInitially ==
    ASSUME Log!Bounded, Log!Init
    PROVE  LogInvariant
<1>1. /\ wire = 0 /\ mem = <<>> /\ backlog = <<>> /\ batch = <<>> /\ log = <<>> /\ waiting = {}
      /\ alloc = 0 /\ meta = 0 /\ orphan = "done" /\ writer = "idle" /\ evicting = FALSE
  BY DEF Log!Init
<1>2. LogFields
  <2>1. <<>> \in Seq(Log!Event)
    BY EmptyLine
  <2>2. 0 \in 0..MaxCalls /\ 0 \in 0..MaxCrashes /\ 0 \in 0..MaxFailures
    BY DEF Log!Bounded
  <2> QED BY <2>1, <2>2 DEF Log!Init, LogFields
<1>3. Opening /\ Loading
  BY <1>1 DEF Opening, Numbering, Loading
<1>4. Everywhere = {} /\ InFlight = {} /\ Ours = {} /\ Numbering = {}
  BY <1>1, EmptyOf DEF Everywhere, InFlight, Ours, Numbering
<1>5. Lived
  BY <1>1, <1>4, EmptyOf DEF Lived
<1>6. Batched
  BY <1>1, EmptyOf, TailIs DEF Batched
<1>7. Ordered
  BY <1>1, <1>4, EmptyOf DEF Ordered
<1>8. Flowing
  <2>1. Log!OfThisLife = {}
    BY <1>1, EmptySeq DEF Log!OfThisLife
  <2> QED BY <1>1, <1>4, <2>1, EmptyOf DEF Flowing, Queued, Passed, Unlogged
<1> QED BY <1>2, <1>3, <1>5, <1>6, <1>7, <1>8 DEF LogInvariant

LEMMA LogInductive ==
    ASSUME LogInvariant, [Log!Next]_(Log!vars)
    PROVE  LogInvariant'
<1>1. LogFields' /\ Opening' /\ Lived' /\ Batched'
  BY LogFieldsStep, OpeningStep, LivedStep, BatchedStep DEF LogInvariant
<1>2. Loading'
  BY LoadingStep DEF LogInvariant
<1>3. Ordered'
  BY OrderedStep DEF LogInvariant
<1>4. Flowing'
  BY FlowingStep DEF LogInvariant
<1> QED BY <1>1, <1>2, <1>3, <1>4 DEF LogInvariant

LEMMA LogTypesHold ==
    ASSUME LogInvariant
    PROVE  Log!TypeOK
<1>1. LogFields /\ waiting \subseteq Log!Call /\ \A v, w \in waiting : v.id = w.id => v = w
  BY DEF LogInvariant, Opening
<1>2. ToSet(mem) \cup ToSet(backlog) \cup ToSet(batch) \cup ToSet(log) \subseteq Log!Event
  BY <1>1, EventLine DEF LogFields
<1>3. ToSet(mem) \cup ToSet(backlog) \cup ToSet(batch) \cup ToSet(log) \subseteq Log!Event
  BY <1>2
<1> QED BY <1>1, <1>3, LogLines DEF LogFields, Log!TypeOK

LEMMA LogInOrder ==
    ASSUME LogInvariant
    PROVE  Log!InOrder
BY DEF LogInvariant, Ordered, Orderly, Rising, Log!InOrder, Log!OfThisLife

LEMMA LogDropsNothing ==
    ASSUME LogInvariant
    PROVE  Log!NothingDropped
<1> SUFFICES ASSUME Untroubled
             PROVE  /\ \A k \in Log!OfThisLife : mem[k] \in InFlight \cup ToSet(log)
                    /\ \A j, k \in Log!OfThisLife : j < k
                          /\ mem[k] \in ToSet(log) => mem[j] \in ToSet(log)
  BY LogLines DEF Log!NothingDropped, Log!NoHoles, Untroubled, InFlight
<1>1. Unlogged
  BY DEF LogInvariant, Flowing
<1> QED BY <1>1 DEF Unlogged

(* The types of the log's variables: what is in memory, queued, being       *)
(* written or in events.jsonl are events, no two calls in open are the same *)
(* one, and the writer is idle exactly when it has nothing left to write.   *)
THEOREM LogTypes == LogSpec => []LogTypeOK
<1>1. Log!Init => LogInvariant
  BY LogAssumption, LogInitially
<1>2. LogInvariant /\ [Log!Next]_(Log!vars) => LogInvariant'
  BY LogInductive
<1>3. LogInvariant => LogTypeOK
  BY LogTypesHold DEF LogTypeOK
<1> QED BY <1>1, <1>2, <1>3, PTL DEF LogSpec, Log!Spec

(* The two counters never give numbers out of order: the events that a      *)
(* daemon accepts are numbered in the order of acceptance, however the bus  *)
(* and the store interleave, whatever is evicted, loaded again, forgotten   *)
(* or lost to a crash, unless a call was overtaken after the bus had        *)
(* numbered its event or meta.json was left behind the log.                 *)
THEOREM NumbersInOrder == LogSpec => []InOrder
<1>1. Log!Init => LogInvariant
  BY LogAssumption, LogInitially
<1>2. LogInvariant /\ [Log!Next]_(Log!vars) => LogInvariant'
  BY LogInductive
<1>3. LogInvariant => InOrder
  BY LogInOrder DEF InOrder
<1> QED BY <1>1, <1>2, <1>3, PTL DEF LogSpec, Log!Spec

(* Nothing is dropped from the durable log: each event that the daemon has  *)
(* in memory from this life is queued, being written or in the log, and an  *)
(* event is in the log only after those accepted before it.                 *)
THEOREM NothingIsDropped == LogSpec => []NothingDropped
<1>1. Log!Init => LogInvariant
  BY LogAssumption, LogInitially
<1>2. LogInvariant /\ [Log!Next]_(Log!vars) => LogInvariant'
  BY LogInductive
<1>3. LogInvariant => NothingDropped
  BY LogDropsNothing DEF NothingDropped
<1> QED BY <1>1, <1>2, <1>3, PTL DEF LogSpec, Log!Spec

-----------------------------------------------------------------------------
(***************************************************************************)
(* Memory is the log and what is still on its way there, in order: what    *)
(* the writer has not written, then the queue.  A session that is not      *)
(* loaded has nothing on its way, so that whoever loads it sees it all.    *)
(***************************************************************************)
Rest == IF writer = "writing" THEN batch ELSE <<>>

Mirrored ==
    mishaps = {} =>
        IF loaded THEN mem = log \o Rest \o backlog ELSE backlog = <<>> /\ Rest = <<>>

(* A line is one of its members.                                            *)
LEMMA SeqOfMembers == ASSUME NEW R, NEW s \in Seq(R) PROVE s \in Seq(ToSet(s))
<1>1. Len(s) \in Nat /\ s \in [1..Len(s) -> R] /\ \A k \in 1..Len(s) : s[k] \in ToSet(s)
  BY LenProperties, EventLine
<1>2. s = [k \in 1..Len(s) |-> s[k]]
  BY <1>1
<1>3. [k \in 1..Len(s) |-> s[k]] \in Seq(ToSet(s))
  BY <1>1, IsASeq
<1> QED BY <1>2, <1>3

(* A batch that rises beyond meta.json is written as it is.                 *)
LEMMA KeptSame ==
    ASSUME NEW s \in Seq(Log!Event), meta \in Nat, Ascending(s), \A e \in ToSet(s) : meta < e.seq
    PROVE  Log!Kept(s) = s
<1> DEFINE S == Log!Chosen(s)
           score == [e \in Log!Chosen(s) |-> e.seq]
<1>1. S = ToSet(s)
  BY KeptAll, KeptLine
<1>2. s \in Seq(S)
  BY <1>1, SeqOfMembers
<1>3. \A e \in S : score[e] = e.seq /\ score[e] \in Int
  BY <1>1, EventLine, EventFields
<1>4. \A i \in 1..Len(s) : s[i] \in S
  BY <1>2, EventLine
<1> HIDE DEF S, score
<1>5. ByScore(s, S, score)
  BY <1>1, <1>2, <1>3, <1>4 DEF ByScore, Ascending
<1> QED BY <1>5, ArrangedIs, LogLines DEF Log!Kept, S, score

(* One case for each step that moves events.                                *)
LEMMA MirroredStep ==
    ASSUME LogInvariant, Mirrored, [Log!Next]_(Log!vars)
    PROVE  Mirrored'
<1> SUFFICES ASSUME mishaps' = {} PROVE Mirrored'
  BY DEF Mirrored
<1>0. /\ LogFields /\ Opening /\ <<>> \in Seq(Log!Event)
      /\ mem \in Seq(Log!Event) /\ backlog \in Seq(Log!Event) /\ log \in Seq(Log!Event)
      /\ batch \in Seq(Log!Event) /\ Rest \in Seq(Log!Event)
  BY EmptyLine DEF LogInvariant, LogFields, Rest
<1>1. CASE Log!Crash
  BY <1>1 DEF Log!Crash, Mirrored, Rest
<1> SUFFICES ASSUME ~Log!Crash PROVE Mirrored'
  BY <1>1
<1>2. mishaps = {}
  BY <1>0, MishapsStay
<1>3. IF loaded THEN mem = log \o Rest \o backlog ELSE backlog = <<>> /\ Rest = <<>>
  BY <1>2 DEF Mirrored
<1>4. ASSUME UNCHANGED <<loaded, mem, log, batch, writer, backlog>> PROVE Mirrored'
  BY <1>3, <1>4 DEF Mirrored, Rest
<1>5. ASSUME NEW e, Accepted(e) PROVE Mirrored'
  <2>1. /\ e \in Log!Event /\ loaded /\ loaded' = loaded /\ mem' = Append(mem, e)
        /\ backlog' = Append(backlog, e) /\ UNCHANGED <<log, batch, writer>>
    BY <1>5 DEF Accepted, Stored
  <2>2. log \o Rest \in Seq(Log!Event) /\ Rest' = Rest
    BY <1>0, <2>1, ConcatProperties DEF Rest
  <2>3. ASSUME NEW s \in Seq(Log!Event), mem = s \o backlog
        PROVE  mem' = s \o Append(backlog, e)
    <3>1. backlog \in Seq(Log!Event) /\ e \in Log!Event
      BY <1>0, <2>1
    <3>2. s \o Append(backlog, e) = Append(s \o backlog, e)
      BY ONLY <3>1, JoinedLast
    <3> QED BY <2>1, <2>3, <3>2
  <2>4. mem' = log \o Rest \o Append(backlog, e)
    BY <1>3, <2>1, <2>2, <2>3
  <2> QED BY <2>1, <2>2, <2>4 DEF Mirrored
<1>6. ASSUME NEW w \in waiting, Log!Load(w) PROVE Mirrored'
  <2>1. /\ ~loaded /\ loaded' /\ mem' = log /\ UNCHANGED <<log, batch, writer, backlog>>
    BY <1>6 DEF Log!Load, Log!flusher, Log!disk
  <2>2. backlog' = <<>> /\ Rest' = <<>> /\ log' = log
    BY <1>3, <2>1 DEF Rest
  <2>3. log \o <<>> = log
    BY <1>0, ConcatEmptySeq
  <2> QED BY <2>1, <2>2, <2>3 DEF Mirrored
<1>7. CASE Log!Gather
  <2>1. \A q \in ToSet(backlog) : q.life = life /\ meta < q.seq
    BY <1>2 DEF LogInvariant, Lived, InFlight, Flowing, Untroubled, Queued
  <2>2. Ascending(backlog)
    <3>1. \A k \in 1..Len(backlog) : backlog[k].life = life
      BY <1>0, <2>1, EventLine
    <3> QED BY <1>2, <3>1 DEF LogInvariant, Flowing, Untroubled, Ascending, Queued, Rising
  <2>3. batch' = backlog /\ backlog # <<>> /\ writer = "idle"
    BY <1>0, <1>7, <2>1, <2>2, KeptSame DEF Log!Gather, LogFields
  <2>4. backlog' = <<>> /\ writer' = "writing" /\ UNCHANGED <<loaded, mem, log>>
    BY <1>0, <1>7, <2>3, Gathered
  <2>5. Rest' = backlog /\ Rest = <<>>
    BY <2>3, <2>4 DEF Rest
  <2>6. log \o <<>> = log /\ log \o backlog \in Seq(Log!Event)
        /\ (log \o backlog) \o <<>> = log \o backlog
    BY <1>0, ConcatEmptySeq, ConcatProperties
  <2>7. loaded
    BY <1>3, <2>3
  <2> QED BY <1>3, <2>4, <2>5, <2>6, <2>7 DEF Mirrored
<1>8. CASE Log!AppendLine
  <2>1. /\ writer = "writing" /\ Rest = batch /\ batch # <<>>
        /\ log' = Append(log, Head(batch)) /\ UNCHANGED <<loaded, mem, backlog>>
    BY <1>0, <1>8 DEF Log!AppendLine, Rest, LogFields, Log!session
  <2>2. Rest' = Tail(batch)
    <3>1. CASE Len(batch) = 1
      <4>1. Rest' = <<>>
        BY <1>8, <3>1 DEF Log!AppendLine, Rest
      <4>2. Len(Tail(batch)) = 0 /\ Tail(batch) \in Seq(Log!Event)
        BY <1>0, <2>1, <3>1, HeadTailProperties
      <4> QED BY <4>1, <4>2, EmptySeq
    <3>2. CASE Len(batch) # 1
      BY <1>8, <3>2 DEF Log!AppendLine, Rest
    <3> QED BY <3>1, <3>2
  <2>3. loaded
    BY <1>3, <2>1
  <2>4. log \o batch = log' \o Rest'
    BY <1>0, <2>1, <2>2, HeadJoins
  <2> QED BY <1>3, <2>1, <2>3, <2>4 DEF Mirrored
<1>9. CASE Log!WriteMeta \/ Log!WriteFails
  <2>1. writer # "writing" /\ writer' = "idle" /\ UNCHANGED <<loaded, mem, log, backlog>>
    BY <1>9 DEF Log!WriteMeta, Log!WriteFails, Log!session
  <2>2. Rest = <<>> /\ Rest' = <<>>
    BY <2>1 DEF Rest
  <2> QED BY <1>3, <2>1, <2>2 DEF Mirrored
<1>10. CASE Log!EvictDrop
  <2>1. /\ ~loaded' /\ UNCHANGED <<log, batch, writer, backlog>>
        /\ backlog = <<>> /\ writer # "writing"
    BY <1>2, <1>10 DEF Log!EvictDrop, Log!Unwritten, Log!flusher, Log!disk
  <2> QED BY <2>1 DEF Mirrored, Rest
<1>11. ASSUME NEW w, Asked(w) PROVE Mirrored'
  BY <1>4, <1>11 DEF Asked
<1>12. ASSUME NEW w \in waiting, w.kind = "read", Log!Join(w) \/ Log!Resume(w) PROVE Mirrored'
  BY <1>4, <1>12 DEF Log!Join, Log!Resume, Log!flusher, Log!disk
<1>13. CASE Log!EmitToken \/ Log!EvictFlush \/ Log!ForgetCounter \/ Log!OrphanRead \/ Log!OrphanWrite
  BY <1>4, <1>13
  DEF Log!EmitToken, Log!EvictFlush, Log!ForgetCounter, Log!OrphanRead, Log!OrphanWrite,
      Log!session, Log!flusher, Log!disk
<1>14. CASE UNCHANGED Log!vars
  BY <1>4, <1>14 DEF Log!vars, Log!session, Log!flusher, Log!disk
<1> QED BY <1>0, <1>5, <1>6, <1>7, <1>8, <1>9, <1>10, <1>11, <1>12, <1>13, <1>14, LogSteps

(* Memory never disagrees with the disk: as long as nothing went wrong, a   *)
(* session that is loaded is what events.jsonl has, followed by what the    *)
(* writer and then the queue still hold, in this order; and a session is    *)
(* dropped from memory only when nothing of it is on its way.  So whoever   *)
(* loads it after an eviction or a crash sees what the log will have.       *)
THEOREM MemoryIsTheLog == LogSpec => []Mirrored
<1>1. Log!Init => LogInvariant /\ Mirrored
  <2>1. Log!Init => Mirrored
    BY DEF Log!Init, Mirrored, Rest
  <2> QED BY <2>1, LogAssumption, LogInitially
<1>2. LogInvariant /\ Mirrored /\ [Log!Next]_(Log!vars) => LogInvariant' /\ Mirrored'
  BY LogInductive, MirroredStep
<1> QED BY <1>1, <1>2, PTL DEF LogSpec, Log!Spec

(* What meta.json counts is in events.jsonl.                                *)
MetaIsCovered == "merged" \notin mishaps => meta <= Log!TailSeq(log)

(* meta.json is written after the lines that it counts: its last_seq is     *)
(* never beyond the last line that a reader finds in events.jsonl, whatever *)
(* fails, crashes or is overtaken, unless a line was appended to a torn one.*)
THEOREM MetaIsNeverAhead == LogSpec => []MetaIsCovered
<1>1. Log!Init => LogInvariant
  BY LogAssumption, LogInitially
<1>2. LogInvariant /\ [Log!Next]_(Log!vars) => LogInvariant'
  BY LogInductive
<1>3. LogInvariant => MetaIsCovered
  BY DEF LogInvariant, Batched, MetaIsCovered
<1> QED BY <1>1, <1>2, <1>3, PTL DEF LogSpec, Log!Spec

(* The lines of this life, in the order of their numbers.                   *)
LinesInOrder == Orderly => Rising(log, life)

(* The lines that a daemon writes to events.jsonl are in the order of their *)
(* numbers, and none has the number of another, with the exceptions of      *)
(* InOrder.                                                                 *)
THEOREM LinesRise == LogSpec => []LinesInOrder
<1>1. Log!Init => LogInvariant
  BY LogAssumption, LogInitially
<1>2. LogInvariant /\ [Log!Next]_(Log!vars) => LogInvariant'
  BY LogInductive
<1>3. LogInvariant => LinesInOrder
  BY DEF LogInvariant, Ordered, LinesInOrder
<1> QED BY <1>1, <1>2, <1>3, PTL DEF LogSpec, Log!Spec
=============================================================================
