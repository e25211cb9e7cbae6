---------------------------- MODULE TurnDispatch ----------------------------
(***************************************************************************)
(* How a message becomes a turn, for ONE session: the POST /messages       *)
(* handler and the Socket.IO send, dispatch_turn with its chain and its    *)
(* callers, the session reservation and the chat lock, the awaiters of     *)
(* mode=wait, cancel, clear and abort.  The queue backend is what          *)
(* SessionFifo promises, with the heartbeats of live turns on time.        *)
(*                                                                         *)
(* Def_Fault is Def with a plausible fault seeded in it (see RedisQueue).  *)
(*                                                                         *)
(* The daemon is one event loop: a step of the model is what runs between  *)
(* two awaits that matter.  A message is also the name of the row it is    *)
(* enqueued as and of the correlation id it is given; a message that takes *)
(* the fast path becomes a turn without a row.                             *)
(*                                                                         *)
(*   post                a request: how far it is, and its local variables *)
(*   task, source, fate  dispatch_turn for a row or for a fast message     *)
(*   corr                correlation_id of a row                           *)
(*   awaiter             message_queue._awaiters                           *)
(*   active              key \in manager._active_sessions                  *)
(*   lockline            the session lock: its holder, then who waits      *)
(*                                                                         *)
(* A turn that is cancelled by abort ends like a turn that ends by itself: *)
(* task.cancel() is a ChatEnds.  A row that expires at a dequeue is a      *)
(* Cancel before that dequeue.                                             *)
(***************************************************************************)
EXTENDS Naturals, Sequences, FiniteSets, SequencesExt, Lines

CONSTANTS
    Messages, NoRow,
    MaxDepth,
    Modes,          \* of {"async", "wait", "replace", "socket"}
    Backend,        \* "redis" or "memory"
    Mishaps,        \* of {"pause", "busy_server", "early_failure", "slow_turn"}
    MaxAborts       \* bound: aborts over the behaviour

ASSUME DispatchAssumption ==
    /\ NoRow \notin Messages /\ MaxDepth \in Nat \ {0} /\ MaxAborts \in Nat
    /\ Modes \subseteq {"async", "wait", "replace", "socket"}
    /\ Backend \in {"redis", "memory"}
    /\ Mishaps \subseteq {"pause", "busy_server", "early_failure", "slow_turn"}

VARIABLES
    line, working, slot, over,              \* the queue, as in SessionFifo
    merging,                                \* session.queue.auto_merge
    post,
    task, source, fate, corr,
    awaiter, active, lockline,
    abort, aborts

Queue == INSTANCE SessionFifo WITH Rows <- Messages

queue   == <<line, working, slot, over>>
turn    == <<task, source, fate>>
session == <<active, lockline>>
aborter == <<abort, aborts>>
vars    == <<queue, merging, post, turn, corr, awaiter, session, aborter>>

Pc == {"new", "active", "slot", "orphan", "fast", "accept", "active again",
       "slot again", "kick", "direct", "drain?", "waiting", "done"}
Post == [at : Pc, mode : Modes \cup {"none"}, deep : BOOLEAN,
         ticket : Messages \cup {NoRow}, id : Messages \cup {NoRow}]
NotSent == [at |-> "new", mode |-> "none", deep |-> FALSE, ticket |-> NoRow, id |-> NoRow]
Returned == [NotSent EXCEPT !.at = "done"]
Task == {"none", "starting", "locking", "chatting", "ending", "looping", "paused", "done"}
Alive == Task \ {"none", "done"}
Source == {"none", "fast", "post", "kick", "chain", "resume"}
Fate == {"fine", "paused", "dropped", "early", "timeout"}
Abort == {"idle", "mark", "mark and clear", "clear", "release", "release last", "kick"}

Init ==
    /\ Queue!Init /\ merging \in BOOLEAN
    /\ post = [p \in Messages |-> NotSent]
    /\ task = [t \in Messages |-> "none"] /\ source = [t \in Messages |-> "none"]
    /\ fate = [t \in Messages |-> "fine"]
    /\ corr = [r \in Messages |-> r] /\ awaiter = [c \in Messages |-> NoRow]
    /\ active = FALSE /\ lockline = <<>>
    /\ abort = "idle" /\ aborts = 0

At(p, where) == post[p].at = where
Goto(p, where) == post' = [post EXCEPT ![p].at = where]
Return(p) == post' = [post EXCEPT ![p] = Returned]
Become(t, what) == task' = [task EXCEPT ![t] = what]
-----------------------------------------------------------------------------
(* What the dispatcher does with the queue.                                 *)
Depth == Len(line) + (IF slot = NoRow THEN 0 ELSE 1)

Ended_SlotFreed(S) == Queue!End(S) /\ slot' = NoRow
Ended(S) ==
    /\ Queue!End(S)
    /\ slot' = IF slot \in S THEN NoRow ELSE slot

Start(t, from) ==
    /\ task' = [task EXCEPT ![t] = "starting"]
    /\ source' = [source EXCEPT ![t] = from]
    /\ UNCHANGED fate

Popping == slot = NoRow /\ line # <<>>

(* next_queued, and a new task for the row that it popped.                  *)
Pop(from) ==
    \/ Popping /\ Queue!Serve(1, {}) /\ Start(Head(line), from)
    \/ ~Popping /\ UNCHANGED <<queue, turn>>

(* resolve_awaiter and fail_awaiter: the POST that waits, if any, returns.  *)
Answer(c) ==
    /\ awaiter' = [awaiter EXCEPT ![c] = NoRow]
    /\ post' = [p \in Messages |-> IF p = awaiter[c] THEN Returned ELSE post[p]]
-----------------------------------------------------------------------------
(* POST /messages.  depth_for_session, then is_turn_running, which asks for *)
(* the in-memory reservation first and for the queue's slot after an await. *)
Local == UNCHANGED <<merging, corr, awaiter, lockline, aborter>>

ReadDepth(p) ==
    /\ post[p].at = "new"
    /\ \E m \in Modes \ {"socket"} :
          post' = [post EXCEPT ![p].at = "active", ![p].mode = m, ![p].deep = Depth > 0]
    /\ Local /\ UNCHANGED <<queue, turn, active>>

ReadActive(p) ==
    /\ \/ At(p, "active") /\ Goto(p, IF active THEN "accept" ELSE "slot")
       \/ At(p, "active again") /\ Goto(p, IF active THEN "kick" ELSE "slot again")
    /\ Local /\ UNCHANGED <<queue, turn, active>>

(* The fast path is taken only with the reservation.                        *)
MayFast(p) ==
    slot = NoRow /\ ~post[p].deep /\ post[p].mode # "replace" /\ ~merging /\ ~active

Orphaned(p) == slot = NoRow /\ post[p].deep

Decide(p) ==
    /\ At(p, "slot")
    /\ \/ MayFast(p) /\ Goto(p, "fast") /\ active' = TRUE
       \/ Orphaned(p) /\ Goto(p, "orphan") /\ UNCHANGED active
       \/ ~MayFast(p) /\ ~Orphaned(p) /\ Goto(p, "accept") /\ UNCHANGED active
    /\ Local /\ UNCHANGED <<queue, turn>>

OrphanKick(p) ==
    /\ At(p, "orphan") /\ Goto(p, "accept")
    /\ Pop("kick")
    /\ Local /\ UNCHANGED active

(* enqueue, merge_or_enqueue or replace_last_or_enqueue; 429 at the cap.    *)
Full == Depth >= MaxDepth

Push(p) ==
    /\ ~Full /\ Queue!Join(p)
    /\ post' = [post EXCEPT ![p].at = "active again", ![p].ticket = p, ![p].id = p]
    /\ UNCHANGED <<corr, awaiter>>

Refuse(p) == Full /\ Return(p) /\ UNCHANGED <<queue, corr, awaiter>>

Merge(p, r) ==
    /\ post' = [post EXCEPT ![p].at = "active again", ![p].ticket = r, ![p].id = corr[r]]
    /\ UNCHANGED <<queue, corr, awaiter>>

(* The row gets the correlation id of the new message, and the POST that    *)
(* waits for the old one is failed through the awaiters of the backend's    *)
(* own module: in the Redis module nobody registers any.                    *)
Replace(p, r) ==
    LET displaced == {q \in Messages : q = awaiter[corr[r]] /\ Backend = "memory"} IN
    /\ corr' = [corr EXCEPT ![r] = p]
    /\ post' = [q \in Messages |-> IF q \in displaced THEN Returned
                                   ELSE IF q = p THEN [post[p] EXCEPT !.at = "active again"]
                                   ELSE post[q]]
    /\ awaiter' = IF displaced = {} THEN awaiter ELSE [awaiter EXCEPT ![corr[r]] = NoRow]
    /\ UNCHANGED queue

(* The last row of the queue, if there is one.                              *)
Newest == {r \in Messages : line # <<>> /\ Last(line) = r}

Accept(p) ==
    /\ At(p, "accept")
    /\ \/ /\ post[p].mode = "replace"
          /\ \/ \E r \in Newest : Replace(p, r)
             \/ Newest = {} /\ (Push(p) \/ Refuse(p))
       \/ /\ post[p].mode # "replace"
          /\ \/ merging /\ \E r \in Newest : Merge(p, r)
             \/ Push(p) \/ Refuse(p)
    /\ UNCHANGED <<merging, turn, session, aborter>>

ReadSlot(p) ==
    /\ At(p, "slot again")
    /\ Goto(p, IF slot = NoRow THEN "direct" ELSE "kick")
    /\ Local /\ UNCHANGED <<queue, turn, active>>

(* A turn is running: _drain_queue_next all the same, then mode=wait        *)
(* registers its awaiter.                                                   *)
Kicked_Not(p) == UNCHANGED <<queue, turn>>
Kicked(p) == Pop("kick")

Kick(p) ==
    /\ At(p, "kick")
    /\ Kicked(p)
    /\ \/ /\ post[p].mode = "wait" /\ Goto(p, "waiting")
          /\ awaiter' = [awaiter EXCEPT ![post[p].id] = p]
       \/ post[p].mode # "wait" /\ Return(p) /\ UNCHANGED awaiter
    /\ UNCHANGED <<merging, corr, session, aborter>>

(* The server-busy answer comes after the row was popped.                   *)
Dropped(t) ==
    /\ "busy_server" \in Mishaps
    /\ fate' = [fate EXCEPT ![t] = "dropped"] /\ UNCHANGED <<task, source>>

(* No turn is running: the POST pops the head, whoever sent it, and starts  *)
(* its turn.                                                                *)
Direct(p) ==
    /\ At(p, "direct") /\ Return(p)
    /\ \/ Pop("post")
       \/ Popping /\ Queue!Serve(1, {}) /\ Dropped(Head(line))
    /\ Local /\ UNCHANGED active

Fast(p) ==
    /\ At(p, "fast") /\ Return(p)
    /\ \/ Start(p, "fast") /\ UNCHANGED active
       \/ Dropped(p) /\ active' = FALSE
    /\ Local /\ UNCHANGED queue

(* The Socket.IO send: enqueue, then drain_session_queue unless a row is    *)
(* running.                                                                 *)
SocketSend(p) ==
    /\ "socket" \in Modes /\ post[p].at = "new"
    /\ \/ ~Full /\ Queue!Join(p) /\ Goto(p, "drain?")
       \/ Full /\ Return(p) /\ UNCHANGED queue
    /\ Local /\ UNCHANGED <<turn, active>>

MaybeDrain(p) ==
    /\ At(p, "drain?") /\ Return(p)
    /\ Pop("resume")
    /\ Local /\ UNCHANGED active
-----------------------------------------------------------------------------
(* dispatch_turn and manager.chat: the session is marked active, the lock   *)
(* is waited for in order, and both are given back whatever happens.        *)
Turn(t) == UNCHANGED <<queue, merging, post, source, corr, awaiter, aborter>>

Lock(t) ==
    /\ task[t] = "starting" /\ Become(t, "locking")
    /\ active' = TRUE /\ lockline' = Append(lockline, t)
    /\ Turn(t) /\ UNCHANGED fate

Chat(t) ==
    /\ task[t] = "locking" /\ Head(lockline) = t
    /\ Become(t, "chatting")
    /\ Turn(t) /\ UNCHANGED <<fate, session>>

(* The finally of chat.                                                     *)
Leave_LockKept(t) == active' = FALSE /\ UNCHANGED lockline
Leave_StillActive(t) == lockline' = Without(lockline, {t}) /\ UNCHANGED active
Leave(t) == lockline' = Without(lockline, {t}) /\ active' = FALSE

ChatEnds(t) ==
    /\ task[t] = "chatting" /\ Become(t, "ending")
    /\ Leave(t)
    /\ Turn(t) /\ UNCHANGED fate

(* The lock is not free after at most 60 seconds: session_busy.             *)
LockTimeout(t) ==
    /\ "slow_turn" \in Mishaps
    /\ task[t] = "locking" /\ Head(lockline) # t
    /\ Become(t, "ending") /\ fate' = [fate EXCEPT ![t] = "timeout"]
    /\ Leave(t)
    /\ Turn(t)

(* An error before chat marks the session active fails the turn at once.    *)
EarlyFailure(t) ==
    /\ "early_failure" \in Mishaps
    /\ task[t] = "starting" /\ Become(t, "ending")
    /\ fate' = [fate EXCEPT ![t] = "early"]
    /\ Turn(t) /\ UNCHANGED session

(* A credential is missing, before the chat or in it.                       *)
Pause(t) ==
    /\ "pause" \in Mishaps
    /\ task[t] \in {"starting", "ending"} /\ fate[t] = "fine"
    /\ Become(t, "paused") /\ fate' = [fate EXCEPT ![t] = "paused"]
    /\ Turn(t) /\ UNCHANGED session

(* What each caller of dispatch_turn does with PAUSED: the POST, the kick   *)
(* and the resume loop fail the row, the last two answer the POST that      *)
(* waits for it, the fast path gives the reservation back, and the chain    *)
(* does nothing.                                                            *)
MarkFailed(t) ==
    IF t \in working THEN Ended({t}) ELSE UNCHANGED queue

AfterPause(t) ==
    /\ task[t] = "paused" /\ Become(t, "done")
    /\ \/ source[t] = "fast" /\ active' = FALSE /\ UNCHANGED <<queue, post, awaiter>>
       \/ source[t] = "post" /\ MarkFailed(t) /\ UNCHANGED <<post, awaiter, active>>
       \/ source[t] \in {"kick", "resume"} /\ MarkFailed(t) /\ Answer(corr[t]) /\ UNCHANGED active
       \/ source[t] = "chain" /\ UNCHANGED <<queue, post, awaiter, active>>
    /\ UNCHANGED <<merging, source, fate, corr, lockline, aborter>>

(* finish_and_drain: the row ends and the head of the line gets the slot,   *)
(* unless by now another row has it.                                        *)
FinishAndDrain(t) ==
    LET fin == {t} \cap working IN
    \/ /\ slot \in {NoRow, t} /\ line # <<>>
       /\ Queue!Serve(1, fin)
       /\ task' = [task EXCEPT ![t] = "done", ![Head(line)] = "starting"]
       /\ source' = [source EXCEPT ![Head(line)] = "chain"]
    \/ /\ slot \in {NoRow, t} /\ line = <<>>
       /\ IF fin = {} THEN UNCHANGED queue ELSE Ended(fin)
       /\ Become(t, "done") /\ UNCHANGED source
    \/ /\ slot \notin {NoRow, t}
       /\ Become(t, "done") /\ UNCHANGED <<queue, source>>

Finalize(t) ==
    /\ task[t] = "ending"
    /\ \/ source[t] = "fast" /\ Become(t, "done") /\ UNCHANGED <<queue, source, post, awaiter>>
       \/ source[t] \in {"post", "kick", "chain"} /\ FinishAndDrain(t) /\ Answer(corr[t])
       \/ /\ source[t] = "resume" /\ MarkFailed(t) /\ Answer(corr[t])
          /\ Become(t, "looping") /\ UNCHANGED source
    /\ UNCHANGED <<merging, fate, corr, session, aborter>>

(* drain_session_queue asks for the next row.                               *)
Loop(t) ==
    /\ task[t] = "looping"
    /\ \/ /\ Popping /\ Queue!Serve(1, {})
          /\ task' = [task EXCEPT ![t] = "done", ![Head(line)] = "starting"]
          /\ source' = [source EXCEPT ![Head(line)] = "resume"]
       \/ ~Popping /\ Become(t, "done") /\ UNCHANGED <<queue, source>>
    /\ UNCHANGED <<merging, post, fate, corr, awaiter, session, aborter>>
-----------------------------------------------------------------------------
(* DELETE queue/{row} and POST queue/clear.  No awaiter is answered.        *)
Cancel(S) ==
    /\ S # {} /\ S \subseteq Queue!Waiting
    /\ Cardinality(S) = 1 \/ S = Queue!Waiting
    /\ Ended(S)
    /\ UNCHANGED <<merging, post, turn, corr, awaiter, session, aborter>>

(* Nobody sends the heartbeats of a row that has the slot and no turn: its  *)
(* lease runs out.  In memory the reaper then re-queues the row.            *)
LeaseExpires ==
    /\ slot # NoRow /\ task[slot] \notin Alive
    /\ IF Backend = "redis" THEN Queue!Lapse ELSE Queue!Rejoin(slot) /\ slot' = NoRow
    /\ UNCHANGED <<merging, post, turn, corr, awaiter, session, aborter>>

(* Abort: the running row is cancelled, the rest of the queue is cleared if *)
(* asked, the reservation is dropped, and a drain is kicked a moment later. *)
AbortBegins ==
    /\ abort = "idle" /\ aborts < MaxAborts /\ aborts' = aborts + 1
    /\ abort' \in {"mark", "mark and clear"}
    /\ UNCHANGED <<queue, merging, post, turn, corr, awaiter, session>>

AbortMark ==
    /\ abort \in {"mark", "mark and clear"}
    /\ abort' = IF abort = "mark" THEN "release" ELSE "clear"
    /\ \/ slot # NoRow /\ Ended({slot}) /\ Answer(corr[slot])
       \/ slot = NoRow /\ UNCHANGED <<queue, post, awaiter>>
    /\ UNCHANGED <<merging, turn, corr, session, aborts>>

AbortClear ==
    /\ abort = "clear" /\ abort' = "release last"
    /\ IF line = <<>> THEN UNCHANGED queue ELSE Ended(Queue!Waiting)
    /\ UNCHANGED <<merging, post, turn, corr, awaiter, session, aborts>>

AbortRelease ==
    /\ abort \in {"release", "release last"}
    /\ abort' = IF abort = "release" THEN "kick" ELSE "idle"
    /\ active' = FALSE
    /\ UNCHANGED <<queue, merging, post, turn, corr, awaiter, lockline, aborts>>

AbortKick ==
    /\ abort = "kick" /\ abort' = "idle"
    /\ Pop("kick")
    /\ UNCHANGED <<merging, post, corr, awaiter, session, aborts>>

AbortNext == AbortMark \/ AbortClear \/ AbortRelease \/ AbortKick

PostNext(p) ==
    \/ ReadActive(p) \/ Decide(p) \/ OrphanKick(p) \/ Accept(p)
    \/ ReadSlot(p) \/ Kick(p) \/ Direct(p) \/ Fast(p) \/ MaybeDrain(p)

TurnNext(t) ==
    Lock(t) \/ Chat(t) \/ ChatEnds(t) \/ AfterPause(t) \/ Finalize(t) \/ Loop(t)

TurnFails(t) == LockTimeout(t) \/ EarlyFailure(t) \/ Pause(t)

Next ==
    \/ \E m \in Messages : ReadDepth(m) \/ SocketSend(m)
    \/ \E m \in Messages : PostNext(m) \/ TurnNext(m) \/ TurnFails(m)
    \/ \E S \in SUBSET Messages : Cancel(S)
    \/ LeaseExpires \/ AbortBegins \/ AbortNext

Spec == Init /\ [][Next]_vars

(* A request that has begun goes on, a turn goes on (the execution timeout  *)
(* ends it at last), and so does an abort.  Nobody has to send, cancel or   *)
(* abort anything, and no turn has to fail.                                 *)
FairSpec ==
    /\ Spec
    /\ \A m \in Messages :
          WF_vars(PostNext(m)) /\ WF_vars(TurnNext(m))
    /\ WF_vars(AbortNext) /\ WF_vars(LeaseExpires)
-----------------------------------------------------------------------------
(* Types; the session lock's queue is the turns that wait for it or hold    *)
(* it, each once.                                                           *)
TypeOK ==
    /\ line \in Seq(Messages) /\ working \in SUBSET Messages
    /\ slot \in Messages \cup {NoRow} /\ over \in SUBSET Messages
    /\ merging \in BOOLEAN
    /\ post \in [Messages -> Post]
    /\ task \in [Messages -> Task] /\ source \in [Messages -> Source]
    /\ fate \in [Messages -> Fate]
    /\ corr \in [Messages -> Messages] /\ awaiter \in [Messages -> Messages \cup {NoRow}]
    /\ active \in BOOLEAN /\ lockline \in Seq(Messages) /\ IsInjective(lockline)
    /\ ToSet(lockline) = {t \in Messages : task[t] \in {"locking", "chatting"}}
    /\ abort \in Abort /\ aborts \in 0..MaxAborts

IsRow(t) == source[t] # "fast" /\ source[t] # "none"

(* Two turns that own a row never exist at once, unless the row was aborted *)
(* under one of them: whoever starts a turn (POST, kick, chain, resume      *)
(* loop, abort) got the slot for it, and nobody gives away a slot that is   *)
(* not his.                                                                 *)
RowTurnHoldsSlot ==
    \A t \in Messages :
        IsRow(t) /\ task[t] \in Alive /\ t \notin over => slot = t

Idle ==
    /\ \A m \in Messages : post[m].at \in {"new", "done", "waiting"} /\ task[m] \notin Alive
    /\ abort = "idle"

(* No turn is left waiting for the lock, and the session is marked active   *)
(* only if a fast turn failed before its chat began (the reservation is not *)
(* given back then; the next turn that has a row does it).                  *)
SessionIsFree ==
    /\ lockline = <<>>
    /\ active => \E t \in Messages : source[t] = "fast" /\ fate[t] = "early"

(* No lost wake-up: when nothing is in flight the session is free again, no *)
(* accepted row is left in the queue and nobody has the slot, unless a turn *)
(* paused on a credential (the queue waits for the grant) or a POST         *)
(* answered server-busy after it had popped a row.                          *)
NothingStranded ==
    Idle =>
        /\ SessionIsFree
        /\ (\A t \in Messages : fate[t] \notin {"paused", "dropped"})
               => line = <<>> /\ working = {} /\ slot = NoRow

(* The queue always drains: whichever of POSTs, sockets, aborts, cancels    *)
(* and finishing turns race, there is a later moment with nothing waiting   *)
(* and nothing running.                                                     *)
QueueDrains == []<>(line = <<>> /\ working = {})
=============================================================================
