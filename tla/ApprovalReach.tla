--------------------------- MODULE ApprovalReach ----------------------------
(***************************************************************************)
(* How a request for approval reaches the user who must answer it: the     *)
(* queue (Approval), the connections of the clients and the registry of    *)
(* presence (Sockets), and between them the publisher of the manager, the  *)
(* bus, the inbox producer (core/inbox/producer.py) and the snapshot that  *)
(* a connection is sent after it has joined a session.                     *)
(*                                                                         *)
(*   news        how far the callbacks of enqueue are with a request:      *)
(*               registered, emitted on the bus, filed by the producer     *)
(*   hydrating   joins that still have to send the snapshot of approvals   *)
(*   seen        requests that have reached a connection of their owner    *)
(*   inbox       requests the owner has an inbox item for                  *)
(*   missed      history: the requests that were skipped although nobody   *)
(*               was there, whose emission was dropped, or whose snapshot  *)
(*               was lost with its connection                              *)
(***************************************************************************)
EXTENDS Tenancy

VARIABLES
    pending, fut, phase, verdict, answer, swept, raced,
    connected, room, seat, live, boarded,
    news, hydrating, seen, inbox, missed

Q == INSTANCE Approval
S == INSTANCE Sockets

queueVars == <<pending, fut, phase, verdict, answer, swept, raced>>
socketVars == <<connected, room, seat, live, boarded>>
reachVars == <<news, hydrating, seen, inbox, missed>>
vars == <<queueVars, socketVars, reachVars>>

Init ==
    /\ Q!Init
    /\ S!Init
    /\ news = [r \in Requests |-> "registered"]
    /\ hydrating = {} /\ seen = {} /\ inbox = {} /\ missed = {}
-----------------------------------------------------------------------------
QueueStep ==
    /\ \/ \E r \in Requests :
            \/ Q!Enqueue(r) \/ Q!Wake(r) \/ Q!Expire(r) \/ Q!Close(r) \/ Q!Cancel(r)
            \/ \E u \in Users, d \in Q!Answers : Q!Resolve(r, u, d)
       \/ \E s \in Sessions : Q!Abort(s)
       \/ Q!Undeploy
    /\ UNCHANGED <<socketVars, reachVars>>

(* The publisher emits approval_request to the room of the session.  An     *)
(* emission that takes more than five seconds is dropped.                   *)
Emit(r) ==
    /\ phase[r] = "asking" /\ news[r] = "registered"
    /\ news' = [news EXCEPT ![r] = "emitted"]
    /\ \/ /\ seen' = IF S!Present(Owner(r), SessionOf[r]) THEN seen \cup {r} ELSE seen
          /\ UNCHANGED missed
       \/ /\ S!Present(Owner(r), SessionOf[r])
          /\ missed' = missed \cup {r}
          /\ UNCHANGED seen
    /\ UNCHANGED <<queueVars, socketVars, hydrating, inbox>>

(* The producer writes an inbox item, unless the registry says that the     *)
(* owner is in the session.                                                 *)
Skips(r) == SessionOf[r] \in live[Owner(r)]

File(r) ==
    /\ phase[r] = "asking" /\ news[r] = "emitted"
    /\ news' = [news EXCEPT ![r] = "filed"]
    /\ inbox' = IF Skips(r) THEN inbox ELSE inbox \cup {r}
    /\ missed' = IF S!Stale(Owner(r), SessionOf[r]) THEN missed \cup {r} ELSE missed
    /\ UNCHANGED <<queueVars, socketVars, hydrating, seen>>

StartWaiting(r) ==
    /\ news[r] = "filed"
    /\ Q!StartWaiting(r)
    /\ UNCHANGED <<socketVars, reachVars>>

(* The progress event of every fifteen seconds carries the request too.     *)
Progress(r) ==
    /\ phase[r] = "waiting" /\ fut[r] = "open"
    /\ S!Present(Owner(r), SessionOf[r])
    /\ r \notin seen
    /\ seen' = seen \cup {r}
    /\ UNCHANGED <<queueVars, socketVars, news, hydrating, inbox, missed>>
-----------------------------------------------------------------------------
Join(c, s) ==
    /\ S!Enter(c, s)
    /\ hydrating' = hydrating \cup {<<c, s>>}
    /\ UNCHANGED <<queueVars, news, seen, inbox, missed>>

(* approvals:snapshot, at the end of join_session: it is sent to the        *)
(* connection itself, whatever room it is in by then.                       *)
Snapshot_OfWaiting(s) == {r \in pending \cap OfSession(s) : phase[r] = "waiting"}
Snapshot(s) == pending \cap OfSession(s)

Hydrate(c, s) ==
    /\ <<c, s>> \in hydrating
    /\ hydrating' = hydrating \ {<<c, s>>}
    /\ seen' = seen \cup Snapshot(s)
    /\ UNCHANGED <<queueVars, socketVars, news, inbox, missed>>

Disconnect(c) ==
    /\ S!Disconnect(c)
    /\ hydrating' = {h \in hydrating : h[1] # c}
    /\ missed' = missed \cup
           UNION {Snapshot(s) \ seen : s \in {t \in Sessions : <<c, t>> \in hydrating}}
    /\ UNCHANGED <<queueVars, news, seen, inbox>>

SocketStep ==
    /\ \E c \in Conns :
          S!Connect(c) \/ \E s \in Sessions : S!Leave(c, s)
    /\ UNCHANGED <<queueVars, reachVars>>

Next ==
    \/ QueueStep \/ SocketStep
    \/ \E r \in Requests : Emit(r) \/ File(r) \/ StartWaiting(r) \/ Progress(r)
    \/ \E c \in Conns :
          Disconnect(c) \/ \E s \in Sessions : Join(c, s) \/ Hydrate(c, s)

Spec == Init /\ [][Next]_vars
FairSpec == Spec /\ Q!Fairness
-----------------------------------------------------------------------------
TypeOK ==
    /\ Q!TypeOK /\ S!TypeOK
    /\ news \in [Requests -> {"registered", "emitted", "filed"}]
    /\ hydrating \subseteq connected \X Sessions
    /\ seen \cup inbox \cup missed \subseteq Requests

(* An agent that waits for approval has asked somebody: the owner has seen  *)
(* the request or has an inbox item for it, or a snapshot with it is on its *)
(* way, whatever the owner's tabs join, leave and lose meanwhile; unless    *)
(* one of the three mishaps of `missed' happened to it.                     *)
AskReachesOwner ==
    \A r \in Requests :
        phase[r] = "waiting" /\ r \in pending /\ r \notin missed =>
            \/ r \in seen \cup inbox
            \/ \E h \in hydrating : h[2] = SessionOf[r]

(* What the queue and the connections promise on their own.                 *)
ApprovedByOwner == Q!ApprovedByOwner
AnswerCounts == Q!AnswerCounts
Unblocks == Q!Unblocks
WatcherIsLive == S!WatcherIsLive
=============================================================================
