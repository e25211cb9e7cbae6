------------------------- MODULE ApprovalReachProofs -------------------------
(***************************************************************************)
(* Theorems about ApprovalReach for all users, sessions, requests and      *)
(* connections: types, whose answer counts, presence, and that a request   *)
(* reaches the user who must answer it.                                    *)
(***************************************************************************)
EXTENDS ApprovalReach, TLAPS

(* A step of the queue for request r, and one for all of them.              *)
OneRequest(r) ==
    \/ Q!Enqueue(r) \/ Q!StartWaiting(r) \/ Q!Wake(r) \/ Q!Expire(r) \/ Q!Close(r) \/ Q!Cancel(r)
    \/ \E u \in Users, d \in Q!Answers : Q!Resolve(r, u, d)
AnyRequest == (\E s \in Sessions : Q!Abort(s)) \/ Q!Undeploy
QueueMove == (\E r \in Requests : OneRequest(r)) \/ AnyRequest

(* A step of the connections.                                               *)
SocketMove ==
    \E c \in Conns :
        \/ S!Connect(c) \/ S!Disconnect(c)
        \/ \E s \in Sessions : S!Enter(c, s) \/ S!Leave(c, s)

(* Every step moves the queue, the connections, or neither.                 *)
LEMMA Moves ==
    ASSUME [Next]_vars
    PROVE  /\ QueueMove \/ UNCHANGED queueVars
           /\ SocketMove \/ UNCHANGED socketVars
<1>1. CASE QueueStep
  BY <1>1 DEF QueueStep, QueueMove, OneRequest, AnyRequest
<1>2. CASE SocketStep
  BY <1>2 DEF SocketStep, SocketMove
<1>3. ASSUME NEW r \in Requests, Emit(r) \/ File(r) \/ StartWaiting(r) \/ Progress(r)
      PROVE  QueueMove \/ UNCHANGED queueVars
  BY <1>3 DEF Emit, File, StartWaiting, Progress, QueueMove, OneRequest
<1>4. ASSUME NEW r \in Requests, Emit(r) \/ File(r) \/ StartWaiting(r) \/ Progress(r)
      PROVE  UNCHANGED socketVars
  BY <1>4 DEF Emit, File, StartWaiting, Progress
<1>5. ASSUME NEW c \in Conns, Disconnect(c) \/ \E s \in Sessions : Join(c, s) \/ Hydrate(c, s)
      PROVE  UNCHANGED queueVars /\ (SocketMove \/ UNCHANGED socketVars)
  BY <1>5 DEF Disconnect, Join, Hydrate, SocketMove
<1>6. CASE UNCHANGED vars
  BY <1>6 DEF vars
<1> QED BY <1>1, <1>2, <1>3, <1>4, <1>5, <1>6 DEF Next
-----------------------------------------------------------------------------
(* Types.                                                                   *)
LEMMA QueueTyped ==
    ASSUME Q!TypeOK, QueueMove \/ UNCHANGED queueVars
    PROVE  Q!TypeOK'
<1> USE DEF Q!TypeOK, Q!Answers
<1>1. ASSUME NEW r \in Requests, Q!Enqueue(r) \/ Q!StartWaiting(r) \/ Q!Close(r)
      PROVE  Q!TypeOK'
  BY <1>1 DEF Q!Enqueue, Q!StartWaiting, Q!Close
<1>2. ASSUME NEW r \in Requests, Q!Wake(r) \/ Q!Expire(r)
      PROVE  Q!TypeOK'
  BY <1>2 DEF Q!Wake, Q!Expire, Q!Settle
<1>3. ASSUME NEW r \in Requests, Q!Cancel(r)
      PROVE  Q!TypeOK'
  BY <1>3 DEF Q!Cancel, Q!Unwound, Q!Cancelled
<1>4. ASSUME NEW r \in Requests, NEW u \in Users, NEW d \in Q!Answers, Q!Resolve(r, u, d)
      PROVE  Q!TypeOK'
  BY <1>4 DEF Q!Resolve
<1>5. ASSUME NEW s \in Sessions, Q!Abort(s)
      PROVE  Q!TypeOK'
  BY <1>5 DEF Q!Abort, Q!Unwound, Q!Cancelled, Q!Sweep
<1>6. CASE Q!Undeploy
  BY <1>6 DEF Q!Undeploy, Q!Sweep
<1>7. CASE UNCHANGED queueVars
  BY <1>7 DEF queueVars, Q!NoAnswer
<1> QED BY <1>1, <1>2, <1>3, <1>4, <1>5, <1>6, <1>7 DEF QueueMove, OneRequest, AnyRequest

LEMMA SocketsTyped ==
    ASSUME S!TypeOK, SocketMove \/ UNCHANGED socketVars
    PROVE  S!TypeOK'
<1> USE TenancyAssumption DEF S!TypeOK
<1>1. ASSUME NEW c \in Conns, S!Connect(c)
      PROVE  S!TypeOK'
  BY <1>1 DEF S!Connect
<1>2. ASSUME NEW c \in Conns, S!Disconnect(c)
      PROVE  S!TypeOK'
  <2>1. /\ connected' = connected \ {c}
        /\ room' = [room EXCEPT ![c] = {}] /\ boarded' = [boarded EXCEPT ![c] = {}]
    BY <1>2 DEF S!Disconnect
  <2>2. seat' = [seat EXCEPT ![c] = S!NoSeat] /\ live' \in [Users -> SUBSET Sessions]
    <3>1. CASE seat[c] = S!NoSeat
      BY <1>2, <3>1 DEF S!Disconnect
    <3>2. CASE seat[c] # S!NoSeat
      BY <1>2, <3>2 DEF S!Disconnect, S!MarkLeft, S!Dropped
    <3> QED BY <3>1, <3>2
  <2> QED BY <2>1, <2>2
<1>3. ASSUME NEW c \in Conns, NEW s \in Sessions, S!Enter(c, s)
      PROVE  S!TypeOK'
  BY <1>3 DEF S!Enter, S!MarkIn, S!Dropped
<1>4. ASSUME NEW c \in Conns, NEW s \in Sessions, S!Leave(c, s)
      PROVE  S!TypeOK'
  BY <1>4 DEF S!Leave, S!MarkLeft, S!Dropped
<1>5. CASE UNCHANGED socketVars
  BY <1>5 DEF socketVars
<1> QED BY <1>1, <1>2, <1>3, <1>4, <1>5 DEF SocketMove

(* TypeOK in three parts.                                                   *)
ReachTyped ==
    /\ news \in [Requests -> {"registered", "emitted", "filed"}]
    /\ hydrating \subseteq connected \X Sessions
    /\ seen \cup inbox \cup missed \subseteq Requests

LEMMA ReachStaysTyped ==
    ASSUME TypeOK, [Next]_vars
    PROVE  ReachTyped'
<1> USE DEF TypeOK, ReachTyped
<1>1. CASE QueueStep
  BY <1>1 DEF QueueStep, reachVars, socketVars
<1>2. CASE SocketStep
  <2>1. connected \subseteq connected'
    BY <1>2 DEF SocketStep, S!Connect, S!Leave
  <2> QED BY <1>2, <2>1 DEF SocketStep, reachVars
<1>3. ASSUME NEW r \in Requests, Emit(r)
      PROVE  ReachTyped'
  BY <1>3 DEF Emit, socketVars
<1>4. ASSUME NEW r \in Requests, File(r)
      PROVE  ReachTyped'
  BY <1>4 DEF File, socketVars
<1>5. ASSUME NEW r \in Requests, StartWaiting(r) \/ Progress(r)
      PROVE  ReachTyped'
  BY <1>5 DEF StartWaiting, Progress, reachVars, socketVars
<1>6. ASSUME NEW c \in Conns, NEW s \in Sessions, Join(c, s)
      PROVE  ReachTyped'
  BY <1>6 DEF Join, S!Enter
<1>7. ASSUME NEW c \in Conns, NEW s \in Sessions, Hydrate(c, s)
      PROVE  ReachTyped'
  BY <1>7 DEF Hydrate, socketVars, Snapshot, OfSession
<1>8. ASSUME NEW c \in Conns, Disconnect(c)
      PROVE  ReachTyped'
  <2>1. hydrating' \subseteq connected' \X Sessions
    BY <1>8 DEF Disconnect, S!Disconnect
  <2>2. missed' \subseteq Requests
    BY <1>8 DEF Disconnect, Snapshot, OfSession
  <2> QED BY <1>8, <2>1, <2>2 DEF Disconnect
<1>9. CASE UNCHANGED vars
  BY <1>9 DEF vars, reachVars, socketVars
<1> QED BY <1>1, <1>2, <1>3, <1>4, <1>5, <1>6, <1>7, <1>8, <1>9 DEF Next

LEMMA Typed ==
    ASSUME TypeOK, [Next]_vars
    PROVE  TypeOK'
<1>1. Q!TypeOK'
  BY QueueTyped, Moves DEF TypeOK
<1>2. S!TypeOK'
  BY SocketsTyped, Moves DEF TypeOK
<1> QED BY <1>1, <1>2, ReachStaysTyped DEF TypeOK, ReachTyped

LEMMA InitTyped == Init => TypeOK
BY TenancyAssumption
   DEF Init, TypeOK, Q!Init, Q!TypeOK, Q!Answers, Q!NoAnswer, S!Init, S!TypeOK, S!NoSeat

(* Every variable of the composition keeps its type, whatever the instance. *)
THEOREM ReachTypes == Spec => []TypeOK
<1>1. TypeOK /\ [Next]_vars => TypeOK'
  BY Typed
<1> QED BY InitTyped, <1>1, PTL DEF Spec
-----------------------------------------------------------------------------
(* The answer to a request.  A future that an answer has set keeps it; only *)
(* an answer sets it to yes; a verdict that is an answer is the future's;   *)
(* and a timer that beats the answer leaves the future cancelled.           *)
Honoured(r) ==
    /\ answer[r] # Q!NoAnswer =>
          /\ fut[r] = answer[r].says /\ answer[r].says \in Q!Answers
          /\ answer[r].by = Owner(r)
    /\ fut[r] = "yes" => answer[r] # Q!NoAnswer
    /\ verdict[r] \in Q!Answers => fut[r] = verdict[r]
    /\ verdict[r] = "timeout" => fut[r] = "cancelled" \/ r \in raced
    /\ verdict[r] \in Q!Answers \cup {"none", "timeout", "cancelled"}

AllHonoured == \A r \in Requests : Honoured(r)

LEMMA HonouredStep ==
    ASSUME Q!TypeOK, AllHonoured, QueueMove \/ UNCHANGED queueVars
    PROVE  AllHonoured'
<1> SUFFICES ASSUME NEW q \in Requests
             PROVE  Honoured(q)'
  BY DEF AllHonoured
<1>0. Honoured(q)
  BY DEF AllHonoured
<1> USE DEF Q!TypeOK, Honoured, Q!Answers, Q!NoAnswer
<1>1. ASSUME NEW r \in Requests, Q!Enqueue(r) \/ Q!StartWaiting(r) \/ Q!Close(r)
      PROVE  Honoured(q)'
  BY <1>0, <1>1 DEF Q!Enqueue, Q!StartWaiting, Q!Close
<1>2. ASSUME NEW r \in Requests, Q!Wake(r)
      PROVE  Honoured(q)'
  BY <1>0, <1>2 DEF Q!Wake, Q!Settle
<1>3. ASSUME NEW r \in Requests, Q!Expire(r)
      PROVE  Honoured(q)'
  BY <1>0, <1>3 DEF Q!Expire, Q!Settle
<1>4. ASSUME NEW r \in Requests, Q!Cancel(r)
      PROVE  Honoured(q)'
  BY <1>0, <1>4 DEF Q!Cancel, Q!Unwound, Q!Cancelled
<1>5. ASSUME NEW r \in Requests, NEW u \in Users, NEW d \in Q!Answers, Q!Resolve(r, u, d)
      PROVE  Honoured(q)'
  <2>1. /\ Owner(r) = u /\ fut[r] = "open" /\ d \in {"yes", "no"}
        /\ fut' = [fut EXCEPT ![r] = d]
        /\ answer' = [answer EXCEPT ![r] = [by |-> u, says |-> d]]
        /\ UNCHANGED <<verdict, raced>>
    BY <1>5 DEF Q!Resolve, Q!Owner, Owner
  <2>2. CASE q = r
    <3>1. fut'[q] = d /\ answer'[q] = [by |-> u, says |-> d]
      BY <2>1, <2>2
    <3>2. answer'[q].says = d /\ answer'[q].by = u
      BY <3>1
    <3> QED BY <1>0, <2>1, <2>2, <3>1, <3>2
  <2>3. CASE q # r
    <3>1. fut'[q] = fut[q] /\ answer'[q] = answer[q]
      BY <2>1, <2>3
    <3> QED BY <1>0, <2>1, <3>1
  <2> QED BY <2>2, <2>3
<1>6. ASSUME NEW s \in Sessions, Q!Abort(s)
      PROVE  Honoured(q)'
  BY <1>0, <1>6 DEF Q!Abort, Q!Unwound, Q!Cancelled, Q!Sweep
<1>7. CASE Q!Undeploy
  BY <1>0, <1>7 DEF Q!Undeploy, Q!Sweep
<1>8. CASE UNCHANGED queueVars
  BY <1>0, <1>8 DEF queueVars
<1> QED BY <1>1, <1>2, <1>3, <1>4, <1>5, <1>6, <1>7, <1>8
     DEF QueueMove, OneRequest, AnyRequest
LEMMA HonouredMeans == Q!TypeOK /\ AllHonoured => ApprovedByOwner /\ AnswerCounts
<1> SUFFICES ASSUME Q!TypeOK, AllHonoured, NEW r \in Requests
             PROVE  /\ verdict[r] = "yes" => answer[r] = [by |-> Owner(r), says |-> "yes"]
                    /\ answer[r] # Q!NoAnswer /\ verdict[r] \notin {"none", "cancelled"} /\ r \notin raced
                       => verdict[r] = answer[r].says
  BY DEF ApprovedByOwner, AnswerCounts, Q!ApprovedByOwner, Q!AnswerCounts, Q!Owner, Owner
<1>1. Honoured(r)
  BY DEF AllHonoured
<1>2. answer[r] \in [by : Users, says : Q!Answers] \cup {Q!NoAnswer}
  BY DEF Q!TypeOK
<1>3. ASSUME verdict[r] = "yes"
      PROVE  answer[r] = [by |-> Owner(r), says |-> "yes"]
  <2>1. answer[r] # Q!NoAnswer /\ answer[r].says = "yes" /\ answer[r].by = Owner(r)
    BY <1>1, <1>3 DEF Honoured, Q!Answers
  <2> QED BY <1>2, <2>1
<1>4. ASSUME answer[r] # Q!NoAnswer, verdict[r] \notin {"none", "cancelled"}, r \notin raced
      PROVE  verdict[r] = answer[r].says
  BY <1>1, <1>4 DEF Honoured, Q!Answers
<1> QED BY <1>3, <1>4

LEMMA InitHonoured == Init => AllHonoured
BY DEF Init, Q!Init, AllHonoured, Honoured, Q!Answers

QueueInv == TypeOK /\ AllHonoured

LEMMA QueueInvariant == Spec => []QueueInv
<1>1. Init => QueueInv
  BY InitTyped, InitHonoured DEF QueueInv
<1>2. QueueInv /\ [Next]_vars => QueueInv'
  <2> SUFFICES ASSUME QueueInv, [Next]_vars
               PROVE  QueueInv'
    OBVIOUS
  <2>1. TypeOK'
    BY Typed DEF QueueInv
  <2>2. AllHonoured'
    BY Moves, HonouredStep DEF QueueInv, TypeOK
  <2> QED BY <2>1, <2>2 DEF QueueInv
<1> QED BY <1>1, <1>2, PTL DEF Spec

(* A tool runs only with the consent of the owner of its session, whatever  *)
(* is answered, cancelled, swept or timed out around it.                    *)
THEOREM OwnerConsents == Spec => []ApprovedByOwner
<1>1. QueueInv => ApprovedByOwner
  BY HonouredMeans DEF QueueInv, TypeOK
<1> QED BY QueueInvariant, <1>1, PTL

(* The answer that resolve has taken is the one that the tool call gets,    *)
(* unless its task was cancelled or its timer was faster.                   *)
THEOREM AnswerIsKept == Spec => []AnswerCounts
<1>1. QueueInv => AnswerCounts
  BY HonouredMeans DEF QueueInv, TypeOK
<1> QED BY QueueInvariant, <1>1, PTL
-----------------------------------------------------------------------------
(* Presence.  A connection is in the room of its seat, if in any.           *)
Seated == \A c \in Conns : room[c] \subseteq {seat[c]}

LEMMA WatcherStep ==
    ASSUME S!TypeOK, Seated, WatcherIsLive, SocketMove \/ UNCHANGED socketVars
    PROVE  Seated' /\ WatcherIsLive'
<1> USE TenancyAssumption DEF S!TypeOK, Seated, WatcherIsLive, S!WatcherIsLive
<1>1. ASSUME NEW c \in Conns, S!Connect(c)
      PROVE  Seated' /\ WatcherIsLive'
  BY <1>1 DEF S!Connect
<1>2. ASSUME NEW c \in Conns, S!Disconnect(c)
      PROVE  Seated' /\ WatcherIsLive'
  <2>1. CASE seat[c] = S!NoSeat
    BY <1>2, <2>1 DEF S!Disconnect
  <2>2. CASE seat[c] # S!NoSeat
    BY <1>2, <2>2 DEF S!Disconnect, S!MarkLeft, S!Dropped
  <2> QED BY <2>1, <2>2
<1>3. ASSUME NEW c \in Conns, NEW s \in Sessions, S!Enter(c, s)
      PROVE  Seated' /\ WatcherIsLive'
  BY <1>3 DEF S!Enter, S!MarkIn, S!Dropped
<1>4. ASSUME NEW c \in Conns, NEW s \in Sessions, S!Leave(c, s)
      PROVE  Seated' /\ WatcherIsLive'
  BY <1>4 DEF S!Leave, S!MarkLeft, S!Dropped
<1>5. CASE UNCHANGED socketVars
  BY <1>5 DEF socketVars
<1> QED BY <1>1, <1>2, <1>3, <1>4, <1>5 DEF SocketMove

(* Who receives the events of a session is registered as present in it,     *)
(* whatever the other connections of the same user join, leave and lose.    *)
THEOREM WatchersAreLive == Spec => []WatcherIsLive
<1> DEFINE Inv == TypeOK /\ Seated /\ WatcherIsLive
<1>1. Init => Inv
  BY InitTyped DEF Init, S!Init, Seated, WatcherIsLive, S!WatcherIsLive
<1>2. Inv /\ [Next]_vars => Inv'
  <2> SUFFICES ASSUME Inv, [Next]_vars
               PROVE  Inv'
    OBVIOUS
  <2>1. TypeOK'
    BY Typed
  <2>2. Seated' /\ WatcherIsLive'
    BY Moves, WatcherStep DEF TypeOK
  <2> QED BY <2>1, <2>2
<1> QED BY <1>1, <1>2, PTL DEF Spec
-----------------------------------------------------------------------------
(* The announcement.  A request that has been announced is not new; one     *)
(* that waits has been filed; while it is announced and not yet filed,      *)
(* nobody is there, or the owner has seen it, or a snapshot is under way,   *)
(* so that whoever the producer finds present knows of it.                  *)
Coming(r) == \E h \in hydrating : h[2] = SessionOf[r]
Open(r) == r \in pending /\ r \notin missed

Announced(r) ==
    /\ news[r] # "registered" => phase[r] # "new"
    /\ phase[r] = "waiting" => news[r] = "filed"
    /\ Open(r) /\ news[r] = "emitted" =>
          r \in seen \/ Coming(r) \/ ~S!Present(Owner(r), SessionOf[r])
    /\ Open(r) /\ news[r] = "filed" => r \in seen \cup inbox \/ Coming(r)

AllAnnounced == \A r \in Requests : Announced(r)

(* What the steps of the queue that ApprovalReach takes as they are do to   *)
(* request q: only a new one becomes pending, and none begins to wait.      *)
LEMMA QueueKeeps ==
    ASSUME Q!TypeOK, QueueStep, NEW q \in Requests
    PROVE  /\ q \in pending' => q \in pending \/ phase[q] = "new"
           /\ phase'[q] = "new" => phase[q] = "new"
           /\ phase'[q] = "waiting" => phase[q] = "waiting"
<1> USE DEF Q!TypeOK
<1>1. ASSUME NEW r \in Requests, Q!Enqueue(r)
      PROVE  /\ q \in pending' => q \in pending \/ phase[q] = "new"
             /\ phase'[q] = "new" => phase[q] = "new"
             /\ phase'[q] = "waiting" => phase[q] = "waiting"
  BY <1>1 DEF Q!Enqueue
<1>2. ASSUME NEW r \in Requests, Q!Wake(r) \/ Q!Expire(r) \/ Q!Close(r)
      PROVE  /\ q \in pending' => q \in pending
             /\ phase'[q] = "new" => phase[q] = "new"
             /\ phase'[q] = "waiting" => phase[q] = "waiting"
  BY <1>2 DEF Q!Wake, Q!Expire, Q!Close, Q!Settle
<1>3. ASSUME NEW r \in Requests, Q!Cancel(r)
      PROVE  /\ q \in pending' => q \in pending
             /\ phase'[q] = "new" => phase[q] = "new"
             /\ phase'[q] = "waiting" => phase[q] = "waiting"
  BY <1>3 DEF Q!Cancel, Q!Unwound
<1>4. ASSUME NEW r \in Requests, NEW u \in Users, NEW d \in Q!Answers, Q!Resolve(r, u, d)
      PROVE  pending' = pending /\ phase' = phase
  BY <1>4 DEF Q!Resolve
<1>5. ASSUME NEW s \in Sessions, Q!Abort(s)
      PROVE  /\ pending' = {}
             /\ phase'[q] = "new" => phase[q] = "new"
             /\ phase'[q] = "waiting" => phase[q] = "waiting"
  BY <1>5 DEF Q!Abort, Q!Unwound, Q!Sweep
<1>6. CASE Q!Undeploy
  BY <1>6 DEF Q!Undeploy, Q!Sweep
<1> QED BY <1>1, <1>2, <1>3, <1>4, <1>5, <1>6 DEF QueueStep

LEMMA AnnouncedStep ==
    ASSUME TypeOK, AllAnnounced, [Next]_vars
    PROVE  AllAnnounced'
<1> SUFFICES ASSUME NEW q \in Requests
             PROVE  Announced(q)'
  BY DEF AllAnnounced
<1>0. Announced(q) /\ SessionOf[q] \in Sessions /\ Owner(q) \in Users
  BY TenancyAssumption DEF AllAnnounced, Owner
<1> USE DEF Announced, Coming, Open
<1>1. CASE QueueStep
  <2>1. Q!TypeOK
    BY DEF TypeOK
  <2> QED BY <1>0, <1>1, <2>1, QueueKeeps DEF QueueStep, reachVars, socketVars, S!Present
<1>2. CASE SocketStep
  <2>1. S!Present(Owner(q), SessionOf[q])' => S!Present(Owner(q), SessionOf[q])
    BY <1>2 DEF SocketStep, S!Connect, S!Leave, S!Present, TypeOK, S!TypeOK
  <2> QED BY <1>0, <1>2, <2>1 DEF SocketStep, reachVars, queueVars
<1>3. ASSUME NEW r \in Requests, Emit(r)
      PROVE  Announced(q)'
  <2>1. S!Present(Owner(q), SessionOf[q])' <=> S!Present(Owner(q), SessionOf[q])
    BY <1>3 DEF Emit, socketVars, S!Present
  <2> QED BY <1>0, <1>3, <2>1 DEF Emit, queueVars, TypeOK, ReachTyped
<1>4. ASSUME NEW r \in Requests, File(r)
      PROVE  Announced(q)'
  <2>1. S!Present(Owner(q), SessionOf[q])' <=> S!Present(Owner(q), SessionOf[q])
    BY <1>4 DEF File, socketVars, S!Present
  <2>2. CASE q # r
    BY <1>0, <1>4, <2>1, <2>2 DEF File, queueVars, TypeOK
  <2>3. CASE q = r /\ Skips(q)
    BY <1>0, <1>4, <2>1, <2>3 DEF File, queueVars, TypeOK, Skips, S!Stale
  <2>4. CASE q = r /\ ~Skips(q)
    BY <1>0, <1>4, <2>1, <2>4 DEF File, queueVars, TypeOK
  <2> QED BY <2>2, <2>3, <2>4
<1>5. ASSUME NEW r \in Requests, StartWaiting(r)
      PROVE  Announced(q)'
  BY <1>0, <1>5 DEF StartWaiting, Q!StartWaiting, reachVars, socketVars, S!Present, TypeOK, Q!TypeOK
<1>6. ASSUME NEW r \in Requests, Progress(r)
      PROVE  Announced(q)'
  BY <1>0, <1>6 DEF Progress, queueVars, socketVars, S!Present
<1>7. ASSUME NEW c \in Conns, NEW s \in Sessions, Join(c, s)
      PROVE  Announced(q)'
  <2>1. CASE s = SessionOf[q]
    <3>1. <<c, s>> \in hydrating' /\ <<c, s>>[2] = SessionOf[q]
      BY <1>7, <2>1 DEF Join
    <3>2. Coming(q)'
      BY <3>1
    <3>3. UNCHANGED <<phase, pending, news, missed>>
      BY <1>7 DEF Join, queueVars
    <3> QED BY <1>0, <3>2, <3>3
  <2>2. CASE s # SessionOf[q]
    <3>1. S!Present(Owner(q), SessionOf[q])' => S!Present(Owner(q), SessionOf[q])
      BY <1>7, <2>2 DEF Join, S!Enter, S!Present, TypeOK, S!TypeOK
    <3> QED BY <1>0, <1>7, <3>1 DEF Join, queueVars
  <2> QED BY <2>1, <2>2
<1>8. ASSUME NEW c \in Conns, NEW s \in Sessions, Hydrate(c, s)
      PROVE  Announced(q)'
  <2>1. CASE s = SessionOf[q] /\ q \in pending
    BY <1>0, <1>8, <2>1 DEF Hydrate, queueVars, Snapshot, OfSession
  <2>2. CASE s # SessionOf[q] \/ q \notin pending
    <3>1. S!Present(Owner(q), SessionOf[q])' <=> S!Present(Owner(q), SessionOf[q])
      BY <1>8 DEF Hydrate, socketVars, S!Present
    <3> QED BY <1>0, <1>8, <2>2, <3>1 DEF Hydrate, queueVars
  <2> QED BY <2>1, <2>2
<1>9. ASSUME NEW c \in Conns, Disconnect(c)
      PROVE  Announced(q)'
  <2>1. S!Present(Owner(q), SessionOf[q])' => S!Present(Owner(q), SessionOf[q])
    BY <1>9 DEF Disconnect, S!Disconnect, S!Present, TypeOK, S!TypeOK
  <2>2. Open(q)' /\ Coming(q) => q \in seen \/ Coming(q)'
    <3> SUFFICES ASSUME Open(q)', NEW h \in hydrating, h[2] = SessionOf[q], q \notin seen
                 PROVE  Coming(q)'
      OBVIOUS
    <3>1. h = <<h[1], SessionOf[q]>>
      BY DEF TypeOK
    <3>2. h[1] # c
      BY <1>0, <1>9, <3>1 DEF Disconnect, queueVars, Snapshot, OfSession
    <3> QED BY <1>9, <3>2 DEF Disconnect
  <2> QED BY <1>0, <1>9, <2>1, <2>2 DEF Disconnect, queueVars
<1>10. CASE UNCHANGED vars
  BY <1>0, <1>10 DEF vars, reachVars, socketVars, queueVars, S!Present
<1> QED BY <1>1, <1>2, <1>3, <1>4, <1>5, <1>6, <1>7, <1>8, <1>9, <1>10 DEF Next

(* Nobody waits for an answer that no one was asked for: whatever the       *)
(* owner's connections do while a request is announced, the owner has seen  *)
(* it, has an item for it, or is about to be sent it, or it is in `missed'. *)
THEOREM OwnerIsAsked == Spec => []AskReachesOwner
<1> DEFINE Inv == TypeOK /\ AllAnnounced
<1>1. Init => Inv
  BY InitTyped DEF Init, Q!Init, AllAnnounced, Announced, Open
<1>2. Inv /\ [Next]_vars => Inv'
  BY Typed, AnnouncedStep
<1>3. Inv => AskReachesOwner
  BY DEF AllAnnounced, Announced, Open, Coming, AskReachesOwner
<1> QED BY <1>1, <1>2, <1>3, PTL DEF Spec
=============================================================================
