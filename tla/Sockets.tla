------------------------------ MODULE Sockets -------------------------------
(***************************************************************************)
(* The Socket.IO connections of the clients (core/events/socketio_bus.py): *)
(* which session each is joined to, and what the presence registry         *)
(* (core/events/presence.py) says of it.                                   *)
(*                                                                         *)
(*   connected   connections that are open                                 *)
(*   room        session rooms of each connection (the Socket.IO server)   *)
(*   seat        presence._sid_join: where each connection has joined      *)
(*   live        presence._user_active_sessions                            *)
(*   boarded     _sid_to_session_ids: what it has joined and not left      *)
(***************************************************************************)
EXTENDS Tenancy

VARIABLES connected, room, seat, live, boarded
socketVars == <<connected, room, seat, live, boarded>>

NoSeat == "nowhere"

Init ==
    /\ connected = {}
    /\ room = [c \in Conns |-> {}]
    /\ seat = [c \in Conns |-> NoSeat]
    /\ live = [u \in Users |-> {}]
    /\ boarded = [c \in Conns |-> {}]
-----------------------------------------------------------------------------
(* presence._drop_from_user_set, for user u and session s, when the seats   *)
(* of the connections are those of st.                                      *)
Dropped_Always(u, s, st) == [live EXCEPT ![u] = @ \ {s}]
Dropped(u, s, st) ==
    IF \E c \in Conns : c[1] = u /\ st[c] = s THEN live ELSE [live EXCEPT ![u] = @ \ {s}]

(* presence.mark_user_in_session: the previous join is dropped while the    *)
(* connection is still registered for it.                                   *)
MarkIn(c, s) ==
    LET left == IF seat[c] \in {NoSeat, s} THEN live ELSE Dropped(c[1], seat[c], seat)
    IN  /\ seat' = [seat EXCEPT ![c] = s]
        /\ live' = [left EXCEPT ![c[1]] = @ \cup {s}]

(* presence.mark_user_left_session.                                         *)
MarkLeft(c, s) ==
    LET st == IF seat[c] = s THEN [seat EXCEPT ![c] = NoSeat] ELSE seat
    IN  /\ seat' = st
        /\ live' = Dropped(c[1], s, st)
-----------------------------------------------------------------------------
Connect(c) ==
    /\ c \notin connected
    /\ connected' = connected \cup {c}
    /\ UNCHANGED <<room, seat, live, boarded>>

(* join_session, when get_session has found that the session is the user's: *)
(* the connection enters the room and leaves every other, in one step.  The *)
(* joins that one client has under way get here in any order; one whose     *)
(* connection has closed meanwhile fails.                                   *)
Enter_KeepsRooms(c, s) ==
    /\ c \in connected /\ OwnerOf[s] = c[1]
    /\ room' = [room EXCEPT ![c] = @ \cup {s}]
    /\ boarded' = [boarded EXCEPT ![c] = @ \cup {s}]
    /\ MarkIn(c, s)
    /\ UNCHANGED connected

Enter(c, s) ==
    /\ c \in connected /\ OwnerOf[s] = c[1]
    /\ room' = [room EXCEPT ![c] = {s}]
    /\ boarded' = [boarded EXCEPT ![c] = @ \cup {s}]
    /\ MarkIn(c, s)
    /\ UNCHANGED connected

(* leave_session, for a session that the client has joined.                 *)
Leave(c, s) ==
    /\ c \in connected /\ s \in boarded[c]
    /\ room' = [room EXCEPT ![c] = @ \ {s}]
    /\ boarded' = [boarded EXCEPT ![c] = @ \ {s}]
    /\ MarkLeft(c, s)
    /\ UNCHANGED connected

Disconnect_SeatKept(c) ==
    /\ c \in connected
    /\ connected' = connected \ {c}
    /\ room' = [room EXCEPT ![c] = {}]
    /\ boarded' = [boarded EXCEPT ![c] = {}]
    /\ UNCHANGED <<seat, live>>

Disconnect(c) ==
    /\ c \in connected
    /\ connected' = connected \ {c}
    /\ room' = [room EXCEPT ![c] = {}]
    /\ boarded' = [boarded EXCEPT ![c] = {}]
    /\ IF seat[c] = NoSeat THEN UNCHANGED <<seat, live>> ELSE MarkLeft(c, seat[c])

(* Somebody of u is in the room of s.  The registry of presence can say so  *)
(* when it is not: Stale.                                                   *)
Present(u, s) == \E c \in Conns : c[1] = u /\ s \in room[c]
Stale(u, s) == s \in live[u] /\ ~Present(u, s)

Next ==
    \E c \in Conns :
        \/ Connect(c) \/ Disconnect(c)
        \/ \E s \in Sessions : Enter(c, s) \/ Leave(c, s)

Spec == Init /\ [][Next]_socketVars
-----------------------------------------------------------------------------
(* Types; a connection that is closed is nowhere.                           *)
TypeOK ==
    /\ connected \subseteq Conns
    /\ room \in [Conns -> SUBSET Sessions]
    /\ seat \in [Conns -> Sessions \cup {NoSeat}]
    /\ live \in [Users -> SUBSET Sessions]
    /\ boarded \in [Conns -> SUBSET Sessions]
    /\ \A c \in Conns \ connected : room[c] = {} /\ seat[c] = NoSeat /\ boarded[c] = {}

(* Strict isolation: whatever joins overlap, a connection receives the      *)
(* events of one session at most, the one that presence has it joined to,   *)
(* and only its owner's.                                                    *)
OneSessionEach ==
    \A c \in Conns :
        /\ room[c] = IF seat[c] = NoSeat THEN {} ELSE {seat[c]}
        /\ \A s \in room[c] : OwnerOf[s] = c[1]

(* A user who watches a session is registered as present in it: no inbox    *)
(* item doubles what the socket delivers.                                   *)
WatcherIsLive == \A c \in Conns : room[c] \subseteq live[c[1]]
=============================================================================
