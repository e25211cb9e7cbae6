------------------------------ MODULE Tenancy -------------------------------
(***************************************************************************)
(* Whose a session is, which session a request for approval comes from,    *)
(* and whose a connection is: the parameters that Approval, Sockets and    *)
(* their composition share.                                                *)
(***************************************************************************)
CONSTANTS
    Users, Sessions, Requests,
    Conns,          \* connections, each a pair of its user and a tab
    SessionOf,      \* the session whose turn makes the request
    OwnerOf         \* the user of the session

ASSUME TenancyAssumption ==
    /\ SessionOf \in [Requests -> Sessions]
    /\ OwnerOf \in [Sessions -> Users]
    /\ \A c \in Conns : c[1] \in Users

Owner(r) == OwnerOf[SessionOf[r]]
OfSession(s) == {r \in Requests : SessionOf[r] = s}
=============================================================================
