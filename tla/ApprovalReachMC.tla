-------------------------- MODULE ApprovalReachMC ---------------------------
(***************************************************************************)
(* An instance of ApprovalReach: one user with two tabs and two sessions,  *)
(* another user who only tries to answer, and a request in one of them. *)
(***************************************************************************)
EXTENDS ApprovalReach, TLC

CONSTANTS ann, bob, s1, s2, r1
MCSessionOf == r1 :> s1
MCOwnerOf == [s \in {s1, s2} |-> ann]
MCConns == {<<ann, 1>>, <<ann, 2>>}

(* socketio_bus.py: "Mark the user live so the inbox producer skips         *)
(* notifications that already arrive via this socket".                      *)
SkipsOnlyWhatArrives ==
    [][\A r \in Requests :
          File(r) /\ Skips(r) => S!Present(Owner(r), SessionOf[r])]_vars
=============================================================================
