---------------------------- MODULE SubAgentsMC ----------------------------
(* The instances of SubAgents for TLC, and what the code does not keep.     *)
EXTENDS SubAgents

(* "The coordinator is notified when agents complete or fail" (README.md:3):*)
(* when nothing is on its way to the session any more, it has been told.    *)
NotifiedOfEveryEnd ==
    \A a \in Agents :
        In(a, {"done"}) /\ a \notin cancelling
        => a \in told \/ \E s \in Sessions : a \in notices[s]
=============================================================================
