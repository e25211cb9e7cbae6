------------------------------ MODULE Approval ------------------------------
(***************************************************************************)
(* The approval queue of one deployed app (core/runtime/approval.py): a    *)
(* tool call that needs the consent of the user is suspended in enqueue    *)
(* until somebody resolves it, its timer expires, its task is cancelled,   *)
(* or cancel_all sweeps the queue.                                         *)
(*                                                                         *)
(*   pending    ApprovalQueue._pending                                     *)
(*   fut        the future of each request: open, its answer, cancelled    *)
(*   phase      where enqueue is: asking (it awaits the on_request         *)
(*              callbacks), waiting (wait_for), closing (it awaits the     *)
(*              on_resolve callbacks), done                                *)
(*   verdict    what enqueue returns, or cancelled when it is unwound      *)
(*   answer     history: the answer that resolve has accepted, and whose   *)
(*   swept      history: the requests that cancel_all has denied           *)
(*   raced      history: the requests whose timer fired between the        *)
(*              accepted answer and the step of the task that waits for it *)
(***************************************************************************)
EXTENDS Tenancy

VARIABLES pending, fut, phase, verdict, answer, swept, raced
queueVars == <<pending, fut, phase, verdict, answer, swept, raced>>

Answers == {"yes", "no"}
NoAnswer == [by |-> "nobody", says |-> "nothing"]

Init ==
    /\ pending = {}
    /\ fut = [r \in Requests |-> "open"]
    /\ phase = [r \in Requests |-> "new"]
    /\ verdict = [r \in Requests |-> "none"]
    /\ answer = [r \in Requests |-> NoAnswer]
    /\ swept = {} /\ raced = {}
-----------------------------------------------------------------------------
(* enqueue.  The request can be resolved from the moment it is registered,  *)
(* before the callbacks have announced it; the timer starts after them.     *)
Enqueue(r) ==
    /\ phase[r] = "new"
    /\ phase' = [phase EXCEPT ![r] = "asking"]
    /\ pending' = pending \cup {r}
    /\ UNCHANGED <<fut, verdict, answer, swept, raced>>

StartWaiting(r) ==
    /\ phase[r] = "asking"
    /\ phase' = [phase EXCEPT ![r] = "waiting"]
    /\ UNCHANGED <<pending, fut, verdict, answer, swept, raced>>

Settle(r, v) ==
    /\ phase' = [phase EXCEPT ![r] = "closing"]
    /\ verdict' = [verdict EXCEPT ![r] = v]

(* The task wakes up with the result of its future.                         *)
Wake(r) ==
    /\ phase[r] = "waiting" /\ fut[r] \in Answers
    /\ Settle(r, fut[r])
    /\ UNCHANGED <<pending, fut, answer, swept, raced>>

(* wait_for cancels the future.  When the answer is there already and the   *)
(* task has not run since, the timer wins all the same.                     *)
Expire(r) ==
    /\ phase[r] = "waiting" /\ fut[r] # "cancelled"
    /\ Settle(r, "timeout")
    /\ fut' = [fut EXCEPT ![r] = IF @ = "open" THEN "cancelled" ELSE @]
    /\ raced' = IF fut[r] = "open" THEN raced ELSE raced \cup {r}
    /\ UNCHANGED <<pending, answer, swept>>

(* The on_resolve callbacks are done, and the request leaves the queue.     *)
Close_LeavesPending(r) ==
    /\ phase[r] = "closing"
    /\ phase' = [phase EXCEPT ![r] = "done"]
    /\ UNCHANGED <<pending, fut, verdict, answer, swept, raced>>

Close(r) ==
    /\ phase[r] = "closing"
    /\ phase' = [phase EXCEPT ![r] = "done"]
    /\ pending' = pending \ {r}
    /\ UNCHANGED <<fut, verdict, answer, swept, raced>>

(* resolve, for the user that POST /approve or resolve_approval names.      *)
Resolve_Again(r, u, d) ==
    /\ r \in pending /\ Owner(r) = u
    /\ fut' = [fut EXCEPT ![r] = d]
    /\ answer' = [answer EXCEPT ![r] = [by |-> u, says |-> d]]
    /\ UNCHANGED <<pending, phase, verdict, swept, raced>>

Resolve_Anybody(r, u, d) ==
    /\ r \in pending /\ fut[r] = "open"
    /\ fut' = [fut EXCEPT ![r] = d]
    /\ answer' = [answer EXCEPT ![r] = [by |-> u, says |-> d]]
    /\ UNCHANGED <<pending, phase, verdict, swept, raced>>

Resolve(r, u, d) ==
    /\ r \in pending /\ Owner(r) = u /\ fut[r] = "open"
    /\ fut' = [fut EXCEPT ![r] = d]
    /\ answer' = [answer EXCEPT ![r] = [by |-> u, says |-> d]]
    /\ UNCHANGED <<pending, phase, verdict, swept, raced>>
-----------------------------------------------------------------------------
(* A cancelled task leaves enqueue at the await it is suspended in.  Only   *)
(* wait_for and what follows it are inside the try whose finally removes    *)
(* the request.                                                             *)
Suspended(r) == phase[r] \in {"asking", "waiting", "closing"}
Unwound(R) ==
    /\ phase' = [r \in Requests |-> IF r \in R THEN "done" ELSE phase[r]]
    /\ verdict' = [r \in Requests |-> IF r \in R THEN "cancelled" ELSE verdict[r]]

Cancelled(R) ==
    [r \in Requests |->
        IF r \in R /\ phase[r] = "waiting" /\ fut[r] = "open" THEN "cancelled" ELSE fut[r]]

(* One task: a sub-agent that is cancelled or times out, for instance.      *)
Cancel(r) ==
    /\ Suspended(r)
    /\ Unwound({r})
    /\ fut' = Cancelled({r})
    /\ pending' = IF phase[r] = "asking" THEN pending ELSE pending \ {r}
    /\ UNCHANGED <<answer, swept, raced>>

(* cancel_all: deny what is open, forget everything.                        *)
Sweep_Grants(f) ==
    /\ fut' = [r \in Requests |-> IF r \in pending /\ f[r] = "open" THEN "yes" ELSE f[r]]
    /\ swept' = swept \cup {r \in pending : f[r] = "open"}
    /\ pending' = {}

Sweep(f) ==
    /\ fut' = [r \in Requests |-> IF r \in pending /\ f[r] = "open" THEN "no" ELSE f[r]]
    /\ swept' = swept \cup {r \in pending : f[r] = "open"}
    /\ pending' = {}

(* The abort of a session cancels the task of its turn, and then sweeps the *)
(* queue of the app: the requests of the other sessions are denied too.     *)
Abort(s) ==
    LET R == {r \in OfSession(s) : Suspended(r)}
    IN  /\ R # {} \/ pending # {}
        /\ Unwound(R)
        /\ Sweep(Cancelled(R))
        /\ UNCHANGED <<answer, raced>>

(* Undeployment and shutdown sweep it, and leave the turns running.         *)
Undeploy ==
    /\ pending # {}
    /\ Sweep(fut)
    /\ UNCHANGED <<phase, verdict, answer, raced>>

Next ==
    \/ \E r \in Requests :
          \/ Enqueue(r) \/ StartWaiting(r) \/ Wake(r) \/ Expire(r) \/ Close(r) \/ Cancel(r)
          \/ \E u \in Users, d \in Answers : Resolve(r, u, d)
    \/ \E s \in Sessions : Abort(s)
    \/ Undeploy

Spec == Init /\ [][Next]_queueVars

(* The callbacks return, the timer of wait_for fires, and tasks that are    *)
(* ready are run.                                                           *)
Fairness ==
    \A r \in Requests :
        /\ WF_queueVars(StartWaiting(r))
        /\ WF_queueVars(Wake(r) \/ Expire(r))
        /\ WF_queueVars(Close(r))
FairSpec == Spec /\ Fairness
-----------------------------------------------------------------------------
TypeOK ==
    /\ pending \subseteq Requests /\ swept \subseteq Requests /\ raced \subseteq Requests
    /\ fut \in [Requests -> Answers \cup {"open", "cancelled"}]
    /\ phase \in [Requests -> {"new", "asking", "waiting", "closing", "done"}]
    /\ verdict \in [Requests -> Answers \cup {"none", "timeout", "cancelled"}]
    /\ answer \in [Requests -> [by : Users, says : Answers] \cup {NoAnswer}]

(* A tool runs with _approved only when the owner of the session has said   *)
(* yes to that very request, whoever else answers, sweeps or times out.     *)
ApprovedByOwner ==
    \A r \in Requests :
        verdict[r] = "yes" => answer[r] = [by |-> Owner(r), says |-> "yes"]

(* resolve tells one caller at most that its answer was taken, and the      *)
(* waiting tool call gets that answer: unless the task was cancelled, or    *)
(* the timer fired before the task could take it.                           *)
AnswerCounts ==
    \A r \in Requests :
        /\ answer[r] # NoAnswer
        /\ verdict[r] \notin {"none", "cancelled"}
        /\ r \notin raced
        => verdict[r] = answer[r].says

(* A call is denied because its owner denied it, or because the queue was   *)
(* swept; never because another request was answered.                       *)
DeniedForAReason ==
    \A r \in Requests :
        verdict[r] = "no" => r \in swept \/ answer[r].says = "no"

(* A request that is listed has a task that waits for it, so that a message *)
(* that queues up behind it (messages.py) is not queued for ever.  The      *)
(* request of a task that was cancelled while the callbacks ran is not so.  *)
PendingIsAwaited ==
    \A r \in pending : verdict[r] # "cancelled" => Suspended(r)

(* Every request settles, and a session is not blocked for ever by one,     *)
(* unless its task was cancelled while the callbacks ran.                   *)
Settles == \A r \in Requests : phase[r] = "asking" ~> phase[r] = "done"
Unblocks ==
    \A s \in Sessions :
        (pending \cap OfSession(s) # {}) ~>
            (\/ pending \cap OfSession(s) = {}
             \/ \E r \in pending \cap OfSession(s) : verdict[r] = "cancelled")
=============================================================================
