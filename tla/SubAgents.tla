------------------------------ MODULE SubAgents ------------------------------
(***************************************************************************)
(* The pool of sub-agents of one app (modules/agent_spawn): the turns of a *)
(* session launch agents under a lock and two caps, wait for them, cancel  *)
(* and reassign them; every agent is a task that runs its hooks and its    *)
(* attempts and whose done callback, the watchdog, gives its slot back;    *)
(* the abort of a session cancels its agents and forgets its lock and its  *)
(* counter.  Whoever may call (a turn, the turn of a wake-up, the client)  *)
(* may call at any time.                                                   *)
(*                                                                         *)
(*   agent      stage, session, lock object awaited or held, attempts left *)
(*              after this one, and TrackedAgent.result                    *)
(*   interrupted  task.cancel() was called; the CancelledError is not in   *)
(*              the task yet                                               *)
(*   pool       _agents: the agents a session still lists                  *)
(*   running, total  _running_count_by_session, _total_running_count       *)
(*   epoch      which lock object _spawn_locks holds for the session       *)
(*   clearing   the agents for which a cleanup_session of it waits         *)
(*   cancelling, reassigning  the agents that a call waits for    *)
(*   notices    terminal notices queued for the session; woken: a          *)
(*              check_notifications task of it is scheduled                *)
(*   told       history: the agents of which a turn has read such a notice *)
(*   silent     history: the agents that got a result without a notice     *)
(*   skewed     history: the sessions whose lock or counter cleanup_session*)
(*              dropped under an agent that was running or being launched  *)
(***************************************************************************)
EXTENDS Naturals, FiniteSets

CONSTANTS Sessions, Agents,
          MaxWorkers,         \* max_workers: running agents of a session
          MaxWorkersGlobal,   \* max_workers_global
          AutoRetry,          \* auto_retry
          MaxCleanups         \* bound of the model: no cleanup begins after as many

ASSUME SubAgentsAssumption ==
    /\ IsFiniteSet(Agents)
    /\ {MaxWorkers, MaxWorkersGlobal, AutoRetry, MaxCleanups} \subseteq Nat

VARIABLES agent, interrupted, pool, running, total, epoch, clearing,
          cancelling, reassigning, notices, woken, told, silent, skewed

poolVars == <<pool, running, total, epoch, clearing>>
callVars == <<cancelling, reassigning>>
noticeVars == <<notices, woken, told, silent>>
vars == <<agent, interrupted, poolVars, callVars, noticeVars, skewed>>

Live == {"starting", "building", "working", "closing"}
Ends == {"completed", "failed", "cancelled"}
Agent(st, s, l, n, e) == [stage |-> st, home |-> s, lock |-> l, left |-> n, result |-> e]
NoAgent == Agent("none", "none", 0, 0, "none")

In(a, stages) == agent[a].stage \in stages
Of(s, stages) == {a \in Agents : In(a, stages) /\ agent[a].home = s}
Running(s) == Of(s, Live)
Ended(a) == In(a, {"closing", "done"})

To(a, st) == agent' = [agent EXCEPT ![a] = Agent(st, @.home, @.lock, @.left, @.result)]

Init ==
    /\ agent = [a \in Agents |-> NoAgent]
    /\ interrupted = {}
    /\ pool = [s \in Sessions |-> {}]
    /\ running = [s \in Sessions |-> 0] /\ total = 0
    /\ epoch = [s \in Sessions |-> 0]
    /\ clearing = [s \in Sessions |-> {}]
    /\ cancelling = {} /\ reassigning = {}
    /\ notices = [s \in Sessions |-> {}] /\ woken = {} /\ told = {} /\ silent = {}
    /\ skewed = {}
-----------------------------------------------------------------------------
(* push_module_notification: a terminal notice is queued, and its bridge    *)
(* schedules check_notifications for the session.                           *)
Push(s, A) ==
    /\ notices' = [notices EXCEPT ![s] = @ \cup A]
    /\ woken' = IF A = {} THEN woken ELSE woken \cup {s}
    /\ silent' = silent \ A
    /\ UNCHANGED told

(* drain_bg_notifications, by the turn of a wake-up or, in front of each of *)
(* its iterations, by a turn that runs.                                     *)
Read(s) ==
    /\ notices' = [notices EXCEPT ![s] = {}]
    /\ told' = told \cup notices[s]
    /\ UNCHANGED <<agent, interrupted, poolVars, callVars, silent, skewed>>

CheckNotifications(s) == s \in woken /\ woken' = woken \ {s} /\ Read(s)
InjectNotifications(s) == notices[s] # {} /\ UNCHANGED woken /\ Read(s)
-----------------------------------------------------------------------------
(* _mode_spawn.  The call takes the lock object of its session, creating it *)
(* when there is none, and waits for it.                                    *)
Fresh == CHOOSE a \in Agents : In(a, {"none"})
Asking(s) == Agent("asking", s, epoch[s], AutoRetry, "none")

Ask(s) ==
    /\ \E a \in Agents : In(a, {"none"})
    /\ agent' = [agent EXCEPT ![Fresh] = Asking(s)]
    /\ UNCHANGED <<interrupted, poolVars, callVars, noticeVars, skewed>>

LockFree(a) ==
    \A b \in Of(agent[a].home, {"admitted"}) : agent[b].lock # agent[a].lock

Room(s) == running[s] < MaxWorkers /\ total < MaxWorkersGlobal

(* Under the lock, both caps are read ...                                   *)
Admit_NoLock(a) ==
    /\ In(a, {"asking"}) /\ Room(agent[a].home)
    /\ To(a, "admitted")
    /\ UNCHANGED <<interrupted, poolVars, callVars, noticeVars, skewed>>

Admit(a) ==
    /\ In(a, {"asking"}) /\ LockFree(a) /\ Room(agent[a].home)
    /\ To(a, "admitted")
    /\ UNCHANGED <<interrupted, poolVars, callVars, noticeVars, skewed>>

Forgo(a) ==
    /\ agent' = [agent EXCEPT ![a] = NoAgent]
    /\ UNCHANGED <<interrupted, poolVars, callVars, noticeVars, skewed>>

(* ... and the call returns an error when the pool is full.                 *)
Refuse(a) == In(a, {"asking"}) /\ LockFree(a) /\ ~Room(agent[a].home) /\ Forgo(a)

(* A call that is cancelled at the lock, or while the provider of its       *)
(* specialist is being resolved, or for which that fails, leaves the lock.  *)
Unwind(a) == In(a, {"asking", "admitted"}) /\ Forgo(a)

(* The provider is resolved: create_task, the counters and the watchdog.    *)
Launch(a) ==
    LET s == agent[a].home IN
    /\ In(a, {"admitted"})
    /\ agent' = [agent EXCEPT ![a] = Agent("starting", s, 0, @.left, @.result)]
    /\ pool' = [pool EXCEPT ![s] = @ \cup {a}]
    /\ running' = [running EXCEPT ![s] = @ + 1]
    /\ total' = total + 1
    /\ UNCHANGED <<interrupted, epoch, clearing, cancelling, reassigning,
                   noticeVars, skewed>>
-----------------------------------------------------------------------------
(* The done callback of the task: _drop_running.                            *)
Drop_UnlessForgotten(a) ==
    LET s == agent[a].home IN
    /\ running' = [running EXCEPT ![s] = IF @ <= 1 THEN 0 ELSE @ - 1]
    /\ total' = IF running[s] > 0 THEN total - 1 ELSE total
    /\ UNCHANGED <<pool, epoch, clearing>>

Drop(a) ==
    LET s == agent[a].home IN
    /\ running' = [running EXCEPT ![s] = IF @ <= 1 THEN 0 ELSE @ - 1]
    /\ total' = IF total > 0 THEN total - 1 ELSE 0
    /\ UNCHANGED <<pool, epoch, clearing>>

Silence(a) == silent' = silent \cup {a} /\ UNCHANGED <<notices, woken, told>>
Settle(a, st, end) ==
    agent' = [agent EXCEPT ![a] = Agent(st, @.home, @.lock, 0, end)]

(* The task proceeds unless a CancelledError is due to it.  _run_agent      *)
(* awaits the agent_spawn hook, and then waits for the modules of its       *)
(* session; each attempt makes itself a new cancel_event.                   *)
Begin(a) ==
    /\ In(a, {"starting"}) /\ a \notin interrupted
    /\ To(a, "building")
    /\ UNCHANGED <<interrupted, poolVars, callVars, noticeVars, skewed>>

Work(a) ==
    /\ In(a, {"building"}) /\ a \notin interrupted
    /\ To(a, "working")
    /\ UNCHANGED <<interrupted, poolVars, callVars, noticeVars, skewed>>

Retry(a) == agent' = [agent EXCEPT ![a] = Agent("building", @.home, @.lock, @.left - 1, @.result)]

(* An attempt that raises before agent_turn pushes no notice.               *)
Crash(a) ==
    /\ In(a, {"building"}) /\ a \notin interrupted
    /\ \/ agent[a].left > 0 /\ Retry(a) /\ UNCHANGED noticeVars
       \/ agent[a].left = 0 /\ Settle(a, "closing", "failed") /\ Silence(a)
    /\ UNCHANGED <<interrupted, poolVars, callVars, skewed>>

(* agent_turn has returned or timed out; after a cancellation that a tool   *)
(* swallowed it sees cancel_event and ends as failed, which is retried too. *)
(* The notice of an attempt that is retried wakes the session, but does not *)
(* tell the end of the agent.                                               *)
Finish(a, end) ==
    /\ In(a, {"working"}) /\ a \notin interrupted
    /\ IF end = "failed" /\ agent[a].left > 0
       THEN /\ Retry(a)
            /\ woken' = woken \cup {agent[a].home}
            /\ UNCHANGED <<notices, told, silent>>
       ELSE /\ Settle(a, "closing", end)
            /\ Push(agent[a].home, {a})
    /\ UNCHANGED <<interrupted, poolVars, callVars, skewed>>

(* The agent_complete hook and the close of the provider are done.          *)
End(a) ==
    /\ In(a, {"closing"}) /\ a \notin interrupted
    /\ To(a, "done") /\ Drop(a)
    /\ UNCHANGED <<interrupted, callVars, noticeVars, skewed>>

(* The CancelledError arrives.  Before the try of _run_agent nobody sets a  *)
(* result, and the watchdog synthesises one.                                *)
StopStarting_NoResult(a) ==
    /\ In(a, {"starting"}) /\ To(a, "done") /\ Drop(a) /\ UNCHANGED noticeVars

StopStarting_NoNotice(a) ==
    /\ In(a, {"starting"}) /\ Settle(a, "done", "cancelled") /\ Drop(a)
    /\ UNCHANGED noticeVars

StopStarting(a) ==
    /\ In(a, {"starting"}) /\ Settle(a, "done", "cancelled") /\ Drop(a)
    /\ Push(agent[a].home, {a})

StopBuilding(a) ==
    /\ In(a, {"building"}) /\ Settle(a, "closing", "cancelled") /\ Silence(a)
    /\ UNCHANGED poolVars

StopWorking(a) ==
    /\ In(a, {"working"}) /\ Settle(a, "closing", "cancelled")
    /\ Push(agent[a].home, {a}) /\ UNCHANGED poolVars

(* A tool that catches CancelledError swallows it.                          *)
Swallow(a) == In(a, {"working"}) /\ UNCHANGED <<agent, poolVars, noticeVars>>

StopClosing_Overwrites(a) ==
    /\ In(a, {"closing"}) /\ Settle(a, "done", "cancelled") /\ Drop(a)
    /\ UNCHANGED noticeVars

StopClosing(a) == In(a, {"closing"}) /\ To(a, "done") /\ Drop(a) /\ UNCHANGED noticeVars

Interrupt(a) ==
    /\ a \in interrupted
    /\ interrupted' = interrupted \ {a}
    /\ StopStarting(a) \/ StopBuilding(a) \/ StopWorking(a) \/ Swallow(a) \/ StopClosing(a)
    /\ UNCHANGED <<callVars, skewed>>

AgentStep(a) ==
    Begin(a) \/ Work(a) \/ Crash(a) \/ End(a) \/ Interrupt(a)
    \/ \E end \in {"completed", "failed"} : Finish(a, end)
-----------------------------------------------------------------------------
Listed(a) == \E s \in Sessions : a \in pool[s]

(* POST .../agents/{agent_id}/cancel.                                       *)
CancelFromClient(a) ==
    /\ Listed(a) /\ agent[a].result = "none"
    /\ interrupted' = interrupted \cup {a}
    /\ UNCHANGED <<agent, poolVars, callVars, noticeVars, skewed>>

(* _mode_cancel and _mode_reassign wait for the task, and cancel it again   *)
(* when that takes too long.                                                *)
Cancel(a) ==
    /\ Listed(a) /\ In(a, Live) /\ a \notin cancelling \cup reassigning
    /\ interrupted' = interrupted \cup {a}
    /\ cancelling' = cancelling \cup {a}
    /\ UNCHANGED <<agent, poolVars, reassigning, noticeVars, skewed>>

Reassign(a) ==
    /\ Listed(a) /\ a \notin cancelling \cup reassigning
    /\ interrupted' = interrupted \cup ({a} \ {b \in Agents : In(b, {"done"})})
    /\ reassigning' = reassigning \cup {a}
    /\ UNCHANGED <<agent, poolVars, cancelling, noticeVars, skewed>>

CancelAgain(a) ==
    /\ a \in cancelling \cup reassigning /\ In(a, Live) /\ a \notin interrupted
    /\ interrupted' = interrupted \cup {a}
    /\ UNCHANGED <<agent, poolVars, callVars, noticeVars, skewed>>

CancelDone(a) ==
    /\ a \in cancelling /\ In(a, {"done"})
    /\ cancelling' = cancelling \ {a}
    /\ Push(agent[a].home, {a})
    /\ UNCHANGED <<agent, interrupted, poolVars, reassigning, skewed>>

ReassignDone(a) ==
    /\ a \in reassigning /\ In(a, {"done"})
    /\ reassigning' = reassigning \ {a}
    /\ pool' = [s \in Sessions |-> pool[s] \ {a}]
    /\ IF \E b \in Agents : In(b, {"none"})
       THEN agent' = [agent EXCEPT ![Fresh] = Asking(agent[a].home)]
       ELSE UNCHANGED agent   \* no identity is left in this instance
    /\ UNCHANGED <<interrupted, running, total, epoch, clearing,
                   cancelling, noticeVars, skewed>>

(* _cleanup_completed: an agent that has a result leaves the list once its  *)
(* start is old enough; _mode_wait_one takes a completed one out at once.   *)
Unlist(a) ==
    /\ Listed(a) /\ agent[a].result # "none"
    /\ pool' = [s \in Sessions |-> pool[s] \ {a}]
    /\ UNCHANGED <<agent, interrupted, running, total, epoch, clearing,
                   callVars, noticeVars, skewed>>

(* cleanup_session: the agents of the session are cancelled, with a notice, *)
(* and awaited; then its lock and its counter go.                           *)
Cleanup(s) ==
    LET A == pool[s] \cap Running(s) IN
    /\ clearing[s] = {} /\ epoch[s] < MaxCleanups /\ A # {}
    /\ pool' = [pool EXCEPT ![s] = {}]
    /\ clearing' = [clearing EXCEPT ![s] = A]
    /\ interrupted' = interrupted \cup A /\ Push(s, A)
    /\ UNCHANGED <<agent, running, total, epoch, callVars, skewed>>

Forget(s) ==
    /\ epoch' = [epoch EXCEPT ![s] = @ + 1]
    /\ running' = [running EXCEPT ![s] = 0]
    /\ skewed' = IF Of(s, Live \cup {"asking", "admitted"}) = {} THEN skewed
                 ELSE skewed \cup {s}
    /\ UNCHANGED <<agent, interrupted, total, callVars, noticeVars>>

CleanupDone(s) ==
    /\ clearing[s] # {} /\ \A a \in clearing[s] : In(a, {"done"})
    /\ clearing' = [clearing EXCEPT ![s] = {}]
    /\ Forget(s) /\ UNCHANGED pool

(* Nobody to wait for, or only those of an abort before this one.           *)
CleanupAtOnce(s) ==
    /\ epoch[s] < MaxCleanups /\ pool[s] \cap Running(s) = {}
    /\ pool' = [pool EXCEPT ![s] = {}]
    /\ Forget(s) /\ UNCHANGED clearing
-----------------------------------------------------------------------------
SessionStep(s) ==
    \/ CheckNotifications(s) \/ InjectNotifications(s) \/ Ask(s)
    \/ Cleanup(s) \/ CleanupDone(s) \/ CleanupAtOnce(s)

CallStep(a) ==
    \/ Admit(a) \/ Refuse(a) \/ Unwind(a) \/ Launch(a)
    \/ CancelFromClient(a) \/ Cancel(a) \/ Reassign(a) \/ CancelAgain(a)
    \/ CancelDone(a) \/ ReassignDone(a) \/ Unlist(a)

Next == (\E s \in Sessions : SessionStep(s)) \/ (\E a \in Agents : CallStep(a) \/ AgentStep(a))

Spec == Init /\ [][Next]_vars

(* Every task that is ready is scheduled.  An attempt has a last iteration  *)
(* and a timeout, however often tools of it swallow a cancellation.         *)
Fairness ==
    /\ \A a \in Agents : WF_vars(AgentStep(a))
                         /\ SF_vars(\E end \in {"completed", "failed"} : Finish(a, end))
                         /\ WF_vars(CancelDone(a)) /\ WF_vars(ReassignDone(a))
    /\ \A s \in Sessions : WF_vars(CheckNotifications(s))

FairSpec == Spec /\ Fairness
-----------------------------------------------------------------------------
AgentType ==
    [stage : Live \cup {"none", "asking", "admitted", "done"},
     home : Sessions \cup {"none"}, lock : 0 .. MaxCleanups + 1,
     left : 0 .. AutoRetry, result : Ends \cup {"none"}]

(* Types; an agent that is not launched is nowhere listed, and an agent has *)
(* its result exactly when its run is over.                                 *)
TypeOK ==
    /\ agent \in [Agents -> AgentType]
    /\ \A a \in Agents : /\ ~In(a, {"none"}) => agent[a].home \in Sessions
                         /\ Ended(a) <=> agent[a].result # "none"
    /\ interrupted \subseteq {a \in Agents : In(a, Live)}
    /\ pool \in [Sessions -> SUBSET Agents]
    /\ \A s \in Sessions : pool[s] \subseteq Of(s, Live \cup {"done"})
    /\ running \in [Sessions -> Nat] /\ total \in Nat
    /\ epoch \in [Sessions -> 0 .. MaxCleanups + 1]
    /\ clearing \in [Sessions -> SUBSET Agents]
    /\ cancelling \subseteq Agents /\ reassigning \subseteq Agents
    /\ notices \in [Sessions -> SUBSET Agents]
    /\ woken \subseteq Sessions /\ skewed \subseteq Sessions
    /\ told \subseteq Agents /\ silent \subseteq Agents

(* The counters that the caps are read from are exact: every way in which a *)
(* task may end gives its slot back once.  The counter of the session is    *)
(* exact unless cleanup_session has dropped it under the feet of an agent.  *)
CountersAgree ==
    /\ total = Cardinality({a \in Agents : In(a, Live)})
    /\ \A s \in Sessions \ skewed : running[s] = Cardinality(Running(s))

(* "Max parallel sub-agents per session" (README.md:64): the lock that is   *)
(* held while a provider is resolved keeps two calls from one free slot.    *)
CapHolds ==
    \A s \in Sessions \ skewed : Cardinality(Of(s, Live \cup {"admitted"})) <= MaxWorkers

(* A result that a waiter may have read is never written again, whatever    *)
(* cancels the task afterwards.                                             *)
ResultIsFinal ==
    [][\A a \in Agents : Ended(a) => Ended(a)' /\ agent'[a].result = agent[a].result]_vars

(* Nobody waits for an agent in vain.  An agent that was launched gets a    *)
(* result, wherever a cancellation meets it, so the calls that wait for it  *)
(* wake up; those that cancel or reassign it return; and a turn of its      *)
(* session is told of its end, unless the code keeps that to itself.        *)
Owed(a) ==
    \/ In(a, Live \cup {"done"}) /\ agent[a].result = "none"
    \/ a \in cancelling \cup reassigning
    \/ In(a, {"done"}) /\ a \notin told \cup silent

EveryoneHears == \A a \in Agents : Owed(a) ~> ~Owed(a)
=============================================================================
