--------------------------- MODULE SubAgentsProofs ---------------------------
(***************************************************************************)
(* Theorems about SubAgents for every set of sessions and agents, both     *)
(* caps and every number of retries.                                       *)
(***************************************************************************)
EXTENDS SubAgents, FiniteSetTheorems, TLAPS

(* The lock object of a session is replaced at most once more after the     *)
(* last cleanup that is begun.                                              *)
EpochBound == \A s \in Sessions : clearing[s] # {} => epoch[s] <= MaxCleanups

(* An identity that no launch has used yet.                                 *)
LEMMA FreshAgent ==
    ASSUME \E a \in Agents : In(a, {"none"})
    PROVE  Fresh \in Agents /\ In(Fresh, {"none"})
BY DEF Fresh

(* A step gives agent a the record r: the part of TypeOK about the agents.  *)
AgentPart ==
    /\ agent \in [Agents -> AgentType]
    /\ \A a \in Agents : /\ ~In(a, {"none"}) => agent[a].home \in Sessions
                         /\ Ended(a) <=> agent[a].result # "none"
    /\ interrupted \subseteq {a \in Agents : In(a, Live)}
    /\ \A s \in Sessions : pool[s] \subseteq Of(s, Live \cup {"done"})

LEMMA OneAgent ==
    ASSUME TypeOK, NEW a \in Agents, NEW r \in AgentType,
           agent' = [agent EXCEPT ![a] = r],
           r.stage # "none" => r.home \in Sessions,
           r.stage \in {"closing", "done"} <=> r.result # "none",
           In(a, Live \cup {"done"}) => r.stage \in Live \cup {"done"} /\ r.home = agent[a].home,
           interrupted' \subseteq interrupted, a \in interrupted' => r.stage \in Live,
           \A s \in Sessions : \/ pool'[s] \subseteq pool[s]
                               \/ /\ pool'[s] \subseteq pool[s] \cup {a}
                                  /\ r.stage \in Live /\ r.home = s
    PROVE  AgentPart'
<1>1. /\ agent' \in [Agents -> AgentType]
      /\ agent'[a] = r
      /\ \A b \in Agents : b # a => agent'[b] = agent[b]
  BY DEF TypeOK
<1>2. ASSUME NEW b \in Agents
      PROVE  /\ ~In(b, {"none"})' => agent'[b].home \in Sessions
             /\ Ended(b)' <=> agent'[b].result # "none"
             /\ b \in interrupted' => In(b, Live)'
             /\ \A s \in Sessions : b \in pool'[s] => b \in Of(s, Live \cup {"done"})'
  <2>1. CASE b = a
    BY <1>1, <2>1 DEF TypeOK, In, Ended, Of
  <2>2. CASE b # a
    BY <1>1, <2>2 DEF TypeOK, In, Ended, Of
  <2> QED BY <2>1, <2>2
<1>3. \A s \in Sessions : pool'[s] \subseteq Agents
  BY DEF TypeOK
<1> QED BY <1>1, <1>2, <1>3, interrupted' \subseteq Agents DEF AgentPart, TypeOK

(* The rest of TypeOK.                                                      *)
RestPart ==
    /\ pool \in [Sessions -> SUBSET Agents]
    /\ running \in [Sessions -> Nat] /\ total \in Nat
    /\ epoch \in [Sessions -> 0 .. MaxCleanups + 1]
    /\ clearing \in [Sessions -> SUBSET Agents]
    /\ cancelling \subseteq Agents /\ reassigning \subseteq Agents
    /\ notices \in [Sessions -> SUBSET Agents]
    /\ woken \subseteq Sessions /\ skewed \subseteq Sessions
    /\ told \subseteq Agents /\ silent \subseteq Agents

LEMMA Parts == /\ TypeOK => AgentPart /\ RestPart
               /\ AgentPart' /\ RestPart' => TypeOK'
BY DEF TypeOK, AgentPart, RestPart

(* The fields of the record of an agent.                                    *)
LEMMA Fields ==
    ASSUME TypeOK, NEW a \in Agents
    PROVE  /\ agent[a] \in AgentType
           /\ agent[a] = [stage |-> agent[a].stage, home |-> agent[a].home,
                          lock |-> agent[a].lock, left |-> agent[a].left,
                          result |-> agent[a].result]
           /\ ~In(a, {"none"}) => agent[a].home \in Sessions
BY DEF TypeOK, AgentType

(* A step moves an agent that runs to another stage, or gives it its end.   *)
LEMMA MovePart ==
    ASSUME TypeOK, NEW a \in Agents, NEW st \in Live \cup {"done"}, To(a, st),
           In(a, Live), st \in {"closing", "done"} <=> In(a, {"closing"}),
           interrupted' \subseteq interrupted, a \in interrupted' => st \in Live,
           UNCHANGED pool
    PROVE  AgentPart'
<1> DEFINE r == Agent(st, agent[a].home, agent[a].lock, agent[a].left, agent[a].result)
<1>1. agent' = [agent EXCEPT ![a] = r]
  BY DEF To
<1>2. /\ agent[a] \in AgentType /\ agent[a].home \in Sessions
      /\ Ended(a) <=> agent[a].result # "none"
  BY Fields DEF TypeOK, In, Live
<1>3. r \in AgentType
  BY <1>2 DEF AgentType, Agent
<1>4. r.stage \in {"closing", "done"} <=> r.result # "none"
  BY <1>2 DEF In, Ended, Live, Agent
<1>5. \A s \in Sessions : pool'[s] \subseteq pool[s]
  OBVIOUS
<1> HIDE DEF r
<1>6. r.stage = st /\ r.home = agent[a].home
  BY DEF r, Agent
<1> QED BY <1>1, <1>2, <1>3, <1>4, <1>5, <1>6, OneAgent DEF In

LEMMA SettlePart ==
    ASSUME TypeOK, NEW a \in Agents, NEW st \in {"closing", "done"}, NEW e \in Ends,
           Settle(a, st, e), In(a, Live),
           interrupted' \subseteq interrupted, a \in interrupted' => st \in Live,
           UNCHANGED pool
    PROVE  AgentPart'
<1> DEFINE r == Agent(st, agent[a].home, agent[a].lock, 0, e)
<1>1. agent' = [agent EXCEPT ![a] = r]
  BY DEF Settle
<1>2. agent[a] \in AgentType /\ agent[a].home \in Sessions
  BY Fields DEF In, Live
<1>3. r \in AgentType
  BY <1>2, SubAgentsAssumption DEF AgentType, Live, Agent
<1>4. r.result # "none"
  BY DEF Ends, Agent
<1>5. \A s \in Sessions : pool'[s] \subseteq pool[s]
  OBVIOUS
<1> HIDE DEF r
<1>6. r.stage = st /\ r.home = agent[a].home
  BY DEF r, Agent
<1> QED BY <1>1, <1>2, <1>3, <1>4, <1>5, <1>6, OneAgent DEF In, Live

(* The types of all the variables, and the bound of epoch, for every action.*)
LEMMA TypeStep == TypeOK /\ EpochBound /\ [Next]_vars => TypeOK' /\ EpochBound'
<1> SUFFICES ASSUME TypeOK, EpochBound, [Next]_vars PROVE TypeOK' /\ EpochBound'
  OBVIOUS
<1> USE SubAgentsAssumption DEF EpochBound, poolVars, callVars, noticeVars
<1>0. AgentPart /\ RestPart
  BY Parts
<1>n. AutoRetry \in Nat /\ MaxCleanups \in Nat
  BY SubAgentsAssumption
<1>1. ASSUME NEW s \in Sessions, CheckNotifications(s) \/ InjectNotifications(s)
      PROVE  TypeOK' /\ EpochBound'
  BY <1>1 DEF CheckNotifications, InjectNotifications, Read, TypeOK, Of, In, Ended
<1>2. ASSUME NEW s \in Sessions, Ask(s) PROVE TypeOK' /\ EpochBound'
  <2>1. Fresh \in Agents /\ In(Fresh, {"none"})
    BY <1>2, FreshAgent DEF Ask
  <2>2. Asking(s) \in AgentType
    BY DEF Asking, Agent, AgentType, TypeOK, Ends
  <2>3. AgentPart'
    BY <1>2, <2>1, <2>2, OneAgent DEF Ask, Asking, Agent, In, Live, TypeOK
  <2>4. RestPart'
    BY <1>0, <1>2 DEF Ask, RestPart
  <2> QED BY <1>2, <2>3, <2>4, Parts DEF Ask
<1>3. ASSUME NEW s \in Sessions, Cleanup(s) PROVE TypeOK' /\ EpochBound'
  BY <1>3 DEF Cleanup, Push, Running, TypeOK, Of, In, Ended
<1>4. ASSUME NEW s \in Sessions, CleanupDone(s) PROVE TypeOK' /\ EpochBound'
  BY <1>4 DEF CleanupDone, Forget, TypeOK, Of, In, Ended
<1>5. ASSUME NEW s \in Sessions, CleanupAtOnce(s) PROVE TypeOK' /\ EpochBound'
  BY <1>5 DEF CleanupAtOnce, Forget, Running, TypeOK, Of, In, Ended
<1>6. ASSUME NEW a \in Agents, Admit(a) PROVE TypeOK' /\ EpochBound'
  <2>1. PICK r \in AgentType :
           /\ agent' = [agent EXCEPT ![a] = r]
           /\ r.stage = "admitted" /\ r.home = agent[a].home /\ r.result = agent[a].result
    <3>1. agent' = [agent EXCEPT ![a] = Agent("admitted", agent[a].home, agent[a].lock,
                                              agent[a].left, agent[a].result)]
      BY <1>6 DEF Admit, To
    <3>2. LET r == Agent("admitted", agent[a].home, agent[a].lock,
                         agent[a].left, agent[a].result)
          IN  /\ r \in AgentType /\ r.stage = "admitted"
              /\ r.home = agent[a].home /\ r.result = agent[a].result
      BY Fields DEF Agent, AgentType
    <3> QED BY <3>1, <3>2
  <2>2. AgentPart'
    BY <1>6, <2>1, OneAgent DEF Admit, In, Ended, Live, TypeOK
  <2>3. RestPart'
    BY <1>0, <1>6 DEF Admit, RestPart
  <2> QED BY <1>6, <2>2, <2>3, Parts DEF Admit
<1>7. ASSUME NEW a \in Agents, Refuse(a) \/ Unwind(a) PROVE TypeOK' /\ EpochBound'
  <2>1. NoAgent \in AgentType /\ NoAgent.stage = "none" /\ NoAgent.result = "none"
    BY DEF NoAgent, Agent, AgentType
  <2>2. Forgo(a) /\ In(a, {"asking", "admitted"})
    BY <1>7 DEF Refuse, Unwind, In
  <2>3. AgentPart'
    BY <2>1, <2>2, OneAgent DEF Forgo, In, Live, TypeOK
  <2>4. RestPart'
    BY <1>0, <2>2 DEF Forgo, RestPart
  <2> QED BY <2>2, <2>3, <2>4, Parts DEF Forgo
<1>8. ASSUME NEW a \in Agents, Launch(a) PROVE TypeOK' /\ EpochBound'
  <2>1. PICK r \in AgentType :
           /\ agent' = [agent EXCEPT ![a] = r]
           /\ r.stage = "starting" /\ r.home = agent[a].home /\ r.result = agent[a].result
    <3>1. agent' = [agent EXCEPT ![a] = Agent("starting", agent[a].home, 0,
                                              agent[a].left, agent[a].result)]
      BY <1>8 DEF Launch
    <3>2. LET r == Agent("starting", agent[a].home, 0, agent[a].left, agent[a].result)
          IN  /\ r \in AgentType /\ r.stage = "starting"
              /\ r.home = agent[a].home /\ r.result = agent[a].result
      <4>1. 0 \in 0 .. MaxCleanups + 1
        BY <1>n
      <4> QED BY <4>1, Fields DEF Agent, AgentType, Live
    <3> QED BY <3>1, <3>2
  <2>2. /\ agent[a].home \in Sessions /\ ~In(a, Live \cup {"done"}) /\ ~Ended(a)
        /\ "starting" \in Live /\ a \notin interrupted
    BY <1>8 DEF Launch, In, Ended, Live, TypeOK
  <2>3. \A s \in Sessions : pool'[s] = IF s = agent[a].home THEN pool[s] \cup {a} ELSE pool[s]
    BY <1>8, <2>2 DEF Launch, TypeOK
  <2>4. r.result = "none"
    BY <2>1, <2>2 DEF TypeOK
  <2>5. AgentPart'
    <3>1. \A s \in Sessions : \/ pool'[s] \subseteq pool[s]
                              \/ /\ pool'[s] \subseteq pool[s] \cup {a}
                                 /\ r.stage \in Live /\ r.home = s
      BY <2>1, <2>2, <2>3
    <3>2. UNCHANGED interrupted
      BY <1>8 DEF Launch
    <3> QED BY <2>1, <2>2, <2>4, <3>1, <3>2, OneAgent
  <2>6. RestPart'
    BY <1>0, <1>8, <2>2 DEF Launch, RestPart
  <2> QED BY <1>8, <2>5, <2>6, Parts DEF Launch
<1>9. ASSUME NEW a \in Agents,
             CancelFromClient(a) \/ Cancel(a) \/ Reassign(a) \/ CancelAgain(a)
             \/ CancelDone(a) \/ Unlist(a)
      PROVE  TypeOK' /\ EpochBound'
  BY <1>9 DEF CancelFromClient, Cancel, Reassign, CancelAgain, CancelDone, Push, Unlist,
              Listed, TypeOK, Of, In, Ended, Live
<1>10. ASSUME NEW a \in Agents, ReassignDone(a) PROVE TypeOK' /\ EpochBound'
  <2>1. RestPart'
    BY <1>0, <1>10 DEF ReassignDone, RestPart
  <2>2. \A s \in Sessions : pool'[s] \subseteq pool[s]
    BY <1>10 DEF ReassignDone
  <2>3. AgentPart'
    <3>1. CASE \E b \in Agents : In(b, {"none"})
      <4>1. Fresh \in Agents /\ In(Fresh, {"none"})
        BY <3>1, FreshAgent
      <4>2. agent[a].home \in Sessions
        BY <1>10 DEF ReassignDone, In, TypeOK
      <4>3. Asking(agent[a].home) \in AgentType
        BY <4>2, <1>n DEF Asking, Agent, AgentType, TypeOK
      <4>4. /\ agent' = [agent EXCEPT ![Fresh] = Asking(agent[a].home)]
            /\ UNCHANGED interrupted
        BY <1>10, <3>1 DEF ReassignDone
      <4>5. Fresh \notin interrupted /\ ~In(Fresh, Live \cup {"done"})
        BY <4>1 DEF TypeOK, In, Live
      <4>6. /\ Asking(agent[a].home).stage = "asking" /\ Asking(agent[a].home).result = "none"
            /\ Asking(agent[a].home).home = agent[a].home
        BY DEF Asking, Agent
      <4> QED BY <2>2, <4>1, <4>2, <4>3, <4>4, <4>5, <4>6, OneAgent
    <3>2. CASE ~\E b \in Agents : In(b, {"none"})
      <4>1. UNCHANGED <<agent, interrupted>>
        BY <1>10, <3>2 DEF ReassignDone
      <4> QED BY <1>0, <2>2, <4>1 DEF AgentPart, Of, In, Ended
    <3> QED BY <3>1, <3>2
  <2> QED BY <1>10, <2>1, <2>3, Parts DEF ReassignDone
<1>11. ASSUME NEW a \in Agents, Begin(a) \/ Work(a) PROVE TypeOK' /\ EpochBound'
  <2>1. PICK st \in {"building", "working"} : To(a, st)
    BY <1>11 DEF Begin, Work
  <2>2. /\ In(a, {"starting", "building"}) /\ a \notin interrupted
        /\ UNCHANGED <<interrupted, poolVars, callVars, noticeVars, skewed>>
    BY <1>11 DEF Begin, Work, In
  <2>3. AgentPart'
    BY <2>1, <2>2, MovePart DEF In, Live
  <2>4. RestPart'
    BY <1>0, <2>2 DEF RestPart
  <2> QED BY <2>2, <2>3, <2>4, Parts
<1>12. ASSUME NEW a \in Agents, agent[a].left > 0, Retry(a),
              In(a, {"building", "working"}), UNCHANGED <<interrupted, pool>>
       PROVE  AgentPart'
  <2>1. PICK r \in AgentType :
           /\ agent' = [agent EXCEPT ![a] = r]
           /\ r.stage = "building" /\ r.home = agent[a].home /\ r.result = agent[a].result
    <3>1. agent' = [agent EXCEPT ![a] = Agent("building", agent[a].home, agent[a].lock,
                                              agent[a].left - 1, agent[a].result)]
      BY <1>12 DEF Retry
    <3>2. agent[a] \in AgentType /\ agent[a].left - 1 \in 0 .. AutoRetry
      <4>1. agent[a] \in AgentType /\ agent[a].left \in 0 .. AutoRetry
        BY Fields DEF AgentType
      <4> QED BY <4>1, <1>12, <1>n
    <3>3. LET r == Agent("building", agent[a].home, agent[a].lock,
                         agent[a].left - 1, agent[a].result)
          IN  /\ r \in AgentType /\ r.stage = "building"
              /\ r.home = agent[a].home /\ r.result = agent[a].result
      BY <3>2 DEF Agent, AgentType, Live
    <3> QED BY <3>1, <3>3
  <2>2. /\ agent[a].home \in Sessions /\ "building" \in Live /\ agent[a].result = "none"
        /\ \A s \in Sessions : pool'[s] \subseteq pool[s]
    BY <1>12 DEF In, Ended, Live, TypeOK
  <2> QED BY <1>12, <2>1, <2>2, OneAgent DEF In
<1>13. ASSUME NEW a \in Agents, Crash(a) PROVE TypeOK' /\ EpochBound'
  <2>1. AgentPart'
    <3>1. CASE agent[a].left > 0 /\ Retry(a)
      BY <1>12, <1>13, <3>1 DEF Crash, In
    <3>2. CASE Settle(a, "closing", "failed")
      BY <1>13, <3>2, SettlePart DEF Crash, In, Live, Ends
    <3> QED BY <1>13, <3>1, <3>2 DEF Crash
  <2>2. RestPart'
    BY <1>0, <1>13 DEF Crash, RestPart, Silence
  <2> QED BY <1>13, <2>1, <2>2, Parts DEF Crash
<1>14. ASSUME NEW a \in Agents, NEW end \in {"completed", "failed"}, Finish(a, end)
       PROVE  TypeOK' /\ EpochBound'
  <2>1. agent[a].home \in Sessions
    BY <1>14 DEF Finish, In, TypeOK
  <2>2. AgentPart'
    <3>1. CASE end = "failed" /\ agent[a].left > 0
      BY <1>12, <1>14, <3>1 DEF Finish, In
    <3>2. CASE ~(end = "failed" /\ agent[a].left > 0)
      BY <1>14, <3>2, SettlePart DEF Finish, In, Live, Ends
    <3> QED BY <3>1, <3>2
  <2>3. RestPart'
    BY <1>0, <1>14, <2>1 DEF Finish, RestPart, Push
  <2> QED BY <1>14, <2>2, <2>3, Parts DEF Finish
<1>15. ASSUME NEW a \in Agents, agent[a].home \in Sessions, Drop(a)
       PROVE  /\ running' \in [Sessions -> Nat] /\ total' \in Nat
              /\ UNCHANGED <<pool, epoch, clearing>>
  BY <1>15 DEF Drop, TypeOK
<1>16. ASSUME NEW a \in Agents, End(a) PROVE TypeOK' /\ EpochBound'
  <2>1. agent[a].home \in Sessions
    BY <1>16 DEF End, In, TypeOK
  <2>2. AgentPart'
    BY <1>15, <1>16, <2>1, MovePart DEF End, In, Live
  <2>3. RestPart'
    BY <1>0, <1>15, <1>16, <2>1 DEF End, RestPart
  <2> QED BY <1>15, <1>16, <2>1, <2>2, <2>3, Parts DEF End
<1>17. ASSUME NEW a \in Agents, Interrupt(a) PROVE TypeOK' /\ EpochBound'
  <2>1. agent[a].home \in Sessions /\ In(a, Live)
    BY <1>17 DEF Interrupt, In, TypeOK, Live
  <2>2. /\ interrupted' = interrupted \ {a} /\ UNCHANGED <<callVars, skewed>>
    BY <1>17 DEF Interrupt
  <2>3. CASE StopStarting(a)
    <3>1. AgentPart'
      BY <1>15, <2>1, <2>2, <2>3, SettlePart DEF StopStarting, Ends
    <3>2. RestPart'
      BY <1>0, <1>15, <2>1, <2>2, <2>3 DEF StopStarting, Push, RestPart
    <3> QED BY <1>15, <2>1, <2>3, <3>1, <3>2, Parts DEF StopStarting
  <2>4. CASE StopBuilding(a)
    <3>1. AgentPart'
      BY <2>1, <2>2, <2>4, SettlePart DEF StopBuilding, Ends
    <3>2. RestPart'
      BY <1>0, <2>1, <2>2, <2>4 DEF StopBuilding, Silence, RestPart
    <3> QED BY <2>4, <3>1, <3>2, Parts DEF StopBuilding
  <2>5. CASE StopWorking(a)
    <3>1. AgentPart'
      BY <2>1, <2>2, <2>5, SettlePart DEF StopWorking, Ends
    <3>2. RestPart'
      BY <1>0, <2>1, <2>2, <2>5 DEF StopWorking, Push, RestPart
    <3> QED BY <2>5, <3>1, <3>2, Parts DEF StopWorking
  <2>6. CASE Swallow(a)
    BY <2>2, <2>6 DEF Swallow, TypeOK, Of, In, Ended
  <2>7. CASE StopClosing(a)
    <3>1. AgentPart'
      BY <1>15, <2>1, <2>2, <2>7, MovePart DEF StopClosing, In
    <3>2. RestPart'
      BY <1>0, <1>15, <2>1, <2>2, <2>7 DEF StopClosing, RestPart
    <3> QED BY <1>15, <2>1, <2>7, <3>1, <3>2, Parts DEF StopClosing
  <2> QED BY <1>17, <2>3, <2>4, <2>5, <2>6, <2>7 DEF Interrupt
<1>18. CASE UNCHANGED vars
  BY <1>18 DEF vars, TypeOK, Of, In, Ended
<1> QED
  BY <1>1, <1>2, <1>3, <1>4, <1>5, <1>6, <1>7, <1>8, <1>9, <1>10, <1>11, <1>13,
     <1>14, <1>16, <1>17, <1>18 DEF Next, SessionStep, CallStep, AgentStep
-----------------------------------------------------------------------------
(* Unless its lock was dropped under somebody's feet, all the launches of a *)
(* session use the lock object that is registered, and one of them holds it.*)
LocksAgree ==
    \A s \in Sessions \ skewed :
        /\ \A a \in Of(s, {"asking", "admitted"}) : agent[a].lock = epoch[s]
        /\ \A a, b \in Of(s, {"admitted"}) : a = b

Counted == CountersAgree /\ CapHolds /\ LocksAgree

AllLive == {a \in Agents : In(a, Live)}
Holding(s) == Of(s, Live \cup {"admitted"})

LEMMA Finite ==
    /\ IsFiniteSet(AllLive) /\ Cardinality(AllLive) \in Nat
    /\ \A s : /\ IsFiniteSet(Running(s)) /\ Cardinality(Running(s)) \in Nat
             /\ IsFiniteSet(Holding(s)) /\ Cardinality(Holding(s)) \in Nat
<1>1. AllLive \subseteq Agents /\ \A s : Running(s) \subseteq Agents /\ Holding(s) \subseteq Agents
  BY DEF AllLive, Running, Holding, Of
<1> QED BY <1>1, SubAgentsAssumption, FS_Subset, FS_CardinalityType

LEMMA FinitePrime ==
    /\ IsFiniteSet(AllLive') /\ Cardinality(AllLive') \in Nat
    /\ \A s : /\ IsFiniteSet(Running(s)') /\ Cardinality(Running(s)') \in Nat
             /\ IsFiniteSet(Holding(s)') /\ Cardinality(Holding(s)') \in Nat
<1>1. AllLive' \subseteq Agents
      /\ \A s : Running(s)' \subseteq Agents /\ Holding(s)' \subseteq Agents
  BY DEF AllLive, Running, Holding, Of
<1> QED BY <1>1, SubAgentsAssumption, FS_Subset, FS_CardinalityType

LEMMA CountedAs ==
    /\ CountersAgree <=> /\ total = Cardinality(AllLive)
                         /\ \A s \in Sessions \ skewed : running[s] = Cardinality(Running(s))
    /\ CapHolds <=> \A s \in Sessions \ skewed : Cardinality(Holding(s)) <= MaxWorkers
    /\ CountersAgree' <=> /\ total' = Cardinality(AllLive')
                          /\ \A s \in Sessions \ skewed' : running'[s] = Cardinality(Running(s)')
    /\ CapHolds' <=> \A s \in Sessions \ skewed' : Cardinality(Holding(s)') <= MaxWorkers
BY DEF CountersAgree, CapHolds, AllLive, Holding

(* A step that leaves the counters, and neither launches nor ends an agent. *)
LEMMA Keeps ==
    ASSUME TypeOK, Counted, UNCHANGED <<running, total, epoch, skewed>>,
           \A b \in Agents : In(b, Live)' <=> In(b, Live),
           \A b \in Agents : In(b, Live) \/ In(b, {"admitted"})' => agent'[b].home = agent[b].home,
           \A b \in Agents : In(b, {"admitted"})' =>
               In(b, {"admitted"}) /\ agent'[b].lock = agent[b].lock,
           \A b \in Agents : In(b, {"asking"})' =>
               \/ agent'[b].lock = epoch[agent'[b].home]
               \/ In(b, {"asking"}) /\ agent'[b] = agent[b]
    PROVE  Counted'
<1>1. AllLive' = AllLive /\ \A s : Running(s)' = Running(s) /\ Holding(s)' \subseteq Holding(s)
  BY DEF AllLive, Running, Holding, Of, In
<1>2. \A s : Cardinality(Holding(s)') <= Cardinality(Holding(s))
  BY <1>1, Finite, FS_Subset
<1>3. MaxWorkers \in Nat
  BY SubAgentsAssumption
<1>4. CountersAgree'
  BY <1>1, CountedAs DEF Counted
<1>5. CapHolds'
  <2> SUFFICES ASSUME NEW s \in Sessions \ skewed
               PROVE  Cardinality(Holding(s)') <= MaxWorkers
    BY CountedAs
  <2>1. Cardinality(Holding(s)) <= MaxWorkers
    BY CountedAs DEF Counted
  <2> QED BY <1>2, <1>3, <2>1, Finite, FinitePrime
<1>6. LocksAgree'
  <2> SUFFICES ASSUME NEW s \in Sessions \ skewed
               PROVE  /\ \A a \in Of(s, {"asking", "admitted"})' : agent'[a].lock = epoch[s]
                      /\ \A a, b \in Of(s, {"admitted"})' : a = b
    BY DEF LocksAgree
  <2>1. Of(s, {"admitted"})' \subseteq Of(s, {"admitted"})
    BY DEF Of, In
  <2>2. /\ \A a \in Of(s, {"asking", "admitted"}) : agent[a].lock = epoch[s]
        /\ \A a, b \in Of(s, {"admitted"}) : a = b
    BY DEF Counted, LocksAgree
  <2>3. ASSUME NEW a \in Of(s, {"asking", "admitted"})' PROVE agent'[a].lock = epoch[s]
    <3>1. a \in Agents /\ agent'[a].home = s
      BY DEF Of
    <3>2. CASE In(a, {"admitted"})'
      BY <2>1, <2>2, <3>1, <3>2 DEF Of, In
    <3>3. CASE In(a, {"asking"})'
      BY <2>2, <3>1, <3>3 DEF Of, In
    <3> QED BY <3>2, <3>3 DEF Of, In
  <2> QED BY <2>1, <2>2, <2>3
<1> QED BY <1>4, <1>5, <1>6 DEF Counted

(* A call begins to wait for the lock of its session.                       *)
LEMMA AskingCounted ==
    ASSUME TypeOK, Counted, NEW s \in Sessions, NEW f \in Agents, In(f, {"none"}),
           agent' = [agent EXCEPT ![f] = Asking(s)],
           UNCHANGED <<running, total, epoch, skewed>>
    PROVE  Counted'
<1>1. /\ agent'[f].stage = "asking" /\ agent'[f].home = s /\ agent'[f].lock = epoch[s]
      /\ \A b \in Agents : b # f => agent'[b] = agent[b]
  BY DEF TypeOK, Asking, Agent
<1> QED BY <1>1, Keeps DEF In, Live

(* What To, Settle and Retry leave alone.                                   *)
LEMMA Moved ==
    ASSUME TypeOK, NEW a \in Agents
    PROVE  /\ \A st, e : To(a, st) \/ Settle(a, st, e) => agent'[a].stage = st
           /\ Retry(a) => agent'[a].stage = "building"
           /\ (\E st, e : To(a, st) \/ Settle(a, st, e) \/ Retry(a)) =>
                /\ agent'[a].home = agent[a].home
                /\ \A b \in Agents : b # a => agent'[b] = agent[b]
BY DEF To, Settle, Retry, Agent, TypeOK

LEMMA AdmitCounted ==
    ASSUME TypeOK, Counted, NEW a \in Agents, Admit(a)
    PROVE  Counted'
<1> DEFINE h == agent[a].home
<1>1. /\ h \in Sessions /\ In(a, {"asking"}) /\ LockFree(a) /\ running[h] < MaxWorkers
      /\ UNCHANGED <<running, total, epoch, skewed>>
      /\ agent' = [agent EXCEPT ![a] = Agent("admitted", h, agent[a].lock,
                                             agent[a].left, agent[a].result)]
  BY DEF Admit, Room, To, TypeOK, In, poolVars
<1>2. /\ agent'[a].stage = "admitted" /\ agent'[a].home = h /\ agent'[a].lock = agent[a].lock
      /\ \A b \in Agents : b # a => agent'[b] = agent[b]
  BY <1>1 DEF TypeOK, Agent
<1>3. AllLive' = AllLive /\ \A s : Running(s)' = Running(s)
  BY <1>1, <1>2 DEF AllLive, Running, Of, In, Live
<1>4. CountersAgree'
  BY <1>1, <1>3, CountedAs DEF Counted
<1>5. ASSUME NEW s \in Sessions \ skewed, s # h
      PROVE  /\ Holding(s)' = Holding(s)
             /\ Of(s, {"asking", "admitted"})' = Of(s, {"asking", "admitted"})
             /\ Of(s, {"admitted"})' = Of(s, {"admitted"})
             /\ \A b \in Of(s, {"asking", "admitted"}) : agent'[b] = agent[b]
  BY <1>1, <1>2, <1>5 DEF Holding, Of, In, Live
<1>6. ASSUME h \notin skewed PROVE Of(h, {"admitted"}) = {}
  <2>1. ASSUME NEW b \in Of(h, {"admitted"}) PROVE FALSE
    <3>1. agent[b].lock = epoch[h] /\ agent[a].lock = epoch[h]
      BY <1>1, <1>6, <2>1 DEF Counted, LocksAgree, Of, In
    <3> QED BY <1>1, <2>1, <3>1 DEF LockFree
  <2> QED BY <2>1
<1>7. CapHolds'
  <2> SUFFICES ASSUME NEW s \in Sessions \ skewed
               PROVE  Cardinality(Holding(s)') <= MaxWorkers
    BY <1>1, CountedAs
  <2>1. CASE s # h
    BY <1>5, <2>1, CountedAs DEF Counted
  <2>2. CASE s = h
    <3>1. Holding(s)' = Running(s) \cup {a} /\ a \notin Running(s)
      BY <1>1, <1>2, <1>6, <2>2 DEF Holding, Running, Of, In, Live
    <3>2. Cardinality(Holding(s)') = Cardinality(Running(s)) + 1
      BY <3>1, Finite, FS_AddElement
    <3>3. running[s] = Cardinality(Running(s))
      BY CountedAs DEF Counted
    <3> QED BY <1>1, <2>2, <3>2, <3>3, Finite, SubAgentsAssumption
  <2> QED BY <2>1, <2>2
<1>8. LocksAgree'
  <2> SUFFICES ASSUME NEW s \in Sessions \ skewed
               PROVE  /\ \A b \in Of(s, {"asking", "admitted"})' : agent'[b].lock = epoch[s]
                      /\ \A b, c \in Of(s, {"admitted"})' : b = c
    BY <1>1 DEF LocksAgree
  <2>1. CASE s # h
    BY <1>5, <2>1 DEF Counted, LocksAgree
  <2>2. CASE s = h
    <3>1. /\ Of(s, {"admitted"})' = {a}
          /\ Of(s, {"asking", "admitted"})' = Of(s, {"asking", "admitted"})
          /\ \A b \in Of(s, {"asking", "admitted"}) : agent'[b].lock = agent[b].lock
      BY <1>1, <1>2, <1>6, <2>2 DEF Of, In
    <3> QED BY <3>1 DEF Counted, LocksAgree
  <2> QED BY <2>1, <2>2
<1> QED BY <1>4, <1>7, <1>8 DEF Counted

LEMMA LaunchCounted ==
    ASSUME TypeOK, Counted, NEW a \in Agents, Launch(a)
    PROVE  Counted'
<1> DEFINE h == agent[a].home
<1>1. /\ h \in Sessions /\ In(a, {"admitted"})
      /\ running' = [running EXCEPT ![h] = @ + 1] /\ total' = total + 1
      /\ UNCHANGED <<epoch, skewed>>
      /\ agent' = [agent EXCEPT ![a] = Agent("starting", h, 0, agent[a].left, agent[a].result)]
  BY DEF Launch, TypeOK, In
<1>2. /\ agent'[a].stage = "starting" /\ agent'[a].home = h
      /\ \A b \in Agents : b # a => agent'[b] = agent[b]
  BY <1>1 DEF TypeOK, Agent
<1>3. /\ AllLive' = AllLive \cup {a} /\ a \notin AllLive
      /\ Running(h)' = Running(h) \cup {a} /\ a \notin Running(h)
      /\ \A s : s # h => Running(s)' = Running(s)
      /\ \A s : Holding(s)' = Holding(s)
  BY <1>1, <1>2 DEF AllLive, Running, Holding, Of, In, Live
<1>4. /\ Cardinality(AllLive') = Cardinality(AllLive) + 1
      /\ Cardinality(Running(h)') = Cardinality(Running(h)) + 1
  <2>1. Cardinality(AllLive') = Cardinality(AllLive) + 1
    BY <1>3, Finite, FS_AddElement
  <2>2. IsFiniteSet(Running(h)) /\ Cardinality(Running(h)) \in Nat
    BY Finite
  <2>3. Cardinality(Running(h)') = Cardinality(Running(h)) + 1
    BY <1>3, <2>2, FS_AddElement
  <2> QED BY <2>1, <2>3
<1>5. CountersAgree'
  <2>1. total' = Cardinality(AllLive')
    BY <1>1, <1>4, CountedAs DEF Counted
  <2>2. ASSUME NEW s \in Sessions \ skewed PROVE running'[s] = Cardinality(Running(s)')
    <3>1. running[s] = Cardinality(Running(s))
      BY CountedAs DEF Counted
    <3>2. CASE s # h
      BY <1>1, <1>3, <3>1, <3>2 DEF TypeOK
    <3>3. CASE s = h
      <4>1. running'[s] = running[s] + 1
        BY <1>1, <3>3 DEF TypeOK
      <4> QED BY <1>2, <1>4, <3>1, <3>3, <4>1
    <3> QED BY <3>2, <3>3
  <2> QED BY <1>1, <2>1, <2>2, CountedAs
<1>6. CapHolds'
  BY <1>1, <1>3, CountedAs DEF Counted
<1>7. LocksAgree'
  <2>1. \A s \in Sessions : /\ Of(s, {"asking", "admitted"})' \subseteq Of(s, {"asking", "admitted"})
                            /\ Of(s, {"admitted"})' \subseteq Of(s, {"admitted"})
                            /\ \A b \in Of(s, {"asking", "admitted"})' : agent'[b] = agent[b]
    BY <1>2 DEF Of, In
  <2> QED BY <1>1, <2>1 DEF Counted, LocksAgree
<1> QED BY <1>5, <1>6, <1>7 DEF Counted

(* The task of a ends: the done callback has run, and a is not live.        *)
LEMMA DropCounted ==
    ASSUME TypeOK, Counted, NEW a \in Agents, In(a, Live), Drop(a), UNCHANGED skewed,
           In(a, {"done"})', agent'[a].home = agent[a].home,
           \A b \in Agents : b # a => agent'[b] = agent[b]
    PROVE  Counted'
<1> DEFINE h == agent[a].home
<1>1. /\ h \in Sessions
      /\ running' = [running EXCEPT ![h] = IF @ <= 1 THEN 0 ELSE @ - 1]
      /\ total' = IF total > 0 THEN total - 1 ELSE 0
      /\ UNCHANGED <<epoch, skewed>>
  BY DEF Drop, TypeOK, In, Live
<1>2. /\ AllLive' = AllLive \ {a} /\ a \in AllLive
      /\ Running(h)' = Running(h) \ {a} /\ a \in Running(h)
      /\ \A s : s # h => Running(s)' = Running(s)
      /\ \A s : Holding(s)' \subseteq Holding(s)
  BY DEF AllLive, Running, Holding, Of, In, Live
<1>3. /\ Cardinality(AllLive') = Cardinality(AllLive) - 1
      /\ Cardinality(Running(h)') = Cardinality(Running(h)) - 1
  <2>1. Cardinality(AllLive \ {a}) = Cardinality(AllLive) - 1
    BY <1>2, Finite, FS_RemoveElement
  <2>2. Cardinality(Running(h) \ {a}) = Cardinality(Running(h)) - 1
    BY <1>2, Finite, FS_RemoveElement
  <2> QED BY <1>2, <2>1, <2>2
<1>4. \A s : Cardinality(Holding(s)') <= Cardinality(Holding(s))
  BY <1>2, Finite, FS_Subset
<1>5. CountersAgree'
  <2>1. total' = Cardinality(AllLive')
    BY <1>1, <1>3, CountedAs, Finite, FinitePrime DEF Counted
  <2>2. ASSUME NEW s \in Sessions \ skewed PROVE running'[s] = Cardinality(Running(s)')
    <3>1. running[s] = Cardinality(Running(s))
      BY CountedAs DEF Counted
    <3>2. CASE s # h
      BY <1>1, <1>2, <3>1, <3>2 DEF TypeOK
    <3>3. CASE s = h
      <4>1. running'[s] = IF running[s] <= 1 THEN 0 ELSE running[s] - 1
        BY <1>1, <3>3 DEF TypeOK
      <4> QED BY <1>3, <3>1, <3>3, <4>1, Finite, FinitePrime
    <3> QED BY <3>2, <3>3
  <2> QED BY <1>1, <2>1, <2>2, CountedAs
<1>6. CapHolds'
  <2> SUFFICES ASSUME NEW s \in Sessions \ skewed
               PROVE  Cardinality(Holding(s)') <= MaxWorkers
    BY <1>1, CountedAs
  <2>1. Cardinality(Holding(s)) <= MaxWorkers
    BY CountedAs DEF Counted
  <2> QED BY <1>4, <2>1, Finite, FinitePrime, SubAgentsAssumption
<1>7. LocksAgree'
  <2>1. \A s \in Sessions : /\ Of(s, {"asking", "admitted"})' \subseteq Of(s, {"asking", "admitted"})
                            /\ Of(s, {"admitted"})' \subseteq Of(s, {"admitted"})
                            /\ \A b \in Of(s, {"asking", "admitted"})' : agent'[b] = agent[b]
    BY DEF Of, In
  <2> QED BY <1>1, <2>1 DEF Counted, LocksAgree
<1> QED BY <1>5, <1>6, <1>7 DEF Counted

(* cleanup_session forgets the counter and the lock of a session.           *)
LEMMA ForgetCounted ==
    ASSUME TypeOK, Counted, NEW s \in Sessions, Forget(s)
    PROVE  Counted'
<1>1. AllLive' = AllLive /\ \A z : Running(z)' = Running(z) /\ Holding(z)' = Holding(z)
                              /\ \A st : Of(z, st)' = Of(z, st)
  BY DEF Forget, AllLive, Running, Holding, Of, In
<1>2. /\ UNCHANGED <<agent, total>> /\ skewed \subseteq skewed'
      /\ \A z \in Sessions : z # s => running'[z] = running[z] /\ epoch'[z] = epoch[z]
      /\ running'[s] = 0
  BY DEF Forget, TypeOK
<1>3. ASSUME s \notin skewed'
      PROVE  /\ Running(s) = {} /\ Cardinality(Running(s)) = 0
             /\ Of(s, {"asking", "admitted"}) = {} /\ Of(s, {"admitted"}) = {}
  <2>1. Of(s, Live \cup {"asking", "admitted"}) = {}
    BY <1>3 DEF Forget
  <2>2. /\ Running(s) = {} /\ Of(s, {"asking", "admitted"}) = {} /\ Of(s, {"admitted"}) = {}
    BY <2>1 DEF Running, Of, In
  <2> QED BY <2>2, FS_EmptySet
<1>4. CountersAgree'
  <2>1. total' = Cardinality(AllLive')
    BY <1>1, <1>2, CountedAs DEF Counted
  <2>2. ASSUME NEW z \in Sessions \ skewed' PROVE running'[z] = Cardinality(Running(z)')
    <3>1. CASE z = s
      BY <1>1, <1>2, <1>3, <2>2, <3>1
    <3>2. CASE z # s
      BY <1>1, <1>2, <2>2, <3>2, CountedAs DEF Counted
    <3> QED BY <3>1, <3>2
  <2> QED BY <2>1, <2>2, CountedAs
<1>5. CapHolds'
  BY <1>1, <1>2, CountedAs DEF Counted
<1>6. LocksAgree'
  <2> SUFFICES ASSUME NEW z \in Sessions \ skewed'
               PROVE  /\ \A b \in Of(z, {"asking", "admitted"})' : agent'[b].lock = epoch'[z]
                      /\ \A b, c \in Of(z, {"admitted"})' : b = c
    BY DEF LocksAgree
  <2>1. CASE z = s
    BY <1>1, <1>3, <2>1
  <2>2. CASE z # s
    BY <1>1, <1>2, <2>2 DEF Counted, LocksAgree
  <2> QED BY <2>1, <2>2
<1> QED BY <1>4, <1>5, <1>6 DEF Counted

LEMMA CountedStep == TypeOK /\ Counted /\ [Next]_vars => Counted'
<1> SUFFICES ASSUME TypeOK, Counted, [Next]_vars PROVE Counted'
  OBVIOUS
<1> USE DEF poolVars
<1>1. ASSUME NEW s \in Sessions,
             CheckNotifications(s) \/ InjectNotifications(s) \/ Cleanup(s)
      PROVE  Counted'
  <2>1. UNCHANGED <<agent, running, total, epoch, skewed>>
    BY <1>1 DEF CheckNotifications, InjectNotifications, Read, Cleanup
  <2> QED BY <2>1, Keeps DEF In
<1>2. ASSUME NEW s \in Sessions, Ask(s) PROVE Counted'
  <2>1. Fresh \in Agents /\ In(Fresh, {"none"})
    BY <1>2, FreshAgent DEF Ask
  <2>2. /\ agent' = [agent EXCEPT ![Fresh] = Asking(s)]
        /\ UNCHANGED <<running, total, epoch, skewed>>
    BY <1>2 DEF Ask
  <2> QED BY <2>1, <2>2, AskingCounted
<1>3. ASSUME NEW s \in Sessions, CleanupDone(s) \/ CleanupAtOnce(s) PROVE Counted'
  BY <1>3, ForgetCounted DEF CleanupDone, CleanupAtOnce
<1>4. ASSUME NEW a \in Agents, Refuse(a) \/ Unwind(a) PROVE Counted'
  <2>1. /\ agent' = [agent EXCEPT ![a] = NoAgent] /\ ~In(a, Live)
        /\ UNCHANGED <<running, total, epoch, skewed>>
    BY <1>4 DEF Refuse, Unwind, Forgo, In, Live
  <2>2. agent'[a].stage = "none" /\ \A b \in Agents : b # a => agent'[b] = agent[b]
    BY <2>1 DEF TypeOK, NoAgent, Agent
  <2> QED BY <2>1, <2>2, Keeps DEF In, Live
<1>5. ASSUME NEW a \in Agents,
             CancelFromClient(a) \/ Cancel(a) \/ Reassign(a) \/ CancelAgain(a)
             \/ CancelDone(a) \/ Unlist(a)
      PROVE  Counted'
  <2>1. UNCHANGED <<agent, running, total, epoch, skewed>>
    BY <1>5 DEF CancelFromClient, Cancel, Reassign, CancelAgain, CancelDone, Unlist
  <2> QED BY <2>1, Keeps DEF In
<1>6. ASSUME NEW a \in Agents, ReassignDone(a) PROVE Counted'
  <2>1. UNCHANGED <<running, total, epoch, skewed>>
    BY <1>6 DEF ReassignDone
  <2>2. CASE \E b \in Agents : In(b, {"none"})
    <3>1. Fresh \in Agents /\ In(Fresh, {"none"})
      BY <2>2, FreshAgent
    <3>2. /\ agent[a].home \in Sessions
          /\ agent' = [agent EXCEPT ![Fresh] = Asking(agent[a].home)]
      BY <1>6, <2>2 DEF ReassignDone, TypeOK, In
    <3> QED BY <2>1, <3>1, <3>2, AskingCounted
  <2>3. CASE ~\E b \in Agents : In(b, {"none"})
    <3>1. UNCHANGED agent
      BY <1>6, <2>3 DEF ReassignDone
    <3> QED BY <2>1, <3>1, Keeps DEF In
  <2> QED BY <2>2, <2>3
<1>7. ASSUME NEW a \in Agents, NEW st \in Live, In(a, Live), agent'[a].stage = st,
             agent'[a].home = agent[a].home, \A b \in Agents : b # a => agent'[b] = agent[b],
             UNCHANGED <<running, total, epoch, skewed>>
      PROVE  Counted'
  BY <1>7, Keeps DEF In, Live
<1>8. ASSUME NEW a \in Agents, Begin(a) \/ Work(a) PROVE Counted'
  <2>1. PICK st \in {"building", "working"} : To(a, st)
    BY <1>8 DEF Begin, Work
  <2>2. In(a, Live) /\ UNCHANGED <<running, total, epoch, skewed>>
    BY <1>8 DEF Begin, Work, In, Live
  <2> QED BY <1>7, <2>1, <2>2, Moved DEF Live
<1>9. ASSUME NEW a \in Agents, Crash(a) PROVE Counted'
  <2>1. In(a, Live) /\ UNCHANGED <<running, total, epoch, skewed>>
    BY <1>9 DEF Crash, In, Live
  <2>2. Retry(a) \/ Settle(a, "closing", "failed")
    BY <1>9 DEF Crash
  <2> QED BY <1>7, <2>1, <2>2, Moved DEF Live
<1>10. ASSUME NEW a \in Agents, NEW end \in {"completed", "failed"}, Finish(a, end)
       PROVE  Counted'
  <2>1. In(a, Live) /\ UNCHANGED <<running, total, epoch, skewed>>
    BY <1>10 DEF Finish, In, Live
  <2>2. Retry(a) \/ Settle(a, "closing", end)
    BY <1>10 DEF Finish
  <2> QED BY <1>7, <2>1, <2>2, Moved DEF Live
<1>11. ASSUME NEW a \in Agents, In(a, Live), Drop(a), UNCHANGED skewed,
              To(a, "done") \/ Settle(a, "done", "cancelled")
       PROVE  Counted'
  <2>1. /\ In(a, {"done"})' /\ agent'[a].home = agent[a].home
        /\ \A b \in Agents : b # a => agent'[b] = agent[b]
    BY <1>11, Moved DEF In
  <2> QED BY <1>11, <2>1, DropCounted
<1>12. ASSUME NEW a \in Agents, End(a) PROVE Counted'
  BY <1>11, <1>12 DEF End, In, Live
<1>13. ASSUME NEW a \in Agents, Interrupt(a) PROVE Counted'
  <2>1. UNCHANGED skewed
    BY <1>13 DEF Interrupt
  <2>2. CASE StopStarting(a)
    BY <1>11, <2>1, <2>2 DEF StopStarting, In, Live
  <2>3. CASE StopBuilding(a)
    BY <1>7, <2>1, <2>3, Moved DEF StopBuilding, In, Live
  <2>4. CASE StopWorking(a)
    BY <1>7, <2>1, <2>4, Moved DEF StopWorking, In, Live
  <2>5. CASE Swallow(a)
    BY <2>1, <2>5, Keeps DEF Swallow, In
  <2>6. CASE StopClosing(a)
    BY <1>11, <2>1, <2>6 DEF StopClosing, In, Live
  <2> QED BY <1>13, <2>2, <2>3, <2>4, <2>5, <2>6 DEF Interrupt
<1>14. CASE UNCHANGED vars
  BY <1>14, Keeps DEF vars, In
<1> QED
  BY <1>1, <1>2, <1>3, <1>4, <1>5, <1>6, <1>8, <1>9, <1>10, <1>12, <1>13, <1>14,
     AdmitCounted, LaunchCounted DEF Next, SessionStep, CallStep, AgentStep
-----------------------------------------------------------------------------
LEMMA Inductive == Spec => [](TypeOK /\ EpochBound /\ Counted)
<1>1. Init => TypeOK /\ EpochBound /\ Counted
  <2> SUFFICES ASSUME Init PROVE TypeOK /\ EpochBound /\ Counted
    OBVIOUS
  <2>1. /\ \A a \in Agents : agent[a] = NoAgent
        /\ NoAgent.stage = "none" /\ NoAgent.result = "none" /\ NoAgent \in AgentType
    BY SubAgentsAssumption DEF Init, NoAgent, Agent, AgentType
  <2>2. TypeOK /\ EpochBound
    BY <2>1, SubAgentsAssumption DEF Init, TypeOK, EpochBound, In, Ended
  <2>3. AllLive = {} /\ \A s : Running(s) = {} /\ Holding(s) = {} /\ \A st \in
            {{"asking", "admitted"}, {"admitted"}} : Of(s, st) = {}
    BY <2>1 DEF AllLive, Running, Holding, Of, In, Live
  <2>4. Cardinality(AllLive) = 0 /\ \A s : Cardinality(Running(s)) = 0 /\ Cardinality(Holding(s)) = 0
    BY <2>3, FS_EmptySet
  <2>5. CountersAgree /\ CapHolds
    BY <2>4, CountedAs, SubAgentsAssumption DEF Init
  <2>6. LocksAgree
    BY <2>3 DEF LocksAgree
  <2> QED BY <2>2, <2>5, <2>6 DEF Counted
<1> QED BY <1>1, TypeStep, CountedStep, PTL DEF Spec

(* Every field of every record keeps its type; an agent has its result      *)
(* exactly when its run is over, and nothing is listed that was not         *)
(* launched.                                                                *)
THEOREM TypesCorrect == Spec => []TypeOK
BY Inductive, PTL

(* Whatever ends the task of an agent gives its slot back exactly once.     *)
THEOREM CountersExact == Spec => []CountersAgree
<1>1. Counted => CountersAgree
  BY DEF Counted
<1> QED BY <1>1, Inductive, PTL

(* The lock of a session, held over the await between the check of the caps *)
(* and the count of the launch, keeps a session within max_workers.         *)
THEOREM CapIsKept == Spec => []CapHolds
<1>1. Counted => CapHolds
  BY DEF Counted
<1> QED BY <1>1, Inductive, PTL

(* A result that was once set is never set again.                           *)
THEOREM ResultsAreFinal == Spec => ResultIsFinal
<1>1. TypeOK /\ [Next]_vars =>
          [\A a \in Agents : Ended(a) => Ended(a)' /\ agent'[a].result = agent[a].result]_vars
  <2> SUFFICES ASSUME TypeOK, Next, NEW a \in Agents, Ended(a)
               PROVE  Ended(a)' /\ agent'[a].result = agent[a].result
    OBVIOUS
  <2>1. ASSUME NEW b \in Agents, b # a, NEW r, agent' = [agent EXCEPT ![b] = r]
        PROVE  Ended(a)' /\ agent'[a].result = agent[a].result
    BY <2>1 DEF TypeOK, Ended, In
  <2>2. CASE UNCHANGED agent
    BY <2>2 DEF Ended, In
  <2>3. ASSUME To(a, "done")
        PROVE  Ended(a)' /\ agent'[a].result = agent[a].result
    BY <2>3 DEF To, TypeOK, Agent, Ended, In
  <2>4. ASSUME NEW s \in Sessions, SessionStep(s)
        PROVE  Ended(a)' /\ agent'[a].result = agent[a].result
    <3>1. CASE Ask(s)
      BY <2>1, <3>1, FreshAgent DEF Ask, Ended, In
    <3>2. CASE ~Ask(s)
      BY <2>2, <2>4, <3>2
         DEF SessionStep, CheckNotifications, InjectNotifications, Read, Cleanup,
             CleanupDone, CleanupAtOnce, Forget
    <3> QED BY <3>1, <3>2
  <2>5. ASSUME NEW b \in Agents, CallStep(b)
        PROVE  Ended(a)' /\ agent'[a].result = agent[a].result
    <3>1. CASE Admit(b) \/ Refuse(b) \/ Unwind(b) \/ Launch(b)
      <4>1. In(b, {"asking", "admitted"}) /\ b # a
        BY <3>1 DEF Admit, Refuse, Unwind, Launch, In, Ended
      <4> QED BY <2>1, <3>1, <4>1 DEF Admit, Refuse, Unwind, Forgo, Launch, To
    <3>2. CASE ReassignDone(b)
      BY <2>1, <2>2, <3>2, FreshAgent DEF ReassignDone, Ended, In
    <3>3. CASE CancelFromClient(b) \/ Cancel(b) \/ Reassign(b) \/ CancelAgain(b)
               \/ CancelDone(b) \/ Unlist(b)
      BY <2>2, <3>3
         DEF CancelFromClient, Cancel, Reassign, CancelAgain, CancelDone, Unlist
    <3> QED BY <2>5, <3>1, <3>2, <3>3 DEF CallStep
  <2>6. ASSUME NEW b \in Agents, AgentStep(b)
        PROVE  Ended(a)' /\ agent'[a].result = agent[a].result
    <3>1. ASSUME In(b, {"starting", "building", "working"}),
                 \E st, e : To(b, st) \/ Settle(b, st, e) \/ Retry(b)
          PROVE  Ended(a)' /\ agent'[a].result = agent[a].result
      <4>1. b # a
        BY <3>1 DEF In, Ended
      <4>2. agent'[a] = agent[a]
        BY <3>1, <4>1, Moved
      <4> QED BY <4>2 DEF Ended, In
    <3>2. CASE Begin(b) \/ Work(b)
      BY <3>1, <3>2 DEF Begin, Work, In
    <3>3. CASE Crash(b)
      BY <3>1, <3>3 DEF Crash, In
    <3>4. ASSUME NEW end, Finish(b, end)
          PROVE  Ended(a)' /\ agent'[a].result = agent[a].result
      BY <3>1, <3>4 DEF Finish, In
    <3>5. CASE End(b)
      BY <2>1, <2>3, <3>5 DEF End, To
    <3>6. CASE Interrupt(b)
      <4>1. CASE StopStarting(b) \/ StopBuilding(b) \/ StopWorking(b)
        BY <3>1, <4>1 DEF StopStarting, StopBuilding, StopWorking, In
      <4>2. CASE Swallow(b)
        BY <2>2, <4>2 DEF Swallow
      <4>3. CASE StopClosing(b)
        BY <2>1, <2>3, <4>3 DEF StopClosing, To
      <4> QED BY <3>6, <4>1, <4>2, <4>3 DEF Interrupt
    <3> QED BY <2>6, <3>2, <3>3, <3>4, <3>5, <3>6 DEF AgentStep
  <2> QED BY <2>4, <2>5, <2>6 DEF Next
<1> QED BY <1>1, Inductive, PTL DEF Spec, ResultIsFinal
=============================================================================
