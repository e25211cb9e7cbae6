------------------------------ MODULE McpPool ------------------------------
(***************************************************************************)
(* The connections to one MCP server: the pool of the daemon, which counts *)
(* the apps that use it and has a monitor (core/mcp_pool.py), the pool of  *)
(* each deployed mcp module (modules/mcp/module.py), and the methods that  *)
(* both kinds of pool are made of (modules/mcp/connections.py).  A pool    *)
(* has a lock of its own.  A module that acquires the server lists the     *)
(* very entry that the daemon lists, so that two locks guard one entry.    *)
(*                                                                         *)
(*   entry    the MCPServerEntry objects: status, and the transport        *)
(*   link     the transports: "open", "broken" when the server's end is    *)
(*            gone and nobody has noticed, "closed"                        *)
(*   listed   _servers of each pool: the entry of the server, or none      *)
(*   tracked, refs  there is a _ServerRef; its app_ids                     *)
(*   module   stage of a module, its app, and whether the server is one of *)
(*            its _daemon_server_ids                                       *)
(*   task     the calls in progress, and the monitor: what they run, up to *)
(*            which await, for which module, with which entry and which    *)
(*            transport, and in place of which other one if that is still  *)
(*            open; again: on a second attempt, or after a ping            *)
(*   up       the server can be reached; outages so far                    *)
(*   begun    operations begun so far                                      *)
(*   severed  history: modules whose sharing was undone by somebody        *)
(*   shared   history: entries that a module has got from the daemon       *)
(***************************************************************************)
EXTENDS Naturals, FiniteSets

CONSTANTS Apps, Modules, Callers,
          Entries, Links,     \* identities of entries and transports, reused
          MaxOutages, MaxOps  \* bounds of the model: outages, operations begun

Daemon == "daemon"
Monitor == "monitor"
None == 0
Pools == Modules \cup {Daemon}
Tasks == Callers \cup {Monitor}

ASSUME McpAssumption ==
    /\ Daemon \notin Modules /\ Monitor \notin Callers
    /\ None \notin Entries /\ None \notin Links
    /\ MaxOutages \in Nat /\ MaxOps \in Nat

VARIABLES entry, link, listed, tracked, refs, module, task,
          up, outages, begun, severed, shared

serverVars == <<up, outages>>
refVars == <<tracked, refs>>
history == <<severed, shared>>
vars == <<entry, link, listed, refVars, module, task, serverVars, begun, history>>

Task(op, pc, m, e, t, again) ==
    [op |-> op, pc |-> pc, mod |-> m, entry |-> e, link |-> t, old |-> None, again |-> again]
Idle == Task("none", "idle", Daemon, None, None, FALSE)
Absent == [stage |-> "absent", app |-> None, attached |-> FALSE]

Init ==
    /\ entry = [e \in Entries |-> [status |-> "disconnected", link |-> None]]
    /\ link = [t \in Links |-> "closed"]
    /\ listed = [p \in Pools |-> None]
    /\ tracked = FALSE /\ refs = {}
    /\ module = [m \in Modules |-> Absent]
    /\ task = [k \in Tasks |-> Idle]
    /\ up = TRUE /\ outages = 0 /\ begun = 0 /\ severed = {} /\ shared = {}
-----------------------------------------------------------------------------
(* A call runs under the lock of one pool: the daemon's when it acquires,   *)
(* for an administrator and for the monitor, or that of its module.         *)
ModuleOps == {"call", "reconnect", "private", "connect", "disconnect", "stop"}
PoolOf(k) == IF task[k].op \in ModuleOps THEN task[k].mod ELSE Daemon

Inside == {"reopen", "refresh", "replace", "open", "drop"}
At(k, pc) == task[k].pc = pc
LockFree_Ignored(p) == TRUE
LockFree(p) == \A k \in Tasks : task[k].pc \in Inside => PoolOf(k) # p

Go(k, pc, e, t) ==
    task' = [task EXCEPT ![k] = Task(@.op, pc, @.mod, e, t, @.again)]
Wait(k, pc) == Go(k, pc, None, None)
Done(k) == task' = [task EXCEPT ![k] = Idle]

Open(t) == t \in Links /\ link[t] = "open"
Connected(t) == t \in Links /\ link[t] # "closed"    \* transport.connected
Ready(e) == e # None /\ entry[e].status = "connected" /\ Connected(entry[e].link)

Close(t) == link' = [u \in Links |-> IF u = t THEN "closed" ELSE link[u]]
Status(e, st) == entry' = [entry EXCEPT ![e].status = st]

UsedEntries == {listed[p] : p \in Pools} \cup {task[k].entry : k \in Tasks}
UsedLinks ==
    {entry[e].link : e \in Entries \cap UsedEntries} \cup UNION {{task[k].link, task[k].old} : k \in Tasks}
First(S) == CHOOSE x \in S : TRUE
FreeEntries == Entries \ UsedEntries
FreeLinks == {t \in Links : link[t] = "closed"} \ UsedLinks
NewEntry == First(FreeEntries)
NewLink == First(FreeLinks)

(* The modules that share the entry of the daemon.                          *)
Attached == {m \in Modules : module[m].attached}
Acquiring == {m \in Modules : module[m].stage = "deploying"}
Attach(m, e) ==
    /\ listed' = [listed EXCEPT ![m] = e]
    /\ module' = [module EXCEPT ![m].stage = "running", ![m].attached = TRUE]
    /\ shared' = shared \cup {e}
    /\ UNCHANGED severed
-----------------------------------------------------------------------------
(* DaemonMCPPool.acquire, called by _try_daemon_pool.  An entry whose       *)
(* status is "connected" is handed out as it is; otherwise the pool         *)
(* reconnects it, and connects when that fails.                             *)
Acquire_LateApp(k) ==
    LET m == task[k].mod  e == listed[Daemon] IN
    /\ At(k, "acquire")
    /\ IF tracked /\ e # None /\ entry[e].status = "connected"
       THEN Attach(m, e) /\ Done(k) /\ UNCHANGED refs
       ELSE /\ Wait(k, IF tracked THEN "reconnect" ELSE "connect")
            /\ refs' = IF tracked THEN refs \cup {module[m].app} ELSE refs
            /\ UNCHANGED <<listed, module, history>>
    /\ UNCHANGED <<entry, link, tracked, serverVars, begun>>

Acquire(k) ==
    LET m == task[k].mod  e == listed[Daemon] IN
    /\ At(k, "acquire")
    /\ refs' = IF tracked THEN refs \cup {module[m].app} ELSE refs
    /\ IF tracked /\ e # None /\ entry[e].status = "connected"
       THEN Attach(m, e) /\ Done(k)
       ELSE /\ Wait(k, IF tracked THEN "reconnect" ELSE "connect")
            /\ UNCHANGED <<listed, module, history>>
    /\ UNCHANGED <<entry, link, tracked, serverVars, begun>>
-----------------------------------------------------------------------------
(* MCPConnectionPool.reconnect.  Under the lock the transport of the entry  *)
(* is closed; whoever calls goes on as FailReconnect when it fails.         *)
FailReconnect(k) ==
    IF task[k].op = "acquire" THEN Wait(k, "connect") ELSE Done(k)

(* What the SDK raises for a dead stream is no MCPTransportError, and goes  *)
(* past whoever expects one: a deployment goes on without the server, or    *)
(* with the pool of the module after its second attempt; the loop of the    *)
(* monitor ends, except after a ping, where it catches everything.          *)
Escapes(k) ==
    LET op == task[k].op  m == task[k].mod IN
    /\ task' = [task EXCEPT ![k] =
                  CASE op = "acquire" /\ @.again -> Task("private", "connect", m, None, None, FALSE)
                    [] op = "ping" /\ ~@.again -> Task(op, "dead", m, None, None, FALSE)
                    [] OTHER -> Idle]
    /\ module' = IF op = "private" \/ (op = "acquire" /\ ~task[k].again)
                 THEN [module EXCEPT ![m].stage = "running"] ELSE module

Unlisted(k) ==
    /\ At(k, "reconnect") /\ LockFree(PoolOf(k)) /\ listed[PoolOf(k)] = None
    /\ FailReconnect(k)
    /\ UNCHANGED <<entry, link, listed, refVars, module, serverVars, begun, history>>

Reconnect(k) ==
    LET e == listed[PoolOf(k)] IN
    /\ At(k, "reconnect") /\ LockFree(PoolOf(k)) /\ e # None
    /\ Close(entry[e].link)
    /\ Go(k, "reopen", e, None)
    /\ UNCHANGED <<entry, listed, refVars, module, serverVars, begun, history>>

(* An attempt connects: the entry gets the new transport before its tools   *)
(* are listed.  Without a look at the transport that it has by now.         *)
Reopen(k) ==
    LET e == task[k].entry  was == entry[e].link  t == NewLink IN
    /\ At(k, "reopen") /\ up /\ FreeLinks # {}
    /\ link' = [link EXCEPT ![t] = "open"]
    /\ entry' = [entry EXCEPT ![e].link = t]
    /\ task' = [task EXCEPT ![k] =
                  [@ EXCEPT !.pc = "refresh", !.link = t,
                            !.old = IF Connected(was) THEN was ELSE None]]
    /\ UNCHANGED <<listed, refVars, module, serverVars, begun, history>>

GiveUp(k) ==
    /\ At(k, "reopen") /\ ~up
    /\ Status(task[k].entry, "error")
    /\ FailReconnect(k)
    /\ UNCHANGED <<link, listed, refVars, module, serverVars, begun, history>>

(* The tools are listed, or that has failed with a transport error, which   *)
(* is only logged.  A call sends again, to the transport that its entry has *)
(* by now.                                                                  *)
Refresh(k) ==
    LET e == task[k].entry  m == task[k].mod IN
    /\ At(k, "refresh")
    /\ Status(e, "connected")
    /\ IF task[k].op = "acquire" THEN Attach(m, e) ELSE UNCHANGED <<listed, module, history>>
    /\ IF task[k].op = "call" /\ listed[m] = e /\ Connected(entry[e].link)
       THEN Go(k, "answer", e, entry[e].link) ELSE Done(k)
    /\ UNCHANGED <<link, refVars, serverVars, begun>>

(* It has failed with another exception: the entry gets back the transport  *)
(* that it had before, and keeps its status.                                *)
RefreshRaises(k) ==
    /\ At(k, "refresh") /\ ~Open(task[k].link)
    /\ entry' = [entry EXCEPT ![task[k].entry].link = task[k].old]
    /\ Close(task[k].link)
    /\ Escapes(k)
    /\ UNCHANGED <<listed, refVars, serverVars, begun, history>>
-----------------------------------------------------------------------------
(* Both connect and disconnect pop the entry first and close its transport. *)
Pop_LeavesOpen(k, pc) ==
    LET p == PoolOf(k)  e == listed[p] IN
    /\ listed' = [listed EXCEPT ![p] = None]
    /\ Go(k, pc, e, None)
    /\ severed' = severed \cup IF p = Daemon THEN Attached ELSE {p}
    /\ UNCHANGED <<entry, link, refVars, module, serverVars, begun, shared>>

Pop(k, pc) ==
    LET p == PoolOf(k)  e == listed[p] IN
    /\ listed' = [listed EXCEPT ![p] = None]
    /\ Close(entry[e].link)
    /\ Go(k, pc, e, None)
    /\ severed' = severed \cup IF p = Daemon THEN Attached ELSE {p}
    /\ UNCHANGED <<entry, refVars, module, serverVars, begun, shared>>

(* MCPConnectionPool.connect.                                               *)
Replace(k) ==
    /\ At(k, "connect") /\ LockFree(PoolOf(k)) /\ listed[PoolOf(k)] # None
    /\ Pop(k, "replace")

Replaced(k) ==
    /\ At(k, "replace")
    /\ Status(task[k].entry, "disconnected") /\ Wait(k, "open")
    /\ UNCHANGED <<link, listed, refVars, module, serverVars, begun, history>>

Connect(k) ==
    /\ At(k, "connect") /\ LockFree(PoolOf(k)) /\ listed[PoolOf(k)] = None
    /\ Wait(k, "open")
    /\ UNCHANGED <<entry, link, listed, refVars, module, serverVars, begun, history>>

(* Connected: the entry is listed, and the caller goes on in the same step: *)
(* acquire makes sure that there is a reference with its app, and           *)
(* connect_server that there is one.  _handle_mcp_config_updated does not.  *)
Opened(k) ==
    LET m == task[k].mod  op == task[k].op  e == NewEntry  t == NewLink IN
    /\ At(k, "open") /\ up /\ FreeEntries # {} /\ FreeLinks # {}
    /\ link' = [link EXCEPT ![t] = "open"]
    /\ entry' = [entry EXCEPT ![e] = [status |-> "connected", link |-> t]]
    /\ listed' = [p \in Pools |->
                    IF p = PoolOf(k) \/ (op = "acquire" /\ p = m) THEN e ELSE listed[p]]
    /\ module' = CASE op = "acquire" ->
                        [module EXCEPT ![m].stage = "running", ![m].attached = TRUE]
                   [] op = "private" -> [module EXCEPT ![m].stage = "running"]
                   [] OTHER -> module
    /\ tracked' = (tracked \/ op \in {"acquire", "admin_connect"})
    /\ refs' = IF op = "acquire" THEN refs \cup {module[m].app} ELSE refs
    /\ shared' = IF op = "acquire" THEN shared \cup {e} ELSE shared \ {e}
    /\ Done(k)
    /\ UNCHANGED <<serverVars, begun, severed>>

(* Not connected: the entry is listed as an error.  _try_daemon_pool looks  *)
(* the server up in the database and tries again, and leaves the server to  *)
(* the pool of the module when that fails too.                              *)
NotOpened(k) ==
    LET m == task[k].mod  op == task[k].op  e == NewEntry IN
    /\ At(k, "open") /\ ~up /\ FreeEntries # {}
    /\ entry' = [entry EXCEPT ![e] = [status |-> "error", link |-> None]]
    /\ listed' = [listed EXCEPT ![PoolOf(k)] = e]
    /\ module' = IF op = "private" THEN [module EXCEPT ![m].stage = "running"] ELSE module
    /\ task' = [task EXCEPT ![k] =
                  CASE op = "acquire" /\ ~@.again -> Task(op, "acquire", m, None, None, TRUE)
                    [] op = "acquire" /\ @.again -> Task("private", "connect", m, None, None, FALSE)
                    [] OTHER -> Idle]
    /\ shared' = shared \ {e}
    /\ UNCHANGED <<link, refVars, serverVars, begun, severed>>

(* Connected, but the server is gone before its tools are listed: there is  *)
(* no entry, and the transport is forgotten.                                *)
OpenRaises(k) ==
    /\ At(k, "open") /\ ~up
    /\ Escapes(k)
    /\ UNCHANGED <<entry, link, listed, refVars, serverVars, begun, history>>
-----------------------------------------------------------------------------
(* MCPConnectionPool.disconnect, and what its callers do next:              *)
(* disconnect_server drops the reference, with whoever is in it;            *)
(* _handle_mcp_config_updated connects again; on_stop ends.                 *)
AfterDisconnect(k) ==
    LET op == task[k].op  m == task[k].mod IN
    /\ IF op = "update" THEN Wait(k, "connect") ELSE Done(k)
    /\ IF op = "admin_disconnect"
       THEN /\ tracked' = FALSE /\ refs' = {}
            /\ severed' = severed \cup Attached \cup Acquiring
       ELSE UNCHANGED <<refVars, severed>>
    /\ module' = IF op = "stop" THEN [module EXCEPT ![m] = Absent] ELSE module

Drop(k) ==
    /\ At(k, "disconnect") /\ LockFree(PoolOf(k)) /\ listed[PoolOf(k)] # None
    /\ Pop(k, "drop")

Dropped(k) ==
    /\ At(k, "drop")
    /\ Status(task[k].entry, "disconnected")
    /\ AfterDisconnect(k)
    /\ UNCHANGED <<link, listed, serverVars, begun, shared>>

NothingToDrop(k) ==
    /\ At(k, "disconnect") /\ LockFree(PoolOf(k)) /\ listed[PoolOf(k)] = None
    /\ AfterDisconnect(k)
    /\ UNCHANGED <<entry, link, listed, serverVars, begun, shared>>

(* on_stop waits ten seconds for the lock of its pool.                      *)
StopGivesUp(k) ==
    LET m == task[k].mod IN
    /\ At(k, "disconnect") /\ task[k].op = "stop" /\ ~LockFree(m)
    /\ listed' = [listed EXCEPT ![m] = None]
    /\ module' = [module EXCEPT ![m] = Absent]
    /\ Done(k)
    /\ UNCHANGED <<entry, link, refVars, serverVars, begun, history>>
-----------------------------------------------------------------------------
(* An answer comes, or it is an error or the time is over.  A call may then *)
(* reconnect the entry of its module, once; unless the error is not         *)
(* retryable, or no transport error.                                        *)
Heard(k) == Open(task[k].link) /\ up
Retry(m) == Task("call", "reconnect", m, None, None, TRUE)

Answered(k) ==
    /\ At(k, "answer") /\ k # Monitor /\ Heard(k)
    /\ Done(k)
    /\ UNCHANGED <<entry, link, listed, refVars, module, serverVars, begun, history>>

Failed(k) ==
    /\ At(k, "answer") /\ k # Monitor /\ ~Heard(k)
    /\ \/ Done(k)
       \/ ~task[k].again /\ task' = [task EXCEPT ![k] = Retry(@.mod)]
    /\ UNCHANGED <<entry, link, listed, refVars, module, serverVars, begun, history>>

(* The turn that makes the call is aborted.                                 *)
Cancel(k) ==
    /\ task[k].op = "call"
    /\ Done(k)
    /\ UNCHANGED <<entry, link, listed, refVars, module, serverVars, begun, history>>

(* _health_loop: an entry whose status is not "connected" is reconnected,   *)
(* another one pinged, which fails at once when its transport is closed.    *)
(* The answer is written to the entry that was pinged, whatever has become  *)
(* of it.                                                                   *)
Tick_ConnectedOnly ==
    LET e == listed[Daemon] IN
    /\ At(Monitor, "idle") /\ tracked /\ Ready(e)
    /\ task' = [task EXCEPT ![Monitor] = Task("ping", "answer", Daemon, e, entry[e].link, TRUE)]
    /\ UNCHANGED <<entry, link, listed, refVars, module, serverVars, begun, history>>

Tick ==
    LET e == listed[Daemon] IN
    /\ At(Monitor, "idle") /\ tracked /\ e # None
    /\ task' = [task EXCEPT ![Monitor] =
                  IF Ready(e) THEN Task("ping", "answer", Daemon, e, entry[e].link, TRUE)
                              ELSE Task("ping", "reconnect", Daemon, None, None,
                                        entry[e].status = "connected")]
    /\ UNCHANGED <<entry, link, listed, refVars, module, serverVars, begun, history>>

Pong ==
    /\ At(Monitor, "answer")
    /\ Status(task[Monitor].entry, IF Heard(Monitor) THEN "connected" ELSE "error")
    /\ IF Heard(Monitor) THEN Done(Monitor) ELSE Wait(Monitor, "reconnect")
    /\ UNCHANGED <<link, listed, refVars, module, serverVars, begun, history>>

(* The ping of a dead transport ends in an exception that ping does not     *)
(* catch: the status stays "connected", and the loop logs it and goes on.   *)
PingRaises ==
    /\ At(Monitor, "answer") /\ ~Open(task[Monitor].link)
    /\ Done(Monitor)
    /\ UNCHANGED <<entry, link, listed, refVars, module, serverVars, begun, history>>
-----------------------------------------------------------------------------
(* What may begin.  A deployment of an app may be a second one: the module  *)
(* of the first is stopped when that of the second is up.                   *)
FreeCallers == {k \in Callers : At(k, "idle")}
FreeModules ==
    {m \in Modules : module[m].stage = "absent" /\ \A k \in Tasks : task[k].mod # m}
KnownApps == refs \cup {module[m].app : m \in Modules}

Begins(k) ==
    /\ k \in FreeCallers /\ k = First(FreeCallers)
    /\ begun < MaxOps /\ begun' = begun + 1

Begin(k, op, pc, m) ==
    /\ Begins(k)
    /\ task' = [task EXCEPT ![k] = Task(op, pc, m, None, None, FALSE)]

Deploy(k, m, a) ==
    /\ m \in FreeModules /\ m = First(FreeModules)
    /\ a \notin KnownApps => a = First(Apps \ KnownApps)
    /\ Begins(k)
    /\ task' = [task EXCEPT ![k] =
                  Task("acquire", "acquire", m, None, None, listed[Daemon] = None)]
    /\ module' = [module EXCEPT ![m] = [stage |-> "deploying", app |-> a, attached |-> FALSE]]
    /\ listed' = [listed EXCEPT ![m] = None]
    /\ severed' = severed \ {m}
    /\ UNCHANGED <<entry, link, refVars, serverVars, shared>>

(* call_tool through _raw_mcp_call_with_reconnect.                          *)
Call(k, m) ==
    LET e == listed[m] IN
    /\ module[m].stage = "running" /\ e # None
    /\ Begins(k)
    /\ task' = [task EXCEPT ![k] =
                  IF Ready(e) THEN Task("call", "answer", m, e, entry[e].link, FALSE)
                              ELSE Retry(m)]
    /\ UNCHANGED <<entry, link, listed, refVars, module, serverVars, history>>

(* The actions of the module that a model may call: reconnect, connect,     *)
(* disconnect; and what an administrator may ask of the daemon.             *)
ModuleAction(k, m) ==
    /\ module[m].stage = "running"
    /\ \/ Begin(k, "reconnect", "reconnect", m)
       \/ Begin(k, "connect", "connect", m)
       \/ Begin(k, "disconnect", "disconnect", m)
    /\ UNCHANGED <<entry, link, listed, refVars, module, serverVars, history>>

Administer(k) ==
    /\ \/ Begin(k, "admin_connect", "connect", Daemon)
       \/ Begin(k, "admin_disconnect", "disconnect", Daemon)
       \/ listed[Daemon] # None /\ Begin(k, "update", "disconnect", Daemon)
    /\ UNCHANGED <<entry, link, listed, refVars, module, serverVars, history>>

(* on_stop of a module that acquired the server: release, by the id of its  *)
(* app, and the entry is taken off its list without the lock.               *)
Release(m) ==
    /\ module[m].stage = "running" /\ module[m].attached
    /\ begun < MaxOps /\ begun' = begun + 1
    /\ refs' = refs \ {module[m].app}
    /\ listed' = [listed EXCEPT ![m] = None]
    /\ module' = [module EXCEPT ![m] = Absent]
    /\ severed' = severed \cup {n \in (Attached \cup Acquiring) \ {m} :
                                    module[n].app = module[m].app}
    /\ UNCHANGED <<entry, link, tracked, task, serverVars, shared>>

(* on_stop of a module with a connection of its own.                        *)
Stop(k, m) ==
    /\ module[m].stage = "running" /\ ~module[m].attached
    /\ Begin(k, "stop", "disconnect", m)
    /\ module' = [module EXCEPT ![m].stage = "stopping"]
    /\ UNCHANGED <<entry, link, listed, refVars, serverVars, history>>

(* The server: outages, and the transports that break in them.              *)
GoDown ==
    /\ up /\ outages < MaxOutages
    /\ up' = FALSE /\ outages' = outages + 1
    /\ UNCHANGED <<entry, link, listed, refVars, module, task, begun, history>>

Break(t) ==
    /\ ~up /\ Open(t)
    /\ link' = [link EXCEPT ![t] = "broken"]
    /\ UNCHANGED <<entry, listed, refVars, module, task, serverVars, begun, history>>

ComeBack ==
    /\ ~up /\ up' = TRUE
    /\ UNCHANGED <<entry, link, listed, refVars, module, task, outages, begun, history>>
-----------------------------------------------------------------------------
Step(k) ==
    \/ Acquire(k)
    \/ Unlisted(k) \/ Reconnect(k) \/ Reopen(k) \/ GiveUp(k) \/ Refresh(k) \/ RefreshRaises(k)
    \/ Replace(k) \/ Replaced(k) \/ Connect(k) \/ Opened(k) \/ NotOpened(k) \/ OpenRaises(k)
    \/ Drop(k) \/ Dropped(k) \/ NothingToDrop(k)
    \/ Answered(k) \/ Failed(k)

Next ==
    \/ \E k \in Tasks : Step(k)
    \/ Tick \/ Pong \/ PingRaises
    \/ \E k \in Callers :
         \/ Cancel(k) \/ StopGivesUp(k) \/ Administer(k)
         \/ \E m \in Modules : Call(k, m) \/ ModuleAction(k, m) \/ Stop(k, m)
         \/ \E m \in Modules, a \in Apps : Deploy(k, m, a)
    \/ \E m \in Modules : Release(m)
    \/ GoDown \/ ComeBack \/ \E t \in Links : Break(t)

Spec == Init /\ [][Next]_vars

(* Every task goes on, the monitor keeps its period, outages end.           *)
FairSpec ==
    /\ Spec
    /\ \A k \in Callers : WF_vars(Step(k))
    /\ WF_vars(Step(Monitor) \/ Tick \/ Pong \/ PingRaises) /\ WF_vars(ComeBack)
-----------------------------------------------------------------------------
EntryType == [status : {"connected", "error", "disconnected"}, link : Links \cup {None}]
ModuleType ==
    [stage : {"absent", "deploying", "running", "stopping"},
     app : Apps \cup {None}, attached : BOOLEAN]
TaskType ==
    [op : {"none", "acquire", "call", "reconnect", "private", "connect", "disconnect",
           "stop", "admin_connect", "admin_disconnect", "update", "ping"},
     pc : Inside \cup {"idle", "acquire", "reconnect", "connect", "disconnect", "answer", "dead"},
     mod : Pools, entry : Entries \cup {None}, link : Links \cup {None},
     old : Links \cup {None}, again : BOOLEAN]

Types ==
    /\ entry \in [Entries -> EntryType] /\ link \in [Links -> {"open", "broken", "closed"}]
    /\ listed \in [Pools -> Entries \cup {None}]
    /\ tracked \in BOOLEAN /\ refs \in SUBSET Apps
    /\ module \in [Modules -> ModuleType] /\ task \in [Tasks -> TaskType]
    /\ up \in BOOLEAN /\ outages \in 0..MaxOutages /\ begun \in 0..MaxOps
    /\ severed \in SUBSET Modules /\ shared \in SUBSET Entries

OneInside ==
    \A j, k \in Tasks :
        task[j].pc \in Inside /\ task[k].pc \in Inside /\ PoolOf(j) = PoolOf(k) => j = k

(* Types; and a pool does one thing at a time, as its lock is for.          *)
TypeOK == Types /\ OneInside

(* "Ref-counting: tracks which apps use which servers" (mcp_pool.py:7),     *)
(* "apps share the same transport connection" (line 11): a module that has  *)
(* acquired the server lists the entry of the daemon, and its app is in the *)
(* reference, until one of these is undone: the entry of either of them is  *)
(* popped, the reference is dropped, or a module of the same app is stopped.*)
SharersAreTracked ==
    \A m \in Attached \ severed :
        /\ listed[m] # None /\ listed[m] = listed[Daemon]
        /\ tracked /\ module[m].app \in refs

(* A transport is kept while a pool of the daemon or of a deployed module   *)
(* lists its entry, or a reconnect is at it.  One that is open and not kept *)
(* is a process or a socket that nobody will close.                         *)
Alive(p) == p \in Modules => module[p].stage # "absent"
Holds(p, t) == Alive(p) /\ listed[p] # None /\ entry[listed[p]].link = t
Kept(t) ==
    \/ \E p \in Pools : Holds(p, t)
    \/ \E k \in Tasks : At(k, "refresh") /\ task[k].link = t
Lost == {t \in Links : Open(t) /\ ~Kept(t)}

(* Two pools reconnect an entry that they share (or shared when the call    *)
(* began), and one attempt writes over the transport of the other: with a   *)
(* new one, or with the one that it found.                                  *)
Overwritten(t) ==
    \E k \in Tasks :
        /\ \/ At(k, "reopen") /\ task'[k].pc = "refresh"
           \/ At(k, "refresh") /\ entry'[task[k].entry].link # t
        /\ task[k].entry \in shared /\ entry[task[k].entry].link = t

(* No other step than that one takes an open transport from a pool of the   *)
(* daemon, or of a module that stays deployed, and leaves it to nobody:     *)
(* neither a replacement nor a disconnect, nor an attempt that fails or     *)
(* ends late.  (What is lost besides belongs to a module that is stopped    *)
(* with an entry that the daemon has turned away from, or while an attempt  *)
(* is at it.)                                                               *)
LosesOnlyAbandoned ==
    [][ \A t \in Lost' \ Lost :
          Overwritten(t) \/ \A p \in Pools : Holds(p, t) => ~Alive(p)' ]_vars

(* The monitor: when the calls and the outages are over, a server to which  *)
(* there is a reference is connected, whatever was written to its entry by  *)
(* calls that crossed.  But for what an exception that is no transport      *)
(* error may do, since ping, reconnect and connect let it pass: each ping   *)
(* of a dead transport ends in one, and its entry looks connected for ever; *)
(* the loop of the monitor ends; or a connect leaves no entry to look at.   *)
Usable(e) == e # None /\ entry[e].status = "connected" /\ Open(entry[e].link)
Heals ==
    \/ <>[](tracked => Usable(listed[Daemon]))
    \/ []<><<PingRaises>>_vars /\ <>[]Ready(listed[Daemon])
    \/ <>[]At(Monitor, "dead")
    \/ <>[](listed[Daemon] = None)
=============================================================================
