--------------------------- MODULE McpPoolProofs ---------------------------
(***************************************************************************)
(* Theorems about McpPool for every set of apps, modules and callers.      *)
(***************************************************************************)
EXTENDS McpPool, TLAPS

Entering == {"acquire", "private"}
Reopening == {"reopen", "refresh"}
Vacating == {"replace", "open", "drop"}

(* PoolOf, of a task that is given by its record.                           *)
Pool(r) ==
    IF r.op \in {"call", "reconnect", "private", "connect", "disconnect", "stop"}
    THEN r.mod ELSE Daemon

(* What a task relies on: the module that it deploys or stops is there; the *)
(* daemon lists the entry that is being reconnected; who acquires has been  *)
(* counted; nothing is listed while an entry is replaced.                   *)
Fits(r, lst, mdl, svr, trk, rfs) ==
    /\ r.pc \in Reopening \cup {"replace", "drop"} => r.entry \in Entries
    /\ r.op \in Entering => r.mod \in Modules /\ mdl[r.mod].stage = "deploying"
    /\ r.op = "stop" => r.mod \in Modules /\ mdl[r.mod].stage \in {"stopping", "absent"}
    /\ r.pc \in Reopening /\ Pool(r) = Daemon => r.entry = lst[Daemon]
    /\ r.op = "acquire" /\ r.pc \in Reopening \cup {"reconnect"} =>
          r.mod \in svr \/ (trk /\ mdl[r.mod].app \in rfs)
    /\ r.pc \in Vacating => lst[Pool(r)] = None
    /\ r.pc = "answer" => r.op \in {"call", "ping"}
    /\ r.pc = "acquire" => r.op = "acquire"

FitsNow(r) == Fits(r, listed, module, severed, tracked, refs)
FitsNext(r) == Fits(r, listed', module', severed', tracked', refs')

(* Two tasks: not both under one lock, and a module that is deployed is     *)
(* left alone.                                                              *)
Apart(q, r) ==
    /\ ~(q.pc \in Inside /\ r.pc \in Inside /\ Pool(q) = Pool(r))
    /\ q.op \in Entering \/ r.op \in Entering => q.mod # r.mod

TasksFit == \A k \in Tasks : FitsNow(task[k])
TasksApart == \A j, k \in Tasks : j # k => Apart(task[j], task[k])
AppsKnown == \A m \in Modules : module[m].stage # "absent" => module[m].app \in Apps

IInv == Types /\ AppsKnown /\ TasksFit /\ TasksApart /\ SharersAreTracked

(* Types without the tasks.                                                 *)
Things ==
    /\ entry \in [Entries -> EntryType] /\ link \in [Links -> {"open", "broken", "closed"}]
    /\ listed \in [Pools -> Entries \cup {None}]
    /\ tracked \in BOOLEAN /\ refs \in SUBSET Apps
    /\ module \in [Modules -> ModuleType]
    /\ up \in BOOLEAN /\ outages \in 0..MaxOutages /\ begun \in 0..MaxOps
    /\ severed \in SUBSET Modules /\ shared \in SUBSET Entries

TasksPart == task \in [Tasks -> TaskType] /\ TasksFit /\ TasksApart

LEMMA PoolOfTask == \A k \in Tasks : PoolOf(k) = Pool(task[k])
BY DEF PoolOf, Pool, ModuleOps

LEMMA PoolsAre ==
    ASSUME NEW r \in TaskType
    PROVE  Pool(r) \in Pools
BY DEF Pool, TaskType, Pools

LEMMA FirstIsMember ==
    ASSUME NEW S, S # {}
    PROVE  First(S) \in S
BY DEF First

LEMMA NewOnes ==
    /\ FreeEntries # {} => NewEntry \in Entries /\ NewEntry \notin UsedEntries
    /\ FreeLinks # {} => NewLink \in Links
BY FirstIsMember DEF NewEntry, NewLink, FreeEntries, FreeLinks

(* One task gets the record r.                                              *)
LEMMA OneTask ==
    ASSUME IInv, NEW k \in Tasks, NEW r \in TaskType, task' = [task EXCEPT ![k] = r],
           FitsNext(r), \A j \in Tasks : j # k => FitsNext(task[j]) /\ Apart(task[j], r)
    PROVE  TasksPart'
<1>1. /\ task' \in [Tasks -> TaskType]
      /\ task'[k] = r
      /\ \A j \in Tasks : j # k => task'[j] = task[j]
  BY DEF IInv, Types
<1>2. \A j \in Tasks : FitsNext(task'[j])
  BY <1>1
<1>3. TasksFit'
  BY <1>2 DEF TasksFit, FitsNow, FitsNext
<1>4. TasksApart'
  <2> SUFFICES ASSUME NEW i \in Tasks, NEW j \in Tasks, i # j
               PROVE  Apart(task'[i], task'[j])
    BY DEF TasksApart, Apart, Pool
  <2>1. CASE i = k
    <3>1. Apart(task[j], r)
      BY <2>1
    <3> QED BY <1>1, <2>1, <3>1 DEF Apart
  <2>2. CASE j = k
    BY <1>1, <2>2
  <2>3. CASE i # k /\ j # k
    BY <1>1, <2>3 DEF IInv, TasksApart
  <2> QED BY <2>1, <2>2, <2>3
<1> QED BY <1>1, <1>3, <1>4 DEF TasksPart

(* The record moves on, with its operation and module, and goes under the   *)
(* lock only if it is free or the task is there already.                    *)
LEMMA StaysApart ==
    ASSUME IInv, NEW k \in Tasks, NEW r \in TaskType,
           \/ r.op = task[k].op
           \/ r.op = "private" /\ task[k].op = "acquire"
           \/ r.op \notin Entering,
           r.mod = task[k].mod,
           r.pc \in Inside => /\ r.op = task[k].op
                              /\ task[k].pc \in Inside \/ LockFree(PoolOf(k))
    PROVE  \A j \in Tasks : j # k => Apart(task[j], r)
<1> SUFFICES ASSUME NEW j \in Tasks, j # k PROVE Apart(task[j], r)
  OBVIOUS
<1>1. Apart(task[j], task[k])
  BY DEF IInv, TasksApart
<1>2. r.pc \in Inside => Pool(r) = Pool(task[k])
  BY DEF Pool
<1>3. task[j].pc \in Inside /\ LockFree(PoolOf(k)) => Pool(task[j]) # Pool(task[k])
  BY PoolOfTask DEF LockFree
<1> QED BY <1>1, <1>2, <1>3 DEF Apart, Entering

(* A task that is idle, or runs on a module that nobody deploys, and is not *)
(* under a lock.                                                            *)
LEMMA BeginsApart ==
    ASSUME IInv, NEW k \in Tasks, NEW r \in TaskType,
           r.op \notin Entering, r.pc \notin Inside,
           r.mod \in Modules => module[r.mod].stage # "deploying"
    PROVE  \A j \in Tasks : j # k => Apart(task[j], r)
BY DEF IInv, TasksFit, FitsNow, Fits, Apart, Entering

LEMMA IdleFits ==
    /\ Idle \in TaskType
    /\ FitsNow(Idle) /\ FitsNext(Idle)
    /\ IInv => \A k \in Tasks : \A j \in Tasks : j # k => Apart(task[j], Idle)
<1>1. Idle \in TaskType
  BY DEF Idle, Task, TaskType, Pools
<1>2. FitsNow(Idle) /\ FitsNext(Idle)
  BY DEF FitsNow, FitsNext, Fits, Idle, Task, Entering, Reopening, Vacating
<1>3. Idle.op \notin Entering /\ Idle.pc \notin Inside /\ Idle.mod \notin Modules
  BY McpAssumption DEF Idle, Task, Entering, Inside
<1> QED BY <1>1, <1>2, <1>3, BeginsApart

(* Nothing that the invariant speaks of changes, but one task.              *)
LEMMA TaskOnly ==
    ASSUME IInv, NEW k \in Tasks, NEW r \in TaskType, task' = [task EXCEPT ![k] = r],
           FitsNow(r), \A j \in Tasks : j # k => Apart(task[j], r),
           UNCHANGED <<listed, refVars, module, severed>>, Things'
    PROVE  IInv'
<1>1. FitsNext(r) /\ \A j \in Tasks : FitsNext(task[j])
  BY DEF IInv, TasksFit, FitsNow, FitsNext, refVars
<1>2. TasksPart'
  BY <1>1, OneTask
<1>3. AppsKnown' /\ SharersAreTracked'
  BY DEF IInv, AppsKnown, SharersAreTracked, Attached, refVars
<1> QED BY <1>2, <1>3 DEF IInv, Types, Things, TasksPart

(* Facts about the task that every step starts from.                        *)
LEMMA TheTask ==
    ASSUME IInv, NEW k \in Tasks
    PROVE  /\ task[k] \in TaskType /\ FitsNow(task[k])
           /\ Pool(task[k]) \in Pools /\ PoolOf(k) = Pool(task[k])
           /\ listed[Pool(task[k])] \in Entries \cup {None}
           /\ Things /\ task \in [Tasks -> TaskType]
<1>1. task[k] \in TaskType /\ FitsNow(task[k])
  BY DEF IInv, Types, TasksFit
<1>2. Pool(task[k]) \in Pools
  BY <1>1, PoolsAre
<1> QED BY <1>1, <1>2, PoolOfTask DEF IInv, Types, Things

LEMMA Finishing ==
    ASSUME IInv, NEW k \in Tasks, Done(k), Things',
           UNCHANGED <<listed, refVars, module, severed>>
    PROVE  IInv'
BY IdleFits, TaskOnly DEF Done

(* A step to a place outside of the lock, or to one where it needs no entry.*)
LEMMA Going ==
    ASSUME IInv, NEW k \in Tasks, Things',
           NEW pc \in Inside \cup {"idle", "acquire", "reconnect", "connect", "disconnect", "answer"},
           NEW e \in Entries \cup {None}, NEW t \in Links \cup {None},
           Go(k, pc, e, t),
           UNCHANGED <<listed, refVars, module, severed>>,
           pc \in Inside => task[k].pc \in Inside \/ LockFree(PoolOf(k)),
           FitsNow(Task(task[k].op, pc, task[k].mod, e, t, task[k].again))
    PROVE  IInv'
<1> DEFINE r == Task(task[k].op, pc, task[k].mod, e, t, task[k].again)
<1>1. r \in TaskType /\ r.op = task[k].op /\ r.mod = task[k].mod /\ r.pc = pc
  BY TheTask DEF Task, TaskType
<1>2. task' = [task EXCEPT ![k] = r]
  BY TheTask DEF Go, Task
<1>3. \A j \in Tasks : j # k => Apart(task[j], r)
  BY <1>1, StaysApart
<1> HIDE DEF r
<1> QED BY <1>1, <1>2, <1>3, TaskOnly DEF r

-----------------------------------------------------------------------------
(* The steps that leave lists, references and modules alone.                *)
Alone == UNCHANGED <<listed, refVars, module, severed>>

LEMMA UnlistedStep == ASSUME IInv, NEW k \in Tasks, Unlisted(k) PROVE IInv'
<1>1. Things' /\ Alone
  BY TheTask DEF Unlisted, Things, Alone, refVars, serverVars, history
<1>2. CASE task[k].op = "acquire"
  <2>1. Go(k, "connect", None, None)
    BY <1>2 DEF Unlisted, FailReconnect, Wait
  <2>2. FitsNow(Task(task[k].op, "connect", task[k].mod, None, None, task[k].again))
    BY TheTask DEF FitsNow, Fits, Task, Pool, Entering, Reopening, Vacating
  <2> QED BY <1>1, <2>1, <2>2, Going DEF Inside, Alone
<1>3. CASE task[k].op # "acquire"
  BY <1>1, <1>3, Finishing DEF Unlisted, FailReconnect, Alone
<1> QED BY <1>2, <1>3

LEMMA ReconnectStep == ASSUME IInv, NEW k \in Tasks, Reconnect(k) PROVE IInv'
<1> DEFINE e == listed[PoolOf(k)]
<1>1. Things' /\ Alone
  BY TheTask DEF Reconnect, Close, Things, Alone, refVars, serverVars, history
<1>2. e \in Entries
  BY TheTask DEF Reconnect
<1>3. FitsNow(Task(task[k].op, "reopen", task[k].mod, e, None, task[k].again))
  BY <1>2, TheTask DEF Reconnect, At, FitsNow, Fits, Task, Pool, Entering, Reopening, Vacating
<1> QED BY <1>1, <1>2, <1>3, Going DEF Reconnect, Inside, Alone

LEMMA ReopenStep == ASSUME IInv, NEW k \in Tasks, Reopen(k) PROVE IInv'
<1> DEFINE e == task[k].entry  was == entry[e].link
           old == IF Connected(was) THEN was ELSE None
           r == [task[k] EXCEPT !.pc = "refresh", !.link = NewLink, !.old = old]
<1>1. /\ NewLink \in Links /\ e \in Entries /\ task[k].pc = "reopen"
      /\ task[k] \in TaskType /\ FitsNow(task[k])
  BY NewOnes, TheTask DEF Reopen, At, FitsNow, Fits, Reopening
<1>2. Things' /\ Alone
  BY <1>1, TheTask DEF Reopen, Things, Alone, EntryType, refVars, serverVars, history
<1>3. old \in Links \cup {None}
  BY DEF Connected
<1>4. task' = [task EXCEPT ![k] = r]
  BY TheTask DEF Reopen
<1> HIDE DEF old
<1>5. /\ r \in TaskType /\ r.op = task[k].op /\ r.mod = task[k].mod /\ r.entry = e
      /\ r.pc = "refresh"
  BY <1>1, <1>3 DEF TaskType, Inside
<1> HIDE DEF r
<1>6. Pool(r) = Pool(task[k])
  BY <1>5 DEF Pool
<1>7. FitsNow(r)
  BY <1>1, <1>5, <1>6 DEF FitsNow, Fits, Reopening, Vacating
<1>8. \A j \in Tasks : j # k => Apart(task[j], r)
  BY <1>1, <1>5, StaysApart DEF Inside
<1> QED BY <1>2, <1>4, <1>5, <1>7, <1>8, TaskOnly DEF Alone

LEMMA GiveUpStep == ASSUME IInv, NEW k \in Tasks, GiveUp(k) PROVE IInv'
<1>a. /\ entry \in [Entries -> EntryType]
      /\ entry' = [entry EXCEPT ![task[k].entry].status = "error"]
  BY TheTask DEF GiveUp, Status, Things
<1>b. entry' \in [Entries -> EntryType]
  BY <1>a DEF EntryType
<1>1. Things' /\ Alone
  BY <1>b, TheTask DEF GiveUp, Things, Alone, refVars, serverVars, history
<1>2. CASE task[k].op = "acquire"
  <2>1. Go(k, "connect", None, None)
    BY <1>2 DEF GiveUp, FailReconnect, Wait
  <2>2. FitsNow(Task(task[k].op, "connect", task[k].mod, None, None, task[k].again))
    BY TheTask DEF FitsNow, Fits, Task, Pool, Entering, Reopening, Vacating
  <2> QED BY <1>1, <2>1, <2>2, Going DEF Inside, Alone
<1>3. CASE task[k].op # "acquire"
  BY <1>1, <1>3, Finishing DEF GiveUp, FailReconnect, Alone
<1> QED BY <1>2, <1>3

LEMMA ReplacedStep == ASSUME IInv, NEW k \in Tasks, Replaced(k) PROVE IInv'
<1>1. Things' /\ Alone
  BY TheTask DEF Replaced, Status, Things, Alone, EntryType, refVars, serverVars, history
<1>2. FitsNow(Task(task[k].op, "open", task[k].mod, None, None, task[k].again))
  BY TheTask DEF Replaced, At, FitsNow, Fits, Task, Pool, Entering, Reopening, Vacating
<1> QED BY <1>1, <1>2, Going DEF Replaced, Wait, At, Inside, Alone

LEMMA ConnectStep == ASSUME IInv, NEW k \in Tasks, Connect(k) PROVE IInv'
<1>1. Things' /\ Alone
  BY TheTask DEF Connect, Things, Alone, refVars, serverVars, history
<1>2. FitsNow(Task(task[k].op, "open", task[k].mod, None, None, task[k].again))
  BY TheTask DEF Connect, At, FitsNow, Fits, Task, Pool, Entering, Reopening, Vacating
<1> QED BY <1>1, <1>2, Going DEF Connect, Wait, Inside, Alone

LEMMA AnsweredStep == ASSUME IInv, NEW k \in Tasks, Answered(k) PROVE IInv'
<1>1. Things' /\ Alone
  BY TheTask DEF Answered, Things, Alone, refVars, serverVars, history
<1> QED BY <1>1, Finishing DEF Answered, Alone

LEMMA CancelStep == ASSUME IInv, NEW k \in Tasks, Cancel(k) PROVE IInv'
<1>1. Things' /\ Alone
  BY TheTask DEF Cancel, Things, Alone, refVars, serverVars, history
<1> QED BY <1>1, Finishing DEF Cancel, Alone

(* A call or an operation that does not deploy or stop begins.              *)
LEMMA Beginning ==
    ASSUME IInv, NEW k \in Tasks, NEW r \in TaskType, task' = [task EXCEPT ![k] = r],
           Things', Alone,
           r.op \notin Entering \cup {"stop"}, r.pc \notin Inside,
           r.pc = "answer" => r.op \in {"call", "ping"}, r.pc # "acquire",
           r.mod \in Modules => module[r.mod].stage # "deploying"
    PROVE  IInv'
<1>1. FitsNow(r)
  BY DEF FitsNow, Fits, Entering, Reopening, Vacating, Inside
<1>2. \A j \in Tasks : j # k => Apart(task[j], r)
  BY BeginsApart
<1> QED BY <1>1, <1>2, TaskOnly DEF Alone

(* A call that failed reconnects the entry of its module.                   *)
LEMMA FailedStep == ASSUME IInv, NEW k \in Tasks, Failed(k) PROVE IInv'
<1> DEFINE r == Retry(task[k].mod)
<1>1. Things' /\ Alone
  BY TheTask DEF Failed, Things, Alone, refVars, serverVars, history
<1>2. CASE Done(k)
  BY <1>1, <1>2, Finishing DEF Alone
<1>3. CASE task' = [task EXCEPT ![k] = r]
  <2>1. /\ r \in TaskType /\ r.mod = task[k].mod
        /\ r.op \notin Entering /\ r.pc \notin Inside
    BY TheTask DEF Retry, Task, TaskType, Entering, Inside
  <2>2. FitsNow(r)
    BY DEF FitsNow, Fits, Retry, Task, Entering, Reopening, Vacating
  <2>3. \A j \in Tasks : j # k => Apart(task[j], r)
    BY <2>1, StaysApart
  <2> QED BY <1>1, <1>3, <2>1, <2>2, <2>3, TaskOnly DEF Alone
<1>4. task' = [task EXCEPT ![k] = Retry(@.mod)] => task' = [task EXCEPT ![k] = r]
  BY TheTask
<1> QED BY <1>2, <1>3, <1>4 DEF Failed

LEMMA TickStep == ASSUME IInv, Tick PROVE IInv'
<1> DEFINE e == listed[Daemon]
           c == entry[e].status = "connected"
           p == Task("ping", "answer", Daemon, e, entry[e].link, TRUE)
           q == Task("ping", "reconnect", Daemon, None, None, c)
<1>1. Things' /\ Alone /\ Monitor \in Tasks /\ Daemon \in Pools /\ Daemon \notin Modules
  BY McpAssumption DEF IInv, Types, Tick, Things, Alone, refVars, serverVars, history, Tasks, Pools
<1>2. e \in Entries /\ entry[e] \in EntryType
  BY <1>1 DEF Tick, IInv, Types
<1>a. entry[e].link \in Links \cup {None}
  BY <1>2 DEF EntryType
<1>b. p \in TaskType /\ p.op = "ping" /\ p.pc = "answer" /\ p.mod = Daemon
  BY <1>1, <1>2, <1>a DEF Task, TaskType
<1>c. q \in TaskType /\ q.op = "ping" /\ q.pc = "reconnect" /\ q.mod = Daemon
  <2>1. c \in BOOLEAN
    OBVIOUS
  <2> HIDE DEF c
  <2> QED BY <1>1, <2>1 DEF Task, TaskType
<1>4. PICK r \in {p, q} : task' = [task EXCEPT ![Monitor] = r]
  BY DEF Tick
<1> HIDE DEF p, q
<1>5. /\ r \in TaskType /\ r.op = "ping" /\ r.op \notin Entering \cup {"stop"}
      /\ r.pc \notin Inside /\ r.pc # "acquire" /\ r.mod \notin Modules
  BY <1>1, <1>b, <1>c DEF Entering, Inside
<1> QED BY <1>1, <1>4, <1>5, Beginning

LEMMA PongStep == ASSUME IInv, Pong PROVE IInv'
<1>1. Monitor \in Tasks
  BY DEF Tasks
<1>2. Things' /\ Alone
  <2>1. UNCHANGED <<link, listed, tracked, refs, module, up, outages, begun, severed, shared>>
    BY DEF Pong, refVars, serverVars, history
  <2>2. entry' \in [Entries -> EntryType]
    <3>1. task[Monitor].entry \in Entries
            => entry[task[Monitor].entry] \in EntryType
      BY DEF IInv, Types
    <3> QED BY <3>1 DEF IInv, Types, Pong, Status, EntryType
  <2> QED BY <2>1, <2>2 DEF IInv, Types, Things, Alone, refVars
<1>3. CASE Done(Monitor)
  BY <1>1, <1>2, <1>3, Finishing DEF Alone
<1>4. CASE Go(Monitor, "reconnect", None, None)
  <2>2. FitsNow(Task(task[Monitor].op, "reconnect", task[Monitor].mod, None, None, task[Monitor].again))
    BY <1>1, TheTask DEF Pong, At, FitsNow, Fits, Task, Pool, Entering, Reopening, Vacating
  <2> QED BY <1>1, <1>2, <1>4, <2>2, Going DEF Inside, Alone
<1> QED BY <1>3, <1>4 DEF Pong, Wait

LEMMA PingRaisesStep == ASSUME IInv, PingRaises PROVE IInv'
<1>1. Things' /\ Alone /\ Monitor \in Tasks
  BY DEF PingRaises, IInv, Types, Things, Alone, refVars, serverVars, history, Tasks
<1> QED BY <1>1, Finishing DEF PingRaises, Alone

LEMMA CallStep == ASSUME IInv, NEW k \in Callers, NEW m \in Modules, Call(k, m) PROVE IInv'
<1> DEFINE e == listed[m]
           p == Task("call", "answer", m, e, entry[e].link, FALSE)
           q == Retry(m)
<1>1. Things' /\ Alone /\ k \in Tasks /\ m \in Pools
  BY McpAssumption DEF IInv, Types, Call, Begins, Things, Alone, refVars, serverVars, history, Tasks, Pools
<1>2. e \in Entries /\ entry[e] \in EntryType
  BY <1>1 DEF Call, IInv, Types
<1>a. entry[e].link \in Links \cup {None}
  BY <1>2 DEF EntryType
<1>b. p \in TaskType /\ p.op = "call" /\ p.pc = "answer" /\ p.mod = m
  BY <1>1, <1>2, <1>a DEF Task, TaskType
<1>c. q \in TaskType /\ q.op = "call" /\ q.pc = "reconnect" /\ q.mod = m
  BY <1>1 DEF Retry, Task, TaskType
<1>4. PICK r \in {p, q} : task' = [task EXCEPT ![k] = r]
  BY DEF Call
<1> HIDE DEF p, q
<1>5. /\ r \in TaskType /\ r.op = "call" /\ r.op \notin Entering \cup {"stop"}
      /\ r.pc \notin Inside /\ r.pc # "acquire" /\ module[r.mod].stage # "deploying"
  BY <1>b, <1>c DEF Entering, Inside, Call
<1> QED BY <1>1, <1>4, <1>5, Beginning

LEMMA ModuleActionStep ==
    ASSUME IInv, NEW k \in Callers, NEW m \in Modules, ModuleAction(k, m) PROVE IInv'
<1>a. begun \in 0..MaxOps /\ begun < MaxOps /\ begun' = begun + 1
  BY DEF ModuleAction, Begin, Begins, IInv, Types
<1>1. Things' /\ Alone /\ k \in Tasks /\ m \in Pools
  <2>1. UNCHANGED <<entry, link, listed, refVars, module, serverVars, history>>
    BY DEF ModuleAction
  <2>2. begun' \in 0..MaxOps
    BY <1>a, McpAssumption
  <2> QED BY <2>1, <2>2 DEF IInv, Types, Things, Alone, refVars, serverVars, history, Tasks, Pools
<1>2. PICK op \in {"reconnect", "connect", "disconnect"} :
        task' = [task EXCEPT ![k] = Task(op, op, m, None, None, FALSE)]
  BY DEF ModuleAction, Begin
<1> DEFINE r == Task(op, op, m, None, None, FALSE)
<1>3. /\ r \in TaskType /\ r.op \notin Entering \cup {"stop"} /\ r.pc \notin Inside \cup {"answer", "acquire"}
      /\ r.mod = m
  BY <1>1 DEF Task, TaskType, Entering, Inside
<1>4. module[m].stage # "deploying"
  BY DEF ModuleAction
<1> HIDE DEF r
<1> QED BY <1>1, <1>2, <1>3, <1>4, Beginning DEF r

LEMMA AdministerStep == ASSUME IInv, NEW k \in Callers, Administer(k) PROVE IInv'
<1>a. begun \in 0..MaxOps /\ begun < MaxOps /\ begun' = begun + 1
  BY DEF Administer, Begin, Begins, IInv, Types
<1>1. Things' /\ Alone /\ k \in Tasks /\ Daemon \in Pools /\ Daemon \notin Modules
  <2>1. UNCHANGED <<entry, link, listed, refVars, module, serverVars, history>>
    BY DEF Administer
  <2>2. begun' \in 0..MaxOps
    BY <1>a, McpAssumption
  <2> QED BY <2>1, <2>2, McpAssumption DEF IInv, Types, Things, Alone, refVars, serverVars, history, Tasks, Pools
<1>2. PICK op \in {"admin_connect", "admin_disconnect", "update"}, pc \in {"connect", "disconnect"} :
        task' = [task EXCEPT ![k] = Task(op, pc, Daemon, None, None, FALSE)]
  BY DEF Administer, Begin
<1> DEFINE r == Task(op, pc, Daemon, None, None, FALSE)
<1>3. /\ r \in TaskType /\ r.op \notin Entering \cup {"stop"} /\ r.pc \notin Inside \cup {"answer", "acquire"}
      /\ r.mod = Daemon
  BY <1>1 DEF Task, TaskType, Entering, Inside
<1> HIDE DEF r
<1> QED BY <1>1, <1>2, <1>3, Beginning DEF r

LEMMA Untouched ==
    ASSUME IInv, Things', Alone, UNCHANGED task
    PROVE  IInv'
BY DEF IInv, Types, Things, Alone, refVars, AppsKnown, TasksFit, TasksApart, FitsNow,
       SharersAreTracked, Attached

LEMMA ServerStep ==
    ASSUME IInv, GoDown \/ ComeBack \/ \E t \in Links : Break(t)
    PROVE  IInv'
<1>1. CASE GoDown
  <2>a. outages \in 0..MaxOutages /\ outages < MaxOutages /\ outages' = outages + 1
    BY <1>1 DEF GoDown, IInv, Types
  <2>b. outages' \in 0..MaxOutages
    BY <2>a, McpAssumption
  <2>1. outages' \in 0..MaxOutages /\ up' \in BOOLEAN
    BY <1>1, <2>b DEF GoDown
  <2>2. UNCHANGED <<entry, link, listed, refVars, module, task, begun, history>>
    BY <1>1 DEF GoDown
  <2> QED BY <2>1, <2>2, Untouched DEF IInv, Types, Things, Alone, refVars, history
<1>2. CASE ComeBack
  BY <1>2, Untouched DEF IInv, Types, ComeBack, Things, Alone, refVars, history
<1>3. CASE \E t \in Links : Break(t)
  <2>1. PICK t \in Links : Break(t)
    BY <1>3
  <2>2. link' \in [Links -> {"open", "broken", "closed"}]
    BY <2>1 DEF Break, IInv, Types
  <2>3. UNCHANGED <<entry, listed, refVars, module, task, serverVars, begun, history>>
    BY <2>1 DEF Break
  <2> QED BY <2>2, <2>3, Untouched DEF IInv, Types, Things, Alone, refVars, history, serverVars
<1> QED BY <1>1, <1>2, <1>3
-----------------------------------------------------------------------------
(* The steps that change them.  Each leaves alone what the other tasks rely *)
(* on, or marks their modules as severed.                                   *)
LEMMA Change ==
    ASSUME IInv, NEW k \in Tasks, NEW r \in TaskType, task' = [task EXCEPT ![k] = r],
           FitsNext(r), \A j \in Tasks : j # k => FitsNext(task[j]) /\ Apart(task[j], r),
           Things', AppsKnown', SharersAreTracked'
    PROVE  IInv'
<1>1. TasksPart'
  BY OneTask
<1> QED BY <1>1 DEF IInv, Types, Things, TasksPart

LEMMA StillFits ==
    ASSUME IInv, NEW j \in Tasks,
           task[j].mod \in Modules =>
              \/ module'[task[j].mod] = module[task[j].mod]
              \/ /\ module[task[j].mod].stage # "deploying"
                 /\ module'[task[j].mod].stage \in {"absent", "stopping"},
           task[j].pc \in Inside =>
              \/ listed'[Pool(task[j])] = listed[Pool(task[j])]
              \/ Pool(task[j]) # Daemon /\ listed'[Pool(task[j])] = None,
           task[j].mod \in severed => task[j].mod \in severed',
           task[j].op = "acquire" /\ task[j].mod \notin severed' /\ tracked
               /\ module[task[j].mod].app \in refs
             => tracked' /\ module[task[j].mod].app \in refs'
    PROVE  FitsNext(task[j])
<1> DEFINE r == task[j]  m == task[j].mod
<1>1. r \in TaskType /\ FitsNow(r)
  BY TheTask
<1>2. r.op \in Entering => m \in Modules /\ module'[m].stage = "deploying" /\ module'[m] = module[m]
  BY <1>1 DEF FitsNow, Fits
<1>3. r.op = "stop" => m \in Modules /\ module'[m].stage \in {"stopping", "absent"}
  BY <1>1 DEF FitsNow, Fits
<1>4. r.pc \in Reopening /\ Pool(r) = Daemon => r.entry = listed'[Daemon]
  BY <1>1 DEF FitsNow, Fits, Reopening, Inside
<1>5. r.pc \in Vacating => listed'[Pool(r)] = None
  BY <1>1 DEF FitsNow, Fits, Vacating, Inside
<1>6. ASSUME r.op = "acquire", r.pc \in Reopening \cup {"reconnect"}, m \notin severed'
      PROVE  tracked' /\ module'[m].app \in refs'
  <2>1. m \notin severed
    BY <1>6
  <2>2. tracked /\ module[m].app \in refs
    BY <1>1, <1>6, <2>1 DEF FitsNow, Fits
  <2>3. module'[m] = module[m]
    BY <1>2, <1>6 DEF Entering
  <2> QED BY <1>6, <2>2, <2>3
<1>7. /\ r.pc \in Reopening \cup {"replace", "drop"} => r.entry \in Entries
      /\ r.pc = "answer" => r.op \in {"call", "ping"}
      /\ r.pc = "acquire" => r.op = "acquire"
  BY <1>1 DEF FitsNow, Fits
<1>8. r.op = "acquire" /\ r.pc \in Reopening \cup {"reconnect"} =>
          m \in severed' \/ (tracked' /\ module'[m].app \in refs')
  BY <1>6
<1> HIDE DEF r, m
<1>9. r.mod = m /\ r = task[j]
  BY DEF r, m
<1> QED BY <1>2, <1>3, <1>4, <1>5, <1>7, <1>8, <1>9 DEF FitsNext, Fits

(* A module that is deployed belongs to one task.                           *)
LEMMA Deployer ==
    ASSUME IInv, NEW k \in Tasks, task[k].op \in Entering
    PROVE  /\ task[k].mod \in Modules /\ task[k].mod # Daemon
           /\ module[task[k].mod] \in ModuleType
           /\ module[task[k].mod].stage = "deploying"
           /\ module[task[k].mod].app \in Apps
           /\ \A j \in Tasks : j # k => task[j].mod # task[k].mod
                                     /\ Pool(task[j]) # task[k].mod
<1>1. task[k].mod \in Modules /\ module[task[k].mod].stage = "deploying"
  BY TheTask DEF FitsNow, Fits
<1>2. \A j \in Tasks : j # k => task[j].mod # task[k].mod
  BY DEF IInv, TasksApart, Apart
<1> QED BY <1>1, <1>2, McpAssumption DEF IInv, Types, AppsKnown, Pool

LEMMA AttachedType ==
    ASSUME module \in [Modules -> ModuleType], NEW m, NEW b \in BOOLEAN
    PROVE  [module EXCEPT ![m].stage = "running", ![m].attached = b] \in [Modules -> ModuleType]
BY DEF ModuleType

(* A module gets the entry of the daemon.                                   *)
LEMMA AttachStep ==
    ASSUME IInv, NEW k \in Tasks, task[k].op = "acquire", NEW e \in Entries,
           Attach(task[k].mod, e), Done(k), Things',
           tracked' = tracked, refs \subseteq refs',
           \/ task[k].mod \in severed
           \/ e = listed[Daemon] /\ tracked /\ module[task[k].mod].app \in refs'
    PROVE  IInv'
<1> DEFINE m == task[k].mod
<1>1. /\ m \in Modules /\ m # Daemon /\ module[m] \in ModuleType /\ module[m].app \in Apps
      /\ \A j \in Tasks : j # k => task[j].mod # m /\ Pool(task[j]) # m
  BY Deployer DEF Entering
<1>2. /\ \A p \in Pools : p # m => listed'[p] = listed[p]
      /\ \A n \in Modules : n # m => module'[n] = module[n]
      /\ severed' = severed
      /\ listed'[m] = e /\ module'[m].app = module[m].app
  <2>1. /\ listed \in [Pools -> Entries \cup {None}]
        /\ module \in [Modules -> ModuleType]
    BY TheTask DEF Things
  <2>2. /\ listed' = [listed EXCEPT ![m] = e] /\ severed' = severed
        /\ module' = [module EXCEPT ![m].stage = "running", ![m].attached = TRUE]
    BY DEF Attach
  <2> HIDE DEF m
  <2> QED BY <1>1, <2>1, <2>2 DEF ModuleType, Pools
<1>3. ASSUME NEW j \in Tasks, j # k PROVE FitsNext(task[j])
  <2>1. task[j].mod \in Modules => module'[task[j].mod] = module[task[j].mod]
    BY <1>1, <1>2, <1>3
  <2>2. listed'[Pool(task[j])] = listed[Pool(task[j])]
    BY <1>1, <1>2, <1>3, TheTask
  <2> HIDE DEF m
  <2>3. task[j].op = "acquire" /\ task[j].mod \notin severed' /\ tracked
               /\ module[task[j].mod].app \in refs
             => tracked' /\ module[task[j].mod].app \in refs'
    OBVIOUS
  <2> QED BY <1>2, <2>1, <2>2, <2>3, StillFits
<1>4. AppsKnown'
  BY <1>1, <1>2 DEF IInv, AppsKnown
<1>5. SharersAreTracked'
  <2> SUFFICES ASSUME NEW n \in Modules, module'[n].attached, n \notin severed'
               PROVE  /\ listed'[n] # None /\ listed'[n] = listed'[Daemon]
                      /\ tracked' /\ module'[n].app \in refs'
    BY DEF SharersAreTracked, Attached
  <2>1. CASE n = m
    BY <1>1, <1>2, <2>1, McpAssumption DEF Pools
  <2>2. CASE n # m
    <3>1. n \in Attached \ severed
      BY <1>2, <2>2 DEF Attached
    <3> QED BY <1>1, <1>2, <2>2, <3>1 DEF IInv, SharersAreTracked, Pools
  <2> QED BY <2>1, <2>2
<1> QED BY <1>3, <1>4, <1>5, IdleFits, Change DEF Done

LEMMA AcquireStep == ASSUME IInv, NEW k \in Tasks, Acquire(k) PROVE IInv'
<1> DEFINE m == task[k].mod  e == listed[Daemon]
<1>1. task[k].op = "acquire" /\ task[k].pc = "acquire"
  BY TheTask DEF Acquire, At, FitsNow, Fits
<1>2. m \in Modules /\ module[m].app \in Apps
  BY <1>1, Deployer DEF Entering
<1>3. CASE tracked /\ e # None /\ entry[e].status = "connected"
  <2>1. e \in Entries
    BY <1>3, TheTask DEF Things, Pools
  <2>2. Attach(m, e) /\ Done(k) /\ refs' = refs \cup {module[m].app}
    BY <1>3 DEF Acquire
  <2>3. UNCHANGED <<entry, link, tracked, serverVars, begun>>
    BY DEF Acquire
  <2>a. /\ listed' \in [Pools -> Entries \cup {None}] /\ refs' \in SUBSET Apps
        /\ shared' \in SUBSET Entries /\ severed' \in SUBSET Modules
    BY <1>2, <2>1, <2>2, TheTask DEF Attach, Things
  <2>b. module' \in [Modules -> ModuleType]
    BY <2>2, AttachedType, TheTask DEF Attach, Things
  <2>4. Things'
    BY <2>a, <2>b, <2>3, TheTask DEF Things, serverVars
  <2> QED BY <1>1, <1>3, <2>1, <2>2, <2>3, <2>4, AttachStep
<1>4. CASE ~(tracked /\ e # None /\ entry[e].status = "connected")
  <2> DEFINE pc == IF tracked THEN "reconnect" ELSE "connect"
             r == Task("acquire", pc, m, None, None, task[k].again)
  <2>1. /\ Wait(k, pc) /\ refs' = IF tracked THEN refs \cup {module[m].app} ELSE refs
        /\ UNCHANGED <<listed, module, history, entry, link, tracked, serverVars, begun>>
    BY <1>4 DEF Acquire
  <2>2. r \in TaskType /\ r.op = "acquire" /\ r.mod = m /\ r.pc = pc /\ r.entry = None
    BY TheTask DEF Task, TaskType
  <2>3. task' = [task EXCEPT ![k] = r]
    BY <1>1, <2>1, TheTask DEF Wait, Go, Task
  <2>4. Things'
    BY <1>2, <2>1, TheTask DEF Things, serverVars, history
  <2>5. refs \subseteq refs' /\ (tracked => module[m].app \in refs')
    BY <2>1
  <2>6. FitsNext(r)
    <3>1. m \in Modules /\ module'[m].stage = "deploying" /\ module' = module /\ tracked' = tracked
      BY <1>1, <2>1, Deployer DEF Entering
    <3>2. (pc = "reconnect" /\ tracked) \/ pc = "connect"
      OBVIOUS
    <3> HIDE DEF r, pc
    <3>3. pc \notin Inside \cup {"answer", "acquire"}
      BY <3>2 DEF Inside
    <3> QED BY <2>2, <2>5, <3>1, <3>2, <3>3 DEF FitsNext, Fits, Reopening, Vacating, Inside
  <2>7. \A j \in Tasks : FitsNext(task[j])
    BY <2>1, <2>5, TheTask DEF FitsNext, FitsNow, Fits, history
  <2>8. \A j \in Tasks : j # k => Apart(task[j], r)
    <3>1. pc \notin Inside
      BY DEF Inside
    <3> QED BY <1>1, <2>2, <3>1, StaysApart
  <2>9. AppsKnown' /\ SharersAreTracked'
    BY <2>1, <2>5 DEF IInv, AppsKnown, SharersAreTracked, Attached, history
  <2> HIDE DEF r
  <2> QED BY <2>2, <2>3, <2>4, <2>6, <2>7, <2>8, <2>9, Change
<1> QED BY <1>3, <1>4

LEMMA RefreshStep == ASSUME IInv, NEW k \in Tasks, Refresh(k) PROVE IInv'
<1> DEFINE m == task[k].mod  e == task[k].entry
<1>1. /\ task[k].pc = "refresh" /\ e \in Entries /\ entry[e] \in EntryType
      /\ FitsNow(task[k]) /\ task[k] \in TaskType /\ Pool(task[k]) \in Pools /\ Things
  BY TheTask DEF Refresh, At, FitsNow, Fits, Reopening, Things
<1>2. entry' \in [Entries -> EntryType] /\ link' = link /\ refs' = refs /\ tracked' = tracked
      /\ up' = up /\ outages' = outages /\ begun' = begun
  BY <1>1 DEF Refresh, Status, Things, EntryType, refVars, serverVars
<1>3. CASE task[k].op = "acquire"
  <2>1. Attach(m, e) /\ Done(k)
    BY <1>3 DEF Refresh
  <2>2. m \in Modules
    BY <1>3, Deployer DEF Entering
  <2>3. \/ m \in severed
        \/ e = listed[Daemon] /\ tracked /\ module[m].app \in refs'
    <3>1. e = listed[Daemon]
      BY <1>1, <1>3 DEF FitsNow, Fits, Pool, Reopening
    <3>2. m \in severed \/ (tracked /\ module[m].app \in refs)
      BY <1>1, <1>3 DEF FitsNow, Fits, Reopening
    <3> QED BY <1>2, <3>1, <3>2
  <2>4. /\ listed' \in [Pools -> Entries \cup {None}] /\ severed' \in SUBSET Modules
        /\ shared' \in SUBSET Entries
    BY <1>1, <2>1, <2>2 DEF Attach, Things
  <2>5. module' \in [Modules -> ModuleType]
    BY <1>1, <2>1, AttachedType DEF Attach, Things
  <2>6. Things'
    BY <1>1, <1>2, <2>4, <2>5 DEF Things
  <2> QED BY <1>1, <1>2, <1>3, <2>1, <2>3, <2>6, AttachStep
<1>4. CASE task[k].op # "acquire"
  <2>1. UNCHANGED <<listed, module, history>>
    BY <1>4 DEF Refresh
  <2>2. Things' /\ Alone
    BY <1>1, <1>2, <2>1 DEF Things, Alone, refVars, history
  <2>3. CASE Done(k)
    BY <2>2, <2>3, Finishing DEF Alone
  <2>4. CASE task[k].op = "call" /\ Go(k, "answer", e, entry[e].link)
    <3>1. entry[e].link \in Links \cup {None}
      BY <1>1 DEF EntryType
    <3>2. FitsNow(Task(task[k].op, "answer", m, e, entry[e].link, task[k].again))
      BY <2>4 DEF FitsNow, Fits, Task, Pool, Entering, Reopening, Vacating
    <3> QED BY <1>1, <2>2, <2>4, <3>1, <3>2, Going DEF Alone, Inside
  <2> QED BY <2>3, <2>4 DEF Refresh
<1> QED BY <1>3, <1>4

(* An entry is popped: its users are severed.                               *)
LEMMA PopStep ==
    ASSUME IInv, NEW k \in Tasks, NEW pc \in {"replace", "drop"}, Pop(k, pc),
           task[k].pc \in {"connect", "disconnect"}, LockFree(PoolOf(k)), listed[PoolOf(k)] # None
    PROVE  IInv'
<1> DEFINE p == PoolOf(k)  e == listed[p]  r == Task(task[k].op, pc, task[k].mod, e, None, task[k].again)
<1>1. /\ p = Pool(task[k]) /\ p \in Pools /\ e \in Entries
      /\ FitsNow(task[k]) /\ task[k] \in TaskType /\ Things
  BY TheTask
<1>2. /\ r \in TaskType /\ r.op = task[k].op /\ r.mod = task[k].mod /\ r.pc = pc /\ r.entry = e
      /\ Pool(r) = p
  BY <1>1 DEF Task, TaskType, Inside, Pool
<1>3. task' = [task EXCEPT ![k] = r]
  BY TheTask DEF Pop, Go, Task
<1>4. /\ listed' = [listed EXCEPT ![p] = None] /\ listed'[p] = None
      /\ \A q \in Pools : q # p => listed'[q] = listed[q]
      /\ severed' = severed \cup IF p = Daemon THEN Attached ELSE {p}
      /\ UNCHANGED <<entry, refVars, module, serverVars, begun, shared>>
  BY <1>1 DEF Pop, Things
<1>5. severed' \in SUBSET Modules /\ severed \subseteq severed'
  BY <1>1, <1>4 DEF Attached, Pools, Things
<1>6. Things'
  BY <1>1, <1>4, <1>5 DEF Pop, Close, Things, refVars, serverVars
<1> HIDE DEF r
<1>7. FitsNext(r)
  <2>1. /\ r.op \in Entering => r.mod \in Modules /\ module'[r.mod].stage = "deploying"
        /\ r.op = "stop" => r.mod \in Modules /\ module'[r.mod].stage \in {"stopping", "absent"}
    BY <1>1, <1>2, <1>4 DEF FitsNow, Fits
  <2>2. r.entry \in Entries /\ listed'[Pool(r)] = None
    BY <1>1, <1>2, <1>4
  <2>3. r.pc \notin Reopening \cup {"reconnect", "answer", "acquire"}
    BY <1>2 DEF Reopening
  <2> QED BY <2>1, <2>2, <2>3 DEF FitsNext, Fits
<1>8. ASSUME NEW j \in Tasks, j # k PROVE FitsNext(task[j]) /\ Apart(task[j], r)
  <2>1. task[j].pc \in Inside => listed'[Pool(task[j])] = listed[Pool(task[j])]
    BY <1>4, <1>8, TheTask DEF LockFree
  <2>2. Apart(task[j], r)
    BY <1>2, <1>8, StaysApart
  <2>3. tracked' = tracked /\ refs' = refs /\ module' = module
    BY <1>4 DEF refVars
  <2>4. task[j].op = "acquire" /\ task[j].mod \notin severed' /\ tracked
               /\ module[task[j].mod].app \in refs
             => tracked' /\ module[task[j].mod].app \in refs'
    BY <2>3
  <2> QED BY <1>5, <2>1, <2>2, <2>3, <2>4, StillFits
<1>9. AppsKnown'
  BY <1>4 DEF IInv, AppsKnown
<1>10. SharersAreTracked'
  <2> SUFFICES ASSUME NEW n \in Modules, module'[n].attached, n \notin severed'
               PROVE  /\ listed'[n] # None /\ listed'[n] = listed'[Daemon]
                      /\ tracked' /\ module'[n].app \in refs'
    BY DEF SharersAreTracked, Attached
  <2>1. n \in Attached \ severed /\ n # p /\ p # Daemon
    BY <1>4, <1>5 DEF Attached
  <2>2. /\ listed[n] # None /\ listed[n] = listed[Daemon]
        /\ tracked /\ module[n].app \in refs
    BY <2>1 DEF IInv, SharersAreTracked
  <2>3. listed'[n] = listed[n] /\ listed'[Daemon] = listed[Daemon]
    BY <1>4, <2>1 DEF Pools
  <2> QED BY <1>4, <2>2, <2>3 DEF refVars
<1> QED BY <1>2, <1>3, <1>6, <1>7, <1>8, <1>9, <1>10, Change

LEMMA ReplaceStep == ASSUME IInv, NEW k \in Tasks, Replace(k) PROVE IInv'
BY PopStep DEF Replace, At

LEMMA DropStep == ASSUME IInv, NEW k \in Tasks, Drop(k) PROVE IInv'
BY PopStep DEF Drop, At

LEMMA OpenedStep == ASSUME IInv, NEW k \in Tasks, Opened(k) PROVE IInv'
<1> DEFINE m == task[k].mod  op == task[k].op  e == NewEntry  p == Pool(task[k])
<1>1. /\ task[k].pc = "open" /\ FitsNow(task[k]) /\ task[k] \in TaskType
      /\ PoolOf(k) = p /\ p \in Pools /\ listed[p] = None /\ Things
      /\ op = "acquire" => p = Daemon
      /\ e \in Entries /\ NewLink \in Links
  BY TheTask, NewOnes DEF Opened, At, FitsNow, Fits, Vacating, Pool
<1>2. op \in Entering =>
        /\ m \in Modules /\ m # Daemon /\ module[m] \in ModuleType /\ module[m].app \in Apps
        /\ \A j \in Tasks : j # k => task[j].mod # m /\ Pool(task[j]) # m
  BY Deployer
<1>3. /\ listed' \in [Pools -> Entries \cup {None}] /\ listed'[p] = e
      /\ op = "acquire" => listed'[m] = e
      /\ \A q \in Pools : q # p /\ (op = "acquire" => q # m) => listed'[q] = listed[q]
  BY <1>1, <1>2 DEF Opened, Things, Pools, Entering
<1>4. /\ entry' \in [Entries -> EntryType] /\ link' \in [Links -> {"open", "broken", "closed"}]
  BY <1>1 DEF Opened, Things, EntryType
<1>5. /\ module' \in [Modules -> ModuleType]
      /\ \A n \in Modules : n # m \/ op \notin Entering => module'[n] = module[n]
      /\ \A n \in Modules : module'[n].app = module[n].app
      /\ \A n \in Modules : module'[n].attached => module[n].attached \/ (n = m /\ op = "acquire")
  <2>1. module \in [Modules -> ModuleType]
    BY <1>1 DEF Things
  <2>2. CASE op = "acquire"
    <3>1. module' = [module EXCEPT ![m].stage = "running", ![m].attached = TRUE]
      BY <2>2 DEF Opened
    <3>2. module' \in [Modules -> ModuleType]
      BY <2>1, <3>1, AttachedType
    <3> QED BY <1>2, <2>1, <2>2, <3>1, <3>2 DEF Entering, ModuleType
  <2>3. CASE op = "private"
    <3>1. module' = [module EXCEPT ![m].stage = "running"]
      BY <2>3 DEF Opened
    <3> QED BY <1>2, <2>1, <2>3, <3>1 DEF Entering, ModuleType
  <2>4. CASE op \notin Entering
    <3>1. module' = module
      BY <2>4 DEF Opened, Entering
    <3> QED BY <2>1, <3>1
  <2> QED BY <2>2, <2>3, <2>4 DEF Entering
<1>6. /\ tracked' \in BOOLEAN /\ (tracked => tracked') /\ refs \subseteq refs'
      /\ severed' = severed /\ up' = up /\ outages' = outages /\ begun' = begun
      /\ op = "acquire" => tracked' /\ module[m].app \in refs'
  <2>1. tracked \in BOOLEAN
    BY <1>1 DEF Things
  <2>2. tracked' = (tracked \/ op \in {"acquire", "admin_connect"})
    BY DEF Opened
  <2>3. tracked' \in BOOLEAN /\ (tracked => tracked') /\ (op = "acquire" => tracked')
    BY <2>1, <2>2
  <2> QED BY <2>3 DEF Opened, serverVars
<1>7. refs' \in SUBSET Apps /\ shared' \in SUBSET Entries
  BY <1>1, <1>2 DEF Opened, Things, Entering
<1>8. Things'
  BY <1>1, <1>3, <1>4, <1>5, <1>6, <1>7 DEF Things
<1>9. ASSUME NEW j \in Tasks, j # k PROVE FitsNext(task[j])
  <2>1. task[j].pc \in Inside => Pool(task[j]) # p
    BY <1>1, <1>9 DEF IInv, TasksApart, Apart, Inside
  <2>2. task[j].pc \in Inside => listed'[Pool(task[j])] = listed[Pool(task[j])]
    BY <1>2, <1>3, <1>9, <2>1, TheTask DEF Entering
  <2>3. task[j].mod \in Modules => module'[task[j].mod] = module[task[j].mod]
    BY <1>2, <1>5, <1>9
  <2>4. module[task[j].mod].app \in refs => module[task[j].mod].app \in refs'
    BY <1>6
  <2> QED BY <1>6, <2>2, <2>3, <2>4, StillFits
<1>10. AppsKnown'
  BY <1>2, <1>5 DEF IInv, AppsKnown
<1>11. SharersAreTracked'
  <2> SUFFICES ASSUME NEW n \in Modules, module'[n].attached, n \notin severed'
               PROVE  /\ listed'[n] # None /\ listed'[n] = listed'[Daemon]
                      /\ tracked' /\ module'[n].app \in refs'
    BY DEF SharersAreTracked, Attached
  <2>1. CASE n = m /\ op = "acquire"
    BY <1>1, <1>3, <1>5, <1>6, <2>1, McpAssumption
  <2>2. CASE ~(n = m /\ op = "acquire")
    <3>1. n \in Attached \ severed
      BY <1>5, <1>6, <2>2 DEF Attached
    <3>2. /\ listed[n] # None /\ listed[n] = listed[Daemon]
          /\ tracked /\ module[n].app \in refs
      BY <3>1 DEF IInv, SharersAreTracked
    <3>3. n # p /\ Daemon # p
      BY <1>1, <3>2
    <3>4. listed'[n] = listed[n] /\ listed'[Daemon] = listed[Daemon]
      BY <1>1, <1>3, <3>3 DEF Pools
    <3> QED BY <1>5, <1>6, <3>2, <3>4
  <2> QED BY <2>1, <2>2
<1> QED BY <1>8, <1>9, <1>10, <1>11, IdleFits, Change DEF Opened, Done

LEMMA NotOpenedStep == ASSUME IInv, NEW k \in Tasks, NotOpened(k) PROVE IInv'
<1> DEFINE m == task[k].mod  op == task[k].op  e == NewEntry  p == Pool(task[k])
<1>1. /\ task[k].pc = "open" /\ FitsNow(task[k]) /\ task[k] \in TaskType
      /\ PoolOf(k) = p /\ p \in Pools /\ listed[p] = None /\ Things
      /\ e \in Entries
  BY TheTask, NewOnes DEF NotOpened, At, FitsNow, Fits, Vacating
<1>2. op \in Entering =>
        /\ m \in Modules /\ module[m] \in ModuleType /\ module[m].app \in Apps
        /\ module[m].stage = "deploying"
        /\ \A j \in Tasks : j # k => task[j].mod # m
  BY Deployer
<1>3. /\ listed' \in [Pools -> Entries \cup {None}]
      /\ \A q \in Pools : q # p => listed'[q] = listed[q]
  BY <1>1 DEF NotOpened, Things
<1>4. entry' \in [Entries -> EntryType] /\ shared' \in SUBSET Entries
  BY <1>1 DEF NotOpened, Things, EntryType
<1>5. /\ module' \in [Modules -> ModuleType]
      /\ \A n \in Modules : n # m \/ op # "private" => module'[n] = module[n]
      /\ \A n \in Modules : module'[n].app = module[n].app /\ module'[n].attached = module[n].attached
  <2>1. module \in [Modules -> ModuleType]
    BY <1>1 DEF Things
  <2>2. CASE op = "private"
    <3>1. module' = [module EXCEPT ![m].stage = "running"]
      BY <2>2 DEF NotOpened
    <3> QED BY <1>2, <2>1, <2>2, <3>1 DEF Entering, ModuleType
  <2>3. CASE op # "private"
    BY <2>1, <2>3 DEF NotOpened
  <2> QED BY <2>2, <2>3
<1>6. UNCHANGED <<link, refVars, serverVars, begun, severed>>
  BY DEF NotOpened
<1>7. Things'
  BY <1>1, <1>3, <1>4, <1>5, <1>6 DEF Things, refVars, serverVars
<1> DEFINE Again == Task("acquire", "acquire", m, None, None, TRUE)
           Private == Task("private", "connect", m, None, None, FALSE)
<1>8. PICK r \in {Again, Private, Idle} :
        /\ task' = [task EXCEPT ![k] = r]
        /\ r = Again \/ r = Private => op = "acquire"
  <2>1. CASE op = "acquire" /\ ~task[k].again
    BY <2>1, TheTask DEF NotOpened
  <2>2. CASE op = "acquire" /\ task[k].again
    BY <2>2, TheTask DEF NotOpened
  <2>3. CASE op # "acquire"
    <3>1. task' = [task EXCEPT ![k] = Idle]
      BY <2>3, TheTask DEF NotOpened
    <3>2. Idle # Again /\ Idle # Private
      BY DEF Idle, Task
    <3> QED BY <3>1, <3>2
  <2>4. task[k].again \in BOOLEAN
    BY <1>1 DEF TaskType
  <2> QED BY <2>1, <2>2, <2>3, <2>4
<1>9. /\ Again \in TaskType /\ Again.op = "acquire" /\ Again.mod = m /\ Again.pc = "acquire"
      /\ Private \in TaskType /\ Private.op = "private" /\ Private.mod = m /\ Private.pc = "connect"
  BY <1>1 DEF Task, TaskType
<1> HIDE DEF Again, Private
<1>10. r \in TaskType /\ FitsNext(r) /\ \A j \in Tasks : j # k => Apart(task[j], r)
  <2>1. CASE r = Idle
    BY <2>1, IdleFits
  <2>2. CASE r = Again \/ r = Private
    <3>1. op = "acquire" /\ r.mod = m /\ r.op \in Entering /\ r.op # "stop" /\ r \in TaskType
      BY <1>8, <1>9, <2>2 DEF Entering
    <3>2. r.pc \notin Inside \cup {"answer", "reconnect"} /\ (r.pc = "acquire" => r.op = "acquire")
      BY <1>9, <2>2 DEF Inside
    <3>3. m \in Modules /\ module'[m].stage = "deploying"
      BY <1>2, <1>5, <3>1 DEF Entering
    <3>4. FitsNext(r)
      BY <3>1, <3>2, <3>3 DEF FitsNext, Fits, Inside, Reopening, Vacating
    <3>5. r.op = task[k].op \/ (r.op = "private" /\ task[k].op = "acquire")
      BY <1>9, <2>2, <3>1
    <3> QED BY <3>1, <3>2, <3>4, <3>5, StaysApart
  <2> QED BY <2>1, <2>2
<1>11. ASSUME NEW j \in Tasks, j # k PROVE FitsNext(task[j])
  <2>1. task[j].pc \in Inside => Pool(task[j]) # p
    BY <1>1, <1>11 DEF IInv, TasksApart, Apart, Inside
  <2>2. task[j].pc \in Inside => listed'[Pool(task[j])] = listed[Pool(task[j])]
    BY <1>3, <2>1, TheTask
  <2>3. task[j].mod \in Modules => module'[task[j].mod] = module[task[j].mod]
    BY <1>2, <1>5, <1>11 DEF Entering
  <2>4. tracked' = tracked /\ refs' = refs /\ severed' = severed
    BY <1>6 DEF refVars
  <2>5. task[j].op = "acquire" /\ task[j].mod \notin severed' /\ tracked
               /\ module[task[j].mod].app \in refs
             => tracked' /\ module[task[j].mod].app \in refs'
    BY <2>4
  <2> QED BY <2>2, <2>3, <2>4, <2>5, StillFits
<1>12. AppsKnown'
  BY <1>2, <1>5 DEF IInv, AppsKnown, Entering
<1>13. SharersAreTracked'
  <2> SUFFICES ASSUME NEW n \in Modules, module'[n].attached, n \notin severed'
               PROVE  /\ listed'[n] # None /\ listed'[n] = listed'[Daemon]
                      /\ tracked' /\ module'[n].app \in refs'
    BY DEF SharersAreTracked, Attached
  <2>1. n \in Attached \ severed
    BY <1>5, <1>6 DEF Attached
  <2>2. /\ listed[n] # None /\ listed[n] = listed[Daemon]
        /\ tracked /\ module[n].app \in refs
    BY <2>1 DEF IInv, SharersAreTracked
  <2>3. n # p /\ Daemon # p
    BY <1>1, <2>2
  <2>4. listed'[n] = listed[n] /\ listed'[Daemon] = listed[Daemon]
    BY <1>3, <2>3 DEF Pools
  <2> QED BY <1>5, <1>6, <2>2, <2>4 DEF refVars
<1> QED BY <1>7, <1>8, <1>10, <1>11, <1>12, <1>13, Change

(* An exception escapes: a module that was being deployed may run by then.  *)
LEMMA EscapesStep ==
    ASSUME IInv, NEW k \in Tasks, Escapes(k),
           entry' \in [Entries -> EntryType], link' \in [Links -> {"open", "broken", "closed"}],
           UNCHANGED <<listed, refVars, serverVars, begun, history>>
    PROVE  IInv'
<1> DEFINE m == task[k].mod  op == task[k].op  again == task[k].again
           Private == Task("private", "connect", m, None, None, FALSE)
           Dead == Task(op, "dead", m, None, None, FALSE)
<1>1. /\ task[k] \in TaskType /\ FitsNow(task[k]) /\ Things /\ again \in BOOLEAN
      /\ module \in [Modules -> ModuleType]
  BY TheTask DEF TaskType, Things
<1>2. op \in Entering =>
        /\ m \in Modules /\ module[m].stage = "deploying" /\ module[m].app \in Apps
        /\ \A j \in Tasks : j # k => task[j].mod # m
  BY Deployer
<1>3. /\ module' \in [Modules -> ModuleType]
      /\ \A n \in Modules : n # m \/ op \notin Entering => module'[n] = module[n]
      /\ op = "acquire" /\ again => module' = module
      /\ \A n \in Modules : module'[n].app = module[n].app /\ module'[n].attached = module[n].attached
  <2>1. CASE op = "private" \/ (op = "acquire" /\ ~again)
    <3>1. module' = [module EXCEPT ![m].stage = "running"]
      BY <2>1 DEF Escapes
    <3> QED BY <1>1, <1>2, <2>1, <3>1 DEF Entering, ModuleType
  <2>2. CASE ~(op = "private" \/ (op = "acquire" /\ ~again))
    BY <1>1, <2>2 DEF Escapes
  <2> QED BY <2>1, <2>2
<1>4. Things' /\ UNCHANGED <<listed, tracked, refs, severed>>
  BY <1>1, <1>3 DEF Things, refVars, serverVars, history
<1>5. PICK r \in {Private, Dead, Idle} :
        /\ task' = [task EXCEPT ![k] = r]
        /\ r = Private => op = "acquire" /\ again
        /\ r = Dead => op = "ping"
  <2>1. CASE op = "acquire" /\ again
    <3>1. Private # Dead
      BY DEF Task
    <3> QED BY <2>1, <3>1, TheTask DEF Escapes
  <2>2. CASE op = "ping" /\ ~again
    <3>1. Private # Dead
      BY DEF Task
    <3> QED BY <2>2, <3>1, TheTask DEF Escapes
  <2>3. CASE ~(op = "acquire" /\ again) /\ ~(op = "ping" /\ ~again)
    <3>1. task' = [task EXCEPT ![k] = Idle]
      BY <2>3, TheTask DEF Escapes
    <3>2. Idle # Private /\ Idle # Dead
      BY DEF Idle, Task
    <3> QED BY <3>1, <3>2
  <2> QED BY <2>1, <2>2, <2>3
<1>6. /\ Private \in TaskType /\ Private.op = "private" /\ Private.mod = m /\ Private.pc = "connect"
      /\ Dead \in TaskType /\ Dead.op = op /\ Dead.mod = m /\ Dead.pc = "dead"
  BY <1>1 DEF Task, TaskType
<1> HIDE DEF Private, Dead
<1>7. r \in TaskType /\ FitsNext(r) /\ \A j \in Tasks : j # k => Apart(task[j], r)
  <2>1. CASE r = Idle
    BY <2>1, IdleFits
  <2>2. CASE r = Private
    <3>1. m \in Modules /\ module'[m].stage = "deploying"
      BY <1>2, <1>3, <1>5, <2>2 DEF Entering
    <3>2. FitsNext(r)
      BY <1>6, <2>2, <3>1 DEF FitsNext, Fits, Reopening, Vacating
    <3> QED BY <1>5, <1>6, <2>2, <3>2, StaysApart DEF Inside
  <2>3. CASE r = Dead
    <3>1. FitsNext(r)
      BY <1>5, <1>6, <2>3 DEF FitsNext, Fits, Reopening, Vacating, Entering
    <3> QED BY <1>6, <2>3, <3>1, StaysApart DEF Inside
  <2> QED BY <2>1, <2>2, <2>3
<1>8. ASSUME NEW j \in Tasks, j # k PROVE FitsNext(task[j])
  <2>1. task[j].mod \in Modules => module'[task[j].mod] = module[task[j].mod]
    BY <1>2, <1>3, <1>8
  <2> HIDE DEF m, op, again
  <2> QED BY <1>4, <2>1, StillFits
<1>9. AppsKnown'
  BY <1>2, <1>3 DEF IInv, AppsKnown
<1>10. SharersAreTracked'
  <2>1. Attached' = Attached
    BY <1>3 DEF Attached
  <2> QED BY <1>3, <1>4, <2>1 DEF IInv, SharersAreTracked, Attached
<1> QED BY <1>4, <1>5, <1>7, <1>8, <1>9, <1>10, Change

LEMMA RefreshRaisesStep == ASSUME IInv, NEW k \in Tasks, RefreshRaises(k) PROVE IInv'
<1>1. task[k].entry \in Entries /\ task[k].old \in Links \cup {None} /\ Things
  BY TheTask DEF RefreshRaises, At, FitsNow, Fits, Reopening, TaskType
<1>2. /\ entry' \in [Entries -> EntryType]
      /\ link' \in [Links -> {"open", "broken", "closed"}]
  BY <1>1 DEF RefreshRaises, Close, Things, EntryType
<1> QED BY <1>2, EscapesStep DEF RefreshRaises

LEMMA OpenRaisesStep == ASSUME IInv, NEW k \in Tasks, OpenRaises(k) PROVE IInv'
<1>1. /\ entry' \in [Entries -> EntryType]
      /\ link' \in [Links -> {"open", "broken", "closed"}]
  BY TheTask DEF OpenRaises, Things
<1> QED BY <1>1, EscapesStep DEF OpenRaises

(* A disconnect is over: a module that stops is gone, and the modules that  *)
(* a dropped reference counted are severed.                                 *)
LEMMA AbsentType ==
    /\ Absent \in ModuleType /\ Absent.stage = "absent" /\ ~Absent.attached
    /\ \A n \in Modules :
         module \in [Modules -> ModuleType]
           => [module EXCEPT ![n] = Absent] \in [Modules -> ModuleType]
BY DEF Absent, ModuleType

LEMMA AfterStep ==
    ASSUME IInv, NEW k \in Tasks, AfterDisconnect(k),
           entry' \in [Entries -> EntryType],
           UNCHANGED <<link, listed, serverVars, begun, shared>>
    PROVE  IInv'
<1> DEFINE m == task[k].mod  op == task[k].op
           r == IF op = "update" THEN Task(op, "connect", m, None, None, task[k].again) ELSE Idle
<1>1. /\ FitsNow(task[k]) /\ task[k] \in TaskType /\ Things
      /\ op = "stop" => m \in Modules /\ module[m].stage # "deploying"
  BY TheTask DEF FitsNow, Fits
<1>2. task' = [task EXCEPT ![k] = r]
  <2>1. CASE op = "update"
    BY <2>1, TheTask DEF AfterDisconnect, Wait, Go, Task
  <2>2. CASE op # "update"
    BY <2>2 DEF AfterDisconnect, Done
  <2> QED BY <2>1, <2>2
<1>3. r \in TaskType /\ FitsNext(r) /\ \A j \in Tasks : j # k => Apart(task[j], r)
  <2>1. CASE op = "update"
    <3>1. /\ r \in TaskType /\ r.op = "update" /\ r.mod = m /\ r.pc = "connect"
          /\ r.op \notin Entering /\ r.pc \notin Inside
      BY <1>1, <2>1 DEF Task, TaskType, Entering, Inside
    <3> HIDE DEF r
    <3>2. FitsNext(r)
      BY <3>1 DEF FitsNext, Fits, Reopening, Vacating, Entering
    <3> QED BY <3>1, <3>2, StaysApart
  <2>2. CASE op # "update"
    BY <2>2, IdleFits
  <2> QED BY <2>1, <2>2
<1>4. /\ module' \in [Modules -> ModuleType]
      /\ \A n \in Modules : module'[n] = module[n]
            \/ (op = "stop" /\ n = m /\ module'[n] = Absent)
  <2>1. CASE op = "stop"
    <3>1. module' = [module EXCEPT ![m] = Absent]
      BY <2>1 DEF AfterDisconnect
    <3> QED BY <1>1, <2>1, <3>1, AbsentType DEF Things
  <2>2. CASE op # "stop"
    BY <1>1, <2>2 DEF AfterDisconnect, Things
  <2> QED BY <2>1, <2>2
<1>5. /\ \/ UNCHANGED <<tracked, refs, severed>>
         \/ severed' = severed \cup Attached \cup Acquiring /\ tracked' = FALSE /\ refs' = {}
      /\ tracked' \in BOOLEAN /\ refs' \in SUBSET Apps /\ severed' \in SUBSET Modules
      /\ severed \subseteq severed'
  <2>1. CASE op = "admin_disconnect"
    BY <1>1, <2>1 DEF AfterDisconnect, Things, Attached, Acquiring
  <2>2. CASE op # "admin_disconnect"
    BY <1>1, <2>2 DEF AfterDisconnect, Things, refVars
  <2> QED BY <2>1, <2>2
<1>6. Things'
  BY <1>1, <1>4, <1>5 DEF Things, serverVars
<1> HIDE DEF r
<1>7. ASSUME NEW j \in Tasks, j # k PROVE FitsNext(task[j])
  <2>1. task[j].mod \in Modules =>
              \/ module'[task[j].mod] = module[task[j].mod]
              \/ /\ module[task[j].mod].stage # "deploying"
                 /\ module'[task[j].mod].stage \in {"absent", "stopping"}
    BY <1>1, <1>4, AbsentType
  <2>2. task[j].op = "acquire" /\ task[j].mod \notin severed' /\ tracked
               /\ module[task[j].mod].app \in refs
             => tracked' /\ module[task[j].mod].app \in refs'
    <3>1. task[j].op = "acquire" => task[j].mod \in Acquiring
      BY Deployer DEF Entering, Acquiring
    <3> QED BY <1>5, <3>1
  <2>3. listed'[Pool(task[j])] = listed[Pool(task[j])]
    OBVIOUS
  <2> QED BY <1>5, <2>1, <2>2, <2>3, StillFits
<1>8. AppsKnown'
  <2> SUFFICES ASSUME NEW n \in Modules, module'[n].stage # "absent"
               PROVE  module'[n].app \in Apps
    BY DEF AppsKnown
  <2>1. module'[n] = module[n]
    BY <1>4, AbsentType
  <2> QED BY <2>1 DEF IInv, AppsKnown
<1>9. SharersAreTracked'
  <2> SUFFICES ASSUME NEW n \in Modules, module'[n].attached, n \notin severed'
               PROVE  /\ listed'[n] # None /\ listed'[n] = listed'[Daemon]
                      /\ tracked' /\ module'[n].app \in refs'
    BY DEF SharersAreTracked, Attached
  <2>1. module'[n] = module[n] /\ n \in Attached
    BY <1>4, AbsentType DEF Attached
  <2>2. n \notin severed /\ UNCHANGED <<tracked, refs>>
    BY <1>5, <2>1
  <2> QED BY <2>1, <2>2 DEF IInv, SharersAreTracked
<1> QED BY <1>2, <1>3, <1>6, <1>7, <1>8, <1>9, Change

LEMMA DroppedStep == ASSUME IInv, NEW k \in Tasks, Dropped(k) PROVE IInv'
<1>1. /\ entry \in [Entries -> EntryType]
      /\ entry' = [entry EXCEPT ![task[k].entry].status = "disconnected"]
  BY TheTask DEF Dropped, Status, Things
<1>2. entry' \in [Entries -> EntryType]
  BY <1>1 DEF EntryType
<1> QED BY <1>2, AfterStep DEF Dropped

LEMMA NothingToDropStep == ASSUME IInv, NEW k \in Tasks, NothingToDrop(k) PROVE IInv'
<1>1. entry' \in [Entries -> EntryType]
  BY TheTask DEF NothingToDrop, Things
<1> QED BY <1>1, AfterStep DEF NothingToDrop

LEMMA StopGivesUpStep == ASSUME IInv, NEW k \in Callers, StopGivesUp(k) PROVE IInv'
<1> DEFINE m == task[k].mod
<1>1. k \in Tasks /\ Things
  BY TheTask DEF Tasks
<1>2. m \in Modules /\ m # Daemon /\ m \in Pools /\ module[m].stage # "deploying"
  BY <1>1, TheTask, McpAssumption DEF StopGivesUp, FitsNow, Fits, Pools
<1>3. /\ listed' \in [Pools -> Entries \cup {None}] /\ listed'[m] = None
      /\ \A p \in Pools : p # m => listed'[p] = listed[p]
      /\ module' \in [Modules -> ModuleType] /\ module'[m] = Absent
      /\ \A n \in Modules : n # m => module'[n] = module[n]
  BY <1>1, <1>2, AbsentType DEF StopGivesUp, Things
<1>4. Done(k) /\ UNCHANGED <<entry, link, refVars, serverVars, begun, history>>
  BY DEF StopGivesUp
<1>5. Things'
  BY <1>1, <1>3, <1>4 DEF Things, refVars, serverVars, history
<1>6. ASSUME NEW j \in Tasks, j # k PROVE FitsNext(task[j])
  <2>1. UNCHANGED <<tracked, refs, severed>>
    BY <1>4 DEF refVars, history
  <2>2. task[j].mod \in Modules =>
              \/ module'[task[j].mod] = module[task[j].mod]
              \/ /\ module[task[j].mod].stage # "deploying"
                 /\ module'[task[j].mod].stage \in {"absent", "stopping"}
    BY <1>2, <1>3, AbsentType
  <2>3. \/ listed'[Pool(task[j])] = listed[Pool(task[j])]
        \/ Pool(task[j]) # Daemon /\ listed'[Pool(task[j])] = None
    BY <1>2, <1>3, TheTask
  <2>4. task[j].op = "acquire" /\ task[j].mod \notin severed' /\ tracked
               /\ module[task[j].mod].app \in refs
             => tracked' /\ module[task[j].mod].app \in refs'
    BY <2>1
  <2> QED BY <2>1, <2>2, <2>3, <2>4, StillFits
<1>7. AppsKnown'
  BY <1>3, AbsentType DEF IInv, AppsKnown
<1>8. SharersAreTracked'
  <2> SUFFICES ASSUME NEW n \in Modules, module'[n].attached, n \notin severed'
               PROVE  /\ listed'[n] # None /\ listed'[n] = listed'[Daemon]
                      /\ tracked' /\ module'[n].app \in refs'
    BY DEF SharersAreTracked, Attached
  <2>1. n # m
    BY <1>3, AbsentType
  <2>2. /\ module'[n] = module[n] /\ listed'[n] = listed[n] /\ listed'[Daemon] = listed[Daemon]
        /\ UNCHANGED <<tracked, refs, severed>>
    BY <1>2, <1>3, <1>4, <2>1 DEF Pools, refVars, history
  <2> QED BY <2>2 DEF IInv, SharersAreTracked, Attached
<1> QED BY <1>1, <1>4, <1>5, <1>6, <1>7, <1>8, IdleFits, Change DEF Done

LEMMA Counted ==
    ASSUME IInv, begun < MaxOps, begun' = begun + 1
    PROVE  begun' \in 0..MaxOps
<1>1. begun \in 0..MaxOps
  BY DEF IInv, Types
<1> QED BY <1>1, McpAssumption

LEMMA StopStep == ASSUME IInv, NEW k \in Callers, NEW m \in Modules, Stop(k, m) PROVE IInv'
<1> DEFINE r == Task("stop", "disconnect", m, None, None, FALSE)
<1>1. k \in Tasks /\ Things /\ m \in Pools
  BY TheTask DEF Tasks, Pools
<1>2. begun' \in 0..MaxOps /\ task' = [task EXCEPT ![k] = r]
  BY Counted DEF Stop, Begin, Begins
<1>3. UNCHANGED <<entry, link, listed, refVars, serverVars, history>>
  BY DEF Stop
<1>4. /\ module' \in [Modules -> ModuleType] /\ module'[m].stage = "stopping"
      /\ module[m].stage = "running"
      /\ \A n \in Modules : n # m => module'[n] = module[n]
      /\ \A n \in Modules : module'[n].app = module[n].app /\ module'[n].attached = module[n].attached
  <2>1. module \in [Modules -> ModuleType]
    BY <1>1 DEF Things
  <2> QED BY <2>1 DEF Stop, ModuleType
<1>5. Things'
  BY <1>1, <1>2, <1>3, <1>4 DEF Things, refVars, serverVars, history
<1>6. /\ r \in TaskType /\ r.op = "stop" /\ r.pc = "disconnect" /\ r.mod = m
      /\ r.op \notin Entering /\ r.pc \notin Inside
  BY <1>1 DEF Task, TaskType, Entering, Inside
<1> HIDE DEF r
<1>7. FitsNext(r)
  BY <1>4, <1>6 DEF FitsNext, Fits, Entering, Reopening, Vacating
<1>8. \A j \in Tasks : j # k => Apart(task[j], r)
  BY <1>1, <1>4, <1>6, BeginsApart
<1>9. ASSUME NEW j \in Tasks, j # k PROVE FitsNext(task[j])
  <2>1. UNCHANGED <<tracked, refs, severed, listed>>
    BY <1>3 DEF refVars, history
  <2>2. task[j].mod \in Modules =>
              \/ module'[task[j].mod] = module[task[j].mod]
              \/ /\ module[task[j].mod].stage # "deploying"
                 /\ module'[task[j].mod].stage \in {"absent", "stopping"}
    BY <1>4
  <2>3. task[j].op = "acquire" /\ task[j].mod \notin severed' /\ tracked
               /\ module[task[j].mod].app \in refs
             => tracked' /\ module[task[j].mod].app \in refs'
    BY <2>1
  <2> QED BY <2>1, <2>2, <2>3, StillFits
<1>10. AppsKnown' /\ SharersAreTracked'
  <2>1. AppsKnown'
    BY <1>4 DEF IInv, AppsKnown
  <2>2. \A n \in Attached' \ severed' : n \in Attached \ severed /\ module'[n].app = module[n].app
    BY <1>3, <1>4 DEF Attached, history
  <2>3. UNCHANGED <<listed, tracked, refs>>
    BY <1>3 DEF refVars
  <2>4. SharersAreTracked'
    BY <2>2, <2>3 DEF IInv, SharersAreTracked
  <2> QED BY <2>1, <2>4
<1> QED BY <1>1, <1>2, <1>5, <1>6, <1>7, <1>8, <1>9, <1>10, Change

LEMMA ReleaseStep == ASSUME IInv, NEW m \in Modules, Release(m) PROVE IInv'
<1>1. Things /\ m \in Pools /\ m # Daemon /\ Daemon \in Pools /\ module[m].stage = "running"
  BY McpAssumption DEF IInv, Types, Things, Pools, Release
<1>2. begun' \in 0..MaxOps
  BY Counted DEF Release
<1>3. UNCHANGED <<entry, link, tracked, task, serverVars, shared>>
  BY DEF Release
<1>4. /\ listed' \in [Pools -> Entries \cup {None}] /\ listed'[m] = None
      /\ \A p \in Pools : p # m => listed'[p] = listed[p]
      /\ module' \in [Modules -> ModuleType] /\ module'[m] = Absent
      /\ \A n \in Modules : n # m => module'[n] = module[n]
  BY <1>1, AbsentType DEF Release, Things
<1>5. /\ refs' = refs \ {module[m].app} /\ severed \subseteq severed' /\ severed' \in SUBSET Modules
      /\ \A n \in Attached \cup Acquiring :
            n # m /\ n \notin severed' => module[n].app # module[m].app
  BY <1>1 DEF Release, Things, Attached, Acquiring
<1>6. Things'
  BY <1>1, <1>2, <1>3, <1>4, <1>5 DEF Things, serverVars
<1>7. ASSUME NEW j \in Tasks PROVE FitsNext(task[j])
  <2>1. task[j].mod \in Modules =>
              \/ module'[task[j].mod] = module[task[j].mod]
              \/ /\ module[task[j].mod].stage # "deploying"
                 /\ module'[task[j].mod].stage \in {"absent", "stopping"}
    BY <1>1, <1>4, AbsentType
  <2>2. \/ listed'[Pool(task[j])] = listed[Pool(task[j])]
        \/ Pool(task[j]) # Daemon /\ listed'[Pool(task[j])] = None
    BY <1>1, <1>4, TheTask
  <2>3. task[j].op = "acquire" /\ task[j].mod \notin severed' /\ tracked
               /\ module[task[j].mod].app \in refs
             => tracked' /\ module[task[j].mod].app \in refs'
    <3>1. task[j].op = "acquire" => task[j].mod \in Acquiring /\ task[j].mod # m
      BY <1>1, Deployer DEF Entering, Acquiring
    <3> QED BY <1>3, <1>5, <3>1
  <2> QED BY <1>5, <2>1, <2>2, <2>3, StillFits
<1>8. TasksFit' /\ TasksApart'
  <2>1. TasksFit'
    BY <1>3, <1>7 DEF TasksFit, FitsNow, FitsNext
  <2> QED BY <1>3, <2>1 DEF IInv, TasksApart
<1>9. AppsKnown'
  BY <1>4, AbsentType DEF IInv, AppsKnown
<1>10. SharersAreTracked'
  <2> SUFFICES ASSUME NEW n \in Modules, module'[n].attached, n \notin severed'
               PROVE  /\ listed'[n] # None /\ listed'[n] = listed'[Daemon]
                      /\ tracked' /\ module'[n].app \in refs'
    BY DEF SharersAreTracked, Attached
  <2>1. n # m /\ module'[n] = module[n] /\ n \in Attached /\ n \notin severed
    BY <1>4, <1>5, AbsentType DEF Attached
  <2>2. listed'[n] = listed[n] /\ listed'[Daemon] = listed[Daemon]
    BY <1>1, <1>4, <2>1 DEF Pools
  <2>3. /\ listed[n] # None /\ listed[n] = listed[Daemon]
        /\ tracked /\ module[n].app \in refs
    BY <2>1 DEF IInv, SharersAreTracked
  <2> QED BY <1>3, <1>5, <2>1, <2>2, <2>3
<1> QED BY <1>3, <1>6, <1>8, <1>9, <1>10 DEF IInv, Types, Things

LEMMA DeployStep ==
    ASSUME IInv, NEW k \in Callers, NEW m \in Modules, NEW a \in Apps, Deploy(k, m, a)
    PROVE  IInv'
<1> DEFINE b == listed[Daemon] = None
           new == [stage |-> "deploying", app |-> a, attached |-> FALSE]
           r == Task("acquire", "acquire", m, None, None, b)
<1>1. /\ k \in Tasks /\ Things /\ m \in Pools /\ m # Daemon /\ Daemon \in Pools
      /\ \A j \in Tasks : task[j].mod # m /\ Pool(task[j]) # m
  BY TheTask, McpAssumption DEF Tasks, Pools, Deploy, FreeModules, Pool
<1>2. begun' \in 0..MaxOps
  BY Counted DEF Deploy, Begins
<1>3. /\ task' = [task EXCEPT ![k] = r] /\ severed' = severed \ {m}
      /\ UNCHANGED <<entry, link, refVars, serverVars, shared>>
  BY DEF Deploy
<1>4. new \in ModuleType /\ new.stage = "deploying" /\ ~new.attached /\ new.app = a
  BY DEF ModuleType
<1>5. /\ listed' \in [Pools -> Entries \cup {None}]
      /\ \A p \in Pools : p # m => listed'[p] = listed[p]
      /\ module' \in [Modules -> ModuleType] /\ module'[m] = new
      /\ \A n \in Modules : n # m => module'[n] = module[n]
  BY <1>1, <1>4 DEF Deploy, Things
<1>6. Things'
  BY <1>1, <1>2, <1>3, <1>5 DEF Things, refVars, serverVars
<1>7. r \in TaskType /\ r.op = "acquire" /\ r.pc = "acquire" /\ r.mod = m
  <2>1. b \in BOOLEAN
    OBVIOUS
  <2> HIDE DEF b
  <2> QED BY <1>1, <2>1 DEF Task, TaskType
<1> HIDE DEF r, new, b
<1>8. FitsNext(r)
  BY <1>4, <1>5, <1>7 DEF FitsNext, Fits, Reopening, Vacating
<1>9. ASSUME NEW j \in Tasks, j # k PROVE FitsNext(task[j]) /\ Apart(task[j], r)
  <2>1. Apart(task[j], r)
    BY <1>1, <1>7 DEF Apart, Inside
  <2>2. task[j].mod \in Modules => module'[task[j].mod] = module[task[j].mod]
    BY <1>1, <1>5
  <2>3. listed'[Pool(task[j])] = listed[Pool(task[j])]
    BY <1>1, <1>5, TheTask
  <2>4. task[j].mod \in severed => task[j].mod \in severed'
    BY <1>1, <1>3
  <2>5. task[j].op = "acquire" /\ task[j].mod \notin severed' /\ tracked
               /\ module[task[j].mod].app \in refs
             => tracked' /\ module[task[j].mod].app \in refs'
    BY <1>3 DEF refVars
  <2> QED BY <2>1, <2>2, <2>3, <2>4, <2>5, StillFits
<1>10. AppsKnown'
  BY <1>4, <1>5 DEF IInv, AppsKnown
<1>11. SharersAreTracked'
  <2> SUFFICES ASSUME NEW n \in Modules, module'[n].attached, n \notin severed'
               PROVE  /\ listed'[n] # None /\ listed'[n] = listed'[Daemon]
                      /\ tracked' /\ module'[n].app \in refs'
    BY DEF SharersAreTracked, Attached
  <2>1. n # m /\ module'[n] = module[n] /\ n \in Attached /\ n \notin severed
    BY <1>3, <1>4, <1>5 DEF Attached
  <2>2. listed'[n] = listed[n] /\ listed'[Daemon] = listed[Daemon]
    BY <1>1, <1>5, <2>1 DEF Pools
  <2> QED BY <1>3, <2>1, <2>2 DEF IInv, SharersAreTracked, refVars
<1> QED BY <1>1, <1>3, <1>6, <1>7, <1>8, <1>9, <1>10, <1>11, Change
-----------------------------------------------------------------------------
LEMMA Initially == Init => IInv
<1> SUFFICES ASSUME Init PROVE IInv
  OBVIOUS
<1>1. Idle \in TaskType /\ FitsNow(Idle) /\ Absent \in ModuleType
      /\ ~Absent.attached /\ Absent.stage = "absent"
  BY IdleFits, AbsentType
<1>2. \A k \in Tasks : task[k] = Idle
  BY DEF Init
<1>3. Types
  <2>1. [status |-> "disconnected", link |-> None] \in EntryType
    BY DEF EntryType
  <2>2. 0 \in 0..MaxOutages /\ 0 \in 0..MaxOps
    BY McpAssumption
  <2> QED BY <1>1, <2>1, <2>2 DEF Init, Types
<1>4. TasksFit
  BY <1>1, <1>2 DEF TasksFit
<1>5. TasksApart
  BY <1>2 DEF TasksApart, Apart, Idle, Task, Inside, Entering
<1>6. AppsKnown /\ SharersAreTracked
  BY <1>1 DEF Init, AppsKnown, SharersAreTracked, Attached
<1> QED BY <1>3, <1>4, <1>5, <1>6 DEF IInv

LEMMA Inductive == IInv /\ [Next]_vars => IInv'
<1> SUFFICES ASSUME IInv, [Next]_vars PROVE IInv'
  OBVIOUS
<1>1. CASE UNCHANGED vars
  <2>1. Things' /\ Alone /\ UNCHANGED task
    BY <1>1 DEF vars, serverVars, refVars, history, IInv, Types, Things, Alone
  <2> QED BY <2>1, Untouched
<1>2. ASSUME NEW k \in Tasks, Step(k) PROVE IInv'
  BY <1>2, AcquireStep, UnlistedStep, ReconnectStep, ReopenStep, GiveUpStep, RefreshStep,
     RefreshRaisesStep, ReplaceStep, ReplacedStep, ConnectStep, OpenedStep, NotOpenedStep,
     OpenRaisesStep, DropStep, DroppedStep, NothingToDropStep, AnsweredStep, FailedStep DEF Step
<1>3. CASE Tick \/ Pong \/ PingRaises
  BY <1>3, TickStep, PongStep, PingRaisesStep
<1>4. ASSUME NEW k \in Callers, Cancel(k) \/ StopGivesUp(k) \/ Administer(k) PROVE IInv'
  BY <1>4, CancelStep, StopGivesUpStep, AdministerStep DEF Tasks
<1>5. ASSUME NEW k \in Callers, NEW m \in Modules,
             Call(k, m) \/ ModuleAction(k, m) \/ Stop(k, m)
      PROVE  IInv'
  BY <1>5, CallStep, ModuleActionStep, StopStep
<1>6. ASSUME NEW k \in Callers, NEW m \in Modules, NEW a \in Apps, Deploy(k, m, a) PROVE IInv'
  BY <1>6, DeployStep
<1>7. ASSUME NEW m \in Modules, Release(m) PROVE IInv'
  BY <1>7, ReleaseStep
<1>8. CASE GoDown \/ ComeBack \/ \E t \in Links : Break(t)
  BY <1>8, ServerStep
<1> QED BY <1>1, <1>2, <1>3, <1>4, <1>5, <1>6, <1>7, <1>8 DEF Next

LEMMA Invariance == Spec => []IInv
<1> QED BY Initially, Inductive, PTL DEF Spec

LEMMA ApartInside == IInv => OneInside
<1> SUFFICES ASSUME IInv, NEW j \in Tasks, NEW k \in Tasks, task[j].pc \in Inside,
                    task[k].pc \in Inside, PoolOf(j) = PoolOf(k)
             PROVE  j = k
  BY DEF OneInside
<1>1. j # k => Apart(task[j], task[k])
  BY DEF IInv, TasksApart
<1> QED BY <1>1, PoolOfTask DEF Apart

(* Under any number of apps, modules and calls: connect, reconnect and      *)
(* disconnect of one pool never overlap (async with self._lock of           *)
(* connections.py), and every variable has its type.                        *)
THEOREM PoolTypes == Spec => []TypeOK
<1>1. IInv => TypeOK
  BY ApartInside DEF IInv, TypeOK
<1> QED BY <1>1, Invariance, PTL

(* A module that got its connection from the pool of the daemon lists the   *)
(* daemon's entry and has its app in the reference (DaemonMCPPool.acquire), *)
(* whatever attempts, calls and administrators cross it, until its sharing  *)
(* is undone.                                                               *)
THEOREM SharersAreCounted == Spec => []SharersAreTracked
<1>1. IInv => SharersAreTracked
  BY DEF IInv
<1> QED BY <1>1, Invariance, PTL
-----------------------------------------------------------------------------
(* Transports.  An entry that no module has got from the daemon belongs to  *)
(* one pool, and is reconnected by one task at a time, which has closed its *)
(* transport first.                                                         *)
EntrantsListNothing ==
    \A k \in Tasks : task[k].op \in Entering => listed[task[k].mod] = None
OnePool ==
    \A p, q \in Pools :
        listed[p] # None /\ listed[p] = listed[q] => p = q \/ listed[p] \in shared
ItsPool ==
    \A k \in Tasks, p \in Pools :
        task[k].pc \in Reopening /\ listed[p] = task[k].entry
          => p = Pool(task[k]) \/ task[k].entry \in shared
OneReopens ==
    \A j, k \in Tasks :
        task[j].pc \in Reopening /\ task[k].pc \in Reopening /\ task[j].entry = task[k].entry
          => j = k \/ task[k].entry \in shared
ClosedFirst ==
    \A k \in Tasks :
        task[k].pc = "reopen" => task[k].entry \in shared \/ ~Connected(entry[task[k].entry].link)
ItsLink ==
    \A k \in Tasks :
        task[k].pc = "refresh" =>
          task[k].entry \in shared \/ entry[task[k].entry].link = task[k].link

Owned == EntrantsListNothing /\ OnePool /\ ItsPool /\ OneReopens /\ ClosedFirst /\ ItsLink

(* A step leaves no open transport behind.                                  *)
Leaves ==
    \A t \in Links, p \in Pools :
        Holds(p, t) /\ Alive(p)' /\ link'[t] = "open" => Overwritten(t) \/ Kept(t)'

(* A step that opens nothing, and gives no pool an entry that is not shared.*)
Calm ==
    /\ \A p \in Pools : listed'[p] \in {listed[p], None} \cup shared'
    /\ shared \subseteq shared'
    /\ \A e \in Entries : entry'[e].link = entry[e].link
    /\ \A t \in Links : link[t] = "closed" => link'[t] = "closed"

LEMMA CalmOwned ==
    ASSUME IInv, Owned, Calm,
           \A k \in Tasks : task'[k].pc \in Reopening => task'[k] = task[k],
           \A k \in Tasks : task'[k].op \in Entering => listed'[task'[k].mod] = None
    PROVE  Owned'
<1>1. \A k \in Tasks : task[k].pc \in Reopening => task[k].entry \in Entries
  BY DEF IInv, TasksFit, FitsNow, Fits
<1>2. EntrantsListNothing'
  BY DEF EntrantsListNothing
<1>3. OnePool'
  <2> SUFFICES ASSUME NEW p \in Pools, NEW q \in Pools, listed'[p] # None,
                      listed'[p] = listed'[q], listed'[p] \notin shared'
               PROVE  p = q
    BY DEF OnePool
  <2>1. listed'[p] = listed[p] /\ listed'[q] = listed[q] /\ listed[p] \notin shared
    BY DEF Calm
  <2> QED BY <2>1 DEF Owned, OnePool
<1>4. ItsPool'
  <2> SUFFICES ASSUME NEW k \in Tasks, NEW p \in Pools, task'[k].pc \in Reopening,
                      listed'[p] = task'[k].entry, task'[k].entry \notin shared'
               PROVE  p = Pool(task'[k])
    BY DEF ItsPool, Pool
  <2>1. task'[k] = task[k] /\ task[k].entry \in Entries
    BY <1>1
  <2>2. listed'[p] = listed[p] /\ task[k].entry \notin shared
    BY <2>1, McpAssumption DEF Calm
  <2> QED BY <2>1, <2>2 DEF Owned, ItsPool
<1>5. OneReopens'
  <2> SUFFICES ASSUME NEW j \in Tasks, NEW k \in Tasks, task'[j].pc \in Reopening,
                      task'[k].pc \in Reopening, task'[j].entry = task'[k].entry,
                      task'[k].entry \notin shared'
               PROVE  j = k
    BY DEF OneReopens
  <2>1. task'[j] = task[j] /\ task'[k] = task[k] /\ task[k].entry \notin shared
    BY DEF Calm
  <2> QED BY <2>1 DEF Owned, OneReopens
<1>6. ClosedFirst'
  <2> SUFFICES ASSUME NEW k \in Tasks, task'[k].pc = "reopen", task'[k].entry \notin shared'
               PROVE  ~Connected(entry[task[k].entry].link)' /\ task'[k] = task[k]
    BY DEF ClosedFirst, Connected
  <2>1. task'[k] = task[k] /\ task[k].entry \in Entries /\ task[k].entry \notin shared
    BY <1>1 DEF Reopening, Calm
  <2>2. ~Connected(entry[task[k].entry].link)
    BY <2>1 DEF Owned, ClosedFirst
  <2>3. entry'[task'[k].entry].link = entry[task[k].entry].link
    BY <2>1 DEF Calm
  <2> QED BY <2>1, <2>2, <2>3 DEF Connected, Calm
<1>7. ItsLink'
  <2> SUFFICES ASSUME NEW k \in Tasks, task'[k].pc = "refresh", task'[k].entry \notin shared'
               PROVE  entry'[task'[k].entry].link = task'[k].link
    BY DEF ItsLink
  <2>1. task'[k] = task[k] /\ task[k].entry \in Entries /\ task[k].entry \notin shared
    BY <1>1 DEF Reopening, Calm
  <2> QED BY <2>1 DEF Owned, ItsLink, Calm
<1> QED BY <1>2, <1>3, <1>4, <1>5, <1>6, <1>7 DEF Owned

(* A pool that lists something goes on listing it, or is gone, or its       *)
(* transport is not open.                                                   *)
Keeping ==
    \A p \in Pools :
        Alive(p) /\ listed[p] # None =>
          \/ listed'[p] = listed[p] /\ entry'[listed[p]].link = entry[listed[p]].link
          \/ ~Alive(p)'
          \/ entry[listed[p]].link \in Links => link'[entry[listed[p]].link] # "open"

LEMMA KeepingLeaves == Keeping => Leaves
<1> SUFFICES ASSUME Keeping, NEW t \in Links, NEW p \in Pools, Holds(p, t), Alive(p)',
                    link'[t] = "open"
             PROVE  Kept(t)'
  BY DEF Leaves
<1>1. Alive(p) /\ listed[p] # None /\ entry[listed[p]].link = t
  BY DEF Holds
<1>2. listed'[p] = listed[p] /\ entry'[listed[p]].link = t
  BY <1>1 DEF Keeping
<1>3. Holds(p, t)'
  BY <1>1, <1>2 DEF Holds
<1> QED BY <1>3 DEF Kept

(* One task goes on to a place where it reopens nothing.                    *)
LEMMA CalmTask ==
    ASSUME IInv, Owned, Calm, NEW k \in Tasks, NEW r, task' = [task EXCEPT ![k] = r],
           r.pc \notin Reopening,
           \A p \in Pools : listed'[p] \in {listed[p], None},
           r.op \in Entering => task[k].op \in Entering /\ r.mod = task[k].mod
    PROVE  Owned'
<1>1. \A j \in Tasks : task'[j] = IF j = k THEN r ELSE task[j]
  BY TheTask
<1>2. ASSUME NEW j \in Tasks, task[j].op \in Entering PROVE listed'[task[j].mod] = None
  <2>1. listed[task[j].mod] = None
    BY <1>2 DEF Owned, EntrantsListNothing
  <2>2. task[j].mod \in Pools
    BY <1>2, Deployer DEF Pools
  <2> QED BY <2>1, <2>2
<1>3. \A j \in Tasks : task'[j].op \in Entering => listed'[task'[j].mod] = None
  BY <1>1, <1>2
<1>4. \A j \in Tasks : task'[j].pc \in Reopening => task'[j] = task[j]
  BY <1>1
<1> QED BY <1>3, <1>4, CalmOwned

LEMMA CalmGo ==
    ASSUME IInv, Owned, Calm, NEW k \in Tasks, NEW pc, NEW e, NEW t,
           Go(k, pc, e, t) \/ Done(k), pc \notin Reopening,
           \A p \in Pools : listed'[p] \in {listed[p], None}
    PROVE  Owned'
<1>1. CASE Go(k, pc, e, t)
  <2> DEFINE r == Task(task[k].op, pc, task[k].mod, e, t, task[k].again)
  <2>1. task' = [task EXCEPT ![k] = r]
    BY <1>1, TheTask DEF Go
  <2>2. r.pc = pc /\ r.op = task[k].op /\ r.mod = task[k].mod
    BY DEF Task
  <2> HIDE DEF r
  <2> QED BY <2>1, <2>2, CalmTask
<1>2. CASE Done(k)
  <2>1. Idle.pc \notin Reopening /\ Idle.op \notin Entering
    BY DEF Idle, Task, Reopening, Entering
  <2> QED BY <1>2, <2>1, CalmTask DEF Done
<1> QED BY <1>1, <1>2

(* Nothing happens to a transport, or to what the pools list.               *)
Still ==
    /\ UNCHANGED <<listed, link, shared>>
    /\ \A e \in Entries : entry'[e].link = entry[e].link

LEMMA StillCalm ==
    ASSUME IInv, Still
    PROVE  Calm /\ Leaves /\ \A p \in Pools : listed'[p] \in {listed[p], None}
<1>1. Calm /\ \A p \in Pools : listed'[p] \in {listed[p], None}
  BY DEF Still, Calm
<1>2. \A p \in Pools : listed[p] # None => listed[p] \in Entries
  BY DEF IInv, Types
<1>3. Keeping
  BY <1>2 DEF Still, Keeping
<1> QED BY <1>1, <1>3, KeepingLeaves

LEMMA StatusStill ==
    ASSUME IInv, NEW e, NEW st, Status(e, st)
    PROVE  \A f \in Entries : entry'[f].link = entry[f].link
BY DEF Status, IInv, Types, EntryType

LEMMA QuietSteps ==
    ASSUME IInv, Owned, NEW k \in Tasks,
           Unlisted(k) \/ GiveUp(k) \/ Replaced(k) \/ Connect(k) \/ Answered(k)
             \/ Cancel(k) \/ Dropped(k) \/ NothingToDrop(k)
    PROVE  Owned' /\ Leaves
<1>1. Still
  <2>1. CASE GiveUp(k) \/ Replaced(k) \/ Dropped(k)
    BY <2>1, StatusStill DEF GiveUp, Replaced, Dropped, Still, history
  <2>2. CASE Unlisted(k) \/ Connect(k) \/ Answered(k) \/ Cancel(k) \/ NothingToDrop(k)
    BY <2>2 DEF Unlisted, Connect, Answered, Cancel, NothingToDrop, Still, history
  <2> QED BY <2>1, <2>2
<1>2. PICK pc \in {"connect", "open"} : Go(k, pc, None, None) \/ Done(k)
  BY DEF Unlisted, GiveUp, Replaced, Connect, Answered, Cancel, Dropped, NothingToDrop,
         FailReconnect, AfterDisconnect, Wait
<1>3. pc \notin Reopening
  BY DEF Reopening
<1> QED BY <1>1, <1>2, <1>3, StillCalm, CalmGo

LEMMA FailedLeaves == ASSUME IInv, Owned, NEW k \in Tasks, Failed(k) PROVE Owned' /\ Leaves
<1>1. Still
  BY DEF Failed, Still, history
<1> DEFINE r == Retry(task[k].mod)
<1>2. CASE Done(k)
  <2>1. "idle" \notin Reopening
    BY DEF Reopening
  <2> QED BY <1>1, <1>2, <2>1, StillCalm, CalmGo
<1>3. CASE task' = [task EXCEPT ![k] = r]
  <2>1. r.pc \notin Reopening /\ r.op \notin Entering
    BY DEF Retry, Task, Reopening, Entering
  <2> HIDE DEF r
  <2> QED BY <1>1, <1>3, <2>1, StillCalm, CalmTask
<1>4. task' = [task EXCEPT ![k] = Retry(@.mod)] => task' = [task EXCEPT ![k] = r]
  BY TheTask
<1> QED BY <1>2, <1>3, <1>4 DEF Failed

LEMMA EscapesTo ==
    ASSUME IInv, NEW k \in Tasks, Escapes(k)
    PROVE  \E r : /\ task' = [task EXCEPT ![k] = r] /\ r.pc \notin Reopening
                  /\ r.op \in Entering => task[k].op \in Entering /\ r.mod = task[k].mod
<1> DEFINE m == task[k].mod  op == task[k].op  again == task[k].again
           Private == Task("private", "connect", m, None, None, FALSE)
           Dead == Task(op, "dead", m, None, None, FALSE)
<1>1. CASE op = "acquire" /\ again
  <2>1. task' = [task EXCEPT ![k] = Private]
    BY <1>1, TheTask DEF Escapes
  <2>2. Private.pc \notin Reopening /\ Private.mod = m
    BY DEF Task, Reopening
  <2> HIDE DEF Private
  <2> QED BY <1>1, <2>1, <2>2 DEF Entering
<1>2. CASE op = "ping" /\ ~again
  <2>1. task' = [task EXCEPT ![k] = Dead]
    BY <1>2, TheTask DEF Escapes
  <2>2. Dead.pc \notin Reopening /\ Dead.mod = m /\ Dead.op = op
    BY DEF Task, Reopening
  <2> HIDE DEF Dead
  <2> QED BY <2>1, <2>2
<1>3. CASE ~(op = "acquire" /\ again) /\ ~(op = "ping" /\ ~again)
  <2>1. task' = [task EXCEPT ![k] = Idle]
    BY <1>3, TheTask DEF Escapes
  <2>2. Idle.pc \notin Reopening /\ Idle.op \notin Entering
    BY DEF Idle, Task, Reopening, Entering
  <2> QED BY <2>1, <2>2
<1> QED BY <1>1, <1>2, <1>3

LEMMA OpenRaisesLeaves == ASSUME IInv, Owned, NEW k \in Tasks, OpenRaises(k) PROVE Owned' /\ Leaves
<1>1. Still
  BY DEF OpenRaises, Still, history
<1>2. PICK r : /\ task' = [task EXCEPT ![k] = r] /\ r.pc \notin Reopening
               /\ r.op \in Entering => task[k].op \in Entering /\ r.mod = task[k].mod
  BY EscapesTo DEF OpenRaises
<1> QED BY <1>1, <1>2, StillCalm, CalmTask

(* The entry gets its former transport back: the one that it loses is that  *)
(* of this attempt, or the entry is shared.                                 *)
LEMMA RefreshRaisesLeaves ==
    ASSUME IInv, Owned, NEW k \in Tasks, RefreshRaises(k)
    PROVE  Owned' /\ Leaves
<1> DEFINE e == task[k].entry  t == task[k].link  old == task[k].old
<1>1. e \in Entries /\ Things /\ task[k].pc = "refresh" /\ task \in [Tasks -> TaskType]
  BY TheTask DEF RefreshRaises, At, FitsNow, Fits, Reopening
<1>2. /\ \A u \in Links : link'[u] = IF u = t THEN "closed" ELSE link[u]
      /\ \A f \in Entries : entry'[f].link = IF f = e THEN old ELSE entry[f].link
      /\ UNCHANGED <<listed, shared>>
  BY <1>1 DEF RefreshRaises, Close, Things, EntryType, history
<1>3. PICK r : /\ task' = [task EXCEPT ![k] = r] /\ r.pc \notin Reopening
               /\ r.op \in Entering => task[k].op \in Entering /\ r.mod = task[k].mod
  BY EscapesTo DEF RefreshRaises
<1>4. \A j \in Tasks : task'[j] = IF j = k THEN r ELSE task[j]
  BY <1>1, <1>3
<1>5. EntrantsListNothing' /\ OnePool'
  BY <1>2, <1>3, <1>4 DEF Owned, EntrantsListNothing, OnePool
<1>6. ASSUME NEW j \in Tasks, task'[j].pc \in Reopening
      PROVE  /\ task'[j] = task[j] /\ task[j].entry \in Entries
             /\ task[j].entry = e => e \in shared
  <2>1. j # k /\ task'[j] = task[j]
    BY <1>3, <1>4, <1>6
  <2>2. task[j].entry = e => e \in shared
    BY <1>1, <1>6, <2>1 DEF Owned, OneReopens, Reopening
  <2> QED BY <1>6, <2>1, <2>2, TheTask DEF FitsNow, Fits
<1>7. ItsPool'
  <2> SUFFICES ASSUME NEW j \in Tasks, NEW p \in Pools, task'[j].pc \in Reopening,
                      listed'[p] = task'[j].entry
               PROVE  p = Pool(task'[j]) \/ task'[j].entry \in shared'
    BY DEF ItsPool, Pool
  <2> QED BY <1>2, <1>6 DEF Owned, ItsPool
<1>8. OneReopens'
  BY <1>2, <1>6 DEF Owned, OneReopens
<1>9. ClosedFirst'
  <2> SUFFICES ASSUME NEW j \in Tasks, task'[j].pc = "reopen", task'[j].entry \notin shared'
               PROVE  ~(entry'[task'[j].entry].link \in Links
                        /\ link'[entry'[task'[j].entry].link] # "closed")
    BY DEF ClosedFirst, Connected
  <2>1. task'[j] = task[j] /\ task[j].entry \in Entries /\ task[j].entry # e
    BY <1>2, <1>6 DEF Reopening
  <2>2. ~Connected(entry[task[j].entry].link)
    BY <1>2, <2>1 DEF Owned, ClosedFirst
  <2> QED BY <1>2, <2>1, <2>2 DEF Connected
<1>10. ItsLink'
  <2> SUFFICES ASSUME NEW j \in Tasks, task'[j].pc = "refresh", task'[j].entry \notin shared'
               PROVE  entry'[task'[j].entry].link = task'[j].link
    BY DEF ItsLink
  <2>1. task'[j] = task[j] /\ task[j].entry \in Entries /\ task[j].entry # e
    BY <1>2, <1>6 DEF Reopening
  <2> QED BY <1>2, <2>1 DEF Owned, ItsLink
<1>11. Leaves
  <2> SUFFICES ASSUME NEW u \in Links, NEW p \in Pools, Holds(p, u), Alive(p)', link'[u] = "open"
               PROVE  Overwritten(u) \/ Kept(u)'
    BY DEF Leaves
  <2>1. listed[p] \in Entries /\ entry[listed[p]].link = u
    BY <1>1 DEF Holds, Things
  <2>2. CASE entry'[listed[p]].link = u
    <3>1. Holds(p, u)'
      BY <1>2, <2>1, <2>2 DEF Holds
    <3> QED BY <3>1 DEF Kept
  <2>3. CASE entry'[listed[p]].link # u
    <3>1. listed[p] = e /\ u # t
      BY <1>2, <2>1, <2>3
    <3>2. e \in shared
      BY <1>1, <2>1, <3>1 DEF Owned, ItsLink
    <3> QED BY <1>1, <2>1, <2>3, <3>1, <3>2 DEF Overwritten, At
  <2> QED BY <2>2, <2>3
<1> QED BY <1>5, <1>7, <1>8, <1>9, <1>10, <1>11 DEF Owned

LEMMA MonitorLeaves == ASSUME IInv, Owned, Tick \/ Pong \/ PingRaises PROVE Owned' /\ Leaves
<1>0. Monitor \in Tasks
  BY DEF Tasks
<1>1. CASE Tick
  <2>1. Still
    BY <1>1 DEF Tick, Still, history
  <2> DEFINE e == listed[Daemon]
             p == Task("ping", "answer", Daemon, e, entry[e].link, TRUE)
             q == Task("ping", "reconnect", Daemon, None, None, entry[e].status = "connected")
  <2>2. PICK r \in {p, q} : task' = [task EXCEPT ![Monitor] = r]
    BY <1>1 DEF Tick
  <2>3. r.pc \notin Reopening /\ r.op \notin Entering
    BY DEF Task, Reopening, Entering
  <2> HIDE DEF p, q
  <2> QED BY <1>0, <2>1, <2>2, <2>3, StillCalm, CalmTask
<1>2. CASE Pong
  <2>1. Still
    BY <1>2, StatusStill DEF Pong, Still, history
  <2>2. "reconnect" \notin Reopening
    BY DEF Reopening
  <2> QED BY <1>0, <1>2, <2>1, <2>2, StillCalm, CalmGo DEF Pong, Wait
<1>3. CASE PingRaises
  <2>1. Still
    BY <1>3 DEF PingRaises, Still, history
  <2>2. "idle" \notin Reopening
    BY DEF Reopening
  <2> QED BY <1>0, <1>3, <2>1, <2>2, StillCalm, CalmGo DEF PingRaises
<1> QED BY <1>1, <1>2, <1>3

(* A call or an operation that is no deployment begins.                     *)
LEMMA BeginningLeaves ==
    ASSUME IInv, Owned, Still, NEW k \in Tasks, NEW r, task' = [task EXCEPT ![k] = r],
           r.pc \notin Reopening, r.op \notin Entering
    PROVE  Owned' /\ Leaves
BY StillCalm, CalmTask

LEMMA CallsLeave ==
    ASSUME IInv, Owned, NEW k \in Callers, NEW m \in Modules,
           Call(k, m) \/ ModuleAction(k, m) \/ Stop(k, m)
    PROVE  Owned' /\ Leaves
<1>0. k \in Tasks
  BY DEF Tasks
<1>1. Still
  BY DEF Call, ModuleAction, Stop, Still, history
<1>2. CASE Call(k, m)
  <2> DEFINE p == Task("call", "answer", m, listed[m], entry[listed[m]].link, FALSE)
             q == Retry(m)
  <2>1. PICK r \in {p, q} : task' = [task EXCEPT ![k] = r]
    BY <1>2 DEF Call
  <2>2. r.pc \notin Reopening /\ r.op \notin Entering
    BY DEF Retry, Task, Reopening, Entering
  <2> HIDE DEF p, q
  <2> QED BY <1>0, <1>1, <2>1, <2>2, BeginningLeaves
<1>3. CASE ModuleAction(k, m) \/ Stop(k, m)
  <2>1. PICK op \in {"reconnect", "connect", "disconnect", "stop"},
             pc \in {"reconnect", "connect", "disconnect"} :
          task' = [task EXCEPT ![k] = Task(op, pc, m, None, None, FALSE)]
    BY <1>3 DEF ModuleAction, Stop, Begin
  <2> DEFINE r == Task(op, pc, m, None, None, FALSE)
  <2>2. r.pc \notin Reopening /\ r.op \notin Entering
    BY DEF Task, Reopening, Entering
  <2> HIDE DEF r
  <2> QED BY <1>0, <1>1, <2>1, <2>2, BeginningLeaves DEF r
<1> QED BY <1>2, <1>3

LEMMA AdministerLeaves == ASSUME IInv, Owned, NEW k \in Callers, Administer(k) PROVE Owned' /\ Leaves
<1>1. Still /\ k \in Tasks
  BY DEF Administer, Still, history, Tasks
<1>2. PICK op \in {"admin_connect", "admin_disconnect", "update"}, pc \in {"connect", "disconnect"} :
        task' = [task EXCEPT ![k] = Task(op, pc, Daemon, None, None, FALSE)]
  BY DEF Administer, Begin
<1> DEFINE r == Task(op, pc, Daemon, None, None, FALSE)
<1>3. r.pc \notin Reopening /\ r.op \notin Entering
  BY DEF Task, Reopening, Entering
<1> HIDE DEF r
<1> QED BY <1>1, <1>2, <1>3, BeginningLeaves DEF r

(* Steps that change what the pools list, and open nothing.                 *)
LEMMA AttachLeaves ==
    ASSUME IInv, Owned, NEW k \in Tasks, task[k].op = "acquire", NEW e \in Entries,
           Attach(task[k].mod, e), Done(k), link' = link,
           \A f \in Entries : entry'[f].link = entry[f].link
    PROVE  Owned' /\ Leaves
<1> DEFINE m == task[k].mod
<1>1. m \in Modules /\ \A j \in Tasks : j # k => task[j].mod # m
  BY Deployer DEF Entering
<1>2. /\ \A p \in Pools : listed'[p] = IF p = m THEN e ELSE listed[p]
      /\ shared' = shared \cup {e}
  BY <1>1, TheTask DEF Attach, Things, Pools
<1>3. \A j \in Tasks : task'[j] = IF j = k THEN Idle ELSE task[j]
  BY TheTask DEF Done
<1>4. Calm
  BY <1>2 DEF Calm
<1>5. ASSUME NEW j \in Tasks, task'[j].op \in Entering PROVE listed'[task'[j].mod] = None
  <2>1. j # k /\ task[j].op \in Entering
    BY <1>3, <1>5 DEF Idle, Task, Entering
  <2>2. listed[task[j].mod] = None /\ task[j].mod \in Pools /\ task[j].mod # m
    BY <1>1, <2>1, Deployer DEF Owned, EntrantsListNothing, Pools
  <2> QED BY <1>2, <1>3, <2>1, <2>2
<1>6. \A j \in Tasks : task'[j].pc \in Reopening => task'[j] = task[j]
  BY <1>3 DEF Idle, Task, Reopening
<1>7. Owned'
  BY <1>4, <1>5, <1>6, CalmOwned
<1>8. listed[m] = None
  BY DEF Owned, EntrantsListNothing, Entering
<1>9. Keeping
  <2>1. \A p \in Pools : listed[p] # None => listed'[p] = listed[p] /\ listed[p] \in Entries
    BY <1>2, <1>8, TheTask DEF Things
  <2> QED BY <2>1 DEF Keeping
<1> QED BY <1>7, <1>9, KeepingLeaves

LEMMA AcquireLeaves == ASSUME IInv, Owned, NEW k \in Tasks, Acquire(k) PROVE Owned' /\ Leaves
<1> DEFINE m == task[k].mod  e == listed[Daemon]
<1>1. task[k].op = "acquire" /\ e \in Entries \cup {None}
  BY TheTask DEF Acquire, At, FitsNow, Fits, Things, Pools
<1>2. CASE tracked /\ e # None /\ entry[e].status = "connected"
  BY <1>1, <1>2, AttachLeaves DEF Acquire
<1>3. CASE ~(tracked /\ e # None /\ entry[e].status = "connected")
  <2>1. Still
    BY <1>3 DEF Acquire, Still, history
  <2>2. PICK pc \in {"connect", "reconnect"} : Go(k, pc, None, None)
    BY <1>3 DEF Acquire, Wait
  <2>3. pc \notin Reopening
    BY DEF Reopening
  <2> QED BY <2>1, <2>2, <2>3, StillCalm, CalmGo
<1> QED BY <1>2, <1>3

LEMMA RefreshLeaves == ASSUME IInv, Owned, NEW k \in Tasks, Refresh(k) PROVE Owned' /\ Leaves
<1>1. /\ link' = link /\ \A f \in Entries : entry'[f].link = entry[f].link
      /\ task[k].entry \in Entries
  BY StatusStill, TheTask DEF Refresh, At, FitsNow, Fits, Reopening
<1>2. CASE task[k].op = "acquire"
  BY <1>1, <1>2, AttachLeaves DEF Refresh
<1>3. CASE task[k].op # "acquire"
  <2>1. Still
    BY <1>1, <1>3 DEF Refresh, Still, history
  <2>2. Go(k, "answer", task[k].entry, entry[task[k].entry].link) \/ Done(k)
    BY DEF Refresh
  <2>3. "answer" \notin Reopening
    BY DEF Reopening
  <2> QED BY <2>1, <2>2, <2>3, StillCalm, CalmGo
<1> QED BY <1>2, <1>3

LEMMA PopLeaves ==
    ASSUME IInv, Owned, NEW k \in Tasks, Replace(k) \/ Drop(k)
    PROVE  Owned' /\ Leaves
<1> DEFINE p == PoolOf(k)  e == listed[p]
<1>1. PICK pc \in {"replace", "drop"} : Pop(k, pc)
  BY DEF Replace, Drop
<1>2. /\ p \in Pools /\ Things
      /\ \A q \in Pools : listed'[q] = IF q = p THEN None ELSE listed[q]
      /\ \A t \in Links : link'[t] = IF t = entry[e].link THEN "closed" ELSE link[t]
      /\ entry' = entry /\ shared' = shared /\ Go(k, pc, e, None)
  BY <1>1, TheTask DEF Pop, Close, Things
<1>3. Calm /\ \A q \in Pools : listed'[q] \in {listed[q], None}
  BY <1>2 DEF Calm
<1>4. pc \notin Reopening
  BY DEF Reopening
<1>5. Owned'
  BY <1>2, <1>3, <1>4, CalmGo
<1>6. Keeping
  BY <1>2 DEF Keeping
<1> QED BY <1>5, <1>6, KeepingLeaves

LEMMA StopGivesUpLeaves ==
    ASSUME IInv, Owned, NEW k \in Callers, StopGivesUp(k)
    PROVE  Owned' /\ Leaves
<1> DEFINE m == task[k].mod
<1>1. k \in Tasks /\ Things
  BY TheTask DEF Tasks
<1>2. m \in Modules
  BY <1>1, TheTask DEF StopGivesUp, FitsNow, Fits
<1>3. /\ \A p \in Pools : listed'[p] = IF p = m THEN None ELSE listed[p]
      /\ module'[m].stage = "absent" /\ Done(k) /\ UNCHANGED <<entry, link, shared>>
  BY <1>1, <1>2 DEF StopGivesUp, Things, history, Absent
<1>4. Calm /\ \A p \in Pools : listed'[p] \in {listed[p], None}
  BY <1>3 DEF Calm
<1>5. "idle" \notin Reopening
  BY DEF Reopening
<1>6. Owned'
  BY <1>1, <1>3, <1>4, <1>5, CalmGo
<1>7. Keeping
  BY <1>2, <1>3 DEF Keeping, Alive
<1> QED BY <1>6, <1>7, KeepingLeaves

LEMMA ReleaseLeaves == ASSUME IInv, Owned, NEW m \in Modules, Release(m) PROVE Owned' /\ Leaves
<1>1. /\ \A p \in Pools : listed'[p] = IF p = m THEN None ELSE listed[p]
      /\ module'[m].stage = "absent" /\ UNCHANGED <<entry, link, task, shared>>
  BY DEF Release, Absent, IInv, Types
<1>2. Calm
  BY <1>1 DEF Calm
<1>3. ASSUME NEW k \in Tasks, task[k].op \in Entering PROVE listed'[task[k].mod] = None
  <2>1. listed[task[k].mod] = None /\ task[k].mod \in Pools
    BY <1>3, Deployer DEF Owned, EntrantsListNothing, Pools
  <2> QED BY <1>1, <2>1
<1>4. Owned'
  BY <1>1, <1>2, <1>3, CalmOwned
<1>5. Keeping
  BY <1>1 DEF Keeping, Alive
<1> QED BY <1>4, <1>5, KeepingLeaves

LEMMA DeployLeaves ==
    ASSUME IInv, Owned, NEW k \in Callers, NEW m \in Modules, NEW a \in Apps, Deploy(k, m, a)
    PROVE  Owned' /\ Leaves
<1>1. k \in Tasks /\ Things /\ module[m].stage = "absent" /\ task \in [Tasks -> TaskType]
  BY TheTask DEF Tasks, Deploy, FreeModules
<1>2. /\ \A p \in Pools : listed'[p] = IF p = m THEN None ELSE listed[p]
      /\ UNCHANGED <<entry, link, shared>>
  BY <1>1 DEF Deploy, Things
<1>3. task'[k].mod = m /\ task'[k].pc = "acquire" /\ \A j \in Tasks : j # k => task'[j] = task[j]
  BY <1>1 DEF Deploy, Task
<1>4. Calm
  BY <1>2 DEF Calm
<1>5. ASSUME NEW j \in Tasks, task'[j].op \in Entering PROVE listed'[task'[j].mod] = None
  <2>1. CASE j = k
    BY <1>2, <1>3, <2>1 DEF Pools
  <2>2. CASE j # k
    <3>1. listed[task[j].mod] = None /\ task[j].mod \in Pools
      BY <1>3, <1>5, <2>2, Deployer DEF Owned, EntrantsListNothing, Pools
    <3> QED BY <1>2, <1>3, <2>2, <3>1
  <2> QED BY <2>1, <2>2
<1>6. \A j \in Tasks : task'[j].pc \in Reopening => task'[j] = task[j]
  BY <1>3 DEF Reopening
<1>7. Owned'
  BY <1>4, <1>5, <1>6, CalmOwned
<1>8. Keeping
  BY <1>1, <1>2, McpAssumption DEF Keeping, Alive
<1> QED BY <1>7, <1>8, KeepingLeaves

LEMMA ServerLeaves ==
    ASSUME IInv, Owned, GoDown \/ ComeBack \/ (\E t \in Links : Break(t)) \/ UNCHANGED vars
    PROVE  Owned' /\ Leaves
<1>1. /\ UNCHANGED <<listed, entry, task, shared>>
      /\ \A t \in Links : link[t] = "closed" => link'[t] = "closed"
  <2>1. CASE GoDown \/ ComeBack \/ UNCHANGED vars
    BY <2>1 DEF GoDown, ComeBack, vars, history
  <2>2. CASE \E t \in Links : Break(t)
    <3>1. PICK t \in Links : Break(t)
      BY <2>2
    <3> QED BY <3>1 DEF Break, Open, history, IInv, Types
  <2> QED BY <2>1, <2>2
<1>2. Calm /\ Keeping
  BY <1>1 DEF Calm, Keeping
<1>3. Owned'
  BY <1>1, <1>2, CalmOwned DEF Owned, EntrantsListNothing
<1> QED BY <1>2, <1>3, KeepingLeaves

-----------------------------------------------------------------------------
(* A reconnect begins: nobody else is at an entry that is not shared, as    *)
(* the lock of its pool is free.                                            *)
LEMMA ReconnectLeaves == ASSUME IInv, Owned, NEW k \in Tasks, Reconnect(k) PROVE Owned' /\ Leaves
<1> DEFINE e == listed[PoolOf(k)]  r == Task(task[k].op, "reopen", task[k].mod, e, None, task[k].again)
<1>1. /\ PoolOf(k) = Pool(task[k]) /\ Pool(task[k]) \in Pools /\ e \in Entries /\ Things
      /\ task[k].pc = "reconnect" /\ LockFree(PoolOf(k)) /\ task \in [Tasks -> TaskType]
  BY TheTask DEF Reconnect, At
<1>2. /\ \A t \in Links : link'[t] = IF t = entry[e].link THEN "closed" ELSE link[t]
      /\ UNCHANGED <<entry, listed, shared>>
  BY <1>1 DEF Reconnect, Close, history
<1>3. \A j \in Tasks : task'[j] = IF j = k THEN r ELSE task[j]
  BY <1>1 DEF Reconnect, Go, Task
<1>4. /\ r.op = task[k].op /\ r.mod = task[k].mod /\ r.pc = "reopen" /\ r.entry = e
      /\ Pool(r) = Pool(task[k])
  BY DEF Task, Pool
<1> HIDE DEF r
<1>5. \A p \in Pools : listed[p] = e => p = Pool(r) \/ e \in shared
  BY <1>1, <1>4, McpAssumption DEF Owned, OnePool
<1>6. ASSUME NEW j \in Tasks, j # k, task[j].pc \in Reopening, task[j].entry = e PROVE e \in shared
  <2>1. Pool(task[j]) = Pool(task[k]) \/ e \in shared
    BY <1>1, <1>6 DEF Owned, ItsPool
  <2>2. Pool(task[j]) # Pool(task[k])
    BY <1>1, <1>6, PoolOfTask DEF LockFree, Inside, Reopening
  <2> QED BY <2>1, <2>2
<1>7. EntrantsListNothing' /\ OnePool'
  BY <1>2, <1>3, <1>4 DEF Owned, EntrantsListNothing, OnePool
<1>8. ItsPool'
  <2> SUFFICES ASSUME NEW j \in Tasks, NEW p \in Pools, task'[j].pc \in Reopening,
                      listed'[p] = task'[j].entry
               PROVE  p = Pool(task'[j]) \/ task'[j].entry \in shared'
    BY DEF ItsPool, Pool
  <2>1. CASE j = k
    BY <1>2, <1>3, <1>4, <1>5, <2>1
  <2>2. CASE j # k
    BY <1>2, <1>3, <2>2 DEF Owned, ItsPool
  <2> QED BY <2>1, <2>2
<1>9. OneReopens'
  BY <1>2, <1>3, <1>4, <1>6 DEF Owned, OneReopens
<1>10. ClosedFirst'
  <2> SUFFICES ASSUME NEW j \in Tasks, task'[j].pc = "reopen", task'[j].entry \notin shared'
               PROVE  ~(entry'[task'[j].entry].link \in Links
                        /\ link'[entry'[task'[j].entry].link] # "closed")
    BY DEF ClosedFirst, Connected
  <2>1. CASE j = k
    BY <1>2, <1>3, <1>4, <2>1
  <2>2. CASE j # k
    BY <1>2, <1>3, <2>2 DEF Owned, ClosedFirst, Connected
  <2> QED BY <2>1, <2>2
<1>11. Keeping
  BY <1>2 DEF Keeping
<1>12. ItsLink'
  BY <1>2, <1>3, <1>4 DEF Owned, ItsLink
<1> QED BY <1>7, <1>8, <1>9, <1>10, <1>11, <1>12, KeepingLeaves DEF Owned

(* An attempt connects.  The transport that it writes over was closed, or   *)
(* the entry is shared.                                                     *)
LEMMA NewLinkIsFree ==
    ASSUME FreeLinks # {}
    PROVE  /\ NewLink \in Links /\ link[NewLink] = "closed"
           /\ \A e \in Entries : e \in UsedEntries => entry[e].link # NewLink
<1>1. NewLink \in FreeLinks
  BY FirstIsMember DEF NewLink
<1> QED BY <1>1 DEF FreeLinks, UsedLinks

(* What a pool lists or a task has is used.                                 *)
LEMMA Used ==
    /\ \A p \in Pools : listed[p] \in UsedEntries
    /\ \A k \in Tasks : task[k].entry \in UsedEntries
BY DEF UsedEntries

LEMMA ReopenLeaves == ASSUME IInv, Owned, NEW k \in Tasks, Reopen(k) PROVE Owned' /\ Leaves
<1> DEFINE e == task[k].entry  was == entry[e].link
           r == [task[k] EXCEPT !.pc = "refresh", !.link = NewLink,
                                !.old = IF Connected(was) THEN was ELSE None]
<1>1. /\ e \in Entries /\ Things /\ task[k].pc = "reopen" /\ task \in [Tasks -> TaskType]
      /\ FreeLinks # {} /\ task[k] \in TaskType
  BY TheTask DEF Reopen, At, FitsNow, Fits, Reopening
<1>2. /\ \A t \in Links : link'[t] = IF t = NewLink THEN "open" ELSE link[t]
      /\ \A f \in Entries : f # e => entry'[f].link = entry[f].link
      /\ UNCHANGED <<listed, shared>>
  BY <1>1 DEF Reopen, Things, history
<1>3. \A j \in Tasks : task'[j] = IF j = k THEN r ELSE task[j]
  BY <1>1 DEF Reopen
<1>4. /\ r.op = task[k].op /\ r.mod = task[k].mod /\ r.pc = "refresh" /\ r.entry = e
      /\ r.link = NewLink /\ Pool(r) = Pool(task[k])
  BY <1>1 DEF TaskType, Pool
<1> HIDE DEF r
<1>5. NewLink \in Links /\ \A f \in Entries : f \in UsedEntries => entry[f].link # NewLink
  BY <1>1, NewLinkIsFree
<1>c. entry'[e].link = NewLink
  BY <1>1 DEF Reopen, Things, EntryType
<1>6. EntrantsListNothing' /\ OnePool'
  BY <1>2, <1>3, <1>4 DEF Owned, EntrantsListNothing, OnePool
<1>7. ItsPool' /\ OneReopens'
  <2>1. ASSUME NEW j \in Tasks PROVE
          /\ task'[j].entry = task[j].entry /\ Pool(task'[j]) = Pool(task[j])
          /\ task'[j].pc \in Reopening <=> task[j].pc \in Reopening
    BY <1>1, <1>3, <1>4 DEF Reopening
  <2>2. ItsPool'
    <3> SUFFICES ASSUME NEW j \in Tasks, NEW p \in Pools, task'[j].pc \in Reopening,
                        listed'[p] = task'[j].entry
                 PROVE  p = Pool(task'[j]) \/ task'[j].entry \in shared'
      BY DEF ItsPool, Pool
    <3> QED BY <1>2, <2>1 DEF Owned, ItsPool
  <2>3. OneReopens'
    BY <1>2, <2>1 DEF Owned, OneReopens
  <2> QED BY <2>2, <2>3
<1>8. ClosedFirst'
  <2> SUFFICES ASSUME NEW j \in Tasks, task'[j].pc = "reopen", task'[j].entry \notin shared'
               PROVE  ~(entry'[task'[j].entry].link \in Links
                        /\ link'[entry'[task'[j].entry].link] # "closed")
    BY DEF ClosedFirst, Connected
  <2>1. j # k /\ task'[j] = task[j] /\ task[j].pc = "reopen" /\ task[j].entry \in Entries
    BY <1>3, <1>4, TheTask DEF FitsNow, Fits, Reopening
  <2>2. task[j].entry # e
    BY <1>1, <1>2, <2>1 DEF Owned, OneReopens, Reopening
  <2>3. task[j].entry \in UsedEntries
    BY Used
  <2>4. ~Connected(entry[task[j].entry].link)
    BY <1>2, <2>1 DEF Owned, ClosedFirst
  <2> QED BY <1>2, <1>5, <2>1, <2>2, <2>3, <2>4 DEF Connected
<1>9. ItsLink'
  <2> SUFFICES ASSUME NEW j \in Tasks, task'[j].pc = "refresh", task'[j].entry \notin shared'
               PROVE  entry'[task'[j].entry].link = task'[j].link
    BY DEF ItsLink
  <2>1. CASE j = k
    BY <1>3, <1>4, <1>c, <2>1
  <2>2. CASE j # k
    <3>1. task'[j] = task[j] /\ task[j].pc = "refresh" /\ task[j].entry \in Entries
      BY <1>3, <2>2, TheTask DEF FitsNow, Fits, Reopening
    <3>2. task[j].entry # e
      BY <1>1, <1>2, <2>2, <3>1 DEF Owned, OneReopens, Reopening
    <3> QED BY <1>2, <3>1, <3>2 DEF Owned, ItsLink
  <2> QED BY <2>1, <2>2
<1>10. Leaves
  <2> SUFFICES ASSUME NEW t \in Links, NEW p \in Pools, Holds(p, t), Alive(p)', link'[t] = "open"
               PROVE  Overwritten(t) \/ Kept(t)'
    BY DEF Leaves
  <2>1. listed[p] \in Entries /\ entry[listed[p]].link = t /\ listed[p] \in UsedEntries
    BY <1>1, Used DEF Holds, Things
  <2>2. link[t] = "open"
    BY <1>2, <1>5, <2>1
  <2>3. CASE listed[p] = e
    <3>1. e \in shared
      BY <1>1, <2>1, <2>2, <2>3 DEF Owned, ClosedFirst, Connected
    <3> QED BY <1>1, <1>3, <1>4, <2>1, <2>3, <3>1 DEF Overwritten, At
  <2>4. CASE listed[p] # e
    <3>1. Holds(p, t)'
      BY <1>2, <2>1, <2>4 DEF Holds
    <3> QED BY <3>1 DEF Kept
  <2> QED BY <2>3, <2>4
<1> QED BY <1>6, <1>7, <1>8, <1>9, <1>10 DEF Owned

(* A pool that lists nothing gets a new entry, and so does the module that  *)
(* acquires it.                                                             *)
LEMMA NewEntryIsFree ==
    ASSUME FreeEntries # {}
    PROVE  /\ NewEntry \in Entries /\ \A p \in Pools : listed[p] # NewEntry
           /\ \A k \in Tasks : task[k].entry # NewEntry
<1>1. NewEntry \in Entries /\ NewEntry \notin UsedEntries
  BY NewOnes
<1> QED BY <1>1, Used

LEMMA Renewing ==
    ASSUME IInv, Owned, NEW k \in Tasks, NEW e \in Entries,
           \A p \in Pools : listed[p] # e, \A j \in Tasks : task[j].entry # e,
           \A p \in Pools : listed'[p] = listed[p] \/ (listed[p] = None /\ listed'[p] = e),
           \A p, q \in Pools : listed'[p] = e /\ listed'[q] = e => p = q \/ e \in shared',
           \A f \in Entries : f # e => entry'[f] = entry[f] /\ (f \in shared <=> f \in shared'),
           \A j \in Tasks : j # k => task'[j] = task[j],
           task'[k].pc \notin Reopening,
           \A j \in Tasks : task'[j].op \in Entering => listed'[task'[j].mod] = None,
           \A f \in Entries, t \in Links :
              f \in UsedEntries /\ entry[f].link = t /\ link[t] = "closed" => link'[t] = "closed"
    PROVE  Owned' /\ Leaves
<1>1. EntrantsListNothing'
  BY DEF EntrantsListNothing
<1>2. \A p \in Pools : listed[p] \in Entries \cup {None}
  BY DEF IInv, Types
<1>3. OnePool'
  <2> SUFFICES ASSUME NEW p \in Pools, NEW q \in Pools, listed'[p] # None,
                      listed'[p] = listed'[q], listed'[p] \notin shared'
               PROVE  p = q
    BY DEF OnePool
  <2>1. CASE listed'[p] = e
    BY <2>1
  <2>2. CASE listed'[p] # e
    <3>1. listed'[p] = listed[p] /\ listed'[q] = listed[q] /\ listed[p] \notin shared
      BY <1>2, <2>2
    <3> QED BY <3>1 DEF Owned, OnePool
  <2> QED BY <2>1, <2>2
<1>4. ASSUME NEW j \in Tasks, task'[j].pc \in Reopening
      PROVE  /\ task'[j] = task[j] /\ task[j].entry \in Entries /\ task[j].entry # e
             /\ entry'[task[j].entry] = entry[task[j].entry]
             /\ task[j].entry \in shared <=> task[j].entry \in shared'
  BY <1>4, TheTask DEF FitsNow, Fits
<1>5. ItsPool'
  <2> SUFFICES ASSUME NEW j \in Tasks, NEW p \in Pools, task'[j].pc \in Reopening,
                      listed'[p] = task'[j].entry
               PROVE  p = Pool(task'[j]) \/ task'[j].entry \in shared'
    BY DEF ItsPool, Pool
  <2>1. task'[j] = task[j] /\ listed'[p] = listed[p]
    BY <1>4
  <2>2. p = Pool(task[j]) \/ task[j].entry \in shared
    BY <2>1 DEF Owned, ItsPool
  <2>3. task[j].entry \in shared => task[j].entry \in shared'
    BY <1>4
  <2> QED BY <2>1, <2>2, <2>3
<1>6. OneReopens'
  BY <1>4 DEF Owned, OneReopens
<1>7. ClosedFirst'
  <2> SUFFICES ASSUME NEW j \in Tasks, task'[j].pc = "reopen", task'[j].entry \notin shared'
               PROVE  ~(entry'[task'[j].entry].link \in Links
                        /\ link'[entry'[task'[j].entry].link] # "closed")
    BY DEF ClosedFirst, Connected
  <2>1. /\ task'[j] = task[j] /\ task[j].entry \in Entries /\ task[j].entry \notin shared
        /\ entry'[task[j].entry] = entry[task[j].entry]
    BY <1>4 DEF Reopening
  <2>2. task[j].entry \in UsedEntries
    BY Used
  <2>3. ~Connected(entry[task[j].entry].link)
    BY <2>1 DEF Owned, ClosedFirst
  <2> QED BY <2>1, <2>2, <2>3 DEF Connected
<1>8. Keeping
  <2>1. \A p \in Pools : listed[p] # None =>
          listed'[p] = listed[p] /\ entry'[listed[p]] = entry[listed[p]]
    BY <1>2
  <2> QED BY <2>1 DEF Keeping
<1>9. ItsLink'
  <2> SUFFICES ASSUME NEW j \in Tasks, task'[j].pc = "refresh", task'[j].entry \notin shared'
               PROVE  entry'[task'[j].entry].link = task'[j].link
    BY DEF ItsLink
  <2>1. /\ task'[j] = task[j] /\ task[j].entry \notin shared
        /\ entry'[task[j].entry] = entry[task[j].entry]
    BY <1>4 DEF Reopening
  <2> QED BY <2>1 DEF Owned, ItsLink
<1> QED BY <1>1, <1>3, <1>5, <1>6, <1>7, <1>8, <1>9, KeepingLeaves DEF Owned

LEMMA OpenedLeaves == ASSUME IInv, Owned, NEW k \in Tasks, Opened(k) PROVE Owned' /\ Leaves
<1> DEFINE m == task[k].mod  op == task[k].op  e == NewEntry  p == Pool(task[k])
<1>1. /\ task[k].pc = "open" /\ PoolOf(k) = p /\ p \in Pools /\ listed[p] = None /\ Things
      /\ task \in [Tasks -> TaskType] /\ FreeEntries # {} /\ FreeLinks # {}
  BY TheTask DEF Opened, At, FitsNow, Fits, Vacating
<1>2. /\ e \in Entries /\ \A q \in Pools : listed[q] # e
      /\ \A j \in Tasks : task[j].entry # e
  BY <1>1, NewEntryIsFree
<1>3. op = "acquire" => listed[m] = None
  BY DEF Owned, EntrantsListNothing, Entering
<1>4. /\ \A q \in Pools : listed'[q] = IF q = p \/ (op = "acquire" /\ q = m) THEN e ELSE listed[q]
      /\ \A f \in Entries : f # e => entry'[f] = entry[f] /\ (f \in shared <=> f \in shared')
      /\ op = "acquire" => e \in shared'
      /\ \A t \in Links : link'[t] = IF t = NewLink THEN "open" ELSE link[t]
  BY <1>1, <1>2 DEF Opened, Things
<1>5. \A j \in Tasks : task'[j] = IF j = k THEN Idle ELSE task[j]
  BY <1>1 DEF Opened, Done
<1>6. Idle.pc \notin Reopening /\ Idle.op \notin Entering
  BY DEF Idle, Task, Reopening, Entering
<1>7. \A q \in Pools : listed'[q] = listed[q] \/ (listed[q] = None /\ listed'[q] = e)
  BY <1>1, <1>3, <1>4
<1>8. \A q, s \in Pools : listed'[q] = e /\ listed'[s] = e => q = s \/ e \in shared'
  BY <1>2, <1>4
<1>9. ASSUME NEW j \in Tasks, task'[j].op \in Entering PROVE listed'[task'[j].mod] = None
  <2>1. j # k /\ task'[j] = task[j] /\ task[j].op \in Entering
    BY <1>5, <1>6, <1>9
  <2>2. /\ listed[task[j].mod] = None /\ task[j].mod \in Pools
        /\ task[j].mod # m /\ task[j].mod # p
    BY <2>1, Deployer DEF Owned, EntrantsListNothing, Pools
  <2> QED BY <1>4, <2>1, <2>2
<1>10. \A f \in Entries, t \in Links :
          f \in UsedEntries /\ entry[f].link = t /\ link[t] = "closed" => link'[t] = "closed"
  BY <1>1, <1>4, NewLinkIsFree
<1> HIDE DEF m, op, e, p
<1> QED BY <1>2, <1>4, <1>5, <1>6, <1>7, <1>8, <1>9, <1>10, Renewing

LEMMA NotOpenedLeaves == ASSUME IInv, Owned, NEW k \in Tasks, NotOpened(k) PROVE Owned' /\ Leaves
<1> DEFINE m == task[k].mod  op == task[k].op  e == NewEntry  p == Pool(task[k])
<1>1. /\ task[k].pc = "open" /\ PoolOf(k) = p /\ p \in Pools /\ listed[p] = None /\ Things
      /\ task \in [Tasks -> TaskType] /\ FreeEntries # {} /\ (op = "acquire" => p = Daemon)
  BY TheTask DEF NotOpened, At, FitsNow, Fits, Vacating, Pool
<1>2. /\ e \in Entries /\ \A q \in Pools : listed[q] # e
      /\ \A j \in Tasks : task[j].entry # e
  BY <1>1, NewEntryIsFree
<1>3. /\ \A q \in Pools : listed'[q] = IF q = p THEN e ELSE listed[q]
      /\ \A f \in Entries : f # e => entry'[f] = entry[f] /\ (f \in shared <=> f \in shared')
      /\ link' = link
  BY <1>1, <1>2 DEF NotOpened, Things
<1>4. /\ \A j \in Tasks : j # k => task'[j] = task[j]
      /\ task'[k].pc \notin Reopening
      /\ task'[k].op \in Entering => op = "acquire" /\ task'[k].mod = m
  BY <1>1 DEF NotOpened, Task, Idle, Reopening, Entering
<1>5. \A q \in Pools : listed'[q] = listed[q] \/ (listed[q] = None /\ listed'[q] = e)
  BY <1>1, <1>3
<1>6. \A q, s \in Pools : listed'[q] = e /\ listed'[s] = e => q = s \/ e \in shared'
  BY <1>2, <1>3
<1>7. ASSUME NEW j \in Tasks, task'[j].op \in Entering PROVE listed'[task'[j].mod] = None
  <2>1. task'[j].mod = task[j].mod /\ task[j].op \in Entering
    BY <1>4, <1>7 DEF Entering
  <2>2. listed[task[j].mod] = None /\ task[j].mod \in Pools /\ task[j].mod # Daemon
    BY <2>1, Deployer DEF Owned, EntrantsListNothing, Pools
  <2>3. task[j].mod # p
    <3>1. CASE j = k
      BY <1>1, <1>4, <1>7, <2>2, <3>1
    <3>2. CASE j # k
      BY <2>1, <3>2, Deployer
    <3> QED BY <3>1, <3>2
  <2> QED BY <1>3, <2>1, <2>2, <2>3
<1>8. \A f \in Entries, t \in Links :
          f \in UsedEntries /\ entry[f].link = t /\ link[t] = "closed" => link'[t] = "closed"
  BY <1>3
<1> HIDE DEF m, op, e, p
<1> QED BY <1>2, <1>3, <1>4, <1>5, <1>6, <1>7, <1>8, Renewing
-----------------------------------------------------------------------------
LEMMA OwnedInitially == Init => Owned
<1> SUFFICES ASSUME Init PROVE Owned
  OBVIOUS
<1>1. \A k \in Tasks : task[k].pc = "idle" /\ task[k].op = "none"
  BY DEF Init, Idle, Task
<1>2. \A p \in Pools : listed[p] = None
  BY DEF Init
<1> QED BY <1>1, <1>2 DEF Owned, EntrantsListNothing, OnePool, ItsPool, OneReopens,
                          ClosedFirst, ItsLink, Entering, Reopening

LEMMA EveryStepLeaves == IInv /\ Owned /\ [Next]_vars => Owned' /\ Leaves
<1> SUFFICES ASSUME IInv, Owned, [Next]_vars PROVE Owned' /\ Leaves
  OBVIOUS
<1>1. ASSUME NEW k \in Tasks, Step(k) PROVE Owned' /\ Leaves
  BY <1>1, AcquireLeaves, QuietSteps, ReconnectLeaves, ReopenLeaves, RefreshLeaves,
     PopLeaves, OpenedLeaves, NotOpenedLeaves, FailedLeaves, OpenRaisesLeaves,
     RefreshRaisesLeaves DEF Step
<1>2. CASE Tick \/ Pong \/ PingRaises
  BY <1>2, MonitorLeaves
<1>3. ASSUME NEW k \in Callers, Cancel(k) \/ StopGivesUp(k) \/ Administer(k)
      PROVE  Owned' /\ Leaves
  BY <1>3, QuietSteps, StopGivesUpLeaves, AdministerLeaves DEF Tasks
<1>4. ASSUME NEW k \in Callers, NEW m \in Modules,
             Call(k, m) \/ ModuleAction(k, m) \/ Stop(k, m)
      PROVE  Owned' /\ Leaves
  BY <1>4, CallsLeave
<1>5. ASSUME NEW k \in Callers, NEW m \in Modules, NEW a \in Apps, Deploy(k, m, a)
      PROVE  Owned' /\ Leaves
  BY <1>5, DeployLeaves
<1>6. ASSUME NEW m \in Modules, Release(m) PROVE Owned' /\ Leaves
  BY <1>6, ReleaseLeaves
<1>7. CASE GoDown \/ ComeBack \/ (\E t \in Links : Break(t)) \/ UNCHANGED vars
  BY <1>7, ServerLeaves
<1> QED BY <1>1, <1>2, <1>3, <1>4, <1>5, <1>6, <1>7 DEF Next

LEMMA LeavesLoses ==
    ASSUME Leaves
    PROVE  \A t \in Lost' \ Lost :
              Overwritten(t) \/ \A p \in Pools : Holds(p, t) => ~Alive(p)'
<1>1. \A t \in Lost' : t \in Links /\ link'[t] = "open" /\ ~Kept(t)'
  BY DEF Lost, Open
<1> QED BY <1>1 DEF Leaves

(* Whatever calls, attempts, updates and stops cross: no step leaves the    *)
(* open connection of the daemon, or of a module that stays deployed, to    *)
(* nobody, but a reconnect of an entry that two pools share                 *)
(* (MCPConnectionPool.reconnect, which does not look at the transport that  *)
(* the entry has by then).                                                  *)
THEOREM OnlyAbandonedAreLost == Spec => LosesOnlyAbandoned
<1>1. Init => IInv /\ Owned
  BY Initially, OwnedInitially
<1>2. IInv /\ Owned /\ [Next]_vars => (IInv /\ Owned)'
  BY Inductive, EveryStepLeaves
<1>3. IInv /\ Owned /\ [Next]_vars =>
        [ \A t \in Lost' \ Lost :
            Overwritten(t) \/ \A p \in Pools : Holds(p, t) => ~Alive(p)' ]_vars
  BY EveryStepLeaves, LeavesLoses
<1> QED BY <1>1, <1>2, <1>3, PTL DEF Spec, LosesOnlyAbandoned
=============================================================================
