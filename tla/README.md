# Digitorn daemon: a TLA+ verification project

Digitorn is a daemon that runs LLM agents described by YAML apps. Clients talk to it over HTTP and
Socket.IO; every chat session is a stream of messages, each of which becomes a *turn* of the agent.
The heart of the daemon, and of this project, is how concurrent messages of one session are put in
order, turned into turns one at a time, and not lost: the per-session message queue with its two
backends, the dispatcher that sits between the API and the agent, and the log in which the events of
the session are numbered and kept. Around that core the project models what suspends a turn and what a turn
starts: the approvals that a user must give, the sub-agents that a turn launches, the worker
processes that the daemon supervises, and the connections to MCP servers that apps share.

All paths below are relative to `src/packages/digitorn/`.

- [1. The system](#1-the-system)
- [2. Modules and their code](#2-modules-and-their-code)
- [3. Runs](#3-runs)
- [4. Fairness](#4-fairness)
- [5. Proofs](#5-proofs)
- [6. Where the code and its documentation disagree](#6-where-the-code-and-its-documentation-disagree)
- [7. What is not modelled](#7-what-is-not-modelled)
- [8. Plan](#8-plan)

## 1. The system

### 1.1 Modelled

| component | state it keeps | operations | hard behaviours | what makes it correct |
|---|---|---|---|---|
| **Session queue, Redis** `core/app/queue_redis.py` | per row a hash `queue:msg:{row}`; per session a zset of waiting rows, a position counter, a running marker with a lease (`EX`), a survival pointer `was_running`; the set `queue:sessions` | `enqueue`, `merge_or_enqueue`, `replace_last_or_enqueue`, `next_queued`, `finish_and_drain`, `mark_done/failed/cancelled`, `cancel`, `clear`, `heartbeat`, `reap_expired_leases`, `rehydrate_on_boot`, `purge_queued_on_boot` | several daemons' worth of callers between Lua scripts; Python methods of several commands; leases against late heartbeats; a crash between any two commands, also of the boot itself | one turn per session, FIFO by row and by message, cap, write-once, no stranded row, a dead turn does not block the session |
| **Session queue, memory** `core/app/message_queue.py` | `_by_id`, `_queued`, `_running` with `lease_until` | the same, plus a reaper that does re-queue | reaping under a live turn, late finishes, three indexes updated by hand | the three indexes agree; the promises above |
| **Turn dispatch** `core/api/apps_v2/{messages,_shared,_dispatch,sessions}.py`, `core/app/manager_v2/{_chat,_queue}.py`, `core/events/socketio_bus.py` | the in-memory reservation `_active_sessions`, the per-session lock, the awaiters of `mode=wait`, the local variables of every handler | `POST /messages` (fast path, enqueue, merge, replace, kick), the Socket.IO send, `dispatch_turn` with its chain, the drain loop, cancel, clear, abort | every handler decides from what it read several awaits ago; a turn may exist without a row (fast path); errors at each stage | no row is forgotten, one turn per row, reservation, lock and slot are given back |
| **Session log** `core/runtime/session_store/{store,disk_flusher,seq_allocator,meta_io,bridge}.py`, `core/events/{event_buffer,session_bus}.py` | two sequence counters (of the bus, of the store); sessions in memory; the flusher's queue and batch; `events.jsonl`; `meta.json` | `emit`, `record`, `open`, `append_event`, the flusher's loop, eviction, forgetting of idle counters, `recover_orphans` | events numbered in one place and accepted in another, with awaits between; a log and a meta file written one after the other; eviction beside a writer; a write that fails, a full queue; a crash at any point, also inside a line | numbers follow the order of acceptance, what is accepted reaches the log, a crash loses only the end, memory and log agree |
| **Approvals and presence** `core/runtime/approval.py`, `core/events/{socketio_bus,presence,hydration}.py`, `core/inbox/producer.py`, `core/app/manager_v2/_base.py` | pending requests with their futures; connections, rooms, the registry of presence; inbox items | `enqueue`, `resolve`, the timer, `cancel_all`; connect, join, leave, disconnect; publish, file an item, send a snapshot | an answer, a timer, a cancellation and a sweep race for one future; three ways to tell the user, each of which may rely on another | the answer that was taken counts, only the owner's, the owner is told, no request blocks its session |
| **Sub-agents** `modules/agent_spawn/module.py`, `core/runtime/notifications.py` | per session the agents and the count of those that run; per app the total; a lock object per session; the notices queued for a session | launch, admission under the caps, retries, the end of an agent, cancel, wait, cleanup of a session | the cap is read, then awaited, then used; a cleanup replaces the lock object that others wait for; a cancel meets a completion | the counters are exact, the cap holds, a result is final, a session hears of the agents that ended |
| **Workers and cron lock** `workers/{lifecycle,cron_lock,app}.py`, `modules/cron/module.py` | `_running`, a monitor per process with its counters; the processes, the port, the lock file | spawn, probe, restart, stop; create, read, unlink, rewrite of the lock file; boot, bind, exit | file operations of several processes interleave; a leader that was blocked; a monitor that goes on with a process that was replaced | one process leads, `stop` leaves none behind |
| **MCP connection pools** `core/mcp_pool.py`, `modules/mcp/{connections,module}.py`, `core/app/manager_v2/_mcp.py` | the daemon's pool with its references (`_refs`) and monitor; a pool per deployed module; entries with a status and a transport | acquire and release, connect, reconnect, disconnect, a call with its retry, the ping of the monitor; deploy, redeploy, stop, update of a configuration | two pools, each with a lock of its own, list one entry; an attempt that ends late; a stop that gives up waiting; exceptions that nobody expects | what one pool does never overlaps, whoever shares is counted, no connection in use is lost, the monitor heals what an exception does not keep from it |

How they interact: the API handlers call the queue backend (whichever is configured) and start
`dispatch_turn` as a task; `dispatch_turn` calls `manager.chat`, which takes the session lock, and
then `finish_and_drain`, which hands it the next row; `dispatch_turn` then dispatches that row
("chain"). Abort marks the running row and cancels the task. A loop in `server.py` calls the reaper
every 15 seconds, and the boot of the daemon runs the two recovery methods before it serves. Handlers
and turns emit events on the bus and record messages; both go through `SessionStoreBridge.record` into
the session log, whose flusher runs beside them. A tool call that needs consent suspends its turn in the
approval queue; the request goes out on the bus, to the inbox, and to every connection that joins. A turn
may launch sub-agents, which run beside it and wake the session up when they end. The daemon keeps one
process per configured worker alive; the one that hosts the cron module competes for the lock file. The
mcp module of an app takes its connections from the daemon's pool when it can, and lists the entries it gets
in a pool of its own, through which it calls and reconnects them.

### 1.2 Not modelled yet, or not at all

| component | state and operations | hard behaviours | properties worth stating |
|---|---|---|---|
| **Session store, the rest** `core/runtime/session_store` | snapshots, compaction, close, delete, child sessions, the session index | a snapshot written while its events are still queued; delete against a batch in flight | a snapshot is not ahead of its log; a deleted session stays deleted |
| **Event bus, the rest** `core/events` | ring buffer, in-progress operations, the other snapshots of a join | reconnection with replay while events arrive; eviction from the ring | a client that replays from its last sequence misses nothing and sees nothing twice |
| **Run tracker** `core/runtime/run_tracker` | an async queue drained to a database, a sequence per run | drop when full, shutdown with a backlog | order per run |
| **Background activations, scheduler, jobs** `core/app/activation_store.py`, `scheduler.py`, `job_store.py`, `core/runtime/modes/background.py` | activation rows, job records, one task per job | missed fires, restart in the middle of an activation | an activation ends in one terminal state |
| **Watcher, inbox** `core/watcher`, `core/inbox` | watched sources; notification rows (the decision to write one for an approval is in `ApprovalReach`) | coalescing of changes; delivery retries | no change is lost by coalescing |
| **Packages** `core/packages` | installed trees and a registry | a step of an upgrade fails | registry and disk agree |
| **Credentials** `core/credentials` | encrypted store, OAuth refresh loop (which, as it is, refreshes nothing: see 6) | a refresh against a revoke | no stale token overwrites a newer one |
| **Middleware, rate limiter** `core/middleware.py`, `core/rate_limiter.py` | circuit breaker, window counters | half-open probes in parallel | limits hold |
| **Supervisor, sidecars** `core/supervisor.py`, `core/sidecar_pool.py` | subprocesses, reference counts | restart storms, release against acquire | a referenced process is not stopped |
| **Agent loop, hooks, compaction** `core/runtime` | the conversation | dominated by calls of the model and of tools | (compaction goes with the session store) |
| **App manager, compiler, schema, flows** `core/app` | deployed apps | compilation is a sequential function over YAML | outside the reach of a finite model worth reading |
| **HTTP API, server, auth, sandbox, modules, database, key-value store, clients** | request parsing, policy tables, operating-system isolation, tool I/O, user interfaces | I/O | not modelled |

## 2. Modules and their code

| module | what it is |
|---|---|
| `SessionFifo` | the abstract specification: what a backend promises the dispatcher for one session. A line, a set of rows at work, a slot, a set of rows that are over |
| `Lines` | two operators on lines: `Without`, the line without some of its members, and `Arranged`, the members of a set in the order of their scores. Both are written so that they can be reasoned about: a recursive function instead of `SelectSeq`, a `CHOOSE` of the enumeration instead of a sort |
| `LinesProofs` | what these, `SubSeq` and `Append` do to lines: the lemmas that the proofs about the two queues, the dispatcher and the log share |
| `RedisQueue` | the Redis backend, its callers, time, crash and boot |
| `RedisQueueMC` | instances, the refinement mapping to `SessionFifo`, fairness, the documented statements that do not hold |
| `RedisQueueProofs` | the theorems about `RedisQueue`, its refinement of `SessionFifo` among them |
| `MemoryQueue`, `MemoryQueueMC`, `MemoryQueueProofs` | the in-process backend; its instances and refinement mapping; the theorems about it |
| `TurnDispatch`, `TurnDispatchMC` | the dispatcher on top of `SessionFifo`; its instances |
| `SessionLog` | the numbering and the durable log of a session |
| `SessionLogMC` | the instance `Log` of `SessionLog` that is checked, its specification and properties under names of their own (`LogSpec`, `LogTypeOK`, ...; the flusher's queue is `backlog`), so that one module can speak of the log and of the dispatcher; the documented statements that do not hold |
| `SessionProofs` | the theorems about a session: its dispatcher, `SessionFifo`, and its log, the `LogSpec` of `SessionLogMC` |
| `Tenancy` | whose a session, a request and a connection are: the constants of the next three |
| `Approval` | the approval queue of one app |
| `Sockets` | connections, rooms and the registry of presence |
| `ApprovalReach`, `ApprovalReachMC`, `ApprovalReachProofs` | their composition with the publisher, the inbox producer and the snapshot of a join; its instance; the theorems about the three |
| `SubAgents`, `SubAgentsMC`, `SubAgentsProofs` | the pool of sub-agents of an app; its instance; the theorems about it |
| `CronLock` | the processes of a worker and the lock file of the cron module |
| `Workers`, `WorkersMC`, `WorkersProofs` | `CronLock` and the daemon's side of the worker; instances; theorems |
| `McpPool`, `McpPoolMC`, `McpPoolProofs` | the pools that connect to one MCP server, the modules that use them, the monitor; the documented statements that do not hold; theorems |

Composition: `TurnDispatch` instantiates `SessionFifo` and acts on the queue only through the
actions of that module (`Queue!Join`, `Queue!Serve`, `Queue!End`, `Queue!Rejoin`, `Queue!Lapse`), which is proved too (`DispatcherIsFifo`);
both backends are checked, and proved, to implement `Fifo!Spec`. So what is shown of the dispatcher rests on
what is shown of either backend, and neither model has to carry the other's detail. `ApprovalReach`
instantiates `Approval` and `Sockets` and adds the steps that touch both; `Workers` extends `CronLock`,
whose processes it spawns, signals and probes.

A definition called `Def_Fault` (for instance `SlotFree_Unchecked`) is `Def` with one plausible
fault seeded in it. No specification uses it: it is there to be put in the place of `Def`, to see
that a property notices.

### 2.1 RedisQueue

One session. State, in the order of the keys: `status`, `position`, `author`, `age`, `newest` are
fields of `queue:msg:{row}` (`age` is the abstraction of `enqueued_at` and `ttl_expires_at`: within
the merge window, older, expired; `newest` is the arrival number of the last message folded into
the row, which stands for its text); `zset`, `counter`, `marker` with `lease`, `pointer`, `listed`
are the keys of the session. `held` is the set of rows for which a turn task lives in the daemon,
`beat` how far the heartbeat of each is in the present period, `boot` the step of the boot sequence
at which the daemon is. Positions are assigned by `INCR`, which makes them unique.

- A Lua script is one step: `Enqueue`, `MergeOrEnqueue`, `ReplaceLastOrEnqueue`, `NextQueued`,
  `FinishAndDrain`, `SetTerminal`, `Cancel`. The loop of the two dequeue scripts, which pops rows
  and fails the expired ones until it finds a live one, is `DrainTo` or `DrainNothing`.
- A Python method of several commands is several steps: `heartbeat` reads the marker
  (`HeartbeatCheck`) and extends whatever marker is there later (`HeartbeatExtend`); the boot is
  `RehydrateScan/Add/Unmark/Forget` and `PurgeRow/Drop/Forget`, with a `Crash` between any two.
- `clear` reads the members and then cancels them one at a time: it is a series of `Cancel`.
- `ReapExpiredLeases` is `UNCHANGED vars`, as the method of this backend changes nothing.
- `Abort` is the `mark_cancelled` of a row whose task still runs; `MarkOwnRow` is a turn that
  pauses on a credential, or that the drain loop ran, and marks its own row.
- `Tick` is one heartbeat period; the default lease of 120 s is four periods of 30 s, two or three in
  the runs.

`Faults` selects what may go wrong besides a crash: `late_beats` (the event loop is blocked for
longer than a period), `vanishing_turns` (a task ends without a queue call: the server-busy answer
of `messages.py:1136`, a failing Redis call, a cancelled task), `boot_crash`, and `boot_error`
(`server.py:1074` logs a failing recovery and serves).

### 2.2 MemoryQueue

No method of `MemoryQueueBackend` suspends between its first read and its last write, so each is
one step. `line` is `_queued[sid]`, `slot` and `lease` are `_running[sid]`, the row dicts are
functions on rows. Two ages are needed, because a fold refreshes `enqueued_at` but not
`ttl_expires_at`: `since` follows the former and `expired` the latter. `live` counts the turn tasks
of a row, because the reaper can make a second one start while the first still runs, and `taken`
records what a turn has seen of its row. A restart loses all of it, as `config.py` says, so there
is no crash.

### 2.3 TurnDispatch

One session, many requests. A step is what runs between two awaits that matter.

- A request `post[p]` walks through `POST /messages`: `ReadDepth`, `ReadActive` (the reservation),
  `Decide` (the running row: fast path, orphan kick, or enqueue), `Accept` (enqueue, merge or
  replace; 429 when full), `ReadActive` and `ReadSlot` again, then `Kick` (a turn is running: try to
  pop all the same; `mode=wait` then registers its awaiter) or `Direct` (pop and start), or `Fast`.
  `deep`, `ticket` and `id` are the handler's local variables, with the values they had when read.
- The Socket.IO handler is `SocketSend` and `MaybeDrain`.
- A turn `task[t]` walks through `dispatch_turn`: `Lock`, `Chat`, `ChatEnds` or `LockTimeout`, then
  `Finalize` (with the chain in `FinishAndDrain`), or `Pause` and `AfterPause`, or `EarlyFailure`.
  `source` is who called `dispatch_turn`, on which the end depends; `Loop` is `drain_session_queue`.
- Abort is four steps (`AbortMark`, `AbortClear`, `AbortRelease`, `AbortKick`), as it awaits
  between them; `Cancel` is the DELETE of a row or the clear of all.
- A message is also the name of its row and its correlation id; the text does not matter.

### 2.4 SessionLog

One session. Events carry the id of the call that recorded them, their number and the life of the
daemon that accepted them; their content does not matter.

- `emit` numbers an event (`NextWire`) and awaits the bridge, which accepts it at once when the session is
  in memory (`EmitEvent`) and else waits for the lock of the store (`AskToOpen`). The first to get the lock
  reads the log (`Load`), gives the lock back, and awaits the upsert of the index (`Resume`); the others
  find the session and go on (`Join`). A streaming token (`EmitToken`) takes a number and is not kept. A
  message of the conversation is numbered when it is accepted (`AcceptMessage`). The two counters push
  each other forward, through `force_seed` and through the hook of `server.py:455-466`.
- The flusher takes the queue (`Gather`, which keeps of each number that is newer than meta.json the first event, in the order of the numbers),
  writes line by line (`AppendLine`: the buffered write may reach the file up to any line), and then
  meta.json (`WriteMeta`). The batch limit of 500 is out of reach of the instances.
- `EvictFlush` and `EvictDrop` are `_maybe_evict` with `evict`: `flush` looks at the queue only, and the
  gather over all shards suspends it. A session in the middle of being opened is the youngest of the LRU
  order and taken not to be evicted.
- `OrphanRead` and `OrphanWrite` are `recover_orphans`, scheduled as a task by the app manager. Whether a
  session is marked as interrupted already is left open.
- `Crash` forgets the memory; if a line is being written, half of it may stay. `tail` says what the last
  line is: a torn one swallows the line that is appended to it (`unreadable`).
- `Enter` may find the queue full, and `WriteFails` is a write that raises at any line or at meta.json: the
  code logs it and goes on, and the events are gone from the way to the disk.
- `mishaps` is a history variable. It records the six things that make the properties fail, so that each
  property names the ones it depends on: a call that was overtaken between its number and its acceptance; a
  drop of a session whose events were not on disk; a line merged into a torn one; an event that a full queue
  or a failing write lost; a meta.json that such a write left behind the log; an old copy written over
  meta.json. None of these is excluded from the model.

### 2.5 Approval, Sockets, ApprovalReach

One app. `Approval` is the state machine of `enqueue`, with its three awaits (the callbacks, `wait_for`, the
closing callbacks) as phases: `resolve` and `cancel_all` may come at any of them, and a cancelled task leaves
at the one it is in. The first is outside the `try`, so the request stays pending for ever. `Expire`
after the answer but before the task has run is `raced`. `Abort` is the sweep of `sessions.py:846`, which
denies the requests of every session of the app.

`Sockets` keeps three views of where a connection is, which the code updates in different handlers: the
rooms of the Socket.IO server, `presence._sid_join` with `_user_active_sessions`, and
`_sid_to_session_ids`. A join leaves every other room; presence drops the previous session while the
connection is still registered for it.

`ApprovalReach` runs the callbacks of `enqueue` in their order (`Emit`, `File`) and the rest of a join
(`Join`, then `Hydrate`). `missed` is a history variable of the three mishaps that leave an owner untold:
skipped by the inbox as present although no connection is there, an emission that timed out, a connection
lost before its snapshot.

### 2.6 SubAgents

One app, its sessions and agents. An agent goes through `asking` (it waits for the lock), `admitted` (under
the lock, the provider is awaited), `starting` (before the `try` of `_run_agent`), `building`, `working` (in
`agent_turn`), `closing` (the `finally`) and `done` (the watchdog has run). `interrupted` holds a
CancelledError that is due but not delivered: what it does depends on where it meets the task
(`StopStarting`, `StopBuilding`, `StopWorking`, `Swallow`, `StopClosing`). `epoch` tells apart the lock objects of a
session, as `cleanup_session` drops the lock and a later launch makes a new one. `silent`
and `skewed` are history: agents whose end is kept from the session, and sessions whose lock or counter was
dropped under an agent.

### 2.7 CronLock, Workers

One worker. A process takes the lock in the steps of `FileLeader.acquire`, each a system call: create, look,
unlink, create again; creation and rewriting leave the file empty until it is written, and a descriptor
goes on pointing to a file that was unlinked. Whatever comes of it, the process then binds its port or
exits. `GetStuck` is an event loop that is blocked; `GrowOld` 90 s without a renewal.

A monitor is in its loop, waits for a process to end, sleeps, or spawns. The code never gives it the process
that it spawned, so it goes on with the dead one (`Spawned`), beside the monitor of the new one. `Frozen` is
the loop without an await that results when it is past the limit; no step of the daemon follows it. `lost` is
history: the processes that a monitor hid from `stop`.

### 2.8 McpPool

One MCP server. Two kinds of pools are made of the methods of `MCPConnectionPool`: the daemon's and one for each
deployed module. `task` holds what is in progress, up to which await: `op` is who called (a deployment that
acquires, a call of a tool, an action of the module, an administrator, an update of the configuration, a stop,
the monitor), and `pc` where it is. `Inside` are the places under the lock of a pool; which pool is `PoolOf`.

- `connect` and `disconnect` pop the entry and close its transport (`Pop`), await that, and then go on
  (`Replaced`, `Opened`, `NotOpened`; `Dropped`). `reconnect` closes the transport (`Reconnect`), awaits an attempt
  (`Reopen`, `GiveUp`), which puts the new transport into the entry, and awaits the list of tools (`Refresh`).
- `Acquire` is `DaemonMCPPool.acquire`: it hands out an entry whose status is "connected", else reconnects, else
  connects. What it returns is listed by the module too (`Attach`), so that from then on two locks guard one entry.
- A call (`Call`) sends to the transport that its entry has at that moment; on an error it reconnects through the
  pool of its module, and sends once more (`Failed`, `Refresh`). The monitor pings (`Tick`) and writes what comes of it
  to the entry it pinged (`Pong`).
- What the SDK raises for a dead stream is not always an `MCPTransportError`: the stdio and SSE transports convert
  `McpError` only (`transports.py:224`). `ping`, `reconnect` and `connect` let the rest pass. A ping leaves the status at
  "connected" and the loop of the monitor logs it (`PingRaises`); a `reconnect` whose list of tools fails puts back the
  transport that it found (`old`) and closes its own (`RefreshRaises`); a `connect` lists nothing, not even an entry in error
  (`OpenRaises`). `Escapes` says how far the exception gets: a deployment goes on, and the monitor is `"dead"` if it was
  not after a ping, as only there its loop catches everything.
- `Release` is `on_stop` of a module that acquired: it releases by the id of its app, and takes the entry off its
  list. `Stop` is that of a module with a connection of its own, `StopGivesUp` its ten seconds without the lock.
- `severed` is history: the modules whose sharing somebody undid, by popping an entry, dropping the reference, or
  stopping another module of the same app. `shared` is history too: the entries that a module has got.
- Identities of entries and links are used again when nothing refers to them, which keeps the instance finite; four entries
  and five links never run out.

## 3. Runs

Every run finishes within four minutes on two workers. Safety runs use symmetry on rows, messages or users
where no liveness property is checked.

| run | instance | checks | shows |
|---|---|---|---|
| `redis_serving` | 3 rows, 1 user, cap 2, 3 messages, 1 crash, late heartbeats, vanishing turns | `TypeOK` `ArrivalOrder` `DepthBounded` `QueuedIsReachable` `TerminalIsFinal` `ImplementsSessionFifo` | the cap, the order of arrival, write-once, and the refinement of the abstract FIFO, with leases that lapse under live turns; every waiting row can be reached |
| `redis_lease` | 2 rows, 2 users, lease 3, 2 crashes, vanishing turns, a boot that crashes or fails, fairness | `OneTurnAtATime` `NoOvertaking` `RunningIsRecoverable` `LeaseFreesSlot` | with timely heartbeats one turn at a time; rows overtake none, whatever the boot does; every live row can be recovered; a dead turn's marker goes away |
| `memory` | 3 rows, cap 2, 3 messages, vanishing turns, late heartbeats, fairness | `TypeOK` `OneTurnAtATime` `ImplementsSessionFifo` `VanishedTurnIsReaped` | the three indexes agree (in `TypeOK`) and the refinement holds whatever the reaper takes; unless a heartbeat was late, one turn at a time, which completes its row only for messages it has seen |
| `dispatch_drains` | 3 messages by POST and by socket, fairness | `QueueDrains` | no lost wake-up: no interleaving of three requests and the turns they cause leaves an accepted row behind |
| `dispatch_mishaps` | 2 messages, all four modes, all four mishaps, 1 abort, cancels, clears | `TypeOK` `RowTurnHoldsSlot` `NothingStranded` | a turn that owns a row owns the slot; when nothing is in flight reservation, lock and queue are free, with the exceptions the properties name |
| `log_serving` | 4 calls of any kind, 2 crashes, 1 failed write or full queue, fairness of the flusher | `LogTypeOK` `InOrder` `NothingDropped` `LogCatchesUp` | what a daemon accepts is numbered in that order and reaches the log without holes, beside evictions, forgotten counters, the orphan task, failing writes and crashes at any line |
| `approvals` | 1 request, its owner with 2 tabs, 2 sessions, another user, fairness of the queue | `TypeOK` `AskReachesOwner` `ApprovedByOwner` `AnswerCounts` `WatcherIsLive` `Unblocks` | who must answer learns of it, the answer that was taken counts, and only the owner's, and no request blocks its session for ever |
| `subagents` | 1 session, 2 agents, 1 slot, 1 retry, 1 cleanup, fairness | `TypeOK` `CountersAgree` `CapHolds` `ResultIsFinal` `EveryoneHears` | slots are given back once, results are written once, nobody waits for an agent in vain |
| `workers` | 4 processes, 1 crash, 2 restarts, 2 failing probes | `TypeOK` `OneLeader` `StopEndsWhatItSees` | one process leads unless the file of a live one was removed; `stop` ends what no monitor hides from it |
| `mcp_pool` | 2 apps, 2 modules, 2 callers, 1 outage, 3 operations, fairness | `TypeOK` `SharersAreTracked` `LosesOnlyAbandoned` `Heals` | a pool does one thing at a time (in `TypeOK`); whoever shares is counted until somebody undoes it; no connection in use is lost but by an overlapping reconnect of a shared entry; the monitor heals the connection of the daemon, unless an exception that is no transport error escapes `ping`, `reconnect` or `connect` (see below) |
| `log_reuse`, `workers_limit` | small | one statement each | a documented statement that the code does not keep: see 6 |

Why the bounds are enough. The cap of 2 is met with 3 rows: a row runs, one waits, the third is
refused, and with merges and re-queues the cap is approached from each side. FIFO and one-at-a-time
are relations between two rows, and the third row is the one that arrives while the other two are
being re-ordered. Three messages allow a merge into a row that was already merged into. One crash
in the middle of a boot that follows another crash needs two, which `redis_lease` has. A lease of 2
periods is the shortest that a timely heartbeat can keep alive. In the dispatcher the
races are between a request, the turn that is ending and the one that is starting, hence three
messages for the drain; two are enough for the mishaps, since each mishap concerns a turn and the
message behind it. (Three messages with a slow turn and an abort, 3.5 million states, were also
checked once, with the invariants of `dispatch_mishaps`.) The approvals need two sessions and two tabs, so
that a tab moves between sessions while the other stays or goes; one request is enough, as requests meet only
in a sweep. Two sub-agents compete for one slot, and a reassigned agent needs a second identity. Of four
worker processes one crashes, its monitor spawns the second and, as it never forgets the first, the third;
the restarted second one accounts for the fourth; two of them compete for the lock while a third is stopped. Two
mcp modules are what it takes to share an entry, and, as modules of one app, a redeployment; of the three operations
two may deploy them and the third crosses the monitor and what an outage sets off.

Deadlock is not checked: each model stops when its bounded supply of messages is used up and all
of them are dealt with, which is the regular end of a behaviour.

Properties that were hard won, and what they depend on:

- `OneTurnAtATime` needs timely heartbeats, in both backends. With `late_beats` the lease of a live
  turn lapses and another turn starts: that is the design, and the FIFO order survives it.
- `ArrivalOrder` is about messages, not rows: a merge or a replacement must fold only into the last
  row of the line, else a new message overtakes an older one.
- `QueuedIsReachable` fails when the boot itself is cut short, so `redis_serving` lets the daemon crash only
  while it serves. `TerminalIsFinal` and `DepthBounded` tolerate a crash in the boot, as their theorems say
  (section 5), but not `boot_error`, where the daemon serves in the middle of the boot's steps (a row set to
  cancelled that is still in the zset is popped and runs). `RunningIsRecoverable` holds through both, with timely
  heartbeats; with late ones the marker of a row that runs goes away, and the next empty dequeue takes the session
  off the list that the boot scans.
- `NothingStranded` says that the session is free when nothing is in flight, and names one exception to that: a
  fast turn that fails before its chat begins does not give its reservation back.
- `InOrder` and `NothingDropped` (which has `NoHoles` as a part) are about one life of a daemon: across a crash
  neither uniqueness nor order holds (see 6). `NothingDropped` holds even when meta.json is rolled back, since a
  lower `last_seq` only weakens the filter; `InOrder` does not, as a forgotten counter resumes from it.
- `InOrder` fails after a failing write of meta.json, an eviction and half an hour of silence: the bus resumes
  from meta.json, and numbers again what is in the log. `behind` names that, in the twenty steps it takes.
- `OneTurnAtATime` of `MemoryQueue`, with its part `NothingUnseen`, depends on `tardy`, the history of a late heartbeat.
- `SharersAreTracked` excepts the modules in `severed`, and `LosesOnlyAbandoned` the step `Overwritten`: two pools
  reconnect the entry that they share, one attempt writes over the transport of the other (with a new one, or with
  the one that it found, which it puts back when its list of tools fails), and no task and no entry leads to it any
  more. Neither is excluded from the model, and `Heals` needs no exception for them: the monitor looks at the entry,
  not at who wrote to it.
- `Heals` excepts three ends, all of them reached, and all through an exception that is no `MCPTransportError`: every
  ping of a dead transport raises, so that the entry stays "connected" for ever (`[]<><<PingRaises>>_vars`); a reconnect of an
  entry in error raises and ends the loop of the monitor; a connect raises after it has popped the entry, and there is
  none for the monitor to look at. Without any one of the three, TLC finds a counterexample; without all of them
  `Heals` is `AlwaysHeals` of 6.
- `AskReachesOwner`, `CountersAgree`, `CapHolds`, `EveryoneHears`, `OneLeader` and `StopEndsWhatItSees` each name
  what they except with a history variable (`missed`, `skewed`, `silent`, `snatched`, `lost`); what they except
  is what the code gets wrong or leaves to chance, and is in the model.
- `NothingStranded` excepts a turn that paused on a credential (the queue waits for the grant) and
  the server-busy answer that comes after the POST popped a row (only the lease frees its slot).

## 4. Fairness

- `RedisQueueMC!FairSpec`: Redis counts `EX` down whatever the daemon does (`Tick`); the heartbeat
  loop of a live turn is an asyncio task that sleeps 30 s and runs again (`HeartbeatCheck`,
  `HeartbeatExtend`); a daemon that boots finishes booting (`BootNext`). Nobody has to send, to
  dequeue or to finish anything: a turn may run forever.
- `MemoryQueueMC!FairSpec`: time passes, live turns beat, the reaper loop runs (every 15 s,
  `server.py:1098-1106`).
- `TurnDispatch!FairSpec`: a handler that has begun goes on to its end, since all it awaits are
  queue calls; a turn goes on, since execution timeouts and the turn limit end it at last; an abort
  finishes; the lease of a row without a turn runs out. Sends, cancels, aborts and failures are not
  fair. The lock is first come, first served, as an `asyncio.Lock` is.
- `SessionLog!FairSpec`: the loop of a shard takes what is queued, and the thread it starts ends. Calls,
  evictions, the orphan task, failures and crashes are not fair.
- `ApprovalReach!FairSpec` (`Q!Fairness`): the timer of `wait_for` fires or the answer wakes the task, and the
  callbacks of the closing return. Answers, joins and the callbacks of the announcement as such are not fair.
- `SubAgents!FairSpec`: tasks that are ready run, calls that wait for a task return when it has ended, and a
  scheduled `check_notifications` runs. `Finish` is strongly fair: `agent_turn` has a limit of iterations and a
  timeout, however often a tool of it swallows a cancellation in between.
- `Workers` claims no liveness.
- `McpPool!FairSpec`: every call and operation goes on, since each await of it has a timeout; the monitor keeps its
  period while its loop lives, and which way a ping ends is not fair; an outage ends. Calls, operations and outages as such are not fair, and finite in the instance, which is
  what the "in the end" of `Heals` means.

## 5. Proofs

Every theorem is for all values of the constants that the assumptions of its module allow.

`RedisQueueProofs` proves nine theorems of `RedisQueue!Spec`, for every finite or infinite set of rows
and users and for every cap, lease and bound that satisfies the assumptions of the module
(`RowsAssumption`: no row is the absent key; `BoundsAssumption`: the cap is positive and a lease has
at least two periods; `FaultsAssumption`).

| theorem | states | further assumption |
|---|---|---|
| `TypeCorrect` | `[]TypeOK` | |
| `FifoByRow` | `[]NoOvertaking` | |
| `FifoByArrival` | `[]ArrivalOrder` | |
| `MutualExclusion` | `[]OneTurnAtATime` | no `late_beats` |
| `WriteOnce` | `TerminalIsFinal` | no `boot_error` |
| `DepthTheorem` | `[]DepthBounded` | no `boot_error` |
| `NothingIsStranded` | `[]QueuedIsReachable` | no `boot_crash`, no `boot_error` |
| `RedisQueueIsFifo` | `ImplementsSessionFifo` | no `boot_crash`, no `boot_error` |
| `CrashIsRecoverable` | `[]RunningIsRecoverable` | no `late_beats` |

The inductive invariant `IInv` of the first three is the conjunction of

- `TypeOK`;
- `BootPointer`: while a row is being re-queued by the boot the pointer names it and its status is
  queued (without it `RehydrateAdd` could add anything to the zset);
- `MarkerHasLease`: a marker always has a lease of at least one period (without it `Tick` could take
  the lease below zero);
- `HeldNotWaiting`: a row that a live turn works on is out of the zset and has been popped, and no
  turn is alive while the daemon boots;
- `Ordered`, in six parts: `Positioned` (rows that exist have different positions, none beyond the
  counter), `ZsetIdle` (a member of the zset is queued, or cancelled by a purge that was cut short),
  `OutFirst` (a row that is queued or running and out of the zset is before every member of it),
  `PointerLast` (no such row is after the one the pointer names, so what the boot puts back goes to
  the front), `NewestBounded` and `NewestInOrder` (a row at a lower position holds only messages that
  arrived earlier).

`OrderedStep` goes through the actions by what they do to the order (`ShrinkStep`: rows leave;
`PushStep`; `FoldStep`; `DrainStep`; `ResetStep` and `ReaddStep`, the steps of the boot), so that each
fact is proved once for the actions that share it. The other theorems each add a conjunct or two.
`MutualExclusion` adds `Beating`: a live turn of a running row owns the marker, its lease is at most one
period short, and is full once the turn has beaten in this period. `WriteOnce` adds `Clean`: while the
daemon serves every member of the zset is queued, which needs that the purge empties the zset of every
session it does not skip. `DepthTheorem` adds `Capped`: while the daemon serves, the rows of the zset and
the marker's row together are at most the cap. It rests on three lemmas on the cardinality of that set.
`NothingIsStranded` adds `Waiting`: a queued row is in the zset, or the boot that demoted it is about to put it
back. It stands on `Listed`, an invariant under every fault: a session leaves the set of sessions only with an empty
zset, so what waits is found by the boot. `CrashIsRecoverable` adds `RunningIsRecoverable` itself to `Beating`.

`RedisQueueIsFifo` maps the queued rows, arranged by position, to the abstract line, and the marker to the slot. It
adds two conjuncts. `InLine` says that the arranged line exists: `Arranged` is a `CHOOSE`, about which nothing is
known until an enumeration by position has been given, and every step gives the next one from the last. Its other half
is `MarkerRuns`: a marker names the row of the pointer, and that row is running, unless a boot is putting it back.
`FifoStep` then goes through the abstract actions: a push is a `Join` (`PushJoins`), a dequeue is a
`Serve` that passes over what has expired (`DrainServes`), or an `End` when nothing else was there (`DrainEnds`), a finish, a pause, an abort, a cancel and a purged row are
an `End`, a lease that runs out and a marker that the boot deletes are a `Lapse` (`SlotLapses`), the boot that demotes the
running row is a `Rejoin` (`ResetRejoins`), and a fold, a heartbeat and the rest stutter. The two assumptions are needed:
a boot that crashes between demoting a row and putting it back strands that row, so that the line has a first row that no
dequeue will serve; a boot that fails may leave a cancelled row in the zset, which the next dequeue runs.

`LinesProofs` has no temporal theorem. As the library's induction theorems take an operator, its inductions go over
sets of numbers: `NatSets` (a set of numbers that has 0 and the successor of each member has all of them) is derived
from the well-foundedness of `<`, which the library states without an operator. From it follow that `Without` is the
enumeration of what it leaves (`WithoutPicks`), that a line is determined by its members and their order
(`SameEnumeration`), what joining, rejoining and leaving do to members, to distinctness and to who stands ahead of whom
(`JoinLine`, `RejoinLine`, `LeaveLine`, the `Ahead` lemmas), and the same facts of a line by score (the `ByScore` lemmas),
where `ArrangedIs` says that an enumeration by score, once there is one, is the only one, and `ByScoreExists` that there
is one of any set whose scores are bounded and different.

`MemoryQueueProofs` proves three theorems of `MemoryQueue!Spec`, for every set of rows and users, every cap and lease and
every bound: `IndexesStayTogether` (`[]TypeOK`), `OneAtATime` (`[]OneTurnAtATime`) and `MemoryQueueIsFifo`
(`ImplementsSessionFifo`). No fault is excluded from any of them.

- The first is inductive as it stands, since `IndexesAgree` is a part of `TypeOK`; `Types` is the rest of it.
- The second needs `Beating`: unless a heartbeat was late, a turn at work on a row that is not over has the slot,
  is the only one of its row, has seen all its messages, and its lease is at most one period short. So the reaper cannot
  take the slot from under it, and a fold cannot reach a row that has been popped.
- The third needs the order of the line (`Arrived`: rows stand by their newest message, the slot before them), that
  what has expired stands in front (`Aged`: so the sweep of a dequeue takes a prefix and what it serves is the
  first of what is left), and where a turn can be left of a row that was reaped (`Hurried`: in the slot or at the
  front of the line, so that its late finish ends the head or frees the slot and touches nothing else).

`SessionProofs` proves five theorems of `TurnDispatch!Spec`, for every set of messages, every cap, every combination
of modes and mishaps and both backends: `DispatcherTypes` (`[]TypeOK`), `OneRowTurn` (`[]RowTurnHoldsSlot`), `NoLostWakeUp`
(`[]NothingStranded`), `DispatcherIsFifo` (it implements `SessionFifo`) and `EndedNeverStarts` (`[][StaysOver]_vars`).
`RowTurnHoldsSlot` is not inductive: whether a turn that ends frees its own slot or that of
another row depends on where its task came from. The invariant `Dispatching` is the conjunction of

- `OnePlace` (a row is in the line, at work or over, and the slot is held by one at work), which holds of whatever calls
  the queue;
- `Fields` and `LockFields`, the types; the second says that the turns that wait for the session lock or hold it are
  queued once each;
- `Rowless` (a request in the early part of its handler is no row yet, and a fast turn never is one) and
  `Awaited` (an awaiter belongs to a request that waits or has returned), which make the row that a handler pops new to it;
- `Held`, for each turn: one that owns a row which is not over owns the slot, one in its resume loop has a row
  that is over, one that is paused was paused by its own chat, and a row at work without a turn lost it to a pause or to
  the server-busy answer.

`NoLostWakeUp` adds `Fresh` (nothing has befallen a request that has not got past its early part), `Marked` (as long as
the session is reserved there is a turn or a request that will give it back) and `Wakeful`: when the line waits and the
slot is free, somebody is on the way who will pop it, be it a request after its enqueue, a turn in its loop or an
abort, unless a paused or dropped turn excuses it. Its proof names for each step who that is afterwards.

`DispatcherIsFifo` closes the circle of the three modules: the backends do what `SessionFifo` promises, and the dispatcher asks
for nothing else, one operation a step, with `OnePlace` for the rows that it names. `FifoKeepsApart` is a theorem of `SessionFifo`
itself and so of everything that implements it: a row is in the line once, at work, or over, and the slot is never with a
row that is over (it can be with one that waits, between the two steps of a boot). `EndedNeverStarts` says what a user who cancels or
aborts relies on: a row that is over stays over, and no turn is started for it. It rests on `OnePlace` for rows that are popped, and on
`Rowless` for a fast message, which is no row yet.

The same module proves six theorems of `LogSpec`, for any number of calls, crashes and failures (`LogAssumption` of `SessionLogMC`
says that the three bounds are naturals): `LogTypes` (`[]LogTypeOK`), `NumbersInOrder` (`[]InOrder`), `NothingIsDropped`
(`[]NothingDropped`), and three that no run checks: `MemoryIsTheLog` (`[]Mirrored`), `MetaIsNeverAhead` (`[]MetaIsCovered`) and
`LinesRise` (`[]LinesInOrder`). Neither `InOrder` nor `NothingDropped` is inductive: what the next call is numbered depends on two counters, on
meta.json and on the memory, each of which may be the one that is behind. `LogInvariant` is the conjunction of

- `LogFields`, the types, and `Opening`: calls inside `open` are different ones, one that awaits the upsert has loaded the
  session and is not evicted meanwhile, and the bus keeps its counter while something waits or is on its way to the disk;
- `Lived`: an event belongs to a call that is past, what is in flight was accepted in this life, in memory and in the log the
  events of this life come last, and the counter of the store is never behind them;
- `Batched`: a batch rises, lies beyond meta.json, and meta.json is never beyond the last line, nor is the copy that the
  boot task holds beyond meta.json;
- `Loading`: while the bus has no counter and a call awaits the upsert, memory is the log. Without it a call that loaded an old
  session could be numbered from less than the log has;
- `Ordered`, from which `InOrder` is read: unless an event was overtaken or meta.json left behind, the events of this life rise in memory and
  in the log, the log is behind the batch and, between batches, not beyond meta.json, and neither the counter of the bus nor a number
  that waits is behind any event;
- `Flowing`, from which `NothingDropped` is read: unless an event was overtaken, merged or lost, the queue rises and is behind the
  batch (`Queued`), meta.json has passed neither it nor a number still to come, so that the flusher takes none of them for a duplicate
  (`Passed`), and what memory has that the log has not is in flight, and so is everything after it (`Unlogged`).

Two lemmas are the heart of them. Whichever of the four sources the next number comes from, it is beyond every event of this life
(`NextBeyond`, for `InOrder`) and beyond all that is on its way to the log (`NextIsBeyond`, for `NothingDropped`). `KeptLine` and `KeptAll` say what `Gather` takes from the queue. `MemoryIsTheLog` adds `Mirrored`, the safety half of
`LogCatchesUp`: as long as nothing went wrong, memory is the log, followed by the rest of the batch and then the queue, and a session that
is not in memory has nothing on its way. `KeptSame` is what it needs of the flusher: a queue that rises beyond meta.json is
taken as it is. TLC checked `LogInvariant` and the three further invariants on the instance of `log_serving` before they were proved.

`SubAgentsProofs` proves four theorems of `SubAgents!Spec`, for every set of sessions, finite set of agents,
both caps and any number of retries and cleanups: `TypesCorrect`, `CountersExact` (`[]CountersAgree`), `CapIsKept`
(`[]CapHolds`) and `ResultsAreFinal` (the action property `ResultIsFinal`). The invariant is `TypeOK`, `EpochBound` (the
lock object of a session is replaced at most once more after the last cleanup that begins, which bounds the type
of `epoch`) and `Counted`: `CountersAgree`, `CapHolds` and `LocksAgree` (the agents of a session that wait for
or hold its lock do so for the object that is listed, unless the session is skewed; so at most one is
admitted, and the room that it has read is still there). The counting rests on lemmas on the cardinality of a set
that gains or loses one agent.

`WorkersProofs` proves three theorems of `Workers!Spec`, for any number of processes, crashes, restarts and
probes: `WorkersTyped` (`[]TypeOK`), `LockIsExclusive` (`[]OneLeader`), `StopIsThorough` (`[]StopEndsWhatItSees`). The
invariant is `TypeOK` with `Shape` (who has a file open creates or renews the lock; a monitor that may
probe is below the limit of failures), `LockHeld` (unless a file was snatched, the file of whoever leads or
has just created it is there and names it, and nobody writes to another) and `Survivors` (every process that
lives is lost, listed, or the target of `stop`).

`ApprovalReachProofs` proves five theorems of `ApprovalReach!Spec`, for every set of users, sessions, requests and
connections: `ReachTypes` (`[]TypeOK`), `OwnerConsents` (`[]ApprovedByOwner`), `AnswerIsKept` (the action property
`AnswerCounts`), `WatchersAreLive` (`[]WatcherIsLive`) and `OwnerIsAsked` (`[]AskReachesOwner`). The invariant has three
parts, one for each module. The queue's is `Honoured`: an answered future keeps its answer, only an answer makes it a
yes, a verdict that is an answer is the one in the future, and a timer that was faster leaves the future cancelled.
The sockets' is `Seated` with `WatcherIsLive`: a connection is in no room but that of its seat. The
composition's is `Announced`: a request that has been announced is not new and one that waits is filed; one that has
been emitted was seen, or is in a snapshot that is on its way, or nobody was there to see it; one that was filed was
seen, or is in the inbox, or about to be. The last theorem needs all three parts, since whom a room delivers
to is decided in `Sockets` and what a snapshot holds in `Approval`.

`McpPoolProofs` proves three theorems of `McpPool!Spec`, for every set of apps, modules, callers, entries and
transports, and any number of operations and outages: `PoolTypes` (`[]TypeOK`), `SharersAreCounted`
(`[]SharersAreTracked`) and `OnlyAbandonedAreLost` (the action property `LosesOnlyAbandoned`). The invariant of the first
two is `Types`, `AppsKnown`, `SharersAreTracked` and what every task relies on (`Fits`: the module that it deploys is
still being deployed, the entry that it reconnects for the daemon is still the one that the daemon lists, who
acquires has been counted, nothing is listed while an entry is replaced) and what two tasks owe each other (`Apart`:
not both under one lock, none on a module that another one deploys). `StillFits` says once what a step has to leave
alone for the tasks that do not take it. The third adds `Owned`: an entry that no module has got from the daemon
belongs to one pool and is reconnected by one task, which has closed its transport first, and which finds its own
transport there while it lists the tools. So only an entry that was shared can be written over, and only there
putting back a former transport takes an open one away.

Only model-checked is liveness
(`LeaseFreesSlot`, `VanishedTurnIsReaped`, `QueueDrains`, `LogCatchesUp`, `Unblocks`, `EveryoneHears`, `Heals`), which is out of the
prover's reach. Every other property of a passing run is stated by a theorem.

## 6. Where the code and its documentation disagree

Two of these are runs that are expected to find a violation.

1. `log_reuse`. `event_buffer.py:102-104`: "so a resumed session never reuses a seq already persisted on
   disk". The counters resume from meta.json, which a crash leaves behind the log when it falls between the
   append and the write of meta.json; `tests/session_store/test_crash_recovery.py:8-9` says for that very
   case "reload uses jsonl_tail to seed seq monotonic", which the code does only without a meta.json, and
   the bus not even then.
2. `workers_limit`. `workers/lifecycle.py:355-358` logs "worker_permanently_failed ... monitor stops". `_restart`
   returns, and `_monitor` goes on: its `rw` is still the process that died, it calls `_restart` again, which returns
   before its first await. The event loop of the daemon is stuck in that circle. As the monitor never takes
   notice of the process it has spawned, it gets there after one single crash, one restart after the other,
   and takes a healthy process out of `_running` on its way each time.

More statements are defined in the MC modules and do not hold. They are in no run, to keep the runs few:

- `QueueSurvivesRestart` (`RedisQueueMC`). `core/config.py:409` says of the session queue "Survives daemon
  restart." The boot runs `purge_queued_on_boot` right after `rehydrate_on_boot` (`server.py:1068`): every
  waiting row, including those just rehydrated, is cancelled.
- `QueuedNotErrored` (`TurnDispatchMC`). `core/config.py:408-409`: messages sent while a turn is running are
  enqueued "instead of erroring out". A fast-path turn has no row, so the next message is enqueued, popped
  at once by the kick, and fails with `session_busy` when the first turn outlasts the lock timeout, which
  `_chat.py:236` clamps to 60 seconds.
- `WaitReturns` (`TurnDispatchMC`). `core/config.py:466`: `'wait'` "block[s] until the turn finishes and
  return[s] the result". The awaiter is registered after the row may have been popped and finished, under an
  id a replacement may have changed, and merged messages overwrite each other's future.
- `SkipsOnlyWhatArrives` (`ApprovalReachMC`). `socketio_bus.py:509`: the inbox producer skips what arrives
  by the socket. Presence keeps a session live that the connection has left.
- `NotifiedOfEveryEnd` (`SubAgentsMC`). `modules/agent_spawn/README.md:3`: "The coordinator is notified when agents
  complete or fail." An attempt that raises before `agent_turn`, or is cancelled there, sets a result without a
  notice (`module.py:1375-1408`).
- `AlwaysHeals`, `MonitorLives` (`McpPoolMC`). `mcp_pool.py:9`: "Health monitoring: periodic background task pings all
  connected servers". When the ping of a dead stdio or SSE transport ends in an exception that `ping` does not catch
  (`connections.py:304`), the status stays "connected" and `mcp_pool.py:287-288` logs it at debug level, period after
  period, without a reconnect. When such an exception leaves the reconnect of an entry in error (`mcp_pool.py:265-270`
  catches `MCPTransportError` only), it ends the loop, and no server is monitored any more.
- `OneConnection`, `UsersAreTracked`, `ForcedOff` (`McpPoolMC`). `mcp_pool.py:11`: "apps share the same transport
  connection" (not after an update of the configuration, or a reconnect that failed while another app acquired);
  line 7: "tracks which apps use which servers" (a redeployment acquires for the new module, and then the old one
  releases the same app id); line 233: "Disconnect a server (force - ignores ref count)" (a module whose app is
  deployed connects its entry again with its next call).
- `StopEndsAll`, `AlwaysOneLeader`, `CronIsLed` (`WorkersMC`). `lifecycle.py:119`: "Terminate every worker" (but not
  what a monitor hides); `cron_lock.py:30`: "exclusive leader lock" (two lead when a challenger unlinks the file
  of a faster one, or reads it while it is empty); `cron_lock.py:75`: "will retry" (a loser stays idle for good).

- `ExpiredLeaseIsReaped` (`RedisQueueMC`). `_dispatch.py:459` says of missed heartbeats "lease will be
  reaped by `reap_expired_leases` on the next sweep"; the method of the Redis backend changes nothing
  (`queue_redis.py:771`), and the row of a vanished turn stays running until, at best, a boot.
- `OnlyOldMessagesExpire` (`MemoryQueueMC`). `core/config.py:445`: "Queued messages auto-expire after this
  many seconds." The memory backend's fold keeps the TTL of the row that is folded into
  (`message_queue.py:194`), so a message can expire young. The Redis scripts refresh both.
- `NothingEverDropped` (`SessionLogMC`). `session_bus.py:17`: "nothing is dropped from the durable log". An
  event that was overtaken while its session was opened is dropped as a duplicate (`disk_flusher.py:225`).
- `EvictedIsOnDisk` (`SessionLogMC`). `disk_flusher.py:334`: "Wait until every shard's queue is empty +
  drained". `flush` returns when the queue is empty, with a batch in flight, so a session that is evicted
  and opened again can lack its last events until the next restart.
- `RehydrateRecovers` (after an empty dequeue removed the session from `queue:sessions`, the boot does not
  look at a row of it that is still running), `PausedRowIsFailed` (`_dispatch.py:628` says that the caller
  of a paused turn marks its row failed; the chain does not), and an aborted row whose turn still waits for
  the lock chats all the same once it gets it.
- Read, not modelled: `OAuthRefreshLoop._refresh_pass` (`core/credentials/oauth_refresh_loop.py:89`) calls
  `list_credentials(..., decrypt=True)`, a keyword that `CredentialStore.list_credentials` (`store.py:312`) does not take. The
  TypeError is caught as that of "older deployments", for each kind of credential, so the loop never refreshes one.

## 7. What is not modelled

- Of the queues: the text of messages and how a merge concatenates it; `queue_depth` and other reads;
  the events that are emitted; retention of finished rows (their hashes expire after a day); more than
  one session (no operation of a backend reads two sessions, except the scans, which treat them one
  after another). Redis itself is assumed to keep what it acknowledged.
- Of the dispatcher: pending approvals, which count as a running turn (that they do not last for ever is
  `Unblocks`); the drain on reconnect, which is
  another caller of the drain loop; the abort of the Socket.IO bus, which only cancels the task;
  credentials, memory and hooks, which are early failures or pauses here; what a turn emits.
- Of the session log: snapshots, compaction, close, delete and child sessions; a reader that sees half a batch
  (it reads at once);
  the contents of meta.json besides `last_seq`; user-scoped events, which have a counter but no log.
- Of approvals and presence: app rooms and the other snapshots; the inbox store; the heartbeat of connections.
- Of the sub-agents: modes that only read, the cache of modules, the memory that is handed to an agent.
- Of the workers: `wait_ready`, the proxy and the routing of tool calls; reuse of a PID, a lock file on several
  hosts or that cannot be written; the sweep of activations.
- Of the MCP pools: several servers (no operation relates two); pools per user and OAuth tokens; a cancelled connect
  and what it leaves behind; answers that the SDK cannot validate; a failing look-up in the database; the
  start and the stop of the daemon's pool; caches and middleware. Who gets a lock first is left open, which allows
  more orders than an `asyncio.Lock` does.
- The components of 1.2.

## 8. Plan

Done: the modules of 2 and the proofs of 5. Next, in this order:

1. The rest of the session store: snapshot, compaction, close and delete beside the flusher, and an abstract
   `EventLog` that only knows accepted, durable and lost events, which `SessionLog` implements.
2. `EventReplay`: the operations in progress and the snapshots of a join, and a client that disconnects and
   catches up; composed with `SessionLog`, from which it is numbered.
3. The pending approval as the third reason for which `TurnDispatch` enqueues, with `Approval` in its place.
4. The activations and the scheduler that the leader of `CronLock` sweeps; `modules/queue`; the OAuth refresh
   loop, once it refreshes; the pool of sidecars; circuit breaker and rate limiter.
5. Theorems about what items 1 to 4 add; first that `SessionLog` implements `EventLog`, for which `Mirrored` and `Unlogged` are
   the invariants to start from.

A run is added only for a new question, and small runs are merged when a component is complete.
