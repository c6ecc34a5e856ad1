# TLA+ specifications of geppytto

geppytto serves DevTools browsers over websockets. A client connects through
kong to a *browser agent*; the agent launches Chrome with pyppeteer, proxies
the connection to it, and closes Chrome when the last client has left. Agents
are anonymous processes: each binds itself to a *slot*, a record of the `agent`
table, holds it by heartbeats, and removes it when it stops. An *api server*
(sanic, aiomysql) owns the tables and answers the agents and the router.

The specifications model what is concurrent and can fail in this: the
coroutines of an agent around one semaphore, one queue and one dictionary; the
task that kills stray Chrome processes; the two tasks that copy one connection's
messages; the lease by which agents hold slots over lost requests, crashes
and a failing database; the router, which sends the clients of a browser to
one agent while agents come and go; the transactions that count agents against a
user's limit; the caches by which the api server recognises tokens and agents;
and the life of an agent's processes, from the fork to the last signal.

Contents: 1 the system's components; 2 the modules and their correspondence
with the code; 3 the runs; 4 the proofs; 5 divergences between the code and what
it says of itself; 6 what is not modelled; 7 the plan.

Paths below are relative to `src/geppytto/`.

## 1. Inventory

| component | state it keeps | operations | what is hard | what makes it correct |
|---|---|---|---|---|
| **Browser pool and connections** (`browser_agent/browser_pool.py`, `browser_agent/api/proxy/browser.py`) | `get_browser_sem`, `busy_browsers`, `request_queue`; per browser `client_count`, `closed`; per connection a future and a worker task | handler, dispatcher, `get_browser`, `add_client`, `remove_client`, `close`, `release_browser` | steps of the handler, the dispatcher and the workers interleave at every await; launch, close and API calls fail; clients leave at any time; a browser is closing while others join it | a permit per running browser, taken once and returned once; exact client counts; every browser is on its way to be released; every connection is answered |
| **Cleaner** (`BrowserPool.close_out_of_control_browser`, `browser_agent/background_tasks.py`) | `maybe_out_of_control_pids`, local snapshot of the pids in use | two loops over pids, with sleeps inside | the snapshot is old when it is used; a launching browser is not in the dictionary yet | kills no process that launches or serves, kills every stray |
| **Websocket proxy** (`websocket_proxy/__init__.py`) | two tasks, two sockets | copy, `close`, `run` | each task closes the socket and cancels both tasks, possibly at the same time; back-pressure | ends when either peer ends; nothing runs on afterwards; no message is dropped by the end of its own source |
| **Slot lease** (`browser_agent/entry.py`, `background_tasks.py`, `api_server/api/v1/agent.py`, `storage/mysql.py`, `api_client/v1`, `run_agent.py`) | `agent.last_ack_time`, `advertise_address`; in the agent `agent_id`, `last_ack_time`, `soft_exit` | bind, heartbeat (three tries), teardown, fork | lost replies, late handlers, retries with an old value, clock, crash | a lease is not given away before its time; whoever lost its slot cannot write, and stops |
| **Limit rules, add and remove agent** (`storage/mysql.py` 326-429, `api_server/api/v1/agent.py`, `user.py`) | `limit_rule` counters, `agent` table, pool of connections | view `WITH CHECK OPTION`, `add_agent`, `remove_agent` | the second statement runs on another connection in autocommit; locks of records and of gaps; a removal is repeated; the server crashes | counters agree with the table but for what is in flight and what was lost; the limit holds; requests end |
| **Dynamic router and browser-agent map** (`api_server/api/v1/dynamic_router.py`, `browser_agent_map.py`, kong's `handler.lua`) | `browser_agent_map` | route a bid, insert, delete | entries outlive agents; two routes race | a live bid is routed to the agent that runs it |
| **Authorisation and caches** (`api_server/common/auth_check.py`, `api_server/entry.py`) | two TTL caches | look up a token, an agent | a query that is under way fills the cache with what is gone by then; failing queries empty it | what was removed is recognised no longer than an entry lives |
| **Agent processes** (`run_agent.py`, `browser_agent/entry.py`, `utils/background_task_mgr.py`) | `soft_exit`, the manager's `_soft_exit`, the tries of a heartbeat | fork, bind, signals, background tasks, teardown | a signal before the bind, when half of `set_soft_exit` fails; a heartbeat that is refused; an interrupt of the parent before, in and after its `try` | no signal is lost; whoever lost its slot or is asked to stop stops |
| **Busy events, background process** (`busy_event.py`, `background_task/`) | rows inserted, never read | insert | none yet | - |
| **Servers' set-up, utilities, models** | none | - | - | - |

How they interact: the connection handler and the dispatcher share the queue;
the dispatcher, the workers and the cleaner share the pool; a worker owns one
proxy and calls `remove_client` when it ends; the heartbeat, the idle check and
signals set `soft_exit`, which the handler, `get_browser`, the background tasks
and `agent_main` read; agents reach the tables only through the api server's
HTTP handlers, which recognise them by the caches; the router adds agents and
their teardown removes them, both through the transactions that keep the limits.

`PROJECT.json` lists the hazards of this code at their lines, with the
properties that cover each.

## 2. Modules

### BrowserPool

One agent process. It runs one event loop, so an action is what one coroutine
does from one suspension point to the next, and every interleaving of
suspension points is explored. `task[c]` says where connection `c` stands:

    new -> rejected                                  handler answers and returns
    new -> queued -> dispatching -> scheduled        through request_queue
    new -> scheduled                                 bid found in busy_browsers
    scheduled -> proxying | refused                  add_client
    proxying -> done | closing -> unmapping -> done  remove_client
    dispatching -> done | lost                       every try failed; exception

| action | code |
|---|---|
| `Arrive` | `browser_websocket_connection_handler`, up to `await shield(future)` |
| `ClientGone` | its `finally`, when sanic cancels the handler |
| `TakeRequest`, `PermitAcquired`, `LaunchSucceeds`, `LaunchFails`, `ReplySent` | `request_queue_dispatcher` and `get_browser`, cut at `queue.get`, `sem.acquire`, `browser.run` and the sends |
| `StartWorker`, `EndProxy` | `add_client`; the worker's `finally` and `remove_client` up to `close` |
| `CloseSucceeds`, `CloseRaises`, `ReleaseBrowser` | `Browser.close` (retry loop), the delete of the map entry, `release_browser` |
| `BindAgent`, `SetSoftExit`, `IdleExit`, `Exit` | `entry.py` and the heartbeat's task, as far as this component sees them |

`Browsers` are Browser *objects*; `StartLaunch` chooses an unused one. `permit`
and `exit_reason` are history variables. `Release` models `BoundedSemaphore`,
which raises at its bound (and in `get_browser` the exception drops the
connection: `"lost"`). A `set_result` on a future that is done raises
`InvalidStateError`, which is why `GiveUp` sends the reply only to a connection
that is still there. `bid` is the browser a connection names; `SharedBids`
says whether two connections may name the same one.

### PermitPool

The abstract specification: N permits, taken at most once by each user and given
back once, or handed over (a failed launch releases its permit and the next try
acquires it in the same stretch). `BrowserPool!PermitsUsedOnce` is the
refinement, with `free <- sem`; it holds when no two connections share a
browser, and fails when they do (section 5).

### BrowserCleaner

EXTENDS BrowserPool with the operating system's processes (`proc`) and the
cleaner. `CleanerRuns` takes the snapshot and runs to the first sleep;
`CleanerResumes` continues with the *old* snapshot. `PoolStep` says what each of
the pool's steps does to the process: a launch that fails may leave one alive
(`autoClose` is off), pyppeteer's close may leave one alive; `CloseRaises` kills
it, unless the `kill()` in the except clause raises as well, which leaves the loop of
tries at once. `SlowLaunch` says whether a launch may outlast two runs of the task, which
are 20 s apart; the start of the task in `BackgroundTaskManager` is the
guard `agent_bound /\ ~soft_exit`.

### WebsocketProxy

One connection between a worker's `run()` and the return of its own `close()`.
`Leave(t)` is the `finally` clause up to `await browser_ws.close()`,
`FinishClose(t)` the rest: the cancellation of both tasks. `cancelled[t]` is a
`CancelledError` on its way; `Interrupted(t)` is its delivery, which `close()`
swallows (`except Exception`; CancelledError is an Exception in Python 3.6). The
sockets are external: `inbox` is what `recv` still hands out after the end of a
connection, `outbox` what the peer has not read, with `send` blocking at
`BUFFER`; `browser_ws.close()` always ends, by its time-outs (`HandshakeEnds`).

`ImplementsRelay` is the refinement of *Relay*: what a peer sent and what the other's
`send` took of it are counted, `gone` is `hung_up`, and a direction has `ended` when
its task left its loop. Buffers, cancellation, `close()` and the worker disappear.

### Relay

The abstract specification of a connection: a pipe in each direction, which loses and
repeats nothing, delivers to nobody who has gone, and of which the first to end has
nothing left to do. `Faithful` is its promise.

### AgentSlot

Agent processes, the `agent` table and the requests between them. A heartbeat
is a record in `heartbeats` that carries the `last_ack_time` it was sent with;
when the agent gives up on it (`waiting = FALSE`) the request, or the handler,
goes on and may still write. `BindSlot` is the transaction of
`bind_to_free_slot`, `Update` the compare-and-set of
`update_agent_last_ack_time`; both write the time `t` the *handler* took at
some moment since the request was sent, which need not be the present. `NoUpdate`
is the handler's other outcomes: 0 when no row matched or the database failed,
`Refused` when the authorisation fails. `Die` may happen in any state, `Fork`
is the loop of `run_agent.py`. The child binds with its parent's advertise
address, so an agent is an address. A process that dies while it waits for its bind
leaves the handler behind (`late_binds`), and `BindSlotLate` may write that address
into a slot when the next child has gone on: the slot then names a process that knows
nothing of it, also one that holds another slot or had lost this one. A soft exit does
not end a round of heartbeats, which goes on while the process tears down. `granted` is
a history variable, the time of a slot's last bind; `Stale` compares it with what an
agent has heard of, as the address alone does not tell two binds apart. Acked times grow strictly from one
heartbeat to the next: they are milliseconds, and a heartbeat's interval is
seconds.

`ImplementsLease` is the refinement of *Lease*: `lessee[a]` is `ASV.agent_id` from
the bind to the end of the process, `heard` is `ASV.last_ack_time`. Requests,
retries, abandoned handlers and forks disappear in it.

### Lease

The abstract specification of a slot: granted only `THRESHOLD` after the last renewal,
to an agent that has none or, when the grant is lost on its way, to nobody who knows;
renewed in the name of its holder; what an agent hears of it may be late, but then it is
of a lease that is over. `since` is when a slot was granted last, and an agent that has
heard of nothing that new is `Overtaken`, though the grant may bear its own address. Its
promises are `Exclusive` (who has heard of a lease that is not over has the slot, by the
grant that it heard of) and `LostForGood` (who is overtaken stays so until it forgets).

### AgentQuota

The calls of `add_agent` and `remove_agent` that one api server handles for one limit
rule, statement by statement; and those of `bind_to_free_slot` (`Binds`), as far as they
stand in the way of these, by a connection of the pool and by locks.

| action | code |
|---|---|
| `Acquire`, `FirstStatement`, `Commit`, `Rollback` | the transaction on the connection of `self.pool.acquire()` |
| `AcquireSecond`, `SecondStatement`, `SecondRefused` | the second statement, which is not given that connection: `_execute` takes another one and it commits by itself |
| `StatementFails`, `LockWaitTimesOut`, `Crash` | an error or no connection; `innodb_lock_wait_timeout`; the server or its connections die |
| `Arrive` | the router's add, an agent's teardown: `remove_agent` may come again for a record that is gone |
| `ScanBegins`, `ScanLocks`, `ScanEnds` | the `SELECT ... FOR UPDATE` of `bind_to_free_slot` up to the end of its transaction |

`FirstStatement` and `DecrementRule` carry the view's check option; the first
statement's effect is visible at `Commit`, its row lock (`Locks`) is there before.
Under InnoDB's REPEATABLE READ a `DELETE` that finds no record locks the gap where it
would be, which may be where `add_agent` inserts; so may the gap before the record that
the `SELECT` of a bind comes to (`gaps`, whose locks let each other pass but no INSERT).
A bind stands by one record, the one it comes to (`goal`), and one gap: what it meets
there is what it would meet at any other. The locks of heartbeats, single statements
in autocommit, are left out; a circle that InnoDB detects itself, without a connection
in it, is a statement that fails.
`drift` is a history variable: how often the rule lost an agent that exists (a
removal of nothing, an add whose transaction is rolled back after the insert, a crash
between). `Exhausted` names the state in which every connection is held by a request
that waits for its second one.

### AuthCache

The two caches, in front of the two tables. A request presents its access token and
perhaps an agent's id, one after the other (`todo`); each is looked up, asked of the
database, and filled in three steps that other requests, withdrawals and the clock may
come between. `Fill` writes what was read, which may be gone by then; a query that
found nothing, or failed, writes `None`, which `cache.get` cannot tell from no entry.
`gone` is a history variable. `DELAY` bounds the time from a query's reading to the
resumption of its coroutine; the code has no such bound, and the theorem about it
names it as a parameter.

### AgentProcess

EXTENDS AuthCache: the heartbeat `HB` is one of its requests. The parent forks and
waits; `parent` says where it is:

    forking -> forked -> waiting -> forking          Fork, AwaitChild, Reap
    waiting, forking -> interrupted                  Interrupt, in the try or with no child
    forked, waiting -> escaped                       Interrupt before the try, or a second one

In its `try` around `waitpid` an interrupt is passed to the child (`PassOn`). Between
`fork` and the `try`, or again in the except clause, it escapes `main` and the child
hears of nothing. The child goes

    none -> starting -> binding -> serving -> stopping -> none

and `SignalChild` says what a signal does in each of them: before its handlers are
installed it kills, afterwards it calls `set_soft_exit`. `SetSoftExit` is that
function with its failure: without a background task manager its second line
raises, so that `soft_exit` is set and `exiting` is not. `beat` and `try` are the
heartbeat's task, which may be in a round of tries while `agent_main` tears down;
`TaskEnds` is the wrapper's end after a soft exit, whose `task.cancle()` raises.
`RemoveSlot` and AuthCache's own `Withdraw` (somebody else's `remove_agent`) delete
the record. `ProcessImplementsAuth` in the proofs: every step is a step of AuthCache
or leaves it alone.

### DynamicRouter

The clients of one user (the map is keyed by user and bid, and no statement
crosses users), the two tables, and the agents as far as the router sees them.

| action | code |
|---|---|
| `Request`, `Connect`, `ConnectFails` | kong's `access`: the request to the api server, and the connection to the host it is told |
| `LookupMap`, `GetInfo`, `SelectAgent`, `AddAgent`, `Wake`, `Register` | `get_agent_for_user`, cut at its statements and its sleep |
| `Leave`, `Release` | the last client's `remove_client`: close, then `delete_browser_agent_map(user_id, bid)` and release |
| `Bind`, `SoftExit` | `bind_to_free_slot`, `soft_exit` |
| `UnmapAgent`, `RemoveAgent`, `Crash` | `teardown_process`, or a process that dies; `run_agent.py` forks the next at the same address |
| `UnmapLate` | the handler of a deletion whose sender has given it up or ended |

`route[c]` is the suspension point of a client's request, `target[c]` and `host[c]`
its locals: the agent record it found and the address in it. `Register` is the
insert that the unique key `idx_uid_bid` guards. Time does not appear: whether a
record's `last_ack_time` is young enough for `get_alive_agent_for_user`, or old enough
for `bind_to_free_slot`, is open at each statement, since a heartbeat may be late
whatever its sender does (AgentSlot). So a slot may be bound while its holder still
serves, as well as while a request has the record's id in its hand; a bind may also be
that of a process that is gone, with nobody who learns of it. Agents of either
`is_steady` bind any slot, and `AddAgent` may insert any record not born yet: more than
the code can do.

Several processes can thus have one slot id, one of which the record names.
`delete_browser_agent_map(agent_id)` is by that id: a process that lost its slot deletes,
in its teardown or by a request that outlives it (`late`), the entries of the new holder.
The code splits the clients of these bids from the next ones, and the model shows it: the
history variable `orphaned` holds the clients whose entry was deleted by a process that
does not serve them, and the properties are about all others.

`Argument` and `Integer` are the two forms of a user's id: the query's string and
the table's integer. `check_user_id_auth_by_req` compares them as they are, so that
`Release` never deletes an entry. This looks like a mistake, but
`ServedIsMapped` depends on it: `remove_client` deletes the entry after the close,
when new clients may have been routed by it.

An agent in teardown is outside the properties: `server_task.cancel()` leaves open
connections up until the process ends, a moment after its entries and its slot are gone.
A client may join a browser that is being closed (`add_client` looks only at `closed`).

### MC modules and *_proofs modules

`MC*` modules add the symmetry sets for TLC; `*_proofs` modules hold the theorems
(section 4). An operator named `XWrong` stands before `X` and is what `X` would be
with a plausible mistake in it; nothing uses it. `PROJECT.json` pairs each
checked property with one that breaks it.

## 3. Runs

| run | configuration | checks | result |
|---|---|---|---|
| pool | BrowserPool.cfg | `TypeOK`, `ClientCountExact`, `NoAbandonedBrowser`, `NoPermitLeak`, `TrackedHoldPermit`, `PermitsComeBack`, `QueueDrains` | hold |
| pool_double_release | BrowserPoolDoubleRelease.cfg | `CapacityRespected`, shared bids | violated |
| pool_idle_exit | BrowserPoolIdleExit.cfg | `IdleExitWhenIdle` | violated |
| cleaner | BrowserCleaner.cfg | `CleanerTypeOK`, `CapacityRespected`, `UsedIsTracked`, `NoHungConnection`, refinement `PermitsUsedOnce`, `KillsOnlyOutOfControl`, `OutOfControlIsKilled` | hold |
| cleaner_slow_launch | BrowserCleanerSlow.cfg | `KillsOnlyOutOfControl`, slow launches | violated |
| proxy | WebsocketProxy.cfg | `TypeOK`, `CancelledAfterClose`, `QuietAfterRun`, `DrainedBeforeEnd`, `OnlyAPeerBlocks`, `HangUpEndsConnection`, refinement `ImplementsRelay` | hold |
| slot | AgentSlot.cfg | `TypeOK`, `Fencing`, `LeaseHonoured`, `StaleAgentStops`, refinement `ImplementsLease` | hold |
| slot_denied | AgentSlotDenied.cfg | `DeniedOnlyIfLost` | violated |
| slot_remove | AgentSlotRemove.cfg | `OnlyOwnerRemoves` | violated |
| router | DynamicRouter.cfg | `TypeOK`, `OneAgentPerBid`, `ServedIsMapped`, `RoutingEnds` | hold |
| quota | AgentQuota.cfg | `TypeOK`, `AccountsBalance`, `LimitHolds`, `RemovableWhileCounted`, `RequestsEnd` | hold |
| process | AgentProcess.cfg | `ProcessTypeOK`, `InterruptReachesChild`, `WithdrawnExpires`, `AskedChildEnds`, `RemovedAgentStops` | hold |

What they show:

- *pool*: clients that join a browser, leave it and come back while it
  closes, with failing launches and closes, never make the client count wrong,
  strand a permit or a browser, or leave a browser without permit in
  `busy_browsers`; and if clients leave, permits come back and the queue is served.
- *cleaner*: with a browser per connection, which is how the repository's own test
  client connects, the pool implements the permit pool: no more than
  `BROWSER_PER_AGENT` browsers at a time, and no handler is left waiting. Neither
  the sleeps inside the cleaner's loops nor its old snapshot make it kill what is in
  use, provided launches are shorter than two intervals; strays die.
- *proxy*: the two tasks' concurrent `close()` calls and the self-cancellation in
  them are harmless: the connection is a faithful relay all the same, and after the end
  of one peer nothing but the other can hold it up.
- *slot*: the lease works over lost and late messages and binds that outlive their
  sender; the compare-and-set alone keeps a holder that lost its slot from writing, and
  such a holder stops in the end. All of it is an implementation of the lease.
- *router*: two clients of one bid sit at one agent, or at two of which one has lost the
  slot that they were sent for, whichever of them registers first and whichever agent
  stops, crashes, comes back or takes the other's slot; and the entry of a client stays
  until its agent tears down. Only a process with the same slot id can take that away,
  which is what `orphaned` leaves out. A request is answered even when no agent ever
  comes up. `OneAgentPerBid` says nothing of a client that is sent to an address whose
  process holds another slot by now: such clients exist (a crash, and the next process at
  that address binds another slot while the old record still names it).
- *quota*: a transaction that is only half a transaction loses count in one
  direction only: an agent may exist that the rule does not count, never the
  reverse, so no part of a quota is lost for good; `LimitHolds` says by how much the
  limit can be exceeded. Every circle of waiting for locks and connections is broken
  by the lock's time-out, except `Exhausted`; also the one in which an add, with the rule
locked, waits for the gap that a repeated removal locked, which waits for the rule.
- *process*: a child that was signalled while it had neither slot nor tasks stops as
  soon as it serves; an agent whose record was removed stops whether the caches still
  recognise it (its heartbeat is answered 0) or not (it is refused until its tries are
  over); an interrupt that the parent meets in its `try`, or between two children, leaves
  no child behind that does not know of it, wherever that child is between its fork and its
  end. Between `fork` and the `try` it does leave one (section 5).

### Bounds, and why they are enough

- Pool: three connections (the first client of a browser, one that joins it
  while it closes, one behind them in the queue), two bids and one permit; a queue of
  length one is full when one waits, so both the refusal and the wait occur. Two
  tries of the close loop distinguish "again" from "last" (the code has 3); the
  launch has one try here and two in the cleaner's run (as the code has). Each
  connection needs at most `GET_BROWSER_TRIES` Browser objects, and the sets are
  large enough for that, so `Unused` is never empty when a browser is launched.
  pool_double_release needs four connections on one bid: two that
  release one browser twice, two more that use the extra permit. A larger capacity
  is left to the theorems of section 4, which hold for every one.
- Cleaner: two connections, two tries of a launch and four Browser objects: one
  process in use or waited for, strays of failed launches. When the objects have run
  out, no launch starts any more; the run is about the processes there are.
- Proxy: three messages in each direction and a buffer of one: a message can be in
  the inbox, in the task's hand and in the peer's buffer at once.
- Slots: two agents that compete for one slot, THRESHOLD 1 and a clock to 4:
  the slot is bound, expires, is taken, and expires again. Two tries and one
  heartbeat per agent at the api server: a second try starts when the first, given
  up, is gone or its reply is late (`LastTry` and `Abandon`). One bind may outlive its
  sender at a time (`MaxLateBinds`). slot_denied and
  slot_remove use two heartbeats and a longer clock. `MaxTime` stops the clock
  only; agents go on at the last instant. The clock to 4 is too short for a late bind
  that gives a slot back to the address of an agent that lost it to another, which needs
  three leases: the theorems of section 4 cover it. With more slots nothing new can happen
  between agents of different slots, and the theorems of section 4 hold for any
  number of them, and of every other bound.
- Router: two clients of one bid, because a bid's entry is what they share; two
  slots, one steady, and two agents, so that they may select differently and a slot
  may change hands. Each client comes once; agents come back without bound. The deletion
  that may outlive its sender is that of one of the slots (`Lingering`), in the
  theorems of any.
- Quota: a limit of two and three requests: a removal, its repetition, and an add
  that uses the room; one bind; three connections, so that three requests can hold all of
  them and two cannot. `IdsLeft` bounds adds by the ids there are. The circle of the gap
  needs two second connections, so that with three it comes together with a pool that is
  used up; the theorems of section 4 tell the two apart, for any pool.
- Process: one agent record, the heartbeat and one other request of the same token;
  entries live two units of a clock of three, so an entry can expire and a record be
  removed before, at and after it; two tries. `DELAY` is 0 in the run, any number in
  the theorem; `MaxTime` stops the clock only.

`CHECK_DEADLOCK FALSE` stands in the pool, cleaner, proxy, router, quota and
process configurations because there the system stops: the agent exits, the connection
ends, all clients are served and all slots removed, all requests are over, the parent
was interrupted. The slot
runs check deadlock: agents are forked for ever.

### Fairness

- *BrowserPool* `Fairness`: the event loop resumes a coroutine whose await is
  over, and the awaits of launch, close and the API calls end by the time-outs
  of pyppeteer and aiohttp. All of it stops with the process (`exited`).
  Separately, `ClientsLeave` assumes that clients disconnect in the end. The
  agent does not see to that: `idle_timeout` in `websocket_proxy/__init__.py`
  is stored and never read.
- *BrowserCleaner*: the background task manager repeats the task at its interval,
  and launches end.
- *WebsocketProxy*: the event loop again; `close()` ends by its time-outs; and a
  peer reads what it is sent as long as it stays connected. Without the last
  assumption a Chrome that hangs with a full buffer blocks the task that would
  notice that the client left.
- *AgentSlot*: heartbeats go on, a handler answers, and an agent that waits gets
  an answer or an error. No fairness for binding, ticking, removal or death.
- *AgentQuota*: the event loop and the database go on with each request that is
  neither blocked by a lock nor without a connection, and with each bind that has begun;
  a wait for a lock ends by `innodb_lock_wait_timeout`. Nothing is assumed of waiting for a connection:
  aiomysql's `pool.acquire()` has no time-out.
- *AgentProcess*: the child's loop goes on (`Stop`, `End`, `SendHeartbeat`), and the
  api server answers its heartbeat or the client gives up. None for binding, signals,
  forks or crashes.
- *DynamicRouter*: the api server resumes a request whose statement or sleep is
  over; nothing is assumed of agents, clients or the passing of time.

## 4. Proofs

Checked by TLAPS, for every value of the constants that satisfies the module's
assumptions (`PoolAssumption`, `CleanerAssumption`, `SlotAssumption`,
`ProxyAssumption`, `RouterAssumption`, `QuotaAssumption`, `AuthAssumption`,
`ProcessAssumption`: finite sets of connections, browsers and requests, positive
bounds, `None` distinct).

Liveness itself is out of the prover's reach. For each liveness property that a run
checks there is a theorem with its *safety part*: an invariant that says who is going
to act, or a measure that no step increases and every step in question decreases. What
is left to TLC then is that those steps are taken.

**AgentSlot_proofs**: `TypeCorrect`, `FencingHolds`, `LeaseHolds`, `AckMonotone`,
`LeaseImplemented`, `LeasesAreExclusive`, `StaleAgentRunsOut`. Neither `Fencing` nor `LeaseHonoured` is inductive: a message that carries an old
time could be answered with a new one. The inductive invariant speaks of *claims*,
values of `last_ack_time` for a slot, and where they are remembered:

- a claim is never newer than the table; one that is as new as the slot's last bind
  (`granted`), or not older than the threshold, belongs to the agent the record points
  to, and one that is older than that bind was over by then;
- `Grants`: a slot was never acknowledged before it was bound last;
- `SameLease`: what an agent has sent, and the answer to it, are of one bind;
- `AgentClaims`: what an agent that holds a slot remembers is a claim of its own;
- `HeartbeatClaims`: so are the old time in every request and the new time in every
  reply, abandoned ones included;
- `WaitingRuns`: an agent waits for at most one heartbeat, of its own slot, and only
  from the start of its tasks to its end.

A bind writes a time that is beyond the old one by more than the threshold, hence
beyond everything claimed of that slot; an update is guarded by the
compare-and-set. `AckMonotone` follows from the guards of the two writers.
`LeaseImplemented` maps each step to the lease's: a bind to `Grant`, an update to
`Renew` (the claim says that the sender is the holder), a reply to `Hear` (the claim
is the guard of `Hear`), a death to `Forget`, the clock to `Pass`, the rest to stutters.
`LeasesAreExclusive` proves Lease's promises from Lease alone, by the invariant
`Heard`: an agent has heard of nothing newer than the last renewal, and what is that new
or not over is its own.

`StaleAgentRunsOut`: an agent whose slot was bound again or removed stays `Stale` as long
as it runs, whoever binds the slot and be it a late handler in the name of its own
address, and `Chances`, the heartbeats it may still send, only falls. It is not simply
the rest of a round: a reply to a heartbeat that was acknowledged before the slot went
may come afterwards and give one more round (`AckUnread`), but only one, for every later
update carries a time from before the bind and matches no row.

**BrowserPool_proofs**: `TypeCorrect`, `ClientCountIsExact`, `NoBrowserAbandoned`,
`NoPermitLeaks`, `TrackedBrowsersHoldPermits`, `NoRequestForgotten`,
`PermitWaitIsForWorkers`. The inductive invariant adds

- `Shape`, `QueueShape`: what a connection has got follows from where its work
  stands; a connection is queued once and nobody else works on it meanwhile;
- `Fresh`: nobody refers to a Browser object that has not been created;
- `LaunchOwned`: nobody but the dispatcher knows a browser that launches, and it
  holds a permit;
- `BidsOwned`: a browser is in the dictionary once, under the bid of the
  connections that were given it. This, with `TrackedHoldPermit`, is why a release,
  which drops whatever the bid names, cannot strand another browser.

`NoPermitLeak` is a count: every action moves `sem` and the cardinality of the held
permits in opposite directions, except a release that finds the semaphore full.
Cardinality facts come from `FiniteSetTheorems`.

Two theorems say who acts next. `NoRequestForgotten` (`Attended`, an invariant of its
own on top of the others): what is queued is in the queue, what is dispatched is the
dispatcher's, and a close that failed has a try left. `PermitWaitIsForWorkers`: when the
dispatcher waits for the semaphore, `BROWSER_PER_AGENT` browsers hold permits and each
has a worker on its way to release it, since the only other one that could, the
dispatcher, does not launch.

**BrowserPoolPrivate_proofs** (assuming `~SharedBids`): `CapacityIsRespected`,
`UsedBrowsersAreTracked`, `NobodyHangs`, `NobodyIsTurnedAway`, `PermitsAreUsedOnce`. To
`IInv` it adds

- `OneConnPerBid`, `OwnTracked`, `TrackedInUse`: a browser in the dictionary is that
  of the one connection of its bid, from the schedule to the release;
- `OpenForUse`, `Answered`: nobody is given a closed browser, so no worker is refused;
  who ended, or is closing, has resolved its future;
- `PermitsExact`: `sem` and the held permits add up to `BROWSER_PER_AGENT`, not only
  at least.

The client that leaves is then the only one (`OnlyClient`), a release finds the
semaphore below its bound (`BelowBound`), hence drops no connection (`NeverLost`), and every
step is one of PermitPool's
(`PermitsStep`). With shared bids each of these fails, as section 5 shows.

**BrowserCleaner_proofs**: `CleanerImplementsPool`: the composition adds nothing to
what the pool does, so that the pool's theorems hold of it. Assuming `~SharedBids` and
`~SlowLaunch`: `CleanerTypeCorrect`, `KillsOnlyWhatIsOutOfControl` and
`LeftIsNotedAndKilled`. The invariant is
`TodoReleased`: what the task has still to kill, after a sleep, has returned its
permit. A process that is alive has a browser with a permit (`Spawned`); one that
neither launches nor is in the dictionary has returned it (`StrayIsReleased`, from
`NoAbandonedBrowser` and `OwnTracked`); and what is returned stays so
(`PermitsOnlyAdvance`), however old the snapshot gets.

`LeftIsNotedAndKilled` is about a process that is alive after its browser returned its
permit. A run that begins then does not find it in use (`TrackedHoldPermit`), so that it
is noted when that run ends; noted, it stays on the lists until it is dead, and every
step of the task kills some process. A run that began before the release may miss it,
which is why the theorem speaks of `Exposed` ones.

**WebsocketProxy_proofs**: `TypeCorrect`, `CloseComesFirst`, `RunLeavesQuiet`,
`FirstToEndIsDrained`, `OnlyPeersBlock`, `ProxyIsRelay`, `RelayIsFaithful`. The inductive invariant adds

- `ClosingCloses`: while a task is in `close()` Chrome's socket is not open, and
  after it the socket is closed and the task is not cancelled;
- `FirstLeaves`: until one task left its loop, nothing is cancelled and nothing is
  closed but by a peer;
- `Accounting`: what a peer sent is in its inbox, in the task's hand, or forwarded;
- `FirstIsDrained`: the direction that ended first, towards a peer that is there,
  ended with its source and forwarded all of it.

`OnlyPeersBlock` needs two more (`EndInv`): who hung up has its socket closed, and a task
that is done leaves the other one done, in `close()` or cancelled. So no task waits for
the other or for an end that only the other has seen. `ProxyIsRelay` maps a `send` that
is taken to `Deliver` and the step out of a task's loop to `End`; the first `End` needs
`FirstIsDrained`. `RelayIsFaithful` proves the relay's promise from the relay alone.

**DynamicRouter_proofs**: `TypeCorrect`, `EntryStays`, `BidHasOneAgent`,
`RoutingIsBounded`, `EntriesGoByTeardown`.
`ServedIsMapped` is inductive with

- `SlotKnown`: an agent has a slot while it runs, and none when it is down;
- `RouteShape`: what a request knows at each suspension point;
- `LookedUpIsMapped`: between the lookup of an entry and the reading of the agent's
  record the entry can go only by a teardown, and then its client is among `orphaned`.

An insert needs the entry to be absent, so it concerns nobody who has one; a deletion
makes orphans of whom the entry routed, but for those whose own agent tears down
(`UnmapOrphans`). Nothing is said of who binds a slot when, and no slot need have one
holder. `OneAgentPerBid` follows: two clients of a bid have one entry, hence one slot,
and if they are at two agents the slot's record names at most one of them.

`RoutingIsBounded` counts the suspension points of `get_agent_for_user` that a request has
left (`Left`, at most four in each of its `ROUTE_TRIES` iterations): its own steps use
one up, and nobody else's gives one back. `EntriesGoByTeardown` is the life of an entry:
never replaced, deleted only in the teardown of a process that has its slot id or by the
request of one that had. What a crashed agent leaves behind is therefore left for good,
or until a later holder of the slot tears down.

**AgentQuota_proofs**: `TypeCorrect`, `AccountsAlwaysBalance`, `LimitAlwaysHolds`,
`AlwaysRemovableWhileCounted`, `LockCircleNeedsGap`, `StandstillNeedsPoolOrGap`,
`RoomyPoolStallsByGapOnly`, for any number of requests, binds, agents and connections. The
inductive invariant adds to the equation of `AccountsBalance`

- `Phases`: which points of the code have a second statement in effect;
- `Exclusive`: no two adds hold the rule, no two removals a present record, which the
  locks see to;
- `Room`: an add that holds the rule was not refused, so there is room for one more.

Each step moves two of the four terms of the equation, a crash any number of
them at once. `LimitAlwaysHolds` and `AlwaysRemovableWhileCounted` are arithmetic on it.

The other three say what requests wait for. Adds lock the rule and then insert a record,
removals lock a record and then the rule. The insert waits for no record that a removal
has locked, but for the gap, if the removal found none: it has the gap and waits for the
rule, the add has the rule and waits for the gap. That, or with a bind in between (which has
the gap and waits for the record of a removal that waits for the rule), is the only
circle; everybody else who is blocked is so behind one that is not
(`LockCircleNeedsGap`; `GapHolders`: who has the gap has done its first statement). The
adds and removals in it wait on their second connection while the first has the locks, so
InnoDB sees no circle and it is for the time-out to end it. A standstill
of open transactions is then this circle, or one that has a lock waits for its second
connection with none available (`StandstillNeedsPoolOrGap`); and with two connections for
every request and one for every bind, only the circle is left
(`RoomyPoolStallsByGapOnly`).

**AgentProcess_proofs**: `AuthTypeCorrect`, `WithdrawnAlwaysExpires` of AuthCache;
`ProcessImplementsAuth`, `ProcessWithdrawnExpires`, `ProcessTypeCorrect`,
`InterruptAlwaysReachesChild`, `AskedIsNotForgotten`, `RemovedAgentFindsOut` of AgentProcess.
For the caches: a record that is present
was never gone; an entry of a record that is gone ends no later than
`gone + TTL + DELAY`; a query that found it read it no later than it went, and the
clock is no further than `DELAY` from the reading. A withdrawal at `now` sets `gone` to
`now`, and no entry lives beyond `now + TTL`; a fill adds `TTL` to a time that is within
`DELAY` of the reading. AgentProcess inherits it by the refinement.

For the child the invariant is `Watched`: whatever stops its background tasks told
`agent_main` to stop first, so a child that serves has a heartbeat that goes on or is
about to stop. `AskedIsNotForgotten`: a signal sets `soft_exit` even where the second line
of `set_soft_exit` raises, and the bind does not reset it. `InterruptAlwaysReachesChild`
needs `OneChild`: the parent forks only when the child before is gone. `RemovedAgentFindsOut`: once the
record of a serving child is gone, no heartbeat is answered with success, and each one,
refused, unanswered or answered 0, uses up part of `TriesLeft`.

Only model-checked: the liveness properties, as TLAPS proves nothing of fairness and
ENABLED here. Their safety parts are theorems:

| liveness property | its safety part |
|---|---|
| `PermitsComeBack` | `NoBrowserAbandoned`, `PermitWaitIsForWorkers` |
| `QueueDrains` | `NoRequestForgotten`, `PermitWaitIsForWorkers` |
| `OutOfControlIsKilled` | `LeftIsNotedAndKilled` |
| `HangUpEndsConnection` | `OnlyPeersBlock` |
| `StaleAgentStops` | `StaleAgentRunsOut` |
| `RoutingEnds` | `RoutingIsBounded` |
| `RequestsEnd` | `LockCircleNeedsGap`, `StandstillNeedsPoolOrGap` |
| `AskedChildEnds` | `AskedIsNotForgotten` |
| `RemovedAgentStops` | `RemovedAgentFindsOut` |

Every invariant, refinement and other action property that a passing run checks is a
theorem.

## 5. Where the code and its own words differ

Each is a run that TLC ends with a counterexample, and an entry of `PROJECT.json`
with the quoted line.

1. *pool_double_release*: `remove_client` decrements, then awaits `close`; a client
   that joins in between makes the count reach zero twice, and the browser is
   released twice for one acquire. The bounded semaphore notices only when it is
   at its bound.
2. *pool_idle_exit*: the idle check looks at `busy_browsers` only, which a
   launching browser is not in.
3. *cleaner_slow_launch*: a launch that is under way at two runs of the cleaner is
   killed as out of control.
4. *slot_denied*: the retry of a heartbeat that took effect but was not answered
   carries the old time; it matches no row and the agent is told that it lost a slot
   that it has.
5. *slot_remove*: an agent that stops because its slot was taken removes, by id, the
   record of the agent that took it.

Without a run, because nothing in the repository promises otherwise, or because the
code cannot be executed as written:

- An interrupt of `run_agent.py` between `fork()` and the `try` around `waitpid`, or a
  second one in the except clause, ends the parent and leaves its child un-signalled
  (`Interrupt`).
- A repeated `remove_agent` and an `add_agent` can wait for each other, by the gap and the
  rule, with two connections each, so that InnoDB sees no circle: only
  `innodb_lock_wait_timeout` ends it (`LockCircleNeedsGap`).
- Transactions as many as the pool has connections (20), each of which waits for its
  second one, wait for ever (`Exhausted`); a repeated `remove_agent` decrements the rule
  again.
- `auth_check.py` caches `None` "to prevent cache breakdown", but reads such an entry
  as no entry: it never hits (`Lookup`).
- `modify_limit` builds `%{owner_id}s` placeholders, which no parameters fill.
- `BackgroundTaskManager` calls `task.cancle()`: the first task to end after a soft exit
  fails, the others run to the end of their interval (`TaskEnds`).
- The thread of `signal_handler` that is to force the exit ends itself only (`End`).
- `run_agent.py` takes `GEPPYTTO_IS_STEADY` for true whatever its value.
- `add_user` that fails between its three inserts leaves a user whose name is taken,
  and who has no limit: the UPDATE of `add_agent` affects no row, which is no error.

## 6. Not modelled

- Reuse of a pid by the operating system, orphans of exited agents (the
  cleaner's third loop, over the children of process 1), and core dumps.
- Launch options, `get_busy_level` and the pressure reporter: they read only.
- The api servers' clocks: one clock is modelled. A clock that steps back, or two
  servers that disagree by more than the threshold, would break the lease.
- `is_steady` in AgentSlot, which divides the slots into two independent sets;
  `busy_level`: the router's `out` is any set of slots, busy or not alive.
- `add_user` (AgentQuota starts with its rules in place) and `upsert_limit`, see
  section 5; `inc_agent_request_limit` and the queries of rules, which nothing calls.
- The size of the caches (8192 entries, the oldest of which goes first).
- In AgentProcess: the background tasks other than the heartbeat and the idle check
  (the cleaner has a module; the reporter of pressure only reads), and a parent that is
  killed: it is a parent that never forks again.
- In the proxy, messages above the 1 MiB that websockets takes (`max_size`, which
  `browser.py` leaves alone) are not told from a peer that hangs up: such a message is
  lost and its connection ends. `sent` counts the messages that fit, and so do
  `DrainedBeforeEnd` and `ImplementsRelay`.
- The protocol handler of the proxy, which no caller passes. Messages are text, as
  those of DevTools are: of a binary one `message.startswith('$')` raises `TypeError`,
  which ends its direction.
- The parts of section 1 marked so in `PROJECT.json`.

## 7. Plan

What would come next, in this order:

1. *DynamicRouter* over *Lease*, with the time of a lease, to say when a client can be
   orphaned; a run that shows a client at an address whose process holds another slot;
   entries that nothing deletes.
2. *AgentCluster*: several pools behind the router, with slots that move.
3. `add_user` and the life of a user, in AgentQuota.
4. An abstract atomic counter that AgentQuota implements where no statement fails.
5. What is left of the pool's promises when clients do share a browser: the permits that
   a double release adds, bounded by the number of clients that joined while it closed.

## Running

    tlc -config BrowserPool.cfg MCBrowserPool
    tlapm BrowserPool_proofs.tla

Each run of section 3 pairs a configuration with the MC module of the same
component. The longest, router and quota, take about three and a half minutes.
