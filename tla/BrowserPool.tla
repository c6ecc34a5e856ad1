----------------------------- MODULE BrowserPool -----------------------------
(***************************************************************************)
(* Connections, the request queue and the browser pool of one agent        *)
(* process (geppytto/browser_agent/api/proxy/browser.py and                *)
(* geppytto/browser_agent/browser_pool.py).                                *)
(*                                                                         *)
(* The agent runs one asyncio event loop.  A step of this specification is *)
(* what one coroutine does between two suspension points: the handler of a *)
(* connection, the dispatcher of the request queue, and the worker task    *)
(* that proxies a connection and afterwards closes its browser.            *)
(***************************************************************************)
EXTENDS Integers, Sequences, FiniteSets

CONSTANTS
  Conns,                      \* client connections, each arrives once
  Bids,                       \* browser ids a client may ask for
  Browsers,                   \* Browser objects; each is launched at most once
  None,                       \* Python's None
  BROWSER_PER_AGENT,          \* settings.py: value of get_browser_sem
  AGENT_REQUEST_QUEUE_LENGTH, \* settings.py: maxsize of request_queue
  GET_BROWSER_TRIES,          \* range(2) in request_queue_dispatcher
  CLOSE_TRIES,                \* range(3) in Browser.close
  SharedBids                  \* may two connections name the same bid?

ASSUME PoolAssumption ==
  /\ IsFiniteSet(Conns) /\ IsFiniteSet(Browsers)
  /\ None \notin Conns \cup Bids \cup Browsers
  /\ BROWSER_PER_AGENT \in Nat \ {0}
  /\ AGENT_REQUEST_QUEUE_LENGTH \in Nat \ {0}
  /\ GET_BROWSER_TRIES \in Nat \ {0}
  /\ CLOSE_TRIES \in Nat \ {0}
  /\ SharedBids \in BOOLEAN

VARIABLES
  agent_bound,    \* ASV.agent_id is set
  soft_exit,      \* ASV.soft_exit
  exit_reason,    \* history: what soft_exit was first set for
  exited,         \* agent_main returned, the event loop is gone
  request_queue,  \* connections waiting for the dispatcher
  bid,            \* the bid each connection asks for
  task,           \* where each connection's work stands
  browser,        \* the Browser object a connection was given
  finished,       \* connections whose request_finish_fut is done
  close_try,      \* iteration of the retry loop in Browser.close
  dispatcher,     \* where request_queue_dispatcher is suspended
  sem,            \* value of get_browser_sem
  busy_browsers,  \* the pool's dictionary, bid -> Browser or None
  client_count,   \* Browser.client_count
  closed,         \* Browser.closed
  permit          \* history: has a Browser's semaphore permit been returned?

connVars == <<bid, task, browser, finished, close_try>>
poolVars == <<sem, busy_browsers, client_count, closed, permit>>
agentVars == <<agent_bound, soft_exit, exit_reason, exited>>
vars == <<agentVars, request_queue, dispatcher, connVars, poolVars>>

(* "new": not connected; "queued": in request_queue; "dispatching": taken   *)
(* by the dispatcher; "scheduled": ensure_future called, worker not started;*)
(* "proxying": counted as a client; "closing", "unmapping": awaits inside   *)
(* remove_client; "refused": told 'Busy' by the worker; "lost": dropped by  *)
(* the dispatcher's "except Exception: pass".                               *)
TaskState == {"new", "rejected", "queued", "dispatching", "scheduled",
              "proxying", "closing", "unmapping", "refused", "lost", "done"}

Idle == [at |-> "get", conn |-> None, tries |-> 0]

TypeOK ==
  /\ agent_bound \in BOOLEAN
  /\ soft_exit \in BOOLEAN
  /\ exit_reason \in {None, "requested", "idle"}
  /\ exited \in BOOLEAN
  /\ request_queue \in Seq(Conns)
  /\ Len(request_queue) <= AGENT_REQUEST_QUEUE_LENGTH
  /\ bid \in [Conns -> Bids \cup {None}]
  /\ task \in [Conns -> TaskState]
  /\ browser \in [Conns -> Browsers \cup {None}]
  /\ finished \in SUBSET Conns
  /\ close_try \in [Conns -> 0 .. CLOSE_TRIES]
  /\ dispatcher \in [at : {"get", "acquire", "launch", "reply"},
                     conn : Conns \cup {None}, tries : 0 .. GET_BROWSER_TRIES]
  /\ sem \in 0 .. BROWSER_PER_AGENT
  /\ busy_browsers \in [Bids -> Browsers \cup {None}]
  /\ client_count \in [Browsers -> Int]
  /\ closed \in [Browsers -> BOOLEAN]
  /\ permit \in [Browsers -> {"none", "held", "returned"}]

Init ==
  /\ agent_bound = FALSE
  /\ soft_exit = FALSE
  /\ exit_reason = None
  /\ exited = FALSE
  /\ request_queue = <<>>
  /\ bid = [c \in Conns |-> None]
  /\ task = [c \in Conns |-> "new"]
  /\ browser = [c \in Conns |-> None]
  /\ finished = {}
  /\ close_try = [c \in Conns |-> 0]
  /\ dispatcher = Idle
  /\ sem = BROWSER_PER_AGENT
  /\ busy_browsers = [b \in Bids |-> None]
  /\ client_count = [br \in Browsers |-> 0]
  /\ closed = [br \in Browsers |-> FALSE]
  /\ permit = [br \in Browsers |-> "none"]

-----------------------------------------------------------------------------
(* The steps the coroutines are made of, each after the forms of it that      *)
(* would be wrong and that the properties tell apart (the ...Wrong operators).*)

AcquireWrong(s) == s

\* get_browser_sem.acquire() on a semaphore at s.
Acquire(s) == s - 1

ReleaseWrong1(s) == s + 1
ReleaseWrong2(s) == s

\* get_browser_sem.release(): a BoundedSemaphore raises ValueError at its bound.
Release(s) == IF s < BROWSER_PER_AGENT THEN s + 1 ELSE s

PopWrong(b) == busy_browsers

\* busy_browsers.pop(bid, None)
Pop(b) == [busy_browsers EXCEPT ![b] = None]

ResolveWrong(c) == finished

\* request_finish_fut.set_result(None)
Resolve(c) == finished \cup {c}

LastClientWrong(br) == client_count[br] <= 0

\* The test of remove_client, after it decremented client_count.
LastClient(br) == client_count[br] - 1 <= 0

-----------------------------------------------------------------------------
(* The agent's own state, set by entry.py and by the heartbeat.             *)

\* bind_self_to_agent_slot succeeded: the agent has an id from now on.
BindAgent ==
  /\ ~agent_bound
  /\ agent_bound' = TRUE
  /\ UNCHANGED <<soft_exit, exit_reason, exited, request_queue, dispatcher,
                 connVars, poolVars>>

\* AgentSharedVars.set_soft_exit: by a signal, or by a heartbeat that failed.
SetSoftExit ==
  /\ ~soft_exit
  /\ soft_exit' = TRUE
  /\ exit_reason' = "requested"
  /\ UNCHANGED <<agent_bound, exited, request_queue, dispatcher, connVars,
                 poolVars>>

\* check_agent_idel: the dictionary is empty and last_idle_time, which only
\* release_browser moves, is old enough (any time may have passed).
IdleExit ==
  /\ agent_bound /\ ~soft_exit
  /\ exit_reason' = "idle"
  /\ \A b \in Bids : busy_browsers[b] = None
  /\ soft_exit' = TRUE
  /\ UNCHANGED <<agent_bound, exited, request_queue, dispatcher, connVars,
                 poolVars>>

\* agent_main sees soft_exit, tears down and returns, whoever is connected.
\* Until the slot is bound it does not look at soft_exit.
Exit ==
  /\ soft_exit /\ agent_bound
  /\ exited' = TRUE
  /\ UNCHANGED <<agent_bound, soft_exit, exit_reason, request_queue, dispatcher, connVars,
                 poolVars>>

-----------------------------------------------------------------------------
(* browser_websocket_connection_handler                                     *)

\* The handler answers 'Soft Exiting', 'Not Ready' or 'Busy' and returns.
Reject(c) ==
  /\ task' = [task EXCEPT ![c] = "rejected"]
  /\ finished' = finished \cup {c}
  /\ UNCHANGED <<browser, request_queue>>

\* asyncio.ensure_future(_browser_websocket_connection_handler(...)): the
\* worker is scheduled on br and starts in a later iteration of the loop.
Schedule(c, br) ==
  /\ task' = [task EXCEPT ![c] = "scheduled"]
  /\ browser' = [browser EXCEPT ![c] = br]

\* From the start of the handler to the await of the shielded future.
\* Between the check of request_queue.full() and put_nowait nothing awaits.
Arrive(c, b) ==
  /\ task[c] = "new"
  /\ SharedBids \/ \A d \in Conns : bid[d] # b
  /\ bid' = [bid EXCEPT ![c] = b]
  /\ \/ /\ soft_exit \/ ~agent_bound
        /\ Reject(c)
     \/ /\ ~soft_exit /\ agent_bound
        /\ busy_browsers[b] # None
        /\ Schedule(c, busy_browsers[b])
        /\ UNCHANGED <<finished, request_queue>>
     \/ /\ ~soft_exit /\ agent_bound
        /\ busy_browsers[b] = None
        /\ IF Len(request_queue) >= AGENT_REQUEST_QUEUE_LENGTH
           THEN Reject(c)
           ELSE /\ request_queue' = Append(request_queue, c)
                /\ task' = [task EXCEPT ![c] = "queued"]
                /\ UNCHANGED <<browser, finished>>
  /\ UNCHANGED <<agentVars, dispatcher, close_try, poolVars>>

\* The client's socket closes: sanic cancels the handler, which resolves the
\* future itself.  The queue entry or the worker of the connection stays.
ClientGone(c) ==
  /\ task[c] # "new" /\ c \notin finished
  /\ finished' = finished \cup {c}
  /\ UNCHANGED <<agentVars, request_queue, dispatcher, bid, task,
                 browser, close_try, poolVars>>

-----------------------------------------------------------------------------
(* request_queue_dispatcher and BrowserPool.get_browser                     *)

\* All tries of the for loop failed.  Resolving a future that its cancelled
\* handler resolved before raises InvalidStateError, and "except Exception:
\* pass" skips the answer to the client.
GiveUp(c) ==
  /\ task' = [task EXCEPT ![c] = "done"]
  /\ finished' = Resolve(c)
  /\ dispatcher' = IF c \in finished THEN Idle
                   ELSE [Idle EXCEPT !.at = "reply"]
  /\ UNCHANGED browser

\* Browser(bid): which of the unused names the new object gets is immaterial.
Unused(p) == {br \in Browsers : p[br] = "none"}

\* A free permit is taken: a new Browser object starts to launch.
StartLaunch(c, n, s, p) ==
  LET br == CHOOSE x \in Unused(p) : TRUE IN
  /\ Unused(p) # {}
  /\ permit' = [p EXCEPT ![br] = "held"]
  /\ sem' = Acquire(s)
  /\ browser' = [browser EXCEPT ![c] = br]
  /\ task' = [task EXCEPT ![c] = "dispatching"]
  /\ dispatcher' = [at |-> "launch", conn |-> c, tries |-> n]
  /\ UNCHANGED finished

\* The n-th call of get_browser(bid, launch_options) for c, entered with the
\* semaphore at s and the permits p.  Under soft_exit every remaining try
\* returns None at once.
GetBrowser(c, n, s, p) ==
  LET b == bid[c] IN
  \/ /\ soft_exit
     /\ GiveUp(c)
     /\ sem' = s /\ permit' = p
  \/ /\ ~soft_exit /\ busy_browsers[b] # None
     /\ Schedule(c, busy_browsers[b])
     /\ dispatcher' = Idle
     /\ sem' = s /\ permit' = p
     /\ UNCHANGED finished
  \/ /\ ~soft_exit /\ busy_browsers[b] = None /\ s > 0
     /\ StartLaunch(c, n, s, p)
  \/ /\ ~soft_exit /\ busy_browsers[b] = None /\ s = 0
     /\ dispatcher' = [at |-> "acquire", conn |-> c, tries |-> n]
     /\ task' = [task EXCEPT ![c] = "dispatching"]
     /\ sem' = s /\ permit' = p
     /\ UNCHANGED <<browser, finished>>

\* await request_queue.get() returns, and the first try follows.
TakeRequest ==
  /\ dispatcher.at = "get"
  /\ request_queue # <<>>
  /\ request_queue' = Tail(request_queue)
  /\ GetBrowser(Head(request_queue), 1, sem, permit)
  /\ UNCHANGED <<agentVars, bid, close_try, busy_browsers,
                 client_count, closed>>

\* await self.get_browser_sem.acquire() returns.  Neither soft_exit nor
\* busy_browsers is looked at again before the launch.
PermitAcquired ==
  /\ dispatcher.at = "acquire"
  /\ sem > 0
  /\ StartLaunch(dispatcher.conn, dispatcher.tries, sem, permit)
  /\ UNCHANGED <<agentVars, request_queue, bid, close_try,
                 busy_browsers, client_count, closed>>

LaunchSucceedsWrong ==
  /\ dispatcher.at = "launch"
  /\ task' = [task EXCEPT ![dispatcher.conn] = "scheduled"]
  /\ dispatcher' = Idle
  /\ UNCHANGED <<agentVars, request_queue, bid, browser, finished, close_try,
                 poolVars>>

\* await browser.run(launch_options) returns: the Browser enters the
\* dictionary and its worker is scheduled.
LaunchSucceeds ==
  /\ dispatcher.at = "launch"
  /\ LET c == dispatcher.conn IN
       /\ busy_browsers' = [busy_browsers EXCEPT ![bid[c]] = browser[c]]
       /\ task' = [task EXCEPT ![c] = "scheduled"]
  /\ dispatcher' = Idle
  /\ UNCHANGED <<agentVars, request_queue, bid, browser, finished,
                 close_try, sem, client_count, closed, permit>>

\* browser.run raised: the permit is returned and the next try follows at
\* once.  A release above the bound raises ValueError out of get_browser, and
\* the dispatcher's "except Exception: pass" drops the connection.
LaunchFails ==
  /\ dispatcher.at = "launch"
  /\ LET c == dispatcher.conn
         n == dispatcher.tries
         returned == [permit EXCEPT ![browser[c]] = "returned"] IN
     \/ /\ sem >= BROWSER_PER_AGENT
        /\ task' = [task EXCEPT ![c] = "lost"]
        /\ dispatcher' = Idle
        /\ permit' = returned
        /\ UNCHANGED <<sem, browser, finished>>
     \/ /\ sem < BROWSER_PER_AGENT /\ n < GET_BROWSER_TRIES
        /\ GetBrowser(c, n + 1, Release(sem), returned)
     \/ /\ sem < BROWSER_PER_AGENT /\ n = GET_BROWSER_TRIES
        /\ GiveUp(c)
        /\ sem' = Release(sem)
        /\ permit' = returned
  /\ UNCHANGED <<agentVars, request_queue, bid, close_try,
                 busy_browsers, client_count, closed>>

\* client_ws.send('Get Browser Failed') and client_ws.close() are over.
ReplySent ==
  /\ dispatcher.at = "reply"
  /\ dispatcher' = Idle
  /\ UNCHANGED <<agentVars, request_queue, connVars, poolVars>>

-----------------------------------------------------------------------------
(* _browser_websocket_connection_handler, Browser.add_client,               *)
(* Browser.remove_client, Browser.close and BrowserPool.release_browser     *)

StartWorkerWrong(c) ==
  /\ task[c] = "scheduled"
  /\ client_count' = [client_count EXCEPT ![browser[c]] = @ + 1]
  /\ task' = [task EXCEPT ![c] = IF closed[browser[c]] THEN "refused"
                                 ELSE "proxying"]
  /\ UNCHANGED <<agentVars, request_queue, dispatcher, bid, browser, finished,
                 close_try, sem, busy_browsers, closed, permit>>

\* The worker's first step is add_client.  If it fails the worker says 'Busy'
\* and returns without resolving request_finish_fut.
StartWorker(c) ==
  /\ task[c] = "scheduled"
  /\ LET br == browser[c] IN
     IF closed[br]
     THEN /\ task' = [task EXCEPT ![c] = "refused"]
          /\ UNCHANGED client_count
     ELSE /\ task' = [task EXCEPT ![c] = "proxying"]
          /\ client_count' = [client_count EXCEPT ![br] = @ + 1]
  /\ UNCHANGED <<agentVars, request_queue, dispatcher, bid,
                 browser, finished, close_try, sem, busy_browsers, closed,
                 permit>>

\* Connecting to the browser failed, or the proxy ended for any reason: the
\* finally block resolves the future, and remove_client decides in the same
\* step whether this was the last client.
EndProxy(c) ==
  /\ task[c] = "proxying"
  /\ LET br == browser[c] IN
       /\ client_count' = [client_count EXCEPT ![br] = @ - 1]
       /\ task' = [task EXCEPT ![c] = IF LastClient(br)
                                      THEN "closing" ELSE "done"]
  /\ finished' = Resolve(c)
  /\ UNCHANGED <<agentVars, request_queue, dispatcher, bid,
                 browser, close_try, sem, busy_browsers, closed, permit>>

\* await self._browser.close() returned.
CloseSucceeds(c) ==
  /\ task[c] = "closing"
  /\ closed' = [closed EXCEPT ![browser[c]] = TRUE]
  /\ task' = [task EXCEPT ![c] = "unmapping"]
  /\ UNCHANGED <<agentVars, request_queue, dispatcher, bid,
                 browser, finished, close_try, sem, busy_browsers,
                 client_count, permit>>

CloseRaisesWrong(c) ==
  /\ task[c] = "closing"
  /\ close_try[c] < CLOSE_TRIES
  /\ close_try' = [close_try EXCEPT ![c] = @ + 1]
  /\ task' = [task EXCEPT ![c] = IF close_try[c] + 1 = CLOSE_TRIES
                                 THEN "done" ELSE "closing"]
  /\ UNCHANGED <<agentVars, request_queue, dispatcher, bid, browser, finished,
                 poolVars>>

\* self._browser.close() raised: the process is killed and waited for, closed
\* stays as it was, and the loop tries again, unless kill or wait raise as well:
\* remove_client logs that and goes on.
CloseRaises(c) ==
  /\ task[c] = "closing"
  /\ close_try[c] < CLOSE_TRIES
  /\ close_try' = [close_try EXCEPT ![c] = @ + 1]
  /\ \/ task' = [task EXCEPT ![c] = "unmapping"]
     \/ close_try[c] + 1 < CLOSE_TRIES /\ UNCHANGED task
  /\ UNCHANGED <<agentVars, request_queue, dispatcher, bid,
                 browser, finished, poolVars>>

\* The await of delete_browser_agent_map is over, with or without success:
\* release_browser drops whatever Browser the bid names now and returns one
\* permit, unless BoundedSemaphore raises ValueError at its bound.
ReleaseBrowser(c) ==
  /\ task[c] = "unmapping"
  /\ busy_browsers' = Pop(bid[c])
  /\ sem' = Release(sem)
  /\ permit' = [permit EXCEPT ![browser[c]] = "returned"]
  /\ task' = [task EXCEPT ![c] = "done"]
  /\ UNCHANGED <<agentVars, request_queue, dispatcher, bid,
                 browser, finished, close_try, client_count, closed>>

-----------------------------------------------------------------------------
Dispatcher ==
  TakeRequest \/ PermitAcquired \/ LaunchSucceeds \/ LaunchFails \/ ReplySent

Worker(c) ==
  \/ StartWorker(c) \/ EndProxy(c)
  \/ CloseSucceeds(c) \/ CloseRaises(c) \/ ReleaseBrowser(c)

Next ==
  /\ ~exited
  /\ \/ BindAgent
     \/ SetSoftExit
     \/ IdleExit
     \/ Exit
     \/ \E c \in Conns, b \in Bids : Arrive(c, b)
     \/ \E c \in Conns : ClientGone(c)
     \/ Dispatcher
     \/ \E c \in Conns : Worker(c)

Spec == Init /\ [][Next]_vars

\* The event loop resumes every coroutine whose await is over, and launching,
\* closing and the API calls are bounded by timeouts of their libraries.
Fairness ==
  /\ WF_vars(~exited /\ Dispatcher)
  /\ \A c \in Conns :
       /\ WF_vars(~exited /\ StartWorker(c))
       /\ WF_vars(~exited /\ (CloseSucceeds(c) \/ CloseRaises(c)))
       /\ WF_vars(~exited /\ ReleaseBrowser(c))

\* Clients disconnect in the end, as those of test/test.py do.  Nothing in the
\* agent makes them: idle_timeout of WebsocketProxyWorker is never read.
ClientsLeave == \A c \in Conns : WF_vars(~exited /\ EndProxy(c))

LiveSpec == Spec /\ Fairness /\ ClientsLeave

-----------------------------------------------------------------------------
(* Properties                                                               *)

Held == {br \in Browsers : permit[br] = "held"}

ProxyingOn(br) == {c \in Conns : task[c] = "proxying" /\ browser[c] = br}

\* A coroutine that must still act on br: the launch, a worker that was given
\* br and has not looked at it, or one on its way to release_browser.
Launching(br) ==
  dispatcher.at = "launch" /\ browser[dispatcher.conn] = br

Starting(c, br) == task[c] = "scheduled" /\ browser[c] = br /\ ~closed[br]

Using(c, br) ==
  task[c] \in {"proxying", "closing", "unmapping"} /\ browser[c] = br

\* remove_client takes client_count for the number of workers that proxy to
\* the browser; the last of them to leave, and no other, has to see zero.
ClientCountExact ==
  \A br \in Browsers : client_count[br] = Cardinality(ProxyingOn(br))

\* A browser whose permit has not been returned is never left without a
\* coroutine on its way to release it: no failure of launch, connect or close,
\* no refusal and no client that leaves early strands a permit.
NoAbandonedBrowser ==
  \A br \in Held : Launching(br) \/ \E c \in Conns : Starting(c, br) \/ Using(c, br)

\* The pool never loses capacity: permits that are not held are in the
\* semaphore, whatever failed (the release in get_browser's except branch and
\* the one at the end of remove_client).
NoPermitLeak == sem + Cardinality(Held) >= BROWSER_PER_AGENT

\* Whoever finds a browser in busy_browsers finds one whose permit is held.
TrackedHoldPermit ==
  \A b \in Bids : busy_browsers[b] # None => busy_browsers[b] \in Held

\* get_browser_sem is there for this: at most BROWSER_PER_AGENT browsers are
\* launching, in use or closing.
CapacityRespected == Cardinality(Held) <= BROWSER_PER_AGENT

\* A browser that a client is proxied to is in busy_browsers, where is_idle,
\* get_busy_level and the out of control cleaner look for it.
UsedIsTracked ==
  \A c \in Conns : task[c] = "proxying" => busy_browsers[bid[c]] = browser[c]

\* A worker that has ended has let go of its connection: the handler does not
\* wait for request_finish_fut forever.
NoHungConnection ==
  \A c \in Conns : task[c] \in {"rejected", "refused", "lost", "done"} => c \in finished

\* check_agent_idel says 'Exit because agent idle': no connection is waiting
\* for a browser then.
IdleExitWhenIdle ==
  [][exit_reason' = "idle" /\ exit_reason = None
       => request_queue = <<>> /\ dispatcher.at = "get"]_vars

\* Every permit given to a browser comes back, while the agent runs.
PermitsComeBack ==
  \A br \in Browsers :
    (permit[br] = "held") ~> (permit[br] = "returned" \/ exited)

\* Every queued connection is answered or gets a browser, while the agent runs.
QueueDrains ==
  \A c \in Conns :
    (task[c] = "queued")
      ~> (task[c] \notin {"queued", "dispatching", "scheduled"} \/ exited)
-----------------------------------------------------------------------------
\* With a bid per connection, the pool uses get_browser_sem as a semaphore is
\* meant to be used: a permit is taken before a launch and given back once.
Permits == INSTANCE PermitPool WITH
  Users <- Browsers, N <- BROWSER_PER_AGENT, free <- sem, permit <- permit

PermitsUsedOnce == Permits!Spec
=============================================================================
