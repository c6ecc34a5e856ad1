-------------------------- MODULE BrowserPool_proofs --------------------------
(***************************************************************************)
(* Proofs about BrowserPool: for any number of connections, bids, browsers  *)
(* and permits, however connections come and go and whatever fails, the     *)
(* pool neither strands a browser nor loses a permit.                       *)
(*                                                                         *)
(* The argument: a Browser object belongs to the dispatcher while it        *)
(* launches, then to the workers that were given it; busy_browsers names it *)
(* under one bid only, and forgets it in the step that returns its permit.  *)
(***************************************************************************)
EXTENDS BrowserPool, FiniteSetTheorems, TLAPS

\* What a connection has got follows from where its work stands.
Shape ==
  /\ \A c \in Conns :
       /\ task[c] = "new" => browser[c] = None
       /\ task[c] # "new" => bid[c] \in Bids
       /\ task[c] \in {"scheduled", "proxying", "closing", "unmapping"}
            => browser[c] \in Browsers
  /\ dispatcher.at \in {"acquire", "launch"} =>
       dispatcher.conn \in Conns /\ task[dispatcher.conn] = "dispatching"

\* A connection is queued once, and nobody else works on it meanwhile.
QueueShape ==
  \A i \in 1 .. Len(request_queue) :
    /\ task[request_queue[i]] = "queued"
    /\ \A j \in 1 .. Len(request_queue) :
         request_queue[i] = request_queue[j] => i = j

\* Nobody knows a browser that has not been created.
Fresh ==
  \A br \in Browsers : permit[br] = "none" =>
    /\ ~closed[br]
    /\ \A c \in Conns : browser[c] # br
    /\ \A b \in Bids : busy_browsers[b] # br

\* Nobody but the dispatcher knows a browser that is launching.
LaunchOwned ==
  dispatcher.at = "launch" =>
    LET br == browser[dispatcher.conn] IN
      /\ br \in Held /\ ~closed[br]
      /\ \A c \in Conns : browser[c] = br => c = dispatcher.conn
      /\ \A b \in Bids : busy_browsers[b] # br

\* A browser is in busy_browsers once, under the bid its connections asked for.
BidsOwned ==
  \A b \in Bids : busy_browsers[b] # None =>
    /\ \A b2 \in Bids : busy_browsers[b2] = busy_browsers[b] => b2 = b
    /\ \A c \in Conns : browser[c] = busy_browsers[b] => bid[c] = b

IInv ==
  /\ TypeOK /\ Shape /\ QueueShape
  /\ Fresh /\ LaunchOwned /\ BidsOwned /\ TrackedHoldPermit
  /\ ClientCountExact /\ NoPermitLeak /\ NoAbandonedBrowser
-----------------------------------------------------------------------------
(* The dispatcher                                                           *)

\* A new Browser object was never used before.
Launched(c, br, s, p) ==
  /\ p[br] = "none"
  /\ permit' = [p EXCEPT ![br] = "held"] /\ sem' = s - 1
  /\ browser' = [browser EXCEPT ![c] = br]
  /\ task' = [task EXCEPT ![c] = "dispatching"]
  /\ dispatcher'.at = "launch" /\ dispatcher'.conn = c
  /\ finished' = finished

\* The dispatcher is done with c, or waits for a permit.
Settled(c, s, p) ==
  /\ permit' = p /\ sem' = s
  /\ \/ /\ dispatcher'.at \in {"get", "reply"}
        /\ task' = [task EXCEPT ![c] = "done"]
        /\ browser' = browser
     \/ /\ dispatcher'.at = "get"
        /\ busy_browsers[bid[c]] # None
        /\ task' = [task EXCEPT ![c] = "scheduled"]
        /\ browser' = [browser EXCEPT ![c] = busy_browsers[bid[c]]]
     \/ /\ dispatcher'.at = "acquire" /\ dispatcher'.conn = c
        /\ task' = [task EXCEPT ![c] = "dispatching"]
        /\ browser' = browser

\* The launch of a Browser object that was chosen among the unused ones.
LEMMA StartLaunchCases ==
  ASSUME TypeOK, NEW c \in Conns, NEW n \in 0 .. GET_BROWSER_TRIES,
         NEW s, NEW p, StartLaunch(c, n, s, p)
  PROVE  /\ \E br \in Browsers : Launched(c, br, s, p)
         /\ dispatcher' \in [at : {"launch"}, conn : Conns,
                             tries : 0 .. GET_BROWSER_TRIES]
<1>. DEFINE br == CHOOSE x \in Unused(p) : TRUE
<1>1. br \in Unused(p)
  BY DEF StartLaunch
<1>2. br \in Browsers /\ p[br] = "none"
  BY <1>1 DEF Unused
<1>3. Launched(c, br, s, p)
  BY <1>2 DEF StartLaunch, Launched, Acquire
<1>. QED
  BY <1>2, <1>3 DEF StartLaunch

\* get_browser launches a browser, or settles the matter without one.
LEMMA GetBrowserCases ==
  ASSUME TypeOK, NEW c \in Conns, NEW n \in 0 .. GET_BROWSER_TRIES,
         NEW s, NEW p, GetBrowser(c, n, s, p)
  PROVE  /\ \/ s > 0 /\ \E br \in Browsers : Launched(c, br, s, p)
            \/ Settled(c, s, p)
         /\ dispatcher' \in [at : {"get", "acquire", "launch", "reply"},
                             conn : Conns \cup {None}, tries : 0 .. GET_BROWSER_TRIES]
         /\ finished' \subseteq finished \cup {c}
<1>1. CASE soft_exit /\ GiveUp(c) /\ sem' = s /\ permit' = p
  BY <1>1, PoolAssumption DEF GiveUp, Settled, Idle, Resolve
<1>2. CASE StartLaunch(c, n, s, p) /\ s > 0
  BY <1>2, StartLaunchCases DEF Launched
<1>3. CASE /\ busy_browsers[bid[c]] # None /\ Schedule(c, busy_browsers[bid[c]])
           /\ dispatcher' = Idle /\ sem' = s /\ permit' = p
           /\ UNCHANGED finished
  BY <1>3, PoolAssumption DEF Schedule, Settled, Idle
<1>4. CASE /\ dispatcher' = [at |-> "acquire", conn |-> c, tries |-> n]
           /\ task' = [task EXCEPT ![c] = "dispatching"]
           /\ sem' = s /\ permit' = p
           /\ UNCHANGED <<browser, finished>>
  BY <1>4 DEF Settled
<1>. QED
  BY <1>1, <1>2, <1>3, <1>4 DEF GetBrowser

\* The connection the dispatcher takes from the queue.
LEMMA HeadOfQueue ==
  ASSUME TypeOK, Shape, QueueShape, request_queue # <<>>
  PROVE  /\ Head(request_queue) \in Conns
         /\ task[Head(request_queue)] = "queued"
         /\ bid[Head(request_queue)] \in Bids
         /\ Tail(request_queue) \in Seq(Conns)
         /\ Len(Tail(request_queue)) <= AGENT_REQUEST_QUEUE_LENGTH
<1>1. Head(request_queue) = request_queue[1] /\ 1 \in 1 .. Len(request_queue)
  BY DEF TypeOK
<1>2. Head(request_queue) \in Conns /\ task[Head(request_queue)] = "queued"
  BY <1>1 DEF TypeOK, QueueShape
<1>. QED
  BY <1>2, PoolAssumption DEF TypeOK, Shape

\* A step of the dispatcher is about one connection, which nobody else works
\* on, and starts from the permits as they are or with one returned.
DispatcherActs(c, s, p) ==
  /\ c \in Conns /\ bid[c] \in Bids
  /\ \/ /\ dispatcher.at = "get" /\ request_queue # <<>>
        /\ c = Head(request_queue) /\ request_queue' = Tail(request_queue)
        /\ task[c] = "queued" /\ s = sem /\ p = permit
     \/ /\ dispatcher.at = "acquire" /\ c = dispatcher.conn
        /\ request_queue' = request_queue
        /\ task[c] = "dispatching" /\ s = sem /\ p = permit
     \/ /\ dispatcher.at = "launch" /\ c = dispatcher.conn
        /\ request_queue' = request_queue
        /\ task[c] = "dispatching"
        /\ sem < BROWSER_PER_AGENT /\ s = sem + 1
        /\ p = [permit EXCEPT ![browser[c]] = "returned"]
  /\ s \in 0 .. BROWSER_PER_AGENT
  /\ p \in [Browsers -> {"none", "held", "returned"}]
  /\ \/ s > 0 /\ \E br \in Browsers : Launched(c, br, s, p)
     \/ Settled(c, s, p)
  /\ dispatcher' \in [at : {"get", "acquire", "launch", "reply"},
                      conn : Conns \cup {None}, tries : 0 .. GET_BROWSER_TRIES]
  /\ finished' \subseteq finished \cup {c}

\* TakeRequest, PermitAcquired and LaunchFails, but for a release at the bound.
LEMMA DispatcherCases ==
  ASSUME TypeOK, Shape, QueueShape,
         TakeRequest \/ PermitAcquired
         \/ (LaunchFails /\ sem < BROWSER_PER_AGENT)
  PROVE  \E c \in Conns : \E s, p : DispatcherActs(c, s, p)
<1>0. sem \in Int /\ 0 \in 0 .. GET_BROWSER_TRIES /\ 1 \in 0 .. GET_BROWSER_TRIES
  BY PoolAssumption DEF TypeOK
<1>1. CASE TakeRequest
  <2>1. /\ Head(request_queue) \in Conns /\ task[Head(request_queue)] = "queued"
        /\ bid[Head(request_queue)] \in Bids
    BY <1>1, HeadOfQueue DEF TakeRequest
  <2>2. /\ GetBrowser(Head(request_queue), 1, sem, permit) /\ dispatcher.at = "get"
        /\ request_queue # <<>> /\ request_queue' = Tail(request_queue)
    BY <1>1 DEF TakeRequest
  <2>3. DispatcherActs(Head(request_queue), sem, permit)
    BY <1>0, <2>1, <2>2, GetBrowserCases DEF DispatcherActs, TypeOK
  <2>. QED
    BY <2>1, <2>3
<1>2. CASE PermitAcquired
  <2>1. /\ dispatcher.at = "acquire" /\ sem > 0 /\ request_queue' = request_queue
        /\ StartLaunch(dispatcher.conn, dispatcher.tries, sem, permit)
    BY <1>2 DEF PermitAcquired
  <2>2. /\ dispatcher.conn \in Conns /\ task[dispatcher.conn] = "dispatching"
        /\ bid[dispatcher.conn] \in Bids
        /\ dispatcher.tries \in 0 .. GET_BROWSER_TRIES
    BY <2>1 DEF Shape, TypeOK
  <2>3. /\ \E br \in Browsers : Launched(dispatcher.conn, br, sem, permit)
        /\ dispatcher' \in [at : {"launch"}, conn : Conns,
                            tries : 0 .. GET_BROWSER_TRIES]
    BY <2>1, <2>2, StartLaunchCases
  <2>4. finished' \subseteq finished \cup {dispatcher.conn}
    BY <2>3 DEF Launched
  <2>5. dispatcher' \in [at : {"get", "acquire", "launch", "reply"},
                         conn : Conns \cup {None}, tries : 0 .. GET_BROWSER_TRIES]
    BY <2>3
  <2>6. DispatcherActs(dispatcher.conn, sem, permit)
    BY <1>0, <2>1, <2>2, <2>3, <2>4, <2>5 DEF DispatcherActs, TypeOK
  <2>. QED
    BY <2>2, <2>6
<1>3. CASE LaunchFails /\ sem < BROWSER_PER_AGENT
  <2>. DEFINE c == dispatcher.conn
              p == [permit EXCEPT ![browser[c]] = "returned"]
  <2>1. /\ dispatcher.at = "launch" /\ request_queue' = request_queue
        /\ \/ /\ dispatcher.tries < GET_BROWSER_TRIES
              /\ GetBrowser(c, dispatcher.tries + 1, Release(sem), p)
           \/ GiveUp(c) /\ sem' = Release(sem) /\ permit' = p
    <3>1. ~(sem >= BROWSER_PER_AGENT)
      BY <1>0, <1>3, PoolAssumption
    <3>. QED
      BY <1>3, <3>1, Zenon DEF LaunchFails
  <2>2. /\ c \in Conns /\ task[c] = "dispatching" /\ bid[c] \in Bids
        /\ dispatcher.tries \in 0 .. GET_BROWSER_TRIES
    BY <2>1 DEF Shape, TypeOK
  <2>3. /\ Release(sem) = sem + 1 /\ sem + 1 \in 0 .. BROWSER_PER_AGENT
        /\ p \in [Browsers -> {"none", "held", "returned"}]
    <3>1. BROWSER_PER_AGENT \in Nat /\ sem \in 0 .. BROWSER_PER_AGENT
      BY PoolAssumption DEF TypeOK
    <3>2. sem < BROWSER_PER_AGENT
      BY <1>3
    <3>3. p \in [Browsers -> {"none", "held", "returned"}]
      BY DEF TypeOK
    <3>. QED
      BY <3>1, <3>2, <3>3 DEF Release
  <2>4. CASE /\ dispatcher.tries < GET_BROWSER_TRIES
             /\ GetBrowser(c, dispatcher.tries + 1, Release(sem), p)
    <3>1. dispatcher.tries + 1 \in 0 .. GET_BROWSER_TRIES
      BY <2>2, <2>4, PoolAssumption
    <3>2. DispatcherActs(c, sem + 1, p)
      <4>1. GetBrowser(c, dispatcher.tries + 1, sem + 1, p)
        BY <2>3, <2>4
      <4>2. /\ \/ sem + 1 > 0 /\ \E br \in Browsers : Launched(c, br, sem + 1, p)
               \/ Settled(c, sem + 1, p)
            /\ dispatcher' \in [at : {"get", "acquire", "launch", "reply"},
                                conn : Conns \cup {None}, tries : 0 .. GET_BROWSER_TRIES]
            /\ finished' \subseteq finished \cup {c}
        BY <2>2, <3>1, <4>1, GetBrowserCases
      <4>. QED
        BY <1>3, <2>1, <2>2, <2>3, <4>2 DEF DispatcherActs
    <3>. QED
      BY <2>2, <3>2
  <2>5. CASE GiveUp(c) /\ sem' = Release(sem) /\ permit' = p
    <3>1. Settled(c, sem + 1, p)
      BY <2>3, <2>5 DEF GiveUp, Settled, Idle
    <3>2. /\ dispatcher' \in [at : {"get", "acquire", "launch", "reply"},
                              conn : Conns \cup {None}, tries : 0 .. GET_BROWSER_TRIES]
          /\ finished' \subseteq finished \cup {c}
      BY <1>0, <2>5 DEF GiveUp, Idle, Resolve
    <3>3. DispatcherActs(c, sem + 1, p)
      BY <1>3, <2>1, <2>2, <2>3, <3>1, <3>2 DEF DispatcherActs
    <3>. QED
      BY <2>2, <3>3
  <2>. QED
    BY <2>1, <2>4, <2>5
<1>. QED
  BY <1>1, <1>2, <1>3

\* The release at the bound: get_browser raises, the connection is lost.
LaunchLost ==
  /\ dispatcher.at = "launch" /\ sem >= BROWSER_PER_AGENT
  /\ task' = [task EXCEPT ![dispatcher.conn] = "lost"]
  /\ dispatcher' = Idle
  /\ permit' = [permit EXCEPT ![browser[dispatcher.conn]] = "returned"]
  /\ UNCHANGED <<agentVars, request_queue, bid, close_try, busy_browsers,
                 client_count, closed, sem, browser, finished>>

\* A failed launch is lost or goes on.
LEMMA LaunchFailsCases ==
  ASSUME TypeOK, LaunchFails
  PROVE  LaunchLost \/ sem < BROWSER_PER_AGENT
<1>1. sem \in Int /\ BROWSER_PER_AGENT \in Int
  BY PoolAssumption DEF TypeOK
<1>2. CASE sem >= BROWSER_PER_AGENT
  <2>1. ~(sem < BROWSER_PER_AGENT)
    BY <1>1, <1>2
  <2>. QED
    BY <2>1, Zenon DEF LaunchFails, LaunchLost
<1>. QED
  BY <1>1, <1>2

-----------------------------------------------------------------------------
(* Types and shape                                                          *)

\* The steps that the dispatcher's own lemma describes.
Handles == TakeRequest \/ PermitAcquired \/ (LaunchFails /\ sem < BROWSER_PER_AGENT)

\* Every other step, one by one.
LEMMA NextCases ==
  ASSUME TypeOK, Next
  PROVE  \/ Handles \/ LaunchLost \/ LaunchSucceeds \/ ReplySent
         \/ BindAgent \/ SetSoftExit \/ IdleExit \/ Exit
         \/ \E c \in Conns, b \in Bids : Arrive(c, b)
         \/ \E c \in Conns : \/ ClientGone(c) \/ StartWorker(c) \/ EndProxy(c)
                             \/ CloseSucceeds(c) \/ CloseRaises(c)
                             \/ ReleaseBrowser(c)
BY LaunchFailsCases, Zenon DEF Next, Dispatcher, Worker, Handles

\* The dispatcher leaves the rest of the state alone.
LEMMA HandlesKeeps ==
  ASSUME TypeOK, Shape, QueueShape, Handles
  PROVE  /\ UNCHANGED <<agentVars, bid, close_try, busy_browsers, client_count, closed>>
         /\ \/ UNCHANGED request_queue
            \/ request_queue' = Tail(request_queue) /\ request_queue # <<>>
BY Zenon DEF Handles, TakeRequest, PermitAcquired, LaunchFails

\* The values stay in their types: sem is never below zero or above its bound,
\* and the queue never longer than it may be.
LEMMA TypeStep ==
  ASSUME TypeOK, Shape, QueueShape, [Next]_vars
  PROVE  TypeOK'
<1>1. CASE Handles
  <2>1. PICK c \in Conns : \E s, p : DispatcherActs(c, s, p)
    BY <1>1, DispatcherCases DEF Handles
  <2>2. PICK s, p : DispatcherActs(c, s, p)
    BY <2>1
  <2>3. /\ task \in [Conns -> TaskState] /\ browser \in [Conns -> Browsers \cup {None}]
        /\ busy_browsers \in [Bids -> Browsers \cup {None}]
        /\ p \in [Browsers -> {"none", "held", "returned"}]
        /\ bid[c] \in Bids /\ s \in 0 .. BROWSER_PER_AGENT
        /\ \/ s > 0 /\ \E br \in Browsers : Launched(c, br, s, p)
           \/ Settled(c, s, p)
    BY <2>2, Zenon DEF DispatcherActs, TypeOK
  <2>4. /\ task' \in [Conns -> TaskState] /\ browser' \in [Conns -> Browsers \cup {None}]
        /\ permit' \in [Browsers -> {"none", "held", "returned"}]
        /\ sem' \in 0 .. BROWSER_PER_AGENT
    <3>1. ASSUME s > 0, NEW br \in Browsers, Launched(c, br, s, p)
          PROVE  /\ task' \in [Conns -> TaskState]
                 /\ browser' \in [Conns -> Browsers \cup {None}]
                 /\ permit' \in [Browsers -> {"none", "held", "returned"}]
                 /\ sem' \in 0 .. BROWSER_PER_AGENT
      <4>1. /\ task' \in [Conns -> TaskState]
            /\ browser' \in [Conns -> Browsers \cup {None}]
            /\ permit' \in [Browsers -> {"none", "held", "returned"}]
        BY <2>3, <3>1 DEF Launched, TaskState
      <4>2. sem' = s - 1
        BY <3>1 DEF Launched
      <4>3. s - 1 \in 0 .. BROWSER_PER_AGENT
        BY <2>3, <3>1, PoolAssumption
      <4>. QED
        BY <4>1, <4>2, <4>3
    <3>2. CASE Settled(c, s, p)
      BY <2>3, <3>2 DEF Settled, TaskState
    <3>. QED
      BY <2>3, <3>1, <3>2
  <2>5. finished' \in SUBSET Conns
        /\ dispatcher' \in [at : {"get", "acquire", "launch", "reply"},
                            conn : Conns \cup {None}, tries : 0 .. GET_BROWSER_TRIES]
    BY <2>2 DEF DispatcherActs, TypeOK
  <2>6. request_queue' \in Seq(Conns)
        /\ Len(request_queue') <= AGENT_REQUEST_QUEUE_LENGTH
    BY <1>1, HandlesKeeps, HeadOfQueue DEF TypeOK
  <2>. QED
    BY <1>1, <2>4, <2>5, <2>6, HandlesKeeps DEF TypeOK, agentVars
<1>2. CASE LaunchLost
  <2>1. Idle \in [at : {"get", "acquire", "launch", "reply"},
                  conn : Conns \cup {None}, tries : 0 .. GET_BROWSER_TRIES]
    BY PoolAssumption DEF Idle
  <2>2. task' \in [Conns -> TaskState]
        /\ permit' \in [Browsers -> {"none", "held", "returned"}]
    BY <1>2 DEF LaunchLost, TypeOK, TaskState
  <2>. QED
    BY <1>2, <2>1, <2>2 DEF LaunchLost, TypeOK, agentVars
<1>3. CASE LaunchSucceeds
  BY <1>3, PoolAssumption
     DEF LaunchSucceeds, TypeOK, TaskState, Idle, agentVars, Shape
<1>4. CASE ReplySent
  BY <1>4, PoolAssumption DEF ReplySent, TypeOK, Idle, agentVars, connVars, poolVars
<1>5. CASE BindAgent \/ SetSoftExit \/ IdleExit \/ Exit
  BY <1>5 DEF BindAgent, SetSoftExit, IdleExit, Exit, TypeOK, connVars, poolVars
<1>6. ASSUME NEW c \in Conns, NEW b \in Bids, Arrive(c, b)
      PROVE  TypeOK'
  <2>1. /\ UNCHANGED <<agentVars, dispatcher, close_try, poolVars>>
        /\ bid' = [bid EXCEPT ![c] = b]
        /\ \/ Reject(c)
           \/ Schedule(c, busy_browsers[b]) /\ UNCHANGED <<finished, request_queue>>
           \/ /\ task' = [task EXCEPT ![c] = "queued"]
              /\ request_queue' = Append(request_queue, c)
              /\ ~(Len(request_queue) >= AGENT_REQUEST_QUEUE_LENGTH)
              /\ UNCHANGED <<browser, finished>>
    BY <1>6, Zenon DEF Arrive
  <2>2. /\ task' \in [Conns -> TaskState]
        /\ browser' \in [Conns -> Browsers \cup {None}]
        /\ finished' \in SUBSET Conns
    <3>1. /\ task \in [Conns -> TaskState] /\ finished \in SUBSET Conns
          /\ browser \in [Conns -> Browsers \cup {None}]
          /\ busy_browsers[b] \in Browsers \cup {None}
      BY DEF TypeOK
    <3>. QED
      BY <2>1, <3>1 DEF Reject, Schedule, TaskState
  <2>3. request_queue' \in Seq(Conns)
        /\ Len(request_queue') <= AGENT_REQUEST_QUEUE_LENGTH
    <3>1. /\ request_queue \in Seq(Conns) /\ AGENT_REQUEST_QUEUE_LENGTH \in Nat
          /\ Len(request_queue) <= AGENT_REQUEST_QUEUE_LENGTH
      BY PoolAssumption DEF TypeOK
    <3>2. CASE request_queue' = request_queue
      BY <3>1, <3>2
    <3>3. CASE /\ request_queue' = Append(request_queue, c)
               /\ ~(Len(request_queue) >= AGENT_REQUEST_QUEUE_LENGTH)
      BY <3>1, <3>3
    <3>. QED
      BY <2>1, <3>2, <3>3 DEF Reject
  <2>4. bid' \in [Conns -> Bids \cup {None}]
    BY <2>1 DEF TypeOK
  <2>. QED
    BY <2>1, <2>2, <2>3, <2>4 DEF TypeOK, agentVars, poolVars
<1>7. ASSUME NEW c \in Conns, ClientGone(c) \/ CloseSucceeds(c)
      PROVE  TypeOK'
  BY <1>7 DEF ClientGone, CloseSucceeds, TypeOK, TaskState, agentVars, poolVars
<1>11. ASSUME NEW c \in Conns, StartWorker(c) \/ EndProxy(c)
       PROVE  TypeOK'
  <2>1. /\ \/ task' = [task EXCEPT ![c] = "refused"]
           \/ task' = [task EXCEPT ![c] = "proxying"]
           \/ task' = [task EXCEPT ![c] = "closing"]
           \/ task' = [task EXCEPT ![c] = "done"]
        /\ \/ client_count' = client_count
           \/ client_count' = [client_count EXCEPT ![browser[c]] = @ + 1]
           \/ client_count' = [client_count EXCEPT ![browser[c]] = @ - 1]
        /\ finished' = finished \/ finished' = finished \cup {c}
        /\ UNCHANGED <<agentVars, request_queue, dispatcher, bid, browser,
                       close_try, sem, busy_browsers, closed, permit>>
    BY <1>11 DEF StartWorker, EndProxy, Resolve
  <2>2. client_count' \in [Browsers -> Int]
    BY <2>1 DEF TypeOK
  <2>3. task' \in [Conns -> TaskState] /\ finished' \in SUBSET Conns
    BY <2>1 DEF TypeOK, TaskState
  <2>. QED
    BY <2>1, <2>2, <2>3 DEF TypeOK, agentVars
<1>8. ASSUME NEW c \in Conns, CloseRaises(c)
      PROVE  TypeOK'
  <2>1. close_try[c] + 1 \in 0 .. CLOSE_TRIES
    BY <1>8, PoolAssumption DEF CloseRaises, TypeOK
  <2>2. close_try' \in [Conns -> 0 .. CLOSE_TRIES]
    BY <1>8, <2>1 DEF CloseRaises, TypeOK
  <2>3. task' \in [Conns -> TaskState]
    BY <1>8 DEF CloseRaises, TypeOK, TaskState
  <2>. QED
    BY <1>8, <2>2, <2>3 DEF CloseRaises, TypeOK, agentVars, poolVars
<1>9. ASSUME NEW c \in Conns, ReleaseBrowser(c)
      PROVE  TypeOK'
  <2>1. sem' \in 0 .. BROWSER_PER_AGENT
    BY <1>9, PoolAssumption DEF ReleaseBrowser, Release, TypeOK
  <2>2. busy_browsers' \in [Bids -> Browsers \cup {None}]
        /\ permit' \in [Browsers -> {"none", "held", "returned"}]
        /\ task' \in [Conns -> TaskState]
    BY <1>9 DEF ReleaseBrowser, Pop, TypeOK, TaskState
  <2>. QED
    BY <1>9, <2>1, <2>2 DEF ReleaseBrowser, TypeOK, agentVars
<1>10. CASE UNCHANGED vars
  BY <1>10 DEF vars, agentVars, connVars, poolVars, TypeOK
<1>. QED
  BY <1>1, <1>2, <1>3, <1>4, <1>5, <1>6, <1>7, <1>8, <1>9, <1>10, <1>11, NextCases

\* The steps of the workers on the connection c, and of its handler.
WorkerSteps(c) == \/ ClientGone(c) \/ StartWorker(c) \/ EndProxy(c)
                  \/ CloseSucceeds(c) \/ CloseRaises(c) \/ ReleaseBrowser(c)

\* A worker changes what is known of its own connection only.
LEMMA WorkerKeeps ==
  ASSUME TypeOK, NEW c \in Conns, WorkerSteps(c)
  PROVE  /\ UNCHANGED <<request_queue, bid, browser, dispatcher>>
         /\ \/ task' = task
            \/ /\ task[c] \in {"scheduled", "proxying", "closing", "unmapping"}
               /\ \E t \in {"refused", "proxying", "closing", "unmapping", "done"} :
                    task' = [task EXCEPT ![c] = t]
BY DEF WorkerSteps, ClientGone, StartWorker, EndProxy, CloseSucceeds, CloseRaises,
       ReleaseBrowser

\* What a connection has got keeps following from where its work stands.
LEMMA ShapeStep ==
  ASSUME TypeOK, Shape, QueueShape, LaunchOwned, [Next]_vars
  PROVE  Shape'
<1>0. /\ task \in [Conns -> TaskState] /\ browser \in [Conns -> Browsers \cup {None}]
      /\ bid \in [Conns -> Bids \cup {None}]
      /\ busy_browsers \in [Bids -> Browsers \cup {None}]
  BY DEF TypeOK
<1>1. CASE Handles
  <2>1. PICK c \in Conns : \E s, p : DispatcherActs(c, s, p)
    BY <1>1, DispatcherCases DEF Handles
  <2>2. PICK s, p : DispatcherActs(c, s, p)
    BY <2>1
  <2>3. /\ bid' = bid /\ bid[c] \in Bids /\ task[c] \in {"queued", "dispatching"}
        /\ (\E br \in Browsers : Launched(c, br, s, p)) \/ Settled(c, s, p)
    BY <1>1, <2>2, HandlesKeeps DEF DispatcherActs
  <2>4. ASSUME NEW br \in Browsers, Launched(c, br, s, p)
        PROVE  Shape'
    BY <1>0, <2>3, <2>4 DEF Shape, Launched
  <2>5. CASE Settled(c, s, p)
    BY <1>0, <2>3, <2>5 DEF Shape, Settled
  <2>. QED
    BY <2>3, <2>4, <2>5
<1>2. CASE LaunchLost \/ LaunchSucceeds
  <2>1. /\ dispatcher.at = "launch" /\ dispatcher' = Idle
        /\ \/ task' = [task EXCEPT ![dispatcher.conn] = "lost"]
           \/ task' = [task EXCEPT ![dispatcher.conn] = "scheduled"]
        /\ UNCHANGED <<bid, browser>>
    BY <1>2 DEF LaunchLost, LaunchSucceeds
  <2>2. browser[dispatcher.conn] \in Browsers
    BY <2>1 DEF LaunchOwned, Held
  <2>. QED
    BY <1>0, <2>1, <2>2 DEF Shape, Idle
<1>3. CASE ReplySent \/ BindAgent \/ SetSoftExit \/ IdleExit \/ Exit \/ UNCHANGED vars
  <2>1. UNCHANGED <<bid, task, browser>> /\ (dispatcher' = dispatcher \/ dispatcher' = Idle)
    BY <1>3 DEF ReplySent, BindAgent, SetSoftExit, IdleExit, Exit, vars, connVars
  <2>. QED
    BY <2>1 DEF Shape, Idle
<1>4. ASSUME NEW c \in Conns, NEW b \in Bids, Arrive(c, b)
      PROVE  Shape'
  <2>1. /\ task[c] = "new" /\ bid' = [bid EXCEPT ![c] = b] /\ dispatcher' = dispatcher
        /\ \/ task' = [task EXCEPT ![c] = "rejected"] /\ browser' = browser
           \/ /\ task' = [task EXCEPT ![c] = "scheduled"]
              /\ browser' = [browser EXCEPT ![c] = busy_browsers[b]]
              /\ busy_browsers[b] # None
           \/ task' = [task EXCEPT ![c] = "queued"] /\ browser' = browser
    BY <1>4 DEF Arrive, Reject, Schedule
  <2>. QED
    BY <1>0, <2>1 DEF Shape
<1>5. ASSUME NEW c \in Conns, WorkerSteps(c)
      PROVE  Shape'
  <2>1. /\ UNCHANGED <<bid, browser, dispatcher>>
        /\ \/ task' = task
           \/ /\ task[c] \in {"scheduled", "proxying", "closing", "unmapping"}
              /\ \E t \in {"refused", "proxying", "closing", "unmapping", "done"} :
                   task' = [task EXCEPT ![c] = t]
    BY <1>5, WorkerKeeps
  <2>. QED
    BY <1>0, <2>1 DEF Shape
<1>. QED
  BY <1>1, <1>2, <1>3, <1>4, <1>5, NextCases DEF WorkerSteps

\* A queued connection stays queued until the dispatcher takes it.
LEMMA QueueShapeStep ==
  ASSUME TypeOK, Shape, QueueShape, [Next]_vars
  PROVE  QueueShape'
<1>0. /\ task \in [Conns -> TaskState] /\ request_queue \in Seq(Conns)
      /\ \A i \in 1 .. Len(request_queue) :
           request_queue[i] \in Conns /\ task[request_queue[i]] = "queued"
  BY DEF TypeOK, QueueShape
<1>1. ASSUME request_queue' = request_queue,
             NEW c, task[c] # "queued", NEW t, task' = [task EXCEPT ![c] = t]
      PROVE  QueueShape'
  BY <1>0, <1>1 DEF QueueShape
<1>2. ASSUME request_queue' = request_queue, task' = task
      PROVE  QueueShape'
  BY <1>2 DEF QueueShape
<1>3. CASE Handles
  <2>1. PICK c \in Conns : \E s, p : DispatcherActs(c, s, p)
    BY <1>3, DispatcherCases DEF Handles
  <2>2. PICK s, p : DispatcherActs(c, s, p)
    BY <2>1
  <2>3. \E t : task' = [task EXCEPT ![c] = t]
    BY <2>2 DEF DispatcherActs, Launched, Settled
  <2>4. CASE request_queue' = request_queue /\ task[c] = "dispatching"
    BY <1>1, <2>3, <2>4
  <2>5. CASE /\ request_queue # <<>> /\ c = Head(request_queue)
             /\ request_queue' = Tail(request_queue)
    <3>1. /\ Len(request_queue') = Len(request_queue) - 1
          /\ Len(request_queue) \in Nat /\ Len(request_queue) > 0
          /\ c = request_queue[1]
          /\ \A i \in 1 .. Len(request_queue') : request_queue'[i] = request_queue[i + 1]
      BY <1>0, <2>5
    <3>2. \A i \in 1 .. Len(request_queue') : i + 1 \in 1 .. Len(request_queue)
      BY <3>1
    <3>3. \A i \in 1 .. Len(request_queue') :
            request_queue[i + 1] # c /\ request_queue[i + 1] \in Conns
            /\ task[request_queue[i + 1]] = "queued"
      <4>. TAKE i \in 1 .. Len(request_queue')
      <4>1. i + 1 \in 1 .. Len(request_queue) /\ 1 \in 1 .. Len(request_queue)
            /\ i + 1 # 1
        BY <3>1, <3>2
      <4>. QED
        BY <1>0, <3>1, <4>1 DEF QueueShape
    <3>4. \A i \in 1 .. Len(request_queue') : task'[request_queue'[i]] = "queued"
      BY <1>0, <2>3, <3>1, <3>3
    <3>5. \A i, j \in 1 .. Len(request_queue') :
            request_queue'[i] = request_queue'[j] => i = j
      <4>. TAKE i, j \in 1 .. Len(request_queue')
      <4>. HAVE request_queue'[i] = request_queue'[j]
      <4>0. /\ request_queue[i + 1] = request_queue[j + 1]
            /\ i + 1 \in 1 .. Len(request_queue) /\ j + 1 \in 1 .. Len(request_queue)
        BY <3>1, <3>2
      <4>1. i + 1 = j + 1
        BY <4>0 DEF QueueShape
      <4>2. i \in Int /\ j \in Int
        BY <3>1
      <4>. QED
        BY <4>1, <4>2
    <3>. QED
      BY <3>4, <3>5 DEF QueueShape
  <2>. QED
    BY <2>2, <2>4, <2>5 DEF DispatcherActs
<1>4. CASE LaunchLost \/ LaunchSucceeds
  <2>1. task[dispatcher.conn] # "queued"
    BY <1>4 DEF LaunchLost, LaunchSucceeds, Shape
  <2>. QED
    BY <1>1, <1>4, <2>1 DEF LaunchLost, LaunchSucceeds
<1>5. CASE ReplySent \/ BindAgent \/ SetSoftExit \/ IdleExit \/ Exit \/ UNCHANGED vars
  BY <1>2, <1>5 DEF ReplySent, BindAgent, SetSoftExit, IdleExit, Exit, vars, connVars
<1>6. ASSUME NEW c \in Conns, NEW b \in Bids, Arrive(c, b)
      PROVE  QueueShape'
  <2>1. /\ task[c] = "new"
        /\ \/ request_queue' = request_queue /\ \E t : task' = [task EXCEPT ![c] = t]
           \/ /\ request_queue' = Append(request_queue, c)
              /\ task' = [task EXCEPT ![c] = "queued"]
    BY <1>6 DEF Arrive, Reject, Schedule
  <2>2. CASE request_queue' = request_queue /\ \E t : task' = [task EXCEPT ![c] = t]
    BY <1>1, <2>1, <2>2
  <2>3. CASE /\ request_queue' = Append(request_queue, c)
             /\ task' = [task EXCEPT ![c] = "queued"]
    <3>1. /\ Len(request_queue') = Len(request_queue) + 1 /\ Len(request_queue) \in Nat
          /\ request_queue'[Len(request_queue) + 1] = c
          /\ \A i \in 1 .. Len(request_queue) : request_queue'[i] = request_queue[i]
      BY <1>0, <2>3
    <3>2. \A i \in 1 .. Len(request_queue') :
            i \in 1 .. Len(request_queue) \/ i = Len(request_queue) + 1
      BY <3>1
    <3>3. \A i \in 1 .. Len(request_queue) : request_queue[i] # c
      BY <1>0, <2>1
    <3>4. \A i \in 1 .. Len(request_queue') : task'[request_queue'[i]] = "queued"
      BY <1>0, <2>3, <3>1, <3>2, <3>3
    <3>5. \A i, j \in 1 .. Len(request_queue') :
            request_queue'[i] = request_queue'[j] => i = j
      BY <3>1, <3>2, <3>3 DEF QueueShape
    <3>. QED
      BY <3>4, <3>5 DEF QueueShape
  <2>. QED
    BY <2>1, <2>2, <2>3
<1>7. ASSUME NEW c \in Conns, WorkerSteps(c)
      PROVE  QueueShape'
  BY <1>1, <1>2, <1>7, WorkerKeeps
<1>. QED
  BY <1>3, <1>4, <1>5, <1>6, <1>7, NextCases DEF WorkerSteps

-----------------------------------------------------------------------------
(* Who knows which browser                                                  *)

\* What is known before a step: everything but the counts.
Known == TypeOK /\ Shape /\ QueueShape /\ Fresh /\ LaunchOwned /\ BidsOwned
         /\ TrackedHoldPermit

\* The step of the dispatcher in terms of the browsers: it forgets the one it
\* could not launch, and gives c a new one, the one its bid names, or none.
DispatcherGives(c, p) ==
  /\ c \in Conns /\ bid[c] \in Bids /\ task[c] \in {"queued", "dispatching"}
  /\ dispatcher.at = "launch" => c = dispatcher.conn
  /\ \/ p = permit /\ dispatcher.at # "launch"
     \/ p = [permit EXCEPT ![browser[c]] = "returned"] /\ dispatcher.at = "launch"
  /\ UNCHANGED <<bid, busy_browsers, closed, client_count>>
  /\ \/ \E br \in Browsers :
          /\ p[br] = "none" /\ permit' = [p EXCEPT ![br] = "held"]
          /\ browser' = [browser EXCEPT ![c] = br]
          /\ task' = [task EXCEPT ![c] = "dispatching"]
          /\ dispatcher'.at = "launch" /\ dispatcher'.conn = c
     \/ /\ permit' = p /\ browser' = browser /\ dispatcher'.at # "launch"
        /\ task' = [task EXCEPT ![c] = "done"] \/ task' = [task EXCEPT ![c] = "dispatching"]
     \/ /\ permit' = p /\ dispatcher'.at # "launch"
        /\ busy_browsers[bid[c]] # None
        /\ browser' = [browser EXCEPT ![c] = busy_browsers[bid[c]]]
        /\ task' = [task EXCEPT ![c] = "scheduled"]

\* Every step of the dispatcher that NextCases calls Handles is of that form.
LEMMA HandlesGives ==
  ASSUME TypeOK, Shape, QueueShape, Handles
  PROVE  \E c \in Conns : \E p : DispatcherGives(c, p)
<1>1. PICK c \in Conns : \E s, p : DispatcherActs(c, s, p)
  BY DispatcherCases DEF Handles
<1>2. PICK s, p : DispatcherActs(c, s, p)
  BY <1>1
<1>3. UNCHANGED <<bid, busy_browsers, closed, client_count>>
  BY HandlesKeeps
<1>4. /\ bid[c] \in Bids /\ task[c] \in {"queued", "dispatching"}
      /\ dispatcher.at = "launch" => c = dispatcher.conn
      /\ \/ p = permit /\ dispatcher.at # "launch"
         \/ p = [permit EXCEPT ![browser[c]] = "returned"] /\ dispatcher.at = "launch"
  BY <1>2 DEF DispatcherActs
<1>5. (\E br \in Browsers : Launched(c, br, s, p)) \/ Settled(c, s, p)
  BY <1>2 DEF DispatcherActs
<1>6. ASSUME \E br \in Browsers : Launched(c, br, s, p)
      PROVE  DispatcherGives(c, p)
  <2>1. PICK br \in Browsers : Launched(c, br, s, p)
    BY <1>6
  <2>2. /\ p[br] = "none" /\ permit' = [p EXCEPT ![br] = "held"]
        /\ browser' = [browser EXCEPT ![c] = br]
        /\ task' = [task EXCEPT ![c] = "dispatching"]
        /\ dispatcher'.at = "launch" /\ dispatcher'.conn = c
    BY <2>1 DEF Launched
  <2>3. /\ c \in Conns /\ bid[c] \in Bids
        /\ task[c] \in {"queued", "dispatching"}
        /\ dispatcher.at = "launch" => c = dispatcher.conn
        /\ \/ p = permit /\ dispatcher.at # "launch"
           \/ p = [permit EXCEPT ![browser[c]] = "returned"] /\ dispatcher.at = "launch"
    BY <1>4
  <2>4. \E x \in Browsers :
          /\ p[x] = "none" /\ permit' = [p EXCEPT ![x] = "held"]
          /\ browser' = [browser EXCEPT ![c] = x]
          /\ task' = [task EXCEPT ![c] = "dispatching"]
          /\ dispatcher'.at = "launch" /\ dispatcher'.conn = c
    BY <2>2
  <2>. QED
    BY <1>3, <2>3, <2>4, Zenon DEF DispatcherGives
<1>7. ASSUME Settled(c, s, p)
      PROVE  DispatcherGives(c, p)
  BY <1>3, <1>4, <1>7 DEF DispatcherGives, Settled
<1>8. DispatcherGives(c, p)
  BY <1>5, <1>6, <1>7
<1>. QED
  BY <1>8

\* A browser that is launching, and one that has not been created, stay
\* unknown to everybody else.
LEMMA UnknownStep ==
  ASSUME Known, [Next]_vars
  PROVE  Fresh' /\ LaunchOwned'
<1>. USE DEF Known
<1>0. /\ browser \in [Conns -> Browsers \cup {None}] /\ task \in [Conns -> TaskState]
      /\ busy_browsers \in [Bids -> Browsers \cup {None}]
      /\ permit \in [Browsers -> {"none", "held", "returned"}]
      /\ closed \in [Browsers -> BOOLEAN]
      /\ None \notin Browsers
  BY PoolAssumption DEF TypeOK
<1>1. CASE Handles
  <2>0. PICK c \in Conns : \E p : DispatcherGives(c, p)
    BY <1>1, HandlesGives
  <2>1. PICK p : DispatcherGives(c, p)
    BY <2>0
  <2>2. \A br \in Browsers : p[br] = "none" => permit[br] = "none"
    BY <1>0, <2>1 DEF DispatcherGives
  <2>3. Fresh'
    BY <1>0, <2>1, <2>2 DEF DispatcherGives, Fresh
  <2>4. LaunchOwned'
    BY <1>0, <2>1, <2>2 DEF DispatcherGives, Fresh, LaunchOwned, Held
  <2>. QED
    BY <2>3, <2>4
<1>2. CASE LaunchLost \/ LaunchSucceeds
  <2>1. /\ dispatcher.at = "launch" /\ dispatcher'.at = "get"
        /\ UNCHANGED <<browser, closed>>
        /\ \/ permit' = [permit EXCEPT ![browser[dispatcher.conn]] = "returned"]
              /\ UNCHANGED busy_browsers
           \/ UNCHANGED permit
              /\ busy_browsers' =
                   [busy_browsers EXCEPT ![bid[dispatcher.conn]] = browser[dispatcher.conn]]
    BY <1>2 DEF LaunchLost, LaunchSucceeds, Idle
  <2>. QED
    BY <1>0, <2>1 DEF Fresh, LaunchOwned, Held
<1>3. CASE ReplySent \/ BindAgent \/ SetSoftExit \/ IdleExit \/ Exit \/ UNCHANGED vars
  <2>1. UNCHANGED <<browser, busy_browsers, closed, permit>>
        /\ (dispatcher' = dispatcher \/ dispatcher'.at = "get")
    BY <1>3 DEF ReplySent, BindAgent, SetSoftExit, IdleExit, Exit, vars, connVars,
                poolVars, Idle
  <2>. QED
    BY <2>1 DEF Fresh, LaunchOwned, Held
<1>4. ASSUME NEW c \in Conns, NEW b \in Bids, Arrive(c, b)
      PROVE  Fresh' /\ LaunchOwned'
  <2>1. /\ task[c] = "new" /\ UNCHANGED <<dispatcher, busy_browsers, closed, permit>>
        /\ \/ browser' = browser
           \/ browser' = [browser EXCEPT ![c] = busy_browsers[b]]
    BY <1>4 DEF Arrive, Reject, Schedule, poolVars
  <2>2. dispatcher.at = "launch" => c # dispatcher.conn /\ dispatcher.conn \in Conns
    BY <2>1 DEF Shape
  <2>. QED
    BY <1>0, <2>1, <2>2 DEF Fresh, LaunchOwned, Held
<1>5. ASSUME NEW c \in Conns, WorkerSteps(c)
      PROVE  Fresh' /\ LaunchOwned'
  <2>1. /\ UNCHANGED <<browser, dispatcher>>
        /\ \/ UNCHANGED <<closed, permit, busy_browsers>>
           \/ /\ task[c] = "closing" /\ closed' = [closed EXCEPT ![browser[c]] = TRUE]
              /\ UNCHANGED <<permit, busy_browsers>>
           \/ /\ task[c] = "unmapping"
              /\ permit' = [permit EXCEPT ![browser[c]] = "returned"]
              /\ busy_browsers' = [busy_browsers EXCEPT ![bid[c]] = None]
              /\ UNCHANGED closed
    BY <1>5 DEF WorkerSteps, ClientGone, StartWorker, EndProxy, CloseSucceeds,
                CloseRaises, ReleaseBrowser, Pop, poolVars
  <2>2. dispatcher.at = "launch" =>
          /\ dispatcher.conn \in Conns /\ task[dispatcher.conn] = "dispatching"
    BY DEF Shape
  <2>. QED
    BY <1>0, <2>1, <2>2 DEF Fresh, LaunchOwned, Held
<1>. QED
  BY <1>1, <1>2, <1>3, <1>4, <1>5, NextCases DEF WorkerSteps

\* busy_browsers names a browser under its own bid, as long as it holds its
\* permit.
LEMMA TrackedStep ==
  ASSUME Known, [Next]_vars
  PROVE  BidsOwned' /\ TrackedHoldPermit'
<1>. USE DEF Known
<1>0. /\ browser \in [Conns -> Browsers \cup {None}] /\ task \in [Conns -> TaskState]
      /\ busy_browsers \in [Bids -> Browsers \cup {None}]
      /\ permit \in [Browsers -> {"none", "held", "returned"}]
      /\ bid \in [Conns -> Bids \cup {None}]
      /\ None \notin Browsers
  BY PoolAssumption DEF TypeOK
<1>1. CASE Handles
  <2>0. PICK c \in Conns : \E p : DispatcherGives(c, p)
    BY <1>1, HandlesGives
  <2>1. PICK p : DispatcherGives(c, p)
    BY <2>0
  <2>2. \A br \in Browsers : p[br] = "none" => permit[br] = "none"
    BY <1>0, <2>1 DEF DispatcherGives
  <2>3. BidsOwned'
    BY <1>0, <2>1, <2>2 DEF DispatcherGives, Fresh, BidsOwned
  <2>4. \A b \in Bids : busy_browsers[b] # None => p[busy_browsers[b]] = "held"
    BY <1>0, <2>1 DEF DispatcherGives, LaunchOwned, TrackedHoldPermit, Held
  <2>5. TrackedHoldPermit'
    BY <1>0, <2>1, <2>4 DEF DispatcherGives, TrackedHoldPermit, Held
  <2>. QED
    BY <2>3, <2>5
<1>2. CASE LaunchLost \/ LaunchSucceeds
  <2>1. /\ dispatcher.at = "launch" /\ UNCHANGED <<browser, bid>>
        /\ \/ permit' = [permit EXCEPT ![browser[dispatcher.conn]] = "returned"]
              /\ UNCHANGED busy_browsers
           \/ UNCHANGED permit
              /\ busy_browsers' =
                   [busy_browsers EXCEPT ![bid[dispatcher.conn]] = browser[dispatcher.conn]]
    BY <1>2 DEF LaunchLost, LaunchSucceeds
  <2>2. dispatcher.conn \in Conns /\ bid[dispatcher.conn] \in Bids
    BY <2>1 DEF Shape
  <2>. QED
    BY <1>0, <2>1, <2>2 DEF LaunchOwned, BidsOwned, TrackedHoldPermit, Held
<1>3. CASE ReplySent \/ BindAgent \/ SetSoftExit \/ IdleExit \/ Exit \/ UNCHANGED vars
  <2>1. UNCHANGED <<browser, busy_browsers, bid, permit>>
    BY <1>3 DEF ReplySent, BindAgent, SetSoftExit, IdleExit, Exit, vars, connVars,
                poolVars
  <2>. QED
    BY <2>1 DEF BidsOwned, TrackedHoldPermit, Held
<1>4. ASSUME NEW c \in Conns, NEW b \in Bids, Arrive(c, b)
      PROVE  BidsOwned' /\ TrackedHoldPermit'
  <2>1. /\ task[c] = "new" /\ UNCHANGED <<busy_browsers, permit>>
        /\ bid' = [bid EXCEPT ![c] = b]
        /\ \/ browser' = browser
           \/ browser' = [browser EXCEPT ![c] = busy_browsers[b]]
    BY <1>4 DEF Arrive, Reject, Schedule, poolVars
  <2>2. browser[c] = None
    BY <2>1 DEF Shape
  <2>. QED
    BY <1>0, <2>1, <2>2 DEF BidsOwned, TrackedHoldPermit, Held
<1>5. ASSUME NEW c \in Conns, WorkerSteps(c)
      PROVE  BidsOwned' /\ TrackedHoldPermit'
  <2>1. /\ UNCHANGED <<browser, bid>>
        /\ \/ UNCHANGED <<permit, busy_browsers>>
           \/ /\ task[c] = "unmapping"
              /\ permit' = [permit EXCEPT ![browser[c]] = "returned"]
              /\ busy_browsers' = [busy_browsers EXCEPT ![bid[c]] = None]
    BY <1>5 DEF WorkerSteps, ClientGone, StartWorker, EndProxy, CloseSucceeds,
                CloseRaises, ReleaseBrowser, Pop, poolVars
  <2>2. task[c] = "unmapping" => bid[c] \in Bids /\ browser[c] \in Browsers
    BY DEF Shape
  <2>. QED
    BY <1>0, <2>1, <2>2 DEF BidsOwned, TrackedHoldPermit, Held
<1>. QED
  BY <1>1, <1>2, <1>3, <1>4, <1>5, NextCases DEF WorkerSteps

-----------------------------------------------------------------------------
(* Counting                                                                 *)

HeldIn(p) == {br \in Browsers : p[br] = "held"}

\* A permit that is given is one more, and one that is returned at most one less.
LEMMA PermitCounts ==
  ASSUME NEW p \in [Browsers -> {"none", "held", "returned"}]
  PROVE  /\ Cardinality(HeldIn(p)) \in Nat
         /\ \A br \in Browsers : p[br] = "none" =>
              Cardinality(HeldIn([p EXCEPT ![br] = "held"])) = Cardinality(HeldIn(p)) + 1
         /\ \A x : Cardinality(HeldIn([p EXCEPT ![x] = "returned"]))
                     >= Cardinality(HeldIn(p)) - 1
<1>1. \A q : IsFiniteSet(HeldIn(q)) /\ Cardinality(HeldIn(q)) \in Nat
  <2>. TAKE q
  <2>1. HeldIn(q) \subseteq Browsers /\ IsFiniteSet(Browsers)
    BY PoolAssumption DEF HeldIn
  <2>. QED
    BY <2>1, FS_Subset, FS_CardinalityType
<1>2. ASSUME NEW br \in Browsers, p[br] = "none"
      PROVE  Cardinality(HeldIn([p EXCEPT ![br] = "held"])) = Cardinality(HeldIn(p)) + 1
  <2>1. HeldIn([p EXCEPT ![br] = "held"]) = HeldIn(p) \cup {br} /\ br \notin HeldIn(p)
    BY <1>2 DEF HeldIn
  <2>. QED
    BY <1>1, <2>1, FS_AddElement
<1>3. ASSUME NEW x
      PROVE  Cardinality(HeldIn([p EXCEPT ![x] = "returned"])) >= Cardinality(HeldIn(p)) - 1
  <2>1. HeldIn([p EXCEPT ![x] = "returned"]) = HeldIn(p) \ {x}
    BY DEF HeldIn
  <2>2. Cardinality(HeldIn(p) \ {x}) = Cardinality(HeldIn(p))
        \/ Cardinality(HeldIn(p) \ {x}) = Cardinality(HeldIn(p)) - 1
    BY <1>1, FS_RemoveElement
  <2>3. Cardinality(HeldIn(p)) \in Nat
    BY <1>1
  <2>4. Cardinality(HeldIn(p) \ {x}) >= Cardinality(HeldIn(p)) - 1
    BY <2>2, <2>3
  <2>. QED
    BY <2>1, <2>4, Zenon
<1>. QED
  BY <1>1, <1>2, <1>3

\* Whoever returns a permit releases the semaphore, unless it is at its bound.
LEMMA PermitStep ==
  ASSUME Known, NoPermitLeak, [Next]_vars
  PROVE  NoPermitLeak'
<1>. USE DEF Known
<1>0. /\ permit \in [Browsers -> {"none", "held", "returned"}]
      /\ sem \in Nat /\ BROWSER_PER_AGENT \in Nat /\ sem <= BROWSER_PER_AGENT
      /\ Held = HeldIn(permit) /\ Held' = HeldIn(permit')
      /\ sem + Cardinality(HeldIn(permit)) >= BROWSER_PER_AGENT
      /\ NoPermitLeak' = (sem' + Cardinality(HeldIn(permit')) >= BROWSER_PER_AGENT)
  <2>1. Held = HeldIn(permit) /\ Held' = HeldIn(permit')
    BY DEF Held, HeldIn
  <2>2. sem \in Nat /\ BROWSER_PER_AGENT \in Nat /\ sem <= BROWSER_PER_AGENT
    BY PoolAssumption DEF TypeOK
  <2>. QED
    BY <2>1, <2>2 DEF NoPermitLeak, TypeOK
<1>1. CASE Handles
  <2>1. PICK c \in Conns : \E s, p : DispatcherActs(c, s, p)
    BY <1>1, DispatcherCases DEF Handles
  <2>2. PICK s, p : DispatcherActs(c, s, p)
    BY <2>1
  <2>3. /\ s \in 0 .. BROWSER_PER_AGENT
        /\ p \in [Browsers -> {"none", "held", "returned"}]
        /\ \/ s = sem /\ p = permit
           \/ s = sem + 1 /\ p = [permit EXCEPT ![browser[c]] = "returned"]
        /\ (\E br \in Browsers : Launched(c, br, s, p)) \/ Settled(c, s, p)
    BY <2>2 DEF DispatcherActs
  <2>4. s + Cardinality(HeldIn(p)) >= BROWSER_PER_AGENT
    <3>1. Cardinality(HeldIn(permit)) \in Nat /\ Cardinality(HeldIn(p)) \in Nat
      BY <1>0, <2>3, PermitCounts
    <3>2. CASE s = sem /\ p = permit
      BY <1>0, <3>2
    <3>3. CASE s = sem + 1 /\ p = [permit EXCEPT ![browser[c]] = "returned"]
      <4>1. Cardinality(HeldIn(p)) >= Cardinality(HeldIn(permit)) - 1
        BY <1>0, <3>3, PermitCounts
      <4>. QED
        BY <1>0, <3>1, <3>3, <4>1
    <3>. QED
      BY <2>3, <3>2, <3>3
  <2>5. ASSUME NEW br \in Browsers, Launched(c, br, s, p)
        PROVE  NoPermitLeak'
    <3>1. sem' = s - 1 /\ permit' = [p EXCEPT ![br] = "held"] /\ p[br] = "none"
      BY <2>5 DEF Launched
    <3>2. /\ Cardinality(HeldIn(permit')) = Cardinality(HeldIn(p)) + 1
          /\ Cardinality(HeldIn(p)) \in Nat
      BY <2>3, <3>1, PermitCounts
    <3>3. (s - 1) + (Cardinality(HeldIn(p)) + 1) >= BROWSER_PER_AGENT
      BY <1>0, <2>3, <2>4, <3>2
    <3>. QED
      BY <1>0, <3>1, <3>2, <3>3
  <2>6. CASE Settled(c, s, p)
    BY <1>0, <2>4, <2>6 DEF Settled
  <2>. QED
    BY <2>3, <2>5, <2>6
<1>2. CASE LaunchLost
  <2>1. sem' = sem /\ sem >= BROWSER_PER_AGENT
        /\ permit' = [permit EXCEPT ![browser[dispatcher.conn]] = "returned"]
    BY <1>2 DEF LaunchLost
  <2>2. permit' \in [Browsers -> {"none", "held", "returned"}]
    BY <1>0, <2>1
  <2>3. Cardinality(HeldIn(permit')) \in Nat
    BY <2>2, PermitCounts
  <2>4. sem + Cardinality(HeldIn(permit')) >= BROWSER_PER_AGENT
    BY <1>0, <2>1, <2>3
  <2>. QED
    BY <1>0, <2>1, <2>4
<1>3. ASSUME NEW c \in Conns, ReleaseBrowser(c)
      PROVE  NoPermitLeak'
  <2>1. sem' = Release(sem) /\ permit' = [permit EXCEPT ![browser[c]] = "returned"]
    BY <1>3 DEF ReleaseBrowser
  <2>2. permit' \in [Browsers -> {"none", "held", "returned"}]
    BY <1>0, <2>1
  <2>3. /\ Cardinality(HeldIn(permit')) \in Nat /\ Cardinality(HeldIn(permit)) \in Nat
        /\ Cardinality(HeldIn(permit')) >= Cardinality(HeldIn(permit)) - 1
    BY <1>0, <2>1, <2>2, PermitCounts
  <2>4. Release(sem) + Cardinality(HeldIn(permit')) >= BROWSER_PER_AGENT
    BY <1>0, <2>3 DEF Release
  <2>. QED
    BY <1>0, <2>1, <2>4
<1>4. CASE UNCHANGED <<sem, permit>>
  BY <1>0, <1>4
<1>5. LaunchSucceeds \/ ReplySent \/ BindAgent \/ SetSoftExit \/ IdleExit \/ Exit
      \/ UNCHANGED vars \/ (\E c \in Conns, b \in Bids : Arrive(c, b))
      \/ (\E c \in Conns : WorkerSteps(c) /\ ~ReleaseBrowser(c))
      => UNCHANGED <<sem, permit>>
  BY DEF LaunchSucceeds, ReplySent, BindAgent, SetSoftExit, IdleExit, Exit, vars,
         Arrive, WorkerSteps, ClientGone, StartWorker, EndProxy, CloseSucceeds,
         CloseRaises, poolVars
<1>. QED
  BY <1>1, <1>2, <1>3, <1>4, <1>5, NextCases DEF WorkerSteps

\* Only add_client and remove_client change who proxies, and they count.
LEMMA ClientCountStep ==
  ASSUME Known, ClientCountExact, [Next]_vars
  PROVE  ClientCountExact'
<1>. USE DEF Known
<1>0. /\ browser \in [Conns -> Browsers \cup {None}] /\ task \in [Conns -> TaskState]
      /\ client_count \in [Browsers -> Int]
      /\ \A br \in Browsers : IsFiniteSet(ProxyingOn(br))
  <2>1. ASSUME NEW br \in Browsers
        PROVE  IsFiniteSet(ProxyingOn(br))
    BY PoolAssumption, FS_Subset DEF ProxyingOn
  <2>. QED
    BY <2>1 DEF TypeOK
<1>1. ASSUME client_count' = client_count,
             \A c \in Conns : task[c] = "proxying" <=> task'[c] = "proxying",
             \A c \in Conns : task[c] = "proxying" => browser'[c] = browser[c]
      PROVE  ClientCountExact'
  <2>1. \A br \in Browsers : ProxyingOn(br)' = ProxyingOn(br)
    BY <1>1 DEF ProxyingOn
  <2>. QED
    BY <1>1, <2>1 DEF ClientCountExact
<1>2. CASE Handles
  <2>0. PICK c \in Conns : \E p : DispatcherGives(c, p)
    BY <1>2, HandlesGives
  <2>1. PICK p : DispatcherGives(c, p)
    BY <2>0
  <2>2. /\ client_count' = client_count
        /\ \A d \in Conns : task[d] = "proxying" <=> task'[d] = "proxying"
        /\ \A d \in Conns : task[d] = "proxying" => browser'[d] = browser[d]
    BY <1>0, <2>1 DEF DispatcherGives
  <2>. QED
    BY <1>1, <2>2
<1>3. CASE LaunchLost \/ LaunchSucceeds
  <2>1. /\ client_count' = client_count /\ browser' = browser
        /\ \/ task' = [task EXCEPT ![dispatcher.conn] = "lost"]
           \/ task' = [task EXCEPT ![dispatcher.conn] = "scheduled"]
        /\ task[dispatcher.conn] = "dispatching"
    BY <1>3 DEF LaunchLost, LaunchSucceeds, Shape
  <2>. QED
    BY <1>0, <1>1, <2>1
<1>4. CASE ReplySent \/ BindAgent \/ SetSoftExit \/ IdleExit \/ Exit \/ UNCHANGED vars
  <2>1. UNCHANGED <<client_count, task, browser>>
    BY <1>4 DEF ReplySent, BindAgent, SetSoftExit, IdleExit, Exit, vars, connVars,
                poolVars
  <2>. QED
    BY <1>1, <2>1
<1>5. ASSUME NEW c \in Conns, NEW b \in Bids, Arrive(c, b)
      PROVE  ClientCountExact'
  <2>1. /\ task[c] = "new" /\ client_count' = client_count
        /\ \E t \in {"rejected", "scheduled", "queued"} : task' = [task EXCEPT ![c] = t]
        /\ \/ browser' = browser
           \/ browser' = [browser EXCEPT ![c] = busy_browsers[b]]
    BY <1>5 DEF Arrive, Reject, Schedule, poolVars
  <2>. QED
    BY <1>0, <1>1, <2>1
<1>6. ASSUME NEW c \in Conns,
             ClientGone(c) \/ CloseSucceeds(c) \/ CloseRaises(c) \/ ReleaseBrowser(c)
             \/ (StartWorker(c) /\ closed[browser[c]])
      PROVE  ClientCountExact'
  <2>1. /\ UNCHANGED <<client_count, browser>>
        /\ \/ task' = task
           \/ /\ task[c] \in {"scheduled", "closing", "unmapping"}
              /\ \E t \in {"refused", "closing", "unmapping", "done"} :
                   task' = [task EXCEPT ![c] = t]
    BY <1>6 DEF ClientGone, CloseSucceeds, CloseRaises, ReleaseBrowser, StartWorker,
                poolVars
  <2>. QED
    BY <1>0, <1>1, <2>1
<1>7. ASSUME NEW c \in Conns, StartWorker(c), ~closed[browser[c]]
      PROVE  ClientCountExact'
  <2>. SUFFICES ASSUME NEW br \in Browsers
                PROVE  client_count'[br] = Cardinality(ProxyingOn(br)')
    BY DEF ClientCountExact
  <2>1. /\ task[c] = "scheduled" /\ task' = [task EXCEPT ![c] = "proxying"]
        /\ browser' = browser
        /\ client_count' = [client_count EXCEPT ![browser[c]] = @ + 1]
    BY <1>7 DEF StartWorker
  <2>2. CASE br = browser[c]
    <3>1. ProxyingOn(br)' = ProxyingOn(br) \cup {c} /\ c \notin ProxyingOn(br)
      BY <1>0, <2>1, <2>2 DEF ProxyingOn
    <3>2. Cardinality(ProxyingOn(br) \cup {c}) = Cardinality(ProxyingOn(br)) + 1
      BY <1>0, <3>1, FS_AddElement
    <3>3. client_count'[br] = client_count[br] + 1
      BY <1>0, <2>1, <2>2
    <3>. QED
      BY <3>1, <3>2, <3>3 DEF ClientCountExact
  <2>3. CASE br # browser[c]
    <3>1. ProxyingOn(br)' = ProxyingOn(br)
      BY <1>0, <2>1, <2>3 DEF ProxyingOn
    <3>2. client_count'[br] = client_count[br]
      BY <1>0, <2>1, <2>3
    <3>. QED
      BY <3>1, <3>2 DEF ClientCountExact
  <2>. QED
    BY <2>2, <2>3
<1>8. ASSUME NEW c \in Conns, EndProxy(c)
      PROVE  ClientCountExact'
  <2>. SUFFICES ASSUME NEW br \in Browsers
                PROVE  client_count'[br] = Cardinality(ProxyingOn(br)')
    BY DEF ClientCountExact
  <2>1. /\ task[c] = "proxying" /\ browser' = browser
        /\ \E t \in {"closing", "done"} : task' = [task EXCEPT ![c] = t]
        /\ client_count' = [client_count EXCEPT ![browser[c]] = @ - 1]
    BY <1>8 DEF EndProxy
  <2>2. CASE br = browser[c]
    <3>1. ProxyingOn(br)' = ProxyingOn(br) \ {c} /\ c \in ProxyingOn(br)
      BY <1>0, <2>1, <2>2 DEF ProxyingOn
    <3>2. Cardinality(ProxyingOn(br) \ {c}) = Cardinality(ProxyingOn(br)) - 1
      BY <1>0, <3>1, FS_RemoveElement
    <3>3. client_count'[br] = client_count[br] - 1
      BY <1>0, <2>1, <2>2
    <3>. QED
      BY <3>1, <3>2, <3>3 DEF ClientCountExact
  <2>3. CASE br # browser[c]
    <3>1. ProxyingOn(br)' = ProxyingOn(br)
      BY <1>0, <2>1, <2>3 DEF ProxyingOn
    <3>2. client_count'[br] = client_count[br]
      BY <1>0, <2>1, <2>3
    <3>. QED
      BY <3>1, <3>2 DEF ClientCountExact
  <2>. QED
    BY <2>2, <2>3
<1>. QED
  BY <1>2, <1>3, <1>4, <1>5, <1>6, <1>7, <1>8, NextCases

\* If the count of clients is not zero when one leaves, there is another.
LEMMA AnotherClient ==
  ASSUME Known, ClientCountExact, NEW c \in Conns, task[c] = "proxying",
         ~LastClient(browser[c])
  PROVE  \E d \in Conns : d # c /\ task[d] = "proxying" /\ browser[d] = browser[c]
<1>. DEFINE br == browser[c]
<1>1. br \in Browsers /\ c \in ProxyingOn(br)
  BY DEF Known, Shape, ProxyingOn
<1>2. client_count[br] \in Int /\ client_count[br] = Cardinality(ProxyingOn(br))
  BY <1>1 DEF Known, TypeOK, ClientCountExact
<1>3. Cardinality(ProxyingOn(br)) # 1
  BY <1>2 DEF LastClient
<1>4. ProxyingOn(br) # {c}
  BY <1>3, FS_Singleton
<1>. QED
  BY <1>1, <1>4 DEF ProxyingOn

\* Whoever has br in hand hands it on, or releases it.
LEMMA AbandonStep ==
  ASSUME Known, ClientCountExact, NoAbandonedBrowser, [Next]_vars
  PROVE  NoAbandonedBrowser'
<1>. USE DEF Known
<1>0. /\ browser \in [Conns -> Browsers \cup {None}] /\ task \in [Conns -> TaskState]
      /\ permit \in [Browsers -> {"none", "held", "returned"}]
      /\ closed \in [Browsers -> BOOLEAN]
  BY DEF TypeOK
<1>. SUFFICES ASSUME NEW br \in Browsers, permit'[br] = "held"
              PROVE  Launching(br)' \/ \E d \in Conns : Starting(d, br)' \/ Using(d, br)'
  BY DEF NoAbandonedBrowser, Held
<1>. DEFINE Attended == Launching(br) \/ \E d \in Conns : Starting(d, br) \/ Using(d, br)
<1>1. permit[br] = "held" => Attended
  BY DEF NoAbandonedBrowser, Held
<1>2. ASSUME NEW c \in Conns, task'[c] # task[c] => task[c] \notin
                {"scheduled", "proxying", "closing", "unmapping"},
             \A d \in Conns \ {c} : task'[d] = task[d],
             \A d \in Conns : task[d] \in {"scheduled", "proxying", "closing", "unmapping"}
                                => browser'[d] = browser[d],
             closed' = closed, NEW d \in Conns, Starting(d, br) \/ Using(d, br)
      PROVE  \E e \in Conns : Starting(e, br)' \/ Using(e, br)'
  BY <1>2 DEF Starting, Using
<1>3. CASE Handles
  <2>0. PICK c \in Conns : \E p : DispatcherGives(c, p)
    BY <1>3, HandlesGives
  <2>1. PICK p : DispatcherGives(c, p)
    BY <2>0
  <2>2. CASE Launching(br)'
    BY <2>2
  <2>3. CASE ~Launching(br)'
    <3>1. p[br] = "held"
      BY <1>0, <2>1, <2>3 DEF DispatcherGives, Launching
    <3>2. permit[br] = "held" /\ ~Launching(br)
      BY <1>0, <2>1, <3>1 DEF DispatcherGives, Launching
    <3>3. PICK d \in Conns : Starting(d, br) \/ Using(d, br)
      BY <1>1, <3>2
    <3>4. /\ task[c] \notin {"scheduled", "proxying", "closing", "unmapping"}
          /\ \A e \in Conns \ {c} : task'[e] = task[e] /\ browser'[e] = browser[e]
          /\ closed' = closed
      BY <1>0, <2>1 DEF DispatcherGives
    <3>. QED
      BY <3>3, <3>4 DEF Starting, Using
  <2>. QED
    BY <2>2, <2>3
<1>4. CASE LaunchLost
  <2>1. /\ task' = [task EXCEPT ![dispatcher.conn] = "lost"] /\ UNCHANGED <<browser, closed>>
        /\ permit' = [permit EXCEPT ![browser[dispatcher.conn]] = "returned"]
        /\ task[dispatcher.conn] = "dispatching" /\ dispatcher.conn \in Conns
    BY <1>4 DEF LaunchLost, Shape
  <2>2. permit[br] = "held" /\ br # browser[dispatcher.conn]
    BY <1>0, <2>1
  <2>3. PICK d \in Conns : Starting(d, br) \/ Using(d, br)
    BY <1>1, <2>2 DEF Launching
  <2>. QED
    BY <1>0, <2>1, <2>3 DEF Starting, Using
<1>5. CASE LaunchSucceeds
  <2>1. /\ task' = [task EXCEPT ![dispatcher.conn] = "scheduled"]
        /\ UNCHANGED <<browser, closed, permit>>
        /\ task[dispatcher.conn] = "dispatching" /\ dispatcher.conn \in Conns
        /\ ~closed[browser[dispatcher.conn]]
    BY <1>5 DEF LaunchSucceeds, Shape, LaunchOwned
  <2>2. CASE Launching(br)
    BY <1>0, <2>1, <2>2 DEF Launching, Starting
  <2>3. ASSUME NEW d \in Conns, Starting(d, br) \/ Using(d, br)
        PROVE  \E e \in Conns : Starting(e, br)' \/ Using(e, br)'
    BY <1>0, <2>1, <2>3 DEF Starting, Using
  <2>. QED
    BY <1>1, <2>1, <2>2, <2>3
<1>6. CASE ReplySent \/ BindAgent \/ SetSoftExit \/ IdleExit \/ Exit \/ UNCHANGED vars
  <2>1. UNCHANGED <<task, browser, closed, permit>>
        /\ (Launching(br) => dispatcher' = dispatcher)
    BY <1>6 DEF ReplySent, BindAgent, SetSoftExit, IdleExit, Exit, vars, connVars,
                poolVars, Launching
  <2>. QED
    BY <1>1, <2>1 DEF Launching, Starting, Using
<1>7. ASSUME NEW c \in Conns, NEW b \in Bids, Arrive(c, b)
      PROVE  Launching(br)' \/ \E d \in Conns : Starting(d, br)' \/ Using(d, br)'
  <2>1. /\ task[c] = "new" /\ UNCHANGED <<dispatcher, closed, permit>>
        /\ \E t : task' = [task EXCEPT ![c] = t]
        /\ \/ browser' = browser
           \/ browser' = [browser EXCEPT ![c] = busy_browsers[b]]
        /\ dispatcher.at = "launch" => dispatcher.conn # c
    BY <1>7 DEF Arrive, Reject, Schedule, poolVars, Shape
  <2>2. dispatcher.at = "launch" => dispatcher.conn \in Conns
    BY DEF Shape
  <2>. QED
    BY <1>0, <1>1, <2>1, <2>2 DEF Launching, Starting, Using
<1>8. ASSUME NEW c \in Conns, WorkerSteps(c)
      PROVE  Launching(br)' \/ \E d \in Conns : Starting(d, br)' \/ Using(d, br)'
  <2>1. UNCHANGED <<browser, dispatcher>>
    BY <1>8, WorkerKeeps
  <2>2. Launching(br)' <=> Launching(br)
    BY <2>1 DEF Launching
  <2>3. CASE ClientGone(c)
    BY <1>1, <2>1, <2>2, <2>3 DEF ClientGone, Starting, Using, poolVars
  <2>4. CASE StartWorker(c) \/ CloseRaises(c)
    <3>1. /\ UNCHANGED <<closed, permit>>
          /\ \/ /\ task[c] = "scheduled" /\ closed[browser[c]]
                /\ task' = [task EXCEPT ![c] = "refused"]
             \/ task[c] = "scheduled" /\ task' = [task EXCEPT ![c] = "proxying"]
             \/ task[c] = "closing" /\ task' = [task EXCEPT ![c] = "unmapping"]
             \/ task[c] = "closing" /\ UNCHANGED task
      BY <2>4 DEF StartWorker, CloseRaises, poolVars
    <3>. QED
      BY <1>0, <1>1, <2>1, <2>2, <3>1 DEF Starting, Using
  <2>5. CASE EndProxy(c)
    <3>1. /\ task[c] = "proxying" /\ UNCHANGED <<closed, permit>>
          /\ \/ LastClient(browser[c]) /\ task' = [task EXCEPT ![c] = "closing"]
             \/ ~LastClient(browser[c]) /\ task' = [task EXCEPT ![c] = "done"]
      BY <2>5 DEF EndProxy
    <3>2. CASE LastClient(browser[c])
      BY <1>0, <1>1, <2>1, <2>2, <3>1, <3>2 DEF Starting, Using
    <3>3. CASE ~LastClient(browser[c])
      <4>1. PICK d \in Conns : d # c /\ task[d] = "proxying" /\ browser[d] = browser[c]
        BY <3>1, <3>3, AnotherClient
      <4>. QED
        BY <1>0, <1>1, <2>1, <2>2, <3>1, <3>3, <4>1 DEF Starting, Using
    <3>. QED
      BY <3>2, <3>3
  <2>6. CASE CloseSucceeds(c)
    <3>1. /\ task[c] = "closing" /\ task' = [task EXCEPT ![c] = "unmapping"]
          /\ closed' = [closed EXCEPT ![browser[c]] = TRUE] /\ permit' = permit
      BY <2>6 DEF CloseSucceeds
    <3>. QED
      BY <1>0, <1>1, <2>1, <2>2, <3>1 DEF Starting, Using
  <2>7. CASE ReleaseBrowser(c)
    <3>1. /\ task[c] = "unmapping" /\ task' = [task EXCEPT ![c] = "done"]
          /\ permit' = [permit EXCEPT ![browser[c]] = "returned"] /\ closed' = closed
      BY <2>7 DEF ReleaseBrowser
    <3>2. permit[br] = "held" /\ br # browser[c]
      BY <1>0, <3>1
    <3>. QED
      BY <1>0, <1>1, <2>1, <2>2, <3>1, <3>2 DEF Starting, Using
  <2>. QED
    BY <1>8, <2>3, <2>4, <2>5, <2>6, <2>7 DEF WorkerSteps
<1>. QED
  BY <1>3, <1>4, <1>5, <1>6, <1>7, <1>8, NextCases DEF WorkerSteps

-----------------------------------------------------------------------------
(* The theorems                                                             *)

\* The inductive invariant holds in every state of every behaviour.
THEOREM Invariance == Spec => []IInv
<1>1. Init => IInv
  <2>. SUFFICES ASSUME Init
                PROVE  IInv
    OBVIOUS
  <2>1. TypeOK
    <3>1. /\ BROWSER_PER_AGENT \in Nat /\ AGENT_REQUEST_QUEUE_LENGTH \in Nat
          /\ GET_BROWSER_TRIES \in Nat /\ CLOSE_TRIES \in Nat
      BY PoolAssumption
    <3>2. dispatcher \in [at : {"get", "acquire", "launch", "reply"},
                         conn : Conns \cup {None}, tries : 0 .. GET_BROWSER_TRIES]
      BY <3>1 DEF Init, Idle
    <3>3. request_queue \in Seq(Conns) /\ Len(request_queue) <= AGENT_REQUEST_QUEUE_LENGTH
          /\ sem \in 0 .. BROWSER_PER_AGENT /\ close_try \in [Conns -> 0 .. CLOSE_TRIES]
          /\ client_count \in [Browsers -> Int]
      BY <3>1 DEF Init
    <3>. QED
      BY <3>2, <3>3 DEF Init, TypeOK, TaskState
  <2>2. QueueShape
    <3>1. Len(request_queue) = 0
      BY DEF Init
    <3>. QED
      BY <3>1 DEF QueueShape
  <2>8. Shape /\ Fresh /\ LaunchOwned /\ BidsOwned /\ TrackedHoldPermit
    BY PoolAssumption DEF Init, Shape, Fresh, LaunchOwned, BidsOwned,
                          TrackedHoldPermit, Idle
  <2>3. Held = {} /\ \A br \in Browsers : ProxyingOn(br) = {}
    BY DEF Init, Held, ProxyingOn
  <2>4. Cardinality({}) = 0
    BY FS_EmptySet
  <2>5. ClientCountExact
    BY <2>3, <2>4 DEF Init, ClientCountExact
  <2>6. NoPermitLeak
    BY <2>3, <2>4, PoolAssumption DEF Init, NoPermitLeak
  <2>7. NoAbandonedBrowser
    BY <2>3 DEF NoAbandonedBrowser
  <2>. QED
    BY <2>1, <2>2, <2>5, <2>6, <2>7, <2>8 DEF IInv
<1>2. IInv /\ [Next]_vars => IInv'
  <2>. SUFFICES ASSUME IInv, [Next]_vars
                PROVE  IInv'
    OBVIOUS
  <2>1. Known
    BY DEF IInv, Known
  <2>2. TypeOK' /\ Shape' /\ QueueShape'
    BY TypeStep, ShapeStep, QueueShapeStep DEF IInv
  <2>3. Fresh' /\ LaunchOwned' /\ BidsOwned' /\ TrackedHoldPermit'
    BY <2>1, UnknownStep, TrackedStep
  <2>4. ClientCountExact' /\ NoPermitLeak' /\ NoAbandonedBrowser'
    BY <2>1, ClientCountStep, PermitStep, AbandonStep DEF IInv
  <2>. QED
    BY <2>2, <2>3, <2>4 DEF IInv
<1>. QED
  BY <1>1, <1>2, PTL DEF Spec

\* The semaphore never goes below zero or above BROWSER_PER_AGENT, the request
\* queue never above its maxsize, and every variable stays in its type.
THEOREM TypeCorrect == Spec => []TypeOK
<1>1. IInv => TypeOK
  BY DEF IInv
<1>. QED
  BY <1>1, Invariance, PTL

\* remove_client decides on an exact count of the workers that proxy.
THEOREM ClientCountIsExact == Spec => []ClientCountExact
<1>1. IInv => ClientCountExact
  BY DEF IInv
<1>. QED
  BY <1>1, Invariance, PTL

\* No browser that holds a permit is ever left without a coroutine that will
\* release it.
THEOREM NoBrowserAbandoned == Spec => []NoAbandonedBrowser
<1>1. IInv => NoAbandonedBrowser
  BY DEF IInv
<1>. QED
  BY <1>1, Invariance, PTL

\* No failure, refusal or early leave costs the pool a permit.
THEOREM NoPermitLeaks == Spec => []NoPermitLeak
<1>1. IInv => NoPermitLeak
  BY DEF IInv
<1>. QED
  BY <1>1, Invariance, PTL

\* Whatever busy_browsers names holds its permit.
THEOREM TrackedBrowsersHoldPermits == Spec => []TrackedHoldPermit
<1>1. IInv => TrackedHoldPermit
  BY DEF IInv
<1>. QED
  BY <1>1, Invariance, PTL

-----------------------------------------------------------------------------
(* Nobody waits for nobody                                                  *)

\* Somebody has every connection in hand until its worker starts: it is in the
\* queue while it is queued, the dispatcher works on it while it is dispatched,
\* and a worker that closes its browser has a try left.
Attended ==
  \A c \in Conns :
    /\ task[c] = "queued" =>
         \E i \in 1 .. Len(request_queue) : request_queue[i] = c
    /\ task[c] = "dispatching" =>
         dispatcher.at \in {"acquire", "launch"} /\ dispatcher.conn = c
    /\ task[c] = "closing" => close_try[c] < CLOSE_TRIES
    /\ task[c] \in {"new", "queued", "dispatching", "scheduled", "proxying"}
         => close_try[c] = 0

\* A step that moves the connection c only, and neither queues nor dispatches it.
LEMMA AttendedKept ==
  ASSUME TypeOK, Attended, NEW c \in Conns, NEW t,
         request_queue' = request_queue,
         dispatcher' = dispatcher \/ task[c] = "dispatching",
         task' = [task EXCEPT ![c] = t], t \notin {"queued", "dispatching"},
         \A d \in Conns : d # c => close_try'[d] = close_try[d],
         t = "closing" => close_try'[c] < CLOSE_TRIES,
         t \in {"new", "scheduled", "proxying"} => close_try'[c] = 0
  PROVE  Attended'
<1>1. \A d \in Conns : IF d = c THEN task'[d] = t ELSE task'[d] = task[d]
  BY DEF TypeOK
<1>2. ASSUME NEW d \in Conns, task'[d] = "dispatching"
      PROVE  dispatcher'.at \in {"acquire", "launch"} /\ dispatcher'.conn = d
  <2>1. d # c /\ task[d] = "dispatching"
    BY <1>1, <1>2
  <2>2. task[c] # "dispatching"
    BY <2>1 DEF Attended, TypeOK
  <2>. QED
    BY <2>1, <2>2 DEF Attended
<1>3. ASSUME NEW d \in Conns, task'[d] = "queued"
      PROVE  \E i \in 1 .. Len(request_queue') : request_queue'[i] = d
  BY <1>1, <1>3 DEF Attended
<1>4. ASSUME NEW d \in Conns
      PROVE  /\ task'[d] = "closing" => close_try'[d] < CLOSE_TRIES
             /\ task'[d] \in {"new", "queued", "dispatching", "scheduled",
                              "proxying"} => close_try'[d] = 0
  <2>1. CASE d = c
    BY <1>1, <2>1
  <2>2. CASE d # c
    BY <1>1, <2>2 DEF Attended
  <2>. QED
    BY <2>1, <2>2
<1>. QED
  BY <1>2, <1>3, <1>4 DEF Attended

LEMMA HandlesAttended ==
  ASSUME IInv, Attended, Handles
  PROVE  Attended'
<1>. USE DEF IInv
<1>1. PICK c \in Conns : \E s, p : DispatcherActs(c, s, p)
  BY DispatcherCases DEF Handles
<1>2. PICK s, p : DispatcherActs(c, s, p)
  BY <1>1
<1>3. close_try' = close_try /\ task \in [Conns -> TaskState]
  BY HandlesKeeps DEF TypeOK
<1>4. PICK t \in {"dispatching", "scheduled", "done"} :
        /\ task' = [task EXCEPT ![c] = t]
        /\ t = "dispatching" => /\ dispatcher'.at \in {"acquire", "launch"}
                                /\ dispatcher'.conn = c
  BY <1>2 DEF DispatcherActs, Launched, Settled
<1>5. /\ task[c] \in {"queued", "dispatching"}
      /\ \A d \in Conns : task[d] = "dispatching" => d = c
  BY <1>2 DEF DispatcherActs, Attended
<1>6. ASSUME NEW d \in Conns, task'[d] = "queued"
      PROVE  \E i \in 1 .. Len(request_queue') : request_queue'[i] = d
  <2>1. d # c /\ task[d] = "queued"
    BY <1>3, <1>4, <1>6
  <2>2. PICK i \in 1 .. Len(request_queue) : request_queue[i] = d
    BY <2>1 DEF Attended
  <2>3. CASE request_queue' = request_queue
    BY <2>2, <2>3
  <2>4. CASE /\ request_queue # <<>> /\ c = Head(request_queue)
             /\ request_queue' = Tail(request_queue)
    <3>1. /\ request_queue \in Seq(Conns) /\ Len(request_queue) \in Nat
          /\ Len(request_queue') = Len(request_queue) - 1
          /\ c = request_queue[1]
          /\ \A j \in 1 .. Len(request_queue') :
               request_queue'[j] = request_queue[j + 1]
      BY <2>4 DEF TypeOK
    <3>2. i # 1
      BY <2>1, <2>2, <3>1
    <3>3. /\ i - 1 \in 1 .. Len(request_queue') /\ (i - 1) + 1 = i
          /\ request_queue'[i - 1] = request_queue[i]
      <4>1. i \in Int /\ i >= 1 /\ i <= Len(request_queue)
        OBVIOUS
      <4>2. i - 1 \in 1 .. Len(request_queue') /\ (i - 1) + 1 = i
        BY <3>1, <3>2, <4>1
      <4>. QED
        BY <3>1, <4>2
    <3>. QED
      BY <2>2, <3>3
  <2>. QED
    BY <1>2, <2>3, <2>4 DEF DispatcherActs
<1>7. ASSUME NEW d \in Conns
      PROVE  /\ task'[d] = "dispatching" =>
                  /\ dispatcher'.at \in {"acquire", "launch"}
                  /\ dispatcher'.conn = d
             /\ task'[d] = "closing" => close_try'[d] < CLOSE_TRIES
             /\ task'[d] \in {"new", "queued", "dispatching", "scheduled",
                              "proxying"} => close_try'[d] = 0
  BY <1>3, <1>4, <1>5 DEF Attended
<1>. QED
  BY <1>6, <1>7 DEF Attended

LEMMA AttendedStep ==
  ASSUME IInv, Attended, [Next]_vars
  PROVE  Attended'
<1>. USE DEF IInv
<1>1. CASE Handles
  BY <1>1, HandlesAttended
<1>2. CASE LaunchLost \/ LaunchSucceeds
  <2>1. /\ dispatcher.at = "launch" /\ dispatcher.conn \in Conns
        /\ task[dispatcher.conn] = "dispatching"
        /\ UNCHANGED <<request_queue, close_try>>
        /\ \E t \in {"lost", "scheduled"} :
             task' = [task EXCEPT ![dispatcher.conn] = t]
    BY <1>2 DEF LaunchLost, LaunchSucceeds, Shape
  <2>2. close_try[dispatcher.conn] = 0
    BY <2>1 DEF Attended
  <2>. QED
    BY <2>1, <2>2, AttendedKept
<1>3. CASE ReplySent \/ BindAgent \/ SetSoftExit \/ IdleExit \/ Exit \/ UNCHANGED vars
  <2>1. /\ UNCHANGED <<task, request_queue, close_try>>
        /\ \/ dispatcher' = dispatcher
           \/ dispatcher.at = "reply"
    BY <1>3 DEF ReplySent, BindAgent, SetSoftExit, IdleExit, Exit, vars, connVars
  <2>. QED
    BY <2>1 DEF Attended
<1>4. ASSUME NEW c \in Conns, NEW b \in Bids, Arrive(c, b)
      PROVE  Attended'
  <2>1. /\ task[c] = "new" /\ UNCHANGED <<dispatcher, close_try>>
        /\ \/ /\ request_queue' = request_queue
              /\ \E t \in {"rejected", "scheduled"} :
                   task' = [task EXCEPT ![c] = t]
           \/ /\ request_queue' = Append(request_queue, c)
              /\ task' = [task EXCEPT ![c] = "queued"]
    BY <1>4 DEF Arrive, Reject, Schedule
  <2>2. close_try[c] = 0
    BY <2>1 DEF Attended
  <2>3. ASSUME request_queue' = request_queue, NEW t \in {"rejected", "scheduled"},
               task' = [task EXCEPT ![c] = t]
        PROVE  Attended'
    BY <2>1, <2>2, <2>3, AttendedKept
  <2>4. CASE /\ request_queue' = Append(request_queue, c)
             /\ task' = [task EXCEPT ![c] = "queued"]
    <3>1. /\ Len(request_queue') = Len(request_queue) + 1
          /\ Len(request_queue) \in Nat
          /\ request_queue'[Len(request_queue) + 1] = c
          /\ \A i \in 1 .. Len(request_queue) :
               request_queue'[i] = request_queue[i]
      BY <2>4 DEF TypeOK
    <3>2. ASSUME NEW d \in Conns, task'[d] = "queued"
          PROVE  \E i \in 1 .. Len(request_queue') : request_queue'[i] = d
      <4>1. CASE d = c
        BY <3>1, <4>1
      <4>2. CASE d # c
        <5>1. task[d] = "queued"
          BY <2>4, <3>2, <4>2 DEF TypeOK
        <5>2. PICK i \in 1 .. Len(request_queue) : request_queue[i] = d
          BY <5>1 DEF Attended
        <5>3. i \in 1 .. Len(request_queue')
          BY <3>1
        <5>. QED
          BY <3>1, <5>2, <5>3
      <4>. QED
        BY <4>1, <4>2
    <3>3. ASSUME NEW d \in Conns
          PROVE  task'[d] = task[d] \/ (d = c /\ task'[d] = "queued")
      BY <2>4 DEF TypeOK
    <3>. QED
      BY <2>1, <2>2, <3>2, <3>3 DEF Attended
  <2>. QED
    BY <2>1, <2>3, <2>4
<1>5. ASSUME NEW c \in Conns, WorkerSteps(c)
      PROVE  Attended'
  <2>1. UNCHANGED <<request_queue, dispatcher>>
    BY <1>5, WorkerKeeps
  <2>2. CASE ClientGone(c)
    BY <2>1, <2>2 DEF ClientGone, Attended
  <2>3. CASE StartWorker(c)
    <3>1. task[c] = "scheduled" /\ close_try' = close_try
          /\ \E t \in {"refused", "proxying"} : task' = [task EXCEPT ![c] = t]
      BY <2>3 DEF StartWorker
    <3>2. close_try[c] = 0
      BY <3>1 DEF Attended
    <3>. QED
      BY <2>1, <3>1, <3>2, AttendedKept
  <2>4. CASE EndProxy(c)
    <3>1. task[c] = "proxying" /\ close_try' = close_try
          /\ \E t \in {"closing", "done"} : task' = [task EXCEPT ![c] = t]
      BY <2>4 DEF EndProxy
    <3>2. close_try[c] < CLOSE_TRIES
      BY <3>1, PoolAssumption DEF Attended
    <3>. QED
      BY <2>1, <3>1, <3>2, AttendedKept
  <2>5. CASE CloseSucceeds(c) \/ ReleaseBrowser(c)
    <3>1. close_try' = close_try
          /\ \E t \in {"unmapping", "done"} : task' = [task EXCEPT ![c] = t]
      BY <2>5 DEF CloseSucceeds, ReleaseBrowser
    <3>. QED
      BY <2>1, <3>1, AttendedKept
  <2>6. CASE CloseRaises(c)
    <3>1. /\ close_try[c] < CLOSE_TRIES
          /\ close_try' = [close_try EXCEPT ![c] = @ + 1]
          /\ \/ task' = [task EXCEPT ![c] = "unmapping"]
             \/ close_try[c] + 1 < CLOSE_TRIES /\ UNCHANGED task
          /\ task[c] = "closing"
      BY <2>6 DEF CloseRaises
    <3>2. close_try[c] + 1 < CLOSE_TRIES => close_try'[c] < CLOSE_TRIES
      <4>1. close_try[c] \in Nat /\ CLOSE_TRIES \in Nat
        BY PoolAssumption DEF TypeOK
      <4>2. close_try'[c] = close_try[c] + 1
        BY <3>1 DEF TypeOK
      <4>. QED
        BY <3>1, <4>1, <4>2
    <3>3. \A d \in Conns : d # c => close_try'[d] = close_try[d]
      BY <3>1 DEF TypeOK
    <3>4. CASE task' = [task EXCEPT ![c] = "unmapping"]
      BY <2>1, <3>3, <3>4, AttendedKept
    <3>5. CASE close_try[c] + 1 < CLOSE_TRIES /\ UNCHANGED task
      <4>1. task' = [task EXCEPT ![c] = "closing"]
        BY <3>1, <3>5 DEF TypeOK
      <4>. QED
        BY <2>1, <3>2, <3>3, <3>5, <4>1, AttendedKept
    <3>. QED
      BY <3>1, <3>4, <3>5
  <2>. QED
    BY <1>5, <2>2, <2>3, <2>4, <2>5, <2>6 DEF WorkerSteps
<1>. QED
  BY <1>1, <1>2, <1>3, <1>4, <1>5, NextCases DEF WorkerSteps

\* No connection is forgotten between the handler, the queue, the dispatcher and
\* the worker (the safety part of QueueDrains): whoever has to act on it next
\* knows of it.
THEOREM NoRequestForgotten == Spec => []Attended
<1>1. Init => Attended
  BY DEF Init, Attended
<1>. QED
  BY <1>1, AttendedStep, Invariance, PTL DEF Spec

\* The dispatcher, and with it every queued connection, waits for the semaphore
\* only when BROWSER_PER_AGENT browsers hold a permit, each of which has a worker
\* that is on its way to give it back: it never waits for a launch of its own, or
\* for nobody.
THEOREM PermitWaitIsForWorkers ==
  Spec => [](dispatcher.at = "acquire" /\ sem = 0 =>
               /\ Cardinality(Held) >= BROWSER_PER_AGENT
               /\ \A br \in Held :
                    \E c \in Conns : Starting(c, br) \/ Using(c, br))
<1>1. IInv => (dispatcher.at = "acquire" /\ sem = 0 =>
                 /\ Cardinality(Held) >= BROWSER_PER_AGENT
                 /\ \A br \in Held :
                      \E c \in Conns : Starting(c, br) \/ Using(c, br))
  <2>. SUFFICES ASSUME IInv, dispatcher.at = "acquire", sem = 0
                PROVE  /\ Cardinality(Held) >= BROWSER_PER_AGENT
                       /\ \A br \in Held :
                            \E c \in Conns : Starting(c, br) \/ Using(c, br)
    OBVIOUS
  <2>1. Cardinality(Held) \in Nat
    <3>1. IsFiniteSet(Held)
      BY PoolAssumption, FS_Subset DEF Held
    <3>. QED
      BY <3>1, FS_CardinalityType
  <2>2. Cardinality(Held) >= BROWSER_PER_AGENT
    BY <2>1, PoolAssumption DEF IInv, NoPermitLeak
  <2>3. \A br \in Held : ~Launching(br)
    BY DEF Launching
  <2>. QED
    BY <2>2, <2>3 DEF IInv, NoAbandonedBrowser
<1>. QED
  BY <1>1, Invariance, PTL
=============================================================================
