----------------------- MODULE BrowserPoolPrivate_proofs -----------------------
(***************************************************************************)
(* Proofs about BrowserPool where no two connections name the same bid, as  *)
(* those of the repository's own test client do not: the pool respects its  *)
(* capacity, tracks what is in use, answers everybody and implements        *)
(* PermitPool, for any number of connections, browsers and permits.         *)
(*                                                                         *)
(* The argument: a bid has one connection, so a browser has one client, no  *)
(* one joins a browser that closes, and its permit is returned once.        *)
(***************************************************************************)
EXTENDS BrowserPool_proofs

\* A worker has c from the moment it is scheduled until it released its browser.
Active(c) == task[c] \in {"scheduled", "proxying", "closing", "unmapping"}

OneConnPerBid ==
  \A c, d \in Conns : bid[c] # None /\ bid[c] = bid[d] => c = d

OwnTracked == \A c \in Conns : Active(c) => busy_browsers[bid[c]] = browser[c]

TrackedInUse ==
  \A b \in Bids : busy_browsers[b] # None =>
    \E c \in Conns : Active(c) /\ bid[c] = b

\* No worker is refused.
OpenForUse ==
  \A c \in Conns : task[c] \in {"scheduled", "proxying", "closing"} =>
    ~closed[browser[c]]

Answered ==
  \A c \in Conns :
    task[c] \in {"rejected", "refused", "lost", "done", "closing", "unmapping"}
      => c \in finished

\* NoPermitLeak and CapacityRespected in one.
PermitsExact == sem + Cardinality(Held) = BROWSER_PER_AGENT

Private ==
  /\ OneConnPerBid /\ OwnTracked /\ TrackedInUse /\ OpenForUse /\ Answered
  /\ PermitsExact

PInv == IInv /\ Private
-----------------------------------------------------------------------------
(* What the invariant gives                                                 *)

LEMMA PInvTypes ==
  ASSUME PInv
  PROVE  /\ Known /\ ClientCountExact
         /\ browser \in [Conns -> Browsers \cup {None}]
         /\ task \in [Conns -> TaskState]
         /\ busy_browsers \in [Bids -> Browsers \cup {None}]
         /\ permit \in [Browsers -> {"none", "held", "returned"}]
         /\ closed \in [Browsers -> BOOLEAN]
         /\ bid \in [Conns -> Bids \cup {None}]
         /\ finished \in SUBSET Conns
         /\ sem \in Nat /\ BROWSER_PER_AGENT \in Nat
         /\ None \notin Browsers /\ None \notin Bids
BY PoolAssumption DEF PInv, IInv, Known, TypeOK

\* A browser that an active connection was given is its own, and holds a permit.
LEMMA OwnBrowser ==
  ASSUME PInv, NEW c \in Conns, Active(c)
  PROVE  /\ bid[c] \in Bids /\ browser[c] \in Held /\ browser[c] \in Browsers
         /\ \A d \in Conns : Active(d) /\ browser[d] = browser[c] => d = c
<1>1. Known /\ None \notin Browsers /\ None \notin Bids
  BY PInvTypes
<1>2. bid[c] \in Bids /\ browser[c] \in Browsers
  BY <1>1 DEF Known, Shape, Active
<1>3. busy_browsers[bid[c]] = browser[c] /\ browser[c] # None
  BY <1>1, <1>2 DEF PInv, Private, OwnTracked
<1>4. browser[c] \in Held
  BY <1>1, <1>2, <1>3 DEF Known, TrackedHoldPermit
<1>5. ASSUME NEW d \in Conns, Active(d), browser[d] = browser[c]
      PROVE  d = c
  <2>1. bid[d] = bid[c] /\ bid[c] # None
    BY <1>1, <1>2, <1>3, <1>5 DEF Known, BidsOwned
  <2>. QED
    BY <2>1 DEF PInv, Private, OneConnPerBid
<1>. QED
  BY <1>2, <1>4, <1>5

\* Whom the dispatcher works for is not served by a browser already.
LEMMA NoEntryYet ==
  ASSUME PInv, NEW c \in Conns, bid[c] \in Bids,
         task[c] \in {"queued", "dispatching"}
  PROVE  busy_browsers[bid[c]] = None
<1>1. ASSUME busy_browsers[bid[c]] # None
      PROVE  FALSE
  <2>1. PICK d \in Conns : Active(d) /\ bid[d] = bid[c]
    BY <1>1 DEF PInv, Private, TrackedInUse
  <2>2. bid[c] # None
    BY PInvTypes
  <2>3. d = c
    BY <2>1, <2>2 DEF PInv, Private, OneConnPerBid
  <2>. QED
    BY <2>1, <2>3 DEF Active
<1>. QED
  BY <1>1

\* The semaphore is below its bound while a browser holds a permit.
LEMMA BelowBound ==
  ASSUME PInv, NEW br \in Held
  PROVE  sem < BROWSER_PER_AGENT
<1>1. IsFiniteSet(Held)
  BY PoolAssumption, FS_Subset DEF Held
<1>2. Cardinality(Held) \in Nat /\ Cardinality(Held) # 0
  BY <1>1, FS_CardinalityType, FS_EmptySet
<1>. QED
  BY <1>2, PInvTypes DEF PInv, Private, PermitsExact

\* A release never meets the bound, so no connection is dropped.
LEMMA NeverLost ==
  ASSUME PInv
  PROVE  ~LaunchLost
<1>1. ASSUME LaunchLost
      PROVE  FALSE
  <2>1. browser[dispatcher.conn] \in Held /\ sem >= BROWSER_PER_AGENT
    BY <1>1, PInvTypes DEF Known, LaunchLost, LaunchOwned
  <2>. QED
    BY <2>1, PInvTypes, BelowBound
<1>. QED
  BY <1>1

-----------------------------------------------------------------------------
(* Permits                                                                  *)

\* Every step of the pool acquires, returns or hands over a permit, or none.
LEMMA PermitsStep ==
  ASSUME PInv, [Next]_vars
  PROVE  [Permits!Next]_<<sem, permit>>
<1>0. /\ TypeOK /\ Shape /\ QueueShape /\ LaunchOwned
      /\ permit \in [Browsers -> {"none", "held", "returned"}]
      /\ sem \in Nat /\ BROWSER_PER_AGENT \in Nat
  BY PInvTypes DEF Known
<1>1. CASE Handles
  <2>1. PICK c \in Conns : \E s, p : DispatcherActs(c, s, p)
    BY <1>0, <1>1, DispatcherCases DEF Handles
  <2>2. PICK s, p : DispatcherActs(c, s, p)
    BY <2>1
  <2>3. (\E br \in Browsers : Launched(c, br, s, p)) \/ Settled(c, s, p)
    BY <2>2 DEF DispatcherActs
  <2>4. CASE s = sem /\ p = permit
    <3>1. ASSUME NEW br \in Browsers, Launched(c, br, s, p)
          PROVE  Permits!Acquire(br)
      <4>1. s > 0
        BY <1>0, <2>2, <2>4, <3>1 DEF DispatcherActs, Launched, Settled
      <4>. QED
        BY <2>4, <3>1, <4>1 DEF Launched, Permits!Acquire
    <3>2. CASE Settled(c, s, p)
      BY <2>4, <3>2 DEF Settled
    <3>. QED
      BY <2>3, <3>1, <3>2 DEF Permits!Next
  <2>5. CASE /\ dispatcher.at = "launch" /\ c = dispatcher.conn /\ s = sem + 1
             /\ p = [permit EXCEPT ![browser[c]] = "returned"]
    <3>1. browser[c] \in Browsers /\ permit[browser[c]] = "held"
      BY <1>0, <2>5 DEF LaunchOwned, Held
    <3>2. ASSUME NEW br \in Browsers, Launched(c, br, s, p)
          PROVE  Permits!HandOver(browser[c], br)
      <4>1. p[br] = "none" /\ permit' = [p EXCEPT ![br] = "held"] /\ sem' = s - 1
        BY <3>2 DEF Launched
      <4>2. br # browser[c] /\ permit[br] = "none" /\ sem' = sem
        BY <1>0, <2>5, <3>1, <4>1
      <4>3. permit' = [permit EXCEPT ![browser[c]] = "returned", ![br] = "held"]
        BY <2>5, <4>1
      <4>. QED
        BY <3>1, <4>2, <4>3 DEF Permits!HandOver
    <3>3. ASSUME Settled(c, s, p)
          PROVE  Permits!Return(browser[c])
      BY <2>5, <3>1, <3>3 DEF Settled, Permits!Return
    <3>. QED
      BY <2>3, <3>1, <3>2, <3>3 DEF Permits!Next
  <2>. QED
    BY <2>2, <2>4, <2>5 DEF DispatcherActs
<1>2. ~LaunchLost
  BY NeverLost
<1>3. ASSUME NEW c \in Conns, ReleaseBrowser(c)
      PROVE  Permits!Return(browser[c]) /\ browser[c] \in Browsers
  <2>1. browser[c] \in Held /\ browser[c] \in Browsers
    BY <1>3, OwnBrowser DEF ReleaseBrowser, Active
  <2>2. sem < BROWSER_PER_AGENT
    BY <2>1, BelowBound
  <2>. QED
    BY <1>3, <2>1, <2>2 DEF ReleaseBrowser, Release, Held, Permits!Return
<1>4. LaunchSucceeds \/ ReplySent \/ BindAgent \/ SetSoftExit \/ IdleExit \/ Exit
      \/ UNCHANGED vars \/ (\E c \in Conns, b \in Bids : Arrive(c, b))
      \/ (\E c \in Conns : WorkerSteps(c) /\ ~ReleaseBrowser(c))
      => UNCHANGED <<sem, permit>>
  BY DEF LaunchSucceeds, ReplySent, BindAgent, SetSoftExit, IdleExit, Exit, vars,
         Arrive, WorkerSteps, ClientGone, StartWorker, EndProxy, CloseSucceeds,
         CloseRaises, poolVars
<1>. QED
  BY <1>0, <1>1, <1>2, <1>3, <1>4, NextCases DEF WorkerSteps, Permits!Next

LEMMA PermitsExactStep ==
  ASSUME PInv, [Next]_vars
  PROVE  PermitsExact'
<1>1. [Permits!Next]_<<sem, permit>>
  BY PermitsStep
<1>2. /\ permit \in [Browsers -> {"none", "held", "returned"}]
      /\ sem \in Nat /\ BROWSER_PER_AGENT \in Nat
      /\ sem + Cardinality(Held) = BROWSER_PER_AGENT
  BY PInvTypes DEF PInv, Private, PermitsExact
<1>3. IsFiniteSet(Held) /\ Cardinality(Held) \in Nat
  BY PoolAssumption, FS_Subset, FS_CardinalityType DEF Held
<1>4. ASSUME NEW u \in Browsers, Permits!Acquire(u)
      PROVE  PermitsExact'
  <2>1. Held' = Held \cup {u} /\ u \notin Held /\ sem' = sem - 1
    BY <1>2, <1>4 DEF Permits!Acquire, Held
  <2>2. Cardinality(Held') = Cardinality(Held) + 1
    BY <1>3, <2>1, FS_AddElement
  <2>. QED
    BY <1>2, <1>3, <2>1, <2>2 DEF PermitsExact
<1>5. ASSUME NEW u \in Browsers, Permits!Return(u)
      PROVE  PermitsExact'
  <2>1. Held' = Held \ {u} /\ u \in Held /\ sem' = sem + 1
    BY <1>2, <1>5 DEF Permits!Return, Held
  <2>2. Cardinality(Held') = Cardinality(Held) - 1
    BY <1>3, <2>1, FS_RemoveElement
  <2>. QED
    BY <1>2, <1>3, <2>1, <2>2 DEF PermitsExact
<1>6. ASSUME NEW u \in Browsers, NEW w \in Browsers, Permits!HandOver(u, w)
      PROVE  PermitsExact'
  <2>1. /\ Held' = (Held \ {u}) \cup {w} /\ u \in Held /\ w \notin Held
        /\ sem' = sem
    BY <1>2, <1>6 DEF Permits!HandOver, Held
  <2>2. /\ IsFiniteSet(Held \ {u})
        /\ Cardinality(Held \ {u}) = Cardinality(Held) - 1
    BY <1>3, <2>1, FS_RemoveElement
  <2>3. Cardinality(Held') = Cardinality(Held \ {u}) + 1
    BY <2>1, <2>2, FS_AddElement
  <2>. QED
    BY <1>2, <1>3, <2>1, <2>2, <2>3 DEF PermitsExact
<1>7. CASE UNCHANGED <<sem, permit>>
  BY <1>2, <1>7 DEF PermitsExact, Held
<1>. QED
  BY <1>1, <1>4, <1>5, <1>6, <1>7 DEF Permits!Next
-----------------------------------------------------------------------------
(* Who has which browser                                                    *)

\* The connection that get_browser is called for is answered when it ends.
LEMMA GetBrowserAnswers ==
  ASSUME TypeOK, NEW c \in Conns, NEW n, NEW s, NEW p,
         GetBrowser(c, n, s, p) \/ StartLaunch(c, n, s, p) \/ GiveUp(c)
  PROVE  /\ finished \subseteq finished'
         /\ \A d \in Conns :
              task'[d] = "done" /\ task[d] # "done" => d \in finished'
<1>. task \in [Conns -> TaskState]
  BY DEF TypeOK
<1>1. CASE GiveUp(c)
  BY <1>1 DEF GiveUp, Resolve
<1>2. CASE StartLaunch(c, n, s, p)
  BY <1>2 DEF StartLaunch
<1>3. CASE Schedule(c, busy_browsers[bid[c]]) /\ UNCHANGED finished
  BY <1>3 DEF Schedule
<1>4. CASE task' = [task EXCEPT ![c] = "dispatching"] /\ UNCHANGED finished
  BY <1>4
<1>. QED
  BY <1>1, <1>2, <1>3, <1>4 DEF GetBrowser

\* The dispatcher's step: a launch, a wait or an answer for one connection that
\* no worker has, which never gets a browser another one opened.
LEMMA HandlesPrivate ==
  ASSUME PInv, Handles
  PROVE  \E c \in Conns :
           /\ bid[c] \in Bids /\ task[c] \in {"queued", "dispatching"}
           /\ UNCHANGED <<bid, busy_browsers, closed>>
           /\ finished \subseteq finished'
           /\ \A d \in Conns \ {c} : browser'[d] = browser[d]
           /\ \/ task' = [task EXCEPT ![c] = "dispatching"]
              \/ task' = [task EXCEPT ![c] = "done"] /\ c \in finished'
<1>0. TypeOK /\ Shape /\ QueueShape /\ task \in [Conns -> TaskState]
      /\ browser \in [Conns -> Browsers \cup {None}]
  BY PInvTypes DEF Known
<1>1. PICK c \in Conns : \E p : DispatcherGives(c, p)
  BY <1>0, HandlesGives
<1>2. PICK p : DispatcherGives(c, p)
  BY <1>1
<1>3. bid[c] \in Bids /\ task[c] \in {"queued", "dispatching"}
      /\ UNCHANGED <<bid, busy_browsers, closed>>
  BY <1>2 DEF DispatcherGives
<1>4. busy_browsers[bid[c]] = None
  BY <1>3, NoEntryYet
<1>5. /\ \A d \in Conns \ {c} : browser'[d] = browser[d]
      /\ \/ task' = [task EXCEPT ![c] = "dispatching"]
         \/ task' = [task EXCEPT ![c] = "done"]
  BY <1>0, <1>2, <1>4 DEF DispatcherGives
<1>6. /\ finished \subseteq finished'
      /\ \A d \in Conns :
           task'[d] = "done" /\ task[d] # "done" => d \in finished'
  <2>1. CASE TakeRequest
    <3>1. Head(request_queue) \in Conns
          /\ GetBrowser(Head(request_queue), 1, sem, permit)
      BY <1>0, <2>1, HeadOfQueue DEF TakeRequest
    <3>. QED
      BY <1>0, <3>1, GetBrowserAnswers
  <2>2. CASE PermitAcquired
    <3>1. dispatcher.conn \in Conns
          /\ StartLaunch(dispatcher.conn, dispatcher.tries, sem, permit)
      BY <1>0, <2>2 DEF PermitAcquired, Shape
    <3>. QED
      BY <1>0, <3>1, GetBrowserAnswers
  <2>3. CASE LaunchFails /\ sem < BROWSER_PER_AGENT
    <3>1. dispatcher.conn \in Conns
      BY <1>0, <2>3 DEF LaunchFails, Shape
    <3>2. ~(sem >= BROWSER_PER_AGENT)
      BY <2>3, PInvTypes
    <3>3. \/ GetBrowser(dispatcher.conn, dispatcher.tries + 1, Release(sem),
                   [permit EXCEPT ![browser[dispatcher.conn]] = "returned"])
          \/ GiveUp(dispatcher.conn)
      BY <2>3, <3>2, Zenon DEF LaunchFails
    <3>. QED
      BY <1>0, <3>1, <3>3, GetBrowserAnswers
  <2>. QED
    BY <2>1, <2>2, <2>3 DEF Handles
<1>7. \/ task' = [task EXCEPT ![c] = "dispatching"]
      \/ task' = [task EXCEPT ![c] = "done"] /\ c \in finished'
  BY <1>0, <1>3, <1>5, <1>6
<1>. QED
  BY <1>3, <1>5, <1>6, <1>7

\* The worker that leaves is the only client of its browser.
LEMMA OnlyClient ==
  ASSUME PInv, NEW c \in Conns, task[c] = "proxying"
  PROVE  LastClient(browser[c])
<1>1. Known /\ ClientCountExact
  BY PInvTypes
<1>2. browser[c] \in Browsers
      /\ \A d \in Conns : Active(d) /\ browser[d] = browser[c] => d = c
  BY OwnBrowser DEF Active
<1>3. ASSUME ~LastClient(browser[c])
      PROVE  FALSE
  <2>1. PICK d \in Conns : /\ d # c /\ task[d] = "proxying"
                           /\ browser[d] = browser[c]
    BY <1>1, <1>3, AnotherClient
  <2>. QED
    BY <1>2, <2>1 DEF Active
<1>. QED
  BY <1>3

\* What the parts of Private other than the permits say of the next state.
Owned == OneConnPerBid /\ OwnTracked /\ TrackedInUse /\ OpenForUse /\ Answered

\* Bids, browsers and answers stay matched.
LEMMA OwnedStep ==
  ASSUME PInv, [Next]_vars, ~SharedBids
  PROVE  Owned'
<1>0. /\ TypeOK /\ Shape /\ LaunchOwned /\ Owned
      /\ browser \in [Conns -> Browsers \cup {None}]
      /\ task \in [Conns -> TaskState]
      /\ busy_browsers \in [Bids -> Browsers \cup {None}]
      /\ closed \in [Browsers -> BOOLEAN]
      /\ bid \in [Conns -> Bids \cup {None}]
      /\ finished \in SUBSET Conns
      /\ None \notin Browsers /\ None \notin Bids
  BY PInvTypes DEF Known, PInv, Private, Owned
<1>1. CASE Handles
  <2>1. PICK c \in Conns :
           /\ bid[c] \in Bids /\ task[c] \in {"queued", "dispatching"}
           /\ UNCHANGED <<bid, busy_browsers, closed>>
           /\ finished \subseteq finished'
           /\ \A d \in Conns \ {c} : browser'[d] = browser[d]
           /\ \/ task' = [task EXCEPT ![c] = "dispatching"]
              \/ task' = [task EXCEPT ![c] = "done"] /\ c \in finished'
    BY <1>1, HandlesPrivate
  <2>2. /\ \A d \in Conns \ {c} : task'[d] = task[d]
        /\ task'[c] \in {"dispatching", "done"}
        /\ task'[c] = "done" => c \in finished'
    BY <1>0, <2>1
  <2>. QED
    BY <1>0, <2>1, <2>2 DEF Owned, OneConnPerBid, OwnTracked, TrackedInUse,
                            OpenForUse, Answered, Active
<1>2. CASE LaunchSucceeds
  <2>. DEFINE c == dispatcher.conn
  <2>1. /\ c \in Conns /\ task[c] = "dispatching" /\ bid[c] \in Bids
        /\ task' = [task EXCEPT ![c] = "scheduled"]
        /\ busy_browsers' = [busy_browsers EXCEPT ![bid[c]] = browser[c]]
        /\ UNCHANGED <<bid, browser, finished, closed>>
        /\ ~closed[browser[c]] /\ browser[c] \in Browsers
    BY <1>0, <1>2 DEF LaunchSucceeds, Shape, LaunchOwned, Held
  <2>2. \A d \in Conns : d # c => bid[d] # bid[c]
    BY <1>0, <2>1 DEF Owned, OneConnPerBid
  <2>. QED
    BY <1>0, <2>1, <2>2 DEF Owned, OneConnPerBid, OwnTracked, TrackedInUse,
                            OpenForUse, Answered, Active, Shape
<1>3. CASE ReplySent \/ BindAgent \/ SetSoftExit \/ IdleExit \/ Exit
           \/ UNCHANGED vars
  <2>1. UNCHANGED <<task, browser, bid, busy_browsers, closed, finished>>
    BY <1>3 DEF ReplySent, BindAgent, SetSoftExit, IdleExit, Exit, vars,
                connVars, poolVars
  <2>. QED
    BY <1>0, <2>1 DEF Owned, OneConnPerBid, OwnTracked, TrackedInUse,
                      OpenForUse, Answered, Active
<1>4. ASSUME NEW c \in Conns, NEW b \in Bids, Arrive(c, b)
      PROVE  Owned'
  <2>1. /\ task[c] = "new" /\ \A d \in Conns : bid[d] # b
        /\ bid' = [bid EXCEPT ![c] = b]
        /\ UNCHANGED <<busy_browsers, closed>>
    BY <1>4 DEF Arrive, poolVars
  <2>2. busy_browsers[b] = None
    BY <1>0, <2>1 DEF Owned, TrackedInUse
  <2>3. /\ browser' = browser
        /\ \/ task' = [task EXCEPT ![c] = "queued"] /\ finished' = finished
           \/ /\ task' = [task EXCEPT ![c] = "rejected"]
              /\ finished' = finished \cup {c}
    BY <1>4, <2>2 DEF Arrive, Reject
  <2>. QED
    BY <1>0, <2>1, <2>2, <2>3 DEF Owned, OneConnPerBid, OwnTracked,
       TrackedInUse, OpenForUse, Answered, Active
<1>5. ASSUME NEW c \in Conns, WorkerSteps(c)
      PROVE  Owned'
  <2>1. UNCHANGED <<bid, browser>>
    BY <1>0, <1>5, WorkerKeeps
  <2>2. CASE ClientGone(c)
    BY <1>0, <2>1, <2>2 DEF ClientGone, poolVars, Owned, OneConnPerBid,
       OwnTracked, TrackedInUse, OpenForUse, Answered, Active
  <2>3. CASE StartWorker(c) \/ EndProxy(c) \/ CloseRaises(c)
    <3>1. /\ UNCHANGED <<busy_browsers, closed>> /\ finished \subseteq finished'
          /\ \/ /\ task[c] = "scheduled"
                /\ task' = [task EXCEPT ![c] = "proxying"]
             \/ /\ task[c] = "proxying" /\ c \in finished'
                /\ task' = [task EXCEPT ![c] = "closing"]
             \/ /\ task[c] = "closing"
                /\ \/ task' = [task EXCEPT ![c] = "unmapping"]
                   \/ task' = [task EXCEPT ![c] = "closing"]
      <4>1. CASE StartWorker(c)
        <5>1. ~closed[browser[c]]
          BY <1>0, <4>1 DEF StartWorker, Owned, OpenForUse
        <5>. QED
          BY <4>1, <5>1 DEF StartWorker
      <4>2. CASE EndProxy(c)
        <5>1. LastClient(browser[c])
          BY <4>2, OnlyClient DEF EndProxy
        <5>. QED
          BY <4>2, <5>1 DEF EndProxy, Resolve
      <4>3. CASE CloseRaises(c)
        <5>1. \/ task' = [task EXCEPT ![c] = "unmapping"]
              \/ task[c] = "closing" /\ UNCHANGED task
          BY <4>3 DEF CloseRaises
        <5>2. task \in [Conns -> TaskState]
          BY <1>0 DEF TypeOK
        <5>3. UNCHANGED task => task' = [task EXCEPT ![c] = task[c]]
          BY <5>2
        <5>. QED
          BY <4>3, <5>1, <5>3 DEF CloseRaises, poolVars
      <4>. QED
        BY <2>3, <4>1, <4>2, <4>3
    <3>. QED
      BY <1>0, <2>1, <3>1 DEF Owned, OneConnPerBid, OwnTracked, TrackedInUse,
                              OpenForUse, Answered, Active
  <2>4. CASE CloseSucceeds(c)
    <3>1. /\ task[c] = "closing" /\ task' = [task EXCEPT ![c] = "unmapping"]
          /\ closed' = [closed EXCEPT ![browser[c]] = TRUE]
          /\ UNCHANGED <<busy_browsers, finished>>
      BY <2>4 DEF CloseSucceeds
    <3>2. \A d \in Conns : Active(d) /\ browser[d] = browser[c] => d = c
      BY <3>1, OwnBrowser DEF Active
    <3>. QED
      BY <1>0, <2>1, <3>1, <3>2 DEF Owned, OneConnPerBid, OwnTracked,
         TrackedInUse, OpenForUse, Answered, Active
  <2>5. CASE ReleaseBrowser(c)
    <3>1. /\ task[c] = "unmapping" /\ task' = [task EXCEPT ![c] = "done"]
          /\ busy_browsers' = [busy_browsers EXCEPT ![bid[c]] = None]
          /\ UNCHANGED <<closed, finished>> /\ bid[c] \in Bids
      BY <1>0, <2>5 DEF ReleaseBrowser, Pop, Shape
    <3>2. \A d \in Conns : d # c => bid[d] # bid[c]
      BY <1>0, <3>1 DEF Owned, OneConnPerBid
    <3>. QED
      BY <1>0, <2>1, <3>1, <3>2 DEF Owned, OneConnPerBid, OwnTracked,
         TrackedInUse, OpenForUse, Answered, Active
  <2>. QED
    BY <1>5, <2>2, <2>3, <2>4, <2>5 DEF WorkerSteps
<1>. QED
  BY <1>0, <1>1, <1>2, <1>3, <1>4, <1>5, NeverLost, NextCases DEF WorkerSteps

-----------------------------------------------------------------------------
(* The theorems                                                             *)

\* With a bid per connection the stronger invariant holds throughout.
THEOREM PrivateInvariance ==
  ASSUME ~SharedBids
  PROVE  Spec => []PInv
<1>1. Init => Private
  <2>. SUFFICES ASSUME Init
                PROVE  Private
    OBVIOUS
  <2>1. Held = {} /\ Cardinality({}) = 0 /\ BROWSER_PER_AGENT \in Nat
    BY FS_EmptySet, PoolAssumption DEF Init, Held
  <2>2. PermitsExact
    BY <2>1 DEF Init, PermitsExact
  <2>. QED
    BY <2>2 DEF Init, Private, OneConnPerBid, OwnTracked, TrackedInUse,
                OpenForUse, Answered, Active
<1>2. IInv /\ Private /\ [Next]_vars => Private'
  BY OwnedStep, PermitsExactStep DEF PInv, Private, Owned
<1>3. IInv /\ Private => PInv
  BY DEF PInv
<1>. QED
  BY <1>1, <1>2, <1>3, Invariance, PTL DEF Spec

\* At most BROWSER_PER_AGENT browsers are launching, in use or closing, the
\* promise get_browser_sem is there for.
THEOREM CapacityIsRespected ==
  ASSUME ~SharedBids
  PROVE  Spec => []CapacityRespected
<1>1. PInv => CapacityRespected
  <2>. SUFFICES ASSUME PInv
                PROVE  CapacityRespected
    OBVIOUS
  <2>1. IsFiniteSet(Held) /\ Cardinality(Held) \in Nat
    BY PoolAssumption, FS_Subset, FS_CardinalityType DEF Held
  <2>. QED
    BY <2>1, PInvTypes DEF PInv, Private, PermitsExact, CapacityRespected
<1>. QED
  BY <1>1, PrivateInvariance, PTL

\* The cleaner and is_idle see every browser that a client is proxied to.
THEOREM UsedBrowsersAreTracked ==
  ASSUME ~SharedBids
  PROVE  Spec => []UsedIsTracked
<1>1. PInv => UsedIsTracked
  BY DEF PInv, Private, OwnTracked, Active, UsedIsTracked
<1>. QED
  BY <1>1, PrivateInvariance, PTL

\* No handler waits for a future that nobody will resolve.
THEOREM NobodyHangs ==
  ASSUME ~SharedBids
  PROVE  Spec => []NoHungConnection
<1>1. PInv => NoHungConnection
  BY DEF PInv, Private, Answered, NoHungConnection
<1>. QED
  BY <1>1, PrivateInvariance, PTL

\* The pool implements the semaphore's abstract specification: a permit is
\* taken before a launch and returned once.
THEOREM PermitsAreUsedOnce ==
  ASSUME ~SharedBids
  PROVE  Spec => PermitsUsedOnce
<1>1. Init => Permits!Init
  BY DEF Init, Permits!Init
<1>2. PInv /\ [Next]_vars => [Permits!Next]_<<sem, permit>>
  BY PermitsStep
<1>. QED
  BY <1>1, <1>2, PrivateInvariance, PTL
     DEF Spec, PermitsUsedOnce, Permits!Spec

-----------------------------------------------------------------------------
(* No connection is dropped                                                 *)

\* No worker said 'Busy' and the dispatcher's "except Exception: pass" dropped
\* nobody.
Served == \A c \in Conns : task[c] \notin {"refused", "lost"}

LEMMA ServedStep ==
  ASSUME PInv, Served, [Next]_vars
  PROVE  Served'
<1>0. /\ TypeOK /\ Shape /\ OpenForUse /\ task \in [Conns -> TaskState]
  BY PInvTypes DEF Known, PInv, Private
<1>1. CASE Handles
  <2>1. PICK c \in Conns : \/ task' = [task EXCEPT ![c] = "dispatching"]
                           \/ task' = [task EXCEPT ![c] = "done"]
    BY <1>1, HandlesPrivate
  <2>. QED
    BY <1>0, <2>1 DEF Served
<1>2. CASE LaunchSucceeds
  BY <1>0, <1>2 DEF LaunchSucceeds, Served
<1>3. CASE ReplySent \/ BindAgent \/ SetSoftExit \/ IdleExit \/ Exit
           \/ UNCHANGED vars
  BY <1>3 DEF ReplySent, BindAgent, SetSoftExit, IdleExit, Exit, vars, connVars,
              Served
<1>4. ASSUME NEW c \in Conns, NEW b \in Bids, Arrive(c, b)
      PROVE  Served'
  BY <1>0, <1>4 DEF Arrive, Reject, Schedule, Served
<1>5. ASSUME NEW c \in Conns, WorkerSteps(c)
      PROVE  Served'
  <2>1. CASE StartWorker(c)
    <3>1. ~closed[browser[c]]
      BY <1>0, <2>1 DEF StartWorker, OpenForUse
    <3>. QED
      BY <1>0, <2>1, <3>1 DEF StartWorker, Served
  <2>2. CASE ClientGone(c) \/ EndProxy(c) \/ CloseSucceeds(c)
             \/ CloseRaises(c) \/ ReleaseBrowser(c)
    BY <1>0, <2>2 DEF ClientGone, EndProxy, CloseSucceeds, CloseRaises,
                      ReleaseBrowser, Served
  <2>. QED
    BY <1>5, <2>1, <2>2 DEF WorkerSteps
<1>. QED
  BY <1>0, <1>1, <1>2, <1>3, <1>4, <1>5, NeverLost, NextCases DEF WorkerSteps

\* A connection that the agent took in and that got a browser is proxied to it:
\* none meets a browser that closes, however its request waited or was retried,
\* and no release of a permit above the bound drops one.
THEOREM NobodyIsTurnedAway ==
  ASSUME ~SharedBids
  PROVE  Spec => []Served
<1>1. Init => Served
  BY DEF Init, Served
<1>. QED
  BY <1>1, ServedStep, PrivateInvariance, PTL DEF Spec
=============================================================================
