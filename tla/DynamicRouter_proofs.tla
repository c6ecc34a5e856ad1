------------------------ MODULE DynamicRouter_proofs ------------------------
(***************************************************************************)
(* Proofs about DynamicRouter, for every number of clients, browser ids,   *)
(* agents and slots.                                                       *)
(***************************************************************************)
EXTENDS DynamicRouter, TLAPS

\* An agent has a slot while it runs.
SlotKnown == \A a \in Agents : agent[a] = "down" <=> slot[a] = None

\* What a request knows at each of its suspension points.
RouteShape ==
  \A c \in Clients :
    /\ route[c] \notin {"new", "over"} => bid[c] \in Bids
    /\ route[c] \in {"info", "register", "answered", "connected"}
         => target[c] \in Slots
    /\ route[c] = "connected" => host[c] \in Agents /\ agent[host[c]] # "down"

\* Between the lookup of the entry and of the agent, the entry goes only by a
\* teardown.
LookedUpIsMapped ==
  \A c \in Clients \ orphaned : route[c] = "info" => map[bid[c]] = target[c]

IInv ==
  /\ TypeOK /\ SlotKnown /\ RouteShape /\ LookedUpIsMapped /\ ServedIsMapped

LEMMA InitHolds == Init => IInv
BY RouterAssumption
DEF Init, IInv, TypeOK, Routing, SlotKnown, RouteShape, LookedUpIsMapped,
    ServedIsMapped

-----------------------------------------------------------------------------
(* Types                                                                    *)

\* Forgetting the locals of some requests keeps the types of the locals.
LEMMA LeavesTypes ==
  ASSUME TypeOK, NEW C, NEW point \in {"leaving", "over"}, Leaves(C, point)
  PROVE  /\ route' \in [Clients -> Routing \cup
                       {"new", "answered", "connected", "leaving", "over"}]
         /\ tries' \in [Clients -> 0 .. ROUTE_TRIES]
         /\ target' \in [Clients -> Slots \cup {None}]
         /\ host' \in [Clients -> Agents \cup {None}]
BY RouterAssumption DEF TypeOK, Leaves

LEMMA OverTypes ==
  ASSUME TypeOK, NEW c \in Clients, Over(c)
  PROVE  /\ orphaned' \subseteq Clients
         /\ route' \in [Clients -> Routing \cup
                       {"new", "answered", "connected", "leaving", "over"}]
         /\ tries' \in [Clients -> 0 .. ROUTE_TRIES]
         /\ target' \in [Clients -> Slots \cup {None}]
         /\ host' \in [Clients -> Agents \cup {None}]
<1>1. Leaves({c}, "over") /\ orphaned' \subseteq orphaned
  BY DEF Over
<1> QED
  BY <1>1, LeavesTypes DEF TypeOK

LEMMA RequestTypes ==
  ASSUME TypeOK, NEW c \in Clients, NEW b \in Bids, Request(c, b)
  PROVE  TypeOK'
BY RouterAssumption
DEF TypeOK, Routing, Request, Goto, tableVars, mapVars, agentVars

LEMMA RouterTypes ==
  ASSUME TypeOK, RouteShape, NEW c \in Clients, GetAgentForUser(c)
  PROVE  TypeOK'
<1> USE DEF Fail, Goto, Answer, tableVars, mapVars, agentVars
<1>1. CASE LookupMap(c)
  BY <1>1, OverTypes DEF LookupMap, TypeOK, Routing, RouteShape
<1>2. CASE GetInfo(c)
  BY <1>2, OverTypes, RouterAssumption
  DEF GetInfo, TypeOK, Routing, RouteShape
<1>3. CASE SelectAgent(c)
  BY <1>3, OverTypes DEF SelectAgent, Selected, Alive, TypeOK, Routing
<1>4. CASE AddAgent(c)
  BY <1>4 DEF AddAgent, TypeOK, Routing
<1>5. CASE Wake(c)
  BY <1>5, OverTypes, RouterAssumption DEF Wake, TypeOK, Routing
<1>6. CASE Register(c)
  BY <1>6, OverTypes, RouterAssumption
  DEF Register, TypeOK, Routing, RouteShape
<1> QED
  BY <1>1, <1>2, <1>3, <1>4, <1>5, <1>6 DEF GetAgentForUser

LEMMA ConnectionTypes ==
  ASSUME TypeOK, RouteShape, NEW c \in Clients, Connection(c)
  PROVE  TypeOK'
<1> USE DEF tableVars, mapVars, agentVars
<1>1. CASE Connect(c)
  BY <1>1 DEF Connect, Goto, TypeOK
<1>2. CASE ConnectFails(c)
  BY <1>2, OverTypes DEF ConnectFails, TypeOK
<1>3. CASE Leave(c)
  <2>1. PICK point \in {"leaving", "over"} : Leaves({c}, point)
    BY <1>3 DEF Leave
  <2> QED
    BY <1>3, <2>1, LeavesTypes DEF Leave, TypeOK
<1>4. CASE Release(c)
  BY <1>4 DEF Release, Goto, TypeOK
<1> QED
  BY <1>1, <1>2, <1>3, <1>4 DEF Connection

LEMMA AgentTypes ==
  ASSUME TypeOK, NEW a \in Agents,
         AgentStep(a) \/ \E s \in Slots : Bind(a, s)
  PROVE  TypeOK'
<1> USE DEF tableVars, mapVars, agentVars, clientVars
<1>1. ASSUME Ends(a)
      PROVE  /\ agent' \in [Agents -> {"down", "serving", "draining", "removing"}]
             /\ slot' \in [Agents -> Slots \cup {None}]
             /\ bid' = bid
             /\ \E C : Leaves(C, "over")
  BY <1>1 DEF Ends, TypeOK
<1>2. ASSUME MayLinger(a)
      PROVE  late' \subseteq Lingering
  BY <1>2 DEF MayLinger, TypeOK
<1>3. CASE SoftExit(a)
  BY <1>3 DEF SoftExit, TypeOK
<1>4. CASE UnmapAgent(a)
  <2>1. map' \in [Bids -> Slots \cup {None}] /\ orphaned' \subseteq Clients
    BY <1>4 DEF UnmapAgent, Unmap, RoutedElsewhere, TypeOK
  <2>2. CASE Ends(a)
    BY <1>1, <1>2, <1>4, <2>1, <2>2, LeavesTypes DEF UnmapAgent, TypeOK
  <2>3. CASE ~Ends(a)
    BY <1>2, <1>4, <2>1, <2>3 DEF UnmapAgent, TypeOK
  <2> QED
    BY <2>2, <2>3
<1>5. CASE RemoveAgent(a)
  <2>1. /\ row' \in [Slots -> {"unborn", "present", "deleted"}]
        /\ address' \in [Slots -> Agents \cup {None}]
    BY <1>5 DEF RemoveAgent, TypeOK
  <2> QED
    BY <1>1, <1>5, <2>1, LeavesTypes DEF RemoveAgent, TypeOK
<1>6. CASE Crash(a)
  BY <1>1, <1>2, <1>6, LeavesTypes DEF Crash, TypeOK
<1>7. ASSUME NEW s \in Slots, Bind(a, s)
      PROVE  TypeOK'
  BY <1>7 DEF Bind, TypeOK
<1> QED
  BY <1>3, <1>4, <1>5, <1>6, <1>7 DEF AgentStep

LEMMA LateTypes ==
  ASSUME TypeOK, NEW s \in Slots, UnmapLate(s)
  PROVE  TypeOK'
BY DEF TypeOK, UnmapLate, Unmap, RoutedElsewhere, tableVars, agentVars, clientVars

-----------------------------------------------------------------------------
(* Steps of requests and connections: the agents stay as they are           *)

Invs == SlotKnown /\ RouteShape /\ LookedUpIsMapped /\ ServedIsMapped

LEMMA RequestStep ==
  ASSUME IInv, NEW c \in Clients, NEW b \in Bids, Request(c, b)
  PROVE  Invs'
BY DEF IInv, Invs, TypeOK, SlotKnown, RouteShape, LookedUpIsMapped,
       ServedIsMapped, Request, Goto, mapVars, agentVars

\* A request that is over leaves nothing to show, if the rest stays.
LEMMA FailStep ==
  ASSUME IInv, NEW c \in Clients, NEW point \in {"leaving", "over"},
         point = "leaving" => bid[c] \in Bids,
         Leaves({c}, point), orphaned' = orphaned \ {c},
         UNCHANGED <<map, bid, agent, slot>>
  PROVE  Invs'
<1>1. SlotKnown'
  BY DEF IInv, SlotKnown
<1>2. \A d \in Clients :
        IF d = c THEN route'[d] = point
                 ELSE UNCHANGED <<route[d], target[d], host[d]>>
  BY DEF IInv, TypeOK, Leaves
<1>3. RouteShape'
  BY <1>2 DEF IInv, TypeOK, RouteShape
<1>4. LookedUpIsMapped'
  BY <1>2 DEF IInv, LookedUpIsMapped
<1>5. ServedIsMapped'
  BY <1>2 DEF IInv, ServedIsMapped
<1> QED
  BY <1>1, <1>3, <1>4, <1>5 DEF Invs

LEMMA LookupStep ==
  ASSUME IInv, NEW c \in Clients, LookupMap(c)
  PROVE  Invs'
<1>1. CASE Fail(c)
  BY <1>1, FailStep DEF LookupMap, Fail, Over, agentVars
<1>2. CASE ~Fail(c)
  BY <1>2, RouterAssumption
  DEF IInv, Invs, TypeOK, SlotKnown, RouteShape, LookedUpIsMapped,
      ServedIsMapped, LookupMap, Goto, agentVars
<1> QED
  BY <1>1, <1>2

LEMMA InfoStep ==
  ASSUME IInv, NEW c \in Clients, GetInfo(c)
  PROVE  Invs'
<1>1. CASE Fail(c)
  BY <1>1, FailStep DEF GetInfo, Fail, Over, agentVars
<1>2. CASE ~Fail(c)
  BY <1>2, RouterAssumption
  DEF IInv, Invs, TypeOK, SlotKnown, RouteShape, LookedUpIsMapped,
      ServedIsMapped, GetInfo, Answer, Goto, agentVars
<1> QED
  BY <1>1, <1>2

LEMMA SelectStep ==
  ASSUME IInv, NEW c \in Clients, SelectAgent(c)
  PROVE  Invs'
<1>1. CASE Fail(c)
  BY <1>1, FailStep DEF SelectAgent, Fail, Over, agentVars
<1>2. CASE ~Fail(c)
  BY <1>2 DEF IInv, Invs, TypeOK, SlotKnown, RouteShape, LookedUpIsMapped,
              ServedIsMapped, SelectAgent, Selected, Alive, Goto, agentVars
<1> QED
  BY <1>1, <1>2

LEMMA AddStep ==
  ASSUME IInv, NEW c \in Clients, AddAgent(c)
  PROVE  Invs'
BY DEF IInv, Invs, TypeOK, SlotKnown, RouteShape, LookedUpIsMapped,
       ServedIsMapped, AddAgent, Goto, mapVars, agentVars

LEMMA WakeStep ==
  ASSUME IInv, NEW c \in Clients, Wake(c)
  PROVE  Invs'
<1>1. CASE Fail(c)
  BY <1>1, FailStep DEF Wake, Fail, Over, agentVars
<1>2. CASE ~Fail(c)
  BY <1>2 DEF IInv, Invs, TypeOK, SlotKnown, RouteShape, LookedUpIsMapped,
              ServedIsMapped, Wake, Goto, agentVars
<1> QED
  BY <1>1, <1>2

\* An entry is added where there was none, so that no client that has one is
\* concerned.
LEMMA RegisterStep ==
  ASSUME IInv, NEW c \in Clients, Register(c)
  PROVE  Invs'
<1>1. CASE UNCHANGED map /\ Over(c)
  BY <1>1, FailStep DEF Register, Over, agentVars
<1>2. CASE /\ map[bid[c]] = None
           /\ map' = [map EXCEPT ![bid[c]] = target[c]]
  <2>1. bid[c] \in Bids /\ target[c] \in Slots /\ None \notin Slots
    BY RouterAssumption DEF IInv, RouteShape, Register
  <2>2. UNCHANGED <<bid, agent, slot>>
    BY DEF Register, agentVars
  <2>3. \A d \in Clients :
          IF d = c THEN \/ route'[d] = "over"
                        \/ route'[d] = "answered" /\ UNCHANGED target[d]
                   ELSE UNCHANGED <<route[d], target[d], host[d]>>
    BY DEF Register, Over, Leaves, Answer, Goto, IInv, TypeOK
  <2>4. orphaned' \in {orphaned, orphaned \ {c}}
        /\ (orphaned' # orphaned => route'[c] = "over")
    BY DEF Register, Over, Leaves, IInv, TypeOK
  <2>5. SlotKnown'
    BY <2>2 DEF IInv, SlotKnown
  <2>6. RouteShape'
    BY <2>1, <2>2, <2>3 DEF IInv, RouteShape, Register
  <2>7. LookedUpIsMapped'
    BY <1>2, <2>1, <2>2, <2>3, <2>4
    DEF IInv, TypeOK, LookedUpIsMapped, RouteShape
  <2>8. ServedIsMapped'
    BY <1>2, <2>1, <2>2, <2>3, <2>4
    DEF IInv, TypeOK, ServedIsMapped, RouteShape
  <2> QED
    BY <2>5, <2>6, <2>7, <2>8 DEF Invs
<1> QED
  BY <1>1, <1>2 DEF Register

LEMMA ConnectStep ==
  ASSUME IInv, NEW c \in Clients, Connect(c)
  PROVE  Invs'
BY DEF IInv, Invs, TypeOK, SlotKnown, RouteShape, LookedUpIsMapped,
       ServedIsMapped, Connect, Goto, mapVars, agentVars

\* The close of a browser deletes no entry, as its authorisation fails.
LEMMA DisconnectStep ==
  ASSUME IInv, NEW c \in Clients, ConnectFails(c) \/ Leave(c) \/ Release(c)
  PROVE  Invs'
<1>1. CASE ConnectFails(c)
  BY <1>1, FailStep DEF ConnectFails, Over, agentVars
<1>2. CASE Leave(c)
  BY <1>2, FailStep DEF Leave, agentVars, IInv, RouteShape
<1>3. CASE Release(c)
  <2>1. ~UserAuthorised(Argument(User))
    BY DEF UserAuthorised, Argument, Integer
  <2> QED
    BY <1>3, <2>1
    DEF IInv, Invs, TypeOK, SlotKnown, RouteShape, LookedUpIsMapped,
        ServedIsMapped, Release, Goto, agentVars
<1> QED
  BY <1>1, <1>2, <1>3

-----------------------------------------------------------------------------
(* Steps of the agents                                                      *)

\* An entry goes, and with it the claim of the clients that it routed, or the
\* agent that serves them is x, which tears down.
UnmappedBy(x) ==
  \A c \in Clients \ orphaned' :
    \/ bid[c] \notin Bids
    \/ map'[bid[c]] = map[bid[c]]
    \/ /\ target[c] = map[bid[c]]
       /\ route[c] \in {"info", "answered", "connected"}
            => route[c] = "connected" /\ host[c] = x
    \/ target[c] # map[bid[c]]

LEMMA UnmapOrphans ==
  ASSUME IInv, NEW s, NEW x, Unmap(s, x)
  PROVE  UnmappedBy(x) /\ orphaned \subseteq orphaned'
BY DEF Unmap, UnmappedBy, RoutedElsewhere, IInv, TypeOK

\* A process that ends takes its connections with it; the entries that go may
\* be those of the slot that it had while it tore down.
LEMMA EndsStep ==
  ASSUME IInv, NEW a \in Agents, Ends(a), UnmappedBy(a),
         orphaned \subseteq orphaned'
  PROVE  Invs'
<1> USE DEF IInv
<1>1. SlotKnown'
  BY RouterAssumption DEF Ends, SlotKnown, TypeOK
<1>2. \A c \in Clients :
        IF route[c] = "connected" /\ host[c] = a
          THEN route'[c] = "over"
          ELSE UNCHANGED <<route[c], target[c], host[c]>>
  BY DEF Ends, Leaves, TypeOK
<1>3. /\ UNCHANGED bid
      /\ \A x \in Agents : x # a => agent'[x] = agent[x]
  BY DEF Ends, TypeOK
<1>4. RouteShape'
  BY <1>2, <1>3 DEF RouteShape
<1>5. LookedUpIsMapped'
  BY <1>2, <1>3 DEF LookedUpIsMapped, RouteShape, UnmappedBy
<1>6. ServedIsMapped'
  BY <1>2, <1>3 DEF ServedIsMapped, RouteShape, UnmappedBy
<1> QED
  BY <1>1, <1>4, <1>5, <1>6 DEF Invs

LEMMA AgentStepKeeps ==
  ASSUME IInv, NEW a \in Agents, AgentStep(a)
  PROVE  Invs'
<1> USE DEF IInv
<1>1. ASSUME UNCHANGED <<map, orphaned>>
      PROVE  UnmappedBy(a) /\ orphaned \subseteq orphaned'
  BY <1>1 DEF UnmappedBy
<1>2. CASE SoftExit(a)
  BY <1>2 DEF Invs, TypeOK, SlotKnown, RouteShape, LookedUpIsMapped,
              ServedIsMapped, SoftExit, mapVars, clientVars
<1>3. CASE UnmapAgent(a)
  <2>1. UnmappedBy(a) /\ orphaned \subseteq orphaned'
    BY <1>1, <1>3, UnmapOrphans DEF UnmapAgent
  <2>2. CASE Ends(a)
    BY <2>1, <2>2, EndsStep
  <2>3. CASE ~Ends(a)
    <3>1. /\ UNCHANGED <<slot, bid, route, target, host>>
          /\ agent' = [agent EXCEPT ![a] = "removing"]
          /\ agent[a] = "draining"
      BY <1>3, <2>3 DEF UnmapAgent, clientVars
    <3>2. SlotKnown'
      BY <3>1 DEF SlotKnown, TypeOK
    <3>3. RouteShape'
      BY <3>1 DEF RouteShape, TypeOK
    <3>4. LookedUpIsMapped'
      BY <2>1, <3>1 DEF LookedUpIsMapped, RouteShape, UnmappedBy
    <3>5. ServedIsMapped'
      BY <2>1, <3>1 DEF ServedIsMapped, RouteShape, UnmappedBy, TypeOK
    <3> QED
      BY <3>2, <3>3, <3>4, <3>5 DEF Invs
  <2> QED
    BY <2>2, <2>3
<1>4. CASE RemoveAgent(a)
  BY <1>1, <1>4, EndsStep DEF RemoveAgent, mapVars
<1>5. CASE Crash(a)
  BY <1>1, <1>5, EndsStep DEF Crash
<1> QED
  BY <1>2, <1>3, <1>4, <1>5 DEF AgentStep

LEMMA LateStep ==
  ASSUME IInv, NEW s \in Slots, UnmapLate(s)
  PROVE  Invs'
<1> USE DEF IInv
<1>1. UnmappedBy(None) /\ orphaned \subseteq orphaned'
  BY UnmapOrphans DEF UnmapLate
<1>2. UNCHANGED <<agent, slot, bid, route, target, host>>
  BY DEF UnmapLate, agentVars, clientVars
<1>3. SlotKnown' /\ RouteShape'
  BY <1>2 DEF SlotKnown, RouteShape
<1>4. LookedUpIsMapped'
  BY <1>1, <1>2 DEF LookedUpIsMapped, RouteShape, UnmappedBy
<1>5. ServedIsMapped'
  BY <1>1, <1>2, RouterAssumption
  DEF ServedIsMapped, RouteShape, UnmappedBy
<1> QED
  BY <1>3, <1>4, <1>5 DEF Invs

\* A bind changes no entry, and no client is connected to a process that is down.
LEMMA BindStep ==
  ASSUME IInv, NEW a \in Agents, NEW s \in Slots, Bind(a, s)
  PROVE  Invs'
<1> USE DEF IInv, agentVars, mapVars, clientVars
<1>1. SlotKnown'
  BY RouterAssumption DEF Bind, SlotKnown, TypeOK
<1>2. RouteShape'
  BY DEF Bind, RouteShape, TypeOK
<1>3. LookedUpIsMapped'
  BY DEF Bind, LookedUpIsMapped
<1>4. ServedIsMapped'
  BY DEF Bind, ServedIsMapped, RouteShape, TypeOK
<1> QED
  BY <1>1, <1>2, <1>3, <1>4 DEF Invs

-----------------------------------------------------------------------------
LEMMA StepHolds == IInv /\ [Next]_vars => IInv'
<1> SUFFICES ASSUME IInv, [Next]_vars PROVE IInv'
  OBVIOUS
<1>1. CASE UNCHANGED vars
  BY <1>1
  DEF IInv, TypeOK, SlotKnown, RouteShape, LookedUpIsMapped, ServedIsMapped,
      vars, tableVars, mapVars, agentVars, clientVars
<1>2. ASSUME NEW c \in Clients, NEW b \in Bids, Request(c, b)
      PROVE  IInv'
  BY <1>2, RequestTypes, RequestStep DEF IInv, Invs
<1>3. ASSUME NEW c \in Clients, GetAgentForUser(c)
      PROVE  IInv'
  <2>1. TypeOK'
    BY <1>3, RouterTypes DEF IInv
  <2>2. Invs'
    BY <1>3, LookupStep, InfoStep, SelectStep, AddStep, WakeStep, RegisterStep
    DEF GetAgentForUser
  <2> QED
    BY <2>1, <2>2 DEF IInv, Invs
<1>4. ASSUME NEW c \in Clients, Connection(c)
      PROVE  IInv'
  <2>1. TypeOK'
    BY <1>4, ConnectionTypes DEF IInv
  <2>2. Invs'
    BY <1>4, ConnectStep, DisconnectStep DEF Connection
  <2> QED
    BY <2>1, <2>2 DEF IInv, Invs
<1>5. ASSUME NEW a \in Agents, AgentStep(a)
      PROVE  IInv'
  BY <1>5, AgentTypes, AgentStepKeeps DEF IInv, Invs
<1>6. ASSUME NEW a \in Agents, NEW s \in Slots, Bind(a, s)
      PROVE  IInv'
  BY <1>6, AgentTypes, BindStep DEF IInv, Invs
<1>7. ASSUME NEW s \in Slots, UnmapLate(s)
      PROVE  IInv'
  BY <1>7, LateTypes, LateStep DEF IInv, Invs
<1> QED
  BY <1>1, <1>2, <1>3, <1>4, <1>5, <1>6, <1>7 DEF Next

\* The inductive invariant holds in every reachable state.
THEOREM Invariance == Spec => []IInv
BY InitHolds, StepHolds, PTL DEF Spec

\* The tables, the agents and the requests stay in their types, and the loop of
\* get_agent_for_user in its range.
THEOREM TypeCorrect == Spec => []TypeOK
<1>1. IInv => TypeOK
  BY DEF IInv
<1> QED
  BY <1>1, Invariance, PTL

\* The entry of browser_agent_map stays as long as the agent serves whose clients
\* it routes, unless another process deletes it that had the same slot id.
THEOREM EntryStays == Spec => []ServedIsMapped
<1>1. IInv => ServedIsMapped
  BY DEF IInv
<1> QED
  BY <1>1, Invariance, PTL

\* A browser id has one agent: the entry that routes its clients is one, and the
\* slot that it names has one address.
THEOREM BidHasOneAgent == Spec => []OneAgentPerBid
<1>1. IInv => OneAgentPerBid
  BY DEF IInv, OneAgentPerBid, ServedIsMapped, Served
<1> QED
  BY <1>1, Invariance, PTL

-----------------------------------------------------------------------------
(* What a step may do to a request and to an entry                          *)

\* The suspension points that a request can still come to in an iteration.
Points(c) ==
  CASE route[c] = "lookup" -> 4
    [] route[c] = "select" -> 3
    [] route[c] = "adding" -> 2
    [] route[c] \in {"info", "register", "waiting"} -> 1
    [] OTHER -> 0

Left(c) == 4 * (ROUTE_TRIES - tries[c]) + Points(c)

\* Forgetting requests touches no others.
LEMMA LeavesKeepsOthers ==
  ASSUME TypeOK, NEW C, NEW point, Leaves(C, point), NEW c \in Clients
  PROVE  IF c \in C THEN route'[c] = point
                    ELSE UNCHANGED <<route[c], tries[c]>>
BY DEF TypeOK, Leaves

\* The request of c moves on, or nobody touches it.
Advances(c) ==
  \/ UNCHANGED <<route[c], tries[c]>>
  \/ route'[c] \notin Routing
  \/ tries'[c] >= tries[c] /\ Left(c)' < Left(c)

LEMMA RouterAdvances ==
  ASSUME TypeOK, NEW c \in Clients, route[c] \in Routing,
         NEW d \in Clients, GetAgentForUser(d)
  PROVE  Advances(c)
<1> USE DEF Goto, Answer
<1>1. tries[c] \in 0 .. ROUTE_TRIES /\ ROUTE_TRIES \in Nat
  BY RouterAssumption DEF TypeOK
<1>2. ASSUME Over(d) PROVE Advances(c)
  BY <1>2, LeavesKeepsOthers DEF Over, Advances, Routing
<1>3. CASE d # c
  BY <1>2, <1>3
  DEF GetAgentForUser, LookupMap, GetInfo, SelectAgent, AddAgent, Wake,
      Register, Fail, Advances, TypeOK
<1>4. CASE d = c /\ ~Over(d)
  <2>1. CASE LookupMap(c)
    BY <1>1, <1>4, <2>1
    DEF LookupMap, Fail, Advances, TypeOK, Left, Points
  <2>2. CASE GetInfo(c)
    BY <1>4, <2>2 DEF GetInfo, Fail, Advances, TypeOK, Routing
  <2>3. CASE SelectAgent(c)
    BY <1>1, <1>4, <2>3
    DEF SelectAgent, Fail, Advances, TypeOK, Left, Points
  <2>4. CASE AddAgent(c)
    BY <1>1, <2>4 DEF AddAgent, Advances, TypeOK, Left, Points
  <2>5. CASE Wake(c)
    BY <1>1, <1>4, <2>5 DEF Wake, Fail, Advances, TypeOK, Left, Points
  <2>6. CASE Register(c)
    BY <1>4, <2>6 DEF Register, Advances, TypeOK, Routing
  <2> QED
    BY <1>4, <2>1, <2>2, <2>3, <2>4, <2>5, <2>6 DEF GetAgentForUser
<1> QED
  BY <1>2, <1>3, <1>4

LEMMA StepAdvances ==
  ASSUME IInv, [Next]_vars, NEW c \in Clients, route[c] \in Routing
  PROVE  Advances(c)
<1> USE DEF IInv
<1>1. ASSUME NEW C, NEW point \in {"leaving", "over"}, Leaves(C, point)
      PROVE  Advances(c)
  BY <1>1, LeavesKeepsOthers DEF Advances, Routing
<1>2. CASE UNCHANGED clientVars
  BY <1>2 DEF clientVars, Advances
<1>3. ASSUME NEW d \in Clients, NEW b \in Bids, Request(d, b)
      PROVE  Advances(c)
  BY <1>3 DEF Request, Goto, Advances, TypeOK, Routing
<1>4. ASSUME NEW d \in Clients, Connection(d) PROVE Advances(c)
  BY <1>1, <1>4
  DEF Connection, Connect, ConnectFails, Leave, Release, Over, Goto, Advances,
      TypeOK, Routing
<1>5. ASSUME NEW a \in Agents, AgentStep(a) PROVE Advances(c)
  BY <1>1, <1>2, <1>5
  DEF AgentStep, SoftExit, UnmapAgent, RemoveAgent, Crash, Ends
<1>6. CASE \/ \E a \in Agents, s \in Slots : Bind(a, s)
           \/ \E s \in Slots : UnmapLate(s)
           \/ UNCHANGED vars
  BY <1>2, <1>6 DEF Bind, UnmapLate, vars
<1> QED
  BY <1>3, <1>4, <1>5, <1>6, RouterAdvances DEF Next

\* Nobody but kong starts a request, in its first iteration.
LEMMA RoutingStarts ==
  ASSUME IInv, [Next]_vars, NEW c \in Clients,
         route[c] \notin Routing, route'[c] \in Routing
  PROVE  tries'[c] = 1
<1> USE DEF IInv
<1>1. ASSUME NEW C, NEW point \in {"leaving", "over"}, Leaves(C, point)
      PROVE  FALSE
  BY <1>1, LeavesKeepsOthers DEF Routing
<1>2. CASE UNCHANGED route
  BY <1>2
<1>3. ASSUME NEW d \in Clients, NEW b \in Bids, Request(d, b)
      PROVE  tries'[c] = 1
  BY <1>3 DEF Request, Goto, TypeOK
<1>4. ASSUME NEW d \in Clients, GetAgentForUser(d) PROVE FALSE
  <2>1. ~Over(d)
    BY <1>1 DEF Over
  <2>2. d # c /\ route'[c] = route[c]
    BY <1>4, <2>1
    DEF GetAgentForUser, LookupMap, GetInfo, SelectAgent, AddAgent, Wake,
        Register, Fail, Answer, Goto, TypeOK, Routing
  <2> QED
    BY <2>2
<1>5. ASSUME NEW d \in Clients, Connection(d) PROVE FALSE
  BY <1>1, <1>5
  DEF Connection, Connect, ConnectFails, Leave, Release, Over, Goto, TypeOK,
      Routing
<1>6. ASSUME NEW a \in Agents, AgentStep(a) PROVE FALSE
  BY <1>1, <1>6
  DEF AgentStep, SoftExit, UnmapAgent, RemoveAgent, Crash, Ends,
      clientVars
<1>7. CASE \/ \E a \in Agents, s \in Slots : Bind(a, s)
           \/ \E s \in Slots : UnmapLate(s)
           \/ UNCHANGED vars
  BY <1>2, <1>7 DEF Bind, UnmapLate, vars, clientVars
<1> QED
  BY <1>3, <1>4, <1>5, <1>6, <1>7 DEF Next

\* A request that is being routed is in its first iteration or a later one.
RequestsCount == \A c \in Clients : route[c] \in Routing => tries[c] >= 1

LEMMA RequestsCounted == Spec => []RequestsCount
<1>1. Init => RequestsCount
  BY DEF Init, RequestsCount, Routing
<1>2. IInv /\ RequestsCount /\ [Next]_vars => RequestsCount'
  <2> SUFFICES ASSUME IInv, RequestsCount, [Next]_vars,
                      NEW c \in Clients, route'[c] \in Routing
               PROVE  tries'[c] >= 1
    BY DEF RequestsCount
  <2>1. CASE route[c] \in Routing
    <3>1. tries[c] \in Nat /\ tries[c] >= 1 /\ tries'[c] \in Nat
      BY <2>1, StepHolds, RouterAssumption DEF IInv, TypeOK, RequestsCount
    <3> QED
      BY <2>1, <3>1, StepAdvances DEF Advances
  <2>2. CASE route[c] \notin Routing
    BY <2>2, RoutingStarts
  <2> QED
    BY <2>1, <2>2
<1> QED
  BY <1>1, <1>2, Invariance, PTL DEF Spec

\* The loop of get_agent_for_user is bounded (the safety part of RoutingEnds): at
\* no time are there more than 4 * ROUTE_TRIES of its suspension points left, and
\* no step of anybody, be it the request's own, another client's or an agent's,
\* lets it go back.
THEOREM RoutingIsBounded ==
  Spec => /\ [](\A c \in Clients :
                  route[c] \in Routing => Left(c) \in 1 .. 4 * ROUTE_TRIES)
          /\ [][\A c \in Clients : route[c] \in Routing => Advances(c)]_vars
<1> DEFINE Bounded(c) ==
             route[c] \in Routing => Left(c) \in 1 .. 4 * ROUTE_TRIES
<1>1. IInv /\ RequestsCount => \A c \in Clients : Bounded(c)
  BY RouterAssumption DEF IInv, TypeOK, RequestsCount, Left, Points, Routing
<1>2. IInv /\ [Next]_vars =>
        [\A c \in Clients : route[c] \in Routing => Advances(c)]_vars
  BY StepAdvances
<1> QED
  BY <1>1, <1>2, Invariance, RequestsCounted, PTL DEF Spec

\* An entry of browser_agent_map is never replaced, and goes only while a process
\* that has its slot id tears down, or by the request of one that did: not when a
\* browser closes, as the request to delete it is then refused (UserAuthorised),
\* not when a process crashes, and not when the slot is given to another agent.
THEOREM EntriesGoByTeardown ==
  Spec => [][\A b \in Bids :
               map[b] # None =>
                 \/ map'[b] = map[b]
                 \/ /\ map'[b] = None
                    /\ \/ map[b] \in late
                       \/ \E a \in Agents :
                            agent[a] = "draining" /\ slot[a] = map[b]]_vars
<1> DEFINE Stays(b) ==
             \/ map'[b] = map[b]
             \/ /\ map'[b] = None
                /\ \/ map[b] \in late
                   \/ \E a \in Agents :
                        agent[a] = "draining" /\ slot[a] = map[b]
<1>1. ASSUME IInv, Next, NEW b \in Bids, map[b] # None PROVE Stays(b)
  <2>1. CASE UNCHANGED map
    BY <2>1
  <2>2. ASSUME NEW c \in Clients, GetAgentForUser(c) PROVE Stays(b)
    BY <1>1, <2>2
    DEF GetAgentForUser, LookupMap, GetInfo, SelectAgent, AddAgent, Wake,
        Register, Fail, mapVars, IInv, TypeOK
  <2>3. ASSUME NEW a \in Agents, AgentStep(a) PROVE Stays(b)
    BY <1>1, <2>3
    DEF AgentStep, SoftExit, UnmapAgent, RemoveAgent, Crash, Unmap, mapVars
  <2>4. ASSUME NEW c \in Clients, Connection(c) PROVE Stays(b)
    BY <2>4
    DEF Connection, Connect, ConnectFails, Leave, Release, UserAuthorised,
        Argument, Integer, mapVars
  <2>5. ASSUME NEW s \in Slots, UnmapLate(s) PROVE Stays(b)
    BY <1>1, <2>5 DEF UnmapLate, Unmap
  <2> QED
    BY <1>1, <2>1, <2>2, <2>3, <2>4, <2>5 DEF Next, Request, Bind, mapVars
<1>2. IInv /\ [Next]_vars => [\A b \in Bids : map[b] # None => Stays(b)]_vars
  BY <1>1
<1> QED
  BY <1>2, Invariance, PTL DEF Spec
=============================================================================
