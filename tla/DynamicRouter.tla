---------------------------- MODULE DynamicRouter ----------------------------
(***************************************************************************)
(* How the connections of one user find the agent that runs their browser: *)
(* kong asks the api server (dynamic_router.py), which reads and writes    *)
(* browser_agent_map and the agent table (storage/mysql.py) one statement  *)
(* at a time; agents bind, tear down and crash meanwhile, and delete map   *)
(* entries when a browser closes and when they stop.                       *)
(*                                                                         *)
(* An agent process is known by its advertise address, and the process     *)
(* that is forked after it has the same one.  Its connections stand for    *)
(* its browser pool: see BrowserPool.  A slot whose record has not been    *)
(* acknowledged in time is given away though its holder may still serve:   *)
(* see AgentSlot.  Several processes can then have one slot id, and each   *)
(* deletes the entries of that id when it tears down.                      *)
(***************************************************************************)
EXTENDS Naturals, FiniteSets

CONSTANTS
  Clients,         \* requests for a connection; each arrives once
  Bids,            \* browser ids they may name
  Agents,          \* advertise addresses
  Slots,           \* ids of the agent table
  Steady,          \* the slots whose record has is_steady = 1
  None,
  User,            \* id of the user, an integer of the user table
  ROUTE_TRIES,     \* range(2) in get_agent_for_user
  DatabaseFails,   \* may statements fail?
  Lingering        \* bound: slots whose unmapping may outlive its sender

ASSUME RouterAssumption ==
  /\ None \notin Agents \cup Slots \cup Bids
  /\ Steady \subseteq Slots
  /\ User \in Nat
  /\ ROUTE_TRIES \in Nat \ {0}
  /\ DatabaseFails \in BOOLEAN
  /\ Lingering \subseteq Slots

VARIABLES
  row,      \* the record of each slot
  address,  \* its advertise_address
  map,      \* browser_agent_map, for the user
  late,     \* slots whose entries a process has asked to delete, and left
  orphaned, \* history: clients whose entry another process has deleted
  agent,    \* where each agent process is
  slot,     \* ASV.agent_id of each agent process
  bid,      \* what each client asks for
  route,    \* where each client's request or connection is
  tries,    \* iteration of the loop in get_agent_for_user
  target,   \* id of the agent that was looked up or selected
  host      \* the address kong is told

tableVars == <<row, address>>
mapVars == <<map, late, orphaned>>
agentVars == <<agent, slot>>
clientVars == <<bid, route, tries, target, host>>
vars == <<tableVars, mapVars, agentVars, clientVars>>

(* "lookup", "info", "select", "adding", "waiting" and "register" are the   *)
(* suspension points of get_agent_for_user.                                 *)
Routing == {"lookup", "info", "select", "adding", "waiting", "register"}

TypeOK ==
  /\ row \in [Slots -> {"unborn", "present", "deleted"}]
  /\ address \in [Slots -> Agents \cup {None}]
  /\ map \in [Bids -> Slots \cup {None}]
  /\ late \subseteq Lingering
  /\ orphaned \subseteq Clients
  /\ agent \in [Agents -> {"down", "serving", "draining", "removing"}]
  /\ slot \in [Agents -> Slots \cup {None}]
  /\ bid \in [Clients -> Bids \cup {None}]
  /\ route \in [Clients -> Routing \cup
                     {"new", "answered", "connected", "leaving", "over"}]
  /\ tries \in [Clients -> 0 .. ROUTE_TRIES]
  /\ target \in [Clients -> Slots \cup {None}]
  /\ host \in [Clients -> Agents \cup {None}]

Init ==
  /\ row \in [Slots -> {"unborn", "present"}]
  /\ address = [s \in Slots |-> None]
  /\ map = [b \in Bids |-> None]
  /\ late = {}
  /\ orphaned = {}
  /\ agent = [a \in Agents |-> "down"]
  /\ slot = [a \in Agents |-> None]
  /\ bid = [c \in Clients |-> None]
  /\ route = [c \in Clients |-> "new"]
  /\ tries = [c \in Clients |-> 0]
  /\ target = [c \in Clients |-> None]
  /\ host = [c \in Clients |-> None]

-----------------------------------------------------------------------------
(* get_agent_for_user                                                       *)

Goto(c, point) == route' = [route EXCEPT ![c] = point]

\* The requests or connections of C come to point, and forget their locals.
Leaves(C, point) ==
  /\ route' = [c \in Clients |-> IF c \in C THEN point ELSE route[c]]
  /\ tries' = [c \in Clients |-> IF c \in C THEN 0 ELSE tries[c]]
  /\ target' = [c \in Clients |-> IF c \in C THEN None ELSE target[c]]
  /\ host' = [c \in Clients |-> IF c \in C THEN None ELSE host[c]]

Over(c) == Leaves({c}, "over") /\ orphaned' = orphaned \ {c}

Fail(c) == Over(c) /\ UNCHANGED <<map, row>>

\* kong asks for the agent of bid b.
Request(c, b) ==
  /\ route[c] = "new"
  /\ bid' = [bid EXCEPT ![c] = b]
  /\ tries' = [tries EXCEPT ![c] = 1]
  /\ Goto(c, "lookup")
  /\ UNCHANGED <<tableVars, mapVars, agentVars, target, host>>

\* get_agent_id_by_browser_id
LookupMap(c) ==
  /\ route[c] = "lookup"
  /\ \/ DatabaseFails /\ Fail(c)
     \/ /\ map[bid[c]] # None
        /\ target' = [target EXCEPT ![c] = map[bid[c]]]
        /\ Goto(c, "info")
        /\ UNCHANGED <<map, orphaned, row, tries, host>>
     \/ /\ map[bid[c]] = None
        /\ Goto(c, "select")
        /\ UNCHANGED <<map, orphaned, row, tries, target, host>>
  /\ UNCHANGED <<address, late, agentVars, bid>>

\* get_agent_for_user returns an agent.
Answer(c) == Goto(c, "answered") /\ tries' = [tries EXCEPT ![c] = 0]

\* get_agent_info of the mapped agent, alive or not.
GetInfo(c) ==
  /\ route[c] = "info"
  /\ \/ /\ row[target[c]] # "present" \/ DatabaseFails
        /\ Fail(c)
     \/ /\ row[target[c]] = "present"
        /\ host' = [host EXCEPT ![c] = address[target[c]]]
        /\ Answer(c)
        /\ UNCHANGED <<map, orphaned, row, target>>
  /\ UNCHANGED <<address, late, agentVars, bid>>

\* get_alive_agent_for_user, of the records that were bound, without those whose
\* last_ack_time is too old and those at busy_level 99 and above.
Alive(out) == {s \in Slots : row[s] = "present" /\ address[s] # None} \ out

\* Steady agents are preferred.
Selected(out) ==
  IF Alive(out) \cap Steady # {} THEN Alive(out) \cap Steady ELSE Alive(out)

SelectAgent(c) ==
  /\ route[c] = "select"
  /\ \/ DatabaseFails /\ Fail(c)
     \/ \E out \in SUBSET Slots :
          \/ \E s \in Selected(out) :
               /\ target' = [target EXCEPT ![c] = s]
               /\ host' = [host EXCEPT ![c] = address[s]]
               /\ Goto(c, "register")
               /\ UNCHANGED <<map, orphaned, row, tries>>
          \/ /\ Selected(out) = {}
             /\ Goto(c, "adding")
             /\ UNCHANGED <<map, orphaned, row, tries, target, host>>
  /\ UNCHANGED <<address, late, agentVars, bid>>

\* add_agent for a steady agent and, if that failed, for a dynamic one.  Both may
\* be refused by the limit rules, and one that failed may have taken effect.
AddAgent(c) ==
  /\ route[c] = "adding"
  /\ \/ UNCHANGED row
     \/ \E s, t \in {x \in Slots : row[x] = "unborn"} :
          row' = [row EXCEPT ![s] = "present", ![t] = "present"]
  /\ Goto(c, "waiting")
  /\ UNCHANGED <<address, mapVars, agentVars, bid, tries, target, host>>

WakeWrong1(c) ==
  /\ route[c] = "waiting"
  /\ \/ /\ tries[c] <= ROUTE_TRIES
        /\ tries' = [tries EXCEPT ![c] = @ + 1]
        /\ Goto(c, "lookup")
        /\ UNCHANGED <<map, orphaned, row, target, host>>
     \/ tries[c] > ROUTE_TRIES /\ Fail(c)
  /\ UNCHANGED <<address, late, agentVars, bid>>

WakeWrong2(c) ==
  /\ route[c] = "waiting"
  /\ Goto(c, "lookup")
  /\ UNCHANGED <<tableVars, mapVars, agentVars, bid, tries, target, host>>

\* The sleep is over: the next iteration, if there is one.
Wake(c) ==
  /\ route[c] = "waiting"
  /\ \/ /\ tries[c] < ROUTE_TRIES
        /\ tries' = [tries EXCEPT ![c] = @ + 1]
        /\ Goto(c, "lookup")
        /\ UNCHANGED <<map, orphaned, row, target, host>>
     \/ tries[c] = ROUTE_TRIES /\ Fail(c)
  /\ UNCHANGED <<address, late, agentVars, bid>>

RegisterWrong(c) ==
  /\ route[c] = "register"
  /\ map' = [map EXCEPT ![bid[c]] = target[c]]
  /\ Answer(c)
  /\ UNCHANGED <<tableVars, late, orphaned, agentVars, bid, target, host>>

\* add_browser_agent_map: the unique key lets one insert win.  A statement
\* that fails may have taken effect.
Register(c) ==
  LET b == bid[c]
      entered == [map EXCEPT ![b] = target[c]] IN
  /\ route[c] = "register"
  /\ \/ /\ map[b] # None \/ DatabaseFails
        /\ Over(c)
        /\ UNCHANGED map
     \/ /\ map[b] = None
        /\ map' = entered
        /\ \/ Answer(c) /\ UNCHANGED <<orphaned, target, host>>
           \/ DatabaseFails /\ Over(c)
  /\ UNCHANGED <<tableVars, late, agentVars, bid>>

-----------------------------------------------------------------------------
(* The connection, after kong's set_target                                  *)

\* The agent takes the connection: also for a browser that is being closed, as
\* add_client does until closed is set.
Connect(c) ==
  /\ route[c] = "answered"
  /\ host[c] # None /\ agent[host[c]] = "serving"
  /\ Goto(c, "connected")
  /\ UNCHANGED <<tableVars, mapVars, agentVars, bid, tries, target, host>>

\* The agent is gone, exits, or is busy; or the client does not wait.
ConnectFails(c) ==
  /\ route[c] = "answered"
  /\ Over(c)
  /\ UNCHANGED <<tableVars, map, late, agentVars, bid>>

On(a, b) ==
  {c \in Clients : route[c] = "connected" /\ host[c] = a /\ bid[c] = b}

\* The last client's worker closes the browser.
Leave(c) ==
  /\ route[c] = "connected"
  /\ orphaned' = orphaned \ {c}
  /\ Leaves({c}, IF On(host[c], bid[c]) = {c} THEN "leaving" ELSE "over")
  /\ UNCHANGED <<tableVars, map, late, agentVars, bid>>

\* The query argument user_id is a string, the user's id an integer.
Argument(id) == <<"str", id>>
Integer(id) == <<"int", id>>

UserAuthorisedWrong(argument) == argument[2] = User

\* check_user_id_auth_by_req compares the two as they are.
UserAuthorised(argument) == Integer(User) = argument

\* remove_client goes on to delete_browser_agent_map(user_id, bid), which may
\* be refused or fail, or reach the server when the agent has ended.
Release(c) ==
  /\ route[c] = "leaving"
  /\ Goto(c, "over")
  /\ \/ UserAuthorised(Argument(User)) /\ map' = [map EXCEPT ![bid[c]] = None]
     \/ ~UserAuthorised(Argument(User)) /\ UNCHANGED map
     \/ DatabaseFails /\ UNCHANGED map
  /\ UNCHANGED <<tableVars, late, orphaned, agentVars, bid, tries, target, host>>

-----------------------------------------------------------------------------
(* Agent processes and their records                                        *)

\* bind_to_free_slot, of a slot of either is_steady, looks only at the time of
\* the record, and heartbeats may fail to come in time whatever its holder does.
\* The process at the address a gets the slot, or the bind is that of an earlier
\* one and nobody does.
Bind(a, s) ==
  /\ row[s] = "present"
  /\ address' = [address EXCEPT ![s] = a]
  /\ \/ /\ agent[a] = "down"
        /\ agent' = [agent EXCEPT ![a] = "serving"]
        /\ slot' = [slot EXCEPT ![a] = s]
     \/ UNCHANGED agentVars
  /\ UNCHANGED <<row, mapVars, clientVars>>

SoftExit(a) ==
  /\ agent[a] = "serving"
  /\ agent' = [agent EXCEPT ![a] = "draining"]
  /\ UNCHANGED <<tableVars, mapVars, slot, clientVars>>

\* The process ends, with its connections; run_agent.py forks the next one.
Ends(a) ==
  /\ agent' = [agent EXCEPT ![a] = "down"]
  /\ slot' = [slot EXCEPT ![a] = None]
  /\ Leaves({c \in Clients : route[c] = "connected" /\ host[c] = a}, "over")
  /\ UNCHANGED bid

\* The clients that were or will be routed by an entry of slot s, but those that
\* sit at agent a.
RoutedElsewhere(s, a) ==
  {c \in Clients : /\ target[c] = s
                   /\ route[c] \in {"info", "answered", "connected"}
                   /\ route[c] = "connected" => host[c] # a}

\* delete from browser_agent_map where agent_id = s, as agent a asked for.
Unmap(s, a) ==
  /\ map' = [b \in Bids |-> IF map[b] = s THEN None ELSE map[b]]
  /\ orphaned' = orphaned \cup RoutedElsewhere(s, a)

\* A request of agent a may be under way when the agent has given it up.
MayLinger(a) == late' \in {late, late \cup ({slot[a]} \cap Lingering)}

\* teardown_process: delete_browser_agent_map(agent_id).  An exception, with
\* or without effect at the server, ends agent_main.
UnmapAgent(a) ==
  /\ agent[a] = "draining"
  /\ Unmap(slot[a], a) \/ UNCHANGED <<map, orphaned>>
  /\ MayLinger(a)
  /\ \/ /\ agent' = [agent EXCEPT ![a] = "removing"]
        /\ UNCHANGED <<slot, clientVars>>
     \/ Ends(a)
  /\ UNCHANGED tableVars

\* The handler of such a request comes to its statement; there may be another.
UnmapLate(s) ==
  /\ s \in late
  /\ Unmap(s, None)
  /\ late' \in {late, late \ {s}}
  /\ UNCHANGED <<tableVars, agentVars, clientVars>>

\* teardown_process: remove_agent, which may fail.
RemoveAgent(a) ==
  /\ agent[a] = "removing"
  /\ \/ UNCHANGED tableVars
     \/ /\ row' = [row EXCEPT ![slot[a]] = "deleted"]
        /\ address' = [address EXCEPT ![slot[a]] = None]
  /\ Ends(a)
  /\ UNCHANGED mapVars

Crash(a) ==
  /\ agent[a] \in {"serving", "draining", "removing"}
  /\ IF agent[a] = "draining" THEN MayLinger(a) ELSE UNCHANGED late
  /\ Ends(a)
  /\ UNCHANGED <<tableVars, map, orphaned>>

-----------------------------------------------------------------------------
GetAgentForUser(c) ==
  \/ LookupMap(c) \/ GetInfo(c) \/ SelectAgent(c)
  \/ AddAgent(c) \/ Wake(c) \/ Register(c)

Connection(c) == Connect(c) \/ ConnectFails(c) \/ Leave(c) \/ Release(c)

AgentStep(a) ==
  \/ SoftExit(a) \/ UnmapAgent(a) \/ RemoveAgent(a) \/ Crash(a)

Next ==
  \/ \E c \in Clients : \/ \E b \in Bids : Request(c, b)
                        \/ GetAgentForUser(c) \/ Connection(c)
  \/ \E a \in Agents : AgentStep(a) \/ \E s \in Slots : Bind(a, s)
  \/ \E s \in Slots : UnmapLate(s)

Spec == Init /\ [][Next]_vars

\* The api server's event loop resumes a request whose statement or sleep is
\* over.
LiveSpec == Spec /\ \A c \in Clients : WF_vars(GetAgentForUser(c))

-----------------------------------------------------------------------------
(* Properties                                                               *)

\* The client was sent to an agent that holds the slot it was sent for and has
\* not begun to tear down.
Served(c) ==
  /\ route[c] \in {"answered", "connected"} /\ host[c] # None
  /\ agent[host[c]] \in {"serving", "draining"} /\ slot[host[c]] = target[c]

\* Two clients that name one browser are sent to one agent, or for one slot that
\* was taken from one of their two agents: the entry that the unique key let win,
\* the route kong was told and the connection agree, whoever asked first and
\* whatever closed, stopped, crashed, was bound again or came back in between.
\* Not so the clients whose entry a process deleted that had the same slot id
\* and was not the one that serves them: the next client goes elsewhere then.
OneAgentPerBid ==
  \A c, d \in Clients \ orphaned :
    Served(c) /\ Served(d) /\ bid[c] = bid[d] =>
      \/ host[c] = host[d]
      \/ /\ target[c] = target[d]
         /\ \E x \in {c, d} : address[target[x]] # host[x]

\* From the answer to the end of the connection, or until its agent tears down,
\* browser_agent_map names the slot for the bid of the client: the next client of
\* that bid finds the browser.  Only another process with the same slot id takes
\* that away, one that lost the slot, has ended or had it before; neither a
\* browser that closes, nor a crash, nor a bind, nor another client does.
ServedIsMapped ==
  \A c \in Clients \ orphaned :
    \/ route[c] = "answered"
    \/ route[c] = "connected" /\ agent[host[c]] \in {"serving", "draining"}
    => map[bid[c]] = target[c]

\* get_agent_for_user gives an answer, also when no agent ever comes up.
RoutingEnds ==
  \A c \in Clients : (route[c] \in Routing) ~> (route[c] \notin Routing)
=============================================================================
