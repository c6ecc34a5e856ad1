------------------------------ MODULE AgentSlot ------------------------------
(***************************************************************************)
(* The lease by which browser agents hold the slots of the agent table:    *)
(* binding (bind_self_to_agent_slot), the heartbeat (do_heart_beat), the   *)
(* teardown (teardown_process), the handlers of the api server behind them *)
(* (api_server/api/v1/agent.py) and their SQL (storage/mysql.py).          *)
(*                                                                         *)
(* Requests and replies get lost, and the handler of a bind or of a         *)
(* heartbeat may outlive the client that gave up on it or died.  SQL        *)
(* statements and the transaction of a bind are atomic, as InnoDB's row     *)
(* locks make them.                                                        *)
(***************************************************************************)
EXTENDS Integers, FiniteSets

CONSTANTS
  Agents,        \* agent processes, with one advertise address each
  Slots,         \* ids of the agent table
  None,
  THRESHOLD,     \* AGENT_NO_ACTIVATE_THRESHOLD
  TRIES,         \* range(3) in do_heart_beat
  MaxTime,       \* bound on the clock
  MaxRequests,   \* bound on an agent's heartbeats at the api server
  MaxLateBinds,  \* bound on the binds there that nobody waits for
  DatabaseFails  \* may statements of the api server fail?

ASSUME SlotAssumption ==
  /\ None \notin Agents \cup Slots
  /\ THRESHOLD \in Nat
  /\ TRIES \in Nat \ {0}
  /\ MaxTime \in Nat /\ MaxTime > THRESHOLD
  /\ MaxRequests \in Nat \ {0}
  /\ MaxLateBinds \in Nat
  /\ DatabaseFails \in BOOLEAN

VARIABLES
  now,            \* the api server's clock
  row,            \* is the record of a slot in the table?
  ack,            \* column last_ack_time
  address,        \* column advertise_address
  pc,             \* where each agent process is
  slot,           \* ASV.agent_id
  last_ack_time,  \* ASV.last_ack_time
  try,            \* iteration of the loop in do_heart_beat, 0 outside of it
  bind_sent,      \* when the request to bind it waits for was sent, or 0
  late_binds,     \* binds whose sender died before the handler was over
  heartbeats,     \* heartbeats sent and not over yet
  removals,       \* requests of remove_agent on their way to the table
  granted         \* history: when each slot was bound last

tableVars == <<row, ack, address, granted>>
agentVars == <<pc, slot, last_ack_time, try, bind_sent>>
requestVars == <<late_binds, heartbeats, removals>>
vars == <<now, tableVars, agentVars, requestVars>>

Start == THRESHOLD + 1   \* the clock starts where a slot acked at 0 is free

Pending == -1   \* the handler has not answered yet
Refused == -2   \* the answer was not code 200

\* A heartbeat carries what the agent sent; "waiting" while the agent has not
\* given up on it.
Heartbeat == [agent : Agents, slot : Slots, old : 0 .. MaxTime, sent : 0 .. MaxTime,
              waiting : BOOLEAN, result : {Pending, Refused} \cup 0 .. MaxTime]

TypeOK ==
  /\ now \in Start .. MaxTime
  /\ row \in [Slots -> {"unborn", "present", "deleted"}]
  /\ ack \in [Slots -> 0 .. MaxTime]
  /\ address \in [Slots -> Agents \cup {None}]
  /\ pc \in [Agents -> {"binding", "requested", "answered", "running",
                        "stopping", "removing", "down"}]
  /\ slot \in [Agents -> Slots \cup {None}]
  /\ last_ack_time \in [Agents -> 0 .. MaxTime]
  /\ try \in [Agents -> 0 .. TRIES]
  /\ bind_sent \in [Agents -> 0 .. MaxTime]
  /\ late_binds \subseteq [agent : Agents, sent : 0 .. MaxTime]
  /\ heartbeats \subseteq Heartbeat
  /\ removals \subseteq [agent : Agents, slot : Slots]
  /\ granted \in [Slots -> 0 .. MaxTime]

Init ==
  /\ now = Start
  /\ row \in [Slots -> {"unborn", "present"}]
  /\ ack = [s \in Slots |-> 0]
  /\ address = [s \in Slots |-> None]
  /\ pc = [a \in Agents |-> "binding"]
  /\ slot = [a \in Agents |-> None]
  /\ last_ack_time = [a \in Agents |-> 0]
  /\ try = [a \in Agents |-> 0]
  /\ bind_sent = [a \in Agents |-> 0]
  /\ late_binds = {}
  /\ heartbeats = {}
  /\ removals = {}
  /\ granted = [s \in Slots |-> 0]

-----------------------------------------------------------------------------
Tick ==
  /\ now < MaxTime
  /\ now' = now + 1
  /\ UNCHANGED <<tableVars, agentVars, requestVars>>

\* add_agent inserts a record that nobody ever acked.
AddAgent(s) ==
  /\ row[s] = "unborn"
  /\ row' = [row EXCEPT ![s] = "present"]
  /\ UNCHANGED <<now, ack, address, granted, agentVars, requestVars>>

-----------------------------------------------------------------------------
(* Binding                                                                  *)

\* A round of the loop in bind_self_to_agent_slot.
SendBind(a) ==
  /\ pc[a] = "binding"
  /\ pc' = [pc EXCEPT ![a] = "requested"]
  /\ bind_sent' = [bind_sent EXCEPT ![a] = now]
  /\ UNCHANGED <<now, tableVars, slot, last_ack_time, try, requestVars>>

FreeWrong(s, t) == row[s] = "present" /\ ack[s] + THRESHOLD <= t

\* The WHERE clause, for a handler that looked at the clock at t.
Free(s, t) == row[s] = "present" /\ ack[s] + THRESHOLD < t

\* ORDER BY last_ack_time LIMIT 1 FOR UPDATE, and the UPDATE that follows, in a
\* handler that took the time t.
Take(s, a, t) ==
  /\ Free(s, t)
  /\ \A s2 \in Slots : Free(s2, t) => ack[s] <= ack[s2]
  /\ ack' = [ack EXCEPT ![s] = t]
  /\ address' = [address EXCEPT ![s] = a]
  /\ granted' = [granted EXCEPT ![s] = t]
  /\ UNCHANGED <<now, row>>

\* The handler took the time since the request was sent.
BindSlot(a, s, t) ==
  /\ pc[a] = "requested"
  /\ t \in bind_sent[a] .. now
  /\ Take(s, a, t)
  /\ pc' = [pc EXCEPT ![a] = "answered"]
  /\ slot' = [slot EXCEPT ![a] = s]
  /\ last_ack_time' = [last_ack_time EXCEPT ![a] = t]
  /\ bind_sent' = [bind_sent EXCEPT ![a] = 0]
  /\ UNCHANGED <<try, requestVars>>

\* The same for a process that died; the next one at its address, if there is
\* one, knows nothing of it.
BindSlotLate(m, s, t) ==
  /\ t \in m.sent .. now
  /\ Take(s, m.agent, t)
  /\ late_binds' = late_binds \ {m}
  /\ UNCHANGED <<agentVars, heartbeats, removals>>

\* It found no slot, failed, or never arrived.
BindNothingLate(m) ==
  /\ late_binds' = late_binds \ {m}
  /\ UNCHANGED <<now, tableVars, agentVars, heartbeats, removals>>

\* No free slot, or the database failed: data is None, and the agent sleeps.
BindNothing(a) ==
  /\ pc[a] = "requested"
  /\ \/ DatabaseFails
     \/ \E t \in bind_sent[a] .. now : \A s \in Slots : ~Free(s, t)
  /\ pc' = [pc EXCEPT ![a] = "binding"]
  /\ bind_sent' = [bind_sent EXCEPT ![a] = 0]
  /\ UNCHANGED <<now, tableVars, slot, last_ack_time, try, requestVars>>

\* The reply arrives: the background tasks start.
BindReply(a) ==
  /\ pc[a] = "answered"
  /\ pc' = [pc EXCEPT ![a] = "running"]
  /\ UNCHANGED <<now, tableVars, slot, last_ack_time, try, bind_sent, requestVars>>

-----------------------------------------------------------------------------
(* The heartbeat                                                            *)

Of(a) == {r \in heartbeats : r.agent = a}

\* The request the agent is waiting for is not its own any more.
Abandon(a) ==
  {r \in heartbeats : r.agent # a \/ (~r.waiting)}
    \cup {[r EXCEPT !.waiting = FALSE] :
            r \in {x \in Of(a) : x.waiting /\ x.result = Pending}}

Request(a) == [agent |-> a, slot |-> slot[a], old |-> last_ack_time[a],
               sent |-> now, waiting |-> TRUE, result |-> Pending]

\* The interval of the background task is over.
StartHeartbeat(a) ==
  /\ pc[a] = "running" /\ try[a] = 0
  /\ Cardinality(Of(a)) < MaxRequests
  /\ try' = [try EXCEPT ![a] = 1]
  /\ heartbeats' = heartbeats \cup {Request(a)}
  /\ UNCHANGED <<now, tableVars, pc, slot, last_ack_time, bind_sent, late_binds,
                 removals>>

MatchesWrong(r) == row[r.slot] = "present"

\* The WHERE clause of the UPDATE: last_ack_time is what the agent sent.
Matches(r) == row[r.slot] = "present" /\ ack[r.slot] = r.old

\* The handler is over; the reply to an agent that gave up is dropped.
Answered(r, result) ==
  heartbeats' = (heartbeats \ {r})
                  \cup (IF r.waiting THEN {[r EXCEPT !.result = result]} ELSE {})

\* agent_heartbeat: the handler took the time new since the request was sent,
\* some milliseconds after the one the agent got in the reply before.  An error
\* after the UPDATE took effect answers 0.
Update(r, new) ==
  /\ r.result = Pending
  /\ new \in r.sent .. now /\ new > r.old
  /\ Matches(r)
  /\ ack' = [ack EXCEPT ![r.slot] = new]
  /\ \/ Answered(r, new)
     \/ DatabaseFails /\ Answered(r, 0)
  /\ UNCHANGED <<now, row, address, granted, agentVars, late_binds, removals>>

\* No row matches, or the database failed before the UPDATE: the answer is 0.
\* If the authorisation found no such agent, it is an error.
NoUpdate(r) ==
  /\ r.result = Pending
  /\ \/ (~Matches(r) \/ DatabaseFails) /\ Answered(r, 0)
     \/ (row[r.slot] # "present" \/ DatabaseFails) /\ Answered(r, Refused)
  /\ UNCHANGED <<now, tableVars, agentVars, late_binds, removals>>

\* do_heart_beat gets a new_ack_time.
HeartbeatAcked(r) ==
  /\ r.waiting /\ r.result > 0
  /\ heartbeats' = heartbeats \ {r}
  /\ last_ack_time' = [last_ack_time EXCEPT ![r.agent] = r.result]
  /\ try' = [try EXCEPT ![r.agent] = 0]
  /\ UNCHANGED <<now, tableVars, pc, slot, bind_sent, late_binds, removals>>

\* set_soft_exit, which an agent that tears down already does not notice.
SetSoftExit(a) ==
  pc' = [pc EXCEPT ![a] = IF @ = "running" THEN "stopping" ELSE @]

HeartbeatDeniedWrong(r) ==
  /\ r.waiting /\ r.result = 0
  /\ heartbeats' = heartbeats \ {r}
  /\ try' = [try EXCEPT ![r.agent] = 0]
  /\ UNCHANGED <<now, tableVars, pc, slot, last_ack_time, bind_sent, late_binds,
                 removals>>

\* do_heart_beat gets 0: set_soft_exit.
HeartbeatDenied(r) ==
  /\ r.waiting /\ r.result = 0
  /\ heartbeats' = heartbeats \ {r}
  /\ SetSoftExit(r.agent)
  /\ try' = [try EXCEPT ![r.agent] = 0]
  /\ UNCHANGED <<now, tableVars, slot, last_ack_time, bind_sent, late_binds,
                 removals>>

LastTryWrong(a) == try[a] > TRIES

LastTry(a) == try[a] = TRIES

\* The answer was an error, or the connection broke (at any time: the request,
\* the handler or the reply goes on without the agent).  After the last try the
\* agent stops.
HeartbeatFails(r) ==
  LET a == r.agent IN
  /\ r.waiting
  /\ IF LastTry(a)
     THEN /\ try' = [try EXCEPT ![a] = 0]
          /\ heartbeats' = Abandon(a)
          /\ SetSoftExit(a)
     ELSE /\ try' = [try EXCEPT ![a] = @ + 1]
          /\ heartbeats' = Abandon(a) \cup {Request(a)}
          /\ UNCHANGED pc
  /\ UNCHANGED <<now, tableVars, slot, last_ack_time, bind_sent, late_binds,
                 removals>>

-----------------------------------------------------------------------------
(* The end of a process                                                     *)

\* A signal or the idle check sets soft_exit.  A round of heartbeats that is
\* under way goes on while the process tears down.
SoftExit(a) ==
  /\ pc[a] = "running"
  /\ SetSoftExit(a)
  /\ UNCHANGED <<now, tableVars, slot, last_ack_time, try, bind_sent, requestVars>>

\* teardown_process sends remove_agent for ASV.agent_id.
SendRemove(a) ==
  /\ pc[a] = "stopping"
  /\ pc' = [pc EXCEPT ![a] = "removing"]
  /\ removals' = removals \cup {[agent |-> a, slot |-> slot[a]]}
  /\ UNCHANGED <<now, tableVars, slot, last_ack_time, try, bind_sent, late_binds,
                 heartbeats>>

\* remove_agent deletes the record by its id, whoever holds the slot.
Remove(m) ==
  /\ removals' = removals \ {m}
  /\ row' = [row EXCEPT ![m.slot] = "deleted"]
  /\ UNCHANGED <<now, ack, address, granted, agentVars, late_binds, heartbeats>>

\* The request was lost, or the change of the limit failed and rolled it back.
RemoveFails(m) ==
  /\ removals' = removals \ {m}
  /\ UNCHANGED <<now, tableVars, agentVars, late_binds, heartbeats>>

\* The bind the agent is waiting for goes on without it.
AbandonBind(a) ==
  IF pc[a] = "requested" /\ Cardinality(late_binds) < MaxLateBinds
  THEN late_binds \cup {[agent |-> a, sent |-> bind_sent[a]]}
  ELSE late_binds

\* The process ends: its teardown is over, its request to bind or the reply was
\* lost, or it is killed.
Die(a) ==
  /\ pc[a] # "down"
  /\ pc' = [pc EXCEPT ![a] = "down"]
  /\ slot' = [slot EXCEPT ![a] = None]
  /\ last_ack_time' = [last_ack_time EXCEPT ![a] = 0]
  /\ try' = [try EXCEPT ![a] = 0]
  /\ bind_sent' = [bind_sent EXCEPT ![a] = 0]
  /\ late_binds' = AbandonBind(a)
  /\ heartbeats' = Abandon(a)
  /\ UNCHANGED <<now, tableVars, removals>>

\* The loop of run_agent.py forks the next child.
Fork(a) ==
  /\ pc[a] = "down"
  /\ pc' = [pc EXCEPT ![a] = "binding"]
  /\ UNCHANGED <<now, tableVars, slot, last_ack_time, try, bind_sent, requestVars>>

-----------------------------------------------------------------------------
ApiServer(r) == NoUpdate(r) \/ \E new \in Start .. MaxTime : Update(r, new)

Answer(r) == HeartbeatAcked(r) \/ HeartbeatDenied(r) \/ HeartbeatFails(r)

Next ==
  \/ Tick
  \/ \E s \in Slots : AddAgent(s)
  \/ \E a \in Agents :
       \/ SendBind(a) \/ BindNothing(a) \/ BindReply(a)
       \/ \E s \in Slots, t \in Start .. MaxTime : BindSlot(a, s, t)
       \/ StartHeartbeat(a) \/ SoftExit(a)
       \/ SendRemove(a) \/ Die(a) \/ Fork(a)
  \/ \E m \in late_binds :
       \/ BindNothingLate(m)
       \/ \E s \in Slots, t \in Start .. MaxTime : BindSlotLate(m, s, t)
  \/ \E r \in heartbeats : ApiServer(r) \/ Answer(r)
  \/ \E m \in removals : Remove(m) \/ RemoveFails(m)

Spec == Init /\ [][Next]_vars

\* The interval task goes on, the api server answers what it receives of an
\* agent, and an agent that waits gets the answer or an error.
Fairness ==
  \A a \in Agents :
    /\ WF_vars(StartHeartbeat(a))
    /\ WF_vars(\E r \in Of(a) : ApiServer(r))
    /\ WF_vars(\E r \in Of(a) : Answer(r))

LiveSpec == Spec /\ Fairness
-----------------------------------------------------------------------------
(* Properties                                                               *)

\* An agent that got hold of a slot and has not seen to the end of it.
Bound(a) == pc[a] \in {"answered", "running", "stopping", "removing"}

\* The compare-and-set of the heartbeat fences out agents that lost their slot:
\* whoever's last_ack_time still is the one in the table, in its memory, in a
\* request or in a reply, is the agent the record's address points to.
Fencing ==
  /\ \A a \in Agents :
       Bound(a) /\ last_ack_time[a] = ack[slot[a]] => address[slot[a]] = a
  /\ \A r \in heartbeats :
       r.old = ack[r.slot] \/ r.result = ack[r.slot] => address[r.slot] = r.agent

\* The lease: as long as its last ack is not older than the threshold, no other
\* agent has taken an agent's slot, whatever was lost, late or done twice.
LeaseHonoured ==
  \A a \in Agents :
    Bound(a) /\ last_ack_time[a] + THRESHOLD >= now => address[slot[a]] = a

\* last_ack_time never goes back, though handlers that took the time earlier may
\* write it later: ORDER BY last_ack_time and the alive test rely on it.
AckNeverGoesBack == [][\A s \in Slots : ack'[s] >= ack[s]]_vars

\* The agent serves, and its slot was removed or bound again: by another, or by
\* a late handler in the name of a process that had the same address.
Stale(a) ==
  /\ pc[a] = "running"
  /\ row[slot[a]] # "present" \/ last_ack_time[a] < granted[slot[a]]

\* An agent whose slot was taken or removed does not go on serving.
StaleAgentStops == \A a \in Agents : Stale(a) ~> (pc[a] # "running")

\* background_tasks.py: "No record for this agent, the agent has been removed"
\* and "Exit because agent removed or took by another": that is what 0 means.
DeniedOnlyIfLost ==
  \A r \in heartbeats :
    r.waiting /\ r.result = 0
      => row[r.slot] # "present" \/ address[r.slot] # r.agent

\* An agent that stops, possibly because its slot was "took by another", removes
\* its own record and not that of the other.
OnlyOwnerRemoves ==
  [][\A m \in removals :
       m \notin removals' /\ row[m.slot] = "present" /\ row'[m.slot] = "deleted"
         => address[m.slot] = m.agent]_vars
-----------------------------------------------------------------------------
\* What an agent believes is in its ASV, from the bind to the end of the process.
Leases == INSTANCE Lease WITH
  holder <- address, since <- granted, renewed <- ack, heard <- last_ack_time,
  lessee <- [a \in Agents |-> IF Bound(a) THEN slot[a] ELSE None]

\* The agent table with its lossy requests, retries, late handlers, crashes and
\* forks is a lease: a slot is granted after the lease before is over, to an
\* agent that learns of it or to nobody who knows; only a holder's lease is
\* renewed; whoever lost a slot hears of no renewal of it any more.
ImplementsLease == Leases!Spec
=============================================================================
