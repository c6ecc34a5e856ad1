--------------------------- MODULE AgentSlot_proofs ---------------------------
(***************************************************************************)
(* Proofs about AgentSlot: the lease and the fencing of heartbeats hold for *)
(* any number of agents and slots, any threshold and any bound on the clock.*)
(*                                                                         *)
(* The argument: whatever value of last_ack_time an agent, a request or a   *)
(* reply carries is a claim on the slot that is never newer than the table. *)
(* A claim from after the last bind of the slot belongs to the agent that   *)
(* the table names; a claim from before it was over by then.                *)
(***************************************************************************)
EXTENDS AgentSlot, TLAPS

\* The agent a may have been told v for the slot s.
Claim(s, a, v) ==
  /\ 0 < v /\ v <= ack[s]
  /\ v >= granted[s] => address[s] = a
  /\ v < granted[s] => v + THRESHOLD < granted[s]

AgentClaims ==
  \A a \in Agents : Bound(a) => /\ slot[a] \in Slots
                                /\ Claim(slot[a], a, last_ack_time[a])

HeartbeatClaims ==
  \A r \in heartbeats :
    /\ Claim(r.slot, r.agent, r.old)
    /\ r.result > 0 => Claim(r.slot, r.agent, r.result)

\* A renewal that a reply tells of is one of the lease that was to be renewed.
SameLease ==
  \A r \in heartbeats :
    r.result > 0 =>
      /\ r.old < r.result
      /\ r.result >= granted[r.slot] => r.old >= granted[r.slot]

\* An agent waits for one heartbeat at a time, and sent what it still knows.
WaitingRuns ==
  \A r \in heartbeats :
    r.waiting => /\ pc[r.agent] \in {"running", "stopping", "removing"}
                 /\ slot[r.agent] = r.slot
                 /\ last_ack_time[r.agent] = r.old
                 /\ try[r.agent] # 0
                 /\ \A q \in heartbeats : q.waiting /\ q.agent = r.agent => q = r

Grants == \A s \in Slots : granted[s] <= ack[s] /\ granted[s] <= now

IInv ==
  /\ TypeOK /\ Grants
  /\ AgentClaims /\ HeartbeatClaims /\ SameLease /\ WaitingRuns
-----------------------------------------------------------------------------
(* Claims survive every step                                                *)

\* What a step may do to a record: renew it, or give it to somebody else after
\* its lease is over.
Later(s) ==
  /\ now' >= now
  /\ \/ /\ ack'[s] >= ack[s]
        /\ address'[s] = address[s] /\ granted'[s] = granted[s]
     \/ /\ ack[s] + THRESHOLD < granted'[s]
        /\ granted'[s] = ack'[s] /\ granted'[s] <= now'

\* A claim stays a claim when its record is renewed or given away.
LEMMA ClaimKept ==
  ASSUME NEW s \in Slots, NEW a, NEW v \in Int,
         TypeOK, TypeOK', Later(s), Claim(s, a, v)
  PROVE  /\ 0 < v /\ v <= ack'[s]
         /\ v >= granted'[s] => address'[s] = a
         /\ v < granted'[s] => v + THRESHOLD < granted'[s]
<1>1. THRESHOLD \in Nat
  BY SlotAssumption
<1>2. granted[s] \in Int /\ ack[s] \in Int
  BY <1>1, SlotAssumption DEF TypeOK, Start
<1>3. granted'[s] \in Int /\ ack'[s] \in Int
  BY <1>1, SlotAssumption DEF TypeOK, Start
<1>. QED
  BY <1>1, <1>2, <1>3 DEF Later, Claim

\* The agents' claims survive a step that gives no agent a new one.
LEMMA AgentClaimsKept ==
  ASSUME IInv, TypeOK', \A s \in Slots : Later(s),
         \A a \in Agents : Bound(a)' => /\ Bound(a)
                                        /\ slot'[a] = slot[a]
                                        /\ last_ack_time'[a] = last_ack_time[a]
  PROVE  AgentClaims'
<1>. SUFFICES ASSUME NEW a \in Agents, Bound(a)'
              PROVE  /\ slot'[a] \in Slots
                     /\ Claim(slot[a], a, last_ack_time[a])'
  BY DEF AgentClaims
<1>1. slot[a] \in Slots /\ Claim(slot[a], a, last_ack_time[a])
  BY DEF IInv, AgentClaims
<1>2. last_ack_time[a] \in Int
  BY DEF IInv, TypeOK
<1>. QED
  BY <1>1, <1>2, ClaimKept DEF IInv, Claim

\* The heartbeats' claims survive a step after which every heartbeat still
\* carries what one carried before, or nothing.
LEMMA HeartbeatClaimsKept ==
  ASSUME IInv, TypeOK', \A s \in Slots : Later(s),
         \A r \in heartbeats' : \E q \in heartbeats :
           /\ r.slot = q.slot /\ r.agent = q.agent /\ r.old = q.old
           /\ r.result = q.result \/ r.result <= 0
  PROVE  HeartbeatClaims'
<1>. SUFFICES ASSUME NEW r \in heartbeats'
              PROVE  /\ Claim(r.slot, r.agent, r.old)'
                     /\ (r.result > 0 => Claim(r.slot, r.agent, r.result))'
  BY DEF HeartbeatClaims
<1>1. PICK q \in heartbeats : /\ r.slot = q.slot /\ r.agent = q.agent
                              /\ r.old = q.old
                              /\ r.result = q.result \/ r.result <= 0
  OBVIOUS
<1>2. q.slot \in Slots /\ q.old \in Int /\ q.result \in Int /\ r.result \in Int
  BY SlotAssumption DEF IInv, TypeOK, Heartbeat, Pending, Refused
<1>3. Claim(q.slot, q.agent, q.old)
      /\ (q.result > 0 => Claim(q.slot, q.agent, q.result))
  BY DEF IInv, HeartbeatClaims
<1>4. Claim(r.slot, r.agent, r.old)'
  <2>1. /\ 0 < q.old /\ q.old <= ack'[q.slot]
        /\ q.old >= granted'[q.slot] => address'[q.slot] = q.agent
        /\ q.old < granted'[q.slot] => q.old + THRESHOLD < granted'[q.slot]
    BY <1>2, <1>3, ClaimKept DEF IInv
  <2>. QED
    BY <1>1, <2>1 DEF Claim
<1>5. ASSUME r.result > 0
      PROVE  Claim(r.slot, r.agent, r.result)'
  <2>1. r.result = q.result
    BY <1>1, <1>2, <1>5
  <2>2. /\ 0 < q.result /\ q.result <= ack'[q.slot]
        /\ q.result >= granted'[q.slot] => address'[q.slot] = q.agent
        /\ q.result < granted'[q.slot] => q.result + THRESHOLD < granted'[q.slot]
    BY <1>2, <1>3, <1>5, <2>1, ClaimKept DEF IInv
  <2>. QED
    BY <1>1, <2>1, <2>2 DEF Claim
<1>. QED
  BY <1>4, <1>5

-----------------------------------------------------------------------------
(* Types survive every step                                                 *)

\* A heartbeat that is written down is a heartbeat.
LEMMA RequestType ==
  ASSUME TypeOK, NEW a \in Agents, slot[a] \in Slots
  PROVE  Request(a) \in Heartbeat
BY SlotAssumption DEF TypeOK, Request, Heartbeat, Start

\* Giving up on requests leaves heartbeats behind.
LEMMA AbandonType ==
  ASSUME TypeOK, NEW a \in Agents
  PROVE  Abandon(a) \subseteq Heartbeat
<1>. SUFFICES ASSUME NEW x \in Of(a)
              PROVE  [x EXCEPT !.waiting = FALSE] \in Heartbeat
  BY DEF Abandon, TypeOK
<1>. QED
  BY DEF Of, TypeOK, Heartbeat

\* So does answering one.
LEMMA AnsweredType ==
  ASSUME TypeOK, NEW r \in heartbeats, NEW result \in {Pending, Refused} \cup 0 .. MaxTime,
         Answered(r, result)
  PROVE  heartbeats' \subseteq Heartbeat
<1>1. [r EXCEPT !.result = result] \in Heartbeat
  BY DEF TypeOK, Heartbeat
<1>. QED
  BY <1>1 DEF Answered, TypeOK

\* The type invariant is inductive together with the claims, which say that an
\* agent that heartbeats has a slot.
LEMMA TypeStep ==
  ASSUME IInv, [Next]_vars
  PROVE  TypeOK'
<1>. USE DEF IInv
<1>1. CASE Tick
  BY <1>1, SlotAssumption
  DEF Tick, TypeOK, Start, tableVars, agentVars, requestVars
<1>2. ASSUME NEW s \in Slots, AddAgent(s)
      PROVE  TypeOK'
  BY <1>2 DEF AddAgent, TypeOK, agentVars, requestVars
<1>3. ASSUME NEW a \in Agents, SendBind(a)
      PROVE  TypeOK'
  BY <1>3, SlotAssumption DEF SendBind, TypeOK, tableVars, requestVars, Start
<1>4. ASSUME NEW a \in Agents, BindNothing(a) \/ BindReply(a) \/ Fork(a)
      PROVE  TypeOK'
  BY <1>4, SlotAssumption
  DEF BindNothing, BindReply, Fork, TypeOK, tableVars, requestVars
<1>5. ASSUME NEW s \in Slots, NEW t \in Start .. MaxTime,
             \/ \E a \in Agents : BindSlot(a, s, t)
             \/ \E m \in late_binds : BindSlotLate(m, s, t)
      PROVE  TypeOK'
  <2>1. t \in 0 .. MaxTime /\ 0 \in 0 .. MaxTime
    BY SlotAssumption DEF Start
  <2>. QED
    BY <1>5, <2>1 DEF BindSlot, BindSlotLate, Take, TypeOK, agentVars, requestVars
<1>16. ASSUME NEW m \in late_binds, BindNothingLate(m)
       PROVE  TypeOK'
  BY <1>16 DEF BindNothingLate, TypeOK, tableVars, agentVars
<1>6. ASSUME NEW a \in Agents, StartHeartbeat(a)
      PROVE  TypeOK'
  <2>1. Request(a) \in Heartbeat
    BY <1>6, RequestType DEF StartHeartbeat, AgentClaims, Bound
  <2>. QED
    BY <1>6, <2>1, SlotAssumption DEF StartHeartbeat, TypeOK, tableVars
<1>7. ASSUME NEW a \in Agents, SoftExit(a) \/ Die(a)
      PROVE  TypeOK'
  <2>1. Abandon(a) \subseteq Heartbeat
    BY AbandonType
  <2>2. AbandonBind(a) \subseteq [agent : Agents, sent : 0 .. MaxTime]
    BY DEF AbandonBind, TypeOK
  <2>3. CASE SoftExit(a)
    BY <2>3 DEF SoftExit, SetSoftExit, TypeOK, tableVars, requestVars
  <2>4. CASE Die(a)
    BY <2>4, <2>1, <2>2, SlotAssumption DEF Die, TypeOK, tableVars
  <2>. QED
    BY <1>7, <2>3, <2>4
<1>8. ASSUME NEW a \in Agents, SendRemove(a)
      PROVE  TypeOK'
  <2>1. [agent |-> a, slot |-> slot[a]] \in [agent : Agents, slot : Slots]
    BY <1>8 DEF SendRemove, AgentClaims, Bound
  <2>. QED
    BY <1>8, <2>1 DEF SendRemove, TypeOK, tableVars
<1>9. ASSUME NEW r \in heartbeats, NEW new \in Start .. MaxTime, Update(r, new)
      PROVE  TypeOK'
  <2>1. new \in 0 .. MaxTime
    BY SlotAssumption DEF Start
  <2>2. heartbeats' \subseteq Heartbeat
    BY <1>9, <2>1, SlotAssumption, AnsweredType DEF Update
  <2>. QED
    BY <1>9, <2>1, <2>2 DEF Update, TypeOK, agentVars
<1>10. ASSUME NEW r \in heartbeats, NoUpdate(r)
       PROVE  TypeOK'
  <2>2. heartbeats' \subseteq Heartbeat
    BY <1>10, SlotAssumption, AnsweredType DEF NoUpdate
  <2>. QED
    BY <1>10, <2>2 DEF NoUpdate, TypeOK, agentVars, tableVars
<1>11. ASSUME NEW r \in heartbeats, HeartbeatAcked(r)
       PROVE  TypeOK'
  <2>1. r.agent \in Agents /\ r.result \in 0 .. MaxTime
    BY <1>11 DEF HeartbeatAcked, TypeOK, Heartbeat, Pending, Refused
  <2>. QED
    BY <1>11, <2>1, SlotAssumption DEF HeartbeatAcked, TypeOK, tableVars
<1>12. ASSUME NEW r \in heartbeats, HeartbeatDenied(r)
       PROVE  TypeOK'
  <2>1. r.agent \in Agents
    BY DEF TypeOK, Heartbeat
  <2>. QED
    BY <1>12, <2>1, SlotAssumption DEF HeartbeatDenied, SetSoftExit, TypeOK, tableVars
<1>13. ASSUME NEW r \in heartbeats, HeartbeatFails(r)
       PROVE  TypeOK'
  <2>1. r.agent \in Agents
    BY DEF TypeOK, Heartbeat
  <2>2. slot[r.agent] \in Slots
    BY <1>13, <2>1 DEF HeartbeatFails, WaitingRuns, AgentClaims, Bound
  <2>3. Abandon(r.agent) \subseteq Heartbeat /\ Request(r.agent) \in Heartbeat
    BY <2>1, <2>2, AbandonType, RequestType
  <2>4. heartbeats' \subseteq Heartbeat
    BY <1>13, <2>3 DEF HeartbeatFails
  <2>5. try' \in [Agents -> 0 .. TRIES] /\ pc' = [pc EXCEPT ![r.agent] = pc'[r.agent]]
        /\ pc'[r.agent] \in {pc[r.agent], "stopping"}
    BY <1>13, <2>1, SlotAssumption DEF HeartbeatFails, SetSoftExit, LastTry, TypeOK
  <2>. QED
    BY <1>13, <2>1, <2>4, <2>5 DEF HeartbeatFails, TypeOK, tableVars
<1>14. ASSUME NEW m \in removals, Remove(m) \/ RemoveFails(m)
       PROVE  TypeOK'
  BY <1>14 DEF Remove, RemoveFails, TypeOK, tableVars, agentVars
<1>15. CASE UNCHANGED vars
  BY <1>15 DEF vars, TypeOK, tableVars, agentVars, requestVars
<1>. QED
  BY <1>1, <1>2, <1>3, <1>4, <1>5, <1>6, <1>7, <1>8, <1>9, <1>10, <1>11, <1>12,
     <1>13, <1>14, <1>15, <1>16 DEF Next, ApiServer, Answer

-----------------------------------------------------------------------------
(* The claims are kept by every step                                        *)

\* No step takes a record back: it is renewed, or given away after its lease.
LEMMA LaterStep ==
  ASSUME IInv, TypeOK', [Next]_vars
  PROVE  \A s \in Slots : Later(s)
<1>. SUFFICES ASSUME NEW s \in Slots
              PROVE  Later(s)
  OBVIOUS
<1>1. /\ now \in Int /\ ack[s] \in Int
      /\ \A q \in Slots : ack[q] \in Int
      /\ Start \in Int /\ THRESHOLD \in Nat
  BY SlotAssumption DEF IInv, TypeOK, Start
<1>2. CASE Tick
  BY <1>1, <1>2 DEF Tick, Later, tableVars
<1>3. ASSUME NEW q \in Slots, NEW t \in Start .. MaxTime,
             \/ \E a \in Agents : BindSlot(a, q, t)
             \/ \E m \in late_binds : BindSlotLate(m, q, t)
      PROVE  Later(s)
  <2>1. /\ now' = now /\ ack[q] + THRESHOLD < t /\ t <= now
        /\ ack' = [ack EXCEPT ![q] = t] /\ granted' = [granted EXCEPT ![q] = t]
        /\ \E a : address' = [address EXCEPT ![q] = a]
    BY <1>1, <1>3, SlotAssumption
    DEF BindSlot, BindSlotLate, Take, Free, IInv, TypeOK
  <2>2. t \in Int
    BY <1>1, SlotAssumption
  <2>3. CASE s = q
    <3>1. ack'[s] = t /\ granted'[s] = t
      BY <2>1, <2>3 DEF IInv, TypeOK
    <3>. QED
      BY <1>1, <2>1, <2>2, <2>3, <3>1 DEF Later
  <2>4. CASE s # q
    BY <1>1, <2>1, <2>4 DEF Later, IInv, TypeOK
  <2>. QED
    BY <2>3, <2>4
<1>4. ASSUME NEW r \in heartbeats, NEW new \in Start .. MaxTime, Update(r, new)
      PROVE  Later(s)
  <2>1. /\ UNCHANGED <<now, address, granted>>
        /\ new > r.old /\ ack[r.slot] = r.old
        /\ ack' = [ack EXCEPT ![r.slot] = new]
    BY <1>4 DEF Update, Matches
  <2>2. new \in Int
    BY <1>1, SlotAssumption
  <2>. QED
    BY <1>1, <2>1, <2>2 DEF Later, IInv, TypeOK
<1>5. CASE UNCHANGED <<now, ack, address, granted>>
  BY <1>1, <1>5 DEF Later
<1>. QED
  BY <1>2, <1>3, <1>4, <1>5
     DEF Next, ApiServer, Answer, vars, tableVars, AddAgent, SendBind,
         BindNothing, BindNothingLate, BindReply, StartHeartbeat, NoUpdate, HeartbeatAcked,
         HeartbeatDenied, HeartbeatFails, SoftExit, SendRemove, Remove,
         RemoveFails, Die, Fork

\* A step that gives an agent a claim is the reply to its bind or to a heartbeat.
LEMMA AgentClaimsStep ==
  ASSUME IInv, TypeOK', [Next]_vars
  PROVE  AgentClaims'
<1>. USE DEF Bound
<1>1. \A s \in Slots : Later(s)
  BY LaterStep
<1>2. ASSUME NEW a \in Agents, NEW s \in Slots, NEW t \in Start .. MaxTime,
             BindSlot(a, s, t)
      PROVE  AgentClaims'
  <2>. SUFFICES ASSUME NEW b \in Agents, Bound(b)'
                PROVE  /\ slot'[b] \in Slots
                       /\ Claim(slot[b], b, last_ack_time[b])'
    BY DEF AgentClaims
  <2>1. CASE b = a
    <3>1. /\ slot'[a] = s /\ last_ack_time'[a] = t
          /\ ack'[s] = t /\ address'[s] = a /\ granted'[s] = t
      BY <1>2 DEF BindSlot, Take, IInv, TypeOK
    <3>2. t \in Int /\ 0 < t
      BY SlotAssumption DEF Start
    <3>. QED
      BY <2>1, <3>1, <3>2 DEF Claim
  <2>2. CASE b # a
    <3>1. /\ Bound(b) /\ slot'[b] = slot[b]
          /\ last_ack_time'[b] = last_ack_time[b]
      BY <1>2, <2>2 DEF BindSlot, IInv, TypeOK
    <3>2. slot[b] \in Slots /\ Claim(slot[b], b, last_ack_time[b])
      BY <3>1 DEF IInv, AgentClaims
    <3>3. last_ack_time[b] \in Int
      BY DEF IInv, TypeOK
    <3>4. TypeOK /\ TypeOK' /\ Later(slot[b])
      BY <1>1, <3>2 DEF IInv
    <3>5. /\ 0 < last_ack_time[b] /\ last_ack_time[b] <= ack'[slot[b]]
          /\ last_ack_time[b] >= granted'[slot[b]] => address'[slot[b]] = b
          /\ last_ack_time[b] < granted'[slot[b]] => last_ack_time[b] + THRESHOLD < granted'[slot[b]]
      BY <3>2, <3>3, <3>4, ClaimKept
    <3>. QED
      BY <3>1, <3>2, <3>5 DEF Claim
  <2>. QED
    BY <2>1, <2>2
<1>3. ASSUME NEW r \in heartbeats, HeartbeatAcked(r)
      PROVE  AgentClaims'
  <2>. SUFFICES ASSUME NEW b \in Agents, Bound(b)'
                PROVE  /\ slot'[b] \in Slots
                       /\ Claim(slot[b], b, last_ack_time[b])'
    BY DEF AgentClaims
  <2>1. /\ r.waiting /\ r.result > 0 /\ pc' = pc /\ slot' = slot
        /\ last_ack_time' = [last_ack_time EXCEPT ![r.agent] = r.result]
    BY <1>3 DEF HeartbeatAcked
  <2>2. Bound(b) /\ slot[b] \in Slots /\ Claim(slot[b], b, last_ack_time[b])
    BY <2>1 DEF IInv, AgentClaims
  <2>3. CASE b = r.agent
    <3>1. last_ack_time'[b] = r.result /\ slot[b] = r.slot
      BY <2>1, <2>3 DEF IInv, TypeOK, WaitingRuns
    <3>2. Claim(r.slot, r.agent, r.result) /\ r.result \in Int
      BY <2>1, SlotAssumption
         DEF IInv, HeartbeatClaims, TypeOK, Heartbeat, Pending, Refused
    <3>3. /\ 0 < r.result /\ r.result <= ack'[r.slot]
          /\ r.result >= granted'[r.slot] => address'[r.slot] = r.agent
          /\ r.result < granted'[r.slot] =>
               r.result + THRESHOLD < granted'[r.slot]
      BY <1>1, <2>2, <3>1, <3>2, ClaimKept DEF IInv
    <3>. QED
      BY <2>1, <2>2, <2>3, <3>1, <3>3 DEF Claim
  <2>4. CASE b # r.agent
    <3>1. last_ack_time'[b] = last_ack_time[b] /\ last_ack_time[b] \in Int
      BY <2>1, <2>4 DEF IInv, TypeOK
    <3>. QED
      BY <1>1, <2>1, <2>2, <3>1, ClaimKept DEF IInv, Claim
  <2>. QED
    BY <2>3, <2>4
<1>4. CASE \A a \in Agents : Bound(a)' => /\ Bound(a)
                                          /\ slot'[a] = slot[a]
                                          /\ last_ack_time'[a] = last_ack_time[a]
  BY <1>1, <1>4, AgentClaimsKept
<1>5. CASE UNCHANGED <<pc, slot, last_ack_time>>
  BY <1>4, <1>5
<1>8. ASSUME NEW m \in late_binds,
             \/ BindNothingLate(m)
             \/ \E s \in Slots, t \in Start .. MaxTime : BindSlotLate(m, s, t)
      PROVE  AgentClaims'
  BY <1>5, <1>8 DEF BindNothingLate, BindSlotLate, agentVars
<1>6. ASSUME NEW a \in Agents,
             SendBind(a) \/ BindNothing(a) \/ BindReply(a) \/ StartHeartbeat(a)
             \/ SoftExit(a) \/ SendRemove(a) \/ Die(a) \/ Fork(a)
      PROVE  AgentClaims'
  BY <1>4, <1>6
     DEF SendBind, BindNothing, BindReply, StartHeartbeat, SoftExit, SetSoftExit,
         SendRemove, Die, Fork, IInv, TypeOK
<1>7. ASSUME NEW r \in heartbeats, HeartbeatDenied(r) \/ HeartbeatFails(r)
      PROVE  AgentClaims'
  <2>1. r.waiting /\ slot' = slot /\ last_ack_time' = last_ack_time
        /\ (pc' = pc \/ SetSoftExit(r.agent))
    BY <1>7 DEF HeartbeatDenied, HeartbeatFails
  <2>. QED
    BY <1>4, <2>1 DEF SetSoftExit, IInv, TypeOK
<1>. QED
  BY <1>2, <1>3, <1>5, <1>6, <1>7, <1>8
     DEF Next, ApiServer, Answer, vars, agentVars, Tick, AddAgent, NoUpdate,
         Update, Remove, RemoveFails

\* A step that gives a heartbeat a claim sends one, or renews the record.
LEMMA HeartbeatClaimsStep ==
  ASSUME IInv, TypeOK', [Next]_vars
  PROVE  HeartbeatClaims'
<1>. USE DEF Bound
<1>1. \A s \in Slots : Later(s)
  BY LaterStep
<1>2. ASSUME NEW a \in Agents, Bound(a),
             \A r \in heartbeats' : \/ r = Request(a)
                                    \/ r \in Abandon(a) \/ r \in heartbeats
      PROVE  HeartbeatClaims'
  <2>. SUFFICES ASSUME NEW r \in heartbeats'
                PROVE  /\ Claim(r.slot, r.agent, r.old)'
                       /\ (r.result > 0 => Claim(r.slot, r.agent, r.result))'
    BY DEF HeartbeatClaims
  <2>1. CASE r = Request(a)
    <3>1. /\ r.slot = slot[a] /\ r.agent = a /\ r.old = last_ack_time[a]
          /\ ~(r.result > 0)
      BY <2>1 DEF Request, Pending
    <3>2. slot[a] \in Slots /\ Claim(slot[a], a, last_ack_time[a])
          /\ last_ack_time[a] \in Int
      BY <1>2 DEF IInv, AgentClaims, TypeOK
    <3>3. /\ 0 < r.old /\ r.old <= ack'[r.slot]
          /\ r.old >= granted'[r.slot] => address'[r.slot] = r.agent
          /\ r.old < granted'[r.slot] => r.old + THRESHOLD < granted'[r.slot]
      BY <1>1, <3>1, <3>2, ClaimKept DEF IInv
    <3>. QED
      BY <3>1, <3>3 DEF Claim
  <2>2. CASE r \in Abandon(a) \/ r \in heartbeats
    <3>1. PICK q \in heartbeats :
            r.slot = q.slot /\ r.agent = q.agent /\ r.old = q.old
            /\ r.result = q.result
      BY <2>2 DEF Abandon, Of, IInv, TypeOK, Heartbeat
    <3>2. /\ Claim(q.slot, q.agent, q.old) /\ q.slot \in Slots /\ q.old \in Int
          /\ q.result \in Int
          /\ q.result > 0 => Claim(q.slot, q.agent, q.result)
      BY SlotAssumption
         DEF IInv, HeartbeatClaims, TypeOK, Heartbeat, Pending, Refused
    <3>3. /\ 0 < q.old /\ q.old <= ack'[q.slot]
          /\ q.old >= granted'[q.slot] => address'[q.slot] = q.agent
          /\ q.old < granted'[q.slot] => q.old + THRESHOLD < granted'[q.slot]
      BY <1>1, <3>2, ClaimKept DEF IInv
    <3>4. q.result > 0 =>
            /\ 0 < q.result /\ q.result <= ack'[q.slot]
            /\ q.result >= granted'[q.slot] => address'[q.slot] = q.agent
            /\ q.result < granted'[q.slot] => q.result + THRESHOLD < granted'[q.slot]
      BY <1>1, <3>2, ClaimKept DEF IInv
    <3>. QED
      BY <3>1, <3>3, <3>4 DEF Claim
  <2>. QED
    BY <1>2, <2>1, <2>2
<1>3. ASSUME NEW r \in heartbeats, NEW new \in Start .. MaxTime, Update(r, new)
      PROVE  HeartbeatClaims'
  <2>. SUFFICES ASSUME NEW x \in heartbeats'
                PROVE  /\ Claim(x.slot, x.agent, x.old)'
                       /\ (x.result > 0 => Claim(x.slot, x.agent, x.result))'
    BY DEF HeartbeatClaims
  <2>1. PICK q \in heartbeats :
          /\ x.slot = q.slot /\ x.agent = q.agent /\ x.old = q.old
          /\ \/ x.result = q.result \/ x.result = 0
             \/ q = r /\ x.result = new
    BY <1>3 DEF Update, Answered, IInv, TypeOK, Heartbeat
  <2>2. /\ Claim(q.slot, q.agent, q.old) /\ q.slot \in Slots /\ q.old \in Int
        /\ q.result \in Int
        /\ q.result > 0 => Claim(q.slot, q.agent, q.result)
    BY SlotAssumption
       DEF IInv, HeartbeatClaims, TypeOK, Heartbeat, Pending, Refused
  <2>3. /\ 0 < q.old /\ q.old <= ack'[q.slot]
        /\ q.old >= granted'[q.slot] => address'[q.slot] = q.agent
        /\ q.old < granted'[q.slot] => q.old + THRESHOLD < granted'[q.slot]
    BY <1>1, <2>2, ClaimKept DEF IInv
  <2>4. q.result > 0 =>
          /\ 0 < q.result /\ q.result <= ack'[q.slot]
          /\ q.result >= granted'[q.slot] => address'[q.slot] = q.agent
          /\ q.result < granted'[q.slot] => q.result + THRESHOLD < granted'[q.slot]
    BY <1>1, <2>2, ClaimKept DEF IInv
  <2>5. /\ ack[r.slot] = r.old /\ address' = address /\ granted' = granted
        /\ ack' = [ack EXCEPT ![r.slot] = new] /\ new > r.old
    BY <1>3 DEF Update, Matches
  <2>7. CASE q = r /\ x.result = new
    <3>1. /\ ack'[r.slot] = new /\ address'[r.slot] = r.agent
          /\ granted'[r.slot] <= r.old
      BY <2>2, <2>5, <2>7 DEF IInv, TypeOK, Grants, Claim
    <3>2. new \in Int /\ new > 0 /\ granted'[r.slot] \in Int /\ r.old \in Int
      BY <2>2, <2>7, SlotAssumption DEF Start, TypeOK
    <3>. QED
      BY <2>1, <2>3, <2>7, <3>1, <3>2 DEF Claim
  <2>8. CASE x.result = q.result \/ x.result = 0
    BY <2>1, <2>3, <2>4, <2>8 DEF Claim
  <2>. QED
    BY <2>1, <2>7, <2>8
<1>4. ASSUME NEW r \in heartbeats, NoUpdate(r)
      PROVE  HeartbeatClaims'
  <2>1. \A x \in heartbeats' : \E q \in heartbeats :
          /\ x.slot = q.slot /\ x.agent = q.agent /\ x.old = q.old
          /\ x.result = q.result \/ x.result <= 0
    BY <1>4 DEF NoUpdate, Answered, IInv, TypeOK, Heartbeat, Refused
  <2>. QED
    BY <1>1, <2>1, HeartbeatClaimsKept
<1>5. ASSUME \A r \in heartbeats' : r \in heartbeats
      PROVE  HeartbeatClaims'
  BY <1>1, <1>5, HeartbeatClaimsKept
<1>6. ASSUME NEW a \in Agents, StartHeartbeat(a)
      PROVE  HeartbeatClaims'
  BY <1>2, <1>6 DEF StartHeartbeat
<1>7. ASSUME NEW a \in Agents, Die(a)
      PROVE  HeartbeatClaims'
  <2>1. \A r \in heartbeats' : \E q \in heartbeats :
          r.slot = q.slot /\ r.agent = q.agent /\ r.old = q.old
          /\ r.result = q.result
    BY <1>7 DEF Die, Abandon, Of, IInv, TypeOK, Heartbeat
  <2>. QED
    BY <1>1, <2>1, HeartbeatClaimsKept
<1>8. ASSUME NEW r \in heartbeats, HeartbeatFails(r)
      PROVE  HeartbeatClaims'
  <2>1. r.agent \in Agents /\ Bound(r.agent)
    BY <1>8 DEF HeartbeatFails, IInv, WaitingRuns, TypeOK, Heartbeat
  <2>. QED
    BY <1>2, <1>8, <2>1 DEF HeartbeatFails
<1>. QED
  BY <1>3, <1>4, <1>5, <1>6, <1>7, <1>8
     DEF Next, ApiServer, Answer, vars, requestVars, Tick, AddAgent, SendBind,
         BindSlot, BindSlotLate, BindNothing, BindNothingLate, BindReply,
         HeartbeatAcked, HeartbeatDenied, SoftExit, SendRemove, Remove,
         RemoveFails, Fork

\* A reply that tells of a renewal is written by the handler that renewed.
LEMMA SameLeaseStep ==
  ASSUME IInv, TypeOK', [Next]_vars
  PROVE  SameLease'
<1>. USE DEF IInv
<1>. SUFFICES ASSUME NEW x \in heartbeats', x.result > 0
              PROVE  /\ x.old < x.result
                     /\ x.result >= granted'[x.slot] => x.old >= granted'[x.slot]
  BY DEF SameLease
<1>0. x.slot \in Slots /\ x.old \in Int /\ x.result \in Int
  BY SlotAssumption DEF TypeOK, Heartbeat, Pending, Refused
<1>1. \/ \E q \in heartbeats : /\ x.slot = q.slot /\ x.agent = q.agent
                               /\ x.old = q.old /\ x.result = q.result
      \/ \E r \in heartbeats, new \in Start .. MaxTime :
           Update(r, new) /\ x = [r EXCEPT !.result = new]
  <2>1. ASSUME NEW a \in Agents, x \in Abandon(a) \cup {Request(a)} \cup heartbeats
        PROVE  \E q \in heartbeats : /\ x.slot = q.slot /\ x.agent = q.agent
                                     /\ x.old = q.old /\ x.result = q.result
    BY <2>1 DEF Abandon, Of, Request, Pending, TypeOK, Heartbeat
  <2>2. ASSUME NEW r \in heartbeats, NEW v \in Int, v <= 0, Answered(r, v)
        PROVE  x \in heartbeats
    BY <2>2 DEF Answered, TypeOK, Heartbeat
  <2>3. ASSUME NEW r \in heartbeats, NEW new \in Start .. MaxTime, Update(r, new)
        PROVE  x \in heartbeats \/ x = [r EXCEPT !.result = new]
    BY <2>2, <2>3 DEF Update, Answered
  <2>4. ASSUME NEW r \in heartbeats, NoUpdate(r)
        PROVE  x \in heartbeats
    BY <2>2, <2>4 DEF NoUpdate, Refused
  <2>5. CASE heartbeats' \subseteq heartbeats
    BY <2>5
  <2>6. ASSUME NEW a \in Agents, StartHeartbeat(a) \/ Die(a)
        PROVE  x \in Abandon(a) \cup {Request(a)} \cup heartbeats
    BY <2>6 DEF StartHeartbeat, Die
  <2>7. ASSUME NEW r \in heartbeats, HeartbeatFails(r)
        PROVE  /\ r.agent \in Agents
               /\ x \in Abandon(r.agent) \cup {Request(r.agent)} \cup heartbeats
    BY <2>7 DEF HeartbeatFails, TypeOK, Heartbeat
  <2>. QED
    BY <2>1, <2>3, <2>4, <2>5, <2>6, <2>7
       DEF Next, ApiServer, Answer, vars, requestVars, Tick, AddAgent, SendBind,
           BindSlot, BindSlotLate, BindNothing, BindNothingLate, BindReply,
           HeartbeatAcked, HeartbeatDenied, SoftExit, SendRemove, Remove,
           RemoveFails, Fork
<1>2. CASE \E q \in heartbeats : /\ x.slot = q.slot /\ x.agent = q.agent
                                /\ x.old = q.old /\ x.result = q.result
  <2>1. /\ x.old < x.result
        /\ x.result >= granted[x.slot] => x.old >= granted[x.slot]
        /\ x.result <= ack[x.slot]
    BY <1>2 DEF SameLease, HeartbeatClaims, Claim
  <2>2. Later(x.slot)
    BY <1>0, LaterStep
  <2>3. ack[x.slot] \in Int /\ granted'[x.slot] \in Int /\ THRESHOLD \in Nat
    BY <1>0, SlotAssumption DEF TypeOK
  <2>. QED
    BY <1>0, <2>1, <2>2, <2>3 DEF Later
<1>3. ASSUME NEW r \in heartbeats, NEW new \in Start .. MaxTime,
             Update(r, new), x = [r EXCEPT !.result = new]
      PROVE  /\ x.old < x.result
             /\ x.result >= granted'[x.slot] => x.old >= granted'[x.slot]
  <2>1. x.old = r.old /\ x.slot = r.slot /\ x.result = new
    BY <1>3 DEF TypeOK, Heartbeat
  <2>2. new > r.old /\ ack[r.slot] = r.old /\ granted' = granted
    BY <1>3 DEF Update, Matches
  <2>3. granted[r.slot] <= r.old
    BY <1>0, <2>1, <2>2 DEF Grants
  <2>. QED
    BY <1>0, <2>1, <2>2, <2>3
<1>. QED
  BY <1>1, <1>2, <1>3

\* A slot is bound at a time that is over, and acked then.
LEMMA GrantsStep ==
  ASSUME IInv, TypeOK', [Next]_vars
  PROVE  Grants'
<1>. SUFFICES ASSUME NEW s \in Slots
              PROVE  granted'[s] <= ack'[s] /\ granted'[s] <= now'
  BY DEF Grants
<1>1. Later(s)
  BY LaterStep
<1>2. /\ now \in Int /\ now' \in Int /\ ack[s] \in Int /\ ack'[s] \in Int
      /\ granted[s] \in Int /\ granted'[s] \in Int
  BY SlotAssumption DEF IInv, TypeOK, Start
<1>. QED
  BY <1>1, <1>2 DEF Later, IInv, Grants

\* An agent that stops or dies waits for no heartbeat any more, and one that
\* tries again has given up on the try before.
LEMMA WaitingRunsStep ==
  ASSUME IInv, TypeOK', [Next]_vars
  PROVE  WaitingRuns'
<1>. USE DEF IInv, WaitingRuns, TypeOK
<1>0. ASSUME NEW a \in Agents
      PROVE  \A x \in Abandon(a) : x.waiting => x \in heartbeats /\ x.agent # a
  BY DEF Abandon, Of, Heartbeat
<1>1. ASSUME NEW a \in Agents,
             SendBind(a) \/ BindNothing(a) \/ BindReply(a) \/ SoftExit(a)
             \/ SendRemove(a) \/ Fork(a)
             \/ \E s \in Slots, t \in Start .. MaxTime : BindSlot(a, s, t)
      PROVE  WaitingRuns'
  BY <1>1 DEF SendBind, BindNothing, BindReply, SoftExit, SetSoftExit,
              SendRemove, Fork, BindSlot, requestVars, Heartbeat
<1>2. ASSUME NEW a \in Agents, StartHeartbeat(a)
      PROVE  WaitingRuns'
  BY <1>2 DEF StartHeartbeat, Request, Heartbeat
<1>3. ASSUME NEW a \in Agents, Die(a)
      PROVE  WaitingRuns'
  BY <1>0, <1>3 DEF Die, Heartbeat
<1>4. ASSUME NEW r \in heartbeats,
             NoUpdate(r) \/ \E new \in Start .. MaxTime : Update(r, new)
      PROVE  WaitingRuns'
  <2>1. /\ pc' = pc /\ slot' = slot /\ try' = try /\ last_ack_time' = last_ack_time
        /\ \/ heartbeats' = heartbeats \ {r}
           \/ \E v : heartbeats' = (heartbeats \ {r}) \cup {[r EXCEPT !.result = v]}
                     /\ r.waiting
    BY <1>4 DEF NoUpdate, Update, Answered, agentVars
  <2>2. \A v : [r EXCEPT !.result = v].agent = r.agent
               /\ [r EXCEPT !.result = v].slot = r.slot
               /\ [r EXCEPT !.result = v].old = r.old
    BY DEF Heartbeat
  <2>. QED
    BY <2>1, <2>2 DEF Heartbeat
<1>5. ASSUME NEW r \in heartbeats, HeartbeatFails(r)
      PROVE  WaitingRuns'
  <2>. DEFINE a == r.agent
  <2>1. /\ a \in Agents /\ r.waiting
        /\ pc[a] \in {"running", "stopping", "removing"}
    BY <1>5 DEF HeartbeatFails, Heartbeat
  <2>2. CASE LastTry(a)
    <3>1. /\ slot' = slot /\ last_ack_time' = last_ack_time
          /\ heartbeats' = Abandon(a) /\ try' = [try EXCEPT ![a] = 0]
          /\ \A b \in Agents : b # a => pc'[b] = pc[b]
      BY <1>5, <2>2 DEF HeartbeatFails, SetSoftExit
    <3>. QED
      BY <1>0, <2>1, <3>1 DEF Heartbeat
  <2>3. CASE ~LastTry(a)
    <3>1. /\ slot' = slot /\ last_ack_time' = last_ack_time
          /\ heartbeats' = Abandon(a) \cup {Request(a)}
          /\ pc' = pc /\ try' = [try EXCEPT ![a] = @ + 1]
      BY <1>5, <2>3 DEF HeartbeatFails
    <3>2. Request(a).agent = a /\ Request(a).slot = slot[a]
          /\ Request(a).old = last_ack_time[a]
      BY DEF Request
    <3>3. try'[a] # 0
      BY <2>1, <3>1
    <3>. QED
      BY <1>0, <2>1, <3>1, <3>2, <3>3 DEF Heartbeat
  <2>. QED
    BY <2>2, <2>3
<1>6. ASSUME NEW r \in heartbeats, HeartbeatAcked(r) \/ HeartbeatDenied(r)
      PROVE  WaitingRuns'
  <2>1. /\ r.waiting /\ slot' = slot /\ heartbeats' = heartbeats \ {r}
        /\ try' = [try EXCEPT ![r.agent] = 0]
        /\ \A b \in Agents : b # r.agent =>
             pc'[b] = pc[b] /\ last_ack_time'[b] = last_ack_time[b]
    BY <1>6 DEF HeartbeatAcked, HeartbeatDenied, SetSoftExit
  <2>. QED
    BY <2>1 DEF Heartbeat
<1>7. CASE UNCHANGED <<agentVars, heartbeats>>
  BY <1>7 DEF agentVars
<1>. QED
  BY <1>1, <1>2, <1>3, <1>4, <1>5, <1>6, <1>7
     DEF Next, ApiServer, Answer, vars, requestVars, Tick, AddAgent,
         BindSlotLate, BindNothingLate, Remove, RemoveFails

-----------------------------------------------------------------------------
(* The theorems                                                             *)

\* Every step keeps the inductive invariant.
LEMMA StepHolds ==
  ASSUME IInv, [Next]_vars
  PROVE  IInv'
<1>1. TypeOK'
  BY TypeStep
<1>2. Grants' /\ AgentClaims' /\ HeartbeatClaims' /\ SameLease' /\ WaitingRuns'
  BY <1>1, GrantsStep, AgentClaimsStep, HeartbeatClaimsStep, SameLeaseStep,
     WaitingRunsStep
<1>. QED
  BY <1>1, <1>2 DEF IInv

\* Every state of every behaviour satisfies the inductive invariant: no agent
\* and no message is ahead of the table.
THEOREM Invariance == Spec => []IInv
<1>1. Init => IInv
  BY SlotAssumption
     DEF Init, IInv, TypeOK, Grants, AgentClaims, HeartbeatClaims, SameLease,
         WaitingRuns, Bound, Start
<1>. QED
  BY <1>1, StepHolds, PTL DEF Spec

\* What the agents keep, what the requests carry and what the table holds stays
\* in its type: an agent that is bound always has a slot to heartbeat for.
THEOREM TypeCorrect == Spec => []TypeOK
<1>1. IInv => TypeOK
  BY DEF IInv
<1>. QED
  BY <1>1, Invariance, PTL

\* The compare-and-set of update_agent_last_ack_time fences out every agent that
\* lost its slot, however late its heartbeat arrives.
THEOREM FencingHolds == Spec => []Fencing
<1>1. IInv => Fencing
  <2>. SUFFICES ASSUME IInv
                PROVE  Fencing
    OBVIOUS
  <2>1. \A a \in Agents :
          Bound(a) /\ last_ack_time[a] = ack[slot[a]] => address[slot[a]] = a
    BY DEF IInv, AgentClaims, Claim, Grants
  <2>2. ASSUME NEW r \in heartbeats, r.old = ack[r.slot]
        PROVE  address[r.slot] = r.agent
    BY <2>2 DEF IInv, HeartbeatClaims, Claim, Grants, TypeOK, Heartbeat
  <2>3. ASSUME NEW r \in heartbeats, r.result = ack[r.slot]
        PROVE  address[r.slot] = r.agent
    <3>1. /\ r.slot \in Slots /\ r.old \in Int /\ r.result \in Int
          /\ 0 < r.old /\ r.old <= ack[r.slot] /\ ack[r.slot] \in Int
      BY SlotAssumption DEF IInv, HeartbeatClaims, Claim, TypeOK, Heartbeat,
                            Pending, Refused
    <3>2. r.result > 0
      BY <2>3, <3>1
    <3>. QED
      BY <2>3, <3>1, <3>2 DEF IInv, HeartbeatClaims, Claim, Grants
  <2>. QED
    BY <2>1, <2>2, <2>3 DEF Fencing
<1>. QED
  BY <1>1, Invariance, PTL

\* bind_to_free_slot never gives away a slot whose holder was acked within
\* AGENT_NO_ACTIVATE_THRESHOLD.
THEOREM LeaseHolds == Spec => []LeaseHonoured
<1>1. IInv => LeaseHonoured
  <2>. SUFFICES ASSUME IInv, NEW a \in Agents, Bound(a),
                       last_ack_time[a] + THRESHOLD >= now
                PROVE  address[slot[a]] = a
    BY DEF LeaseHonoured
  <2>1. slot[a] \in Slots /\ Claim(slot[a], a, last_ack_time[a])
    BY DEF IInv, AgentClaims
  <2>2. /\ last_ack_time[a] \in Int /\ granted[slot[a]] \in Int
        /\ granted[slot[a]] <= now /\ now \in Int /\ THRESHOLD \in Nat
    BY <2>1, SlotAssumption DEF IInv, TypeOK, Grants, Start
  <2>. QED
    BY <2>1, <2>2 DEF Claim
<1>. QED
  BY <1>1, Invariance, PTL

\* last_ack_time only grows.
THEOREM AckMonotone == Spec => AckNeverGoesBack
<1>1. IInv /\ IInv' /\ [Next]_vars => [\A s \in Slots : ack'[s] >= ack[s]]_vars
  <2>. SUFFICES ASSUME IInv, IInv', [Next]_vars, NEW s \in Slots
                PROVE  ack'[s] >= ack[s]
    OBVIOUS
  <2>1. Later(s)
    BY LaterStep DEF IInv
  <2>2. ack[s] \in Int /\ ack'[s] \in Int /\ THRESHOLD \in Nat
    BY SlotAssumption DEF IInv, TypeOK
  <2>. QED
    BY <2>1, <2>2 DEF Later
<1>. QED
  BY <1>1, Invariance, PTL DEF Spec, AckNeverGoesBack

-----------------------------------------------------------------------------
(* An agent whose slot was taken or removed runs out of tries               *)

\* A slot that an agent got is in the table, or was.
Born == \A a \in Agents : Bound(a) => row[slot[a]] # "unborn"

LEMMA BornInvariance == Spec => []Born
<1>1. Init => Born
  BY DEF Init, Born, Bound
<1>2. IInv /\ Born /\ [Next]_vars => Born'
  <2>. SUFFICES ASSUME IInv, Born, [Next]_vars, NEW a \in Agents, Bound(a)'
                PROVE  row'[slot'[a]] # "unborn"
    BY DEF Born
  <2>. USE DEF IInv, TypeOK
  <2>1. \A s \in Slots : row[s] # "unborn" => row'[s] # "unborn"
    BY DEF Next, AddAgent, Tick, SendBind, BindNothing, BindReply, BindSlot,
           BindSlotLate, BindNothingLate, Take, StartHeartbeat, SoftExit, SendRemove, Die, Fork, ApiServer, Answer,
           NoUpdate, Update, HeartbeatAcked, HeartbeatDenied, HeartbeatFails,
           Remove, RemoveFails, vars, tableVars
  <2>2. ASSUME NEW b \in Agents, NEW s \in Slots, NEW t \in Start .. MaxTime,
               BindSlot(b, s, t)
        PROVE  row'[slot'[a]] # "unborn"
    BY <2>1, <2>2 DEF BindSlot, Take, Free, Born, Bound, AgentClaims
  <2>3. CASE Bound(a) /\ slot'[a] = slot[a]
    BY <2>1, <2>3 DEF Born, AgentClaims
  <2>4. ASSUME NEW b \in Agents,
               \/ SendBind(b) \/ BindNothing(b) \/ BindReply(b)
               \/ StartHeartbeat(b) \/ SoftExit(b) \/ SendRemove(b)
               \/ Die(b) \/ Fork(b)
        PROVE  Bound(a) /\ slot'[a] = slot[a]
    BY <2>4 DEF SendBind, BindNothing, BindReply, StartHeartbeat, SoftExit,
                SetSoftExit, SendRemove, Die, Fork, Bound
  <2>5. ASSUME NEW r \in heartbeats, Answer(r)
        PROVE  Bound(a) /\ slot'[a] = slot[a]
    BY <2>5 DEF Answer, HeartbeatAcked, HeartbeatDenied, HeartbeatFails,
                SetSoftExit, Bound
  <2>6. CASE UNCHANGED agentVars
    BY <2>3, <2>6 DEF agentVars, Bound
  <2>. QED
    BY <2>2, <2>3, <2>4, <2>5, <2>6
    DEF Next, Tick, AddAgent, BindSlotLate, BindNothingLate, ApiServer,
        NoUpdate, Update, Remove, RemoveFails, vars
<1>. QED
  BY <1>1, <1>2, Invariance, PTL DEF Spec

\* It has not read the reply to a heartbeat that came before that.
AckUnread(a) == \E r \in heartbeats : r.agent = a /\ r.waiting /\ r.result > 0

\* The heartbeats it may still send: the rest of a round, and another round if
\* that reply arrives.
Chances(a) == (IF AckUnread(a) THEN TRIES + 1 ELSE 0) + (TRIES - try[a])

\* A stale agent does not get its slot back.
LEMMA StaleStays ==
  ASSUME IInv, Born, [Next]_vars, NEW a \in Agents, Stale(a),
         pc'[a] = "running"
  PROVE  Stale(a)'
<1>. USE DEF IInv, TypeOK
<1>. DEFINE s == slot[a]
<1>1. s \in Slots /\ row[s] # "unborn" /\ pc[a] = "running"
  BY DEF Stale, Born, Bound, AgentClaims
<1>2. slot'[a] = s
  BY <1>1 DEF Next, AddAgent, Tick, SendBind, BindNothing, BindReply, BindSlot,
         BindSlotLate, BindNothingLate, StartHeartbeat, SoftExit, SendRemove,
         Die, Fork, ApiServer, Answer, NoUpdate, Update, HeartbeatAcked,
         HeartbeatDenied, HeartbeatFails, Remove, RemoveFails, vars, agentVars
<1>3. row[s] # "present" => row'[s] # "present"
  BY <1>1 DEF Next, AddAgent, Tick, SendBind, BindNothing, BindReply, BindSlot,
         BindSlotLate, BindNothingLate, Take, StartHeartbeat, SoftExit,
         SendRemove, Die, Fork, ApiServer, Answer, NoUpdate, Update,
         HeartbeatAcked, HeartbeatDenied, HeartbeatFails, Remove, RemoveFails,
         vars, tableVars
<1>4. ASSUME last_ack_time[a] < granted[s]
      PROVE  last_ack_time'[a] < granted'[s]
  <2>1. /\ last_ack_time[a] \in Int /\ last_ack_time'[a] \in Int
        /\ granted[s] \in Int /\ granted'[s] \in Int /\ ack[s] \in Int
        /\ THRESHOLD \in Nat
    BY <1>1, StepHolds, SlotAssumption
  <2>2. granted'[s] >= granted[s]
    <3>1. Later(s)
      BY <1>1, StepHolds, LaterStep
    <3>. QED
      BY <1>1, <2>1, <3>1 DEF Later, Grants
  <2>3. CASE last_ack_time'[a] = last_ack_time[a]
    BY <1>4, <2>1, <2>2, <2>3
  <2>4. ASSUME NEW r \in heartbeats, HeartbeatAcked(r), r.agent = a
        PROVE  last_ack_time'[a] < granted[s]
    <3>1. /\ r.waiting /\ r.result > 0 /\ last_ack_time'[a] = r.result
          /\ r.slot = s /\ r.old = last_ack_time[a]
      BY <1>1, <2>4 DEF HeartbeatAcked, WaitingRuns
    <3>. QED
      BY <1>4, <2>1, <3>1 DEF SameLease
  <2>5. \/ last_ack_time'[a] = last_ack_time[a]
        \/ \E r \in heartbeats : HeartbeatAcked(r) /\ r.agent = a
    BY <1>1 DEF Next, AddAgent, Tick, SendBind, BindNothing, BindReply, BindSlot,
         BindSlotLate, BindNothingLate, StartHeartbeat, SoftExit, SendRemove,
         Die, Fork, ApiServer, Answer, NoUpdate, Update, HeartbeatAcked,
         HeartbeatDenied, HeartbeatFails, Remove, RemoveFails, vars, agentVars
  <2>. QED
    BY <2>1, <2>2, <2>3, <2>4, <2>5
<1>. QED
  BY <1>2, <1>3, <1>4 DEF Stale

\* Nor is any heartbeat of its acknowledged again: the table has moved on.
LEMMA StaleUnacked ==
  ASSUME IInv, [Next]_vars, NEW a \in Agents, Stale(a), AckUnread(a)'
  PROVE  AckUnread(a)
<1>. USE DEF IInv, TypeOK
<1>1. PICK q \in heartbeats' : q.agent = a /\ q.waiting /\ q.result > 0
  BY DEF AckUnread
<1>2. CASE q \in heartbeats
  BY <1>1, <1>2 DEF AckUnread
<1>3. ASSUME NEW b \in Agents, q \in Abandon(b) PROVE q \in heartbeats
  BY <1>1, <1>3 DEF Abandon, Of, Heartbeat
<1>4. ASSUME NEW b \in Agents PROVE q # Request(b)
  BY <1>1 DEF Request, Pending
<1>5. ASSUME NEW r \in heartbeats, NEW v, Answered(r, v), q \notin heartbeats
      PROVE  r.waiting /\ r.agent = a /\ v = q.result
  BY <1>1, <1>5 DEF Answered, Heartbeat
<1>6. ASSUME NEW r \in heartbeats, NEW new \in Start .. MaxTime, Update(r, new)
      PROVE  q \in heartbeats
  <2>. SUFFICES ASSUME q \notin heartbeats PROVE FALSE
    OBVIOUS
  <2>1. r.waiting /\ r.agent = a
    BY <1>5, <1>6 DEF Update
  <2>2. slot[a] = r.slot /\ last_ack_time[a] = r.old /\ r.slot \in Slots
    BY <2>1 DEF WaitingRuns, Heartbeat
  <2>3. granted[r.slot] <= r.old /\ row[r.slot] = "present"
    BY <1>6, <2>2 DEF Update, Matches, Grants
  <2>4. granted[r.slot] \in Int /\ r.old \in Int
    BY <2>2 DEF Heartbeat
  <2>. QED
    BY <2>2, <2>3, <2>4 DEF Stale
<1>7. ASSUME NEW r \in heartbeats, NoUpdate(r) PROVE q \in heartbeats
  BY <1>1, <1>5, <1>7 DEF NoUpdate, Refused
<1>8. CASE heartbeats' \subseteq heartbeats
  BY <1>2, <1>8
<1>9. ASSUME NEW b \in Agents, StartHeartbeat(b) \/ Die(b)
      PROVE  q \in heartbeats
  BY <1>3, <1>4, <1>9 DEF StartHeartbeat, Die
<1>10. ASSUME NEW r \in heartbeats, HeartbeatFails(r) PROVE q \in heartbeats
  <2>1. r.agent \in Agents
    BY DEF Heartbeat
  <2>. QED
    BY <1>3, <1>4, <1>10, <2>1 DEF HeartbeatFails
<1>. QED
  BY <1>2, <1>6, <1>7, <1>8, <1>9, <1>10
  DEF Next, AddAgent, Tick, SendBind, BindNothing, BindReply, BindSlot,
      BindSlotLate, BindNothingLate, SoftExit, SendRemove, Fork, ApiServer,
      Answer, HeartbeatAcked, HeartbeatDenied, Remove, RemoveFails, vars,
      requestVars

\* What an agent's round of heartbeats does in a step.
LEMMA TryStep ==
  ASSUME IInv, [Next]_vars, NEW a \in Agents,
         pc[a] = "running", pc'[a] = "running"
  PROVE  \/ try'[a] = try[a]
         \/ try'[a] = try[a] + 1 /\ try[a] < TRIES
         \/ AckUnread(a) /\ try'[a] = 0 /\ ~AckUnread(a)'
<1>. USE DEF IInv, TypeOK
<1>1. ASSUME NEW b \in Agents, StartHeartbeat(b)
      PROVE  try'[a] = try[a] \/ (try'[a] = try[a] + 1 /\ try[a] < TRIES)
  BY <1>1, SlotAssumption DEF StartHeartbeat
<1>2. ASSUME NEW b \in Agents, SoftExit(b) \/ Die(b)
      PROVE  try'[a] = try[a]
  BY <1>2 DEF SoftExit, Die
<1>3. ASSUME NEW r \in heartbeats, HeartbeatFails(r)
      PROVE  try'[a] = try[a] \/ (try'[a] = try[a] + 1 /\ try[a] < TRIES)
  <2>1. r.agent \in Agents
    BY DEF Heartbeat
  <2>. QED
    BY <1>3, <2>1, SlotAssumption DEF HeartbeatFails, SetSoftExit, LastTry
<1>4. ASSUME NEW r \in heartbeats, HeartbeatDenied(r)
      PROVE  try'[a] = try[a]
  <2>1. r.agent \in Agents
    BY DEF Heartbeat
  <2>. QED
    BY <1>4, <2>1 DEF HeartbeatDenied, SetSoftExit
<1>5. ASSUME NEW r \in heartbeats, HeartbeatAcked(r), r.agent = a
      PROVE  AckUnread(a) /\ try'[a] = 0 /\ ~AckUnread(a)'
  <2>1. AckUnread(a) /\ try'[a] = 0
    BY <1>5 DEF HeartbeatAcked, AckUnread
  <2>2. ~AckUnread(a)'
    BY <1>5 DEF HeartbeatAcked, AckUnread, WaitingRuns
  <2>. QED
    BY <2>1, <2>2
<1>6. ASSUME NEW r \in heartbeats, HeartbeatAcked(r), r.agent # a
      PROVE  try'[a] = try[a]
  BY <1>6 DEF HeartbeatAcked
<1>. QED
  BY <1>1, <1>2, <1>3, <1>4, <1>5, <1>6
  DEF Next, AddAgent, Tick, SendBind, BindNothing, BindReply, BindSlot,
      BindSlotLate, BindNothingLate, SendRemove, Fork, ApiServer, Answer,
      NoUpdate, Update, Remove, RemoveFails, vars, agentVars

\* An agent whose slot was removed or bound again (the safety part of
\* StaleAgentStops) stays so as long as it serves, however late a reply, a
\* heartbeat or a bind is, also when a bind of a predecessor writes its address
\* back; it has at most two rounds of heartbeats left, each of which takes it
\* nearer to its end, and nothing that others do gives it another.
THEOREM StaleAgentRunsOut ==
  Spec => /\ [](\A a \in Agents : Stale(a) => Chances(a) \in 0 .. 2 * TRIES)
          /\ [][\A a \in Agents :
                  Stale(a) =>
                    \/ pc'[a] # "running"
                    \/ /\ Stale(a)'
                       /\ Chances(a)' <= Chances(a)
                       /\ try'[a] # try[a] => Chances(a)' < Chances(a)]_vars
<1>1. IInv => \A a \in Agents : Stale(a) => Chances(a) \in 0 .. 2 * TRIES
  <2>. SUFFICES ASSUME IInv, NEW a \in Agents
                PROVE  Chances(a) \in 0 .. 2 * TRIES
    OBVIOUS
  <2>1. try[a] \in 0 .. TRIES /\ TRIES \in Nat
    BY SlotAssumption DEF IInv, TypeOK
  <2>2. AckUnread(a) => try[a] # 0
    BY DEF AckUnread, IInv, WaitingRuns
  <2>. QED
    BY <2>1, <2>2 DEF Chances
<1>2. IInv /\ IInv' /\ Born /\ [Next]_vars =>
        [\A a \in Agents :
           Stale(a) =>
             \/ pc'[a] # "running"
             \/ /\ Stale(a)'
                /\ Chances(a)' <= Chances(a)
                /\ try'[a] # try[a] => Chances(a)' < Chances(a)]_vars
  <2>. SUFFICES ASSUME IInv, IInv', Born, [Next]_vars, NEW a \in Agents,
                       Stale(a), pc'[a] = "running"
                PROVE  /\ Stale(a)'
                       /\ Chances(a)' <= Chances(a)
                       /\ try'[a] # try[a] => Chances(a)' < Chances(a)
    OBVIOUS
  <2>1. Stale(a)'
    BY StaleStays
  <2>2. AckUnread(a)' => AckUnread(a)
    BY StaleUnacked
  <2>3. \/ try'[a] = try[a]
        \/ try'[a] = try[a] + 1 /\ try[a] < TRIES
        \/ AckUnread(a) /\ try'[a] = 0 /\ ~AckUnread(a)'
    BY TryStep DEF Stale
  <2>4. try[a] \in 0 .. TRIES /\ try'[a] \in 0 .. TRIES /\ TRIES \in Nat
    BY SlotAssumption DEF IInv, TypeOK
  <2>5. Chances(a) = (IF AckUnread(a) THEN TRIES + 1 ELSE 0) + (TRIES - try[a])
    BY DEF Chances
  <2>6. Chances(a)' =
          (IF AckUnread(a)' THEN TRIES + 1 ELSE 0) + (TRIES - try'[a])
    BY DEF Chances
  <2>. QED
    BY ONLY <2>1, <2>2, <2>3, <2>4, <2>5, <2>6
<1>. QED
  BY <1>1, <1>2, Invariance, BornInvariance, PTL DEF Spec

-----------------------------------------------------------------------------
(* The refinement of Lease                                                  *)

\* The refinement mapping of lessee.
Lessee == [a \in Agents |-> IF Bound(a) THEN slot[a] ELSE None]

\* A step that neither binds an agent nor ends one leaves its belief alone.
LEMMA LesseeKept ==
  ASSUME \A a \in Agents : (Bound(a)' <=> Bound(a)) /\ slot'[a] = slot[a]
  PROVE  Lessee' = Lessee
BY DEF Lessee

\* A bind grants a lease to the agent that waits for it.
LEMMA BindGrants ==
  ASSUME IInv, NEW a \in Agents, NEW s \in Slots, NEW t \in Start .. MaxTime,
         BindSlot(a, s, t)
  PROVE  Leases!Grant(a, s)
<1>1. /\ pc[a] = "requested" /\ t \in bind_sent[a] .. now
      /\ ack[s] + THRESHOLD < t /\ now' = now
      /\ ack' = [ack EXCEPT ![s] = t] /\ address' = [address EXCEPT ![s] = a]
      /\ granted' = [granted EXCEPT ![s] = t]
      /\ pc' = [pc EXCEPT ![a] = "answered"]
      /\ slot' = [slot EXCEPT ![a] = s]
      /\ last_ack_time' = [last_ack_time EXCEPT ![a] = t]
  BY DEF BindSlot, Take, Free
<1>2. /\ pc \in [Agents -> {"binding", "requested", "answered", "running",
                            "stopping", "removing", "down"}]
      /\ slot \in [Agents -> Slots \cup {None}]
      /\ bind_sent[a] \in Nat /\ now \in Int
  BY SlotAssumption DEF IInv, TypeOK, Start
<1>3. t \in 0 .. now
  BY <1>1, <1>2
<1>4. Lessee[a] = None
  BY <1>1 DEF Lessee, Bound
<1>5. Lessee' = [Lessee EXCEPT ![a] = s]
  BY <1>1, <1>2 DEF Lessee, Bound
<1>. QED
  BY <1>1, <1>3, <1>4, <1>5 DEF Leases!Grant, Lessee

\* A late bind grants one that nobody learns of.
LEMMA LateBindGrants ==
  ASSUME IInv, NEW m \in late_binds, NEW s \in Slots, NEW t \in Start .. MaxTime,
         BindSlotLate(m, s, t)
  PROVE  m.agent \in Agents /\ Leases!Grant(m.agent, s)
<1>1. /\ t \in m.sent .. now /\ ack[s] + THRESHOLD < t /\ now' = now
      /\ ack' = [ack EXCEPT ![s] = t]
      /\ address' = [address EXCEPT ![s] = m.agent]
      /\ granted' = [granted EXCEPT ![s] = t]
      /\ UNCHANGED <<pc, slot, last_ack_time>>
  BY DEF BindSlotLate, Take, Free, agentVars
<1>2. m.agent \in Agents /\ m.sent \in Nat /\ now \in Int
  BY SlotAssumption DEF IInv, TypeOK, Start
<1>3. t \in 0 .. now
  BY <1>1, <1>2
<1>4. Lessee' = Lessee
  BY <1>1, LesseeKept DEF Bound
<1>. QED
  BY <1>1, <1>2, <1>3, <1>4 DEF Leases!Grant, Leases!beliefVars, Lessee

\* The compare-and-set of a heartbeat renews the lease of the holder.
LEMMA UpdateRenews ==
  ASSUME IInv, NEW r \in heartbeats, NEW new \in Start .. MaxTime,
         Update(r, new)
  PROVE  r.slot \in Slots /\ Leases!Renew(r.slot)
<1>1. /\ r \in Heartbeat /\ new \in r.sent .. now /\ new > r.old
      /\ ack[r.slot] = r.old /\ ack' = [ack EXCEPT ![r.slot] = new]
      /\ UNCHANGED <<now, address, granted, pc, slot, last_ack_time>>
  BY DEF Update, Matches, IInv, TypeOK, agentVars
<1>2. r.sent \in Nat /\ r.agent \in Agents /\ r.slot \in Slots /\ now \in Int
  BY <1>1, SlotAssumption DEF Heartbeat, IInv, TypeOK, Start
<1>3. address[r.slot] = r.agent /\ r.agent # None
  BY <1>1, <1>2, SlotAssumption DEF IInv, HeartbeatClaims, Claim, Grants
<1>4. new \in 0 .. now /\ ack[r.slot] < new
  BY <1>1, <1>2
<1>5. Lessee' = Lessee
  BY <1>1, LesseeKept DEF Bound
<1>. QED
  BY <1>1, <1>2, <1>3, <1>4, <1>5 DEF Leases!Renew, Leases!beliefVars, Lessee

\* The reply to a heartbeat is news of the agent's own lease.
LEMMA ReplyIsHeard ==
  ASSUME IInv, NEW r \in heartbeats, HeartbeatAcked(r)
  PROVE  r.agent \in Agents /\ Leases!Hear(r.agent)
<1>. DEFINE a == r.agent
<1>1. /\ r \in Heartbeat /\ r.waiting /\ r.result > 0
      /\ last_ack_time' = [last_ack_time EXCEPT ![a] = r.result]
      /\ UNCHANGED <<now, ack, address, granted, pc, slot>>
  BY DEF HeartbeatAcked, IInv, TypeOK, tableVars
<1>2. /\ a \in Agents /\ Bound(a) /\ slot[a] = r.slot
      /\ last_ack_time[a] = r.old
  BY <1>1 DEF IInv, WaitingRuns, Heartbeat, Bound
<1>3. /\ r.result \in Int /\ r.old \in Int
      /\ r.slot \in Slots /\ ack[r.slot] \in Int /\ granted[r.slot] \in Int
  BY <1>1, SlotAssumption DEF Heartbeat, Pending, Refused, IInv, TypeOK
<1>4. Claim(r.slot, a, r.result) /\ r.old < r.result
      /\ (r.result >= granted[r.slot] => r.old >= granted[r.slot])
  BY <1>1 DEF IInv, HeartbeatClaims, SameLease
<1>5. /\ r.result \in last_ack_time[a] .. ack[r.slot]
      /\ last_ack_time[a] < granted[r.slot] =>
           r.result + THRESHOLD < granted[r.slot]
  BY <1>2, <1>3, <1>4 DEF Claim
<1>6. Lessee[a] = r.slot /\ r.slot # None
  BY <1>2, <1>3, SlotAssumption DEF Lessee, Bound
<1>7. Lessee' = Lessee
  BY <1>1, LesseeKept DEF Bound
<1>. QED
  BY <1>1, <1>2, <1>5, <1>6, <1>7 DEF Leases!Hear, Leases!slotVars, Lessee

\* A process that ends forgets its lease.
LEMMA DeathForgets ==
  ASSUME IInv, NEW a \in Agents, Die(a)
  PROVE  Leases!Forget(a)
<1>1. /\ pc' = [pc EXCEPT ![a] = "down"] /\ slot' = [slot EXCEPT ![a] = None]
      /\ last_ack_time' = [last_ack_time EXCEPT ![a] = 0]
      /\ UNCHANGED <<now, ack, address, granted>>
  BY DEF Die, tableVars
<1>2. Lessee' = [Lessee EXCEPT ![a] = None]
  BY <1>1 DEF Lessee, Bound, IInv, TypeOK
<1>. QED
  BY <1>1, <1>2 DEF Leases!Forget, Leases!slotVars, Lessee

\* Nothing else touches the lease.
LEMMA OtherStepsStutter ==
  ASSUME IInv,
         \/ \E s \in Slots : AddAgent(s)
         \/ \E a \in Agents : \/ SendBind(a) \/ BindNothing(a) \/ BindReply(a)
                              \/ StartHeartbeat(a) \/ SoftExit(a)
                              \/ SendRemove(a) \/ Fork(a)
         \/ \E m \in late_binds : BindNothingLate(m)
         \/ \E r \in heartbeats : \/ NoUpdate(r) \/ HeartbeatDenied(r)
                                  \/ HeartbeatFails(r)
         \/ \E m \in removals : Remove(m) \/ RemoveFails(m)
         \/ UNCHANGED vars
  PROVE  UNCHANGED <<now, address, granted, ack, last_ack_time, Lessee>>
<1>0. pc \in [Agents -> {"binding", "requested", "answered", "running",
                         "stopping", "removing", "down"}]
  BY DEF IInv, TypeOK
<1>1. UNCHANGED <<now, address, granted, ack, last_ack_time, slot>>
  BY DEF AddAgent, SendBind, BindNothing, BindNothingLate, BindReply,
         StartHeartbeat, SoftExit, SendRemove, Fork, NoUpdate, HeartbeatDenied, HeartbeatFails, Remove,
         RemoveFails, vars, tableVars, agentVars
<1>2. ASSUME NEW r \in heartbeats, HeartbeatDenied(r) \/ HeartbeatFails(r)
      PROVE  \A a \in Agents : Bound(a)' <=> Bound(a)
  <2>1. pc' = pc \/ SetSoftExit(r.agent)
    BY <1>2 DEF HeartbeatDenied, HeartbeatFails
  <2>. QED
    BY <1>0, <2>1 DEF SetSoftExit, Bound
<1>3. ASSUME NEW a \in Agents,
             \/ SendBind(a) \/ BindNothing(a) \/ BindReply(a) \/ SoftExit(a)
             \/ SendRemove(a) \/ Fork(a)
      PROVE  \A b \in Agents : Bound(b)' <=> Bound(b)
  BY <1>0, <1>3 DEF SendBind, BindNothing, BindReply, SoftExit, SetSoftExit,
                    SendRemove, Fork, Bound
<1>4. ASSUME pc' = pc
      PROVE  \A a \in Agents : Bound(a)' <=> Bound(a)
  BY <1>4 DEF Bound
<1>5. \A a \in Agents : Bound(a)' <=> Bound(a)
  BY <1>2, <1>3, <1>4 DEF AddAgent, BindNothingLate, StartHeartbeat, NoUpdate,
     Remove, RemoveFails, vars, agentVars
<1>. QED
  BY <1>1, <1>5, LesseeKept

\* The agents, their requests and the api server implement the lease.
THEOREM LeaseImplemented == Spec => ImplementsLease
<1>1. Init => Leases!Init
  <2>. SUFFICES ASSUME Init
                PROVE  Leases!Init
    OBVIOUS
  <2>1. now \in Nat
    BY SlotAssumption DEF Init, Start
  <2>2. Lessee = [a \in Agents |-> None]
    BY DEF Init, Bound, Lessee
  <2>. QED
    BY <2>1, <2>2 DEF Init, Leases!Init, Lessee
<1>2. IInv /\ [Next]_vars => [Leases!Next]_(Leases!leaseVars)
  <2>. SUFFICES ASSUME IInv, [Next]_vars
                PROVE  Leases!Next \/ UNCHANGED Leases!leaseVars
    OBVIOUS
  <2>. USE DEF Leases!slotVars, Leases!beliefVars
  <2>1. CASE Tick
    <3>1. Lessee' = Lessee
      BY <2>1, LesseeKept DEF Tick, agentVars, Bound
    <3>. QED
      BY <2>1, <3>1 DEF Tick, tableVars, agentVars, Leases!Next, Leases!Pass,
                        Lessee
  <2>2. ASSUME NEW a \in Agents, NEW s \in Slots, NEW t \in Start .. MaxTime,
               BindSlot(a, s, t)
        PROVE  Leases!Next
    BY <2>2, BindGrants DEF Leases!Next
  <2>8. ASSUME NEW m \in late_binds, NEW s \in Slots, NEW t \in Start .. MaxTime,
               BindSlotLate(m, s, t)
        PROVE  Leases!Next
    BY <2>8, LateBindGrants DEF Leases!Next
  <2>3. ASSUME NEW r \in heartbeats, NEW new \in Start .. MaxTime,
               Update(r, new)
        PROVE  Leases!Next
    BY <2>3, UpdateRenews DEF Leases!Next
  <2>4. ASSUME NEW r \in heartbeats, HeartbeatAcked(r)
        PROVE  Leases!Next
    BY <2>4, ReplyIsHeard DEF Leases!Next
  <2>5. ASSUME NEW a \in Agents, Die(a)
        PROVE  Leases!Next
    BY <2>5, DeathForgets DEF Leases!Next
  <2>6. CASE UNCHANGED <<now, address, granted, ack, last_ack_time, Lessee>>
    BY <2>6 DEF Leases!leaseVars, Lessee
  <2>7. \/ Tick
        \/ \E a \in Agents, s \in Slots, t \in Start .. MaxTime :
             BindSlot(a, s, t)
        \/ \E m \in late_binds, s \in Slots, t \in Start .. MaxTime :
             BindSlotLate(m, s, t)
        \/ \E r \in heartbeats, new \in Start .. MaxTime : Update(r, new)
        \/ \E r \in heartbeats : HeartbeatAcked(r)
        \/ \E a \in Agents : Die(a)
        \/ UNCHANGED <<now, address, granted, ack, last_ack_time, Lessee>>
    BY OtherStepsStutter, Zenon DEF Next, ApiServer, Answer
  <2>. QED
    BY <2>1, <2>2, <2>3, <2>4, <2>5, <2>6, <2>7, <2>8
<1>. QED
  BY <1>1, <1>2, Invariance, PTL DEF Spec, ImplementsLease, Leases!Spec

-----------------------------------------------------------------------------
(* What the lease promises                                                  *)

\* What makes the lease's promise inductive: what an agent has heard of is of
\* the lease that the slot is held by, and then it is the holder, or of one that
\* was over when that one was granted.
Heard(a) ==
  Lessee[a] # None =>
    LET s == Lessee[a] IN
    /\ last_ack_time[a] <= ack[s]
    /\ last_ack_time[a] >= granted[s] => address[s] = a
    /\ last_ack_time[a] < granted[s] => last_ack_time[a] + THRESHOLD < granted[s]

LeaseInv ==
  /\ now \in Nat
  /\ address \in [Slots -> Agents \cup {None}]
  /\ granted \in [Slots -> Nat]
  /\ ack \in [Slots -> Nat]
  /\ last_ack_time \in [Agents -> Nat]
  /\ Lessee \in [Agents -> Slots \cup {None}]
  /\ \A s \in Slots : granted[s] <= ack[s] /\ granted[s] <= now
  /\ \A a \in Agents : Heard(a)

LEMMA LeaseInvStep ==
  ASSUME LeaseInv, [Leases!Next]_(Leases!leaseVars)
  PROVE  LeaseInv'
<1> USE SlotAssumption DEF Leases!slotVars, Leases!beliefVars
<1>1. CASE UNCHANGED <<now, address, granted, ack, last_ack_time, Lessee>>
  BY <1>1 DEF LeaseInv, Heard
<1>2. CASE Leases!Pass
  BY <1>2 DEF LeaseInv, Heard, Leases!Pass, Lessee
<1>3. ASSUME NEW a \in Agents, Leases!Hear(a) PROVE LeaseInv'
  <2>1. /\ Lessee[a] # None /\ UNCHANGED <<now, address, granted, ack, Lessee>>
        /\ \E t \in last_ack_time[a] .. ack[Lessee[a]] :
             /\ last_ack_time[a] < granted[Lessee[a]] =>
                  t + THRESHOLD < granted[Lessee[a]]
             /\ last_ack_time' = [last_ack_time EXCEPT ![a] = t]
    BY <1>3 DEF Leases!Hear, Lessee
  <2> QED
    BY <2>1 DEF LeaseInv, Heard
<1>4. ASSUME NEW a \in Agents, Leases!Forget(a) PROVE LeaseInv'
  <2>1. /\ UNCHANGED <<now, address, granted, ack>>
        /\ Lessee' = [Lessee EXCEPT ![a] = None]
        /\ last_ack_time' = [last_ack_time EXCEPT ![a] = 0]
    BY <1>4 DEF Leases!Forget, Lessee
  <2> QED
    BY <2>1 DEF LeaseInv, Heard
<1>5. ASSUME NEW a \in Agents, NEW s \in Slots, Leases!Grant(a, s)
      PROVE  LeaseInv'
  <2>1. PICK t \in 0 .. now :
          /\ ack[s] + THRESHOLD < t
          /\ ack' = [ack EXCEPT ![s] = t]
          /\ granted' = [granted EXCEPT ![s] = t]
          /\ \/ /\ Lessee[a] = None
                /\ Lessee' = [Lessee EXCEPT ![a] = s]
                /\ last_ack_time' = [last_ack_time EXCEPT ![a] = t]
             \/ UNCHANGED <<Lessee, last_ack_time>>
    BY <1>5 DEF Leases!Grant, Lessee
  <2>2. now' = now /\ address' = [address EXCEPT ![s] = a]
    BY <1>5 DEF Leases!Grant, Lessee
  <2>3. ASSUME NEW b \in Agents PROVE Heard(b)'
    BY <2>1, <2>2 DEF LeaseInv, Heard
  <2> QED
    BY <2>1, <2>2, <2>3 DEF LeaseInv
<1>6. ASSUME NEW s \in Slots, Leases!Renew(s) PROVE LeaseInv'
  <2>1. PICK t \in 0 .. now :
          ack[s] < t /\ ack' = [ack EXCEPT ![s] = t]
    BY <1>6 DEF Leases!Renew
  <2>2. UNCHANGED <<now, address, granted, last_ack_time, Lessee>>
    BY <1>6 DEF Leases!Renew, Lessee
  <2> QED
    BY <2>1, <2>2 DEF LeaseInv, Heard
<1> QED
  BY <1>1, <1>2, <1>3, <1>4, <1>5, <1>6
  DEF Leases!Next, Leases!leaseVars, Lessee

LEMMA LeaseInvariance == Leases!Spec => []LeaseInv
<1>1. Leases!Init => LeaseInv
  BY SlotAssumption DEF Leases!Init, LeaseInv, Heard, Lessee
<1> QED
  BY <1>1, LeaseInvStep, PTL DEF Leases!Spec

\* What a lease promises follows from its own steps, whoever implements it: an
\* agent that knows of a lease that is not over has the slot, so that two never
\* do; and a lease that was overtaken by another grant does not come back.
THEOREM LeasesAreExclusive ==
  Leases!Spec => []Leases!Exclusive /\ Leases!LostForGood
<1>1. LeaseInv => Leases!Exclusive
  BY SlotAssumption
  DEF LeaseInv, Heard, Leases!Exclusive, Leases!Overtaken, Lessee
<1>2. LeaseInv /\ [Leases!Next]_(Leases!leaseVars) =>
        [\A a \in Agents :
           Leases!Overtaken(a) =>
             Lessee'[a] = None \/ (Lessee'[a] = Lessee[a] /\ Leases!Overtaken(a)')
        ]_(Leases!leaseVars)
  <2> SUFFICES ASSUME LeaseInv, LeaseInv', Leases!Next, NEW a \in Agents,
                      Lessee[a] # None, Lessee'[a] # None,
                      last_ack_time[a] < granted[Lessee[a]]
               PROVE  /\ Lessee'[a] = Lessee[a]
                      /\ last_ack_time'[a] < granted'[Lessee[a]]
    BY LeaseInvStep DEF Leases!Overtaken, Lessee
  <2> USE SlotAssumption DEF LeaseInv, Leases!slotVars, Leases!beliefVars
  <2>1. CASE UNCHANGED <<granted, last_ack_time, Lessee>>
    BY <2>1
  <2>2. ASSUME NEW b \in Agents, Leases!Forget(b)
        PROVE  /\ Lessee'[a] = Lessee[a]
               /\ UNCHANGED <<granted, last_ack_time[a]>>
    BY <2>2 DEF Leases!Forget, Lessee
  <2>3. ASSUME NEW b \in Agents, NEW s \in Slots, Leases!Grant(b, s)
        PROVE  /\ UNCHANGED <<Lessee[a], last_ack_time[a]>>
               /\ granted'[Lessee[a]] >= granted[Lessee[a]]
    <3>1. PICK t \in 0 .. now :
            /\ ack[s] + THRESHOLD < t
            /\ granted' = [granted EXCEPT ![s] = t]
            /\ \/ /\ Lessee[b] = None
                  /\ Lessee' = [Lessee EXCEPT ![b] = s]
                  /\ last_ack_time' = [last_ack_time EXCEPT ![b] = t]
               \/ UNCHANGED <<Lessee, last_ack_time>>
      BY <2>3 DEF Leases!Grant, Lessee
    <3>2. granted[s] <= ack[s]
      OBVIOUS
    <3> QED
      BY <3>1, <3>2
  <2>4. ASSUME NEW b \in Agents, Leases!Hear(b)
        PROVE  /\ Lessee' = Lessee /\ granted' = granted
               /\ last_ack_time'[a] < granted[Lessee[a]]
    <3>1. /\ UNCHANGED <<granted, Lessee>>
          /\ \E t \in last_ack_time[b] .. ack[Lessee[b]] :
               /\ last_ack_time[b] < granted[Lessee[b]] =>
                    t + THRESHOLD < granted[Lessee[b]]
               /\ last_ack_time' = [last_ack_time EXCEPT ![b] = t]
          /\ Lessee[b] # None
      BY <2>4 DEF Leases!Hear, Lessee
    <3> QED
      BY <3>1
  <2> QED
    BY <2>1, <2>2, <2>3, <2>4
    DEF Leases!Next, Leases!Pass, Leases!Renew, Lessee
<1> QED
  BY <1>1, <1>2, LeaseInvariance, PTL
  DEF Leases!Spec, Leases!LostForGood, Lessee
=============================================================================
