--------------------------------- MODULE Lease ---------------------------------
(***************************************************************************)
(* What the slots of the agent table promise: a lease.  A slot has one      *)
(* holder; the lease runs for THRESHOLD from its last renewal; nobody is    *)
(* granted the slot again before it is over; and what an agent knows of its *)
(* lease may be old, but while that is not over the slot is its own.  A     *)
(* grant may be lost on its way to the holder: then nobody has the slot     *)
(* until the lease is over.                                                 *)
(*                                                                         *)
(* Requests, replies, retries and processes do not appear: AgentSlot        *)
(* implements this module with them.                                        *)
(***************************************************************************)
EXTENDS Integers

CONSTANTS Agents, Slots, None, THRESHOLD

VARIABLES
  now,
  holder,  \* whom a slot was granted to last
  since,   \* when that was, 0 if it never was
  renewed, \* when a slot was granted or renewed last
  lessee,  \* the slot that an agent believes to hold
  heard    \* the renewal of it that the agent heard of

slotVars == <<holder, since, renewed>>
beliefVars == <<lessee, heard>>
leaseVars == <<now, slotVars, beliefVars>>

Init ==
  /\ now \in Nat
  /\ holder = [s \in Slots |-> None]
  /\ since = [s \in Slots |-> 0]
  /\ renewed = [s \in Slots |-> 0]
  /\ lessee = [a \in Agents |-> None]
  /\ heard = [a \in Agents |-> 0]

Pass == now' = now + 1 /\ UNCHANGED <<slotVars, beliefVars>>

\* Only when the lease before is over.  An agent that holds nothing learns of
\* its lease; one that has a slot, or has forgotten that it asked, does not.
Grant(a, s) ==
  /\ \E t \in 0 .. now :
       /\ renewed[s] + THRESHOLD < t
       /\ renewed' = [renewed EXCEPT ![s] = t]
       /\ since' = [since EXCEPT ![s] = t]
       /\ \/ /\ lessee[a] = None
             /\ lessee' = [lessee EXCEPT ![a] = s]
             /\ heard' = [heard EXCEPT ![a] = t]
          \/ UNCHANGED beliefVars
  /\ holder' = [holder EXCEPT ![s] = a]
  /\ UNCHANGED now

\* In the name of the holder, who hears of it later, or never.
Renew(s) ==
  /\ holder[s] # None
  /\ \E t \in 0 .. now :
       /\ renewed[s] < t
       /\ renewed' = [renewed EXCEPT ![s] = t]
  /\ UNCHANGED <<now, holder, since, beliefVars>>

\* News of a lease that another grant has ended are news from before that grant,
\* of a lease that was over by then.
Hear(a) ==
  /\ lessee[a] # None
  /\ LET s == lessee[a] IN
     \E t \in heard[a] .. renewed[s] :
       /\ heard[a] < since[s] => t + THRESHOLD < since[s]
       /\ heard' = [heard EXCEPT ![a] = t]
  /\ UNCHANGED <<now, slotVars, lessee>>

\* The agent is gone; its lease ends by itself.
Forget(a) ==
  /\ lessee' = [lessee EXCEPT ![a] = None]
  /\ heard' = [heard EXCEPT ![a] = 0]
  /\ UNCHANGED <<now, slotVars>>

Next ==
  \/ Pass
  \/ \E a \in Agents : Hear(a) \/ Forget(a) \/ \E s \in Slots : Grant(a, s)
  \/ \E s \in Slots : Renew(s)

Spec == Init /\ [][Next]_leaseVars

-----------------------------------------------------------------------------
\* The agent's slot was granted again, be it to another or to a predecessor with
\* the same name, and what the agent has heard of is older.
Overtaken(a) == lessee[a] # None /\ heard[a] < since[lessee[a]]

\* The lease: what an agent has heard of, as long as it is not over, makes the
\* slot its own, and by the grant it heard of, so that two agents never have the
\* same one.
Exclusive ==
  \A a \in Agents :
    lessee[a] # None /\ heard[a] + THRESHOLD >= now =>
      holder[lessee[a]] = a /\ ~Overtaken(a)

\* A lease that was overtaken is lost for good: whatever its lessee hears, and
\* to whomever the slot is granted, its lessee has to forget it and ask again.
LostForGood ==
  [][\A a \in Agents :
       Overtaken(a) =>
         lessee'[a] = None \/ (lessee'[a] = lessee[a] /\ Overtaken(a)')]_leaseVars
=============================================================================
