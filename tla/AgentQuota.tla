------------------------------ MODULE AgentQuota ------------------------------
(***************************************************************************)
(* add_agent and remove_agent (storage/mysql.py): each changes the agent   *)
(* table and a user's limit rule in a transaction on one connection of the *)
(* pool, and runs its second statement, for which it does not pass that    *)
(* connection on, on another one, where it commits by itself.              *)
(*                                                                         *)
(* One limit rule, of one user and one type of agent.  Requests are the    *)
(* calls one api server handles; it may crash, and any statement may fail, *)
(* before or after it took effect.  The locks are InnoDB's: a statement    *)
(* that waits for one too long fails, whoever waits for a connection of    *)
(* the pool waits for ever.  Of bind_to_free_slot, which uses the pool and *)
(* the table as well, the connection and the locks are here; what it does  *)
(* to its record is in AgentSlot.                                          *)
(***************************************************************************)
EXTENDS Integers, FiniteSets

CONSTANTS
  Requests,  \* calls of add_agent and remove_agent; each arrives once
  Binds,     \* calls of bind_to_free_slot, the same
  Ids,       \* ids of the agent table
  Add, None, \* what a request is to do: Add, or an id to remove
  MAX,       \* max_limit of the rule; add_user sets min_limit to 0
  POOL       \* maxsize of the connection pool

ASSUME QuotaAssumption ==
  /\ IsFiniteSet(Requests) /\ IsFiniteSet(Binds) /\ IsFiniteSet(Ids)
  /\ Requests \cap Binds = {}
  /\ Add # None /\ Add \notin Ids /\ None \notin Ids
  /\ MAX \in Nat
  /\ POOL \in Nat \ {0}

VARIABLES
  row,     \* the records of the agent table, as committed
  rule,    \* the columns request and current of the rule, as committed
  pc,      \* where each request is
  job,     \* what it is to do
  effect,  \* has its second statement taken effect, and its end not?
  drift,   \* history: how often the rule lost an agent that exists
  scan,    \* where each bind's SELECT ... FOR UPDATE is
  goal,    \* the record it has come to, None if there is none
  gaps     \* whose transactions lock the gap that new records are to go to

lockVars == <<scan, goal, gaps>>
vars == <<row, rule, pc, job, effect, drift, lockVars>>

(* "waiting": for its connection; "begun": BEGIN; "first": the first         *)
(* statement is done, it waits for a second connection; "second": it has     *)
(* one; "third": the second statement is done; "aborting": ROLLBACK is next  *)
Open == {"begun", "first", "second", "third", "aborting"}

TypeOK ==
  /\ row \in [Ids -> {"unborn", "present", "deleted"}]
  /\ rule \in [request : 0 .. MAX, current : Int]
  /\ pc \in [Requests -> {"new", "waiting", "over"} \cup Open]
  /\ job \in [Requests -> Ids \cup {Add, None}]
  /\ effect \in [Requests -> BOOLEAN]
  /\ drift \in Nat
  /\ scan \in [Binds -> {"new", "scanning", "scanned", "over"}]
  /\ goal \in [Binds -> Ids \cup {None}]
  /\ gaps \subseteq Requests \cup Binds

Present == {i \in Ids : row[i] = "present"}

\* The rules add_user makes for steady agents, all of which it requests at
\* once, and for dynamic agents; agents were added before.
Init ==
  /\ row \in [Ids -> {"unborn", "present"}]
  /\ Cardinality(Present) <= MAX
  /\ rule \in {[request |-> n, current |-> Cardinality(Present)] :
                 n \in {MAX, Cardinality(Present)}}
  /\ pc = [r \in Requests |-> "new"]
  /\ job = [r \in Requests |-> None]
  /\ effect = [r \in Requests |-> FALSE]
  /\ drift = 0
  /\ scan = [b \in Binds |-> "new"]
  /\ goal = [b \in Binds |-> None]
  /\ gaps = {}

-----------------------------------------------------------------------------
(* Connections and locks                                                    *)

HoldersWrong == {r \in Requests : pc[r] \in Open \cup {"over"}}

\* Connections of the pool in use: one per transaction, one per second
\* statement.
Holders == {r \in Requests : pc[r] \in Open}
Seconds == {r \in Requests : pc[r] = "second"}
Scanners == {b \in Binds : scan[b] \in {"scanning", "scanned"}}
Available ==
  Cardinality(Holders) + Cardinality(Seconds) + Cardinality(Scanners) < POOL

LocksWrong(r) == effect[r]

\* The first statement's lock lasts until the end of the transaction.
Locks(r) == pc[r] \in {"first", "second", "third"} \/ effect[r]
RuleLocked == \E r \in Requests : job[r] = Add /\ Locks(r)
Removing(i) == i \in Present /\ \E r \in Requests : job[r] = i /\ Locks(r)
RowLocked(i) ==
  Removing(i) \/ \E b \in Binds : scan[b] = "scanned" /\ goal[b] = i

\* Its statement waits for a lock.  Locks of the gap let each other pass.
Blocked(r) ==
  \/ pc[r] = "begun" /\ (IF job[r] = Add THEN RuleLocked ELSE RowLocked(job[r]))
  \/ pc[r] = "second" /\ (IF job[r] = Add THEN gaps # {} ELSE RuleLocked)
ScanBlocked(b) == scan[b] = "scanning" /\ RowLocked(goal[b])

Goto(r, point) == pc' = [pc EXCEPT ![r] = point]
-----------------------------------------------------------------------------
(* The requests                                                             *)

\* Bound: the ids are enough for the adds under way.
IdsLeft ==
  Cardinality({i \in Ids : row[i] = "unborn"})
    > Cardinality({r \in Requests : job[r] = Add /\ pc[r] # "over"})

\* The router adds agents, an agent that tears down removes its own: by the id
\* it was given, whether or not that record is still there.
Arrive(r, j) ==
  /\ pc[r] = "new"
  /\ IF j = Add THEN IdsLeft ELSE row[j] # "unborn"
  /\ job' = [job EXCEPT ![r] = j]
  /\ Goto(r, "waiting")
  /\ UNCHANGED <<row, rule, effect, drift, lockVars>>

\* async with self.pool.acquire(), and BEGIN.
Acquire(r) ==
  /\ pc[r] = "waiting" /\ Available
  /\ Goto(r, "begun")
  /\ UNCHANGED <<row, rule, job, effect, drift, lockVars>>

FirstStatementWrong(r) ==
  /\ pc[r] = "begun" /\ ~Blocked(r)
  /\ Goto(r, "first")
  /\ UNCHANGED <<row, rule, job, effect, drift, lockVars>>

\* The UPDATE of an add or the DELETE of a removal.  The view's CHECK OPTION
\* refuses a request above the maximum; a DELETE that finds no record is fine,
\* but locks the gap where the record would be: the end of the table, if no
\* greater id is left there.
FirstStatement(r) ==
  /\ pc[r] = "begun" /\ ~Blocked(r)
  /\ IF job[r] = Add /\ rule.request >= MAX
     THEN Goto(r, "aborting")
     ELSE Goto(r, "first")
  /\ \/ UNCHANGED gaps
     \/ job[r] \in Ids \ Present /\ gaps' = gaps \cup {r}
  /\ UNCHANGED <<row, rule, job, effect, drift, scan, goal>>

\* _execute without conn: another connection.
AcquireSecond(r) ==
  /\ pc[r] = "first" /\ Available
  /\ Goto(r, "second")
  /\ UNCHANGED <<row, rule, job, effect, drift, lockVars>>

InsertAgent(r) ==
  /\ pc[r] = "second" /\ job[r] = Add /\ gaps = {}
  /\ \E i \in Ids : row[i] = "unborn" /\ row' = [row EXCEPT ![i] = "present"]
  /\ UNCHANGED <<rule, drift>>

\* The CHECK OPTION refuses a request below the minimum.  The number of
\* affected rows of the DELETE before it is not looked at.
DecrementRule(r) ==
  /\ pc[r] = "second" /\ job[r] # Add /\ ~RuleLocked
  /\ rule.request > 0
  /\ rule' = [request |-> rule.request - 1, current |-> rule.current - 1]
  /\ drift' = IF job[r] \in Present THEN drift ELSE drift + 1
  /\ UNCHANGED row

\* It takes effect; what comes back is its success or an error.
SecondStatement(r) ==
  /\ InsertAgent(r) \/ DecrementRule(r)
  /\ effect' = [effect EXCEPT ![r] = TRUE]
  /\ Goto(r, "third") \/ Goto(r, "aborting")
  /\ UNCHANGED <<job, lockVars>>

SecondRefused(r) ==
  /\ pc[r] = "second" /\ job[r] # Add /\ ~RuleLocked
  /\ rule.request = 0
  /\ Goto(r, "aborting")
  /\ UNCHANGED <<row, rule, job, effect, drift, lockVars>>

\* A statement, or getting a connection for it, fails without any effect.
StatementFails(r) ==
  /\ pc[r] \in {"begun", "first", "second"}
  /\ Goto(r, "aborting")
  /\ UNCHANGED <<row, rule, job, effect, drift, lockVars>>

\* innodb_lock_wait_timeout
LockWaitTimesOut(r) == Blocked(r) /\ StatementFails(r)

CommitWrong(r) ==
  /\ pc[r] \in {"third", "aborting"}
  /\ IF job[r] = Add
     THEN /\ rule' = [request |-> rule.request + 1, current |-> rule.current + 1]
          /\ UNCHANGED row
     ELSE /\ row' = [row EXCEPT ![job[r]] = "deleted"]
          /\ UNCHANGED rule
  /\ effect' = [effect EXCEPT ![r] = FALSE]
  /\ gaps' = gaps \ {r}
  /\ Goto(r, "over")
  /\ UNCHANGED <<job, drift, scan, goal>>

\* The first statement takes effect.
Commit(r) ==
  /\ pc[r] = "third"
  /\ IF job[r] = Add
     THEN /\ rule' = [request |-> rule.request + 1, current |-> rule.current + 1]
          /\ UNCHANGED row
     ELSE /\ row' = [row EXCEPT ![job[r]] = "deleted"]
          /\ UNCHANGED rule
  /\ effect' = [effect EXCEPT ![r] = FALSE]
  /\ gaps' = gaps \ {r}
  /\ Goto(r, "over")
  /\ UNCHANGED <<job, drift, scan, goal>>

\* An agent was added, or is still there, that the rule does not count.
Uncounted(r) == effect[r] /\ (job[r] = Add \/ job[r] \in Present)

\* After an error, or because COMMIT failed: the first statement does not.
Rollback(r) ==
  /\ pc[r] \in {"third", "aborting"}
  /\ effect' = [effect EXCEPT ![r] = FALSE]
  /\ drift' = IF Uncounted(r) THEN drift + 1 ELSE drift
  /\ gaps' = gaps \ {r}
  /\ Goto(r, "over")
  /\ UNCHANGED <<row, rule, job, scan, goal>>

\* The api server dies: the database rolls back what is open.
Crash ==
  /\ pc' = [r \in Requests |-> IF pc[r] = "new" THEN "new" ELSE "over"]
  /\ effect' = [r \in Requests |-> FALSE]
  /\ drift' = drift + Cardinality({r \in Requests : Uncounted(r)})
  /\ scan' = [b \in Binds |-> IF scan[b] = "new" THEN "new" ELSE "over"]
  /\ goal' = [b \in Binds |-> None]
  /\ gaps' = {}
  /\ UNCHANGED <<row, rule, job>>

\* bind_to_free_slot: a connection, BEGIN, and the first of the records of the
\* index that its SELECT ... FOR UPDATE comes to, or none.  It locks the gap
\* before that record, where agents that were never bound are inserted.
ScanBegins(b) ==
  /\ scan[b] = "new" /\ Available
  /\ \E i \in Present \cup {None} : goal' = [goal EXCEPT ![b] = i]
  /\ scan' = [scan EXCEPT ![b] = "scanning"]
  /\ gaps' = gaps \/ gaps' = gaps \cup {b}
  /\ UNCHANGED <<row, rule, pc, job, effect, drift>>

ScanLocks(b) ==
  /\ scan[b] = "scanning" /\ goal[b] # None /\ ~ScanBlocked(b)
  /\ scan' = [scan EXCEPT ![b] = "scanned"]
  /\ UNCHANGED <<row, rule, pc, job, effect, drift, goal, gaps>>

\* After the UPDATE on the same connection, at once if there is no record, or by
\* the lock's time-out.
ScanEnds(b) ==
  /\ \/ scan[b] = "scanned" \/ ScanBlocked(b)
     \/ scan[b] = "scanning" /\ goal[b] = None
  /\ scan' = [scan EXCEPT ![b] = "over"]
  /\ goal' = [goal EXCEPT ![b] = None]
  /\ gaps' = gaps \ {b}
  /\ UNCHANGED <<row, rule, pc, job, effect, drift>>

ScanProceeds(b) == ScanLocks(b) \/ ScanEnds(b)

Proceed(r) ==
  \/ Acquire(r) \/ FirstStatement(r)
  \/ AcquireSecond(r) \/ SecondStatement(r) \/ SecondRefused(r)
  \/ Commit(r) \/ LockWaitTimesOut(r)
  \/ pc[r] = "aborting" /\ Rollback(r)

Next ==
  \/ \E r \in Requests :
       \/ \E j \in Ids \cup {Add} : Arrive(r, j)
       \/ Proceed(r) \/ StatementFails(r) \/ Rollback(r)
  \/ \E b \in Binds : ScanBegins(b) \/ ScanProceeds(b)
  \/ Crash

Spec == Init /\ [][Next]_vars

\* The event loop and the database go on with every request.
Fairness ==
  /\ \A r \in Requests : WF_vars(Proceed(r))
  /\ \A b \in Binds : WF_vars(ScanProceeds(b))

LiveSpec == Spec /\ Fairness
-----------------------------------------------------------------------------
(* Properties                                                               *)

InFlight == {r \in Requests : Uncounted(r)}

\* The rule counts the agents of the table but for the changes in flight and
\* for those a failure or a repeated removal made it lose: it never counts an
\* agent that is not there, so no part of a quota is lost for good.
AccountsBalance ==
  /\ drift \in Nat
  /\ Cardinality(Present) = rule.current + Cardinality(InFlight) + drift

\* There are never more agents than max_limit, but for those being removed and
\* those the rule lost.
LimitHolds ==
  Cardinality(Present)
    <= MAX + Cardinality({r \in InFlight : job[r] # Add}) + drift

\* The view refuses to remove an agent that is there only when the rule has lost
\* one before.
RemovableWhileCounted ==
  \A r \in Requests :
    /\ pc[r] = "second" /\ job[r] \in Present
    /\ ~RuleLocked /\ rule.request = 0
    => drift > 0

\* Every connection is held by a request that waits for another one.
Exhausted == Cardinality({r \in Requests : pc[r] = "first"}) >= POOL

\* Requests that wait for locks and connections end, for a timeout breaks every
\* circle of them but one: the pool's connections all in the hands of requests
\* that wait for their second one.
RequestsEnd ==
  \A r \in Requests : (pc[r] = "waiting") ~> (pc[r] = "over" \/ Exhausted)
=============================================================================
