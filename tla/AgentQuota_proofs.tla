-------------------------- MODULE AgentQuota_proofs --------------------------
(***************************************************************************)
(* Proofs about AgentQuota, for every number of requests and ids, every    *)
(* limit and every size of the connection pool.                            *)
(***************************************************************************)
EXTENDS AgentQuota, FiniteSetTheorems, TLAPS

\* What is known of a request at each of its points.
Phases ==
  \A r \in Requests :
    /\ effect[r] => pc[r] \in {"third", "aborting"}
    /\ pc[r] = "third" => effect[r]
    /\ pc[r] \in Open \cup {"waiting"} => job[r] # None
    /\ job[r] \in Ids => row[job[r]] # "unborn"

\* The locks exclude: one add changes the rule, one removal deletes a record.
Exclusive ==
  \A q, r \in Requests :
    /\ Locks(q) /\ Locks(r)
    /\ job[q] = job[r] /\ job[r] \in Present \cup {Add}
    => q = r

\* The rule requests what it counts, and what the add that locked it adds.
Room ==
  /\ rule.current <= rule.request
  /\ \A r \in Requests : job[r] = Add /\ Locks(r) => rule.request < MAX

\* Who locks the gap has a transaction open that did not begin with the rule.
GapHolders ==
  /\ \A r \in Requests :
       r \in gaps => job[r] # Add /\ pc[r] \in Open \ {"begun"}
  /\ \A b \in Binds : b \in gaps => b \in Scanners

LockInv == TypeOK /\ Phases /\ Exclusive /\ Room /\ GapHolders

IInv == LockInv /\ AccountsBalance

LEMMA Finite == IsFiniteSet(Present) /\ IsFiniteSet(InFlight)
BY FS_Subset, QuotaAssumption DEF Present, InFlight

LEMMA InitHolds == Init => IInv
<1> SUFFICES ASSUME Init PROVE IInv
  OBVIOUS
<1>1. Cardinality(Present) \in Nat
  BY Finite, FS_CardinalityType
<1>2. InFlight = {}
  BY DEF Init, InFlight, Uncounted
<1>3. Cardinality(InFlight) = 0
  BY <1>2, FS_EmptySet
<1>4. rule \in [request : 0 .. MAX, current : Int] /\ rule.current <= rule.request
      /\ rule.current = Cardinality(Present)
  BY <1>1, QuotaAssumption DEF Init
<1>5. TypeOK /\ Phases /\ Exclusive /\ GapHolders
  BY <1>4, QuotaAssumption
  DEF Init, TypeOK, Open, Phases, Exclusive, Locks, GapHolders
<1>6. Room
  BY <1>4, QuotaAssumption DEF Init, Room, Locks
<1>7. AccountsBalance
  BY <1>1, <1>3, <1>4 DEF Init, AccountsBalance
<1> QED
  BY <1>5, <1>6, <1>7 DEF IInv, LockInv

-----------------------------------------------------------------------------
(* Steps that only move a request                                           *)

\* Arriving and waiting change neither the tables nor what is in flight.
LEMMA MoveHolds ==
  ASSUME IInv, NEW r \in Requests,
         \/ \E j \in Ids \cup {Add} : Arrive(r, j)
         \/ Acquire(r) \/ FirstStatement(r) \/ AcquireSecond(r)
         \/ SecondRefused(r) \/ StatementFails(r)
  PROVE  IInv'
<1> USE DEF IInv, LockInv, Goto, lockVars
<1>1. ASSUME NEW j \in Ids \cup {Add}, Arrive(r, j)
      PROVE  LockInv' /\ InFlight' = InFlight
  <2>1. TypeOK' /\ Phases' /\ Exclusive' /\ Room' /\ InFlight' = InFlight
    BY <1>1, QuotaAssumption
    DEF Arrive, TypeOK, Open, Phases, Exclusive, Room, Locks, Present, InFlight,
        Uncounted
  <2>2. GapHolders'
    BY <1>1 DEF Arrive, TypeOK, Open, GapHolders, Scanners
  <2> QED
    BY <2>1, <2>2
<1>2. ASSUME Acquire(r) \/ AcquireSecond(r) \/ SecondRefused(r)
               \/ StatementFails(r)
      PROVE  LockInv' /\ InFlight' = InFlight
  <2>0. /\ UNCHANGED <<row, rule, job, effect, drift, lockVars>>
        /\ \E p \in {"begun", "second", "aborting"} :
             /\ Goto(r, p) /\ pc[r] # "third" /\ pc[r] # "aborting"
             /\ pc[r] \in Open \/ pc[r] = "waiting"
             /\ p = "second" => pc[r] = "first"
             /\ p = "begun" => pc[r] = "waiting"
    BY <1>2
    DEF Acquire, AcquireSecond, SecondRefused, StatementFails, Open
  <2>1. Present' = Present /\ InFlight' = InFlight
    BY <2>0 DEF Present, InFlight, Uncounted
  <2>2. TypeOK'
    BY <2>0 DEF TypeOK, Open
  <2>3. Phases'
    BY <2>0 DEF TypeOK, Open, Phases
  <2>4. \A q \in Requests : Locks(q)' => Locks(q)
    BY <2>0 DEF TypeOK, Locks
  <2>5. Exclusive' /\ Room'
    BY <2>0, <2>1, <2>4 DEF Exclusive, Room
  <2>6. GapHolders'
    BY <2>0 DEF TypeOK, Open, GapHolders, Scanners
  <2> QED
    BY <2>1, <2>2, <2>3, <2>5, <2>6
<1>3. ASSUME FirstStatement(r)
      PROVE  LockInv' /\ InFlight' = InFlight
  <2>1. TypeOK' /\ Phases' /\ InFlight' = InFlight /\ Present' = Present
    BY <1>3, QuotaAssumption
    DEF FirstStatement, TypeOK, Open, Phases, Present, InFlight, Uncounted
  <2>2. Exclusive' /\ Room'
    BY <1>3, QuotaAssumption
    DEF FirstStatement, Blocked, RuleLocked, RowLocked, Removing, TypeOK, Phases,
        Exclusive, Room, Locks, Present
  <2>3. GapHolders'
    <3>1. gaps' \subseteq gaps \cup {r} /\ (r \in gaps' => job[r] # Add)
      BY <1>3, QuotaAssumption DEF FirstStatement, GapHolders
    <3>2. /\ scan' = scan /\ job' = job
          /\ \E p \in {"first", "aborting"} : pc' = [pc EXCEPT ![r] = p]
      BY <1>3 DEF FirstStatement
    <3> QED
      BY <3>1, <3>2, QuotaAssumption DEF TypeOK, Open, GapHolders, Scanners
  <2> QED
    BY <2>1, <2>2, <2>3
<1>4. UNCHANGED <<row, rule, drift>>
  BY DEF Arrive, Acquire, FirstStatement, AcquireSecond, SecondRefused,
         StatementFails
<1>5. LockInv' /\ InFlight' = InFlight
  BY <1>1, <1>2, <1>3
<1>6. AccountsBalance'
  BY <1>4, <1>5 DEF AccountsBalance, Present
<1> QED
  BY <1>5, <1>6

\* A bind changes nothing but its locks.
LEMMA ScanHolds ==
  ASSUME IInv, NEW b \in Binds, ScanBegins(b) \/ ScanProceeds(b)
  PROVE  IInv'
<1> USE DEF IInv, LockInv, ScanBegins, ScanProceeds, ScanLocks, ScanEnds
<1>1. UNCHANGED <<row, rule, pc, job, effect, drift>>
  OBVIOUS
<1>2. Present' = Present /\ InFlight' = InFlight
  BY <1>1 DEF Present, InFlight, Uncounted
<1>3. TypeOK'
  BY <1>1, QuotaAssumption DEF TypeOK, Present
<1>4. Phases' /\ Exclusive' /\ Room' /\ AccountsBalance'
  BY <1>1, <1>2 DEF Phases, Exclusive, Locks, Room, AccountsBalance
<1>5. GapHolders'
  BY <1>1, QuotaAssumption DEF TypeOK, GapHolders, Scanners
<1> QED
  BY <1>3, <1>4, <1>5

-----------------------------------------------------------------------------
(* Steps that change the tables                                             *)

\* What the second statement does to the request.
TakesEffect(r) ==
  /\ effect' = [effect EXCEPT ![r] = TRUE]
  /\ Goto(r, "third") \/ Goto(r, "aborting")
  /\ UNCHANGED <<job, lockVars>>

LEMMA GapHoldersStay ==
  ASSUME IInv, NEW r \in Requests, pc[r] = "second", TakesEffect(r)
  PROVE  GapHolders'
BY DEF IInv, LockInv, TypeOK, Open, GapHolders, Scanners, TakesEffect, Goto, lockVars

LEMMA InsertHolds ==
  ASSUME IInv, NEW r \in Requests, InsertAgent(r), TakesEffect(r)
  PROVE  IInv'
<1> USE DEF IInv, LockInv, InsertAgent, TakesEffect, Goto, lockVars
<1>1. PICK i \in Ids : row[i] = "unborn" /\ row' = [row EXCEPT ![i] = "present"]
  OBVIOUS
<1>2. Present' = Present \cup {i} /\ i \notin Present
  BY <1>1 DEF TypeOK, Present
<1>3. \A q \in Requests : job[q] # i
  BY <1>1 DEF Phases
<1>4. InFlight' = InFlight \cup {r} /\ r \notin InFlight
  BY <1>2, <1>3, QuotaAssumption DEF TypeOK, Phases, InFlight, Uncounted
<1>5. TypeOK' /\ Phases'
  BY <1>1, QuotaAssumption DEF TypeOK, Phases, Open
<1>6. \A q \in Requests : Locks(q)' = Locks(q)
  BY DEF TypeOK, Locks
<1>7. Exclusive' /\ Room'
  BY <1>2, <1>3, <1>6 DEF Exclusive, Room
<1>8. Cardinality(Present') = Cardinality(Present) + 1
  BY <1>2, Finite, FS_AddElement
<1>9. Cardinality(InFlight') = Cardinality(InFlight) + 1
  BY <1>4, Finite, FS_AddElement
<1>10. Cardinality(Present) \in Nat /\ Cardinality(InFlight) \in Nat
  BY Finite, FS_CardinalityType
<1>11. AccountsBalance'
  BY <1>8, <1>9, <1>10 DEF AccountsBalance, TypeOK
<1> QED
  BY <1>5, <1>7, <1>11, GapHoldersStay

LEMMA DecrementHolds ==
  ASSUME IInv, NEW r \in Requests, DecrementRule(r), TakesEffect(r)
  PROVE  IInv'
<1>0. GapHolders'
  BY GapHoldersStay DEF DecrementRule
<1> USE DEF IInv, LockInv, DecrementRule, TakesEffect, Goto, lockVars
<1>1. Present' = Present /\ job[r] # Add /\ job' = job
  BY DEF Present
<1>2. TypeOK' /\ Phases'
  BY QuotaAssumption DEF TypeOK, Phases, Open
<1>3. \A q \in Requests : Locks(q)' = Locks(q)
  BY DEF TypeOK, Locks
<1>4. Exclusive' /\ Room'
  <2>1. rule.request \in Int /\ rule.current \in Int /\ MAX \in Int
    BY QuotaAssumption DEF TypeOK
  <2>2. rule'.request = rule.request - 1 /\ rule'.current = rule.current - 1
    OBVIOUS
  <2>3. Room'
    BY <1>1, <1>3, <2>1, <2>2 DEF Room
  <2> QED
    BY <1>1, <1>3, <2>3 DEF Exclusive
<1>5. Cardinality(Present) \in Nat /\ Cardinality(InFlight) \in Nat
  BY Finite, FS_CardinalityType
<1>6. r \notin InFlight /\ rule'.current = rule.current - 1
  BY DEF Phases, InFlight, Uncounted
<1>7. CASE job[r] \in Present
  <2>1. InFlight' = InFlight \cup {r}
    BY <1>1, <1>7 DEF TypeOK, InFlight, Uncounted
  <2>2. Cardinality(InFlight') = Cardinality(InFlight) + 1
    BY <2>1, <1>6, Finite, FS_AddElement
  <2> QED
    BY <1>0, <1>1, <1>2, <1>4, <1>5, <1>6, <1>7, <2>2
    DEF AccountsBalance, TypeOK
<1>8. CASE job[r] \notin Present
  <2>1. InFlight' = InFlight
    BY <1>1, <1>6, <1>8 DEF TypeOK, InFlight, Uncounted
  <2> QED
    BY <1>0, <1>1, <1>2, <1>4, <1>5, <1>6, <1>8, <2>1
    DEF AccountsBalance, TypeOK
<1> QED
  BY <1>7, <1>8

\* At the end of a transaction nothing it did is in flight or locked any more.
LEMMA EndReleases ==
  ASSUME IInv, NEW r \in Requests, effect' = [effect EXCEPT ![r] = FALSE],
         gaps' = gaps \ {r}, Goto(r, "over"), UNCHANGED <<job, scan, goal>>
  PROVE  /\ \A q \in Requests : Locks(q)' = (q # r /\ Locks(q))
         /\ ~effect'[r] /\ \A q \in Requests \ {r} : effect'[q] = effect[q]
         /\ GapHolders'
BY DEF IInv, LockInv, TypeOK, Locks, Goto, GapHolders, Scanners

LEMMA CommitHolds ==
  ASSUME IInv, NEW r \in Requests, Commit(r)
  PROVE  IInv'
<1> USE DEF IInv, LockInv, Commit
<1>1. /\ \A q \in Requests : Locks(q)' = (q # r /\ Locks(q))
      /\ ~effect'[r] /\ \A q \in Requests \ {r} : effect'[q] = effect[q]
      /\ GapHolders'
  BY EndReleases
<1>2. effect[r] /\ Locks(r) /\ job[r] # None
  BY DEF Phases, Locks, Open
<1>3. Cardinality(Present) \in Nat /\ Cardinality(InFlight) \in Nat
  BY Finite, FS_CardinalityType
<1>4. CASE job[r] = Add
  <2>1. Present' = Present /\ job[r] \notin Ids
    BY <1>4, QuotaAssumption DEF Present
  <2>2. InFlight' = InFlight \ {r} /\ r \in InFlight
    BY <1>1, <1>2, <1>4, <2>1 DEF InFlight, Uncounted
  <2>3. Cardinality(InFlight') = Cardinality(InFlight) - 1
    BY <2>2, Finite, FS_RemoveElement
  <2>4. rule.request < MAX
    BY <1>2, <1>4 DEF Room
  <2>5. TypeOK' /\ Phases'
    BY <1>4, <2>4, QuotaAssumption DEF TypeOK, Phases, Goto, Open
  <2>6. Exclusive' /\ Room'
    <3>1. \A q \in Requests : job[q] = Add => ~Locks(q)'
      BY <1>1, <1>2, <1>4 DEF Exclusive
    <3> QED
      BY <1>1, <1>4, <2>1, <3>1 DEF Exclusive, Room, TypeOK
  <2> QED
    BY <1>1, <1>3, <1>4, <2>1, <2>3, <2>5, <2>6 DEF AccountsBalance, TypeOK
<1>5. CASE job[r] # Add
  <2>1. job[r] \in Ids
    BY <1>2, <1>5 DEF TypeOK
  <2>2. Present' = Present \ {job[r]}
    BY <1>5, <2>1 DEF TypeOK, Present
  <2>3. TypeOK' /\ Phases'
    BY <1>5, <2>1, QuotaAssumption DEF TypeOK, Phases, Goto, Open
  <2>4. Exclusive' /\ Room'
    BY <1>1, <1>5, <2>2 DEF Exclusive, Room, TypeOK
  <2>5. CASE job[r] \in Present
    <3>1. \A q \in Requests \ {r} : Locks(q) => job[q] # job[r]
      BY <1>2, <2>5 DEF Exclusive
    <3>2. \A q \in Requests \ {r} : effect[q] => job[q] # job[r]
      BY <3>1 DEF Locks
    <3>3. InFlight' = InFlight \ {r} /\ r \in InFlight
      BY <1>1, <1>2, <2>2, <2>5, <3>2 DEF InFlight, Uncounted
    <3>4. Cardinality(InFlight') = Cardinality(InFlight) - 1
      BY <3>3, Finite, FS_RemoveElement
    <3>5. Cardinality(Present') = Cardinality(Present) - 1
      BY <2>2, <2>5, Finite, FS_RemoveElement
    <3> QED
      BY <1>1, <1>3, <1>5, <2>3, <2>4, <3>4, <3>5 DEF AccountsBalance, TypeOK
  <2>6. CASE job[r] \notin Present
    <3>1. InFlight' = InFlight /\ Present' = Present
      BY <1>1, <1>5, <2>2, <2>6 DEF InFlight, Uncounted
    <3> QED
      BY <1>1, <1>3, <1>5, <2>3, <2>4, <3>1 DEF AccountsBalance, TypeOK
  <2> QED
    BY <2>5, <2>6
<1> QED
  BY <1>4, <1>5

LEMMA RollbackHolds ==
  ASSUME IInv, NEW r \in Requests, Rollback(r)
  PROVE  IInv'
<1> USE DEF IInv, LockInv, Rollback
<1>1. /\ \A q \in Requests : Locks(q)' = (q # r /\ Locks(q))
      /\ ~effect'[r] /\ \A q \in Requests \ {r} : effect'[q] = effect[q]
      /\ GapHolders'
  BY EndReleases
<1>2. Present' = Present
  BY DEF Present
<1>3. InFlight' = InFlight \ {r} /\ (r \in InFlight <=> Uncounted(r))
  BY <1>1, <1>2 DEF InFlight, Uncounted
<1>4. Cardinality(InFlight') =
        IF Uncounted(r) THEN Cardinality(InFlight) - 1 ELSE Cardinality(InFlight)
  BY <1>3, Finite, FS_RemoveElement
<1>5. Cardinality(Present) \in Nat /\ Cardinality(InFlight) \in Nat
  BY Finite, FS_CardinalityType
<1>6. TypeOK' /\ Phases'
  BY QuotaAssumption DEF TypeOK, Phases, Goto, Open
<1>7. Exclusive' /\ Room'
  BY <1>1, <1>2 DEF Exclusive, Room
<1>8. AccountsBalance'
  BY <1>2, <1>4, <1>5 DEF AccountsBalance, TypeOK
<1> QED
  BY <1>1, <1>6, <1>7, <1>8

LEMMA CrashHolds == ASSUME IInv, Crash PROVE IInv'
<1> USE DEF IInv, LockInv, Crash
<1>1. \A r \in Requests : ~Locks(r)'
  BY DEF Locks
<1>2. InFlight' = {} /\ Present' = Present
  BY DEF InFlight, Uncounted, Present
<1>3. Cardinality(InFlight') = 0 /\ Cardinality(InFlight) \in Nat
  BY <1>2, Finite, FS_CardinalityType, FS_EmptySet
<1>4. drift' = drift + Cardinality(InFlight)
  BY DEF InFlight
<1>5. TypeOK' /\ Phases'
  BY <1>3, <1>4 DEF TypeOK, Phases, Open
<1>6. Exclusive' /\ Room' /\ GapHolders'
  BY <1>1 DEF Exclusive, Room, GapHolders
<1>7. AccountsBalance'
  BY <1>2, <1>3, <1>4 DEF AccountsBalance, TypeOK
<1> QED
  BY <1>5, <1>6, <1>7

LEMMA NextHolds == ASSUME IInv, [Next]_vars PROVE IInv'
<1>1. CASE UNCHANGED vars
  <2>1. Present' = Present /\ InFlight' = InFlight
    BY <1>1 DEF vars, Present, InFlight, Uncounted
  <2> QED
    BY <1>1, <2>1
    DEF vars, lockVars, IInv, LockInv, TypeOK, Phases, Exclusive, Locks, Room,
        GapHolders, Scanners, AccountsBalance
<1>2. ASSUME NEW r \in Requests, SecondStatement(r)
      PROVE  IInv'
  BY <1>2, InsertHolds, DecrementHolds DEF SecondStatement, TakesEffect
<1>3. ASSUME NEW r \in Requests, Proceed(r)
      PROVE  IInv'
  BY <1>2, <1>3, MoveHolds, CommitHolds, RollbackHolds
  DEF Proceed, LockWaitTimesOut
<1> QED
  BY <1>1, <1>3, MoveHolds, ScanHolds, RollbackHolds, CrashHolds DEF Next

LEMMA Invariance == Spec => []IInv
BY InitHolds, NextHolds, PTL DEF Spec

-----------------------------------------------------------------------------
(* The theorems                                                             *)

\* Type correctness; the request of the rule stays within its limits.
THEOREM TypeCorrect == Spec => []TypeOK
<1>1. IInv => TypeOK
  BY DEF IInv, LockInv
<1> QED
  BY <1>1, Invariance, PTL

\* The rule counts the agents of the table but for what is in flight and what a
\* failure or a repeated removal made it lose.
THEOREM AccountsAlwaysBalance == Spec => []AccountsBalance
<1>1. IInv => AccountsBalance
  BY DEF IInv
<1> QED
  BY <1>1, Invariance, PTL

LEMMA LimitFollows == IInv => LimitHolds
<1> SUFFICES ASSUME IInv PROVE LimitHolds
  OBVIOUS
<1> DEFINE Leaving == {r \in InFlight : job[r] # Add}
<1>1. IsFiniteSet(Leaving) /\ Cardinality(Leaving) \in Nat
  BY Finite, FS_Subset, FS_CardinalityType
<1>2. \A q, r \in Requests :
        effect[q] /\ effect[r] /\ job[q] = Add /\ job[r] = Add => q = r
  BY DEF IInv, LockInv, Exclusive, Locks
<1>3. /\ Cardinality(Present) = rule.current + Cardinality(InFlight) + drift
      /\ rule.current \in Int /\ rule.request \in 0 .. MAX /\ drift \in Nat
      /\ rule.current <= rule.request
  BY DEF IInv, LockInv, Room, TypeOK, AccountsBalance
<1>4. CASE \E a \in InFlight : job[a] = Add
  <2>1. PICK a \in InFlight : job[a] = Add
    BY <1>4
  <2>2. InFlight = Leaving \cup {a} /\ a \notin Leaving
    BY <1>2, <2>1 DEF InFlight, Uncounted
  <2>3. Cardinality(InFlight) = Cardinality(Leaving) + 1
    BY <1>1, <2>2, FS_AddElement
  <2>4. rule.request < MAX
    BY <2>1 DEF IInv, LockInv, Room, Locks, InFlight, Uncounted
  <2> QED
    BY <1>1, <1>3, <2>3, <2>4, QuotaAssumption DEF LimitHolds
<1>5. CASE \A a \in InFlight : job[a] # Add
  <2>1. InFlight = Leaving
    BY <1>5
  <2>2. Cardinality(InFlight) = Cardinality(Leaving)
    BY <2>1
  <2> QED
    BY <1>1, <1>3, <2>2, QuotaAssumption DEF LimitHolds
<1> QED
  BY <1>4, <1>5

\* There are never more agents than max_limit, but for those being removed and
\* those the rule lost.
THEOREM LimitAlwaysHolds == Spec => []LimitHolds
BY LimitFollows, Invariance, PTL

LEMMA RemovableFollows == IInv => RemovableWhileCounted
<1> SUFFICES ASSUME IInv, NEW r \in Requests, pc[r] = "second",
                    job[r] \in Present, ~RuleLocked, rule.request = 0, drift = 0
             PROVE  FALSE
  BY DEF IInv, LockInv, TypeOK, RemovableWhileCounted
<1> DEFINE Rest == Present \ {job[r]}
           f == [q \in InFlight |-> job[q]]
<1>1. \A q \in InFlight : job[q] \in Present /\ Locks(q)
  BY DEF InFlight, Uncounted, RuleLocked, Locks
<1>2. r \notin InFlight /\ Locks(r)
  BY DEF IInv, LockInv, Phases, InFlight, Uncounted, Locks
<1>3. \A q \in InFlight : job[q] # job[r]
  BY <1>1, <1>2 DEF IInv, LockInv, Exclusive, InFlight
<1>4. \A p, q \in InFlight : job[p] = job[q] => p = q
  BY <1>1 DEF IInv, LockInv, Exclusive, InFlight
<1>5. f \in Injection(InFlight, Rest)
  BY <1>1, <1>3, <1>4 DEF Injection, IsInjective
<1>6. IsFiniteSet(Rest) /\ Cardinality(Rest) = Cardinality(Present) - 1
  BY Finite, FS_RemoveElement
<1>7. Cardinality(InFlight) <= Cardinality(Rest)
  BY <1>5, <1>6, FS_Injection
<1>8. Cardinality(Present) \in Nat /\ Cardinality(InFlight) \in Nat
  BY Finite, FS_CardinalityType
<1> QED
  BY <1>6, <1>7, <1>8 DEF IInv, LockInv, Room, TypeOK, AccountsBalance

\* The view refuses to remove an agent that is there only when the rule has lost
\* one before.
THEOREM AlwaysRemovableWhileCounted == Spec => []RemovableWhileCounted
BY RemovableFollows, Invariance, PTL

-----------------------------------------------------------------------------
(* What the requests wait for                                               *)

\* The transaction of r, or of b, can go on without a timeout.
Moving(r) ==
  \/ pc[r] \in {"begun", "second"} /\ ~Blocked(r)
  \/ pc[r] \in {"third", "aborting"}
  \/ pc[r] = "first" /\ Available
ScanMoving(b) == b \in Scanners /\ ~ScanBlocked(b)

\* A removal that has deleted its record, or found none, and waits for the rule.
Decrements(q) == pc[q] = "second" /\ job[q] # Add /\ RuleLocked

\* Add r has the rule and waits to insert; whoever locks the gap waits for the
\* rule, or for a record that is removed by one that does.
GapCircle(r) ==
  /\ job[r] = Add /\ pc[r] = "second"
  /\ \E x \in gaps :
       \/ x \in Requests /\ Decrements(x)
       \/ /\ x \in Binds /\ ScanBlocked(x)
          /\ \E q \in Requests : job[q] = goal[x] /\ Decrements(q)

\* Somebody waits for no lock, who has one, or waits in such a circle.
FreeOrCircle ==
  \/ \E q \in Requests : (Locks(q) \/ q \in gaps) /\ ~Blocked(q)
  \/ \E b \in Binds : ScanMoving(b)
  \/ \E r \in Requests : GapCircle(r)

LEMMA HolderPoint ==
  ASSUME IInv, NEW q \in Requests, Locks(q) \/ q \in gaps
  PROVE  /\ pc[q] \in {"first", "second", "third", "aborting"}
         /\ pc[q] # "second" => ~Blocked(q)
BY DEF IInv, LockInv, Phases, GapHolders, Open, Locks, Blocked

\* An add whose INSERT waits for the gap.
LEMMA BehindGap ==
  ASSUME IInv, NEW r \in Requests, job[r] = Add, pc[r] = "second", gaps # {}
  PROVE  FreeOrCircle
<1>1. PICK x \in gaps : x \in Requests \cup Binds
  BY DEF IInv, LockInv, TypeOK
<1>2. RuleLocked
  BY DEF RuleLocked, Locks
<1>3. CASE x \in Requests
  <2>1. job[x] # Add
    BY <1>3 DEF IInv, LockInv, GapHolders
  <2>2. CASE pc[x] = "second"
    BY <1>2, <1>3, <2>1, <2>2 DEF FreeOrCircle, GapCircle, Decrements
  <2>3. CASE pc[x] # "second"
    BY <1>3, <2>3, HolderPoint DEF FreeOrCircle
  <2> QED
    BY <2>2, <2>3
<1>4. CASE x \in Binds
  <2>1. x \in Scanners
    BY <1>4 DEF IInv, LockInv, GapHolders
  <2>2. CASE ScanBlocked(x) /\ Removing(goal[x])
    <3>1. PICK q \in Requests : job[q] = goal[x] /\ Locks(q) /\ job[q] \in Ids
      BY <2>2 DEF Removing, Present
    <3>2. CASE pc[q] = "second"
      BY <1>2, <1>4, <2>2, <3>1, <3>2, QuotaAssumption
      DEF FreeOrCircle, GapCircle, Decrements
    <3>3. CASE pc[q] # "second"
      BY <3>1, <3>3, HolderPoint DEF FreeOrCircle
    <3> QED
      BY <3>2, <3>3
  <2>3. CASE ScanBlocked(x) /\ ~Removing(goal[x])
    <3>1. PICK b \in Binds : scan[b] = "scanned"
      BY <2>3 DEF ScanBlocked, RowLocked
    <3> QED
      BY <3>1 DEF FreeOrCircle, ScanMoving, Scanners, ScanBlocked
  <2>4. CASE ~ScanBlocked(x)
    BY <1>4, <2>1, <2>4 DEF FreeOrCircle, ScanMoving
  <2> QED
    BY <2>2, <2>3, <2>4
<1> QED
  BY <1>1, <1>3, <1>4

\* The add that has the rule.
LEMMA BehindRule ==
  ASSUME IInv, RuleLocked
  PROVE  FreeOrCircle
<1>1. PICK a \in Requests : job[a] = Add /\ Locks(a)
  BY DEF RuleLocked
<1>2. CASE pc[a] = "second" /\ gaps # {}
  BY <1>1, <1>2, BehindGap
<1>3. CASE pc[a] = "second" /\ gaps = {}
  BY <1>1, <1>3 DEF FreeOrCircle, Blocked
<1>4. CASE pc[a] # "second"
  BY <1>1, <1>4, HolderPoint DEF FreeOrCircle
<1> QED
  BY <1>2, <1>3, <1>4

\* The removal that deletes a record, or the bind that has come to it.
LEMMA BehindRow ==
  ASSUME IInv, NEW i \in Ids \cup {None}, RowLocked(i)
  PROVE  FreeOrCircle
<1>1. CASE Removing(i)
  <2>1. PICK q \in Requests : job[q] = i /\ Locks(q) /\ job[q] \in Ids
    BY <1>1 DEF Removing, Present
  <2>2. CASE pc[q] = "second" /\ RuleLocked
    BY <2>2, BehindRule
  <2>3. CASE pc[q] = "second" /\ ~RuleLocked
    BY <2>1, <2>3, QuotaAssumption DEF FreeOrCircle, Blocked
  <2>4. CASE pc[q] # "second"
    BY <2>1, <2>4, HolderPoint DEF FreeOrCircle
  <2> QED
    BY <2>2, <2>3, <2>4
<1>2. CASE ~Removing(i)
  <2>1. PICK b \in Binds : scan[b] = "scanned"
    BY <1>2 DEF RowLocked
  <2> QED
    BY <2>1 DEF FreeOrCircle, ScanMoving, Scanners, ScanBlocked
<1> QED
  BY <1>1, <1>2

LEMMA BlockedBehindFree ==
  ASSUME IInv,
         (\E r \in Requests : Blocked(r)) \/ (\E b \in Binds : ScanBlocked(b))
  PROVE  FreeOrCircle
<1>1. ASSUME NEW b \in Binds, ScanBlocked(b) PROVE FreeOrCircle
  <2>1. goal[b] \in Ids \cup {None}
    BY DEF IInv, LockInv, TypeOK
  <2> QED
    BY <1>1, <2>1, BehindRow DEF ScanBlocked
<1>2. ASSUME NEW r \in Requests, Blocked(r) PROVE FreeOrCircle
  <2>1. CASE RuleLocked
    BY <2>1, BehindRule
  <2>2. CASE pc[r] = "second" /\ job[r] = Add
    BY <1>2, <2>2, BehindGap DEF Blocked
  <2>3. CASE ~RuleLocked /\ ~(pc[r] = "second" /\ job[r] = Add)
    <3>1. pc[r] = "begun" /\ job[r] # Add /\ RowLocked(job[r])
      BY <1>2, <2>3 DEF Blocked
    <3>2. job[r] \in Ids \cup {None}
      BY <3>1 DEF IInv, LockInv, TypeOK
    <3> QED
      BY <3>1, <3>2, BehindRow
  <2> QED
    BY <2>1, <2>2, <2>3
<1> QED
  BY <1>1, <1>2

\* Who waits for a lock waits behind one that has a lock and waits for none, but
\* for one circle: the INSERT of an add that has the rule waits for the gap that a
\* removal of nothing has locked, which waits for the rule; or a bind, which waits
\* for a record whose removal waits for the rule.  The transactions of a circle
\* wait on different connections than those that hold the locks, so that it is
\* innodb_lock_wait_timeout that ends it.
THEOREM LockCircleNeedsGap ==
  Spec => []((\E r \in Requests : Blocked(r)) \/ (\E b \in Binds : ScanBlocked(b))
               => \/ \E q \in Requests : (Locks(q) \/ q \in gaps) /\ ~Blocked(q)
                  \/ \E b \in Binds : ScanMoving(b)
                  \/ \E r \in Requests : GapCircle(r))
<1>1. IInv =>
        ((\E r \in Requests : Blocked(r)) \/ (\E b \in Binds : ScanBlocked(b))
           => \/ \E q \in Requests : (Locks(q) \/ q \in gaps) /\ ~Blocked(q)
              \/ \E b \in Binds : ScanMoving(b)
              \/ \E r \in Requests : GapCircle(r))
  BY BlockedBehindFree DEF FreeOrCircle
<1> QED
  BY <1>1, Invariance, PTL

\* No transaction that is open can go on by itself.
Standstill ==
  /\ Holders \cup Scanners # {}
  /\ \A r \in Requests : ~Moving(r)
  /\ \A b \in Binds : ~ScanMoving(b)

LEMMA StandstillFollows ==
  ASSUME IInv, Standstill, \A r \in Requests : ~GapCircle(r)
  PROVE  ~Available /\ \E q \in Requests : pc[q] = "first" /\ Locks(q)
<1>1. PICK q \in Requests : pc[q] \in Open /\ ~Blocked(q)
  <2>1. CASE (\E r \in Requests : Blocked(r)) \/ (\E b \in Binds : ScanBlocked(b))
    <3>1. PICK x \in Requests : (Locks(x) \/ x \in gaps) /\ ~Blocked(x)
      BY <2>1, BlockedBehindFree DEF FreeOrCircle, Standstill
    <3>2. pc[x] \in Open
      BY <3>1, HolderPoint DEF Open
    <3> QED
      BY <3>1, <3>2
  <2>2. CASE /\ \A r \in Requests : ~Blocked(r)
             /\ \A b \in Binds : ~ScanBlocked(b)
    <3>1. Scanners = {}
      BY <2>2 DEF Standstill, ScanMoving, Scanners
    <3>2. PICK r \in Requests : pc[r] \in Open
      BY <3>1 DEF Standstill, Holders
    <3> QED
      BY <2>2, <3>2
  <2> QED
    BY <2>1, <2>2
<1>2. pc[q] = "first"
  BY <1>1 DEF Standstill, Moving, Open
<1>3. ~Available
  BY <1>2 DEF Standstill, Moving
<1> QED
  BY <1>2, <1>3 DEF Locks

\* The safety part of RequestsEnd: when transactions are open and none of them
\* can go on by itself, the connections of the pool are used up and a request
\* that holds a lock waits for its second one, or an add is in the circle of the
\* gap.
THEOREM StandstillNeedsPoolOrGap ==
  Spec => [](Standstill
               => \/ ~Available /\ \E q \in Requests : pc[q] = "first" /\ Locks(q)
                  \/ \E r \in Requests : GapCircle(r))
<1>1. IInv => (Standstill
                 => \/ ~Available /\ \E q \in Requests : pc[q] = "first" /\ Locks(q)
                    \/ \E r \in Requests : GapCircle(r))
  BY StandstillFollows
<1> QED
  BY <1>1, Invariance, PTL

\* With two connections for every request, as _execute takes them, and one for
\* every bind, nobody waits for the pool: the open transactions come to a
\* standstill in the circle of the gap only.
THEOREM RoomyPoolStallsByGapOnly ==
  ASSUME POOL >= 2 * Cardinality(Requests) + Cardinality(Binds)
  PROVE  Spec => [](Standstill => \E r \in Requests : GapCircle(r))
<1>1. ASSUME IInv, Standstill, \A r \in Requests : ~GapCircle(r)
      PROVE  FALSE
  <2>1. PICK q \in Requests : pc[q] = "first"
    BY <1>1, StandstillFollows
  <2>2. /\ Seconds \subseteq Requests \ {q} /\ Holders \subseteq Requests
        /\ Scanners \subseteq Binds
    BY <2>1 DEF Seconds, Holders, Scanners
  <2>3. /\ IsFiniteSet(Requests \ {q})
        /\ Cardinality(Requests \ {q}) = Cardinality(Requests) - 1
        /\ Cardinality(Requests) \in Nat /\ Cardinality(Binds) \in Nat
    BY QuotaAssumption, FS_RemoveElement, FS_CardinalityType
  <2>4. /\ Cardinality(Seconds) <= Cardinality(Requests) - 1
        /\ Cardinality(Holders) <= Cardinality(Requests)
        /\ Cardinality(Scanners) <= Cardinality(Binds)
        /\ Cardinality(Seconds) \in Nat /\ Cardinality(Holders) \in Nat
        /\ Cardinality(Scanners) \in Nat
    BY <2>2, <2>3, QuotaAssumption, FS_Subset, FS_CardinalityType
  <2>5. Available
    BY <2>3, <2>4, QuotaAssumption DEF Available
  <2> QED
    BY <1>1, <2>5, StandstillFollows
<1>2. IInv => (Standstill => \E r \in Requests : GapCircle(r))
  BY <1>1
<1> QED
  BY <1>2, Invariance, PTL
=============================================================================
