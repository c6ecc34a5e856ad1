------------------------- MODULE AgentProcess_proofs -------------------------
(***************************************************************************)
(* Proofs about AuthCache and AgentProcess, for every number of requests   *)
(* and agents, every life of the caches' entries and every clock.          *)
(***************************************************************************)
EXTENDS AgentProcess, SequenceTheorems, TLAPS

\* A key that is recognised at time t was withdrawn not long before.
Fresh(k, t) ==
  record[k] = "present" \/ (record[k] = "deleted" /\ t <= gone[k] + TTL + DELAY)

Presents(r) == auth[r] \in {"lookup", "asking", "read"} => todo[r] # <<>>

\* What a request has read from the database was there when it did.
ReadFresh(r) ==
  auth[r] = "read" =>
    /\ read[r] <= now /\ now <= read[r] + DELAY
    /\ found[r] => \/ record[Key(r)] = "present"
                   \/ /\ record[Key(r)] = "deleted"
                      /\ read[r] <= gone[Key(r)]

EntryFresh(k) ==
  /\ cache[k] <= now + TTL
  /\ cache[k] > 0 => Fresh(k, cache[k])

AuthInv ==
  /\ AuthTypeOK
  /\ \A r \in Requests : Presents(r) /\ ReadFresh(r)
  /\ \A k \in Keys : EntryFresh(k)

LEMMA AuthInitHolds == AuthInit => AuthInv
<1> SUFFICES ASSUME AuthInit PROVE AuthInv
  OBVIOUS
<1>1. <<>> \in Seq(Keys)
  OBVIOUS
<1> QED
  BY <1>1, AuthAssumption
  DEF AuthInit, AuthInv, AuthTypeOK, Presents, ReadFresh, EntryFresh, Fresh

LEMMA PathsTyped == \A path \in Paths : path \in Seq(Keys) /\ path # <<>>
<1>1. <<Token>> \in Seq(Keys) /\ <<Token>> # <<>>
  BY DEF Keys
<1>2. ASSUME NEW a \in AgentIds
      PROVE  <<Token, a>> \in Seq(Keys) /\ <<Token, a>> # <<>>
  <2>1. Token \in Keys /\ a \in Keys
    BY DEF Keys
  <2> QED
    BY <2>1
<1> QED
  BY <1>1, <1>2 DEF Paths

LEMMA KeyTyped ==
  ASSUME AuthInv, NEW r \in Requests, auth[r] \in {"lookup", "asking", "read"}
  PROVE  Key(r) \in Keys /\ Tail(todo[r]) \in Seq(Keys) /\ Tail(todo[r]) # todo[r]
<1> DEFINE s == todo[r]
<1>1. s \in Seq(Keys) /\ s # <<>>
  BY DEF AuthInv, AuthTypeOK, Presents
<1> HIDE DEF s
<1>2. Head(s) \in Keys /\ Tail(s) \in Seq(Keys)
  BY <1>1, HeadTailProperties
<1>3. Len(s) \in Nat /\ Len(Tail(s)) = Len(s) - 1
  BY <1>1, HeadTailProperties, LenProperties
<1>4. Tail(s) # s
  BY <1>3
<1> QED
  BY <1>2, <1>4 DEF Key, s

\* What only some actions do: the caches, the tables and the other requests stay
\* as they are, and time does not pass.
LEMMA AskKeeps ==
  ASSUME AuthInv, NEW r \in Requests, NEW path \in Paths, Ask(r, path)
  PROVE  AuthInv'
<1>1. path \in Seq(Keys) /\ path # <<>>
  BY PathsTyped
<1>2. AuthTypeOK'
  BY <1>1 DEF AuthInv, AuthTypeOK, Ask, recordVars
<1>3. ASSUME NEW q \in Requests PROVE (Presents(q) /\ ReadFresh(q))'
  BY <1>1 DEF AuthInv, AuthTypeOK, Ask, recordVars, Presents, ReadFresh, Key
<1>4. ASSUME NEW k \in Keys PROVE EntryFresh(k)'
  BY DEF AuthInv, Ask, recordVars, EntryFresh, Fresh
<1> QED
  BY <1>2, <1>3, <1>4 DEF AuthInv

LEMMA LeaveKeeps ==
  ASSUME AuthInv, NEW r \in Requests, Leave(r)
  PROVE  AuthInv'
<1>1. AuthTypeOK'
  <2>1. <<>> \in Seq(Keys)
    OBVIOUS
  <2> QED
    BY <2>1, AuthAssumption DEF AuthInv, AuthTypeOK, Leave, recordVars
<1>2. ASSUME NEW q \in Requests PROVE (Presents(q) /\ ReadFresh(q))'
  BY DEF AuthInv, AuthTypeOK, Leave, recordVars, Presents, ReadFresh, Key
<1>3. ASSUME NEW k \in Keys PROVE EntryFresh(k)'
  BY DEF AuthInv, Leave, recordVars, EntryFresh, Fresh
<1> QED
  BY <1>1, <1>2, <1>3 DEF AuthInv

LEMMA LookupKeeps ==
  ASSUME AuthInv, NEW r \in Requests, Lookup(r)
  PROVE  AuthInv'
<1>1. /\ Key(r) \in Keys /\ Tail(todo[r]) \in Seq(Keys)
      /\ Tail(todo[r]) # todo[r]
  BY KeyTyped DEF Lookup
<1>2. AuthTypeOK'
  BY <1>1 DEF AuthInv, AuthTypeOK, Lookup, Recognise, recordVars
<1>3. ASSUME NEW q \in Requests PROVE (Presents(q) /\ ReadFresh(q))'
  <2>1. CASE q = r
    BY <2>1 DEF AuthInv, AuthTypeOK, Lookup, Recognise, recordVars,
                Presents, ReadFresh
  <2>2. CASE q # r
    BY <2>2 DEF AuthInv, AuthTypeOK, Lookup, Recognise, recordVars,
                Presents, ReadFresh, Key
  <2> QED
    BY <2>1, <2>2
<1>4. ASSUME NEW k \in Keys PROVE EntryFresh(k)'
  BY DEF AuthInv, Lookup, recordVars, EntryFresh, Fresh
<1> QED
  BY <1>2, <1>3, <1>4 DEF AuthInv

LEMMA QueryKeeps ==
  ASSUME AuthInv, NEW r \in Requests, Query(r)
  PROVE  AuthInv'
<1>1. AuthTypeOK'
  BY DEF AuthInv, AuthTypeOK, Query, recordVars
<1>2. ASSUME NEW q \in Requests PROVE (Presents(q) /\ ReadFresh(q))'
  <2>1. CASE q = r
    <3>1. Key(r)' = Key(r)
      BY DEF Query, Key
    <3>2. found'[r] => record'[Key(r)] = "present"
      BY DEF AuthInv, AuthTypeOK, Query, recordVars
    <3>3. now \in Nat /\ now' = now /\ read'[r] = now
      BY AuthAssumption DEF AuthInv, AuthTypeOK, Query
    <3>4. Presents(r)'
      BY DEF AuthInv, Query, Presents
    <3> QED
      BY <2>1, <3>1, <3>2, <3>3, <3>4, AuthAssumption DEF ReadFresh
  <2>2. CASE q # r
    BY <2>2 DEF AuthInv, AuthTypeOK, Query, recordVars, Presents, ReadFresh, Key
  <2> QED
    BY <2>1, <2>2
<1>3. ASSUME NEW k \in Keys PROVE EntryFresh(k)'
  BY DEF AuthInv, Query, recordVars, EntryFresh, Fresh
<1> QED
  BY <1>1, <1>2, <1>3 DEF AuthInv

LEMMA FillKeeps ==
  ASSUME AuthInv, NEW r \in Requests, Fill(r)
  PROVE  AuthInv'
<1>1. /\ Key(r) \in Keys /\ Tail(todo[r]) \in Seq(Keys)
      /\ Tail(todo[r]) # todo[r]
  BY KeyTyped DEF Fill
<1>2. AuthTypeOK'
  <2>1. Expiry \in 0 .. MaxTime + TTL /\ 0 \in 0 .. MaxTime + TTL
        /\ 0 \in 0 .. MaxTime
    BY AuthAssumption DEF AuthInv, AuthTypeOK, Expiry
  <2>2. cache' \in [Keys -> 0 .. MaxTime + TTL]
    BY <1>1, <2>1 DEF AuthInv, AuthTypeOK, Fill
  <2>3. /\ todo' \in [Requests -> Seq(Keys)]
        /\ auth' \in [Requests -> {"idle", "lookup", "asking", "read",
                                   "accepted", "refused"}]
    BY <1>1 DEF AuthInv, AuthTypeOK, Fill, Recognise
  <2> QED
    BY <2>1, <2>2, <2>3 DEF AuthInv, AuthTypeOK, Fill, recordVars
<1>3. ASSUME NEW q \in Requests PROVE (Presents(q) /\ ReadFresh(q))'
  <2>1. CASE q = r
    BY <2>1 DEF AuthInv, AuthTypeOK, Fill, Recognise, recordVars,
                Presents, ReadFresh
  <2>2. CASE q # r
    BY <2>2 DEF AuthInv, AuthTypeOK, Fill, Recognise, recordVars,
                Presents, ReadFresh, Key
  <2> QED
    BY <2>1, <2>2
<1>4. ASSUME NEW k \in Keys PROVE EntryFresh(k)'
  <2>1. now \in Nat /\ cache[k] \in Nat /\ gone[k] \in Nat /\ read[r] \in Nat
    BY AuthAssumption DEF AuthInv, AuthTypeOK
  <2>2. CASE k = Key(r) /\ found[r]
    <3>1. cache'[k] = now + TTL
      BY <2>2 DEF AuthInv, AuthTypeOK, Fill, Expiry
    <3>2. \/ record[k] = "present"
          \/ record[k] = "deleted" /\ read[r] <= gone[k]
      BY <2>2 DEF AuthInv, ReadFresh, Fill
    <3>3. now <= read[r] + DELAY
      BY DEF AuthInv, ReadFresh, Fill
    <3> QED
      BY <2>1, <3>1, <3>2, <3>3, AuthAssumption
      DEF EntryFresh, Fresh, Fill, recordVars
  <2>3. CASE k = Key(r) /\ ~found[r]
    BY <2>1, <2>3, AuthAssumption
    DEF AuthInv, AuthTypeOK, Fill, EntryFresh, recordVars
  <2>4. CASE k # Key(r)
    BY <2>4 DEF AuthInv, AuthTypeOK, Fill, EntryFresh, Fresh, recordVars
  <2> QED
    BY <2>2, <2>3, <2>4
<1> QED
  BY <1>2, <1>3, <1>4 DEF AuthInv

LEMMA WithdrawKeeps ==
  ASSUME AuthInv, NEW a \in AgentIds, Withdraw(a)
  PROVE  AuthInv'
<1>1. a \in Keys
  BY DEF Keys
<1>2. AuthTypeOK'
  BY <1>1 DEF AuthInv, AuthTypeOK, Withdraw, requestVars
<1>3. ASSUME NEW q \in Requests PROVE (Presents(q) /\ ReadFresh(q))'
  <2>1. Presents(q)'
    BY DEF AuthInv, Presents, Withdraw, requestVars
  <2>2. CASE auth[q] = "read"
    <3>1. Key(q) \in Keys
      BY <2>2, KeyTyped
    <3> QED
      BY <2>1, <2>2, <3>1, <1>1
      DEF AuthInv, AuthTypeOK, ReadFresh, Withdraw, requestVars, Key
  <2>3. CASE auth[q] # "read"
    BY <2>1, <2>3 DEF ReadFresh, Withdraw, requestVars
  <2> QED
    BY <2>2, <2>3
<1>4. ASSUME NEW k \in Keys PROVE EntryFresh(k)'
  <2>1. now \in Nat /\ cache[k] \in Nat
    BY AuthAssumption DEF AuthInv, AuthTypeOK
  <2>2. EntryFresh(k)
    BY DEF AuthInv
  <2>3. CASE k = a
    BY <1>1, <2>1, <2>2, <2>3, AuthAssumption
    DEF AuthInv, AuthTypeOK, Withdraw, EntryFresh, Fresh, requestVars
  <2>4. CASE k # a
    BY <2>2, <2>4
    DEF AuthInv, AuthTypeOK, Withdraw, EntryFresh, Fresh, requestVars
  <2> QED
    BY <2>3, <2>4
<1> QED
  BY <1>2, <1>3, <1>4 DEF AuthInv

LEMMA CreateKeeps ==
  ASSUME AuthInv, NEW a \in AgentIds, Create(a)
  PROVE  AuthInv'
<1>1. a \in Keys
  BY DEF Keys
<1>2. AuthTypeOK'
  BY <1>1 DEF AuthInv, AuthTypeOK, Create, requestVars
<1>3. ASSUME NEW q \in Requests PROVE (Presents(q) /\ ReadFresh(q))'
  <2>1. Presents(q)'
    BY DEF AuthInv, Presents, Create, requestVars
  <2>2. CASE auth[q] = "read"
    <3>1. Key(q) \in Keys
      BY <2>2, KeyTyped
    <3> QED
      BY <2>1, <2>2, <3>1, <1>1
      DEF AuthInv, AuthTypeOK, ReadFresh, Create, requestVars, Key
  <2>3. CASE auth[q] # "read"
    BY <2>1, <2>3 DEF ReadFresh, Create, requestVars
  <2> QED
    BY <2>2, <2>3
<1>4. ASSUME NEW k \in Keys PROVE EntryFresh(k)'
  BY <1>1
  DEF AuthInv, AuthTypeOK, Create, EntryFresh, Fresh, requestVars
<1> QED
  BY <1>2, <1>3, <1>4 DEF AuthInv

LEMMA TickKeeps ==
  ASSUME AuthInv, Tick
  PROVE  AuthInv'
<1>1. AuthTypeOK'
  BY AuthAssumption DEF AuthInv, AuthTypeOK, Tick, recordVars, requestVars
<1>2. ASSUME NEW q \in Requests PROVE (Presents(q) /\ ReadFresh(q))'
  <2>1. read[q] \in Nat /\ now \in Nat
    BY AuthAssumption DEF AuthInv, AuthTypeOK
  <2> QED
    BY <2>1, AuthAssumption
    DEF AuthInv, Presents, ReadFresh, Tick, recordVars, requestVars, Key
<1>3. ASSUME NEW k \in Keys PROVE EntryFresh(k)'
  <2>1. cache[k] \in Nat /\ now \in Nat
    BY AuthAssumption DEF AuthInv, AuthTypeOK
  <2> QED
    BY <2>1, AuthAssumption
    DEF AuthInv, EntryFresh, Fresh, Tick, recordVars, requestVars
<1> QED
  BY <1>1, <1>2, <1>3 DEF AuthInv

LEMMA AuthStutterKeeps ==
  ASSUME AuthInv, UNCHANGED authVars
  PROVE  AuthInv'
BY DEF AuthInv, AuthTypeOK, Presents, ReadFresh, EntryFresh, Fresh, Key,
       authVars, recordVars, requestVars

LEMMA AuthNextKeeps == AuthInv /\ [AuthNext]_authVars => AuthInv'
<1> SUFFICES ASSUME AuthInv, [AuthNext]_authVars PROVE AuthInv'
  OBVIOUS
<1>1. CASE Tick
  BY <1>1, TickKeeps
<1>2. CASE \E a \in AgentIds : Create(a) \/ Withdraw(a)
  BY <1>2, CreateKeeps, WithdrawKeeps
<1>3. ASSUME NEW r \in Requests, RequestStep(r) PROVE AuthInv'
  BY <1>3, AskKeeps, LookupKeeps, QueryKeeps, FillKeeps, LeaveKeeps
  DEF RequestStep, Authorise
<1>4. CASE UNCHANGED authVars
  BY <1>4, AuthStutterKeeps
<1> QED
  BY <1>1, <1>2, <1>3, <1>4 DEF AuthNext, TableStep

LEMMA AuthInvariant == AuthSpec => []AuthInv
BY AuthInitHolds, AuthNextKeeps, PTL DEF AuthSpec

\* The caches, the tables and the requests keep their types (AuthTypeOK): in
\* particular no entry outlives the clock by more than TTL.
THEOREM AuthTypeCorrect == AuthSpec => []AuthTypeOK
<1>1. AuthInv => AuthTypeOK
  BY DEF AuthInv
<1> QED
  BY <1>1, AuthInvariant, PTL

-----------------------------------------------------------------------------
(* What is recognised                                                       *)

Recognised(r) ==
  /\ auth[r] \in {"lookup", "read"}
  /\ auth'[r] \in {"lookup", "accepted"} /\ todo'[r] # todo[r]

LEMMA RecognisedByLookup ==
  ASSUME AuthInv, NEW r \in Requests, Lookup(r), Recognised(r)
  PROVE  Fresh(Key(r), now)
<1>1. Key(r) \in Keys
  BY KeyTyped DEF Lookup
<1>2. now < cache[Key(r)]
  BY DEF Lookup, Recognised, Cached
<1>3. EntryFresh(Key(r))
  BY <1>1 DEF AuthInv
<1>4. now \in Nat /\ cache[Key(r)] \in Nat /\ gone[Key(r)] \in Nat
  BY <1>1, AuthAssumption DEF AuthInv, AuthTypeOK
<1> QED
  BY <1>2, <1>3, <1>4, AuthAssumption DEF EntryFresh, Fresh

LEMMA RecognisedByFill ==
  ASSUME AuthInv, NEW r \in Requests, Fill(r), Recognised(r)
  PROVE  Fresh(Key(r), now)
<1>1. Key(r) \in Keys
  BY KeyTyped DEF Fill
<1>2. found[r]
  BY DEF AuthInv, AuthTypeOK, Fill, Recognised
<1>3. /\ now <= read[r] + DELAY
      /\ \/ record[Key(r)] = "present"
         \/ record[Key(r)] = "deleted" /\ read[r] <= gone[Key(r)]
  BY <1>2 DEF AuthInv, ReadFresh, Fill
<1>4. now \in Nat /\ read[r] \in Nat /\ gone[Key(r)] \in Nat
  BY <1>1, AuthAssumption DEF AuthInv, AuthTypeOK
<1> QED
  BY <1>3, <1>4, AuthAssumption DEF Fresh

LEMMA RecognisedFresh ==
  ASSUME AuthInv, AuthNext, NEW r \in Requests, Recognised(r)
  PROVE  Fresh(Key(r), now)
<1>1. ~TableStep
  BY DEF TableStep, Tick, Create, Withdraw, requestVars, Recognised
<1>2. ASSUME NEW q \in Requests, RequestStep(q), q # r PROVE FALSE
  BY <1>2 DEF AuthInv, AuthTypeOK, RequestStep, Authorise, Ask, Lookup, Query,
              Fill, Leave, Recognise, Recognised
<1>3. ~Leave(r) /\ ~Query(r) /\ ~\E path \in Paths : Ask(r, path)
  BY DEF AuthInv, AuthTypeOK, Leave, Query, Ask, Recognised
<1>4. Lookup(r) \/ Fill(r)
  BY <1>1, <1>2, <1>3 DEF AuthNext, RequestStep, Authorise
<1> QED
  BY <1>4, RecognisedByLookup, RecognisedByFill

\* WithdrawnExpires: however many requests fill and read the caches, whichever
\* records are created and withdrawn meanwhile and however long an entry lives.
THEOREM WithdrawnAlwaysExpires == AuthSpec => WithdrawnExpires
<1>1. AuthInv /\ [AuthNext]_authVars =>
        [\A r \in Requests :
           /\ auth[r] \in {"lookup", "read"}
           /\ auth'[r] \in {"lookup", "accepted"} /\ todo'[r] # todo[r]
           => \/ record[Key(r)] = "present"
              \/ /\ record[Key(r)] = "deleted"
                 /\ now <= gone[Key(r)] + TTL + DELAY]_authVars
  BY RecognisedFresh DEF Recognised, Fresh
<1> QED
  BY <1>1, AuthInvariant, PTL DEF AuthSpec, WithdrawnExpires

-----------------------------------------------------------------------------
(* The processes of an agent are clients of the caches                      *)

LEMMA ForgetIsAuthStep == Forget => AuthNext
BY ProcessAssumption DEF Forget, AuthNext, RequestStep

LEMMA SignalIsAuthStep == SignalChild => [AuthNext]_authVars
BY ForgetIsAuthStep DEF SignalChild

LEMMA HeartbeatPath == <<Token, Slot>> \in Paths
BY ProcessAssumption DEF Paths

LEMMA NextIsAuthStep == [Next]_vars => [AuthNext]_authVars
<1> SUFFICES ASSUME [Next]_vars PROVE [AuthNext]_authVars
  OBVIOUS
<1>1. CASE \/ Fork \/ AwaitChild \/ Reap \/ Start \/ Bind \/ BindFails \/ Stop
           \/ IdleExit \/ TaskEnds
  BY <1>1 DEF Fork, AwaitChild, Reap, Start, Bind, BindFails, Stop, IdleExit,
              TaskEnds
<1>2. CASE RemoveSlot
  BY <1>2, ProcessAssumption DEF RemoveSlot, AuthNext, TableStep
<1>3. CASE End \/ Crash
  BY <1>3, ForgetIsAuthStep DEF End, Crash
<1>4. CASE Signal \/ Interrupt
  BY <1>4, SignalIsAuthStep DEF Signal, Interrupt, PassOn
<1>5. CASE SendHeartbeat
  BY <1>5, HeartbeatPath, ProcessAssumption
  DEF SendHeartbeat, AuthNext, RequestStep
<1>6. CASE HeartbeatAnswered \/ HeartbeatFails
  BY <1>6, ProcessAssumption
  DEF HeartbeatAnswered, HeartbeatFails, AuthNext, RequestStep
<1>7. CASE ApiServerStep
  BY <1>7, ProcessAssumption DEF ApiServerStep, AuthNext, RequestStep
<1>8. CASE UNCHANGED vars
  BY <1>8 DEF vars
<1> QED
  BY <1>1, <1>2, <1>3, <1>4, <1>5, <1>6, <1>7, <1>8 DEF Next

\* Whatever the processes of an agent do, crashes and signals included, the api
\* server sees requests and removals that AuthCache allows.
THEOREM ProcessImplementsAuth == Spec => AuthSpec
<1>1. Init => AuthInit
  BY DEF Init
<1> QED
  BY <1>1, NextIsAuthStep, PTL DEF Spec, AuthSpec

\* WithdrawnExpires of the composition: the slot that a child removes in its
\* teardown, while its background tasks still send heartbeats, included.
THEOREM ProcessWithdrawnExpires == Spec => WithdrawnExpires
BY ProcessImplementsAuth, WithdrawnAlwaysExpires, PTL

-----------------------------------------------------------------------------
(* The child                                                                *)

\* Before a child serves it has no background tasks; a task begins each round of
\* tries with none made.
Rounds ==
  /\ child \in {"none", "starting", "binding"} => beat = "none"
  /\ beat \in {"none", "asleep"} => try = 0
  /\ beat = "retrying" => try < TRIES

\* The parent forks only when the child before is gone.
OneChild == parent = "forking" => child = "none"

ProcInv == ChildTypeOK /\ Rounds /\ OneChild /\ InterruptReachesChild

LEMMA ProcInitHolds == Init => ProcInv
<1> SUFFICES ASSUME Init PROVE ProcInv
  OBVIOUS
<1>1. try \in 0 .. TRIES
  BY ProcessAssumption DEF Init
<1>2. ChildTypeOK
  BY <1>1 DEF Init, ChildTypeOK
<1>3. Rounds
  BY DEF Init, Rounds
<1>4. OneChild /\ InterruptReachesChild
  BY DEF Init, OneChild, InterruptReachesChild
<1> QED
  BY <1>2, <1>3, <1>4 DEF ProcInv

LEMMA ForgetKeeps ==
  ASSUME ProcInv, Forget, parent' = parent \/ parent' = "interrupted"
  PROVE  ProcInv'
<1>1. try' \in 0 .. TRIES
  BY ProcessAssumption DEF Forget
<1>2. ChildTypeOK'
  BY <1>1 DEF ProcInv, Forget, ChildTypeOK
<1>3. Rounds'
  BY DEF Forget, Rounds
<1>4. OneChild' /\ InterruptReachesChild'
  BY DEF Forget, OneChild, InterruptReachesChild
<1> QED
  BY <1>2, <1>3, <1>4 DEF ProcInv

LEMMA SignalKeeps ==
  ASSUME ProcInv, SignalChild, parent' = parent \/ parent' = "interrupted"
  PROVE  ProcInv'
<1>1. CASE child = "none" /\ UNCHANGED childVars
  BY <1>1
  DEF ProcInv, ChildTypeOK, Rounds, OneChild, InterruptReachesChild, childVars
<1>2. CASE Forget
  BY <1>2, ForgetKeeps
<1>3. CASE SetSoftExit /\ asked' = TRUE /\ UNCHANGED <<child, beat, try>>
  BY <1>3
  DEF ProcInv, ChildTypeOK, Rounds, OneChild, InterruptReachesChild, SetSoftExit
<1> QED
  BY <1>1, <1>2, <1>3 DEF SignalChild

LEMMA ProcNextKeeps == ProcInv /\ [Next]_vars => ProcInv'
<1> SUFFICES ASSUME ProcInv, [Next]_vars PROVE ProcInv'
  OBVIOUS
<1> USE ProcessAssumption
        DEF ProcInv, ChildTypeOK, Rounds, OneChild, InterruptReachesChild
<1>1. CASE Fork \/ AwaitChild \/ Reap
  BY <1>1 DEF Fork, AwaitChild, Reap, childVars
<1>2. CASE Start
  BY <1>2 DEF Start
<1>3. CASE Bind
  BY <1>3 DEF Bind
<1>4. CASE BindFails
  BY <1>4 DEF BindFails
<1>5. CASE Stop
  BY <1>5 DEF Stop
<1>6. CASE RemoveSlot
  BY <1>6 DEF RemoveSlot, childVars
<1>7. CASE End \/ Crash
  BY <1>7, ForgetKeeps DEF End, Crash
<1>8. CASE Signal \/ Interrupt
  <2>1. CASE SignalChild /\ (parent' = parent \/ parent' = "interrupted")
    BY <2>1, SignalKeeps
  <2>2. CASE UNCHANGED childVars /\ parent' \in {"escaped", "interrupted"}
             /\ (parent' = "interrupted" => parent = "forking")
    BY <2>2 DEF childVars
  <2> QED
    BY <1>8, <2>1, <2>2 DEF Signal, Interrupt, PassOn
<1>9. CASE SendHeartbeat
  <2>1. try + 1 \in 0 .. TRIES
    BY <1>9 DEF SendHeartbeat
  <2> QED
    BY <1>9, <2>1 DEF SendHeartbeat
<1>10. CASE HeartbeatAnswered
  <2>1. try' \in 0 .. TRIES
    BY <1>10 DEF HeartbeatAnswered
  <2> QED
    BY <1>10, <2>1 DEF HeartbeatAnswered, SetSoftExit
<1>11. CASE HeartbeatFails
  <2>1. try' \in 0 .. TRIES /\ (beat' = "retrying" => try' < TRIES)
    BY <1>11 DEF HeartbeatFails, LastTry
  <2> QED
    BY <1>11, <2>1 DEF HeartbeatFails, GiveUp, SetSoftExit
<1>12. CASE IdleExit
  BY <1>12 DEF IdleExit, SetSoftExit
<1>13. CASE TaskEnds
  BY <1>13 DEF TaskEnds
<1>14. CASE ApiServerStep
  BY <1>14 DEF ApiServerStep, childVars
<1>15. CASE UNCHANGED vars
  BY <1>15 DEF vars, childVars
<1> QED
  BY <1>1, <1>2, <1>3, <1>4, <1>5, <1>6, <1>7, <1>8, <1>9, <1>10, <1>11,
     <1>12, <1>13, <1>14, <1>15 DEF Next

LEMMA ProcInvariant == Spec => []ProcInv
BY ProcInitHolds, ProcNextKeeps, PTL DEF Spec

\* The caches, the requests and the processes keep their types (ProcessTypeOK):
\* no round of heartbeats makes more than TRIES of them.
THEOREM ProcessTypeCorrect == Spec => []ProcessTypeOK
<1>1. ProcInv /\ AuthTypeOK => ProcessTypeOK
  BY DEF ProcInv, ProcessTypeOK
<1> QED
  BY <1>1, ProcInvariant, ProcessImplementsAuth, AuthTypeCorrect, PTL

\* InterruptReachesChild: when an interrupt meets the parent in its try or between
\* two children, no child is left that has not been asked to end, however far it
\* has come.  An interrupt between fork and try leaves one behind.
THEOREM InterruptAlwaysReachesChild == Spec => []InterruptReachesChild
<1>1. ProcInv => InterruptReachesChild
  BY DEF ProcInv
<1> QED
  BY <1>1, ProcInvariant, PTL

-----------------------------------------------------------------------------
(* What a child learns before it ends                                       *)

\* Whatever stops the background tasks told agent_main to stop first, and a
\* child that serves is watched by its heartbeats or has been told to stop.
Watched ==
  /\ exiting \/ asked => soft_exit
  /\ beat = "failed" => exiting
  /\ beat = "beating" => try > 0
  /\ child = "serving" => beat # "none"
  /\ asked => child \in {"binding", "serving", "stopping"}

\* What is left of the tries of a round: two steps for each, and one for the
\* answer to the heartbeat under way.
TriesLeft ==
  IF soft_exit THEN 0
  ELSE 2 * (TRIES - try) + (IF beat = "beating" THEN 1 ELSE 0)

Unrecorded == child = "serving" /\ record[Slot] = "deleted"

LEMMA WatchedInit == Init => Watched
BY DEF Init, Watched

LEMMA WatchedStep == ProcInv /\ Watched /\ [Next]_vars => Watched'
<1> SUFFICES ASSUME ProcInv, Watched, [Next]_vars PROVE Watched'
  OBVIOUS
<1> USE DEF Watched
<1>1. ASSUME Forget PROVE Watched'
  BY <1>1 DEF Forget
<1>2. ASSUME SignalChild PROVE Watched'
  <2>1. CASE child = "none" /\ UNCHANGED childVars
    BY <2>1 DEF childVars
  <2>2. CASE /\ child \in {"binding", "serving", "stopping"}
             /\ soft_exit' = TRUE /\ exiting' = (exiting \/ beat # "none")
             /\ asked' = TRUE /\ UNCHANGED <<child, beat, try>>
    BY <2>2
  <2> QED
    BY <1>1, <1>2, <2>1, <2>2 DEF SignalChild, SetSoftExit
<1>3. CASE Fork \/ Start \/ BindFails \/ Stop \/ IdleExit \/ TaskEnds
  BY <1>3 DEF Fork, Start, BindFails, Stop, IdleExit, TaskEnds, SetSoftExit,
              ProcInv, OneChild
<1>4. CASE Bind
  BY <1>4 DEF Bind
<1>5. CASE SendHeartbeat \/ HeartbeatAnswered \/ HeartbeatFails
  <2>1. try \in Nat
    BY ProcessAssumption DEF ProcInv, ChildTypeOK
  <2>2. CASE SendHeartbeat
    BY <2>1, <2>2 DEF SendHeartbeat
  <2>3. CASE HeartbeatAnswered
    BY <2>3 DEF HeartbeatAnswered, SetSoftExit
  <2>4. CASE HeartbeatFails
    BY <2>4 DEF HeartbeatFails, GiveUp, SetSoftExit
  <2> QED
    BY <1>5, <2>2, <2>3, <2>4
<1>6. CASE RemoveSlot \/ ApiServerStep
  BY <1>6 DEF RemoveSlot, ApiServerStep, childVars
<1>7. CASE UNCHANGED childVars
  BY <1>7 DEF childVars
<1> QED
  BY <1>1, <1>2, <1>3, <1>4, <1>5, <1>6, <1>7 DEF Next, vars, AwaitChild, Reap,
     End, Crash, Signal, Interrupt, PassOn

LEMMA WatchedInvariant == Spec => [](ProcInv /\ Watched)
BY WatchedInit, WatchedStep, ProcInvariant, PTL DEF Spec

\* The safety part of AskedChildEnds: a child that was asked to end, at any
\* moment since its handlers are there, has soft_exit set, in whatever order
\* signal, binding and the start of its tasks come; only its end clears it.
THEOREM AskedIsNotForgotten ==
  Spec => /\ [](asked => soft_exit)
          /\ [][soft_exit => soft_exit' \/ child' = "none"]_vars
<1>1. ProcInv /\ Watched => (asked => soft_exit)
  BY DEF Watched
<1>2. [Next]_vars => [soft_exit => soft_exit' \/ child' = "none"]_vars
  <2> SUFFICES ASSUME Next, soft_exit PROVE soft_exit' \/ child' = "none"
    OBVIOUS
  <2>1. CASE Forget
    BY <2>1 DEF Forget
  <2>2. CASE SignalChild
    BY <2>1, <2>2 DEF SignalChild, SetSoftExit, childVars
  <2>3. CASE \/ Fork \/ Start \/ Bind \/ BindFails \/ Stop \/ IdleExit
             \/ TaskEnds \/ RemoveSlot \/ ApiServerStep
    BY <2>3 DEF Fork, Start, Bind, BindFails, Stop, IdleExit, TaskEnds,
                RemoveSlot, ApiServerStep, SetSoftExit, childVars
  <2>4. CASE SendHeartbeat \/ HeartbeatAnswered \/ HeartbeatFails
    BY <2>4 DEF SendHeartbeat, HeartbeatAnswered, HeartbeatFails, GiveUp,
                SetSoftExit
  <2>5. CASE UNCHANGED childVars
    BY <2>5 DEF childVars
  <2> QED
    BY <2>1, <2>2, <2>3, <2>4, <2>5
    DEF Next, AwaitChild, Reap, End, Crash, Signal, Interrupt, PassOn
<1> QED
  BY <1>1, <1>2, WatchedInvariant, PTL DEF Spec

\* A removed record does not come back.
LEMMA RemovedStays ==
  ASSUME ProcInv, AuthTypeOK, [Next]_vars, record[Slot] = "deleted"
  PROVE  record'[Slot] = "deleted"
<1>1. [AuthNext]_authVars
  BY NextIsAuthStep
<1>2. CASE TableStep
  BY <1>2, ProcessAssumption
  DEF TableStep, Tick, Create, Withdraw, recordVars, AuthTypeOK, Keys
<1>3. ASSUME NEW r \in Requests, RequestStep(r)
      PROVE  UNCHANGED record
  BY <1>3
  DEF RequestStep, Authorise, Ask, Lookup, Query, Fill, Leave, recordVars
<1>4. CASE UNCHANGED authVars
  BY <1>4 DEF authVars, recordVars
<1> QED
  BY <1>1, <1>2, <1>3, <1>4 DEF AuthNext

\* As long as a child serves, no step of its heartbeats is without progress:
\* either a try is used up or it is told to stop.
LEMMA TriesStep ==
  ASSUME ProcInv, Watched, [Next]_vars, Unrecorded, child' = "serving"
  PROVE  /\ TriesLeft' <= TriesLeft
         /\ <<child, beat, try>>' # <<child, beat, try>>
              => TriesLeft' < TriesLeft \/ soft_exit
<1>0. /\ TRIES \in Nat \ {0} /\ try \in 0 .. TRIES /\ soft_exit \in BOOLEAN
      /\ child = "serving" /\ beat # "none" /\ record[Slot] = "deleted"
      /\ exiting => soft_exit
      /\ beat = "asleep" => try = 0
      /\ beat = "retrying" => try < TRIES
  BY ProcessAssumption
  DEF ProcInv, ChildTypeOK, Rounds, Watched, Unrecorded
<1> USE DEF TriesLeft
<1>1. CASE soft_exit' = soft_exit /\ UNCHANGED <<child, beat, try>>
  BY <1>0, <1>1
<1>2. CASE soft_exit' /\ UNCHANGED <<child, beat, try>>
  BY <1>0, <1>2
<1>3. CASE SendHeartbeat
  BY <1>0, <1>3 DEF SendHeartbeat
<1>4. CASE HeartbeatAnswered
  BY <1>0, <1>4 DEF HeartbeatAnswered, SetSoftExit
<1>5. CASE HeartbeatFails
  <2>1. CASE LastTry
    BY <1>0, <1>5, <2>1 DEF HeartbeatFails, GiveUp, SetSoftExit
  <2>2. CASE ~LastTry
    BY <1>0, <1>5, <2>2 DEF HeartbeatFails
  <2> QED
    BY <2>1, <2>2
<1>6. CASE TaskEnds
  BY <1>0, <1>6 DEF TaskEnds
<1>7. ~Fork /\ ~Start /\ ~Bind /\ ~BindFails /\ ~Stop /\ ~End /\ ~Crash
  BY <1>0 DEF ProcInv, OneChild, Fork, Start, Bind, BindFails, Stop, End, Crash,
              Forget
<1>8. CASE Signal \/ Interrupt
  BY <1>0, <1>1, <1>2, <1>8 DEF Signal, Interrupt, PassOn, SignalChild,
     SetSoftExit, Forget, childVars
<1>9. CASE AwaitChild \/ Reap \/ RemoveSlot \/ ApiServerStep \/ UNCHANGED vars
  BY <1>1, <1>9 DEF AwaitChild, Reap, RemoveSlot, ApiServerStep, vars, childVars
<1>10. CASE IdleExit
  BY <1>2, <1>10 DEF IdleExit, SetSoftExit
<1> QED
  BY <1>3, <1>4, <1>5, <1>6, <1>7, <1>8, <1>9, <1>10 DEF Next

\* The safety part of RemovedAgentStops: the record of a serving child, once
\* removed, stays removed, every further step of its heartbeats uses up part of
\* TriesLeft, and when nothing is left it has been told to stop: however the
\* caches answer, it sends no more than TRIES heartbeats before.
THEOREM RemovedAgentFindsOut ==
  Spec => /\ [](child = "serving" =>
                  TriesLeft \in 0 .. 2 * TRIES /\ (TriesLeft = 0 <=> soft_exit))
          /\ [][Unrecorded /\ child' = "serving" =>
                  /\ Unrecorded' /\ TriesLeft' <= TriesLeft
                  /\ <<child, beat, try>>' # <<child, beat, try>>
                       => TriesLeft' < TriesLeft \/ soft_exit]_vars
<1>1. ASSUME ProcInv, Watched, child = "serving"
      PROVE  TriesLeft \in 0 .. 2 * TRIES /\ (TriesLeft = 0 <=> soft_exit)
  <2>1. /\ TRIES \in Nat \ {0} /\ try \in 0 .. TRIES /\ soft_exit \in BOOLEAN
        /\ beat \in {"asleep", "beating", "retrying", "failed"}
        /\ beat = "failed" => soft_exit
        /\ beat = "asleep" => try = 0
        /\ beat = "retrying" => try < TRIES
        /\ beat = "beating" => try > 0
    BY <1>1, ProcessAssumption DEF ProcInv, ChildTypeOK, Rounds, Watched
  <2> QED
    BY <2>1 DEF TriesLeft
<1>2. ASSUME ProcInv, Watched, AuthTypeOK, [Next]_vars
      PROVE  [Unrecorded /\ child' = "serving" =>
                  /\ Unrecorded' /\ TriesLeft' <= TriesLeft
                  /\ <<child, beat, try>>' # <<child, beat, try>>
                       => TriesLeft' < TriesLeft \/ soft_exit]_vars
  BY <1>2, TriesStep, RemovedStays DEF Unrecorded
<1> QED
  BY <1>1, <1>2, WatchedInvariant, ProcessImplementsAuth, AuthTypeCorrect, PTL
  DEF Spec
=============================================================================
