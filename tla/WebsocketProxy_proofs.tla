------------------------ MODULE WebsocketProxy_proofs ------------------------
(***************************************************************************)
(* Proofs about one proxied connection, for any number of messages and any *)
(* buffer: its invariants CancelledAfterClose, QuietAfterRun and           *)
(* DrainedBeforeEnd.                                                       *)
(***************************************************************************)
EXTENDS WebsocketProxy, TLAPS

(* Chrome's socket is no longer open while a task is in close(), and it is *)
(* closed when a task has come out of it, which then is never cancelled. *)
ClosingCloses ==
  \A t \in Tasks :
    /\ at[t] = "closing" => ws["browser"] # "open"
    /\ at[t] = "done" => ws["browser"] = "closed" /\ ~cancelled[t]

(* Until a task leaves its loop nothing is cancelled or closed from inside. *)
FirstLeaves ==
  /\ \A t \in Tasks :
       /\ (at[t] \in {"closing", "done"} \/ cancelled[t]) => first # None
       /\ first = t => at[t] \in {"closing", "done"}
  /\ first = None => \A s \in Sides : ws[s] # "open" => s \in hung_up
  /\ ws["client"] # "open" => "client" \in hung_up

(* What a peer sent is forwarded, in the hand of the task, or in its inbox. *)
Accounting ==
  \A t \in Tasks :
    /\ at[t] \in {"new", "recv"} =>
         sent[Source(t)] = inbox[Source(t)] + forwarded[t]
    /\ at[t] = "send" =>
         sent[Source(t)] = inbox[Source(t)] + forwarded[t] + 1

(* The direction that ended first ended with its source, and drained it. *)
FirstIsDrained ==
  \A t \in Tasks :
    (first = t /\ Sink(t) \notin hung_up) =>
      /\ forwarded[t] = sent[Source(t)]
      /\ ws[Source(t)] = "closed"

IInv ==
  /\ TypeOK
  /\ CancelledAfterClose
  /\ QuietAfterRun
  /\ ClosingCloses
  /\ FirstLeaves
  /\ Accounting
  /\ FirstIsDrained

(* The two directions have different sources, each other's sinks. *)
LEMMA Directions ==
  /\ Tasks = {"c2b", "b2c"} /\ Sides = {"client", "browser"}
  /\ "c2b" # "b2c" /\ None \notin Tasks
  /\ Source("c2b") = "client" /\ Sink("c2b") = "browser"
  /\ Source("b2c") = "browser" /\ Sink("b2c") = "client"
BY ProxyAssumption DEF Tasks, Sides, Source, Sink

(* The initial states satisfy the invariant. *)
LEMMA InitInv == Init => IInv
BY Directions, ProxyAssumption
   DEF Init, IInv, TypeOK, CancelledAfterClose, QuietAfterRun, ClosingCloses,
       FirstLeaves, Accounting, FirstIsDrained

(* What the peers and the closing handshake do preserves the invariant. *)
LEMMA PeerInv ==
  ASSUME IInv,
         \/ \E s \in Sides : PeerSends(s) \/ PeerReads(s) \/ PeerHangsUp(s)
         \/ HandshakeEnds
  PROVE  IInv'
<1> USE Directions, ProxyAssumption
<1>1. ASSUME NEW s \in Sides, PeerSends(s) PROVE IInv'
  BY <1>1 DEF PeerSends, IInv, TypeOK, CancelledAfterClose, QuietAfterRun,
              ClosingCloses, FirstLeaves, Accounting, FirstIsDrained
<1>2. ASSUME NEW s \in Sides, PeerReads(s) PROVE IInv'
  BY <1>2 DEF PeerReads, IInv, TypeOK, CancelledAfterClose, QuietAfterRun,
              ClosingCloses, FirstLeaves, Accounting, FirstIsDrained
<1>3. ASSUME NEW s \in Sides, PeerHangsUp(s) PROVE IInv'
  BY <1>3 DEF PeerHangsUp, IInv, TypeOK, CancelledAfterClose, QuietAfterRun,
              ClosingCloses, FirstLeaves, Accounting, FirstIsDrained
<1>4. ASSUME HandshakeEnds PROVE IInv'
  BY <1>4 DEF HandshakeEnds, IInv, TypeOK, CancelledAfterClose, QuietAfterRun,
              ClosingCloses, FirstLeaves, Accounting, FirstIsDrained
<1> QED BY <1>1, <1>2, <1>3, <1>4

(* A task that leaves its loop preserves the invariant if it is not the    *)
(* first to leave, or if it is and its source ended and was drained.       *)
LEMMA LeaveInv ==
  ASSUME IInv, NEW t \in Tasks, Leave(t), at[t] \in {"recv", "send"},
         \/ first # None
         \/ Sink(t) \in hung_up
         \/ at[t] = "recv" /\ inbox[Source(t)] = 0 /\ ws[Source(t)] = "closed"
  PROVE  IInv'
<1> USE Directions, ProxyAssumption
<1>1. TypeOK'
  BY DEF Leave, StartClose, IInv, TypeOK
<1>2. CancelledAfterClose' /\ QuietAfterRun' /\ ClosingCloses'
  BY DEF Leave, StartClose, IInv, TypeOK, CancelledAfterClose, QuietAfterRun,
         ClosingCloses
<1>3. FirstLeaves'
  BY DEF Leave, StartClose, IInv, TypeOK, FirstLeaves
<1>4. Accounting'
  BY DEF Leave, IInv, TypeOK, Accounting
<1>5. FirstIsDrained'
  BY DEF Leave, StartClose, IInv, TypeOK, Accounting, FirstLeaves,
         FirstIsDrained
<1> QED BY <1>1, <1>2, <1>3, <1>4, <1>5 DEF IInv

(* The end of close() preserves the invariant once Chrome's socket is shut. *)
LEMMA FinishInv ==
  ASSUME IInv, NEW t \in Tasks, FinishClose(t),
         at[t] = "closing", ws["browser"] = "closed",
         UNCHANGED <<worker, ws, inbox, outbox, sent, forwarded, hung_up, first>>
  PROVE  IInv'
BY Directions, ProxyAssumption
   DEF FinishClose, IInv, TypeOK, CancelledAfterClose, QuietAfterRun,
       ClosingCloses, FirstLeaves, Accounting, FirstIsDrained

(* Every step of a forwarding task preserves the invariant. *)
LEMMA TaskInv ==
  ASSUME IInv, NEW t \in Tasks, TaskStep(t)
  PROVE  IInv'
<1> USE Directions, ProxyAssumption
<1>1. CASE Start(t)
  BY <1>1 DEF Start, IInv, TypeOK, CancelledAfterClose, QuietAfterRun,
              ClosingCloses, FirstLeaves, Accounting, FirstIsDrained
<1>2. CASE Receive(t)
  BY <1>2 DEF Receive, IInv, TypeOK, CancelledAfterClose, QuietAfterRun,
              ClosingCloses, FirstLeaves, Accounting, FirstIsDrained
<1>3. CASE Send(t)
  BY <1>3 DEF Send, IInv, TypeOK, CancelledAfterClose, QuietAfterRun,
              ClosingCloses, FirstLeaves, Accounting, FirstIsDrained
<1>4. CASE SourceEnded(t)
  BY <1>4, LeaveInv DEF SourceEnded
<1>5. CASE SinkEnded(t)
  <2>1. first # None \/ Sink(t) \in hung_up
    BY <1>5 DEF SinkEnded, IInv, FirstLeaves
  <2> QED BY <2>1, <1>5, LeaveInv DEF SinkEnded
<1>6. CASE CloseReturns(t)
  BY <1>6, FinishInv DEF CloseReturns
<1>7. CASE Interrupted(t)
  <2>1. first # None /\ ws["browser"] = "closed" /\ cancelled[t]
    BY <1>7 DEF Interrupted, IInv, FirstLeaves, CancelledAfterClose
  <2>2. CASE /\ at[t] = "new"
             /\ at' = [at EXCEPT ![t] = "done"]
             /\ cancelled' = [cancelled EXCEPT ![t] = FALSE]
             /\ UNCHANGED <<worker, ws, inbox, outbox, sent, forwarded,
                            hung_up, first>>
    BY <2>1, <2>2 DEF IInv, TypeOK, CancelledAfterClose, QuietAfterRun,
              ClosingCloses, FirstLeaves, Accounting, FirstIsDrained
  <2>3. CASE at[t] \in {"recv", "send"} /\ Leave(t)
    BY <2>1, <2>3, LeaveInv
  <2>4. CASE /\ at[t] = "closing"
             /\ FinishClose(t)
             /\ UNCHANGED <<worker, ws, inbox, outbox, sent, forwarded,
                            hung_up, first>>
    BY <2>1, <2>4, FinishInv
  <2> QED BY <1>7, <2>2, <2>3, <2>4 DEF Interrupted
<1> QED BY <1>1, <1>2, <1>3, <1>4, <1>5, <1>6, <1>7 DEF TaskStep

(* The worker's steps preserve the invariant. *)
LEMMA WorkerInv ==
  ASSUME IInv, RunReturns \/ WorkerDone
  PROVE  IInv'
<1> USE Directions, ProxyAssumption
<1>1. CASE RunReturns
  <2>1. ws["browser"] = "closed" /\ \A t \in Tasks : ~cancelled[t]
    BY <1>1 DEF RunReturns, IInv, ClosingCloses
  <2> QED
    BY <1>1, <2>1 DEF RunReturns, StartClose, IInv, TypeOK,
         CancelledAfterClose, QuietAfterRun, ClosingCloses, FirstLeaves,
         Accounting, FirstIsDrained
<1>2. CASE WorkerDone
  BY <1>2 DEF WorkerDone, IInv, TypeOK, CancelledAfterClose, QuietAfterRun,
              ClosingCloses, FirstLeaves, Accounting, FirstIsDrained
<1> QED BY <1>1, <1>2

(* The inductive invariant holds in every reachable state. *)
THEOREM Invariance == Spec => []IInv
<1>1. IInv /\ [Next]_vars => IInv'
  <2> SUFFICES ASSUME IInv, [Next]_vars PROVE IInv'
    OBVIOUS
  <2>1. CASE UNCHANGED vars
    BY <2>1 DEF vars, IInv, TypeOK, CancelledAfterClose, QuietAfterRun,
                ClosingCloses, FirstLeaves, Accounting, FirstIsDrained
  <2>2. CASE Next
    BY <2>2, PeerInv, TaskInv, WorkerInv DEF Next
  <2> QED BY <2>1, <2>2
<1> QED BY <1>1, InitInv, PTL DEF Spec

(* The variables stay in their types. *)
THEOREM TypeCorrect == Spec => []TypeOK
<1>1. IInv => TypeOK BY DEF IInv
<1> QED BY <1>1, Invariance, PTL

(* close() is never cut short: tasks are cancelled only after Chrome's     *)
(* socket is closed.                                                       *)
THEOREM CloseComesFirst == Spec => []CancelledAfterClose
<1>1. IInv => CancelledAfterClose BY DEF IInv
<1> QED BY <1>1, Invariance, PTL

(* When run() has returned both tasks are done and the socket is closed. *)
THEOREM RunLeavesQuiet == Spec => []QuietAfterRun
<1>1. IInv => QuietAfterRun BY DEF IInv
<1> QED BY <1>1, Invariance, PTL

(* A direction that ends first, towards a peer that is still there, has    *)
(* forwarded all that its source sent.                                     *)
THEOREM FirstToEndIsDrained == Spec => []DrainedBeforeEnd
<1>1. IInv => DrainedBeforeEnd
  BY DEF IInv, FirstIsDrained, DrainedBeforeEnd
<1> QED BY <1>1, Invariance, PTL

----------------------------------------------------------------------------
(* Nobody is left waiting                                                  *)

(* Whoever hung up has its socket closed. *)
HungUpIsShut == \A s \in hung_up : ws[s] = "closed"

(* A task that is done leaves the other one done, in close() or cancelled. *)
NoneLeftAlone ==
  \A t, u \in Tasks :
    at[t] = "done" => at[u] \in {"closing", "done"} \/ cancelled[u]

EndInv == HungUpIsShut /\ NoneLeftAlone

(* The initial states satisfy it, and so does every state that a step ends in. *)
LEMMA EndInvInit == Init => EndInv
BY Directions DEF Init, EndInv, HungUpIsShut, NoneLeftAlone

LEMMA EndInvStep ==
  ASSUME IInv, EndInv, Next
  PROVE  EndInv'
<1> USE Directions DEF IInv, TypeOK, HungUpIsShut, NoneLeftAlone
<1>1. ASSUME NEW s \in Sides, PeerSends(s) \/ PeerReads(s) \/ PeerHangsUp(s)
      PROVE  EndInv'
  <2>1. UNCHANGED <<at, cancelled>>
    BY <1>1 DEF PeerSends, PeerReads, PeerHangsUp
  <2>2. \/ UNCHANGED <<ws, hung_up>>
        \/ /\ ws' = [ws EXCEPT ![s] = "closed"]
           /\ hung_up' = hung_up \cup {s}
    BY <1>1 DEF PeerSends, PeerReads, PeerHangsUp
  <2>3. HungUpIsShut'
    <3>1. hung_up \subseteq Sides /\ ws \in [Sides -> {"open", "closing", "closed"}]
      OBVIOUS
    <3>2. \A p \in hung_up : ws[p] = "closed"
      BY DEF EndInv
    <3>3. \A p \in hung_up' : ws'[p] = "closed"
      BY ONLY <2>2, <3>1, <3>2
    <3> QED
      BY <3>3
  <2>4. NoneLeftAlone'
    BY <2>1 DEF EndInv
  <2> QED
    BY <2>3, <2>4 DEF EndInv
<1>2. ASSUME NEW t \in Tasks, Leave(t), at[t] \in {"recv", "send"}
      PROVE  EndInv'
  BY <1>2 DEF Leave, StartClose, EndInv
<1>3. ASSUME NEW t \in Tasks, FinishClose(t), UNCHANGED <<ws, hung_up>>
      PROVE  EndInv'
  <2>1. ASSUME NEW u \in Tasks PROVE at'[u] = "done" \/ cancelled'[u]
    BY <1>3, <2>1 DEF FinishClose
  <2> QED
    BY <1>3, <2>1 DEF EndInv
<1>4. ASSUME NEW t \in Tasks, TaskStep(t)
      PROVE  EndInv'
  <2>1. CASE Start(t) \/ Receive(t) \/ Send(t)
    <3>1. UNCHANGED <<cancelled, ws, hung_up>> /\ ~cancelled[t]
      BY <2>1 DEF Start, Receive, Send
    <3>2. \A u \in Tasks :
            \/ at'[u] = at[u]
            \/ u = t /\ at[t] \notin {"closing", "done"} /\ at'[t] # "done"
      BY <2>1 DEF Start, Receive, Send
    <3> QED
      BY <3>1, <3>2 DEF EndInv
  <2>2. CASE SourceEnded(t) \/ SinkEnded(t)
    BY <2>2, <1>2 DEF SourceEnded, SinkEnded
  <2>3. CASE CloseReturns(t)
    BY <2>3, <1>3 DEF CloseReturns
  <2>4. CASE Interrupted(t)
    <3>1. CASE at[t] = "new"
      <4>1. first # None /\ at[t] # "closing" /\ at[t] # "done"
        BY <2>4, <3>1 DEF Interrupted, FirstLeaves
      <4>2. \A u \in Tasks : u # t => at[u] \in {"closing", "done"}
        BY <4>1 DEF FirstLeaves
      <4>3. /\ at' = [at EXCEPT ![t] = "done"]
            /\ \A u \in Tasks : u # t => cancelled'[u] = cancelled[u]
            /\ UNCHANGED <<ws, hung_up>>
        BY <2>4, <3>1 DEF Interrupted
      <4>4. HungUpIsShut'
        BY <4>3 DEF EndInv
      <4>5. NoneLeftAlone'
        <5>1. \A u \in Tasks : at'[u] \in {"closing", "done"}
          BY ONLY <4>2, <4>3, at \in [Tasks -> {"new", "recv", "send", "closing",
                                               "done"}]
        <5> QED
          BY <5>1
      <4> QED
        BY <4>4, <4>5 DEF EndInv
    <3>2. CASE at[t] \in {"recv", "send"}
      BY <2>4, <3>2, <1>2 DEF Interrupted
    <3>3. CASE at[t] = "closing"
      BY <2>4, <3>3, <1>3 DEF Interrupted
    <3> QED
      BY <2>4, <3>1, <3>2, <3>3 DEF Interrupted
  <2> QED
    BY <1>4, <2>1, <2>2, <2>3, <2>4 DEF TaskStep
<1>5. ASSUME HandshakeEnds \/ RunReturns \/ WorkerDone
      PROVE  EndInv'
  <2>1. UNCHANGED <<at, cancelled, hung_up>>
    BY <1>5 DEF HandshakeEnds, RunReturns, WorkerDone
  <2>2. \A s \in Sides : ws[s] = "closed" => ws'[s] = "closed"
    BY <1>5 DEF HandshakeEnds, RunReturns, WorkerDone, StartClose
  <2> QED
    BY <2>1, <2>2 DEF EndInv
<1> QED
  BY <1>1, <1>4, <1>5 DEF Next

(* Both invariants hold in every reachable state. *)
THEOREM EndInvariance == Spec => [](IInv /\ EndInv)
<1>1. IInv /\ EndInv /\ [Next]_vars => EndInv'
  <2> SUFFICES ASSUME IInv, EndInv, [Next]_vars PROVE EndInv'
    OBVIOUS
  <2>1. CASE UNCHANGED vars
    BY <2>1 DEF vars, EndInv, HungUpIsShut, NoneLeftAlone
  <2> QED
    BY <2>1, EndInvStep
<1> QED
  BY <1>1, EndInvInit, Invariance, PTL DEF Spec

(* After the end of a peer only the other one can hold the connection up:  *)
(* whoever waits for its own source sees its end, and a task that waits    *)
(* for anything else is cancelled by the one that ended before it.         *)
THEOREM OnlyPeersBlock == Spec => []OnlyAPeerBlocks
<1>1. IInv /\ EndInv => OnlyAPeerBlocks
  <2> SUFFICES ASSUME IInv, EndInv, NEW s \in hung_up
               PROVE  \/ \A t \in Tasks : at[t] = "done"
                      \/ \E t \in Tasks : CanStep(t) \/ WaitsForReader(t)
                      \/ ws["browser"] = "closing"
    BY DEF OnlyAPeerBlocks
  <2>1. PICK t \in Tasks : Source(t) = s
    BY Directions DEF IInv, TypeOK
  <2>2. ws[s] = "closed" /\ s \in Sides
    BY DEF EndInv, HungUpIsShut, IInv, TypeOK
  <2>3. at[t] \in {"new", "recv", "send", "closing", "done"}
    BY DEF IInv, TypeOK
  <2>4. CASE at[t] \in {"new", "recv"}
    BY <2>1, <2>2, <2>4 DEF CanStep
  <2>5. CASE at[t] = "send"
    <3>1. ws[Sink(t)] \in {"open", "closing", "closed"}
          /\ outbox[Sink(t)] \in 0 .. BUFFER /\ BUFFER \in Nat
      BY Directions, ProxyAssumption DEF IInv, TypeOK
    <3>2. ws[Sink(t)] = "closing" => Sink(t) = "browser"
      BY Directions DEF IInv, FirstLeaves, EndInv, HungUpIsShut
    <3> QED
      BY <2>5, <3>1, <3>2 DEF CanStep, WaitsForReader
  <2>6. ASSUME NEW u \in Tasks, at[u] = "closing"
        PROVE  CanStep(u) \/ ws["browser"] = "closing"
    <3>1. ws["browser"] \in {"closing", "closed"}
      BY <2>6, Directions DEF IInv, TypeOK, ClosingCloses
    <3> QED
      BY <2>6, <3>1 DEF CanStep
  <2>7. CASE at[t] = "done"
    <3>1. \A u \in Tasks : at[u] \in {"closing", "done"} \/ cancelled[u]
      BY <2>7 DEF EndInv, NoneLeftAlone
    <3> QED
      BY <3>1, <2>6 DEF CanStep
  <2> QED
    BY <2>3, <2>4, <2>5, <2>6, <2>7
<1> QED
  BY <1>1, EndInvariance, PTL

----------------------------------------------------------------------------
(* The proxy is a relay                                                    *)

Ended == {t \in Tasks : at[t] \in {"closing", "done"}}

(* The mapping read at one direction and at one peer. *)
LEMMA Mapped ==
  /\ [t \in Tasks |-> Source(t)] \in [Tasks -> Sides]
  /\ [t \in Tasks |-> Sink(t)] \in [Tasks -> Sides]
  /\ \A t \in Tasks : /\ [u \in Tasks |-> Source(u)][t] = Source(t)
                       /\ [u \in Tasks |-> Sink(u)][t] = Sink(t)
BY Directions

(* A direction has ended if, and only if, a first one has. *)
LEMMA FirstEnded == ASSUME IInv PROVE first = None <=> Ended = {}
BY Directions DEF IInv, TypeOK, FirstLeaves, Ended

(* What the peers do is what the relay's peers do. *)
LEMMA PeerStepMaps ==
  ASSUME IInv, EndInv, NEW s \in Sides,
         PeerSends(s) \/ PeerReads(s) \/ PeerHangsUp(s)
  PROVE  [Relays!Next]_(Relays!relayVars)
<1> USE Directions DEF IInv, TypeOK
<1>1. Ended' = Ended
  BY DEF PeerSends, PeerReads, PeerHangsUp, Ended
<1>2. ws[s] = "open" /\ s \notin hung_up
  BY DEF PeerSends, PeerReads, PeerHangsUp, EndInv, HungUpIsShut
<1>3. CASE PeerSends(s)
  BY <1>1, <1>2, <1>3 DEF PeerSends, Relays!Next, Relays!Submit, Ended
<1>4. CASE PeerReads(s)
  BY <1>1, <1>4 DEF PeerReads, Relays!relayVars, Ended
<1>5. CASE PeerHangsUp(s)
  BY <1>1, <1>2, <1>5 DEF PeerHangsUp, Relays!Next, Relays!HangUp, Ended
<1> QED
  BY <1>3, <1>4, <1>5

(* A message that is sent on was received before, and goes to a peer that is *)
(* there.                                                                    *)
LEMMA SendDelivers ==
  ASSUME IInv, EndInv, NEW t \in Tasks, Send(t)
  PROVE  Relays!Deliver(t)
<1> USE Directions, Mapped DEF IInv, TypeOK, Send
<1>1. Ended' = Ended /\ t \notin Ended
  BY DEF Ended
<1>2. Sink(t) \notin hung_up
  BY DEF EndInv, HungUpIsShut
<1>3. forwarded[t] < sent[Source(t)]
  BY DEF Accounting
<1> QED
  BY <1>1, <1>2, <1>3 DEF Relays!Deliver, Ended

(* A direction that ends after the other needs no reason, the first has one. *)
LEMMA EndMaps ==
  ASSUME IInv, NEW t \in Tasks, t \notin Ended, Ended' = Ended \cup {t},
         UNCHANGED <<sent, forwarded, hung_up>>,
         \/ first # None
         \/ Sink(t) \in hung_up
         \/ Source(t) \in hung_up /\ forwarded[t] = sent[Source(t)]
  PROVE  Relays!End(t)
<1>1. Ended # {} \/ Relays!Exhausted(t)
  BY FirstEnded, Mapped DEF Relays!Exhausted
<1> QED
  BY <1>1 DEF Relays!End, Ended

(* Leaving the loop ends the direction; the rest of close() is no step. *)
LEMMA TaskStepMaps ==
  ASSUME IInv, EndInv, NEW t \in Tasks, TaskStep(t)
  PROVE  [Relays!Next]_(Relays!relayVars)
<1> USE Directions DEF IInv, TypeOK
<1>1. ASSUME Leave(t), at[t] \in {"recv", "send"}
      PROVE  /\ t \notin Ended /\ Ended' = Ended \cup {t}
             /\ UNCHANGED <<sent, forwarded, hung_up>>
  BY <1>1 DEF Leave, Ended
<1>2. CASE Start(t) \/ Receive(t)
  <2>1. Ended' = Ended /\ UNCHANGED <<sent, forwarded, hung_up>>
    BY <1>2 DEF Start, Receive, Ended
  <2> QED
    BY <2>1 DEF Relays!relayVars, Ended
<1>3. CASE Send(t)
  BY <1>3, SendDelivers DEF Relays!Next
<1>4. CASE SourceEnded(t)
  <2>1. \/ first # None
        \/ Source(t) \in hung_up /\ forwarded[t] = sent[Source(t)]
    BY <1>4 DEF SourceEnded, FirstLeaves, Accounting
  <2> QED
    BY <1>4, <1>1, <2>1, EndMaps DEF SourceEnded, Relays!Next
<1>5. CASE SinkEnded(t)
  <2>1. first # None \/ Sink(t) \in hung_up
    BY <1>5 DEF SinkEnded, FirstLeaves
  <2> QED
    BY <1>5, <1>1, <2>1, EndMaps DEF SinkEnded, Relays!Next
<1>6. CASE at[t] = "closing" /\ at' = [at EXCEPT ![t] = "done"]
           /\ UNCHANGED <<sent, forwarded, hung_up>>
  <2>1. Ended' = Ended
    BY <1>6 DEF Ended
  <2> QED
    BY <1>6, <2>1 DEF Relays!relayVars, Ended
<1>7. CASE Interrupted(t) /\ at[t] # "closing"
  <2>1. first # None
    BY <1>7 DEF Interrupted, FirstLeaves
  <2>2. /\ t \notin Ended /\ Ended' = Ended \cup {t}
        /\ UNCHANGED <<sent, forwarded, hung_up>>
    BY <1>7, <1>1 DEF Interrupted, Ended
  <2> QED
    BY <2>1, <2>2, EndMaps DEF Relays!Next
<1> QED
  BY <1>2, <1>3, <1>4, <1>5, <1>6, <1>7
  DEF TaskStep, CloseReturns, Interrupted, FinishClose

(* The handshake and the worker touch nothing the relay knows of. *)
LEMMA WorkerStepMaps ==
  ASSUME HandshakeEnds \/ RunReturns \/ WorkerDone
  PROVE  UNCHANGED Relays!relayVars
BY DEF HandshakeEnds, RunReturns, WorkerDone, Relays!relayVars

(* Every step of the proxy is one of the relay's or a stutter: a message is  *)
(* delivered once and in order, to a peer that is there, and a connection    *)
(* ends because a peer ended it, whose messages were delivered.              *)
THEOREM ProxyIsRelay == Spec => ImplementsRelay
<1>1. Init => Relays!Init
  BY Directions DEF Init, Relays!Init
<1>2. IInv /\ EndInv /\ [Next]_vars => [Relays!Next]_(Relays!relayVars)
  <2> SUFFICES ASSUME IInv, EndInv, [Next]_vars
               PROVE  [Relays!Next]_(Relays!relayVars)
    OBVIOUS
  <2>1. CASE UNCHANGED vars
    BY <2>1 DEF vars, Relays!relayVars
  <2>2. CASE Next
    BY <2>2, PeerStepMaps, TaskStepMaps, WorkerStepMaps DEF Next
  <2> QED
    BY <2>1, <2>2
<1> QED
  BY <1>1, <1>2, EndInvariance, PTL DEF Spec, ImplementsRelay, Relays!Spec

(* What the relay promises follows from its own steps: no more is delivered  *)
(* than was sent, and what ended first had nothing left to do.               *)
THEOREM RelayIsFaithful == Relays!Spec => []Relays!Faithful
<1> DEFINE Types == /\ sent \in [Sides -> Nat]
                    /\ forwarded \in [Tasks -> Nat]
                    /\ hung_up \subseteq Sides
           RInv == Types /\ Relays!Faithful
<1>1. Relays!Init => RInv
  BY Directions, Mapped DEF Relays!Init, Relays!Faithful
<1>2. RInv /\ [Relays!Next]_(Relays!relayVars) => RInv'
  <2> SUFFICES ASSUME RInv, [Relays!Next]_(Relays!relayVars) PROVE RInv'
    OBVIOUS
  <2> USE Mapped DEF Relays!Faithful, Relays!Exhausted
  <2>1. CASE UNCHANGED Relays!relayVars
    BY <2>1 DEF Relays!relayVars
  <2>2. ASSUME NEW p \in Sides, Relays!Submit(p) PROVE RInv'
    BY <2>2 DEF Relays!Submit
  <2>3. ASSUME NEW p \in Sides, Relays!HangUp(p) PROVE RInv'
    BY <2>3 DEF Relays!HangUp
  <2>4. ASSUME NEW t \in Tasks, Relays!Deliver(t) PROVE RInv'
    BY <2>4 DEF Relays!Deliver
  <2>5. ASSUME NEW t \in Tasks, Relays!End(t) PROVE RInv'
    BY <2>5 DEF Relays!End
  <2> QED
    BY <2>1, <2>2, <2>3, <2>4, <2>5 DEF Relays!Next
<1>3. RInv => Relays!Faithful
  OBVIOUS
<1> QED
  BY <1>1, <1>2, <1>3, PTL DEF Relays!Spec
=============================================================================
