---------------------------- MODULE WebsocketProxy ----------------------------
(***************************************************************************)
(* One proxied connection (geppytto/websocket_proxy/__init__.py), from the *)
(* worker's call of run() to the return of its own close() in              *)
(* browser_agent/api/proxy/browser.py.                                     *)
(*                                                                         *)
(* Two tasks copy messages, "c2b" from the client to Chrome and "b2c" back.*)
(* Each one's finally clause calls close(), which closes Chrome's socket   *)
(* and then cancels BOTH tasks, the caller among them.  The worker never   *)
(* passes a protocol handler, so every message is forwarded as it is.      *)
(*                                                                         *)
(* The sockets are those of websockets 5.0.1 as this code uses them: recv  *)
(* hands out what had arrived before it reports the end of a connection,   *)
(* send waits while the peer's buffer is full, close() ends by a time-out  *)
(* at the latest, and Python 3.6's CancelledError is an Exception.         *)
(***************************************************************************)
EXTENDS Naturals

CONSTANTS
  None,
  MESSAGES,  \* bound of the model: messages each peer sends
  BUFFER     \* messages a peer can leave unread before send waits

ASSUME ProxyAssumption ==
  /\ MESSAGES \in Nat /\ BUFFER \in Nat \ {0}
  /\ None \notin {"c2b", "b2c"}

Tasks == {"c2b", "b2c"}
Sides == {"client", "browser"}
Source(t) == IF t = "c2b" THEN "client" ELSE "browser"
Sink(t) == IF t = "c2b" THEN "browser" ELSE "client"

VARIABLES
  at,         \* where each task is suspended
  cancelled,  \* task.cancel() was called, CancelledError not raised yet
  worker,     \* the connection's worker: in run(), in its close(), past both
  ws,         \* state of client_ws and of browser_ws
  inbox,      \* messages that arrived on a socket and were not received
  outbox,     \* messages written to a socket that its peer did not read
  sent,       \* history: messages each peer sent
  forwarded,  \* history: messages each task wrote
  hung_up,    \* history: peers whose connection ended, though not by close()
  first       \* history: the task that left its loop first

vars == <<at, cancelled, worker, ws, inbox, outbox,
          sent, forwarded, hung_up, first>>

TypeOK ==
  /\ at \in [Tasks -> {"new", "recv", "send", "closing", "done"}]
  /\ cancelled \in [Tasks -> BOOLEAN]
  /\ worker \in {"run", "close", "done"}
  /\ ws \in [Sides -> {"open", "closing", "closed"}]
  /\ inbox \in [Sides -> Nat]
  /\ outbox \in [Sides -> 0 .. BUFFER]
  /\ sent \in [Sides -> 0 .. MESSAGES]
  /\ forwarded \in [Tasks -> Nat]
  /\ hung_up \in SUBSET Sides
  /\ first \in Tasks \cup {None}

(* run() has created both tasks; neither has been stepped. *)
Init ==
  /\ at = [t \in Tasks |-> "new"]
  /\ cancelled = [t \in Tasks |-> FALSE]
  /\ worker = "run"
  /\ ws = [s \in Sides |-> "open"]
  /\ inbox = [s \in Sides |-> 0]
  /\ outbox = [s \in Sides |-> 0]
  /\ sent = [s \in Sides |-> 0]
  /\ forwarded = [t \in Tasks |-> 0]
  /\ hung_up = {}
  /\ first = None

----------------------------------------------------------------------------
(* The peers: Chrome and the client. *)

(* A message of no more than max_size, which websockets sets to 1 MiB. *)
PeerSends(s) ==
  /\ worker # "done" /\ ws[s] = "open" /\ sent[s] < MESSAGES
  /\ sent' = [sent EXCEPT ![s] = @ + 1]
  /\ inbox' = [inbox EXCEPT ![s] = @ + 1]
  /\ UNCHANGED <<at, cancelled, worker, ws, outbox, forwarded, hung_up, first>>

PeerReads(s) ==
  /\ worker # "done" /\ ws[s] = "open" /\ outbox[s] > 0
  /\ outbox' = [outbox EXCEPT ![s] = @ - 1]
  /\ UNCHANGED <<at, cancelled, worker, ws, inbox, sent, forwarded,
                 hung_up, first>>

(* The peer closes, crashes, or its connection breaks; or it sends a message *)
(* above max_size, which is lost and for which websockets fails the          *)
(* connection from this side, behind what had arrived before.                *)
PeerHangsUp(s) ==
  /\ worker # "done" /\ ws[s] = "open"
  /\ ws' = [ws EXCEPT ![s] = "closed"]
  /\ hung_up' = hung_up \cup {s}
  /\ UNCHANGED <<at, cancelled, worker, inbox, outbox, sent, forwarded, first>>

(* The closing handshake with Chrome ends, or its time-out does. *)
HandshakeEnds ==
  /\ ws["browser"] = "closing"
  /\ ws' = [ws EXCEPT !["browser"] = "closed"]
  /\ UNCHANGED <<at, cancelled, worker, inbox, outbox, sent, forwarded,
                 hung_up, first>>

----------------------------------------------------------------------------
(* close(): up to the await of browser_ws.close(), and after it. *)

StartClose ==
  ws' = [ws EXCEPT !["browser"] = IF @ = "open" THEN "closing" ELSE @]

(* Mutant of FinishClose: close() forgets to cancel the tasks. *)
FinishCloseWrong(t) ==
  /\ at' = [at EXCEPT ![t] = "done"]
  /\ UNCHANGED cancelled

(* Task t is past the await: it cancels both tasks and ends.  A cancelled  *)
(* task that is done stays done.                                           *)
FinishClose(t) ==
  /\ at' = [at EXCEPT ![t] = "done"]
  /\ cancelled' = [u \in Tasks |-> u # t /\ at[u] # "done"]

(* Mutant of Leave: close() cancels the tasks before it closes the socket. *)
LeaveWrong(t) ==
  /\ at' = [at EXCEPT ![t] = "closing"]
  /\ cancelled' = [u \in Tasks |-> at[u] # "done"]
  /\ first' = IF first = None THEN t ELSE first
  /\ StartClose
  /\ UNCHANGED <<worker, inbox, outbox, sent, forwarded, hung_up>>

(* Task t leaves its loop: the finally clause calls close(). *)
Leave(t) ==
  /\ at' = [at EXCEPT ![t] = "closing"]
  /\ cancelled' = [cancelled EXCEPT ![t] = FALSE]
  /\ first' = IF first = None THEN t ELSE first
  /\ StartClose
  /\ UNCHANGED <<worker, inbox, outbox, sent, forwarded, hung_up>>

----------------------------------------------------------------------------
(* The two forwarding tasks.  A cancelled task's next step is Interrupted. *)

Start(t) ==
  /\ at[t] = "new" /\ ~cancelled[t]
  /\ at' = [at EXCEPT ![t] = "recv"]
  /\ UNCHANGED <<cancelled, worker, ws, inbox, outbox, sent, forwarded,
                 hung_up, first>>

(* Mutant of Receive: a control message has no handler and is dropped. *)
ReceiveWrong(t) ==
  /\ at[t] = "recv" /\ ~cancelled[t] /\ inbox[Source(t)] > 0
  /\ inbox' = [inbox EXCEPT ![Source(t)] = @ - 1]
  /\ UNCHANGED <<at, cancelled, worker, ws, outbox, sent, forwarded,
                 hung_up, first>>

Receive(t) ==
  /\ at[t] = "recv" /\ ~cancelled[t] /\ inbox[Source(t)] > 0
  /\ inbox' = [inbox EXCEPT ![Source(t)] = @ - 1]
  /\ at' = [at EXCEPT ![t] = "send"]
  /\ UNCHANGED <<cancelled, worker, ws, outbox, sent, forwarded,
                 hung_up, first>>

(* Mutant of Send: the task does not wait for the peer to read. *)
SendWrong(t) ==
  /\ at[t] = "send" /\ ~cancelled[t] /\ ws[Sink(t)] = "open"
  /\ outbox' = [outbox EXCEPT ![Sink(t)] = @ + 1]
  /\ forwarded' = [forwarded EXCEPT ![t] = @ + 1]
  /\ at' = [at EXCEPT ![t] = "recv"]
  /\ UNCHANGED <<cancelled, worker, ws, inbox, sent, hung_up, first>>

Send(t) ==
  /\ at[t] = "send" /\ ~cancelled[t]
  /\ ws[Sink(t)] = "open" /\ outbox[Sink(t)] < BUFFER
  /\ outbox' = [outbox EXCEPT ![Sink(t)] = @ + 1]
  /\ forwarded' = [forwarded EXCEPT ![t] = @ + 1]
  /\ at' = [at EXCEPT ![t] = "recv"]
  /\ UNCHANGED <<cancelled, worker, ws, inbox, sent, hung_up, first>>

SourceEnded(t) ==
  /\ at[t] = "recv" /\ ~cancelled[t]
  /\ inbox[Source(t)] = 0 /\ ws[Source(t)] = "closed"
  /\ Leave(t)

SinkEnded(t) ==
  /\ at[t] = "send" /\ ~cancelled[t] /\ ws[Sink(t)] = "closed"
  /\ Leave(t)

CloseReturns(t) ==
  /\ at[t] = "closing" /\ ~cancelled[t] /\ ws["browser"] = "closed"
  /\ FinishClose(t)
  /\ UNCHANGED <<worker, ws, inbox, outbox, sent, forwarded, hung_up, first>>

(* CancelledError is raised in task t: a task that never ran just ends, a  *)
(* loop is left, and close() swallows it and goes on to cancel.            *)
Interrupted(t) ==
  /\ cancelled[t]
  /\ \/ /\ at[t] = "new"
        /\ at' = [at EXCEPT ![t] = "done"]
        /\ cancelled' = [cancelled EXCEPT ![t] = FALSE]
        /\ UNCHANGED <<worker, ws, inbox, outbox, sent, forwarded,
                       hung_up, first>>
     \/ /\ at[t] \in {"recv", "send"}
        /\ Leave(t)
     \/ /\ at[t] = "closing"
        /\ FinishClose(t)
        /\ UNCHANGED <<worker, ws, inbox, outbox, sent, forwarded,
                       hung_up, first>>

----------------------------------------------------------------------------
(* The worker: run() waits for both tasks, then the worker calls close().  *)

(* Mutant of RunReturns: run() waits for FIRST_COMPLETED. *)
RunReturnsWrong ==
  /\ worker = "run" /\ \E t \in Tasks : at[t] = "done"
  /\ worker' = "close"
  /\ StartClose
  /\ UNCHANGED <<at, cancelled, inbox, outbox, sent, forwarded, hung_up, first>>

RunReturns ==
  /\ worker = "run" /\ \A t \in Tasks : at[t] = "done"
  /\ worker' = "close"
  /\ StartClose
  /\ UNCHANGED <<at, cancelled, inbox, outbox, sent, forwarded, hung_up, first>>

WorkerDone ==
  /\ worker = "close" /\ ws["browser"] = "closed"
  /\ worker' = "done"
  /\ UNCHANGED <<at, cancelled, ws, inbox, outbox, sent, forwarded,
                 hung_up, first>>

TaskStep(t) ==
  \/ Start(t) \/ Receive(t) \/ Send(t)
  \/ SourceEnded(t) \/ SinkEnded(t) \/ CloseReturns(t) \/ Interrupted(t)

Next ==
  \/ \E s \in Sides : PeerSends(s) \/ PeerReads(s) \/ PeerHangsUp(s)
  \/ \E t \in Tasks : TaskStep(t)
  \/ HandshakeEnds \/ RunReturns \/ WorkerDone

Spec == Init /\ [][Next]_vars

(* The event loop steps every task that can run, close() has time-outs, and *)
(* both peers read what they are sent as long as they stay connected.       *)
LiveSpec ==
  /\ Spec
  /\ \A t \in Tasks : WF_vars(TaskStep(t))
  /\ \A s \in Sides : WF_vars(PeerReads(s))
  /\ WF_vars(HandshakeEnds) /\ WF_vars(RunReturns) /\ WF_vars(WorkerDone)

----------------------------------------------------------------------------
(* A forwarding task is cancelled only when Chrome's socket is closed: the *)
(* first close() is never cut short before the socket is.  Were close() to *)
(* cancel first, it would cancel the task that runs it.                    *)
CancelledAfterClose ==
  \A t \in Tasks : cancelled[t] => ws["browser"] = "closed"

(* Once run() has returned the connection is quiet: neither task can write *)
(* to a socket any more, none is about to be cancelled, and Chrome's       *)
(* socket is already closed, so that the worker's own close() is idle.     *)
QuietAfterRun ==
  worker # "run" =>
    /\ \A t \in Tasks : at[t] = "done" /\ ~cancelled[t]
    /\ ws["browser"] = "closed"

(* Nothing a peer sent before it hung up is dropped, provided that its own *)
(* direction ends first and the other peer is still there.  (When the      *)
(* other direction ends first, close() cancels this one and what it has    *)
(* still queued is lost: a client that sends a command and hangs up may    *)
(* lose the command to an event of Chrome's that cannot be delivered.)     *)
DrainedBeforeEnd ==
  \A t \in Tasks :
    (at[t] \in {"closing", "done"} /\ first = t /\ Sink(t) \notin hung_up) =>
      forwarded[t] = sent[Source(t)]

(* Task t can take a step by itself. *)
CanStep(t) ==
  \/ cancelled[t]
  \/ at[t] = "new"
  \/ /\ at[t] = "recv"
     /\ inbox[Source(t)] > 0 \/ ws[Source(t)] = "closed"
  \/ /\ at[t] = "send"
     /\ \/ ws[Sink(t)] = "closed"
        \/ ws[Sink(t)] = "open" /\ outbox[Sink(t)] < BUFFER
  \/ at[t] = "closing" /\ ws["browser"] = "closed"

(* Its send waits for a peer that is connected and does not read. *)
WaitsForReader(t) ==
  at[t] = "send" /\ ws[Sink(t)] = "open" /\ outbox[Sink(t)] = BUFFER

(* After the end of either peer nothing but the other one can hold the     *)
(* connection up: as long as run() has not returned, a task can take a     *)
(* step, Chrome's closing handshake is under way, or a peer that is still  *)
(* connected leaves its buffer full.  The two tasks never wait for each    *)
(* other, nor one for a socket whose end the other has seen.               *)
OnlyAPeerBlocks ==
  hung_up # {} /\ worker = "run" =>
    \/ \A t \in Tasks : at[t] = "done"
    \/ \E t \in Tasks : CanStep(t) \/ WaitsForReader(t)
    \/ ws["browser"] = "closing"

(* Either peer's end ends the connection: the worker gets past run(), and  *)
(* so to remove_client() and to the browser's permit.                      *)
HangUpEndsConnection == \A s \in Sides : (s \in hung_up) ~> (worker = "done")
----------------------------------------------------------------------------
(* The two tasks are the pipes of Relay; one that is in close(), or past   *)
(* it, writes no more.                                                     *)
Relays == INSTANCE Relay WITH
  Dirs <- Tasks, Ends <- Sides,
  From <- [t \in Tasks |-> Source(t)], To <- [t \in Tasks |-> Sink(t)],
  delivered <- forwarded, gone <- hung_up,
  ended <- {t \in Tasks : at[t] \in {"closing", "done"}}

(* With its cancellations, its time-outs and two tasks that close the same *)
(* socket the proxy is a faithful relay: it delivers each peer's messages  *)
(* once and in order, writes to no peer that has gone, and ends a          *)
(* connection only when a peer has, whose messages went through unless     *)
(* it is the other who is not there to get them.                           *)
ImplementsRelay == Relays!Spec
=============================================================================
