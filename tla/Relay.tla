--------------------------------- MODULE Relay ---------------------------------
(***************************************************************************)
(* What the proxy promises the two peers of a connection: a pipe in each   *)
(* direction, that loses nothing and ends only when it has to.             *)
(*                                                                         *)
(* A message is its number: what was delivered of a direction is always    *)
(* the beginning of what was sent, in its order.  Sockets, buffers, tasks  *)
(* and their cancellation do not appear: WebsocketProxy implements this    *)
(* module with them.                                                       *)
(***************************************************************************)
EXTENDS Naturals

CONSTANTS
  Dirs,  \* the directions
  Ends,  \* the peers
  From,  \* the peer that a direction starts at, a function on Dirs
  To     \* the peer that it leads to

VARIABLES
  sent,       \* messages each peer sent
  delivered,  \* messages of each direction that the other peer was given
  gone,       \* peers that ended their connection
  ended       \* directions that ended

relayVars == <<sent, delivered, gone, ended>>

Init ==
  /\ sent = [p \in Ends |-> 0]
  /\ delivered = [d \in Dirs |-> 0]
  /\ gone = {}
  /\ ended = {}

Submit(p) ==
  /\ p \notin gone
  /\ sent' = [sent EXCEPT ![p] = @ + 1]
  /\ UNCHANGED <<delivered, gone, ended>>

Deliver(d) ==
  /\ d \notin ended /\ To[d] \notin gone
  /\ delivered[d] < sent[From[d]]
  /\ delivered' = [delivered EXCEPT ![d] = @ + 1]
  /\ UNCHANGED <<sent, gone, ended>>

HangUp(p) ==
  /\ p \notin gone
  /\ gone' = gone \cup {p}
  /\ UNCHANGED <<sent, delivered, ended>>

\* A direction has nowhere to lead to, or nothing to come.
Exhausted(d) ==
  \/ To[d] \in gone
  \/ From[d] \in gone /\ delivered[d] = sent[From[d]]

\* The first direction to end has to; it may take the others with it.
End(d) ==
  /\ d \notin ended
  /\ ended # {} \/ Exhausted(d)
  /\ ended' = ended \cup {d}
  /\ UNCHANGED <<sent, delivered, gone>>

Next ==
  \/ \E p \in Ends : Submit(p) \/ HangUp(p)
  \/ \E d \in Dirs : Deliver(d) \/ End(d)

Spec == Init /\ [][Next]_relayVars

\* Nothing is invented or delivered twice, and a connection that ends has, in
\* some direction, nothing more to do: if both peers are there, it goes on.
Faithful ==
  /\ \A d \in Dirs : delivered[d] <= sent[From[d]]
  /\ ended # {} => \E d \in ended : Exhausted(d)
=============================================================================
