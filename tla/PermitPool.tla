------------------------------ MODULE PermitPool ------------------------------
(***************************************************************************)
(* What get_browser_sem is to give the agent: N permits, of which every    *)
(* Browser takes one, at most once, and gives that one back, exactly once. *)
(***************************************************************************)
EXTENDS Naturals

CONSTANTS
  Users,  \* who takes permits: the agent's Browser objects
  N       \* number of permits

VARIABLES
  free,   \* permits nobody holds
  permit  \* "none" before, "held" while and "returned" after a user holds one

Init ==
  /\ free = N
  /\ permit = [u \in Users |-> "none"]

Acquire(u) ==
  /\ free > 0 /\ permit[u] = "none"
  /\ free' = free - 1
  /\ permit' = [permit EXCEPT ![u] = "held"]

Return(u) ==
  /\ permit[u] = "held"
  /\ free' = free + 1
  /\ permit' = [permit EXCEPT ![u] = "returned"]

\* A failed user hands its permit to the one that is tried next.
HandOver(u, w) ==
  /\ permit[u] = "held" /\ permit[w] = "none"
  /\ permit' = [permit EXCEPT ![u] = "returned", ![w] = "held"]
  /\ UNCHANGED free

Next ==
  \/ \E u \in Users : Acquire(u) \/ Return(u)
  \/ \E u, w \in Users : HandOver(u, w)

Spec == Init /\ [][Next]_<<free, permit>>
=============================================================================
