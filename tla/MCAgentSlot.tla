----------------------------- MODULE MCAgentSlot -----------------------------
(***************************************************************************)
(* Instances of AgentSlot for TLC.                                         *)
(***************************************************************************)
EXTENDS AgentSlot, TLC

Symmetry == Permutations(Agents) \cup Permutations(Slots)
=============================================================================
