---------------------------- MODULE MCBrowserPool ----------------------------
(***************************************************************************)
(* Instances of BrowserPool for TLC.                                       *)
(***************************************************************************)
EXTENDS BrowserPool, TLC

\* Connections and bids are interchangeable; browsers are not, as the next one
\* to be launched is fixed.
Symmetry == Permutations(Conns) \cup Permutations(Bids)
=============================================================================
