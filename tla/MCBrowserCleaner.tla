--------------------------- MODULE MCBrowserCleaner ---------------------------
(***************************************************************************)
(* Instances of BrowserCleaner for TLC.                                    *)
(***************************************************************************)
EXTENDS BrowserCleaner, TLC

\* Connections and bids are interchangeable; browsers are not, as the next one
\* to be launched is fixed.
Symmetry == Permutations(Conns) \cup Permutations(Bids)
=============================================================================
