--------------------------- MODULE MCDynamicRouter ---------------------------
(***************************************************************************)
(* Instance of DynamicRouter for TLC: see the .cfg file.                   *)
(***************************************************************************)
EXTENDS DynamicRouter
=============================================================================
