--------------------------- MODULE MCToolDispatch ---------------------------
(***************************************************************************)
(* ToolDispatch for TLC: the event loop, one analysis thread, the reaper.  *)
(***************************************************************************)
EXTENDS ToolDispatch, TLC

Symmetry == Permutations(Principals)
=============================================================================
