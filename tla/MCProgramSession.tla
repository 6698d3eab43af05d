-------------------------- MODULE MCProgramSession --------------------------
(***************************************************************************)
(* ProgramSession for TLC: one binary, two composites (analysis recovers   *)
(* one, an archive brings the other), a function and a comment slot that   *)
(* analysis fills.  A change-log of one target per kind makes it overflow. *)
(***************************************************************************)
EXTENDS ProgramSession
=============================================================================
