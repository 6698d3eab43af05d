-------------------------- MODULE MCSessionManager --------------------------
(***************************************************************************)
(* SessionManager for TLC: sessions, principals and threads are model      *)
(* values, interchangeable in the safety run.                              *)
(***************************************************************************)
EXTENDS SessionManager, TLC

Symmetry == Permutations(Sessions) \cup Permutations(Principals) \cup Permutations(Threads)
=============================================================================
