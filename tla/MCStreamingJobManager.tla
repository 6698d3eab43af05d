----------------------- MODULE MCStreamingJobManager -----------------------
(***************************************************************************)
(* StreamingJobManager for TLC: the event loop, one analysis thread, the   *)
(* reaper, and interchangeable job ids, sessions and callers.      *)
(***************************************************************************)
EXTENDS StreamingJobManager, TLC

Symmetry == Permutations(Jobs) \cup Permutations(Sessions) \cup Permutations(Principals)
=============================================================================
