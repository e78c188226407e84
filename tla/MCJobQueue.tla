---------------------------- MODULE MCJobQueue ------------------------------
(* Small instances of JobQueue.tla for TLC. *)
EXTENDS JobQueue, TLC

\* Submitters and workers are interchangeable (for the safety runs only).
QueueSymmetry == Permutations(Submitters) \cup Permutations(Workers)
=============================================================================
