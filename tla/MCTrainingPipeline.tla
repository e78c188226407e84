------------------------- MODULE MCTrainingPipeline -------------------------
(* Small instances of TrainingPipeline.tla for TLC. *)
EXTENDS TrainingPipeline, TLC

\* Submitters, workers and promoters are interchangeable (for the safety runs only).
PipelineSymmetry == Permutations(Submitters) \cup Permutations(Workers) \cup Permutations(Promoters)
=============================================================================
