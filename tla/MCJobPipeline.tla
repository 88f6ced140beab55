--------------------------- MODULE MCJobPipeline ---------------------------
(* Constants of the TLC runs of JobPipeline.                               *)
EXTENDS JobPipeline, TLC

\* One envelope that needs a reviewer and one that does not.
MCVerdict == {"ALLOW", "FLAG"}
MCReviewVerdict == {"FLAG"}

\* The slots, and separately the processes of a kind, are interchangeable.
MCSymmetry == Permutations(Msg) \cup Permutations(Worker)
=============================================================================
