---------------------------- MODULE MCReviewDesk ----------------------------
(* Constants of the TLC runs of ReviewDesk.                                *)
EXTENDS ReviewDesk, TLC

\* Reviewers, and request slots, are interchangeable.
MCSymmetry == Permutations(Reviewer) \cup Permutations(Request)
=============================================================================
