----------------------------- MODULE MCAnalysis -----------------------------
(* The TLC run of Analysis.                                                *)
EXTENDS Analysis
=============================================================================
