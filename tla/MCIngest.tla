------------------------------ MODULE MCIngest ------------------------------
(* Constants of the TLC runs of Ingest.                                    *)
EXTENDS Ingest, TLC

\* Uploads are interchangeable.
MCSymmetry == Permutations(Upload)

\* h1 is a PNG of the largest size; h2 is too large and its bytes tell no type.
CONSTANTS h1, h2

MCSize == [h \in Hash |-> IF h = h1 THEN 2 ELSE 3]
MCMagic == [h \in Hash |-> IF h = h1 THEN "image/png" ELSE None]
=============================================================================
