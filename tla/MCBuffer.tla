------------------------------ MODULE MCBuffer ------------------------------
(* Model-checking instance of Buffer: three view slots over a region of    *)
(* three bytes holding one of two byte values.                             *)
EXTENDS Buffer, TLC

\* View slots are interchangeable: only which slots share a region matters.
ViewSymmetry == Permutations(Views)

=============================================================================
