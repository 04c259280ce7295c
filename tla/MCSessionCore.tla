--------------------------- MODULE MCSessionCore ---------------------------
(* SessionCore on small sets for TLC.                                      *)
EXTENDS SessionCore, TLC

\* Session ids and issue keys are interchangeable in safety runs.
Symmetry == Permutations(Sessions) \cup Permutations(Issues)
=============================================================================
