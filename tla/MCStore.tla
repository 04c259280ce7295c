------------------------------ MODULE MCStore ------------------------------
(* Commands are interchangeable.                                           *)
EXTENDS Store, TLC

Symmetry == Permutations(Commands)
=============================================================================
