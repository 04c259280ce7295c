---------------------------- MODULE MCLifecycle -----------------------------
(* Instances of Lifecycle for TLC: the daemons are interchangeable.        *)
EXTENDS Lifecycle, TLC

Symmetry == Permutations(Daemons)
=============================================================================
