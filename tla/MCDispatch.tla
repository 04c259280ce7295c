----------------------------- MODULE MCDispatch -----------------------------
(***************************************************************************)
(* Small messages for Dispatch: every kind of text in every place, but     *)
(* the second prefix and the suffixes where they make a difference.        *)
(***************************************************************************)
EXTENDS Dispatch, TLC

CONSTANTS p1, p2, n1, s1, s2, s3, none

MCMessages ==
  {m \in [sender  : {"operator", "stranger"},
          place   : {Main} \cup Sessions,
          command : {"none", "run", "cancel", "status", "other"},
          at      : {"none", "own", "other"},
          lead    : {"empty", "words", "key"},
          key     : {<<p1, n1>>, <<p2, n1>>, none}] :
     /\ m.command = "none" => m.at = "none" /\ m.lead = "words"
     /\ m.command \in {"cancel", "status"} => m.lead = "empty"
     /\ m.command = "other" => m.lead = "empty"
     /\ m.lead = "empty" => m.key = none
     /\ m.lead = "key" => m.key # none
     /\ m.at = "own" => m.command = "cancel"
     /\ m.command = "run" => m.key # <<p2, n1>>
     /\ m.command \in {"status", "other"} => m.at = "none"
     /\ m.sender = "stranger" => m.at = "none" /\ m.key # <<p2, n1>>
     /\ m.sender = "stranger" /\ m.place # Main => m.command = "cancel"
     /\ m.command = "none" /\ m.place # Main => m.key = <<p1, n1>>
     /\ m.command = "run" /\ m.place # Main => m.lead # "empty" /\ m.at = "none"}

Symmetry == Permutations(Sessions)
=============================================================================
