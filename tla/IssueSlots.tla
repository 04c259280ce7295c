----------------------------- MODULE IssueSlots -----------------------------
(***************************************************************************)
(* What the daemon promises about sessions, with nothing of how: an issue  *)
(* is worked on by at most one session at a time, at most Capacity         *)
(* sessions are open at once, and a session is opened once and closed once.*)
(***************************************************************************)
EXTENDS Naturals, FiniteSets

CONSTANTS Issues, Sessions, Capacity

VARIABLES
  open,    \* the pairs <<session, issue>> being worked on
  closed   \* the sessions that are over

slotVars == <<open, closed>>

Opened == {p[1] : p \in open}
Taken  == {p[2] : p \in open}

Init == open = {} /\ closed = {}

Open(s, i) ==
  /\ s \notin Opened \cup closed
  /\ i \notin Taken
  /\ Cardinality(open) < Capacity
  /\ open' = open \cup {<<s, i>>}
  /\ UNCHANGED closed

Close(s, i) ==
  /\ <<s, i>> \in open
  /\ open' = open \ {<<s, i>>}
  /\ closed' = closed \cup {s}

Next == \E s \in Sessions, i \in Issues : Open(s, i) \/ Close(s, i)

Spec == Init /\ [][Next]_slotVars
=============================================================================
