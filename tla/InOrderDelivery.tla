--------------------------- MODULE InOrderDelivery ---------------------------
(***************************************************************************)
(* What the listener promises of the messages of the group, whatever       *)
(* happens to its polls and to the daemon: a run takes the updates one by  *)
(* one in their order, none twice and none left out; what was forgotten    *)
(* had been taken before; and a new run begins where the memory begins.    *)
(***************************************************************************)
EXTENDS Naturals

CONSTANTS
  MaxUpdates,  \* bound on the updates
  Texts        \* the updates that have to be delivered; the others are skipped

VARIABLES
  posted,     \* the updates so far are 1 .. posted
  forgotten,  \* nobody can be given an update up to this one any more
  reached,    \* the run has taken the updates up to this one
  count,      \* how often each update was delivered
  runs        \* the runs that were lost so far

deliveryVars == <<posted, forgotten, reached, count, runs>>

Init ==
  /\ posted = 0 /\ forgotten = 0 /\ reached = 0
  /\ count = [u \in 1 .. MaxUpdates |-> 0]
  /\ runs = 0

Post ==
  /\ posted < MaxUpdates
  /\ posted' = posted + 1
  /\ UNCHANGED <<forgotten, reached, count, runs>>

\* The next update is delivered if it is a text, and passed over otherwise.
Deliver ==
  /\ reached < posted
  /\ reached + 1 \in Texts
  /\ reached' = reached + 1
  /\ count' = [count EXCEPT ![reached + 1] = @ + 1]
  /\ UNCHANGED <<posted, forgotten, runs>>

Pass ==
  /\ reached < posted
  /\ reached + 1 \notin Texts
  /\ reached' = reached + 1
  /\ UNCHANGED <<posted, forgotten, count, runs>>

Forget ==
  /\ forgotten' = reached
  /\ UNCHANGED <<posted, reached, count, runs>>

\* The run is lost and with it the memory of what it had taken.
NewRun ==
  /\ runs' = runs + 1
  /\ reached' = forgotten
  /\ UNCHANGED <<posted, forgotten, count>>

Next == Post \/ Deliver \/ Pass \/ Forget \/ NewRun

Spec == Init /\ [][Next]_deliveryVars
=============================================================================
