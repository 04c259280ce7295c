--------------------------- MODULE AgentProtocol ---------------------------
(***************************************************************************)
(* What the daemon may rely on when it runs a worker process, whichever    *)
(* program WorkerSpec.argv names: the marker lines it may write, in which  *)
(* order with SIGUSR1, and how it ends.  WorkerStop builds its process     *)
(* from these actions; SdkDriver implements them.                          *)
(***************************************************************************)

VARIABLES
  proc,      \* the worker process
  rc,        \* how it ended: exit code zero or not, or the signal
  asked,     \* SIGUSR1 as the worker sees it: pending, then observed
  written    \* the marker lines it has written: PR_URL and FINAL reason

agent == <<proc, rc, asked, written>>

Reasons   == {"natural", "operator_stop"}
NoMarkers == [pr |-> FALSE, final |-> "none"]

Alive == proc \in {"booting", "working"}

Init ==
  /\ proc = "booting"
  /\ rc = "none"
  /\ asked = "no"
  /\ written = NoMarkers

Boots ==
  /\ proc = "booting"
  /\ proc' = "working"
  /\ UNCHANGED <<rc, asked, written>>

\* The first pull request of an assistant text, while no interrupt has been
\* observed.
WritesPr ==
  /\ proc = "working"
  /\ asked # "observed"
  /\ ~written.pr
  /\ written' = [written EXCEPT !.pr = TRUE]
  /\ UNCHANGED <<proc, rc, asked>>

EmitFinalOnce(reason) ==
  /\ written.final = "none"
  /\ written' = [written EXCEPT !.final = reason]
  /\ UNCHANGED <<proc, rc, asked>>

\* A natural end is not announced once an interrupt is in flight.
WritesNatural ==
  /\ proc = "working"
  /\ asked # "observed"
  /\ EmitFinalOnce("natural")

\* The handler only takes note of the signal: the worker goes on until it
\* looks.
ObservesUsr1 ==
  /\ proc = "working"
  /\ asked = "pending"
  /\ asked' = "observed"
  /\ UNCHANGED <<proc, rc, written>>

WritesOperatorStop ==
  /\ proc = "working"
  /\ asked = "observed"
  /\ EmitFinalOnce("operator_stop")

Dies(how) ==
  /\ proc' = "zombie"
  /\ rc' = how

\* The process ends by itself, with or without having written a FINAL line.
Exits ==
  /\ \/ Alive /\ Dies("error")
     \/ proc = "working" /\ Dies("zero")
  /\ UNCHANGED <<asked, written>>

\* SIGUSR1 kills a worker that has not installed its handler.
ReceivesUsr1 ==
  /\ CASE proc = "booting" -> Dies("usr1") /\ UNCHANGED asked
       [] proc = "working" /\ asked = "no" -> asked' = "pending" /\ UNCHANGED <<proc, rc>>
       [] OTHER -> UNCHANGED <<proc, rc, asked>>
  /\ UNCHANGED written

Next == Boots \/ WritesPr \/ WritesNatural \/ ObservesUsr1
          \/ WritesOperatorStop \/ Exits \/ ReceivesUsr1

Spec == Init /\ [][Next]_agent
=============================================================================
