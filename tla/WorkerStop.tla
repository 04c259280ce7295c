----------------------------- MODULE WorkerStop -----------------------------
(***************************************************************************)
(* One worker from its spawn to the terminal status of its session: the    *)
(* worker process (agent/sdk_worker.py, agent/demo_worker.py), its stdout  *)
(* pipe and the reader that harvests the marker lines, the wait with the   *)
(* session timeout, the /cancel branch of the dispatcher with its grace    *)
(* watchdog, and the classification of the exit (daemon/worker.py).        *)
(*                                                                         *)
(* Timers fire at any moment after they are armed.  The daemon stays up:   *)
(* what a restart does to a session is in SessionCore.                     *)
(***************************************************************************)
EXTENDS Naturals, Sequences

CONSTANTS
  MaxProgress,  \* bound on the PROGRESS / STEP lines the worker writes
  MaxCancels    \* bound on the /cancel commands, each of which may be signalled

ASSUME WorkerStopAssumption ==
  /\ MaxProgress \in Nat
  /\ MaxCancels \in Nat

VARIABLES
  proc,      \* the worker process
  rc,        \* how it ended: exit code zero or not, or the signal
  asked,     \* SIGUSR1 as the worker sees it: pending, then observed
  written,   \* the marker lines it has written: PR_URL and FINAL reason
  progress,  \* number of progress lines written
  pipe,      \* lines written and not read
  reader,    \* the coroutine _stream_subprocess_output
  result,    \* its StreamResult: PR_URL and FINAL reason
  run,       \* the await run_worker is suspended at
  timedOut,  \* the local timed_out of run_worker
  inFlight,  \* the session is in _operator_stop_in_flight
  usr1,      \* number of SIGUSR1 sent to the worker
  cancels,   \* number of /cancel commands dispatched
  watchdog,  \* the coroutine _operator_stop_grace_watchdog
  row        \* the session's status and error_message

worker == <<proc, rc, asked, written, progress>>
stream == <<pipe, reader, result>>
stop   == <<inFlight, usr1, cancels, watchdog>>
vars   == <<proc, rc, asked, written, progress, pipe, reader, result, run,
            timedOut, inFlight, usr1, cancels, watchdog, row>>

Agent     == INSTANCE AgentProtocol
Reasons   == Agent!Reasons
NoMarkers == Agent!NoMarkers
Running   == [status |-> "running", message |-> "none"]

Alive  == Agent!Alive
Exists == proc # "reaped"       \* os.kill(pid, 0) succeeds, on a zombie too

Init ==
  /\ Agent!Init
  /\ progress = 0
  /\ pipe = << >>
  /\ reader = "none"
  /\ result = NoMarkers
  /\ run = "spawning"
  /\ timedOut = FALSE
  /\ inFlight = FALSE
  /\ usr1 = 0
  /\ cancels = 0
  /\ watchdog = "none"
  /\ row = Running

-----------------------------------------------------------------------------
(***************************************************************************)
(* The worker process: AgentProtocol, with its lines in the pipe.          *)
(***************************************************************************)
Silent == UNCHANGED <<progress, stream, run, timedOut, stop, row>>

Boots == Agent!Boots /\ Silent

WritesProgress ==
  /\ proc = "working"
  /\ progress < MaxProgress
  /\ progress' = progress + 1
  /\ pipe' = Append(pipe, "progress")
  /\ UNCHANGED <<proc, rc, asked, written, reader, result, run, timedOut, stop, row>>

Line(kind) ==
  /\ pipe' = Append(pipe, kind)
  /\ UNCHANGED <<progress, reader, result, run, timedOut, stop, row>>

WritesPr == Agent!WritesPr /\ Line("pr")

StopHook == Agent!WritesNatural /\ Line("natural")

ObservesUsr1 == Agent!ObservesUsr1 /\ Silent

\* Mutant of InterruptWatchdog: it does not wait for the interrupt.
InterruptWatchdogUnasked ==
  /\ proc = "working"
  /\ Agent!EmitFinalOnce("operator_stop")
  /\ Line("operator_stop")

InterruptWatchdog == Agent!WritesOperatorStop /\ Line("operator_stop")

Exits == Agent!Exits /\ Silent

Dies(how) == Agent!Dies(how)

\* SIGTERM: neither worker installs a handler, but WorkerSpec.argv may name a
\* command that does.  SIGKILL cannot be ignored.
Term == \/ Alive /\ Dies("term")
        \/ UNCHANGED <<proc, rc>>
Kill == \/ Alive /\ Dies("kill")
        \/ ~Alive /\ UNCHANGED <<proc, rc>>

\* The child watcher of asyncio collects the exit status.
Reap ==
  /\ proc = "zombie"
  /\ proc' = "reaped"
  /\ UNCHANGED <<rc, asked, written, progress, stream, run, timedOut, stop, row>>

-----------------------------------------------------------------------------
(***************************************************************************)
(* _stream_subprocess_output.                                              *)
(***************************************************************************)
Harvested(line) ==
  CASE line = "pr"     -> [result EXCEPT !.pr = TRUE]
    [] line \in Reasons -> [result EXCEPT !.final = line]
    [] OTHER           -> result

\* PROGRESS, STEP and FINAL lines are posted to the topic before the next
\* readline; a PR_URL line is not.
ReadLine ==
  /\ reader = "reading"
  /\ pipe # << >>
  /\ pipe' = Tail(pipe)
  /\ result' = Harvested(Head(pipe))
  /\ reader' = IF Head(pipe) = "pr" THEN "reading" ELSE "posting"
  /\ UNCHANGED <<worker, run, timedOut, stop, row>>

Posted ==
  /\ reader = "posting"
  /\ reader' = "reading"
  /\ UNCHANGED <<worker, pipe, result, run, timedOut, stop, row>>

EndOfStream ==
  /\ reader = "reading"
  /\ pipe = << >>
  /\ ~Alive
  /\ reader' = "eof"
  /\ UNCHANGED <<worker, pipe, result, run, timedOut, stop, row>>

\* readline raises on a line longer than the limit of the StreamReader; the
\* gather fails and what was harvested is lost with it.
StreamBreaks ==
  /\ reader \in {"reading", "posting"}
  /\ reader' = "failed"
  /\ UNCHANGED <<worker, pipe, result, run, timedOut, stop, row>>

-----------------------------------------------------------------------------
(***************************************************************************)
(* run_worker, from the return of create_subprocess_exec on.               *)
(***************************************************************************)
SpawnReturns ==
  /\ run = "spawning"
  /\ run' = "waiting"
  /\ reader' = "reading"
  /\ UNCHANGED <<worker, pipe, result, timedOut, stop, row>>

\* Mutant of WaitReturns: the wait over with the signal, not with the exit.
WaitReturnsSignalled ==
  /\ run \in {"waiting", "term", "kill"}
  /\ run = "waiting" => proc = "reaped"
  /\ run' = "draining"
  /\ UNCHANGED <<worker, stream, timedOut, stop, row>>

WaitReturns ==
  /\ run \in {"waiting", "term", "kill"}
  /\ proc = "reaped"
  /\ run' = "draining"
  /\ UNCHANGED <<worker, stream, timedOut, stop, row>>

\* The session timeout: _kill_worker_group up to its own wait.
TimesOut ==
  /\ run = "waiting"
  /\ Exists
  /\ timedOut' = TRUE
  /\ Term
  /\ run' = "term"
  /\ UNCHANGED <<asked, written, progress, stream, stop, row>>

\* Mutant of TermGraceExpires: back to the wait without the SIGKILL.
TermGraceExpiresGivingUp ==
  /\ run = "term"
  /\ Exists
  /\ run' = "kill"
  /\ UNCHANGED <<worker, stream, timedOut, stop, row>>

TermGraceExpires ==
  /\ run = "term"
  /\ Exists
  /\ Kill
  /\ run' = "kill"
  /\ UNCHANGED <<asked, written, progress, stream, timedOut, stop, row>>

Row(status, message) == [status |-> status, message |-> message]

\* Mutant of Outcome: the in-flight flag asked before the FINAL line.
OutcomeFlagFirst(got) ==
  LET stopped == inFlight \/ got.final = "operator_stop"
  IN  CASE stopped /\ rc # "zero" -> Row("canceled", "operator_stop_forced")
        [] stopped /\ rc = "zero" -> Row("canceled", "operator_stop")
        [] ~stopped /\ timedOut   -> Row("failed", "timeout")
        [] ~stopped /\ ~timedOut /\ rc # "zero" -> Row("failed", "error")
        [] OTHER -> Row(IF got.pr THEN "pr_created" ELSE "completed", "none")

\* The classification table: a FINAL line first, then the in-flight flag, then
\* the timeout, then the exit code.
Outcome(got) ==
  LET forced  == got.final = "none" /\ inFlight /\ rc # "zero"
      stopped == got.final = "operator_stop" \/ (got.final = "none" /\ inFlight)
  IN  CASE forced                -> Row("canceled", "operator_stop_forced")
        [] stopped /\ ~forced    -> Row("canceled", "operator_stop")
        [] ~stopped /\ timedOut  -> Row("failed", "timeout")
        [] ~stopped /\ ~timedOut /\ rc # "zero" -> Row("failed", "error")
        [] OTHER -> Row(IF got.pr THEN "pr_created" ELSE "completed", "none")

\* The drain returns, or its exception leaves an empty StreamResult; no await
\* separates it from the terminal transition.
Classify ==
  /\ run = "draining"
  /\ \/ reader = "eof" /\ row' = Outcome(result)
     \/ reader = "failed" /\ row' = Outcome(NoMarkers)
  /\ run' = "ended"
  /\ UNCHANGED <<worker, stream, timedOut, stop>>

\* Five seconds pass before the end of the stream: the stream task is cancelled
\* and awaited, and its CancelledError is not an Exception, so run_worker dies.
DrainOverruns ==
  /\ run = "draining"
  /\ reader \in {"reading", "posting"}
  /\ reader' = "failed"
  /\ run' = "died"
  /\ UNCHANGED <<worker, pipe, result, timedOut, stop, row>>

-----------------------------------------------------------------------------
(***************************************************************************)
(* The dispatcher's termination branch and its watchdog.                   *)
(***************************************************************************)
ActiveRow == row.status = "running"
PidKnown  == run # "spawning"     \* register_worker_pid has been called

\* Mutant of Cancel: the duplicate check left out.
CancelRepeated ==
  /\ cancels < MaxCancels
  /\ cancels' = cancels + 1
  /\ ActiveRow /\ PidKnown
  /\ inFlight' = TRUE
  /\ usr1' = IF Exists THEN usr1 + 1 ELSE usr1
  /\ watchdog' = IF Exists THEN "grace" ELSE watchdog
  /\ CASE proc = "booting" -> Dies("usr1") /\ UNCHANGED asked
       [] proc = "working" /\ asked = "no" -> asked' = "pending" /\ UNCHANGED <<proc, rc>>
       [] OTHER -> UNCHANGED <<proc, rc, asked>>
  /\ UNCHANGED <<written, progress, stream, run, timedOut, row>>

\* A session without an active row, with a stop in flight, or without a pid yet
\* is left alone.
CancelIgnored ==
  /\ cancels < MaxCancels
  /\ cancels' = cancels + 1
  /\ ~ActiveRow \/ inFlight \/ ~PidKnown
  /\ UNCHANGED <<worker, stream, run, timedOut, inFlight, usr1, watchdog, row>>

\* SIGUSR1 kills a worker that has not installed its handler.
Cancel ==
  /\ cancels < MaxCancels
  /\ cancels' = cancels + 1
  /\ ActiveRow /\ ~inFlight /\ PidKnown
  /\ inFlight' = TRUE
  /\ usr1' = IF Exists THEN usr1 + 1 ELSE usr1
  /\ watchdog' = IF Exists THEN "grace" ELSE watchdog
  /\ Agent!ReceivesUsr1
  /\ UNCHANGED <<progress, stream, run, timedOut, row>>

\* The poll, or the signal itself, finds the process gone.
WatchdogFindsNoWorker ==
  /\ watchdog \in {"grace", "term"}
  /\ ~Exists
  /\ watchdog' = "gone"
  /\ UNCHANGED <<worker, stream, run, timedOut, inFlight, usr1, cancels, row>>

GraceExpires ==
  /\ watchdog = "grace"
  /\ Exists
  /\ Term
  /\ watchdog' = "term"
  /\ UNCHANGED <<asked, written, progress, stream, run, timedOut, inFlight, usr1, cancels, row>>

\* Mutant of WatchdogKills: the escalation ends with the SIGTERM.
WatchdogKillsNot ==
  /\ watchdog = "term"
  /\ Exists
  /\ watchdog' = "kill"
  /\ UNCHANGED <<worker, stream, run, timedOut, inFlight, usr1, cancels, row>>

WatchdogKills ==
  /\ watchdog = "term"
  /\ Exists
  /\ Kill
  /\ watchdog' = "kill"
  /\ UNCHANGED <<asked, written, progress, stream, run, timedOut, inFlight, usr1, cancels, row>>

-----------------------------------------------------------------------------
WorkerProcess == Boots \/ WritesProgress \/ WritesPr \/ StopHook
                   \/ ObservesUsr1 \/ InterruptWatchdog \/ Exits

Reader   == ReadLine \/ Posted \/ EndOfStream \/ StreamBreaks
RunWorker == SpawnReturns \/ WaitReturns \/ TimesOut \/ TermGraceExpires
               \/ Classify \/ DrainOverruns
Watchdog == WatchdogFindsNoWorker \/ GraceExpires \/ WatchdogKills

Next == WorkerProcess \/ Reap \/ Reader \/ RunWorker
          \/ Cancel \/ CancelIgnored \/ Watchdog

Spec == Init /\ [][Next]_vars

(***************************************************************************)
(* The daemon's coroutines and timers run; the worker may hang for ever,   *)
(* and nothing obliges the session timeout to fire in this specification.  *)
(***************************************************************************)
Fairness ==
  /\ WF_vars(Reap)
  /\ WF_vars(ReadLine \/ Posted \/ EndOfStream)
  /\ WF_vars(SpawnReturns)
  /\ WF_vars(WaitReturns)
  /\ WF_vars(TermGraceExpires)
  /\ WF_vars(Classify \/ DrainOverruns)
  /\ WF_vars(Watchdog)

FairSpec == Spec /\ Fairness

-----------------------------------------------------------------------------
TypeOK ==
  /\ proc \in {"booting", "working", "zombie", "reaped"}
  /\ rc \in {"none", "zero", "error", "usr1", "term", "kill"}
  /\ asked \in {"no", "pending", "observed"}
  /\ written \in [pr : BOOLEAN, final : Reasons \cup {"none"}]
  /\ progress \in 0 .. MaxProgress
  /\ pipe \in Seq({"progress", "pr"} \cup Reasons)
  /\ reader \in {"none", "reading", "posting", "eof", "failed"}
  /\ result \in [pr : BOOLEAN, final : Reasons \cup {"none"}]
  /\ run \in {"spawning", "waiting", "term", "kill", "draining", "ended", "died"}
  /\ timedOut \in BOOLEAN
  /\ inFlight \in BOOLEAN
  /\ usr1 \in 0 .. MaxCancels
  /\ cancels \in 0 .. MaxCancels
  /\ watchdog \in {"none", "grace", "term", "kill", "gone"}
  /\ row \in [status : {"running", "canceled", "failed", "pr_created", "completed"},
              message : {"none", "operator_stop", "operator_stop_forced",
                         "timeout", "error"}]

\* A live process has no exit status, and a terminal row belongs to a reaped
\* process and a coroutine that is through.
EndsAgree ==
  /\ (rc = "none") <=> Alive
  /\ run \in {"draining", "ended", "died"} => proc = "reaped"
  /\ ActiveRow <=> run # "ended"
  /\ run \in {"term", "kill"} => timedOut
  /\ reader = "eof" => pipe = << >> /\ ~Alive

\* One SIGUSR1, of a stop in flight, however often the operator repeats /cancel
\* (docs/ARCHITECTURE.md, Concurrency guards); the worker saw no other.
OneSignal ==
  /\ asked # "no" => usr1 > 0
  /\ watchdog # "none" => usr1 > 0
  /\ usr1 > 0 => inFlight
  /\ usr1 <= 1

\* A marker the reader holds was written by the worker.
HarvestedIsWritten ==
  /\ result.pr => written.pr
  /\ result.final # "none" => result.final = written.final

\* A worker that was signalled is dying or has a watchdog after it, and somebody
\* is always left to take the next step towards the end of run_worker.
Pursued ==
  /\ usr1 > 0 => ~Alive \/ watchdog \in {"grace", "term"}
  /\ run = "kill" => ~Alive
  /\ run = "spawning" <=> reader = "none"

\* What the coroutines, the pipe, the process and the row know of each other.
StopInv == TypeOK /\ EndsAgree /\ OneSignal /\ HarvestedIsWritten /\ Pursued

\* A session is only ever recorded as canceled when the operator's /cancel was
\* accepted for it, whatever the worker printed and however it died.
CanceledOnRequest == row.status = "canceled" => inFlight

\* The worker's own lines decide when the stream was read to its end: a worker
\* that announced operator_stop is canceled, one that announced a natural end
\* is not, even if a stop signal and the timeout raced it; and a pull request
\* announced by a worker that exits with 0, untouched, reaches the row.
MarkersDecide ==
  run = "ended" /\ reader = "eof" =>
    /\ written.final = "operator_stop" => row.message = "operator_stop"
    /\ written.final = "natural" => row.status # "canceled"
    /\ written.pr /\ rc = "zero" /\ ~inFlight /\ ~timedOut
         => row.status = "pr_created"

\* How many steps are left, of everybody together, at most: what the process,
\* the coroutine, its reader and the watchdog have before them, the lines that
\* are not written, which take three steps, or not posted, which take two, and
\* the commands of the operator.
ProcLeft == CASE proc = "booting" -> 3
              [] proc = "working" -> 2
              [] proc = "zombie"  -> 1
              [] OTHER            -> 0
AskedLeft == CASE asked = "no"      -> 2
               [] asked = "pending" -> 1
               [] OTHER             -> 0
ReaderLeft == CASE reader = "posting"             -> 2
                [] reader \in {"none", "reading"} -> 1
                [] OTHER                          -> 0
RunLeft == CASE run = "spawning" -> 5
             [] run = "waiting"  -> 4
             [] run = "term"     -> 3
             [] run = "kill"     -> 2
             [] run = "draining" -> 1
             [] OTHER            -> 0
WatchdogLeft == CASE watchdog = "none"  -> 3
                  [] watchdog = "grace" -> 2
                  [] watchdog = "term"  -> 1
                  [] OTHER              -> 0
LinesLeft == 3 * (MaxProgress - progress) + 2 * Len(pipe)
               + (IF written.pr THEN 0 ELSE 3)
               + (IF written.final = "none" THEN 3 ELSE 0)

StepsLeft == ProcLeft + AskedLeft + ReaderLeft + RunLeft + WatchdogLeft + LinesLeft
               + (MaxCancels - cancels)

\* Nobody ever undoes what somebody else did: every step, of the worker, of a
\* coroutine, of a timer or of the operator, is one of those.
StepsRunOut == [][StepsLeft' < StepsLeft]_vars

\* Where run_worker has not ended there is a step that takes it further, of
\* the coroutine itself, of the child watcher or of the session timeout; and
\* where a worker lives on after SIGUSR1, one of the watchdog.
SomebodyMoves ==
  /\ \/ run \in {"ended", "died"}
     \/ run = "spawning"
     \/ proc = "zombie"
     \/ run \in {"waiting", "term"} /\ Exists
     \/ run \in {"waiting", "term", "kill"} /\ proc = "reaped"
     \/ run = "draining" /\ reader \in {"eof", "failed", "reading", "posting"}
  /\ usr1 > 0 =>
       proc \in {"zombie", "reaped"} \/ (watchdog \in {"grace", "term"} /\ Exists)

\* The session as SessionCore has it: one session of one issue in a daemon that
\* is up, from the spawn of its worker on.
One(x) == [s \in {"session"} |-> x]

Core == INSTANCE SessionCore WITH
  Issues        <- {"issue"},
  Sessions      <- {"session"},
  MaxConcurrent <- 1,
  MaxOutages    <- 0,
  NoIssue       <- "none",
  NoSession     <- "none",
  status   <- One(row.status),
  issueOf  <- One("issue"),
  lock     <- [i \in {"issue"} |-> "session"],
  worktree <- {"issue"},
  branch   <- {"issue"},
  proc     <- One(IF Alive THEN "alive" ELSE "dead"),
  daemon   <- "up",
  disp     <- [at |-> "idle", session |-> "none"],
  task     <- One(CASE run = "draining" -> "draining"
                    [] run = "ended"    -> "posting"
                    [] run = "died"     -> "died"
                    [] OTHER            -> "waiting"),
  half     <- "none",
  answer   <- "accepted",
  outages  <- 0

\* SessionCore takes a worker for a process that ends once and a coroutine that
\* is through, or dead, after it.  That is what signals, timers, pipe, reader and
\* classification come to: they start in a state that SessionCore allows, and each
\* of their steps is one that SessionCore gives the session, or shows nothing.
ImplementsSession ==
  /\ Core!LockInv /\ Core!WorktreeInv
  /\ [][Core!WorkerStep("session") \/ Core!ProcessExits("session")]_(Core!vars)

\* Once SIGUSR1 is sent the process is gone in the end, even if it hangs,
\* ignores SIGTERM, and the session timeout never fires.
CancelStopsWorker == (usr1 > 0) ~> (proc = "reaped")

\* With the session timeout, every session's coroutine comes to an end and
\* leaves no process behind, whatever the worker does.
TimeoutEndsRun ==
  WF_vars(TimesOut) => <>(run \in {"ended", "died"} /\ proc = "reaped")

=============================================================================
