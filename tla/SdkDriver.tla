----------------------------- MODULE SdkDriver -----------------------------
(***************************************************************************)
(* The agent process agent/sdk_worker.py: main and SdkDriver.run, the      *)
(* interrupt watchdog, the SIGUSR1 handler, and the hooks the SDK calls    *)
(* back on the same event loop.  A step runs from one await to the next.   *)
(*                                                                         *)
(* The SDK and the claude command behind it are external: the turn may say *)
(* something, ask for a tool, stop, fail or end whenever it likes.  The    *)
(* daemon's end of the stdout pipe stays open.                             *)
(***************************************************************************)
EXTENDS DenyList

CONSTANTS
  Commands,    \* the shell commands the agent may ask for
  MaxTexts,    \* bound on the assistant messages
  MaxTools,    \* bound on the tool calls that run
  MaxSignals   \* bound on the SIGUSR1 sent to the process

ASSUME SdkDriverAssumption ==
  /\ \A line \in Commands : line \in Seq(Tokens) /\ OneQuotedText(line)
  /\ MaxTexts \in Nat
  /\ MaxTools \in Nat
  /\ MaxSignals \in Nat

VARIABLES
  main,       \* the await at which main or run is suspended
  raising,    \* an exception is on its way out of run
  code,       \* how the process ended
  interrupt,  \* interrupt_requested: not asked, scheduled on the loop, set
  signals,    \* number of SIGUSR1 sent
  watchdog,   \* the task _interrupt_watchdog
  attempted,  \* client.interrupt() has returned, raised or timed out
  turn,       \* the agent's turn, seen from the SDK
  inbox,      \* messages the SDK has for receive_response
  said,       \* the messages of the turn so far
  tool,       \* the command of the tool that is running, if any
  iter,       \* DriverState.iter
  recent,     \* a STEP line was written within the last second
  lines       \* the lines written to stdout, by kind

sdk    == <<turn, inbox, said, tool>>
state  == <<iter, recent, lines>>
vars   == <<main, raising, code, interrupt, signals, watchdog, attempted,
            turn, inbox, said, tool, iter, recent, lines>>

Kinds  == {"tool", "STEP", "PR_URL", "agent.stop", "agent.interrupt",
           "natural", "operator_stop"}
NoTool == << >>
NoLine == [kind \in Kinds |-> 0]

Living    == main \notin {"booting", "ended"}        \* the event loop runs
Hooked    == main \in {"receiving", "draining", "cancelling", "closing"}

FinalEmitted == lines["natural"] + lines["operator_stop"] > 0

Emit(written, kind) == [written EXCEPT ![kind] = @ + 1]

\* Mutant of EmitFinalOnce: no guard against the other writer.
EmitFinalAlways(written, reason) == Emit(written, reason)

EmitFinalOnce(written, reason) ==
  IF FinalEmitted THEN written ELSE Emit(written, reason)

Init ==
  /\ main = "booting" /\ raising = FALSE /\ code = "none"
  /\ interrupt = "no" /\ signals = 0
  /\ watchdog = "none" /\ attempted = FALSE
  /\ turn = "idle" /\ inbox = << >> /\ said = << >> /\ tool = NoTool
  /\ iter = 0 /\ recent = FALSE /\ lines = NoLine

-----------------------------------------------------------------------------
(***************************************************************************)
(* main and SdkDriver.run.                                                 *)
(***************************************************************************)
Ends(how) == main' = "ended" /\ code' = how

\* The handler is installed, or the issue key is missing.
Starts ==
  /\ main = "booting"
  /\ \/ main' = "connecting" /\ UNCHANGED code
     \/ Ends("two")
  /\ UNCHANGED <<raising, interrupt, signals, watchdog, attempted, sdk, state>>

Connects ==
  /\ main = "connecting"
  /\ \/ main' = "querying" /\ UNCHANGED code
     \/ Ends("one")
  /\ UNCHANGED <<raising, interrupt, signals, watchdog, attempted, sdk, state>>

\* The query is outside the try: when it fails there is no watchdog yet.
Queried ==
  /\ main = "querying"
  /\ \/ main' = "receiving" /\ watchdog' = "waiting" /\ turn' = "running" /\ UNCHANGED raising
     \/ main' = "closing" /\ raising' = TRUE /\ UNCHANGED <<watchdog, turn>>
  /\ UNCHANGED <<code, interrupt, signals, attempted, inbox, said, tool, state>>

\* Mutant of Finally: the watchdog is cancelled whatever it is doing.
FinallyCancelling ==
  /\ main' = "cancelling"
  /\ watchdog' = IF watchdog = "done" THEN "done" ELSE "cancelled"

\* The finally clause up to its await.  The ten seconds it gives the watchdog
\* exceed the five after which the watchdog gives up the SDK.
Finally ==
  \/ /\ interrupt = "set"
     /\ main' = "draining"
     /\ UNCHANGED watchdog
  \/ /\ interrupt # "set"
     /\ main' = "cancelling"
     /\ watchdog' = "cancelled"

HandleMessage(msg) ==
  lines' = IF msg = "pr" /\ lines["PR_URL"] = 0 THEN Emit(lines, "PR_URL") ELSE lines

Receives ==
  /\ main = "receiving"
  /\ interrupt # "set"
  /\ inbox # << >>
  /\ HandleMessage(Head(inbox))
  /\ inbox' = Tail(inbox)
  /\ UNCHANGED <<main, raising, code, interrupt, signals, watchdog, attempted,
                 turn, said, tool, iter, recent>>

Breaks ==
  /\ main = "receiving"
  /\ interrupt = "set"
  /\ inbox # << >>
  /\ Finally
  /\ UNCHANGED <<raising, code, interrupt, signals, attempted, sdk, state>>

\* Mutant of ReceiveEnds: receive_messages, which waits for the next turn.
ReceiveEndsNever == FALSE /\ UNCHANGED vars

\* receive_response ends after the result of the turn.
ReceiveEnds ==
  /\ main = "receiving"
  /\ inbox = << >>
  /\ turn = "over"
  /\ Finally
  /\ UNCHANGED <<raising, code, interrupt, signals, attempted, sdk, state>>

ReceiveRaises ==
  /\ main = "receiving"
  /\ Finally
  /\ raising' = TRUE
  /\ turn' = "over"
  /\ tool' = NoTool
  /\ UNCHANGED <<code, interrupt, signals, attempted, inbox, said, state>>

\* The wait for the watchdog, or for its cancellation, is over.
WatchdogAwaited ==
  /\ \/ main = "draining" /\ watchdog = "done"
     \/ main = "cancelling" /\ watchdog \in {"cancelled", "done"}
  /\ main' = "closing"
  /\ UNCHANGED <<raising, code, interrupt, signals, watchdog, attempted, sdk, state>>

\* The exit of the client's context may raise as well.
Closes ==
  /\ main = "closing"
  /\ \/ ~raising /\ Ends("zero")
     \/ Ends("one")
  /\ UNCHANGED <<raising, interrupt, signals, watchdog, attempted, sdk, state>>

-----------------------------------------------------------------------------
(***************************************************************************)
(* SIGUSR1 and the interrupt watchdog.                                     *)
(***************************************************************************)
Usr1 ==
  /\ signals < MaxSignals
  /\ main # "ended"
  /\ signals' = signals + 1
  /\ \/ main = "booting" /\ Ends("usr1") /\ UNCHANGED interrupt
     \/ /\ main # "booting"
        /\ interrupt' = IF interrupt = "no" THEN "scheduled" ELSE interrupt
        /\ UNCHANGED <<main, code>>
  /\ UNCHANGED <<raising, watchdog, attempted, sdk, state>>

\* The callback of call_soon_threadsafe.
SetInterrupt ==
  /\ Living
  /\ interrupt = "scheduled"
  /\ interrupt' = "set"
  /\ UNCHANGED <<main, raising, code, signals, watchdog, attempted, sdk, state>>

WatchdogWakes ==
  /\ watchdog = "waiting" /\ interrupt = "set"
  /\ watchdog' = "interrupting"
  /\ UNCHANGED <<main, raising, code, interrupt, signals, attempted, sdk, state>>

\* client.interrupt() returns, raises, or is given up after five seconds;
\* the rest of the watchdog has no await.
WatchdogEmits ==
  /\ watchdog = "interrupting"
  /\ watchdog' = "done"
  /\ attempted' = TRUE
  /\ lines' = EmitFinalOnce(Emit(lines, "agent.interrupt"), "operator_stop")
  /\ UNCHANGED <<main, raising, code, interrupt, signals, sdk, iter, recent>>

-----------------------------------------------------------------------------
(***************************************************************************)
(* The SDK and the hooks it calls.                                         *)
(***************************************************************************)
Says(msg) ==
  /\ main \in {"receiving", "draining"} /\ turn = "running"
  /\ Len(said) < MaxTexts
  /\ said' = Append(said, msg)
  /\ inbox' = Append(inbox, msg)
  /\ UNCHANGED <<main, raising, code, interrupt, signals, watchdog, attempted,
                 turn, tool, state>>

\* PreToolUse: a denied command never runs.
AsksTool(command) ==
  /\ Hooked /\ turn = "running" /\ tool = NoTool
  /\ iter < MaxTools
  /\ ~Denied(command)
  /\ tool' = <<command>>
  /\ UNCHANGED <<main, raising, code, interrupt, signals, watchdog, attempted,
                 turn, inbox, said, state>>

\* Mutant of PostToolUse: the throttle taken for the audit event too.
PostToolUseThrottled ==
  /\ iter' = iter + 1
  /\ recent' = TRUE
  /\ lines' = IF recent THEN lines ELSE Emit(Emit(lines, "tool"), "STEP")

\* The audit event always, the STEP line once a second.
PostToolUse ==
  /\ iter' = iter + 1
  /\ recent' = TRUE
  /\ lines' = IF recent THEN Emit(lines, "tool") ELSE Emit(Emit(lines, "tool"), "STEP")

ToolEnds ==
  /\ Hooked /\ tool # NoTool
  /\ tool' = NoTool
  /\ PostToolUse
  /\ UNCHANGED <<main, raising, code, interrupt, signals, watchdog, attempted,
                 turn, inbox, said>>

SecondPasses ==
  /\ recent
  /\ recent' = FALSE
  /\ UNCHANGED <<main, raising, code, interrupt, signals, watchdog, attempted,
                 sdk, iter, lines>>

\* Mutant of OnStop: a natural end although the operator asked for a stop.
OnStopAlways ==
  lines' = EmitFinalOnce(Emit(lines, "agent.stop"), "natural")

\* The Stop hook leaves the last word to the watchdog of an interrupt.
OnStop ==
  lines' = IF interrupt = "set" THEN lines
           ELSE EmitFinalOnce(Emit(lines, "agent.stop"), "natural")

Stops ==
  /\ Hooked /\ turn = "running" /\ tool = NoTool
  /\ turn' = "stopped"
  /\ OnStop
  /\ UNCHANGED <<main, raising, code, interrupt, signals, watchdog, attempted,
                 inbox, said, tool, iter, recent>>

\* With or without a Stop hook before: a turn that is interrupted, or that
\* runs into a limit, just ends.
TurnEnds ==
  /\ Hooked /\ turn \in {"running", "stopped"}
  /\ turn' = "over"
  /\ tool' = NoTool
  /\ UNCHANGED <<main, raising, code, interrupt, signals, watchdog, attempted,
                 inbox, said, state>>

-----------------------------------------------------------------------------
Run  == Starts \/ Connects \/ Queried \/ Receives \/ Breaks \/ ReceiveEnds
          \/ ReceiveRaises \/ WatchdogAwaited \/ Closes
Stop == Usr1 \/ SetInterrupt \/ WatchdogWakes \/ WatchdogEmits
Turn == \/ \E msg \in {"text", "pr"} : Says(msg)
        \/ \E command \in Commands : AsksTool(command)
        \/ ToolEnds \/ SecondPasses \/ Stops \/ TurnEnds

Next == Run \/ Stop \/ Turn

Spec == Init /\ [][Next]_vars

(***************************************************************************)
(* The event loop runs what is ready, the five seconds of the watchdog     *)
(* pass, and the client's disconnect returns; nothing is assumed of the    *)
(* agent's turn.                                                           *)
(***************************************************************************)
Fairness ==
  /\ WF_vars(SetInterrupt)
  /\ WF_vars(WatchdogWakes)
  /\ WF_vars(WatchdogEmits)
  /\ WF_vars(Receives \/ Breaks \/ ReceiveEnds)
  /\ WF_vars(WatchdogAwaited)
  /\ WF_vars(Closes)

FairSpec == Spec /\ Fairness

-----------------------------------------------------------------------------
TypeOK ==
  /\ main \in {"booting", "connecting", "querying", "receiving", "draining",
               "cancelling", "closing", "ended"}
  /\ raising \in BOOLEAN
  /\ code \in {"none", "zero", "one", "two", "usr1"}
  /\ interrupt \in {"no", "scheduled", "set"}
  /\ signals \in 0 .. MaxSignals
  /\ watchdog \in {"none", "waiting", "interrupting", "done", "cancelled"}
  /\ attempted \in BOOLEAN
  /\ turn \in {"idle", "running", "stopped", "over"}
  /\ inbox \in Seq({"text", "pr"})
  /\ said \in Seq({"text", "pr"})
  /\ tool \in {NoTool} \cup {<<command>> : command \in Commands}
  /\ iter \in 0 .. MaxTools
  /\ recent \in BOOLEAN
  /\ lines \in [Kinds -> Nat]

\* The watchdog exists from the query on, and run never leaves its client with
\* the task alive.
WatchdogLife ==
  /\ main \in {"booting", "connecting", "querying"} => watchdog = "none"
  /\ main = "receiving" => watchdog \in {"waiting", "interrupting", "done"}
  /\ main \in {"closing", "ended"} => watchdog \in {"none", "cancelled", "done"}
  /\ watchdog \in {"interrupting", "done"} => interrupt = "set"

\* The throttle of the STEP lines never swallows an audit event: one line per
\* tool that has run, in step with the counter of FINAL.
EveryToolAudited ==
  /\ tool # NoTool => iter < MaxTools
  /\ lines["tool"] = iter /\ lines["STEP"] <= iter

\* Types, the life of the watchdog task, and the audit of the tools.
DriverInv == TypeOK /\ WatchdogLife /\ EveryToolAudited

\* The Stop hook and the SIGUSR1 watchdog race during teardown
\* (_emit_final_once): at most one FINAL line is ever written, operator_stop
\* only with the audit event of an attempt that is over; and at most one
\* PR_URL line, there when an undisturbed process ends with 0.
OneLastWord ==
  /\ lines["natural"] + lines["operator_stop"] <= 1
  /\ lines["agent.interrupt"] > 0 => attempted
  /\ lines["operator_stop"] > 0 => lines["agent.interrupt"] = 1
  /\ lines["PR_URL"] <= 1
  /\ code = "zero" /\ interrupt # "set" /\ (\E i \in DOMAIN said : said[i] = "pr")
       => lines["PR_URL"] = 1

\* A command that stands where a shell begins one, at the start of the line or
\* behind a separator out of quotes, and that the list bans, does not run
\* (deny_reason_for, sdk_worker.py:98-109): cutting in quotes as well and
\* leaving a loop over the flags at the first hit hide nothing from the hook.
NothingBannedRuns == tool # NoTool => ~Banned(tool[1])

\* The driver is a worker as WorkerStop takes it.
Protocol == INSTANCE AgentProtocol WITH
  proc <- CASE main = "booting" -> "booting"
            [] main = "ended"   -> "zombie"
            [] OTHER            -> "working",
  rc <- CASE code \in {"one", "two"} -> "error" [] OTHER -> code,
  asked <- CASE interrupt = "no"        -> "no"
             [] interrupt = "scheduled" -> "pending"
             [] interrupt = "set"       -> "observed",
  written <- [pr    |-> lines["PR_URL"] > 0,
              final |-> CASE lines["natural"] > 0       -> "natural"
                          [] lines["operator_stop"] > 0 -> "operator_stop"
                          [] OTHER                      -> "none"]

\* What the daemon relies on: a natural end is not announced once an interrupt
\* is observed, an operator stop only then, no PR_URL after it, exit 0 only
\* from a worker that had started.
ImplementsProtocol == Protocol!Spec

\* An interrupt that finds the watchdog waiting is recorded within its five
\* seconds, even if the SDK hangs and the turn never ends.
StopIsRecorded == (interrupt = "set" /\ watchdog = "waiting") ~> FinalEmitted

\* receive_response, not receive_messages: when the turn is over the process
\* ends and does not leak.
TurnOverEnds == (turn = "over") ~> (main = "ended")

\* An interrupt that finds the watchdog alive is not given up: the watchdog is
\* not cancelled and the process does not end before there is a FINAL line.
StopNotGivenUp ==
  [][interrupt = "set" /\ watchdog \in {"waiting", "interrupting"} =>
       /\ main' # "ended"
       /\ watchdog' \in {"waiting", "interrupting"} \/ FinalEmitted']_vars

\* What the process has before it when the turn is over: its own awaits, the
\* messages it has not read, the interrupt and the watchdog.
MainLeft == CASE main = "booting"                    -> 6
              [] main = "connecting"                 -> 5
              [] main = "querying"                   -> 4
              [] main = "receiving"                  -> 3
              [] main \in {"draining", "cancelling"} -> 2
              [] main = "closing"                    -> 1
              [] main = "ended"                      -> 0
InterruptLeft == CASE interrupt = "no"        -> 2
                   [] interrupt = "scheduled" -> 1
                   [] interrupt = "set"       -> 0
WatchdogLeft == CASE watchdog = "waiting"      -> 2
                  [] watchdog = "interrupting" -> 1
                  [] OTHER                     -> 0
DriverLeft == MainLeft + InterruptLeft + WatchdogLeft + Len(inbox)

\* After the turn every step of the process itself brings it nearer to its end,
\* and no signal, tool or timer takes it back.
TurnOverRunsDown ==
  [][turn = "over" =>
       /\ turn' = "over"
       /\ DriverLeft' <= DriverLeft
       /\ Run \/ SetInterrupt \/ WatchdogWakes \/ WatchdogEmits
            => DriverLeft' < DriverLeft]_vars

\* And it is never without such a step: nothing it waits for is left to the SDK.
TurnOverMoves ==
  turn = "over" =>
    \/ main \in {"receiving", "closing", "ended"}
    \/ main = "draining" /\ interrupt = "set"
         /\ watchdog \in {"waiting", "interrupting", "done"}
    \/ main = "cancelling" /\ watchdog \in {"cancelled", "done"}
=============================================================================
