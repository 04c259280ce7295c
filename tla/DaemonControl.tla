---------------------------- MODULE DaemonControl -----------------------------
(***************************************************************************)
(* The two threads of a daemon process and the signals that reach it       *)
(* (daemon/runtime.py): the main thread holds the PID file and handles     *)
(* SIGTERM and SIGUSR1, the listener thread owns the event loop.  The      *)
(* commands "telegram start" and "telegram stop" (commands/telegram.py)    *)
(* write listener.cmd and signal the daemon.                               *)
(*                                                                         *)
(* The PID file is a lock here; its own races are module Lifecycle's.  The *)
(* poll loop is one state, "listening"; its steps are module Listener's.   *)
(* The 10 s of start and the 35 s of the join may pass at any moment.      *)
(***************************************************************************)
EXTENDS Naturals, Sequences, FiniteSets

CONSTANTS
  Daemons,      \* daemon processes, one life each
  Clis,         \* shells that run "telegram start" and "telegram stop"
  MaxCommands,  \* bound on the sequence numbers of their commands
  Nobody        \* no process

ASSUME DaemonControlAssumption ==
  Nobody \notin Daemons /\ Nobody \notin Clis /\ MaxCommands \in Nat

VARIABLES
  guard,     \* the daemon that holds the PID file
  main,      \* where the main thread of a daemon is in run
  term,      \* Lifecycle._stop_event is set
  usr1,      \* a SIGUSR1 is pending
  lastSeq,   \* _last_cmd_seq
  accepted,  \* the last command handed to the loop
  thread,    \* where the listener thread is in _thread_main
  calls,     \* callbacks of call_soon_threadsafe not yet run
  stopping,  \* Listener._stop_event is set
  running,   \* Listener.state.running: not paused
  cmd,       \* listener.cmd and who wrote it; number 0 while there is no file
  shown,     \* listener.state: state.running, and who wrote it
  cli        \* the commands

process  == <<guard, main, term, usr1>>
received == <<lastSeq, accepted>>
loop     == <<thread, calls, stopping, running, shown>>
operator == <<cmd, cli>>
vars     == <<guard, main, term, usr1, lastSeq, accepted, thread, calls,
              stopping, running, shown, cmd, cli>>

Commands  == {"start", "stop"}
Callbacks == {"resume", "pause", "shutdown"}
Alive     == {"recovering", "listening", "draining"}

\* The runtime works on the database and on Telegram.
Working(d) == thread[d] \in Alive
\* The listener exists: _listener is set and never reset.
Heard(d)   == thread[d] \in {"listening", "draining", "closed"}
\* The process has ended: its main thread and the listener thread, which is no
\* daemon thread, or both at once.
Gone(d)    == main[d] = "dead"
\* The SIGUSR1 handler is installed; before, the signal is lethal.
Armed(d)   == main[d] \in {"serving", "joining", "left"}

\* What a command makes of the loop.
Toggle(command) == IF command = "start" THEN "resume" ELSE "pause"

\* _flush_state
Flush(d, isRunning) == shown' = [by |-> d, running |-> isRunning]

Init ==
  /\ guard = Nobody
  /\ main = [d \in Daemons |-> "new"]
  /\ term = [d \in Daemons |-> FALSE] /\ usr1 = [d \in Daemons |-> FALSE]
  /\ lastSeq = [d \in Daemons |-> 0]
  /\ accepted = [d \in Daemons |-> "none"]
  /\ thread = [d \in Daemons |-> "none"]
  /\ calls = [d \in Daemons |-> << >>]
  /\ stopping = [d \in Daemons |-> FALSE]
  /\ running = [d \in Daemons |-> FALSE]
  /\ cmd = [seq |-> 0, command |-> "none", by |-> Nobody]
  /\ shown = [by |-> Nobody, running |-> FALSE]
  /\ cli = [c \in Clis |->
              [pc |-> "idle", seq |-> 0, command |-> "none", to |-> Nobody]]

\* The process is gone, its memory with it.
Dies(d) ==
  /\ main' = [main EXCEPT ![d] = "dead"]
  /\ guard' = IF guard = d THEN Nobody ELSE guard
  /\ thread' = [thread EXCEPT ![d] = "none"]
  /\ calls' = [calls EXCEPT ![d] = << >>]
  /\ term' = [term EXCEPT ![d] = FALSE] /\ usr1' = [usr1 EXCEPT ![d] = FALSE]
  /\ lastSeq' = [lastSeq EXCEPT ![d] = 0]
  /\ accepted' = [accepted EXCEPT ![d] = "none"]
  /\ stopping' = [stopping EXCEPT ![d] = FALSE]
  /\ running' = [running EXCEPT ![d] = FALSE]

-----------------------------------------------------------------------------
(***************************************************************************)
(* The main thread: run, Runtime.start and Runtime.stop.                   *)
(***************************************************************************)
\* Mutant of Enters: the lock is not asked for.
EntersUnguarded(d) ==
  /\ main[d] = "new"
  /\ guard' = d
  /\ main' = [main EXCEPT ![d] = "starting"]
  /\ thread' = [thread EXCEPT ![d] = "recovering"]
  /\ UNCHANGED <<term, usr1, received, calls, stopping, running, shown, operator>>

\* A daemon without a usable Telegram section only holds the PID file.
Enters(d) ==
  /\ main[d] = "new" /\ guard = Nobody
  /\ guard' = d
  /\ \/ /\ main' = [main EXCEPT ![d] = "unconfigured"]
        /\ UNCHANGED thread
     \/ /\ main' = [main EXCEPT ![d] = "starting"]
        /\ thread' = [thread EXCEPT ![d] = "recovering"]
  /\ UNCHANGED <<term, usr1, received, calls, stopping, running, shown, operator>>

\* start returns once the listener is there or 10 s have passed, and the
\* SIGUSR1 handler is installed.
Arms(d) ==
  /\ main[d] = "starting"
  /\ main' = [main EXCEPT ![d] = "serving"]
  /\ UNCHANGED <<guard, term, usr1, received, loop, operator>>

\* Runtime.stop: hand the shutdown to the loop and join the thread.  A closed
\* loop raises, and the exception leaves the with block of the PID file.
Stops(d) ==
  /\ main[d] = "serving" /\ term[d]
  /\ \/ /\ Working(d)
        /\ calls' = [calls EXCEPT ![d] = Append(@, "shutdown")]
        /\ main' = [main EXCEPT ![d] = "joining"]
        /\ UNCHANGED <<guard, term, usr1, received, thread, stopping, running>>
     \/ /\ ~Working(d)
        /\ Dies(d)
  /\ UNCHANGED <<shown, operator>>

\* The join returns and the process ends; or 35 s have passed, the PID file is
\* given up, and the process waits for the listener thread.
Leaves(d) ==
  /\ \/ main[d] = "joining"
     \/ main[d] = "unconfigured" /\ term[d]
  /\ \/ /\ Working(d)
        /\ main' = [main EXCEPT ![d] = "left"]
        /\ guard' = IF guard = d THEN Nobody ELSE guard
        /\ UNCHANGED <<term, usr1, received, thread, calls, stopping, running>>
     \/ /\ ~Working(d)
        /\ Dies(d)
  /\ UNCHANGED <<shown, operator>>

-----------------------------------------------------------------------------
(***************************************************************************)
(* Signals.                                                                *)
(***************************************************************************)
\* "daemon stop", launchd or Ctrl-C.
Terminates(d) ==
  /\ guard = d /\ ~term[d]
  /\ term' = [term EXCEPT ![d] = TRUE]
  /\ UNCHANGED <<guard, main, usr1, received, loop, operator>>

\* A crash, or the SIGKILL with which "daemon stop" escalates after 5 s.
Killed(d) ==
  /\ main[d] \notin {"new", "dead"}
  /\ Dies(d)
  /\ UNCHANGED <<shown, operator>>

\* A signal whose command is not newer than the last one is ignored.
IgnoresUsr1(d) ==
  /\ usr1[d] /\ Armed(d)
  /\ cmd.seq <= lastSeq[d]
  /\ usr1' = [usr1 EXCEPT ![d] = FALSE]
  /\ UNCHANGED <<guard, main, term, received, loop, operator>>

\* _on_sigusr1, on the main thread, with a new command: for a listener that does
\* not exist yet it counts as applied; for a closed loop it raises, out of
\* whatever the main thread waits in, and the process ends.
HandlesUsr1(d) ==
  /\ usr1[d] /\ Armed(d)
  /\ cmd.seq > lastSeq[d]
  /\ \/ /\ Working(d) \/ ~Heard(d)
        /\ usr1' = [usr1 EXCEPT ![d] = FALSE]
        /\ lastSeq' = [lastSeq EXCEPT ![d] = cmd.seq]
        /\ IF Heard(d)
             THEN /\ accepted' = [accepted EXCEPT ![d] = cmd.command]
                  /\ calls' = [calls EXCEPT ![d] = Append(@, Toggle(cmd.command))]
             ELSE UNCHANGED <<accepted, calls>>
        /\ UNCHANGED <<guard, main, term, thread, stopping, running>>
     \/ /\ ~Working(d) /\ Heard(d)
        /\ Dies(d)
  /\ UNCHANGED <<shown, operator>>

-----------------------------------------------------------------------------
(***************************************************************************)
(* The listener thread: _async_main and the callbacks of its loop.         *)
(***************************************************************************)
\* Recovery and getMe are over, the listener exists, and Listener.run begins.
Recovered(d) ==
  /\ thread[d] = "recovering"
  /\ thread' = [thread EXCEPT ![d] = "listening"]
  /\ running' = [running EXCEPT ![d] = TRUE]
  /\ Flush(d, TRUE)
  /\ UNCHANGED <<process, received, calls, stopping, operator>>

\* The database cannot be opened or read, or getMe raises what is not caught.
RecoveryFails(d) ==
  /\ thread[d] = "recovering"
  /\ \/ /\ main[d] # "left"
        /\ thread' = [thread EXCEPT ![d] = "aborted"]
        /\ calls' = [calls EXCEPT ![d] = << >>]
        /\ UNCHANGED <<process, received, stopping, running>>
     \/ /\ main[d] = "left"
        /\ Dies(d)
  /\ UNCHANGED <<shown, operator>>

\* Mutant of RunsPause: the state is not flushed.
RunsPauseSilently(d) ==
  /\ running' = [running EXCEPT ![d] = FALSE]
  /\ UNCHANGED <<stopping, shown>>

\* Listener.pause
RunsPause(d) ==
  /\ running' = [running EXCEPT ![d] = FALSE]
  /\ Flush(d, FALSE)
  /\ UNCHANGED stopping

\* Listener.resume
RunsResume(d) ==
  /\ running' = [running EXCEPT ![d] = TRUE]
  /\ Flush(d, TRUE)
  /\ UNCHANGED stopping

\* Mutant of RunsShutdown: stop does no more than pause.
RunsShutdownAsPause(d) == RunsPause(d)

\* _initiate_shutdown: nothing happens while there is no listener.
RunsShutdown(d) ==
  /\ stopping' = [stopping EXCEPT ![d] = Heard(d)]
  /\ UNCHANGED <<running, shown>>

\* The loop runs the callbacks in the order they were scheduled, during
\* recovery and during the drain, too.
RunsCall(d) ==
  /\ thread[d] \in Alive /\ calls[d] # << >>
  /\ calls' = [calls EXCEPT ![d] = Tail(@)]
  /\ \/ Head(calls[d]) = "pause" /\ RunsPause(d)
     \/ Head(calls[d]) = "resume" /\ RunsResume(d)
     \/ Head(calls[d]) = "shutdown" /\ RunsShutdown(d)
  /\ UNCHANGED <<process, received, thread, operator>>

\* Listener.run returns, after the poll or the batch in hand.
Ends(d) ==
  /\ thread[d] = "listening" /\ stopping[d]
  /\ thread' = [thread EXCEPT ![d] = "draining"]
  /\ running' = [running EXCEPT ![d] = FALSE]
  /\ Flush(d, FALSE)
  /\ UNCHANGED <<process, received, calls, stopping, operator>>

\* Listener.run raises; the state file keeps what it said.
ListenerRaises(d) ==
  /\ thread[d] = "listening"
  /\ thread' = [thread EXCEPT ![d] = "draining"]
  /\ UNCHANGED <<process, received, calls, stopping, running, shown, operator>>

\* The workers are drained or cancelled and the loop is closed; a process whose
\* main thread has left ends with it.
Closes(d) ==
  /\ thread[d] = "draining"
  /\ \/ /\ main[d] # "left"
        /\ thread' = [thread EXCEPT ![d] = "closed"]
        /\ calls' = [calls EXCEPT ![d] = << >>]
        /\ UNCHANGED <<process, received, stopping, running>>
     \/ /\ main[d] = "left"
        /\ Dies(d)
  /\ UNCHANGED <<shown, operator>>

-----------------------------------------------------------------------------
(***************************************************************************)
(* "telegram start" and "telegram stop".                                   *)
(***************************************************************************)
\* _next_seq reads the number on disk ...
Numbers(c) ==
  /\ cli[c].pc \in {"idle", "signalled", "not running"}
  /\ cmd.seq < MaxCommands
  /\ \E command \in Commands :
       cli' = [cli EXCEPT ![c] = [pc |-> "numbered", seq |-> cmd.seq + 1,
                                  command |-> command, to |-> Nobody]]
  /\ UNCHANGED <<process, received, loop, cmd>>

\* ... and the file is replaced.
Writes(c) ==
  /\ cli[c].pc = "numbered"
  /\ cmd' = [seq |-> cli[c].seq, command |-> cli[c].command, by |-> c]
  /\ cli' = [cli EXCEPT ![c].pc = "written"]
  /\ UNCHANGED <<process, received, loop>>

\* Mutant of Signals: the daemon is signalled before the file is written.
SignalsFirst(c) ==
  /\ cli[c].pc = "numbered" /\ cli[c].to = Nobody
  /\ guard # Nobody /\ Armed(guard)
  /\ cli' = [cli EXCEPT ![c].to = guard]
  /\ usr1' = [usr1 EXCEPT ![guard] = TRUE]
  /\ UNCHANGED <<guard, main, term, received, loop, cmd>>

\* The daemon the PID file names is signalled.  A SIGUSR1 without a handler
\* ends the process.  What the command reports then, from the state file, is
\* not modelled: nothing else depends on it.
Signals(c) ==
  /\ cli[c].pc = "written"
  /\ \/ /\ guard = Nobody
        /\ cli' = [cli EXCEPT ![c].pc = "not running"]
        /\ UNCHANGED <<process, received, thread, calls, stopping, running>>
     \/ /\ guard # Nobody
        /\ cli' = [cli EXCEPT ![c].pc = "signalled", ![c].to = guard]
        /\ \/ /\ Armed(guard)
              /\ usr1' = [usr1 EXCEPT ![guard] = TRUE]
              /\ UNCHANGED <<guard, main, term, received, thread, calls,
                             stopping, running>>
           \/ /\ ~Armed(guard)
              /\ Dies(guard)
  /\ UNCHANGED <<shown, cmd>>

-----------------------------------------------------------------------------
MainStep(d) ==
  \/ Enters(d) \/ Arms(d) \/ Stops(d) \/ Leaves(d)
  \/ Terminates(d) \/ Killed(d) \/ IgnoresUsr1(d) \/ HandlesUsr1(d)

LoopStep(d) ==
  \/ Recovered(d) \/ RecoveryFails(d) \/ RunsCall(d)
  \/ Ends(d) \/ ListenerRaises(d) \/ Closes(d)

CommandStep(c) == Numbers(c) \/ Writes(c) \/ Signals(c)

Next ==
  \/ \E d \in Daemons : MainStep(d) \/ LoopStep(d)
  \/ \E c \in Clis : CommandStep(c)

Spec == Init /\ [][Next]_vars

\* The threads of a process run and their timers expire.  Nobody has to send a
\* signal or to start a daemon, and nothing has to fail.
Fairness ==
  \A d \in Daemons :
    /\ WF_vars(Arms(d)) /\ WF_vars(Stops(d)) /\ WF_vars(Leaves(d))
    /\ WF_vars(RunsCall(d))
    /\ WF_vars(Recovered(d)) /\ WF_vars(Ends(d)) /\ WF_vars(Closes(d))

FairSpec == Spec /\ Fairness

-----------------------------------------------------------------------------
CliState ==
  [pc : {"idle", "numbered", "written", "signalled", "not running"},
   seq : Nat, command : Commands \cup {"none"}, to : Daemons \cup {Nobody}]

TypeOK ==
  /\ guard \in Daemons \cup {Nobody}
  /\ main \in [Daemons -> {"new", "unconfigured", "starting", "serving",
                           "joining", "left", "dead"}]
  /\ term \in [Daemons -> BOOLEAN] /\ usr1 \in [Daemons -> BOOLEAN]
  /\ lastSeq \in [Daemons -> Nat]
  /\ accepted \in [Daemons -> Commands \cup {"none"}]
  /\ thread \in [Daemons -> Alive \cup {"closed", "aborted", "none"}]
  /\ calls \in [Daemons -> Seq(Callbacks)]
  /\ stopping \in [Daemons -> BOOLEAN] /\ running \in [Daemons -> BOOLEAN]
  /\ cmd \in [seq : Nat, command : Commands \cup {"none"}, by : Clis \cup {Nobody}]
  /\ shown \in [by : Daemons \cup {Nobody}, running : BOOLEAN]
  /\ cli \in [Clis -> CliState]

\* A process that has not left its with block holds the PID file, and a
\* runtime works only in such a process or, after a join that expired, in one
\* that has left it.
GuardHeld ==
  /\ \A d \in Daemons :
       main[d] \in {"unconfigured", "starting", "serving", "joining"} <=> guard = d
  /\ \A d \in Daemons : thread[d] # "none" =>
       main[d] \in {"starting", "serving", "joining", "left"}

\* A shell between two commands has signalled nobody, and no process without a
\* handler has survived a signal.
SignalledWasArmed ==
  \A c \in Clis :
    /\ cli[c].pc \in {"numbered", "written"} => cli[c].to = Nobody
    /\ cli[c].to # Nobody => main[cli[c].to] \in {"serving", "joining", "left", "dead"}

\* The last pause or resume scheduled is the one of the last command accepted ...
LastIs(queue, call) ==
  \A n \in 1 .. Len(queue) :
    \/ queue[n] \in {"shutdown", call}
    \/ \E m \in n + 1 .. Len(queue) : queue[m] # "shutdown"

OnlyShutdown(queue) == \A n \in 1 .. Len(queue) : queue[n] = "shutdown"

\* ... and once it has run, the listener is as that command wants it.
CallsDecide(d) ==
  /\ thread[d] \in {"none", "recovering", "aborted"} => accepted[d] = "none"
  /\ thread[d] = "listening" /\ accepted[d] # "none" =>
       /\ LastIs(calls[d], Toggle(accepted[d]))
       /\ OnlyShutdown(calls[d]) => running[d] = (accepted[d] = "start")

LastCallDecides == \A d \in Daemons : CallsDecide(d)

ControlInv == TypeOK /\ GuardHeld /\ SignalledWasArmed /\ LastCallDecides

\* Two runtimes work at once only when one of them has outlived its join:
\* run stops the runtime inside the with block of the PID file.
RuntimesGuarded ==
  \A d, e \in Daemons : Working(d) /\ Working(e) /\ d # e =>
    main[d] = "left" \/ main[e] = "left"

\* Once the callbacks of a listening daemon have run, it is paused if and only
\* if the last command it accepted was "stop", whatever the order of signals
\* and steps of the two threads.
LastCommandHolds ==
  \A d \in Daemons :
    /\ thread[d] = "listening" /\ accepted[d] # "none"
    /\ OnlyShutdown(calls[d])
    => running[d] = (accepted[d] = "start")

\* The daemon a command has signalled has read that command once no signal is
\* pending, unless another command has replaced it: signals that coalesce, or
\* that arrive before the listener exists, leave no unread file behind.
SignalledIsRead ==
  \A c \in Clis : \A d \in Daemons :
    /\ cli[c].to = d /\ main[d] \in {"serving", "joining"} /\ ~usr1[d]
    /\ cmd.by = c
    => lastSeq[d] >= cmd.seq

\* While the daemon that holds the PID file listens, the state file says whether
\* it is paused; only a runtime that outlived its join can have written over that.
StateFileTruthful ==
  \A d \in Daemons : guard = d /\ thread[d] = "listening" =>
    \/ shown = [by |-> d, running |-> running[d]]
    \/ /\ shown.by \notin {d, Nobody}
       /\ main[shown.by] \in {"left", "dead"}

\* SIGTERM ends a serving daemon whose listener exists: the poll, the drain
\* and the join that go on, a pause, and a listener that has raised do not
\* keep it.
TermEndsDaemon ==
  \A d \in Daemons :
    main[d] = "serving" /\ term[d] /\ Heard(d) ~> Gone(d)

\* A process without its PID file still has a listener thread to wait for: the
\* thread that ends last ends the process, and none is left behind.
LeftStillWorks == \A d \in Daemons : main[d] = "left" => Working(d)

\* The listener exists, and has ended or is going to.
Ending(d) ==
  /\ Heard(d)
  /\ thread[d] = "listening" =>
       stopping[d] \/ \E n \in 1 .. Len(calls[d]) : calls[d][n] = "shutdown"

\* The shutdown that Runtime.stop hands to an existing listener is neither lost
\* nor undone, by no pause, resume or failure, until the process has ended.
ShutdownStays ==
  [][\A d \in Daemons :
       /\ main[d] = "serving" /\ main'[d] = "joining" /\ Heard(d) => Ending(d)'
       /\ Ending(d) => Ending(d)' \/ Gone(d)']_vars

\* What the two threads of a daemon have before them when it is told to stop: a
\* command that is still to come can add one callback.
MainLeft(d) == CASE main[d] \in {"new", "starting"}           -> 5
                 [] main[d] = "serving"                       -> 4
                 [] main[d] \in {"joining", "unconfigured"}   -> 2
                 [] main[d] = "left"                          -> 1
                 [] OTHER                                     -> 0
LoopLeft(d) == CASE thread[d] = "recovering" -> 3
                 [] thread[d] = "listening"  -> 2
                 [] thread[d] = "draining"   -> 1
                 [] OTHER                    -> 0
TermLeft(d) ==
  IF Gone(d) THEN 0
  ELSE MainLeft(d) + LoopLeft(d) + Len(calls[d]) + 2 * (MaxCommands - lastSeq[d])

\* Every step of the threads of a daemon that was told to stop brings it nearer to
\* its end, and no signal, command or other daemon gives it more to do.
TermRunsDown ==
  [][\A d \in Daemons : term[d] =>
       /\ TermLeft(d)' <= TermLeft(d)
       /\ Arms(d) \/ Stops(d) \/ Leaves(d) \/ LoopStep(d) =>
            TermLeft(d)' < TermLeft(d)]_vars

-----------------------------------------------------------------------------
\* docs/ARCHITECTURE.md: "flock-backed single-instance guard".
OneRuntime == Cardinality({d \in Daemons : Working(d)}) <= 1
=============================================================================
