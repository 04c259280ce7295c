# A specification of remotask

remotask is a daemon that listens to one Telegram group. A message that names an
issue of a registered project (`ZXTL-1234`, or `/run ZXTL-1234`) opens a
*session*: the daemon creates a forum topic, a git worktree with a branch
`agent/<KEY>`, starts an agent process in it, relays the process's progress
lines to the topic and records how it ended. `/cancel` in the topic stops the
session. This directory holds TLA+ modules that model the daemon, the
configurations under which TLC checks them, and theorems about them that TLAPS
checks.

## 1. The system

| Component (source under `src/src/remotask/`) | State | Operations | Interacts with |
|---|---|---|---|
| Session rows and locks (`daemon/sessions.py`, `core/db.py`, `migrations/V0001__init.sql`) | `sessions.status`, `issue_key`, `locks` | insert + lock in one transaction, `transition` (its own commit), lock release (another commit), active lookups and count; migrations | everything below |
| Message parser and command table (`telegram/parser.py`, `telegram/commands.py`) | none | slash command with its suffix, first issue key | dispatcher |
| Dispatcher, accept path (`daemon/dispatcher.py`) | the await it is suspended at | whitelist, routing, reject (in flight, over cap, unknown project), accept, topic created or failed, hand-off | rows, registry, Telegram, runtime |
| Dispatcher, termination branch | set of stops in flight, pid index, grace watchdogs | `/cancel`, SIGUSR1, SIGTERM, SIGKILL | worker process, `run_worker` |
| Worker coroutine (`daemon/worker.py`) | await, `timed_out`, `StreamResult` | worktree, spawn, wait, timeout ladder, drain, classify, release, remove worktree | rows, git, process, Telegram |
| Agent process (`agent/sdk_worker.py`, `agent/demo_worker.py`) | interrupt event, watchdog task, `DriverState` | receive loop, hooks, deny list, PR_URL and FINAL lines, teardown | the SDK, stdout pipe, signals |
| Listener (`daemon/listener.py`, `daemon/listener_state.py`) | offset, batch, pause and stop events, failures, state file | poll, back off, dispatch, pause, resume, stop | Telegram, dispatcher |
| Runtime (`daemon/runtime.py`) | listener thread, worker tasks, last command sequence | recovery, listener start, SIGUSR1, shutdown, drain | all of the above |
| Single-instance guard (`core/lifecycle.py`, `commands/daemon.py`) | PID file, flock | enter, exit, `is_running` | other daemons, the command line |
| Control files (`daemon/listener_cmd.py`, `commands/telegram.py`) | `listener.cmd`, `listener.state` | `telegram start`, `stop`, `status` | runtime, by SIGUSR1 |
| Configuration and initialisation (`core/config.py`, `commands/init.py`, `commands/config_cmd.py`) | `config.toml`, its `.tmp` | `init`, `init --force` and their rollback, `config set`, `config regenerate-token` | the database file, other commands |
| Project registry (`core/projects.py`, `commands/projects.py`) | `projects` | `add`, `remove`, lookup by prefix | dispatcher |
| Telegram client, templates, audit log, secrets, login, launchd, command line | | text, formatting, one-shot commands | |

What is hard here: every coroutine shares one event loop, so a "step" runs from
one await to the next, and between two awaits of one coroutine any other may
run; the terminal status of a session and the release of its lock are two
commits, sometimes with Telegram posts between them; the daemon can die at any
await while git children and worker processes, leaders of their own sessions,
live on; the exit of a worker is judged from four sources that race (FINAL
line, in-flight flag, timeout, exit code); inside the worker the Stop hook, the
signal and the teardown race for that FINAL line; an update of Telegram is
acknowledged by the *next* poll; a PID file is a name while a lock belongs to an
inode; and commands share two files and a `.tmp` without a lock.

What makes each component correct:

* rows and locks: one non-terminal session per issue, the limit
  `agent.max_concurrent`, ended sessions stay ended, nobody deletes a lock row
  it does not own, nothing stays open for ever;
* worktrees: one live worker per issue, orphans included;
* dispatch: what the operator asks for ends in a session or in one answer at its
  place, a stranger gets nothing, `/cancel` hits the worker of its topic;
* stop and timeout: one signal per stop, `canceled` only on request, the
  worker's own FINAL line decides, a hanging worker is gone in the end;
* agent: one FINAL line whoever writes it, every tool audited, no banned
  command, a stop recorded within its grace, no process that outlives its turn;
* listener: no text forgotten, none repeated within a run, the batch without a
  gap, a stop always heard;
* guard and control: one daemon, the probe does not call a running daemon dead,
  the last command holds, the state file tells the truth;
* files: `config.toml` whole, a reported setting or project stays, a recorded
  migration is complete, an `init` that reports success has delivered.

`PROJECT.json` lists the hazards at their lines with the properties that cover them.

## 2. The modules

| Module | What it is |
|---|---|
| `IssueSlots` | abstract specification: sessions occupy issues, at most `Capacity` at once, each opened once and closed once |
| `SessionCore` | rows, locks, worktrees, processes, dispatcher, worker coroutine, recovery, shutdown and crash; implements `IssueSlots` |
| `Dispatch` | what becomes of a message: parser, routing, both accept paths, `/cancel`, replies, the registry; implements `IssueSlots` |
| `AgentProtocol` | abstract specification: the lines a worker process may write, in which order with SIGUSR1, and how it ends |
| `WorkerStop` | one session from spawn to terminal status: a process built from `AgentProtocol`, pipe, reader, wait, the two kill ladders, classification; implements the worker of `SessionCore` |
| `SdkDriver` | the agent process: main, watchdog, hooks, teardown; implements `AgentProtocol` |
| `DenyList` | the deny list of the agent's shell commands |
| `InOrderDelivery` | abstract specification: a run takes the updates in order, none twice, and only what it has taken is forgotten |
| `Listener` | the long-poll loop, Telegram's acknowledgement, pause, resume, stop, crash and restart; implements `InOrderDelivery` |
| `Lifecycle` | PID file, flock and probe, with several daemons |
| `DaemonControl` | the two threads of a daemon process, its signals, and the commands `telegram start` and `telegram stop` |
| `Store` | `config.toml` and `state.db` under several commands at once, faults, migrations and rollbacks |
| `SessionCoreProofs`, `DispatchProofs`, `WorkerStopProofs`, `SdkDriverProofs`, `ListenerProofs`, `LifecycleProofs`, `DaemonControlProofs`, `StoreProofs` | theorems about the module each is named after |
| `MCSessionCore`, `MCDispatch`, `MCSdkDriver`, `MCLifecycle`, `MCStore` | symmetry sets, messages and shell commands for TLC |

How they fit together: `Dispatch` and `SessionCore` are two views of the same
rows, one from the message and one from the restart, and both implement
`IssueSlots`. Below them the chain is closed: `SdkDriver` implements
`AgentProtocol`, `WorkerStop` runs any worker that keeps that protocol, and
`WorkerStop` in turn implements the worker of `SessionCore`
(`ImplementsSession`: it instantiates `SessionCore` with one session that has
just been spawned, and each of its steps is `ProcessExits`, one of `WorkerStep`,
or invisible). `SessionCore`'s `Stop`, `Crash` and `RecoveryDone` are
`DaemonControl`'s drain, death and `Recovered` of the one process that holds the
PID file; `Listener`'s `Pause`, `Resume` and `Stop` are its callbacks;
`Lifecycle` is what its `guard` abstracts. `Store` is about the time when no
daemon needs to run; the daemon is one more command that connects.

### SessionCore

A step is what runs between two awaits, cut once more at a commit where a crash
in between would leave a different database. `disp` is the await of the
dispatcher (`reply`, `forum` = `createForumTopic`, `announce` = the two posts of
the accept path), `task[s]` that of `run_worker` (`adding` = `git worktree add`,
`announcing` = the "running" post and the spawn, `waiting`, `draining`,
`posting`, `removing`; `died` after an uncaught exception), and `half` the
session whose terminal status is committed and whose lock is about to be
deleted by the same coroutine without an await.

| Action | Code |
|---|---|
| `RejectInFlight`, `RejectOverCap`, `Accept`, `AcceptCollides` | `dispatch`, `_accept_via_slash`, the transaction of `_accept_trigger`; the collision is the duplicate key that is re-raised and swallowed by the listener |
| `TopicCreated`, `TopicFails`, `HandOff` | the rest of `_accept_trigger` |
| `WorktreeAdded`, `WorktreeFails`, `Spawned`, `SpawnFails`, `Reaped`, `Classified`, `DrainOverruns`, `OutcomePosted`, `WorktreeRemoved` | `run_worker` from await to await |
| `RecoverRow`, `RecoveryDone` | `recover_non_terminal_sessions`, `_async_main` |
| `Stop`, `StopCompletes`, `Crash`, `ForgetMemory` | `Runtime.stop`, `_drain_workers`; loss of memory, with git children that may still finish |
| `ProcessExits`, `OperatorPrunes` | external: the process, the operator's `git worktree remove` / `git branch -D` |

`Classified` leaves the outcome open; which one it is, is `WorkerStop`'s question.
`LeftBehind(i)` is a lock row that no recovery will ever look at: the leak of
`core_lock_leak`; `LocksFollowSessions` says that only an outage makes one.
`StepsLeft(s)` counts what a session has before it; `SessionsAdvance` says that
nothing, recovery included, takes it back.

### Dispatch

A message is a record of what the code tells apart: sender, place, command,
suffix (`/run@bot`), what follows the command, and the first issue key in the
text. `IsSlash` is `match_slash_command`: a command for another bot is no
command, but only when `getMe` has succeeded (`botKnown`). `Ignored`, `Answered`
and `Admissible` partition what can happen; `Open`, `Answer`, `Ignore`,
`Collide` and `Signal` are the handlers, up to their first await. `disp` then
blocks the dispatcher: at `replying`, `forum` or `announcing` the next message
waits, but workers end, other processes edit `registry`, and pids appear. A
session id is also the id of its topic. The variables `msg`, `fate` and `posted`
remember the last message, what became of it and where it was answered; the
properties relate them to the message, not to the branch that was taken. Of the worker the module keeps what the
routing reads: status, pid, lock row. Outside of it: restarts (`SessionCore`)
and what the signal does (`WorkerStop`).

### WorkerStop and AgentProtocol

`proc`, `rc`, `asked` and `written` belong to `AgentProtocol`: the process
(booting until its SIGUSR1 handler is installed; `asked` is pending between the
signal and the moment the worker's loop runs `interrupt_requested.set`) and the
marker lines it has written. `WorkerStop` conjoins the actions of the protocol
with `pipe`, `reader` and `result` (the stream coroutine), `run` and `timedOut`
(the locals of `run_worker`), `inFlight`, `usr1` and `watchdog` (the termination
branch). Timers fire at any moment after they are armed. A SIGTERM may be
ignored, since `WorkerSpec.argv` may name any command; a SIGKILL may not.
`Outcome` is the classification table of `run_worker` in the order of its branches.
`Pursued`, a part of `StopInv`, says that a signalled worker is dying or has a
watchdog after it; `StepsLeft` counts the steps everybody together has left.

### SdkDriver and DenyList

`main` is the await of `main` and `SdkDriver.run`: connecting, querying,
receiving, then in the `finally` clause `draining` (an interrupt is set: wait
for the watchdog) or `cancelling`, and `closing`, the exit of the client's
context. The SDK is external and does what it likes within `turn`: it may say
something, ask for a tool, call the Stop hook, fail or fall silent. `Stop`
contains SIGUSR1 (lethal before the handler is installed), the scheduled
callback and the watchdog with its attempt; `attempted` is a history variable.
`lines` counts the lines on stdout by kind, `DriverLeft` what the process has
before it when the turn is over. `recent` is the one-second
throttle of the STEP lines (kept per tool in the code; the model has one tool).
The ten seconds `finally` waits for the watchdog cannot expire before the five
seconds after which the watchdog gives up, hence there is no such branch.

`DenyList` takes a command line as the tokens the code tells apart: separators,
words, long flags with or without a value, bundles of letters, absolute paths as
the texts between their slashes, and the quotation marks that a separator parts
from their partner (`Tear`; a quoted text without a separator is a word).
`Segment` cuts at every `;`, `&&`, `||` and `|` as the regular expression does,
in quotes or not; a segment with a torn mark is one `shlex.split` rejects. The
subcommand of git is whatever word comes next, and a path is compared as it
stands. `Banned` reads the line as a shell does, which knows of quotes, and says
what `deny_reason_for` promises in its docstring: the listed commands, at the
start of the line or behind one of the four separators, with their flags in any
order. Only lines with at most one quoted text that holds separators are
modelled (`OneQuotedText`).

`NothingBannedRuns` is *not* "banned commands cannot run"; section 3 says where
the code, and so the model, stops short of that.

### Listener

`loop` is the await of `Listener.run`; `batch` holds the updates of the last
answer from the one in hand on; `confirmed` is Telegram's side: an update
disappears when a getUpdates request with a larger offset *arrives*, even if the
answer is lost. `Wakes` is a loop that waited for a resume: `Event.wait` returns
although the event may be clear again. `PollFails` leads to `raised` once the
exponent of the backoff is too large for a float (`OverflowAt` stands for 1025;
a `retry_after` of Telegram bypasses the exponent, hence the disjunction).
`ImplementsDelivery` maps the offset and the batch to the last update that the run
has taken; a run that was never answered (`offset` 0) stands where Telegram's
memory begins. Two of its consequences for a single text, that no run delivers it twice and that
it is not forgotten undelivered, are stated and proved as `NoMessageTwice` and
`NothingIsForgotten`.
The throttling of `HeartbeatWriter` only suppresses writes of an equal content
and is not visible here.

### Lifecycle

Inodes are numbers, `path` is the directory entry. `__exit__` is two steps
(unlock and close, then unlink by name), `is_running` two as well (read and
try, then unlink). One caller of `is_running` at a time. `stolen`, a history
variable, counts the removals of a file that some process had open: each may
let one more daemon in.

### DaemonControl

The main thread (`run`: take the PID file, `Runtime.start`, install the SIGUSR1
handler, wait, `Runtime.stop`, leave), the listener thread (`_thread_main`:
recovery, listening, drain, end) and the shells, for several processes.

| Variable | Values | Code |
|---|---|---|
| `main` | `new`, `unconfigured`, `starting`, `serving`, `joining`, `left` (the `with` block is over, the listener thread lives), `dead` | `runtime.run` |
| `thread` | `none`, `recovering`, `listening`, `draining`, `closed`, `aborted` | `_thread_main`, `_async_main` |
| `calls` | callbacks not yet run | `call_soon_threadsafe` |
| `cmd`, `lastSeq`, `accepted` | command file, `_last_cmd_seq`, what was handed to the loop | `listener_cmd.py`, `_on_sigusr1` |
| `guard` | who holds the PID file | `Lifecycle`, as a lock without its own races |
| `shown` | who wrote `listener.state`, and what | `HeartbeatWriter` |

`HandlesUsr1` contains the paths that are easy to miss: a command that comes
before the listener exists is remembered as applied and dropped; with a closed
loop `call_soon_threadsafe` raises in the main thread and the process ends. A
SIGUSR1 before the handler is installed is lethal (`Signals`). `cmd.by` and
`accepted` are history variables. The poll loop is one state here, the file
`listener.cmd` is replaced in one step, and what the shell prints afterwards is
left out.

### Store

Files are told from their names: `config`, `tmp` and `state` say which file each
name denotes, `text` and `schema` what the files contain, and a process goes on
writing to the file it has open after the name has moved. A step is one system
call on a shared file or one statement that SQLite commits by itself, since
`executescript` commits the transaction `BEGIN` has opened; only a check of
`exists()` goes with the call it guards, the two unlinks of a rollback are one
step, and the `chmod` after a replace does not fail. Commands are `init`,
`init --force`, `config set` (and `regenerate-token`, the same code) and
`projects add`, which stands for whatever only connects. A call may fail or the
process be killed between any two steps, `MaxFaults` times. `missing` is the
list of files `init` removes, by name, when it rolls back; `before` and
`overlap` are history variables: the properties say nothing of two savers that
overlapped, nor of a schema once a fault has happened, for there the code
promises nothing. A configuration is the set of `config set`
commands it reflects.

## 3. The runs

| Run | Bounds | Shows |
|---|---|---|
| `core_safety` | 3 sessions, 3 issues, limit 2, 2 outages | lock protocol, isolation of worktrees and processes, ownership, left-over lock rows, sessions that only advance, the refinement of `IssueSlots` |
| `core_liveness` | 2 sessions, 2 issues, limit 2, 2 outages | every session ends; a crash loses none |
| `dispatch` | 2 projects with one number each, 3 sessions, limit 2, 3 messages of every kind, 1 edit of the registry | who gets a session, a signal or an answer, and where; the refinement of `IssueSlots` by both accept paths |
| `stop` | 1 progress line, 2 `/cancel` | stop, timeout, reader and exit in every order; hanging workers are ended; the refinement of `SessionCore`'s worker |
| `sdk` | 2 texts, 2 tools, 2 SIGUSR1, 58 command lines | the FINAL line, the audit, the deny list; a stop is recorded, a finished turn ends the process; the refinement of `AgentProtocol` |
| `listener` | 4 updates (one not a text), 3 failed polls, 2 toggles, 1 restart | the refinement of `InOrderDelivery`; stop and messages are heard |
| `lifecycle` | 4 processes, 4 files, 3 exits, 2 probes | n daemons need n - 1 removals of an open file; until the first, the file names the one that runs |
| `daemon` | 2 processes, 1 shell, 2 commands | who works at once, the last command (in `ControlInv`), the state file, SIGTERM |
| `store` | 3 commands, 2 statements, 1 fault | what is whole, what survives, what a rollback may take |

Why the bounds are enough: an issue is disputed by at most an ended session that
still holds its lock, an orphan of a crash and a new trigger, hence three
sessions and two outages, and the limit needs one session more than slots; in
`dispatch` two messages fill the limit or the issue and the third meets it, or
the second one opens a topic in which the third one says `/cancel`; a
second `/cancel` or SIGUSR1 is what "at most once" is about; two tools within a
second are what the throttle is about; a lost answer and a restart are what can
forget or repeat an update, and the texts surround one update that is no text;
the races of the PID file take one process that leaves, one that enters between
its two steps, and a third that finds no file, while a fourth shows that the count
goes on; a process that outlives its join
meets one successor, and a pause and a resume are two commands (two shells that
write the same sequence number are left to `SignalledIsReadAlways`); a file is
disputed by the command that made it, one that takes it away and one that relies
on it, and two statements have one crash between them. `Sessions` bounds the number
of triggers, since ids are not reused; `OverflowAt` = 3 stands for the 1025th
failure in a row. The theorems of section 4 hold without any of these bounds.

`CHECK_DEADLOCK FALSE` is set everywhere: each system may really stop (a
stopped daemon with every id used, an ended worker, a stopped listener, commands
that are over).

Three runs each check one sentence of a docstring or document that the code
does not keep; `PROJECT.json` quotes the sentence.

| Run | What happens |
|---|---|
| `core_lock_leak` | a crash between the two commits leaves a lock no recovery releases |
| `listener_outage` | the 1025th failed poll in a row ends the listener |
| `daemon_overlap` | the PID file is given up while the runtime works, and a second one starts |

Divergences seen while modelling that have no run of their own (the modules
follow the code):

* sessions: a trigger between the terminal commit and the lock release is
  dropped without an answer (`sessions.py:57-58`; `OperatorHeard` excepts
  exactly this case); an exception at the spawn or in the drain leaves a
  `running` row without a worker (`db.py:13-14`; `ActiveIsOwned` and
  `ActiveEnds` except it);
* worker: the session timeout starts with SIGTERM (`worker.py:668-678`), not
  with SIGUSR1 as `docs/ARCHITECTURE.md:152-157` draws it; the worktree of a
  canceled session is removed (`worker.py:653-655`), although the PRD keeps it
  (`PRD.md:158`); an operator stop is recorded whatever the exit code
  (`worker.py:543`), and the "forced" message may appear although no grace
  expired (`worker.py:558`); a reader that fails loses the pull request URL
  (`worker.py:489`);
* dispatcher: `/run@other ZXTL-1` falls through to plain text and opens a
  session (`dispatcher.py:119-121` says a command never does;
  `OtherBotsCommands`); `/run ZXTL-1,` is no issue key and goes to the default
  project as free text; `/cancel` in the main chat and unknown commands get no
  answer; the failure to create a topic is reported in the main chat even for a
  command from a topic; `clear_operator_stop_in_flight` is never called;
* agent: the module docstring says the banned commands cannot run
  (`sdk_worker.py:24-26`, likewise `CONSTITUTION.md:189-192` and
  `docs/ARD.md:275-278`). The hook keeps the narrower promise of `deny_reason_for`
  that `NothingBannedRuns` states. It is not a shell: a newline or a single `&`
  starts no segment, a command inside another one (a substitution, a wrapper) is
  an argument, an option between `git` and its subcommand is taken for the
  subcommand (line 141), and a path is not normalised before its prefix is
  compared (line 189). In `DenyList` such lines are not `Denied`, as in the code,
  and not `Banned` in the sense of that docstring either. The list is a guard
  against mistakes, and the other sentences should say no more than that. In the
  other direction it refuses a harmless line with a separator in quotes;
* agent: `step_body_for` raises `IndexError` for an empty Bash command;
* listener and client: a paused listener still dispatches the batch in hand and
  takes the answer of the poll in flight (`listener.py:98`, `132-135`); after a
  restart it polls without an offset and may handle messages again
  (`runtime.py:299-307`; `listener_state.py:4-6` promises a resume); the client
  does not wait on a 429, it only carries `retry_after`; the HTTP read timeout
  equals the largest poll timeout that the configuration allows;
* daemon: `lifecycle.py:1` promises a single instance, but `__exit__` and a probe
  unlink by name (65-72, 108-118), so two daemons can run once a file was
  removed; `daemon stop` kills after 5 s, so a drain of up to 30 s is seldom
  completed; two shells can number their commands alike, and the second one is
  ignored; `telegram stop` reports `active_sessions` from the state file, which
  no code sets;
* files: `db.py:67` says a single transaction per migration; after a crash in the
  middle every later connect and `init --force` fails, while `init` says
  "Already initialized"; "atomically" (`config.py`) does not hold for two writers,
  who share one `.tmp`; a plain `init` that finds no `state.db` overwrites
  `config.toml` with defaults; the rollback of one of two inits can delete the
  files of the other.

### Fairness

`SessionCore`: weak fairness of every coroutine step, since the event loop runs
what is ready and the client's timeouts and git end; of `ProcessExits`, which the
session timeout and its SIGKILL bound; of the relaunch after a *crash*, which
launchd's KeepAlive gives. Nobody must start a *stopped* daemon, so liveness
excepts it, and a coroutine that died is excepted too.
`WorkerStop`: the daemon's coroutines and timers; nothing of the worker.
`TimeoutEndsRun` assumes in its own formula that the session timeout fires; the
configuration demands at least 60 s of it, so it is always armed.
`SdkDriver`: the event loop, the five seconds of the watchdog, the disconnect of
the client; nothing of the agent's turn, which may hang. `Listener`:
the loop and the arrival of requests; failures are bounded, so an outage ends.
`DaemonControl`: both threads and their timers (the join, the drain); nobody
must send a signal, start a process or type a command. `Dispatch`, `Lifecycle`
and `Store` state safety only.

## 4. The proofs

Each proof module assumes the named `ASSUME` of its module and nothing else: any
sets, any limits, any bounds. Every safety property the passing runs check is the subject of
a theorem; `PROJECT.json` lists them. Each rests on an inductive invariant:

* `SessionCoreProofs` — `LockInv`. One session per issue is not inductive by
  itself: it needs that an active row holds its lock, that a lock names a session
  of its issue, that whoever is about to run the `DELETE` still owns the row, and
  that the await of each coroutine tells the status of its row. `WorkersIsolated`
  adds `WorktreeInv`: a session *occupies* the worktree of its issue from `git
  worktree add` until its removal, and a process in it keeps it occupied after
  its coroutine is gone; two sessions never occupy the same one because `git
  worktree add -b` refuses an existing path or branch. `LimitHolds` needs the
  finiteness of the active set, step by step; `Refinement` maps each step to one
  of `IssueSlots`. `LocksFollowSessionsAlways` needs of `LockInv` that whoever
  releases a lock owns it, so that nobody repairs a row left behind by accident;
  `SessionsOnlyAdvance` that the await of a coroutine tells the status, so that
  the loss of a coroutine (rank at least 4) is a step down to a row that recovery
  has to fail (rank 3).
* `DispatchProofs` — `RouteInv`: `DispatchInv`, with the place at which the
  dispatcher is suspended telling what became of the last message.
  `StepHandles` separates the steps that take a message from the others and
  `MessageFate` says what a message may become; the three action properties
  follow from these. `DispatchKeepsSlots` is the refinement, with the limit
  counted over pairs (`PairsCounted`).
* `WorkerStopProofs` — `WorkerInv`: what `StopInv` says of processes and rows,
  and `MarkersTravel`: a marker in the pipe was written, and one that was
  written is in the pipe, harvested, or lost with a reader that failed.
  `CanceledOnRequest` needs `Causes`: an operator stop is announced only by a
  worker that was signalled, which needs a stop in flight. `StopIsSession` first
  sorts the steps by what they show (`StepsShow`: the exit, the four steps of the
  coroutine, nothing) and then finds each in `SessionCore` (`SessionSteps`).
  `StepsRunOutAlways` adds up seven counts, none of which any step raises but the
  reader's, when it takes a line out of the pipe, which costs more than it.
* `SdkDriverProofs` — `RunInv`. `OneLastWord` is inductive only with the fact
  that the watchdog's lines appear with the end of its attempt (`Attempts`), and its
  last part with the way of a pull request through the inbox (`PrTravels`).
  `NothingBannedRunsEver` rests on two cases: in a line without a torn mark the
  command is a segment of the code (`CommandIsDenied`); wherever the code cuts
  inside quotes it leaves a segment it rejects (`TornIsDenied`). `DriverIsWorker` is the refinement:
  one step of the driver is one step of the protocol or none.
  `TurnFollows` (the turn begins with the query, a drained watchdog lives) is
  what the two theorems about the end of the turn need besides.
* `ListenerProofs` — `LoopInv`. `NothingForgotten` is about Telegram's mark,
  which moves to the *offset of the request*; so everything the offset has
  passed must be handled (`Delivered`), and the offset must lie below the batch
  (`Progress`). `Once` is the same from the other side. `ListenerDelivers` adds `Position`: the
  batch goes on where the run stands, which is the offset, or one below it while
  its message is in hand, or Telegram's mark before the first answer.
* `LifecycleProofs` — the lock of an inode is held by a process that has it open,
  so two daemons have two inodes, and all inodes in use but the one that has the
  name lost it while they were open (`LostAreStolen`: there are at most `stolen`
  of them). The bound follows by counting.
* `DaemonControlProofs` — `ControlInv`, in four parts: types; `GuardHeld` (a
  process inside its `with` block is the one that holds the PID file, and a
  listener thread lives there or in a process that left); `SignalledWasArmed`
  (no process without a handler survived a signal); `LastCallDecides`, the
  strengthening of `LastCommandHolds`: while callbacks are still queued, the
  last pause or resume in the queue is the one of the last accepted command.
  `SignalledIsReadAlways` holds for any number of shells, which TLC cannot
  enumerate. For the end of a daemon, `TermOK` adds that whoever has left its
  `with` block has a working listener thread, and that commands have numbers up
  to the bound; `TermLeft` counts a command that is still to come twice, because
  its callback has to run as well.
* `StoreProofs` — `StoreState`. A file has no name before its command creates it
  (`Fresh`), which is why a database that was taken away never comes back under
  its old identity: `RegistrationStays` rests on it (`RowsOK`: whoever has
  `state.db` on its list found none, so it began before today's file). While savers do not
  overlap there is one draft, it is the file called `.tmp`, and what it is about
  to replace is contained in it (`Draft`, `SettingsOK`); an `init` that may
  roll something back has found no finished `init` before it (`InitsOK`).

Only model-checked: the eight liveness properties, since fairness and `ENABLED` are
out of the prover's reach. For seven of them the part of the argument that is not about
fairness is a theorem: a measure that the steps use up, and the fact that whoever
waits waits for a step that the fairness formula names.

| Liveness, by TLC | What is proved of it |
|---|---|
| `ActiveEnds` | `SessionsOnlyAdvance` (measure), `SessionsOwned` (a coroutine is there) |
| `CancelStopsWorker`, `TimeoutEndsRun` | `StepsRunOutAlways` (measure), `SomebodyMovesAlways` (nobody waits for nothing) |
| `StopIsRecorded` | `StopNotGivenUpEver` (neither watchdog nor process ends before the FINAL line) |
| `TurnOverEnds` | `TurnOverRunsDownAlways` (measure), `TurnOverMovesAlways` (no await depends on the SDK) |
| `StopHeard` | `StopRunsDownAlways` (measure), `StopWakesAlways` (a paused loop has its waiter scheduled) |
| `TermEndsDaemon` | `TermRunsDownAlways` (measure), `ShutdownStaysAlways` (the shutdown handed over is not lost), `LeftStillWorksAlways` (a process without its PID file has a thread to wait for) |
| `EveryMessageHandled` | nothing of this kind: the posts and failures that go on need a measure of their own |

No module uses a recursive operator.

## 5. Not modelled

* Texts, templates, the regular expressions of the parser, the report of
  `telegram status` and `/status`: wording and layout.
* Logging and audit records, `events` and `tool_calls`: no decision reads them.
* Validation of configuration values, secrets, paths and the login prompt:
  operations that fail before anything is written, without state of their own.
* launchd templates (`install`, `uninstall`); their KeepAlive is the fairness of
  the relaunch. Argument parsing of the command line.
* The client's spacing of outbound messages: wall-clock time.
* Reuse of process ids (`dispatcher.py:341` signals a pid read before the
  grace): a reaped worker is known to be gone.
* Telegram keeps updates for ever (the real service drops them after a day).

## 6. Plan

1. The composition of `Dispatch` and `SessionCore` into one module, with the
   restart of the daemon under a dispatcher that remembers its stops, once a
   bound is found under which TLC finishes.
2. The shared temporary file of `listener.cmd`, as `Store` has it for
   `config.toml`.
3. Several callers of `is_running`.
4. The measure behind `EveryMessageHandled`.
