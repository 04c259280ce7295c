---------------------------- MODULE SessionCore ----------------------------
(***************************************************************************)
(* The life of a session in the remotask daemon: the dispatcher's accept   *)
(* path (daemon/dispatcher.py), the worker coroutine (daemon/worker.py),   *)
(* the rows of state.db (daemon/sessions.py, core/db.py), the git worktree *)
(* and branch of each issue, the worker processes, and the restart         *)
(* recovery and shutdown of the runtime (daemon/runtime.py).               *)
(*                                                                         *)
(* All coroutines share one event loop, so a step runs from one await to   *)
(* the next.  A step is cut again at a database commit when a crash        *)
(* between the two commits would leave a different database: "half" names  *)
(* the session whose terminal status is committed and whose lock row is    *)
(* about to be deleted by the same, not yet interrupted, coroutine.        *)
(***************************************************************************)
EXTENDS Naturals, FiniteSets

CONSTANTS
  Issues,         \* issue keys a trigger can name (the project is registered)
  Sessions,       \* session ids; each is used once, so the set bounds the run
  MaxConcurrent,  \* cfg.agent.max_concurrent
  MaxOutages,     \* bound on the crashes and stops of the daemon
  NoIssue,        \* the issue of a row that does not exist yet
  NoSession       \* no lock row, or no session in hand

ASSUME SessionCoreAssumption ==
  /\ MaxConcurrent \in Nat \ {0}
  /\ MaxOutages \in Nat
  /\ NoIssue \notin Issues
  /\ NoSession \notin Sessions

VARIABLES
  status,    \* sessions.status per session, "absent" while there is no row
  issueOf,   \* sessions.issue_key
  lock,      \* locks.holder_session of resource issue:<KEY>, per issue
  worktree,  \* issues whose directory <worktree_root>/<KEY> exists
  branch,    \* issues whose branch agent/<KEY> exists
  proc,      \* the worker process of a session
  daemon,    \* what the daemon process does
  disp,      \* the await the dispatcher is suspended at, and for which session
  task,      \* the await the worker coroutine of a session is suspended at
  half,      \* the session between its terminal commit and its lock release
  answer,    \* what became of the last authorised trigger
  outages    \* crashes and stops so far

db      == <<status, issueOf, lock>>
git     == <<worktree, branch>>
vars    == <<status, issueOf, lock, worktree, branch, proc, daemon, disp,
             task, half, answer, outages>>

NonTerminal == {"enqueued", "starting", "running"}
Terminal    == {"pr_created", "completed", "failed", "canceled"}

Active(s)      == status[s] \in NonTerminal
ActiveSessions == {s \in Sessions : Active(s)}
ActiveFor(i)   == {s \in ActiveSessions : issueOf[s] = i}

Idle == [at |-> "idle", session |-> NoSession]

\* The worker coroutine is alive and owns the rest of the session's life.
TaskAlive(s) == task[s] \notin {"none", "died"}

\* No coroutine is between two commits: another one may run.
LoopFree == half = NoSession

\* The listener dispatches one message at a time.
Accepting == daemon = "up" /\ LoopFree /\ disp = Idle

\* Coroutines of sessions run while the daemon serves and while it drains.
Working == daemon \in {"up", "draining"} /\ LoopFree

(***************************************************************************)
(* sessions.transition and the two lock statements.                        *)
(***************************************************************************)
Transition(s, from, to) ==
  /\ status[s] = from
  /\ status' = [status EXCEPT ![s] = to]

InsertAndLock(s, i) ==
  /\ status'  = [status EXCEPT ![s] = "enqueued"]
  /\ issueOf' = [issueOf EXCEPT ![s] = i]
  /\ lock'    = [lock EXCEPT ![i] = s]

ReleaseIssueLock(i) == lock' = [lock EXCEPT ![i] = NoSession]

Init ==
  /\ status   = [s \in Sessions |-> "absent"]
  /\ issueOf  = [s \in Sessions |-> NoIssue]
  /\ lock     = [i \in Issues |-> NoSession]
  /\ worktree = {}
  /\ branch   = {}
  /\ proc     = [s \in Sessions |-> "none"]
  /\ daemon   = "stopped"
  /\ disp     = Idle
  /\ task     = [s \in Sessions |-> "none"]
  /\ half     = NoSession
  /\ answer   = "none"
  /\ outages  = 0

-----------------------------------------------------------------------------
(***************************************************************************)
(* The dispatcher.  A trigger is an authorised message naming an issue of  *)
(* a registered project, in plain text or as /run <KEY>.                   *)
(***************************************************************************)
RejectInFlight(i) ==
  /\ Accepting
  /\ ActiveFor(i) # {}
  /\ disp' = [at |-> "reply", session |-> NoSession]
  /\ answer' = "in_flight"
  /\ UNCHANGED <<db, git, proc, daemon, task, half, outages>>

RejectOverCap(i) ==
  /\ Accepting
  /\ ActiveFor(i) = {}
  /\ Cardinality(ActiveSessions) >= MaxConcurrent
  /\ disp' = [at |-> "reply", session |-> NoSession]
  /\ answer' = "cap"
  /\ UNCHANGED <<db, git, proc, daemon, task, half, outages>>

\* The checks that guard _accept_trigger, made without an await before it.
Admissible(i) ==
  /\ ActiveFor(i) = {}
  /\ Cardinality(ActiveSessions) < MaxConcurrent

Accept(s, i) ==
  /\ Accepting
  /\ Admissible(i)
  /\ lock[i] = NoSession
  /\ status[s] = "absent"
  /\ InsertAndLock(s, i)
  /\ disp' = [at |-> "forum", session |-> s]
  /\ answer' = "accepted"
  /\ UNCHANGED <<git, proc, daemon, task, half, outages>>

\* The lock row of an ended session is still there: INSERT INTO locks raises,
\* the transaction is rolled back and the listener swallows the exception.
AcceptCollides(i) ==
  /\ Accepting
  /\ Admissible(i)
  /\ lock[i] # NoSession
  /\ answer' = "lost"
  /\ UNCHANGED <<db, git, proc, daemon, disp, task, half, outages>>

ReplySent ==
  /\ daemon = "up"
  /\ LoopFree
  /\ disp.at = "reply"
  /\ disp' = Idle
  /\ UNCHANGED <<db, git, proc, daemon, task, half, answer, outages>>

TopicCreated ==
  /\ daemon = "up"
  /\ LoopFree
  /\ disp.at = "forum"
  /\ Transition(disp.session, "enqueued", "starting")
  /\ disp' = [disp EXCEPT !.at = "announce"]
  /\ UNCHANGED <<issueOf, lock, git, proc, daemon, task, half, answer, outages>>

\* Mutant of TopicFails: the row deleted instead of failed.
TopicFailsDeleting ==
  /\ daemon = "up"
  /\ LoopFree
  /\ disp.at = "forum"
  /\ Transition(disp.session, "enqueued", "absent")
  /\ half' = disp.session
  /\ disp' = [at |-> "reply", session |-> NoSession]
  /\ answer' = "topic_failed"
  /\ UNCHANGED <<issueOf, lock, git, proc, daemon, task, outages>>

TopicFails ==
  /\ daemon = "up"
  /\ LoopFree
  /\ disp.at = "forum"
  /\ Transition(disp.session, "enqueued", "failed")
  /\ half' = disp.session
  /\ disp' = [at |-> "reply", session |-> NoSession]
  /\ answer' = "topic_failed"
  /\ UNCHANGED <<issueOf, lock, git, proc, daemon, task, outages>>

\* Both announcements are posted; the worker coroutine becomes a task.
HandOff ==
  /\ daemon = "up"
  /\ LoopFree
  /\ disp.at = "announce"
  /\ task' = [task EXCEPT ![disp.session] = "adding"]
  /\ disp' = Idle
  /\ UNCHANGED <<db, git, proc, daemon, half, answer, outages>>

\* The second commit of the three places that end a session and release its
\* lock without an await in between.
ReleaseHalf ==
  /\ half # NoSession
  /\ ReleaseIssueLock(issueOf[half])
  /\ half' = NoSession
  /\ UNCHANGED <<status, issueOf, git, proc, daemon, disp, task, answer, outages>>

-----------------------------------------------------------------------------
(***************************************************************************)
(* The worker coroutine, worker.run_worker.                                *)
(***************************************************************************)
\* Mutant of CanAddWorktree: git worktree add --force -B.
CanAddWorktreeForced(i) == i \in Issues

\* git worktree add <path> -b agent/<KEY> refuses an existing path or branch.
CanAddWorktree(i) == i \notin worktree /\ i \notin branch

WorktreeAdded(s) ==
  /\ Working
  /\ task[s] = "adding"
  /\ CanAddWorktree(issueOf[s])
  /\ worktree' = worktree \cup {issueOf[s]}
  /\ branch'   = branch \cup {issueOf[s]}
  /\ Transition(s, "starting", "running")
  /\ task' = [task EXCEPT ![s] = "announcing"]
  /\ UNCHANGED <<issueOf, lock, proc, daemon, disp, half, answer, outages>>

\* The path or the branch exists, or git fails for a reason of its own.
WorktreeFails(s) ==
  /\ Working
  /\ task[s] = "adding"
  /\ Transition(s, "starting", "failed")
  /\ half' = s
  /\ task' = [task EXCEPT ![s] = "none"]
  /\ UNCHANGED <<issueOf, lock, git, proc, daemon, disp, answer, outages>>

\* "Status: running" is posted and the subprocess is being created.
Spawned(s) ==
  /\ Working
  /\ task[s] = "announcing"
  /\ proc' = [proc EXCEPT ![s] = "alive"]
  /\ task' = [task EXCEPT ![s] = "waiting"]
  /\ UNCHANGED <<db, git, daemon, disp, half, answer, outages>>

\* create_subprocess_exec raises: nothing catches it in run_worker.
SpawnFails(s) ==
  /\ Working
  /\ task[s] = "announcing"
  /\ task' = [task EXCEPT ![s] = "died"]
  /\ UNCHANGED <<db, git, proc, daemon, disp, half, answer, outages>>

\* The process ends, by itself or by the stop and timeout ladders.
ProcessExits(s) ==
  /\ proc[s] = "alive"
  /\ proc' = [proc EXCEPT ![s] = "dead"]
  /\ UNCHANGED <<db, git, daemon, disp, task, half, answer, outages>>

\* Mutant of Reaped: the lock released as soon as the process is gone.
ReapedReleasing(s) ==
  /\ Working
  /\ task[s] = "waiting"
  /\ proc[s] = "dead"
  /\ ReleaseIssueLock(issueOf[s])
  /\ task' = [task EXCEPT ![s] = "draining"]
  /\ UNCHANGED <<status, issueOf, git, proc, daemon, disp, half, answer, outages>>

Reaped(s) ==
  /\ Working
  /\ task[s] = "waiting"
  /\ proc[s] = "dead"
  /\ task' = [task EXCEPT ![s] = "draining"]
  /\ UNCHANGED <<db, git, proc, daemon, disp, half, answer, outages>>

\* The pipes are drained and the exit is classified; the outcome is committed
\* and then posted, and only after the post is the lock released.
Classified(s, outcome) ==
  /\ Working
  /\ task[s] = "draining"
  /\ Transition(s, "running", outcome)
  /\ task' = [task EXCEPT ![s] = "posting"]
  /\ UNCHANGED <<issueOf, lock, git, proc, daemon, disp, half, answer, outages>>

\* The stream task outlives the five seconds: wait_for cancels it, and the
\* await of the cancelled task raises CancelledError, which suppress(Exception)
\* does not catch, out of run_worker.
DrainOverruns(s) ==
  /\ Working
  /\ task[s] = "draining"
  /\ task' = [task EXCEPT ![s] = "died"]
  /\ UNCHANGED <<db, git, proc, daemon, disp, half, answer, outages>>

OutcomePosted(s) ==
  /\ Working
  /\ task[s] = "posting"
  /\ ReleaseIssueLock(issueOf[s])
  /\ task' = [task EXCEPT ![s] = "removing"]
  /\ UNCHANGED <<status, issueOf, git, proc, daemon, disp, half, answer, outages>>

\* Mutant of WorktreeRemoved: the lock released once more on the way out.
WorktreeRemovedReleasing(s) ==
  /\ Working
  /\ task[s] = "removing"
  /\ worktree' \in {worktree, worktree \ {issueOf[s]}}
  /\ ReleaseIssueLock(issueOf[s])
  /\ task' = [task EXCEPT ![s] = "none"]
  /\ UNCHANGED <<status, issueOf, branch, proc, daemon, disp, half, answer, outages>>

\* git worktree remove --force is best effort; the branch is kept.
WorktreeRemoved(s) ==
  /\ Working
  /\ task[s] = "removing"
  /\ worktree' \in {worktree, worktree \ {issueOf[s]}}
  /\ task' = [task EXCEPT ![s] = "none"]
  /\ UNCHANGED <<db, branch, proc, daemon, disp, half, answer, outages>>

-----------------------------------------------------------------------------
(***************************************************************************)
(* The daemon process: recovery, shutdown, crash.                          *)
(***************************************************************************)
\* Mutant of Start: the listener up before the recovery.
StartUnrecovered ==
  /\ daemon \in {"stopped", "crashed"}
  /\ daemon' = "up"
  /\ UNCHANGED <<db, git, proc, disp, task, half, answer, outages>>

Start ==
  /\ daemon \in {"stopped", "crashed"}
  /\ daemon' = "recovering"
  /\ UNCHANGED <<db, git, proc, disp, task, half, answer, outages>>

\* Mutant of RecoverRow: the session queued again, without a coroutine.
RecoverRowRequeuing(s) ==
  /\ daemon = "recovering"
  /\ LoopFree
  /\ Active(s)
  /\ status' = [status EXCEPT ![s] = "enqueued"]
  /\ UNCHANGED <<issueOf, lock, git, proc, daemon, disp, task, half, answer, outages>>

\* recover_non_terminal_sessions, one row.
RecoverRow(s) ==
  /\ daemon = "recovering"
  /\ LoopFree
  /\ Active(s)
  /\ status' = [status EXCEPT ![s] = "failed"]
  /\ half' = s
  /\ UNCHANGED <<issueOf, lock, git, proc, daemon, disp, task, answer, outages>>

\* Mutant of RecoveryDone: only running rows are recovered.
RecoveryDoneEarly ==
  /\ daemon = "recovering"
  /\ LoopFree
  /\ \A s \in Sessions : status[s] # "running"
  /\ daemon' = "up"
  /\ UNCHANGED <<db, git, proc, disp, task, half, answer, outages>>

RecoveryDone ==
  /\ daemon = "recovering"
  /\ LoopFree
  /\ ActiveSessions = {}
  /\ daemon' = "up"
  /\ UNCHANGED <<db, git, proc, disp, task, half, answer, outages>>

\* The listener leaves its loop between two messages; workers are drained.
Stop ==
  /\ Accepting
  /\ outages < MaxOutages
  /\ outages' = outages + 1
  /\ daemon' = "draining"
  /\ UNCHANGED <<db, git, proc, disp, task, half, answer>>

\* What the death of the daemon's coroutines does: memory is gone; a git child
\* already running may finish its work or not; worker processes, leaders of
\* their own session, live on.
ForgetMemory ==
  /\ disp' = Idle
  /\ task' = [s \in Sessions |-> "none"]
  /\ half' = NoSession
  /\ \E added \in SUBSET {s \in Sessions : /\ task[s] = "adding"
                                          /\ CanAddWorktree(issueOf[s])},
        removed \in SUBSET {s \in Sessions : task[s] = "removing"} :
       /\ worktree' = (worktree \ {issueOf[s] : s \in removed})
                         \cup {issueOf[s] : s \in added}
       /\ branch' = branch \cup {issueOf[s] : s \in added}

\* Every worker task ended within the shutdown timeout, or it expired and the
\* remaining ones are cancelled at the await they are suspended at.
StopCompletes ==
  /\ daemon = "draining"
  /\ LoopFree
  /\ daemon' = "stopped"
  /\ ForgetMemory
  /\ UNCHANGED <<db, proc, answer, outages>>

Crash ==
  /\ daemon \in {"recovering", "up", "draining"}
  /\ outages < MaxOutages
  /\ outages' = outages + 1
  /\ daemon' = "crashed"
  /\ ForgetMemory
  /\ UNCHANGED <<db, proc, answer>>

\* Outside the program: the operator deletes what an ended session left behind
\* (git worktree remove; git branch -D agent/<KEY>), with nothing using it.
OperatorPrunes(i) ==
  /\ i \in worktree \cup branch
  /\ \A s \in Sessions : issueOf[s] = i => /\ ~Active(s)
                                           /\ ~TaskAlive(s)
                                           /\ proc[s] # "alive"
  /\ worktree' = worktree \ {i}
  /\ branch'   = branch \ {i}
  /\ UNCHANGED <<db, proc, daemon, disp, task, half, answer, outages>>

-----------------------------------------------------------------------------
DispatcherStep ==
  \/ \E i \in Issues : RejectInFlight(i) \/ RejectOverCap(i) \/ AcceptCollides(i)
  \/ \E s \in Sessions, i \in Issues : Accept(s, i)
  \/ ReplySent
  \/ TopicCreated
  \/ TopicFails
  \/ HandOff

WorkerStep(s) ==
  \/ WorktreeAdded(s)
  \/ WorktreeFails(s)
  \/ Spawned(s)
  \/ SpawnFails(s)
  \/ Reaped(s)
  \/ \E outcome \in Terminal : Classified(s, outcome)
  \/ DrainOverruns(s)
  \/ OutcomePosted(s)
  \/ WorktreeRemoved(s)

DaemonStep ==
  \/ Start
  \/ \E s \in Sessions : RecoverRow(s)
  \/ RecoveryDone
  \/ ReleaseHalf
  \/ Stop
  \/ StopCompletes
  \/ Crash

Next ==
  \/ DispatcherStep
  \/ \E s \in Sessions : WorkerStep(s) \/ ProcessExits(s)
  \/ DaemonStep
  \/ \E i \in Issues : OperatorPrunes(i)

Spec == Init /\ [][Next]_vars

\* The coroutines and the restart after a crash are scheduled: the event loop
\* runs every ready coroutine, Telegram calls and git end (the HTTP client and
\* the session timeout bound them), launchd relaunches a crashed daemon.
\* Nobody is obliged to start a stopped daemon, to trigger or to prune.
Fairness ==
  /\ WF_vars(ReplySent)
  /\ WF_vars(TopicCreated \/ TopicFails)
  /\ WF_vars(HandOff)
  /\ WF_vars(ReleaseHalf)
  /\ WF_vars(daemon = "crashed" /\ Start)
  /\ WF_vars(RecoveryDone)
  /\ \A s \in Sessions : /\ WF_vars(RecoverRow(s))
                         /\ WF_vars(WorkerStep(s))
                         /\ WF_vars(ProcessExits(s))

FairSpec == Spec /\ Fairness

-----------------------------------------------------------------------------
(***************************************************************************)
(* Properties.                                                             *)
(***************************************************************************)
\* Every variable has its type; status obeys the CHECK of the schema
\* (migrations/V0001__init.sql).
TypeOK ==
  /\ status \in [Sessions -> {"absent", "enqueued", "starting", "running",
                             "pr_created", "completed", "failed", "canceled"}]
  /\ issueOf \in [Sessions -> Issues \cup {NoIssue}]
  /\ lock \in [Issues -> Sessions \cup {NoSession}]
  /\ worktree \in SUBSET Issues
  /\ branch \in SUBSET Issues
  /\ proc \in [Sessions -> {"none", "alive", "dead"}]
  /\ daemon \in {"stopped", "crashed", "recovering", "up", "draining"}
  /\ disp \in [at : {"idle", "reply", "forum", "announce"},
               session : Sessions \cup {NoSession}]
  /\ task \in [Sessions -> {"none", "adding", "announcing", "waiting",
                           "draining", "posting", "removing", "died"}]
  /\ half \in Sessions \cup {NoSession}
  /\ answer \in {"none", "in_flight", "cap", "accepted", "lost", "topic_failed"}
  /\ outages \in Nat

\* A row has an issue from the moment it exists.
RowsHaveIssue == \A s \in Sessions : status[s] = "absent" <=> issueOf[s] = NoIssue

\* A non-terminal row holds the lock of its issue, in every committed state.
ActiveHoldsLock == \A s \in Sessions : Active(s) => lock[issueOf[s]] = s

\* A lock row names a session of that very issue.
LockNamesItsIssue ==
  \A i \in Issues : lock[i] # NoSession => issueOf[lock[i]] = i

\* Whoever is about to run DELETE FROM locks still holds the row it deletes:
\* the statement names the issue only and would take any holder's row.
ReleaserHoldsLock ==
  /\ half # NoSession => /\ status[half] \in Terminal
                         /\ task[half] = "none"
                         /\ lock[issueOf[half]] = half
  /\ \A s \in Sessions : task[s] = "posting" => lock[issueOf[s]] = s

\* Where a worker coroutine is suspended tells the status of its row.
TaskMatchesStatus == \A s \in Sessions :
  /\ task[s] = "adding" => status[s] = "starting"
  /\ task[s] \in {"announcing", "waiting", "draining", "died"}
       => status[s] = "running"
  /\ task[s] \in {"posting", "removing"} => status[s] \in Terminal

\* Where the dispatcher is suspended tells the status of the row it opened,
\* which has no worker coroutine yet.
DispMatchesStatus ==
  /\ disp.at \in {"idle", "reply"} => disp.session = NoSession
  /\ disp.at = "forum" => /\ disp.session \in Sessions
                          /\ status[disp.session] = "enqueued"
                          /\ task[disp.session] = "none"
  /\ disp.at = "announce" => /\ disp.session \in Sessions
                             /\ status[disp.session] = "starting"
                             /\ task[disp.session] = "none"

\* No coroutine survives the daemon, and none runs before recovery is over.
MemoryFollowsDaemon ==
  /\ daemon # "up" => disp = Idle
  /\ daemon \in {"stopped", "crashed", "recovering"}
       => \A s \in Sessions : task[s] = "none"
  /\ daemon \in {"stopped", "crashed"} => half = NoSession

\* The inductive invariant of the lock protocol.
LockInv ==
  /\ TypeOK
  /\ RowsHaveIssue
  /\ ActiveHoldsLock
  /\ LockNamesItsIssue
  /\ ReleaserHoldsLock
  /\ TaskMatchesStatus
  /\ DispMatchesStatus
  /\ MemoryFollowsDaemon

\* At most one non-terminal session per issue, whatever crashes in between
\* (Constitution III; get_active_session_for_issue and the locks table).
OneSessionPerIssue ==
  \A i \in Issues : \A s, t \in ActiveFor(i) : s = t

\* count_active_sessions is checked before every insert: the number of
\* non-terminal sessions never exceeds agent.max_concurrent.
CapRespected == Cardinality(ActiveSessions) <= MaxConcurrent

\* At most one worker process is alive per issue, orphans of a crashed daemon
\* included, and its worktree is never removed under it: the leftover worktree
\* and branch keep a second worker from starting.
OneWorkerPerIssue ==
  \A s \in Sessions : proc[s] = "alive" =>
    /\ issueOf[s] \in worktree
    /\ \A t \in Sessions : proc[t] = "alive" /\ issueOf[t] = issueOf[s] => s = t

\* A session occupies the worktree of its issue from its creation on, while a
\* coroutine goes on with it or a process, perhaps an orphan, works in it.
Occupies(s) ==
  \/ proc[s] = "alive"
  \/ task[s] \in {"announcing", "waiting", "draining", "posting", "removing"}

\* The inductive invariant behind the property above.
WorktreeInv ==
  /\ \A s \in Sessions : Occupies(s) => issueOf[s] \in worktree \cap branch
  /\ \A s, t \in Sessions :
       Occupies(s) /\ Occupies(t) /\ issueOf[s] = issueOf[t] => s = t
  /\ \A s \in Sessions :
       /\ task[s] \in {"draining", "posting", "removing"} => proc[s] = "dead"
       /\ status[s] = "absent" => proc[s] = "none"

\* While the daemon serves, a non-terminal row belongs to the dispatcher or to
\* a worker coroutine, except where a coroutine died of an exception.
ActiveIsOwned ==
  daemon = "up" => \A s \in Sessions :
    Active(s) => disp.session = s \/ TaskAlive(s) \/ task[s] = "died"

\* The session that holds the lock row of the issue has ended, and no coroutine
\* is about to delete the row.
LeftBehind(i) ==
  /\ lock[i] # NoSession /\ ~Active(lock[i])
  /\ half # lock[i] /\ task[lock[i]] # "posting"

\* A lock row disappears only after its holder has ended, and never passes
\* from one session to another in one step.  It is left behind only when the
\* daemon goes down between the two commits of a session, and then for good.
LocksFollowSessions ==
  [][\A i \in Issues :
       /\ lock[i] # NoSession /\ lock'[i] # lock[i]
            => lock'[i] = NoSession /\ status[lock[i]] \in Terminal
       /\ LeftBehind(i) => LeftBehind(i)'
       /\ LeftBehind(i)' => LeftBehind(i) \/ daemon' \in {"stopped", "crashed"}]_vars

\* How far a session is from its end: the awaits of the dispatcher and of the
\* worker coroutine that lie before it, an open row without a coroutine, and the
\* release and the cleanup that follow the terminal status.
StepsLeft(s) ==
  CASE disp.session = s /\ disp.at = "forum"         -> 10
    [] disp.session = s /\ disp.at = "announce"      -> 9
    [] task[s] = "adding"                            -> 8
    [] task[s] = "announcing"                        -> 7
    [] task[s] = "waiting" /\ proc[s] = "alive"      -> 6
    [] task[s] = "waiting" /\ proc[s] # "alive"      -> 5
    [] task[s] = "draining"                          -> 4
    [] task[s] = "posting"                           -> 2
    [] task[s] = "removing" \/ half = s              -> 1
    [] OTHER                                         -> IF Active(s) THEN 3 ELSE 0

\* A session only moves towards its end, through crashes, recoveries and stops
\* too, and each step of its coroutine and each change of its status brings it
\* nearer.
SessionsAdvance ==
  [][\A s \in Sessions : status[s] # "absent" =>
       /\ StepsLeft(s)' <= StepsLeft(s)
       /\ WorkerStep(s) \/ status'[s] # status[s]
            => StepsLeft(s)' < StepsLeft(s)]_vars

\* An ended session is never touched again, not even by recovery.
EndedIsFinal ==
  [][\A s \in Sessions : status[s] \in {"pr_created", "completed", "failed", "canceled"}
       => status'[s] = status[s]]_vars

\* The sessions and their issues implement the slots of IssueSlots.
OpenPairs == {<<s, issueOf[s]>> : s \in ActiveSessions}
Slots == INSTANCE IssueSlots
           WITH Capacity <- MaxConcurrent,
                open     <- OpenPairs,
                closed   <- {s \in Sessions : status[s] \in Terminal}
ImplementsSlots == Slots!Spec

\* An accepted session ends, through crashes and relaunches, unless its
\* coroutine died or the operator stops the daemon and leaves it stopped.
ActiveEnds ==
  \A s \in Sessions :
    Active(s) ~> (~Active(s) \/ task[s] = "died" \/ daemon = "stopped")

-----------------------------------------------------------------------------
\* sessions.py:67: the lock is dropped once the session is terminal; so a
\* lock row whose session has no coroutine left is of a non-terminal session.
NoLockLeaks ==
  daemon = "up" /\ half = NoSession =>
    \A i \in Issues :
      lock[i] # NoSession /\ task[lock[i]] = "none" => Active(lock[i])

=============================================================================
