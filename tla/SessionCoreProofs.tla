-------------------------- MODULE SessionCoreProofs --------------------------
(***************************************************************************)
(* Proofs about SessionCore, for every set of sessions and issues and      *)
(* every MaxConcurrent and MaxOutages.                                     *)
(***************************************************************************)
EXTENDS SessionCore, FiniteSetTheorems, TLAPS

\* An empty database satisfies the lock invariant.
LEMMA InitLockInv == Init => LockInv
  BY SessionCoreAssumption
  DEF Init, LockInv, TypeOK, RowsHaveIssue, ActiveHoldsLock, LockNamesItsIssue,
      ReleaserHoldsLock, TaskMatchesStatus, DispMatchesStatus,
      MemoryFollowsDaemon, Active, NonTerminal, Terminal, Idle

\* The dispatcher's steps (accept, collide, topic, hand-off) keep LockInv.
LEMMA DispatcherStepLockInv ==
  ASSUME LockInv, DispatcherStep
  PROVE  LockInv'
<1> USE SessionCoreAssumption DEF NonTerminal, Terminal, Active
<1> USE DEF LockInv, TypeOK, RowsHaveIssue, ActiveHoldsLock, LockNamesItsIssue,
            ReleaserHoldsLock, TaskMatchesStatus, DispMatchesStatus,
            MemoryFollowsDaemon, Idle, db, git, LoopFree
<1>1. ASSUME NEW i \in Issues, RejectInFlight(i) PROVE LockInv'
  BY <1>1 DEF RejectInFlight, Accepting
<1>2. ASSUME NEW i \in Issues, RejectOverCap(i) PROVE LockInv'
  BY <1>2 DEF RejectOverCap, Accepting
<1>3. ASSUME NEW i \in Issues, AcceptCollides(i) PROVE LockInv'
  BY <1>3 DEF AcceptCollides, Accepting
<1>4. ASSUME NEW s \in Sessions, NEW i \in Issues, Accept(s, i) PROVE LockInv'
  BY <1>4 DEF Accept, Accepting, InsertAndLock
<1>5. CASE ReplySent
  BY <1>5 DEF ReplySent
<1>6. CASE TopicCreated
  BY <1>6 DEF TopicCreated, Transition
<1>7. CASE TopicFails
  BY <1>7 DEF TopicFails, Transition
<1>8. CASE HandOff
  BY <1>8 DEF HandOff
<1>9. QED
  BY <1>1, <1>2, <1>3, <1>4, <1>5, <1>6, <1>7, <1>8 DEF DispatcherStep

\* The awaits of run_worker keep LockInv: each releases its own lock, once.
LEMMA WorkerStepLockInv ==
  ASSUME LockInv, NEW s \in Sessions, WorkerStep(s) \/ ProcessExits(s)
  PROVE  LockInv'
<1> USE SessionCoreAssumption DEF NonTerminal, Terminal, Active
<1> USE DEF LockInv, TypeOK, RowsHaveIssue, ActiveHoldsLock, LockNamesItsIssue,
            ReleaserHoldsLock, TaskMatchesStatus, DispMatchesStatus,
            MemoryFollowsDaemon, Idle, db, git, LoopFree, Working
<1>1. CASE WorktreeAdded(s)
  BY <1>1 DEF WorktreeAdded, Transition
<1>2. CASE WorktreeFails(s)
  BY <1>2 DEF WorktreeFails, Transition
<1>3. CASE Spawned(s)
  BY <1>3 DEF Spawned
<1>4. CASE SpawnFails(s)
  BY <1>4 DEF SpawnFails
<1>5. CASE Reaped(s)
  BY <1>5 DEF Reaped
<1>6. ASSUME NEW outcome \in Terminal, Classified(s, outcome) PROVE LockInv'
  BY <1>6 DEF Classified, Transition
<1>7. CASE DrainOverruns(s)
  BY <1>7 DEF DrainOverruns
<1>8. CASE OutcomePosted(s)
  BY <1>8 DEF OutcomePosted, ReleaseIssueLock
<1>9. CASE WorktreeRemoved(s)
  BY <1>9 DEF WorktreeRemoved
<1>10. CASE ProcessExits(s)
  BY <1>10 DEF ProcessExits
<1>11. QED
  BY <1>1, <1>2, <1>3, <1>4, <1>5, <1>6, <1>7, <1>8, <1>9, <1>10 DEF WorkerStep

\* Start, recovery, release, stop and crash keep LockInv.
LEMMA DaemonStepLockInv ==
  ASSUME LockInv, DaemonStep
  PROVE  LockInv'
<1> USE SessionCoreAssumption DEF NonTerminal, Terminal, Active
<1> USE DEF LockInv, TypeOK, RowsHaveIssue, ActiveHoldsLock, LockNamesItsIssue,
            ReleaserHoldsLock, TaskMatchesStatus, DispMatchesStatus,
            MemoryFollowsDaemon, Idle, db, git, LoopFree
<1>1. CASE Start
  BY <1>1 DEF Start
<1>2. ASSUME NEW s \in Sessions, RecoverRow(s) PROVE LockInv'
  BY <1>2 DEF RecoverRow
<1>3. CASE RecoveryDone
  BY <1>3 DEF RecoveryDone
<1>4. CASE ReleaseHalf
  BY <1>4 DEF ReleaseHalf, ReleaseIssueLock
<1>5. CASE Stop
  BY <1>5 DEF Stop, Accepting
<1>6. CASE StopCompletes
  BY <1>6 DEF StopCompletes, ForgetMemory
<1>7. CASE Crash
  BY <1>7 DEF Crash, ForgetMemory
<1>8. QED
  BY <1>1, <1>2, <1>3, <1>4, <1>5, <1>6, <1>7 DEF DaemonStep

\* LockInv is inductive.
LEMMA NextLockInv == LockInv /\ [Next]_vars => LockInv'
<1> SUFFICES ASSUME LockInv, [Next]_vars PROVE LockInv'
  OBVIOUS
<1>1. CASE DispatcherStep
  BY <1>1, DispatcherStepLockInv
<1>2. ASSUME NEW s \in Sessions, WorkerStep(s) \/ ProcessExits(s) PROVE LockInv'
  BY <1>2, WorkerStepLockInv
<1>3. CASE DaemonStep
  BY <1>3, DaemonStepLockInv
<1>4. ASSUME NEW i \in Issues, OperatorPrunes(i) PROVE LockInv'
  BY <1>4 DEF OperatorPrunes, db, LockInv, TypeOK, RowsHaveIssue, ActiveHoldsLock,
     LockNamesItsIssue, ReleaserHoldsLock, TaskMatchesStatus, DispMatchesStatus,
     MemoryFollowsDaemon, Active
<1>5. CASE UNCHANGED vars
  BY <1>5 DEF vars, LockInv, TypeOK, RowsHaveIssue, ActiveHoldsLock,
     LockNamesItsIssue, ReleaserHoldsLock, TaskMatchesStatus, DispMatchesStatus,
     MemoryFollowsDaemon, Active
<1>6. QED
  BY <1>1, <1>2, <1>3, <1>4, <1>5 DEF Next

\* The lock protocol: in every reachable state, whatever the interleaving, the
\* crashes and the restarts, a non-terminal row holds the lock of its issue and
\* whoever deletes a lock row deletes its own.
THEOREM LockInvariant == Spec => []LockInv
<1>1. QED
  BY InitLockInv, NextLockInv, PTL DEF Spec

\* One non-terminal session per issue.
THEOREM SessionsExclusive == Spec => []OneSessionPerIssue
<1>1. LockInv => OneSessionPerIssue
  BY DEF LockInv, ActiveHoldsLock, OneSessionPerIssue, ActiveFor, ActiveSessions
<1>2. QED
  BY <1>1, LockInvariant, PTL

-----------------------------------------------------------------------------
\* No worktree, no worker: WorktreeInv holds initially.
LEMMA InitWorktreeInv == Init => WorktreeInv
  BY DEF Init, WorktreeInv, Occupies

\* WorktreeInv is inductive relative to LockInv: git worktree add is refused
\* while somebody occupies the worktree of the issue.
LEMMA NextWorktreeInv ==
  ASSUME LockInv, WorktreeInv, [Next]_vars
  PROVE  WorktreeInv'
<1> USE DEF LockInv, TypeOK, WorktreeInv, Occupies, db, git
<1>1. ASSUME NEW s \in Sessions, NEW i \in Issues, Accept(s, i) PROVE WorktreeInv'
  BY <1>1 DEF Accept, InsertAndLock, TaskMatchesStatus, Terminal
<1>2. ASSUME NEW s \in Sessions, WorktreeAdded(s) PROVE WorktreeInv'
  BY <1>2 DEF WorktreeAdded, CanAddWorktree, Transition
<1>3. ASSUME NEW s \in Sessions, Spawned(s) PROVE WorktreeInv'
  BY <1>3 DEF Spawned, TaskMatchesStatus
<1>4. ASSUME NEW s \in Sessions, WorktreeRemoved(s) PROVE WorktreeInv'
  BY <1>4 DEF WorktreeRemoved
<1>5. CASE ForgetMemory /\ UNCHANGED <<db, proc>>
  BY <1>5 DEF ForgetMemory, CanAddWorktree
<1>6. ASSUME NEW i \in Issues, OperatorPrunes(i) PROVE WorktreeInv'
  BY <1>6 DEF OperatorPrunes, TaskAlive
<1>7. CASE HandOff
  BY <1>7 DEF HandOff, DispMatchesStatus
<1>8. ASSUME NEW s \in Sessions,
             WorktreeFails(s) \/ SpawnFails(s) \/ ProcessExits(s) \/ Reaped(s)
               \/ DrainOverruns(s) \/ OutcomePosted(s)
      PROVE  WorktreeInv'
  BY <1>8 DEF WorktreeFails, SpawnFails, ProcessExits, Reaped, DrainOverruns,
              OutcomePosted, Transition
<1>9. ASSUME NEW s \in Sessions, NEW outcome \in Terminal, Classified(s, outcome)
      PROVE  WorktreeInv'
  BY <1>9 DEF Classified, Transition, Terminal
<1>10. ASSUME NEW s \in Sessions, RecoverRow(s) PROVE WorktreeInv'
  BY <1>10 DEF RecoverRow, Active, NonTerminal
<1>11. CASE TopicCreated \/ TopicFails
  BY <1>11 DEF TopicCreated, TopicFails, Transition, DispMatchesStatus
<1>12. CASE UNCHANGED <<status, issueOf, worktree, branch, proc, task>>
  BY <1>12
<1>13. QED
  BY <1>1, <1>2, <1>3, <1>4, <1>5, <1>6, <1>7, <1>8, <1>9, <1>10, <1>11, <1>12
  DEF Next, vars, DispatcherStep, WorkerStep, DaemonStep, RejectInFlight,
      RejectOverCap, AcceptCollides, ReplySent, Start, RecoveryDone, Stop,
      StopCompletes, Crash, ReleaseHalf

\* Two workers never share an issue, and none loses its worktree, orphans of
\* earlier daemons included.
THEOREM WorkersIsolated == Spec => []OneWorkerPerIssue
<1>1. WorktreeInv => OneWorkerPerIssue
  BY DEF WorktreeInv, Occupies, OneWorkerPerIssue
<1>2. QED
  BY <1>1, InitWorktreeInv, NextWorktreeInv, LockInvariant, PTL DEF Spec

-----------------------------------------------------------------------------
\* What a step does to the rows: it opens a session within the limit, closes
\* one, or leaves the ended ones and the set of active ones as they are.
OpensSession(s, i) ==
  /\ status[s] = "absent"
  /\ ActiveFor(i) = {}
  /\ Cardinality(ActiveSessions) < MaxConcurrent
  /\ status' = [status EXCEPT ![s] = "enqueued"]
  /\ issueOf' = [issueOf EXCEPT ![s] = i]

ClosesSession(s) ==
  /\ Active(s)
  /\ \E outcome \in Terminal : status' = [status EXCEPT ![s] = outcome]
  /\ issueOf' = issueOf

AdvancesSessions ==
  /\ \A s \in Sessions : Active(s) <=> Active(s)'
  /\ \A s \in Sessions : ~Active(s) => status'[s] = status[s]
  /\ issueOf' = issueOf

\* Every step leaves the rows alone, opens one session, moves one on, or ends one.
LEMMA StepOnSessions ==
  ASSUME LockInv, [Next]_vars
  PROVE  \/ \E s \in Sessions, i \in Issues : OpensSession(s, i)
         \/ \E s \in Sessions : ClosesSession(s)
         \/ AdvancesSessions
<1> USE DEF LockInv, TypeOK, Active, NonTerminal, Terminal, db
<1>1. ASSUME NEW s \in Sessions, NEW i \in Issues, Accept(s, i)
      PROVE  OpensSession(s, i)
  BY <1>1 DEF Accept, Admissible, InsertAndLock, OpensSession
<1>2. CASE TopicCreated
  BY <1>2 DEF TopicCreated, Transition, DispMatchesStatus, AdvancesSessions
<1>3. CASE TopicFails
  BY <1>3 DEF TopicFails, Transition, DispMatchesStatus, ClosesSession
<1>4. ASSUME NEW s \in Sessions, WorktreeAdded(s) PROVE AdvancesSessions
  BY <1>4 DEF WorktreeAdded, Transition, AdvancesSessions
<1>5. ASSUME NEW s \in Sessions, WorktreeFails(s) PROVE ClosesSession(s)
  BY <1>5 DEF WorktreeFails, Transition, ClosesSession
<1>6. ASSUME NEW s \in Sessions, NEW outcome \in Terminal, Classified(s, outcome)
      PROVE  ClosesSession(s)
  BY <1>6 DEF Classified, Transition, ClosesSession
<1>7. ASSUME NEW s \in Sessions, RecoverRow(s) PROVE ClosesSession(s)
  BY <1>7 DEF RecoverRow, ClosesSession
<1>8. CASE UNCHANGED <<status, issueOf>>
  BY <1>8 DEF AdvancesSessions
<1>9. QED
  BY <1>1, <1>2, <1>3, <1>4, <1>5, <1>6, <1>7, <1>8
  DEF Next, vars, DispatcherStep, WorkerStep, DaemonStep, RejectInFlight,
      RejectOverCap, AcceptCollides, ReplySent, HandOff, Spawned, SpawnFails,
      Reaped, DrainOverruns, OutcomePosted, WorktreeRemoved, ProcessExits,
      Start, RecoveryDone, ReleaseHalf, Stop, StopCompletes, Crash,
      OperatorPrunes

\* The same three cases, for the set of active sessions.
LEMMA StepOnActiveSet ==
  ASSUME LockInv
  PROVE  /\ \A s \in Sessions, i \in Issues : OpensSession(s, i)
              => s \notin ActiveSessions /\ ActiveSessions' = ActiveSessions \cup {s}
         /\ \A s \in Sessions : ClosesSession(s)
              => s \in ActiveSessions /\ ActiveSessions' = ActiveSessions \ {s}
         /\ AdvancesSessions => ActiveSessions' = ActiveSessions
  BY DEF LockInv, TypeOK, ActiveSessions, Active, NonTerminal, Terminal,
         OpensSession, ClosesSession, AdvancesSessions

\* An ended session is never touched again.
THEOREM EndedStaysEnded == Spec => EndedIsFinal
<1>1. ASSUME LockInv, [Next]_vars
      PROVE  \A s \in Sessions :
               status[s] \in {"pr_created", "completed", "failed", "canceled"}
                 => status'[s] = status[s]
  BY <1>1, StepOnSessions
  DEF OpensSession, ClosesSession, AdvancesSessions, LockInv, TypeOK, Active,
      NonTerminal
<1>2. QED
  BY <1>1, LockInvariant, PTL DEF Spec, EndedIsFinal

-----------------------------------------------------------------------------
\* A lock row is deleted only for a session that has ended.
LEMMA StepReleases ==
  ASSUME LockInv, [Next]_vars, NEW i \in Issues,
         lock[i] # NoSession, lock'[i] # lock[i]
  PROVE  lock'[i] = NoSession /\ status[lock[i]] \in Terminal
<1> USE DEF LockInv, TypeOK, db
<1>1. ASSUME NEW s \in Sessions, NEW j \in Issues, Accept(s, j) PROVE FALSE
  BY <1>1 DEF Accept, InsertAndLock
<1>2. CASE ReleaseHalf
  BY <1>2 DEF ReleaseHalf, ReleaseIssueLock, ReleaserHoldsLock
<1>3. ASSUME NEW s \in Sessions, OutcomePosted(s)
      PROVE  lock'[i] = NoSession /\ status[lock[i]] \in Terminal
  BY <1>3 DEF OutcomePosted, ReleaseIssueLock, ReleaserHoldsLock, TaskMatchesStatus
<1>4. QED
  BY <1>1, <1>2, <1>3
  DEF Next, vars, DispatcherStep, WorkerStep, DaemonStep, RejectInFlight,
      RejectOverCap, AcceptCollides, ReplySent, TopicCreated, TopicFails,
      HandOff, WorktreeAdded, WorktreeFails, Spawned, SpawnFails, Reaped,
      Classified, DrainOverruns, WorktreeRemoved, ProcessExits, Start,
      RecoverRow, RecoveryDone, Stop, StopCompletes, Crash, OperatorPrunes

\* A lock row that is left behind stays: nobody who deletes one holds it.
LEMMA StepKeepsLeftBehind ==
  ASSUME LockInv, [Next]_vars, NEW i \in Issues, LeftBehind(i)
  PROVE  LeftBehind(i)'
<1> USE SessionCoreAssumption DEF LockInv, TypeOK, db, LeftBehind
<1> DEFINE holder == lock[i]
<1>1. holder \in Sessions /\ ~Active(holder) /\ status[holder] # "absent"
  BY DEF LockNamesItsIssue, RowsHaveIssue
<1>2. lock'[i] = holder
  <2>1. ASSUME NEW s \in Sessions, NEW j \in Issues, Accept(s, j) PROVE lock'[i] = holder
    BY <2>1 DEF Accept, InsertAndLock
  <2>2. CASE ReleaseHalf
    BY <2>2 DEF ReleaseHalf, ReleaseIssueLock, ReleaserHoldsLock
  <2>3. ASSUME NEW s \in Sessions, OutcomePosted(s) PROVE lock'[i] = holder
    BY <2>3 DEF OutcomePosted, ReleaseIssueLock, ReleaserHoldsLock
  <2>4. QED
    BY <2>1, <2>2, <2>3
    DEF Next, vars, DispatcherStep, WorkerStep, DaemonStep, RejectInFlight,
        RejectOverCap, AcceptCollides, ReplySent, TopicCreated, TopicFails,
        HandOff, WorktreeAdded, WorktreeFails, Spawned, SpawnFails, Reaped,
        Classified, DrainOverruns, WorktreeRemoved, ProcessExits, Start,
        RecoverRow, RecoveryDone, Stop, StopCompletes, Crash, OperatorPrunes
<1>3. ~Active(holder)'
  <2>1. ASSUME NEW s \in Sessions, NEW j \in Issues, OpensSession(s, j)
        PROVE  status'[holder] = status[holder]
    BY <1>1, <2>1 DEF OpensSession
  <2>2. ASSUME NEW s \in Sessions, ClosesSession(s)
        PROVE  status'[holder] = status[holder]
    BY <1>1, <2>2 DEF ClosesSession
  <2>3. ASSUME AdvancesSessions PROVE status'[holder] = status[holder]
    BY <1>1, <2>3 DEF AdvancesSessions
  <2>4. status'[holder] = status[holder]
    BY <2>1, <2>2, <2>3, StepOnSessions
  <2>5. QED
    BY <1>1, <1>2, <2>4 DEF Active
<1>4. half' # holder /\ task'[holder] # "posting"
  BY <1>1
  DEF Next, vars, DispatcherStep, WorkerStep, DaemonStep, RejectInFlight,
      RejectOverCap, AcceptCollides, Accept, ReplySent, TopicCreated, TopicFails,
      HandOff, WorktreeAdded, WorktreeFails, Spawned, SpawnFails, Reaped,
      Classified, DrainOverruns, OutcomePosted, WorktreeRemoved, ProcessExits,
      Start, RecoverRow, RecoveryDone, ReleaseHalf, Stop, StopCompletes, Crash,
      ForgetMemory, OperatorPrunes, Transition, Active, NonTerminal,
      TaskMatchesStatus, DispMatchesStatus
<1>5. QED
  BY <1>1, <1>2, <1>3, <1>4

\* Whoever ends a session is about to delete its lock row, and only the end of
\* the daemon keeps him from it.
LEMMA StepLeavesBehind ==
  ASSUME LockInv, [Next]_vars, NEW i \in Issues, ~LeftBehind(i), LeftBehind(i)'
  PROVE  daemon' \in {"stopped", "crashed"}
<1> USE SessionCoreAssumption
    DEF LockInv, TypeOK, RowsHaveIssue, ActiveHoldsLock, LockNamesItsIssue,
        ReleaserHoldsLock, TaskMatchesStatus, DispMatchesStatus, db, git, LoopFree,
        LeftBehind, Active, NonTerminal, Terminal
<1>1. CASE DispatcherStep
  <2>1. ASSUME NEW j \in Issues,
               RejectInFlight(j) \/ RejectOverCap(j) \/ AcceptCollides(j)
        PROVE  FALSE
    BY <2>1 DEF RejectInFlight, RejectOverCap, AcceptCollides
  <2>2. ASSUME NEW s \in Sessions, NEW j \in Issues, Accept(s, j) PROVE FALSE
    BY <2>2 DEF Accept, InsertAndLock
  <2>3. CASE ReplySent \/ HandOff
    BY <2>3 DEF ReplySent, HandOff
  <2>4. CASE TopicCreated
    BY <2>4 DEF TopicCreated, Transition
  <2>5. CASE TopicFails
    BY <2>5 DEF TopicFails, Transition
  <2>6. QED
    BY <1>1, <2>1, <2>2, <2>3, <2>4, <2>5 DEF DispatcherStep
<1>2. ASSUME NEW s \in Sessions, WorkerStep(s) \/ ProcessExits(s) PROVE FALSE
  <2> USE DEF Working
  <2>1. CASE WorktreeAdded(s)
    BY <2>1 DEF WorktreeAdded, Transition
  <2>2. CASE WorktreeFails(s)
    BY <2>2 DEF WorktreeFails, Transition
  <2>3. CASE Spawned(s) \/ SpawnFails(s) \/ Reaped(s) \/ DrainOverruns(s)
    BY <2>3 DEF Spawned, SpawnFails, Reaped, DrainOverruns
  <2>4. ASSUME NEW outcome \in Terminal, Classified(s, outcome) PROVE FALSE
    BY <2>4 DEF Classified, Transition
  <2>5. CASE OutcomePosted(s)
    BY <2>5 DEF OutcomePosted, ReleaseIssueLock
  <2>6. CASE WorktreeRemoved(s)
    BY <2>6 DEF WorktreeRemoved
  <2>7. CASE ProcessExits(s)
    BY <2>7 DEF ProcessExits
  <2>8. QED
    BY <1>2, <2>1, <2>2, <2>3, <2>4, <2>5, <2>6, <2>7 DEF WorkerStep
<1>3. CASE DaemonStep
  <2>1. CASE Start \/ RecoveryDone \/ Stop
    BY <2>1 DEF Start, RecoveryDone, Stop
  <2>2. ASSUME NEW s \in Sessions, RecoverRow(s) PROVE FALSE
    BY <2>2 DEF RecoverRow
  <2>3. CASE ReleaseHalf
    BY <2>3 DEF ReleaseHalf, ReleaseIssueLock
  <2>4. CASE StopCompletes \/ Crash
    BY <2>4 DEF StopCompletes, Crash
  <2>5. QED
    BY <1>3, <2>1, <2>2, <2>3, <2>4 DEF DaemonStep
<1>4. CASE UNCHANGED vars \/ \E j \in Issues : OperatorPrunes(j)
  BY <1>4 DEF vars, OperatorPrunes
<1>5. QED
  BY <1>1, <1>2, <1>3, <1>4 DEF Next

\* A lock row goes with the end of its session; it is left behind only when the
\* daemon goes down between the two commits, and is never deleted then.
THEOREM LocksFollowSessionsAlways == Spec => LocksFollowSessions
<1>1. ASSUME LockInv, [Next]_vars
      PROVE  \A i \in Issues :
               /\ lock[i] # NoSession /\ lock'[i] # lock[i]
                    => lock'[i] = NoSession /\ status[lock[i]] \in Terminal
               /\ LeftBehind(i) => LeftBehind(i)'
               /\ LeftBehind(i)' => LeftBehind(i) \/ daemon' \in {"stopped", "crashed"}
  BY <1>1, StepReleases, StepKeepsLeftBehind, StepLeavesBehind
<1>2. QED
  BY <1>1, LockInvariant, PTL DEF Spec, LocksFollowSessions

-----------------------------------------------------------------------------
\* Every step of a session's own coroutine brings the session nearer its end.
LEMMA WorkerStepNearer ==
  ASSUME LockInv, NEW s \in Sessions, WorkerStep(s)
  PROVE  StepsLeft(s)' < StepsLeft(s)
<1> USE SessionCoreAssumption
    DEF LockInv, TypeOK, ReleaserHoldsLock, TaskMatchesStatus, DispMatchesStatus,
        db, git, LoopFree, Working, StepsLeft, Active, NonTerminal, Terminal
<1>1. CASE WorktreeAdded(s)
  BY <1>1 DEF WorktreeAdded, Transition
<1>2. CASE WorktreeFails(s)
  BY <1>2 DEF WorktreeFails, Transition
<1>3. CASE Spawned(s)
  BY <1>3 DEF Spawned
<1>4. CASE SpawnFails(s)
  BY <1>4 DEF SpawnFails
<1>5. CASE Reaped(s)
  BY <1>5 DEF Reaped
<1>6. ASSUME NEW outcome \in Terminal, Classified(s, outcome)
      PROVE  StepsLeft(s)' < StepsLeft(s)
  BY <1>6 DEF Classified, Transition
<1>7. CASE DrainOverruns(s)
  BY <1>7 DEF DrainOverruns
<1>8. CASE OutcomePosted(s)
  BY <1>8 DEF OutcomePosted
<1>9. CASE WorktreeRemoved(s)
  BY <1>9 DEF WorktreeRemoved
<1>10. QED
  BY <1>1, <1>2, <1>3, <1>4, <1>5, <1>6, <1>7, <1>8, <1>9 DEF WorkerStep

\* No other step takes the session back, and those that change its status, by
\* the dispatcher or by recovery, bring it nearer its end too.
NotBack(s) ==
  /\ StepsLeft(s)' <= StepsLeft(s)
  /\ status'[s] # status[s] => StepsLeft(s)' < StepsLeft(s)

\* A step that touches nothing of the session leaves it where it is.
LEMMA UntouchedNotBack ==
  ASSUME NEW s \in Sessions, disp'.session = s <=> disp.session = s,
         disp.session = s => disp' = disp,
         status'[s] = status[s], task'[s] = task[s], proc'[s] = proc[s],
         half' = s <=> half = s
  PROVE  NotBack(s)
  BY DEF NotBack, StepsLeft, Active, NonTerminal

\* The steps of the dispatcher.
LEMMA DispatcherStepNearer ==
  ASSUME LockInv, DispatcherStep, NEW s \in Sessions, status[s] # "absent"
  PROVE  NotBack(s)
<1> USE SessionCoreAssumption
    DEF LockInv, TypeOK, ReleaserHoldsLock, TaskMatchesStatus, DispMatchesStatus,
        db, git, LoopFree
<1>1. ASSUME NEW i \in Issues,
             RejectInFlight(i) \/ RejectOverCap(i) \/ AcceptCollides(i)
      PROVE  NotBack(s)
  BY <1>1, UntouchedNotBack
  DEF RejectInFlight, RejectOverCap, AcceptCollides, Accepting, Idle
<1>2. ASSUME NEW t \in Sessions, NEW i \in Issues, Accept(t, i) PROVE NotBack(s)
  BY <1>2, UntouchedNotBack DEF Accept, Accepting, Idle, InsertAndLock
<1>3. CASE ReplySent
  BY <1>3, UntouchedNotBack DEF ReplySent, Idle
<1>4. CASE TopicCreated
  <2>1. CASE disp.session = s
    BY <1>4, <2>1
    DEF TopicCreated, Transition, NotBack, StepsLeft, Active, NonTerminal, Terminal
  <2>2. CASE disp.session # s
    BY <1>4, <2>2, UntouchedNotBack DEF TopicCreated, Transition
  <2>3. QED
    BY <2>1, <2>2
<1>5. CASE TopicFails
  <2>1. CASE disp.session = s
    <3>1. StepsLeft(s) = 10
      BY <1>5, <2>1 DEF TopicFails, StepsLeft
    <3>2. /\ disp'.session # s /\ disp'.at = "reply"
          /\ task'[s] = "none" /\ half' = s
      BY <1>5, <2>1 DEF TopicFails
    <3>3. StepsLeft(s)' = 1
      BY <3>2 DEF StepsLeft
    <3>4. QED
      BY <3>1, <3>3 DEF NotBack
  <2>2. CASE disp.session # s
    BY <1>5, <2>2, UntouchedNotBack DEF TopicFails, Transition
  <2>3. QED
    BY <2>1, <2>2
<1>6. CASE HandOff
  <2>1. CASE disp.session = s
    BY <1>6, <2>1 DEF HandOff, Idle, NotBack, StepsLeft, Active, NonTerminal, Terminal
  <2>2. CASE disp.session # s
    BY <1>6, <2>2, UntouchedNotBack DEF HandOff, Idle
  <2>3. QED
    BY <2>1, <2>2
<1>7. QED
  BY <1>1, <1>2, <1>3, <1>4, <1>5, <1>6, DispatcherStep DEF DispatcherStep

\* The coroutine of another session, or the death of a worker process.
LEMMA OthersStepNearer ==
  ASSUME LockInv, NEW s \in Sessions, NEW t \in Sessions,
         (t # s /\ WorkerStep(t)) \/ ProcessExits(t)
  PROVE  NotBack(s)
<1> USE DEF LockInv, TypeOK, db, git, LoopFree, Working
<1>1. CASE t # s /\ WorkerStep(t)
  BY <1>1, UntouchedNotBack, SessionCoreAssumption
  DEF WorkerStep, WorktreeAdded, WorktreeFails, Spawned, SpawnFails, Reaped,
      Classified, DrainOverruns, OutcomePosted, WorktreeRemoved, Transition
<1>2. CASE t # s /\ ProcessExits(t)
  BY <1>2, UntouchedNotBack DEF ProcessExits
<1>3. CASE ProcessExits(s)
  BY <1>3 DEF ProcessExits, NotBack, StepsLeft, Active, NonTerminal
<1>4. QED
  BY <1>1, <1>2, <1>3

\* Start, recovery, release, stop and crash.
LEMMA DaemonStepNearer ==
  ASSUME LockInv, DaemonStep, NEW s \in Sessions
  PROVE  NotBack(s)
<1> USE SessionCoreAssumption
    DEF LockInv, TypeOK, ReleaserHoldsLock, TaskMatchesStatus, DispMatchesStatus,
        MemoryFollowsDaemon, db, git, LoopFree, Idle
<1>1. CASE Start \/ RecoveryDone \/ Stop
  BY <1>1, UntouchedNotBack DEF Start, RecoveryDone, Stop
<1>2. ASSUME NEW t \in Sessions, RecoverRow(t) PROVE NotBack(s)
  <2>1. CASE t = s
    BY <1>2, <2>1 DEF RecoverRow, NotBack, StepsLeft, Active, NonTerminal, Terminal
  <2>2. CASE t # s
    BY <1>2, <2>2, UntouchedNotBack DEF RecoverRow
  <2>3. QED
    BY <2>1, <2>2
<1>3. CASE ReleaseHalf
  <2>1. CASE half = s
    BY <1>3, <2>1 DEF ReleaseHalf, NotBack, StepsLeft, Active, NonTerminal, Terminal
  <2>2. CASE half # s
    BY <1>3, <2>2, UntouchedNotBack DEF ReleaseHalf
  <2>3. QED
    BY <2>1, <2>2
<1>4. CASE StopCompletes \/ Crash
  <2>1. /\ UNCHANGED <<status, proc>>
        /\ disp' = Idle /\ half' = NoSession /\ task' = [u \in Sessions |-> "none"]
    BY <1>4 DEF StopCompletes, Crash, ForgetMemory
  <2>2. QED
    BY <2>1 DEF NotBack, StepsLeft, Active, NonTerminal, Terminal
<1>5. QED
  BY <1>1, <1>2, <1>3, <1>4 DEF DaemonStep

\* Sessions only move towards their end, each step of their coroutine by at
\* least one, so a session takes at most ten steps of its own, crashes,
\* recoveries and stops of the daemon notwithstanding.
THEOREM SessionsOnlyAdvance == Spec => SessionsAdvance
<1>1. ASSUME LockInv, [Next]_vars, NEW s \in Sessions, status[s] # "absent"
      PROVE  /\ StepsLeft(s)' <= StepsLeft(s)
             /\ WorkerStep(s) \/ status'[s] # status[s]
                  => StepsLeft(s)' < StepsLeft(s)
  <2>1. CASE WorkerStep(s)
    <3>1. StepsLeft(s) \in Nat /\ StepsLeft(s)' \in Nat
      BY DEF StepsLeft
    <3>2. QED
      BY <2>1, <3>1, <1>1, WorkerStepNearer
  <2>2. ASSUME ~WorkerStep(s) PROVE NotBack(s)
    <3>1. CASE UNCHANGED vars \/ \E i \in Issues : OperatorPrunes(i)
      BY <3>1, UntouchedNotBack DEF vars, db, OperatorPrunes
    <3>2. QED
      BY <1>1, <2>2, <3>1, DispatcherStepNearer, OthersStepNearer, DaemonStepNearer
      DEF Next
  <2>3. QED
    BY <2>1, <2>2 DEF NotBack
<1>2. ASSUME LockInv, [Next]_vars
      PROVE  \A s \in Sessions : status[s] # "absent" =>
               /\ StepsLeft(s)' <= StepsLeft(s)
               /\ WorkerStep(s) \/ status'[s] # status[s]
                    => StepsLeft(s)' < StepsLeft(s)
  BY <1>1, <1>2
<1>3. QED
  BY <1>2, LockInvariant, PTL DEF Spec, SessionsAdvance

-----------------------------------------------------------------------------
\* The number of active sessions, counted before each insert.
CapInv == IsFiniteSet(ActiveSessions) /\ CapRespected

\* No session is active initially.
LEMMA InitCapInv == Init => CapInv
<1> SUFFICES ASSUME Init PROVE CapInv
  OBVIOUS
<1>1. ActiveSessions = {}
  BY DEF Init, ActiveSessions, Active, NonTerminal
<1>2. QED
  BY <1>1, FS_EmptySet, SessionCoreAssumption DEF CapInv, CapRespected

\* The count only grows in Accept, whose check it has just passed.
LEMMA NextCapInv ==
  ASSUME LockInv, CapInv, [Next]_vars
  PROVE  CapInv'
<1>1. Cardinality(ActiveSessions) \in Nat
  BY FS_CardinalityType DEF CapInv
<1>2. ASSUME NEW s \in Sessions, NEW i \in Issues, OpensSession(s, i) PROVE CapInv'
  <2>1. IsFiniteSet(ActiveSessions \cup {s})
        /\ Cardinality(ActiveSessions \cup {s}) = Cardinality(ActiveSessions) + 1
    BY <1>2, StepOnActiveSet, FS_AddElement DEF CapInv
  <2>2. Cardinality(ActiveSessions) + 1 <= MaxConcurrent
    BY <1>1, <1>2, SessionCoreAssumption DEF OpensSession
  <2>3. QED
    BY <2>1, <2>2, <1>2, StepOnActiveSet DEF CapInv, CapRespected
<1>3. ASSUME NEW s \in Sessions, ClosesSession(s) PROVE CapInv'
  <2>1. IsFiniteSet(ActiveSessions \ {s})
        /\ Cardinality(ActiveSessions \ {s}) = Cardinality(ActiveSessions) - 1
    BY <1>3, StepOnActiveSet, FS_RemoveElement DEF CapInv
  <2>2. Cardinality(ActiveSessions) - 1 <= MaxConcurrent
    BY <1>1, SessionCoreAssumption DEF CapInv, CapRespected
  <2>3. QED
    BY <2>1, <2>2, <1>3, StepOnActiveSet DEF CapInv, CapRespected
<1>4. CASE AdvancesSessions
  BY <1>4, StepOnActiveSet DEF CapInv, CapRespected
<1>5. QED
  BY <1>2, <1>3, <1>4, StepOnSessions

\* The limit of concurrent sessions holds, recovery and failures included.
THEOREM LimitHolds == Spec => []CapRespected
<1>1. CapInv => CapRespected
  BY DEF CapInv
<1>2. QED
  BY <1>1, InitCapInv, NextCapInv, LockInvariant, PTL DEF Spec

-----------------------------------------------------------------------------
\* No step of a serving daemon leaves a non-terminal row without an owner.
LEMMA NextOwned ==
  ASSUME LockInv, ActiveIsOwned, [Next]_vars
  PROVE  ActiveIsOwned'
<1> USE DEF ActiveIsOwned, LockInv, TypeOK, Active, NonTerminal, TaskAlive, db,
            Idle, LoopFree, DispMatchesStatus
<1>1. CASE DispatcherStep
  <2> USE SessionCoreAssumption
  <2>1. ASSUME NEW i \in Issues,
               RejectInFlight(i) \/ RejectOverCap(i) \/ AcceptCollides(i)
        PROVE  ActiveIsOwned'
    BY <2>1 DEF RejectInFlight, RejectOverCap, AcceptCollides, Accepting
  <2>2. ASSUME NEW s \in Sessions, NEW i \in Issues, Accept(s, i)
        PROVE  ActiveIsOwned'
    BY <2>2 DEF Accept, Accepting, InsertAndLock
  <2>3. CASE ReplySent
    BY <2>3 DEF ReplySent
  <2>4. CASE TopicCreated
    BY <2>4 DEF TopicCreated, Transition
  <2>5. CASE TopicFails
    BY <2>5 DEF TopicFails, Transition
  <2>6. CASE HandOff
    BY <2>6 DEF HandOff
  <2>7. QED
    BY <1>1, <2>1, <2>2, <2>3, <2>4, <2>5, <2>6 DEF DispatcherStep
<1>2. ASSUME NEW s \in Sessions, WorkerStep(s) \/ ProcessExits(s)
      PROVE  ActiveIsOwned'
  BY <1>2
  DEF WorkerStep, WorktreeAdded, WorktreeFails, Spawned, SpawnFails, Reaped,
      Classified, DrainOverruns, OutcomePosted, WorktreeRemoved, ProcessExits,
      Transition, TaskMatchesStatus, Terminal
<1>3. CASE DaemonStep
  BY <1>3
  DEF DaemonStep, Start, RecoverRow, RecoveryDone, ReleaseHalf, Stop,
      StopCompletes, Crash, ActiveSessions
<1>4. ASSUME NEW i \in Issues, OperatorPrunes(i) PROVE ActiveIsOwned'
  BY <1>4 DEF OperatorPrunes
<1>5. CASE UNCHANGED vars
  BY <1>5 DEF vars
<1>6. QED
  BY <1>1, <1>2, <1>3, <1>4, <1>5 DEF Next

\* No non-terminal session is left without a coroutine while the daemon serves,
\* but the ones whose coroutine died of an exception.
THEOREM SessionsOwned == Spec => []ActiveIsOwned
<1>1. Init => ActiveIsOwned
  BY DEF Init, ActiveIsOwned
<1>2. QED
  BY <1>1, NextOwned, LockInvariant, PTL DEF Spec

-----------------------------------------------------------------------------
\* Refinement of IssueSlots.
LEMMA PairsCounted ==
  ASSUME IsFiniteSet(ActiveSessions)
  PROVE  Cardinality(OpenPairs) = Cardinality(ActiveSessions)
<1> DEFINE f == [s \in ActiveSessions |-> <<s, issueOf[s]>>]
<1>1. f \in Bijection(ActiveSessions, OpenPairs)
  BY DEF OpenPairs, Bijection, Injection, Surjection, IsInjective
<1>2. ExistsBijection(ActiveSessions, OpenPairs)
  BY <1>1 DEF ExistsBijection
<1>3. QED
  BY <1>2, FS_Bijection

\* The cardinality of the instance is the cardinality.
LEMMA SlotsCardinality ==
  ASSUME NEW S
  PROVE  Slots!Cardinality(S) = Cardinality(S)
  BY DEF Slots!Cardinality, Cardinality

\* Every step of the daemon opens a slot, closes one, or changes neither set.
LEMMA StepOnSlots ==
  ASSUME LockInv, CapInv, [Next]_vars
  PROVE  Slots!Next \/ UNCHANGED Slots!slotVars
<1> DEFINE Closed == {s \in Sessions : status[s] \in Terminal}
<1>1. ASSUME NEW s \in Sessions, NEW i \in Issues, OpensSession(s, i)
      PROVE  Slots!Open(s, i)
  <2> USE <1>1 DEF OpensSession, LockInv, TypeOK
  <2>1. OpenPairs' = OpenPairs \cup {<<s, i>>} /\ UNCHANGED Closed
    BY DEF OpenPairs, ActiveSessions, Active, NonTerminal, Terminal
  <2>2. s \notin Slots!Opened \cup Closed
    BY DEF Slots!Opened, OpenPairs, ActiveSessions, Active, NonTerminal, Terminal
  <2>3. i \notin Slots!Taken
    BY DEF ActiveFor, ActiveSessions, Slots!Taken, OpenPairs
  <2>4. Cardinality(OpenPairs) < MaxConcurrent
    BY PairsCounted DEF CapInv
  <2> HIDE <1>1 DEF OpensSession, LockInv, TypeOK
  <2>5. QED
    BY <2>1, <2>2, <2>3, <2>4, SlotsCardinality DEF Slots!Open
<1>2. ASSUME NEW s \in Sessions, ClosesSession(s)
      PROVE  \E i \in Issues : Slots!Close(s, i)
  <2> USE <1>2 DEF ClosesSession, LockInv, TypeOK, Active, NonTerminal, Terminal
  <2>1. PICK i \in Issues : i = issueOf[s]
    BY DEF RowsHaveIssue
  <2>2. OpenPairs' = OpenPairs \ {<<s, i>>}
    BY <2>1 DEF OpenPairs, ActiveSessions
  <2>3. Closed' = Closed \cup {s}
    OBVIOUS
  <2>4. <<s, i>> \in OpenPairs
    BY <2>1 DEF OpenPairs, ActiveSessions
  <2> HIDE <1>2 DEF ClosesSession, LockInv, TypeOK, Active, NonTerminal, Terminal
  <2>5. QED
    BY <2>2, <2>3, <2>4 DEF Slots!Close
<1>3. ASSUME AdvancesSessions PROVE UNCHANGED Slots!slotVars
  <2> USE <1>3 DEF AdvancesSessions, LockInv, TypeOK
  <2>1. OpenPairs' = OpenPairs
    BY DEF OpenPairs, ActiveSessions
  <2>2. Closed' = Closed
    BY DEF Active, NonTerminal, Terminal
  <2> HIDE <1>3 DEF AdvancesSessions, LockInv, TypeOK
  <2>3. QED
    BY <2>1, <2>2 DEF Slots!slotVars
<1>4. CASE \E s \in Sessions, i \in Issues : OpensSession(s, i)
  BY <1>1, <1>4 DEF Slots!Next
<1>5. CASE \E s \in Sessions : ClosesSession(s)
  BY <1>2, <1>5 DEF Slots!Next
<1>6. QED
  BY <1>3, <1>4, <1>5, StepOnSessions

\* The daemon's rows, with their locks, crashes and recovery, implement the
\* bounded, exclusive slots of IssueSlots.
THEOREM Refinement == Spec => ImplementsSlots
<1>1. Init => Slots!Init
  BY DEF Init, Slots!Init, OpenPairs, ActiveSessions, Active, NonTerminal, Terminal
<1>2. LockInv /\ CapInv /\ [Next]_vars => [Slots!Next]_(Slots!slotVars)
  BY StepOnSlots
<1>3. Spec => [](LockInv /\ CapInv)
  BY InitCapInv, NextCapInv, LockInvariant, PTL DEF Spec
<1>4. QED
  BY <1>1, <1>2, <1>3, PTL DEF Spec, ImplementsSlots, Slots!Spec
=============================================================================
