----------------------------- MODULE Lifecycle ------------------------------
(***************************************************************************)
(* The single-instance guard of the daemon (core/lifecycle.py): a PID file *)
(* that the daemon locks with flock, writes its pid to and removes at its  *)
(* exit, and the liveness probe is_running of the command line, which      *)
(* removes PID files it takes for stale.                                   *)
(*                                                                         *)
(* A lock belongs to an inode, a name to the directory: unlink takes the   *)
(* name away whoever has the inode open or locked.                         *)
(***************************************************************************)
EXTENDS Naturals, FiniteSets

CONSTANTS
  Daemons,    \* processes that run "daemon run-foreground", one life each
  MaxFiles,   \* bound on the PID files created
  MaxExits,   \* bound on the clean exits
  MaxProbes,  \* bound on the calls of is_running
  Nobody      \* no holder, no pid

ASSUME LifecycleAssumption ==
  /\ MaxFiles \in Nat /\ MaxExits \in Nat /\ MaxProbes \in Nat
  /\ Nobody \notin Daemons

VARIABLES
  path,      \* the inode the PID file's name leads to; 0 when there is none
  created,   \* inodes created so far: 1 .. created
  text,      \* the pid in each inode, Nobody while it is empty
  holder,    \* who holds the flock of each inode
  fd,        \* the inode a daemon has open, 0 when none
  pc,        \* where a daemon is in Lifecycle.__enter__ .. __exit__
  probe,     \* what is_running has found out and not yet acted on
  exits,     \* clean exits so far
  probes,    \* probes so far
  stolen     \* how often the name of a file was removed that a process had open

vars == <<path, created, text, holder, fd, pc, probe, exits, probes, stolen>>

Files   == 1 .. MaxFiles
Running == {d \in Daemons : pc[d] = "running"}
Live(d) == pc[d] \notin {"new", "refused", "gone"}

\* os.kill(pid, 0): the process exists, in whatever part of its life.
Exists(pid) == pid \in Daemons /\ pc[pid] \notin {"new", "gone"}

Init ==
  /\ path = 0 /\ created = 0
  /\ text = [f \in Files |-> Nobody]
  /\ holder = [f \in Files |-> Nobody]
  /\ fd = [d \in Daemons |-> 0]
  /\ pc = [d \in Daemons |-> "new"]
  /\ probe = "idle"
  /\ exits = 0 /\ probes = 0 /\ stolen = 0

\* Whoever unlinks has closed the file itself, so only others lose it.
Unlink == /\ path' = 0
          /\ stolen' = IF path # 0 /\ \E d \in Daemons : fd[d] = path
                       THEN stolen + 1 ELSE stolen

-----------------------------------------------------------------------------
(***************************************************************************)
(* Lifecycle.__enter__ and __exit__.                                       *)
(***************************************************************************)
\* Mutant of Opens: O_EXCL semantics by removing an existing file first.
OpensFresh(d) ==
  /\ pc[d] = "new" /\ created < MaxFiles
  /\ created' = created + 1 /\ path' = created'
  /\ fd' = [fd EXCEPT ![d] = created']
  /\ pc' = [pc EXCEPT ![d] = "opened"]
  /\ UNCHANGED <<text, holder, probe, exits, probes, stolen>>

\* Mutant of Opens: O_TRUNC, before anybody asks for the lock.
OpensTruncating(d) ==
  /\ pc[d] = "new"
  /\ \/ /\ path # 0
        /\ fd' = [fd EXCEPT ![d] = path]
        /\ text' = [text EXCEPT ![path] = Nobody]
        /\ UNCHANGED <<path, created>>
     \/ /\ path = 0 /\ created < MaxFiles
        /\ created' = created + 1 /\ path' = created'
        /\ fd' = [fd EXCEPT ![d] = created']
        /\ UNCHANGED text
  /\ pc' = [pc EXCEPT ![d] = "opened"]
  /\ UNCHANGED <<holder, probe, exits, probes, stolen>>

\* O_RDWR | O_CREAT
Opens(d) ==
  /\ pc[d] = "new"
  /\ \/ /\ path # 0
        /\ fd' = [fd EXCEPT ![d] = path]
        /\ UNCHANGED <<path, created>>
     \/ /\ path = 0 /\ created < MaxFiles
        /\ created' = created + 1 /\ path' = created'
        /\ fd' = [fd EXCEPT ![d] = created']
  /\ pc' = [pc EXCEPT ![d] = "opened"]
  /\ UNCHANGED <<text, holder, probe, exits, probes, stolen>>

\* Mutant of Locks: the result of flock ignored.
LocksBlindly(d) ==
  /\ pc[d] = "opened"
  /\ holder' = [holder EXCEPT ![fd[d]] = d]
  /\ pc' = [pc EXCEPT ![d] = "locked"]
  /\ UNCHANGED <<path, created, text, fd, probe, exits, probes, stolen>>

\* LOCK_EX | LOCK_NB succeeds.
Locks(d) ==
  /\ pc[d] = "opened"
  /\ holder[fd[d]] = Nobody
  /\ holder' = [holder EXCEPT ![fd[d]] = d]
  /\ pc' = [pc EXCEPT ![d] = "locked"]
  /\ UNCHANGED <<path, created, text, fd, probe, exits, probes, stolen>>

\* It would block: LockHeldError, after which the process only reports.
Refused(d) ==
  /\ pc[d] = "opened"
  /\ holder[fd[d]] # Nobody
  /\ fd' = [fd EXCEPT ![d] = 0]
  /\ pc' = [pc EXCEPT ![d] = "refused"]
  /\ UNCHANGED <<path, created, text, holder, probe, exits, probes, stolen>>

Truncates(d) ==
  /\ pc[d] = "locked"
  /\ text' = [text EXCEPT ![fd[d]] = Nobody]
  /\ pc' = [pc EXCEPT ![d] = "truncated"]
  /\ UNCHANGED <<path, created, holder, fd, probe, exits, probes, stolen>>

\* The pid is written and the daemon serves.
Writes(d) ==
  /\ pc[d] = "truncated"
  /\ text' = [text EXCEPT ![fd[d]] = d]
  /\ pc' = [pc EXCEPT ![d] = "running"]
  /\ UNCHANGED <<path, created, holder, fd, probe, exits, probes, stolen>>

\* __exit__ unlocks and closes first ...
Unlocks(d) ==
  /\ pc[d] = "running" /\ exits < MaxExits
  /\ exits' = exits + 1
  /\ holder' = [holder EXCEPT ![fd[d]] = Nobody]
  /\ fd' = [fd EXCEPT ![d] = 0]
  /\ pc' = [pc EXCEPT ![d] = "unlocked"]
  /\ UNCHANGED <<path, created, text, probe, probes, stolen>>

\* ... and unlinks the name afterwards, whatever file it leads to by then.
Leaves(d) ==
  /\ pc[d] = "unlocked"
  /\ Unlink
  /\ pc' = [pc EXCEPT ![d] = "gone"]
  /\ UNCHANGED <<created, text, holder, fd, probe, exits, probes>>

\* A refused process exits, any other may be killed: the kernel drops its lock,
\* the file stays.
Crashes(d) ==
  /\ Live(d) \/ pc[d] = "refused"
  /\ holder' = [f \in Files |-> IF holder[f] = d THEN Nobody ELSE holder[f]]
  /\ fd' = [fd EXCEPT ![d] = 0]
  /\ pc' = [pc EXCEPT ![d] = "gone"]
  /\ UNCHANGED <<path, created, text, probe, exits, probes, stolen>>

-----------------------------------------------------------------------------
(***************************************************************************)
(* is_running, called by every command that wants to know.                 *)
(***************************************************************************)
\* The pid is read and, when there is one, tried with signal 0.
ProbeReads ==
  /\ probe = "idle" /\ path # 0 /\ probes < MaxProbes
  /\ probes' = probes + 1
  /\ \/ /\ Exists(text[path])
        /\ UNCHANGED probe
     \/ /\ ~Exists(text[path])
        /\ probe' = "stale"
  /\ UNCHANGED <<path, created, text, holder, fd, pc, exits, stolen>>

ProbeUnlinks ==
  /\ probe = "stale"
  /\ Unlink
  /\ probe' = "idle"
  /\ UNCHANGED <<created, text, holder, fd, pc, exits, probes>>

-----------------------------------------------------------------------------
Next ==
  \/ \E d \in Daemons :
       \/ Opens(d) \/ Locks(d) \/ Refused(d) \/ Truncates(d) \/ Writes(d)
       \/ Unlocks(d) \/ Leaves(d) \/ Crashes(d)
  \/ ProbeReads \/ ProbeUnlinks

Spec == Init /\ [][Next]_vars

-----------------------------------------------------------------------------
TypeOK ==
  /\ path \in 0 .. created /\ created \in 0 .. MaxFiles
  /\ text \in [Files -> Daemons \cup {Nobody}]
  /\ holder \in [Files -> Daemons \cup {Nobody}]
  /\ fd \in [Daemons -> 0 .. created]
  /\ pc \in [Daemons -> {"new", "opened", "locked", "truncated", "running",
                         "unlocked", "refused", "gone"}]
  /\ probe \in {"idle", "stale"}
  /\ exits \in 0 .. MaxExits /\ probes \in 0 .. MaxProbes
  /\ stolen \in Nat

\* A lock is held by the process that has the inode open and got past flock,
\* and such a process holds the lock of the inode it has open.
LifecycleInv ==
  /\ TypeOK
  /\ \A d \in Daemons :
       /\ pc[d] \in {"opened", "locked", "truncated", "running"} <=> fd[d] # 0
       /\ pc[d] \in {"locked", "truncated", "running"} => holder[fd[d]] = d
  /\ \A f \in Files : holder[f] # Nobody =>
       /\ fd[holder[f]] = f
       /\ pc[holder[f]] \in {"locked", "truncated", "running"}
  /\ \A f \in Files : text[f] # Nobody => f <= created

\* Starts, refusals, crashes and clean exits in any order and number leave at
\* most one daemon running, and the file names it; every further daemon costs
\* one unlink of a file that somebody had open (the second step of __exit__, or
\* a probe).
SingleWhileFileStays ==
  /\ Cardinality(Running) <= stolen + 1
  /\ stolen = 0 => \A d \in Running : path # 0 /\ text[path] = d

\* The probe answers "not running" for a running daemon only when somebody
\* had removed a file that was open.
ProbeSeesDaemon ==
  [][probe' = "stale" /\ probe = "idle" /\ stolen = 0 => Running = {}]_vars
=============================================================================
