-------------------------- MODULE LifecycleProofs ---------------------------
(***************************************************************************)
(* Proofs about Lifecycle, for every set of daemons and every number of    *)
(* files, exits and probes.                                                *)
(***************************************************************************)
EXTENDS Lifecycle, FiniteSetTheorems, TLAPS

\* Until an open file loses its name, whoever has a file open has the one the
\* name leads to; a running daemon has its pid in its file.
OneFile ==
  /\ stolen = 0 => \A d \in Daemons : fd[d] # 0 => fd[d] = path
  /\ \A d \in Daemons : pc[d] = "running" => text[fd[d]] = d

\* Files that are open although no name leads to them: each has been stolen.
LostFiles    == {f \in Files : f # path /\ \E d \in Daemons : fd[d] = f}
LostAreStolen == Cardinality(LostFiles) <= stolen

FileInv == LifecycleInv /\ OneFile

\* No daemon, no file: the invariant holds initially.
LEMMA InitFileInv == Init => FileInv
  BY LifecycleAssumption DEF Init, FileInv, LifecycleInv, OneFile, TypeOK, Files

-----------------------------------------------------------------------------
\* A daemon that opens the PID file, or is refused, holds no lock.
LEMMA OpeningKeepsFileInv ==
  ASSUME FileInv, NEW d \in Daemons, Opens(d) \/ Refused(d)
  PROVE  FileInv'
<1> USE LifecycleAssumption DEF FileInv, LifecycleInv, OneFile, TypeOK, Files
<1>1. CASE Opens(d)
  <2>1. CASE path # 0 /\ UNCHANGED <<path, created>> /\ fd' = [fd EXCEPT ![d] = path]
    BY <1>1, <2>1 DEF Opens
  <2>2. CASE path = 0 /\ created < MaxFiles /\ created' = created + 1
             /\ path' = created' /\ fd' = [fd EXCEPT ![d] = created']
    BY <1>1, <2>2 DEF Opens
  <2>3. QED
    BY <1>1, <2>1, <2>2 DEF Opens
<1>2. CASE Refused(d)
  BY <1>2 DEF Refused
<1>3. QED
  BY <1>1, <1>2

\* The owner of the lock is alone in its inode while it truncates and writes.
LEMMA OwningKeepsFileInv ==
  ASSUME FileInv, NEW d \in Daemons, Locks(d) \/ Truncates(d) \/ Writes(d)
  PROVE  FileInv'
<1> USE LifecycleAssumption DEF FileInv, LifecycleInv, OneFile, TypeOK, Files
<1>1. CASE Locks(d)
  BY <1>1 DEF Locks
<1>2. CASE Truncates(d)
  BY <1>2 DEF Truncates
<1>3. CASE Writes(d)
  BY <1>3 DEF Writes
<1>4. QED
  BY <1>1, <1>2, <1>3

\* Exit, crash, and a probe's removal give up locks and the name.
LEMMA LeavingKeepsFileInv ==
  ASSUME FileInv
  PROVE  /\ \A d \in Daemons : Unlocks(d) \/ Leaves(d) \/ Crashes(d) => FileInv'
         /\ ProbeReads \/ ProbeUnlinks => FileInv'
<1> USE LifecycleAssumption DEF FileInv, LifecycleInv, OneFile, TypeOK, Files
<1>1. ASSUME NEW d \in Daemons, Unlocks(d) PROVE FileInv'
  BY <1>1 DEF Unlocks
<1>2. ASSUME NEW d \in Daemons, Leaves(d) PROVE FileInv'
  BY <1>2 DEF Leaves, Unlink
<1>3. ASSUME NEW d \in Daemons, Crashes(d) PROVE FileInv'
  BY <1>3 DEF Crashes, Live
<1>4. CASE ProbeReads
  BY <1>4 DEF ProbeReads
<1>5. CASE ProbeUnlinks
  BY <1>5 DEF ProbeUnlinks, Unlink
<1>6. QED
  BY <1>1, <1>2, <1>3, <1>4, <1>5

\* FileInv is inductive.
LEMMA NextFileInv ==
  ASSUME FileInv, [Next]_vars
  PROVE  FileInv'
<1>1. CASE UNCHANGED vars
  BY <1>1 DEF vars, FileInv, LifecycleInv, OneFile, TypeOK
<1>2. CASE Next
  BY <1>2, OpeningKeepsFileInv, OwningKeepsFileInv, LeavingKeepsFileInv DEF Next
<1>3. QED
  BY <1>1, <1>2

\* Who holds the lock of an inode has it open and got past flock, whatever
\* starts, refusals, crashes, exits and probes come together.
THEOREM LockIsHeldByItsOpener == Spec => []LifecycleInv
<1>1. FileInv => LifecycleInv
  BY DEF FileInv
<1>2. QED
  BY <1>1, InitFileInv, NextFileInv, PTL DEF Spec

-----------------------------------------------------------------------------
\* The lost files are finitely many: they are among those ever created.
LEMMA LostAreFinite ==
  ASSUME FileInv
  PROVE  IsFiniteSet(LostFiles) /\ Cardinality(LostFiles) \in Nat
<1>1. IsFiniteSet(1 .. MaxFiles)
  BY LifecycleAssumption, FS_Interval
<1>2. LostFiles \in SUBSET (1 .. MaxFiles)
  BY DEF LostFiles, Files
<1>3. QED
  BY <1>1, <1>2, FS_Subset, FS_CardinalityType

\* An unlink adds to the lost files the one it takes the name from, if it is
\* open, and counts it as stolen.
LEMMA UnlinkCounts ==
  ASSUME FileInv, LostAreStolen, Unlink, UNCHANGED fd
  PROVE  LostAreStolen'
<1> USE LifecycleAssumption
<1>1. IsFiniteSet(LostFiles) /\ Cardinality(LostFiles) \in Nat /\ stolen \in Nat
  BY LostAreFinite DEF FileInv, LifecycleInv, TypeOK
<1>2. CASE path # 0 /\ \E d \in Daemons : fd[d] = path
  <2>1. LostFiles' \in SUBSET (LostFiles \cup {path})
    BY DEF Unlink, LostFiles, Files
  <2>2. /\ IsFiniteSet(LostFiles \cup {path})
        /\ Cardinality(LostFiles \cup {path}) <= Cardinality(LostFiles) + 1
    BY <1>1, FS_AddElement
  <2>3. Cardinality(LostFiles') \in Nat /\ Cardinality(LostFiles \cup {path}) \in Nat
    BY <2>1, <2>2, FS_Subset, FS_CardinalityType
  <2>4. Cardinality(LostFiles') <= Cardinality(LostFiles \cup {path})
    BY <2>1, <2>2, FS_Subset
  <2>5. stolen' = stolen + 1
    BY <1>2 DEF Unlink
  <2>6. QED
    BY <1>1, <2>2, <2>3, <2>4, <2>5 DEF LostAreStolen
<1>3. CASE ~(path # 0 /\ \E d \in Daemons : fd[d] = path)
  <2>1. LostFiles' \in SUBSET LostFiles
    BY <1>3 DEF Unlink, LostFiles, Files
  <2>2. Cardinality(LostFiles') \in Nat /\ Cardinality(LostFiles') <= Cardinality(LostFiles)
    BY <1>1, <2>1, FS_Subset, FS_CardinalityType
  <2>3. stolen' = stolen
    BY <1>3 DEF Unlink
  <2>4. QED
    BY <1>1, <2>2, <2>3 DEF LostAreStolen
<1>4. QED
  BY <1>2, <1>3

\* No other step takes the name from an open file.
LEMMA NextLostAreStolen ==
  ASSUME FileInv, LostAreStolen, [Next]_vars
  PROVE  LostAreStolen'
<1> USE LifecycleAssumption
<1>1. CASE \/ \E d \in Daemons : Leaves(d)
           \/ ProbeUnlinks
  BY <1>1, UnlinkCounts DEF Leaves, ProbeUnlinks
<1>2. CASE ~(\/ \E d \in Daemons : Leaves(d)
             \/ ProbeUnlinks)
  <2>1. stolen' = stolen
    BY <1>2 DEF Next, vars, Opens, Locks, Refused, Truncates, Writes, Unlocks,
                Crashes, ProbeReads
  <2>2. LostFiles' \in SUBSET LostFiles
    <3> USE DEF LostFiles, Files, FileInv, LifecycleInv, TypeOK
    <3>1. ASSUME NEW d \in Daemons, Opens(d) PROVE LostFiles' \in SUBSET LostFiles
      BY <3>1 DEF Opens
    <3>2. ASSUME NEW d \in Daemons,
                 Locks(d) \/ Refused(d) \/ Truncates(d) \/ Writes(d) \/ Unlocks(d) \/ Crashes(d)
          PROVE  LostFiles' \in SUBSET LostFiles
      BY <3>2 DEF Locks, Refused, Truncates, Writes, Unlocks, Crashes
    <3>3. CASE ProbeReads \/ UNCHANGED vars
      BY <3>3 DEF ProbeReads, vars
    <3>4. QED
      BY <1>2, <3>1, <3>2, <3>3 DEF Next
  <2>3. /\ stolen \in Nat /\ Cardinality(LostFiles) \in Nat
        /\ Cardinality(LostFiles') \in Nat
        /\ Cardinality(LostFiles') <= Cardinality(LostFiles)
    BY <2>2, LostAreFinite, FS_Subset, FS_CardinalityType DEF FileInv, LifecycleInv, TypeOK
  <2>4. QED
    BY <2>1, <2>3 DEF LostAreStolen
<1>3. QED
  BY <1>1, <1>2

\* Initially nothing is open, hence nothing is lost.
LEMMA InitLostAreStolen == Init => LostAreStolen
<1> SUFFICES ASSUME Init PROVE LostAreStolen
  OBVIOUS
<1>1. LostFiles = {}
  BY DEF Init, LostFiles, Files
<1>2. QED
  BY <1>1, FS_EmptySet DEF Init, LostAreStolen

-----------------------------------------------------------------------------
\* The running daemons have different files, since a lock has one holder: the
\* one the name leads to and lost ones.
LEMMA RunningAreBounded ==
  ASSUME FileInv, LostAreStolen
  PROVE  Cardinality(Running) <= stolen + 1
<1> USE LifecycleAssumption
<1> DEFINE Open == LostFiles \cup {path}
           Opened == [d \in Running |-> fd[d]]
<1>1. Opened \in Injection(Running, Open)
  BY DEF Injection, IsInjective, Running, LostFiles, FileInv, LifecycleInv, TypeOK, Files
<1>2. /\ IsFiniteSet(Open)
      /\ Cardinality(Open) <= Cardinality(LostFiles) + 1
  BY LostAreFinite, FS_AddElement
<1>3. IsFiniteSet(Running) /\ Cardinality(Running) <= Cardinality(Open)
  BY <1>1, <1>2, FS_Injection
<1>4. Cardinality(Running) \in Nat /\ Cardinality(Open) \in Nat
  BY <1>2, <1>3, FS_CardinalityType
<1>5. stolen \in Nat /\ Cardinality(LostFiles) \in Nat
  BY LostAreFinite DEF FileInv, LifecycleInv, TypeOK
<1>6. QED
  BY <1>2, <1>3, <1>4, <1>5 DEF LostAreStolen

\* While nothing is stolen the name leads to a running daemon's file, which
\* holds its pid.
LEMMA RunningIsNamed ==
  ASSUME FileInv, stolen = 0, NEW d \in Running
  PROVE  path # 0 /\ text[path] = d
  BY DEF FileInv, LifecycleInv, OneFile, Running

\* The PID file guards the single instance through any number of starts,
\* crashes and clean exits: n daemons can run only after n - 1 unlinks of a file
\* that somebody had open, and until then the file names the one that runs.
THEOREM SingleInstance == Spec => []SingleWhileFileStays
<1>1. FileInv /\ LostAreStolen => SingleWhileFileStays
  BY RunningAreBounded, RunningIsNamed DEF SingleWhileFileStays
<1>2. Init => FileInv /\ LostAreStolen
  BY InitFileInv, InitLostAreStolen
<1>3. FileInv /\ LostAreStolen /\ [Next]_vars => (FileInv /\ LostAreStolen)'
  BY NextFileInv, NextLostAreStolen
<1>4. QED
  BY <1>1, <1>2, <1>3, PTL DEF Spec

\* is_running never takes the file of a running daemon for stale while no
\* open file has lost its name.
THEOREM ProbeIsRight == Spec => ProbeSeesDaemon
<1>1. ASSUME FileInv, [Next]_vars
      PROVE  probe' = "stale" /\ probe = "idle" /\ stolen = 0 => Running = {}
  <2> SUFFICES ASSUME probe' = "stale", probe = "idle", stolen = 0,
                      NEW d \in Running
               PROVE  FALSE
    OBVIOUS
  <2>1. ProbeReads
    BY <1>1 DEF Next, vars, Opens, Locks, Refused, Truncates, Writes, Unlocks,
                Leaves, Crashes, ProbeUnlinks
  <2>2. path # 0 /\ text[path] = d
    BY <1>1, RunningIsNamed
  <2>3. Exists(text[path])
    BY <2>2 DEF Exists, Running
  <2>4. QED
    BY <2>1, <2>3 DEF ProbeReads
<1>2. QED
  BY <1>1, InitFileInv, NextFileInv, PTL DEF Spec, ProbeSeesDaemon
=============================================================================
