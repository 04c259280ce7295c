----------------------------- MODULE StoreProofs -----------------------------
(***************************************************************************)
(* Proofs about Store, for any number of commands, statements and faults.  *)
(***************************************************************************)
EXTENDS Store, TLAPS

File == Commands \cup {NoFile}
PCs  == {"new", "loading", "saving", "writing", "replacing", "connecting", "reading",
         "migrating", "inserting", "logging", "rolling", "done", "noop", "failed", "killed"}
Database == [done : 0 .. Statements, version : BOOLEAN, rows : SUBSET Commands]

TypesOK ==
  /\ kind \in [Commands -> Kinds \cup {"none"}]
  /\ pc \in [Commands -> PCs]
  /\ view \in [Commands -> SUBSET Commands]
  /\ fd \in [Commands -> File] /\ db \in [Commands -> File]
  /\ at \in [Commands -> 0 .. Statements]
  /\ missing \in [Commands -> SUBSET {"config", "state"}]
  /\ before \in [Commands -> [config : File, state : File]]
  /\ config \in File /\ tmp \in File /\ state \in File
  /\ text \in [Commands -> [form : {"empty", "whole", "torn"}, has : SUBSET Commands]]
  /\ schema \in [Commands -> Database]
  /\ faults \in Nat /\ overlap \in BOOLEAN

\* Which command gets where, and what it holds there.
Role(c) ==
  /\ pc[c] = "new" <=> kind[c] = "none"
  /\ pc[c] = "new" => missing[c] = {}
  /\ pc[c] = "loading" => kind[c] = "set"
  /\ pc[c] \in {"saving", "writing", "replacing"} => kind[c] \in Savers
  /\ pc[c] \in {"connecting", "reading", "migrating"} => kind[c] # "set"
  /\ pc[c] = "inserting" => kind[c] = "add"
  /\ pc[c] \in {"logging", "rolling", "noop"} => IsInit(c)
  /\ pc[c] \in {"writing", "replacing"} => fd[c] # NoFile
  /\ pc[c] \in {"new", "loading", "saving", "writing", "replacing", "connecting"} =>
       db[c] = NoFile /\ at[c] = 0
  /\ pc[c] = "reading" => at[c] = 0
  /\ pc[c] \in {"reading", "migrating", "inserting", "logging"} => db[c] # NoFile
  /\ kind[c] = "add" /\ pc[c] = "done" => db[c] # NoFile
Roles == \A c \in Commands : Role(c)

\* A file has no name before its command has created it, and the configuration
\* and its draft are two files.
Fresh ==
  /\ \A f \in Commands :
       /\ pc[f] \in {"new", "loading", "saving"} => f # config /\ f # tmp
       /\ pc[f] \in {"new", "loading", "saving", "writing", "replacing", "connecting"} =>
            f # state /\ \A d \in Commands : before[d].state # f
  /\ config # NoFile => config # tmp

Base == TypesOK /\ Roles /\ Fresh

-----------------------------------------------------------------------------
LEMMA CreatedIsMissing ==
  ASSUME NEW c \in Commands
  PROVE  Created(c) \subseteq missing[c]
  BY DEF Created

LEMMA FailsTypes ==
  ASSUME TypesOK, NEW c \in Commands, Fails(c)
  PROVE  pc' \in [Commands -> PCs] /\ missing' \in [Commands -> SUBSET {"config", "state"}]
<1>1. pc' = [pc EXCEPT ![c] = "rolling"] \/ pc' = [pc EXCEPT ![c] = "failed"]
  BY DEF Fails, Goes
<1>2. pc' \in [Commands -> PCs]
  BY <1>1 DEF TypesOK, PCs
<1>3. Created(c) \in SUBSET {"config", "state"} /\ missing' = [missing EXCEPT ![c] = Created(c)]
  BY CreatedIsMissing DEF TypesOK, Fails
<1>4. missing' \in [Commands -> SUBSET {"config", "state"}]
  BY <1>3 DEF TypesOK
<1>5. QED
  BY <1>2, <1>4

LEMMA InitBase == Init => Base
<1> SUFFICES ASSUME Init PROVE Base
  OBVIOUS
<1> USE StoreAssumption DEF Init
<1>1. Blank \in [form : {"empty", "whole", "torn"}, has : SUBSET Commands]
  BY DEF Blank
<1>2. NoSchema \in Database
  BY DEF NoSchema, Database
<1>3. TypesOK
  <2>1. /\ pc \in [Commands -> PCs]
        /\ kind \in [Commands -> Kinds \cup {"none"}]
        /\ view \in [Commands -> SUBSET Commands]
        /\ missing \in [Commands -> SUBSET {"config", "state"}]
    BY DEF PCs
  <2>2. /\ fd \in [Commands -> File] /\ db \in [Commands -> File]
        /\ before \in [Commands -> [config : File, state : File]]
        /\ config \in File /\ tmp \in File /\ state \in File
    BY DEF File
  <2>3. at \in [Commands -> 0 .. Statements] /\ faults \in Nat /\ overlap \in BOOLEAN
    <3>1. 0 \in 0 .. Statements /\ 0 \in Nat
      BY SMT
    <3>2. at = [d \in Commands |-> 0] /\ faults = 0 /\ overlap = FALSE
      OBVIOUS
    <3>3. QED
      BY <3>1, <3>2
  <2>4. /\ text \in [Commands -> [form : {"empty", "whole", "torn"}, has : SUBSET Commands]]
        /\ schema \in [Commands -> Database]
    BY <1>1, <1>2
  <2>5. QED
    BY <2>1, <2>2, <2>3, <2>4 DEF TypesOK
<1>4. Roles
  BY DEF Roles, Role, IsInit
<1>5. Fresh
  BY DEF Fresh
<1>6. QED
  BY <1>3, <1>4, <1>5 DEF Base

LEMMA StepTypes ==
  ASSUME TypesOK, Roles, NEW c \in Commands, Step(c)
  PROVE  TypesOK'
<1> USE DEF TypesOK
<1>1. ASSUME NEW k \in Kinds, Starts(c, k) PROVE TypesOK'
  <2>1. \E to \in {"noop", "failed", "loading", "connecting", "saving"} :
          pc' = [pc EXCEPT ![c] = to]
    BY <1>1 DEF Starts, First, Goes
  <2>2. pc' \in [Commands -> PCs]
    BY <2>1 DEF PCs
  <2>3. before' \in [Commands -> [config : File, state : File]]
    BY <1>1 DEF Starts
  <2>4. overlap' \in BOOLEAN
    BY <1>1 DEF Starts
  <2>5. QED
    BY <1>1, <2>2, <2>3, <2>4 DEF Starts, names
<1>2. CASE Loads(c)
  <2>1. pc' \in [Commands -> PCs] /\ missing' \in [Commands -> SUBSET {"config", "state"}]
    <3>1. CASE Fails(c)
      BY <3>1, FailsTypes
    <3>2. CASE Goes(c, "saving") /\ UNCHANGED missing
      BY <3>2 DEF Goes, PCs
    <3>3. QED
      BY <1>2, <3>1, <3>2 DEF Loads
  <2>2. view' \in [Commands -> SUBSET Commands]
    <3>1. config \in Commands =>
            text[config] \in [form : {"empty", "whole", "torn"}, has : SUBSET Commands]
      OBVIOUS
    <3>2. config \in Commands => text[config].has \cup {c} \in SUBSET Commands
      BY <3>1
    <3>3. QED
      BY <1>2, <3>2 DEF Loads, File
  <2>3. QED
    BY <1>2, <2>1, <2>2 DEF Loads, Files
<1>3. CASE OpensTmp(c)
  BY <1>3 DEF OpensTmp, Files, Finds, Blank, File, Goes, PCs
<1>4. CASE Writes(c)
  BY <1>4 DEF Writes, Files, Roles, Role, File, Goes, PCs
<1>5. CASE Replaces(c)
  <2>1. pc' \in [Commands -> PCs] /\ missing' \in [Commands -> SUBSET {"config", "state"}]
    BY <1>5, FailsTypes DEF Replaces, Goes, PCs
  <2>2. config' \in File /\ tmp' \in File
    BY <1>5 DEF Replaces, File
  <2>3. QED
    BY <1>5, <2>1, <2>2 DEF Replaces, Files
<1>6. CASE Connects(c)
  BY <1>6 DEF Connects, Rows, Finds, File, Goes, PCs
<1>7. CASE ReadsVersions(c)
  BY <1>7 DEF ReadsVersions, Rows, Connected, Goes, PCs
<1>8. CASE Migrates(c)
  <2>1. db[c] \in Commands /\ at[c] \in Nat /\ at[c] + 1 \in 0 .. Statements
    BY <1>8, StoreAssumption DEF Migrates, Roles, Role, File
  <2> DEFINE new == [schema[db[c]] EXCEPT !.done = at[c] + 1]
  <2>2. schema[db[c]] \in Database
    BY <2>1
  <2>3. new \in Database
    BY <2>1, <2>2 DEF Database
  <2>4. schema' = [schema EXCEPT ![db[c]] = new] \/ schema' = schema
    BY <1>8 DEF Migrates
  <2>5. schema' \in [Commands -> Database]
    BY <2>1, <2>3, <2>4
  <2>6. pc' \in [Commands -> PCs] /\ missing' \in [Commands -> SUBSET {"config", "state"}]
    BY <1>8, FailsTypes DEF Migrates
  <2>7. at' \in [Commands -> 0 .. Statements]
    BY <1>8, <2>1 DEF Migrates
  <2>8. QED
    BY <1>8, <2>5, <2>6, <2>7 DEF Migrates, Rows
<1>9. CASE RecordsVersion(c)
  <2> DEFINE new == [schema[db[c]] EXCEPT !.version = TRUE]
  <2>1. db[c] \in Commands /\ schema[db[c]] \in Database
    BY <1>9 DEF RecordsVersion, Roles, Role, File
  <2>2. new \in Database
    BY <2>1 DEF Database
  <2>3. schema' = [schema EXCEPT ![db[c]] = new]
    BY <1>9 DEF RecordsVersion
  <2>4. schema' \in [Commands -> Database]
    BY <2>1, <2>2, <2>3
  <2>5. QED
    BY <1>9, <2>4 DEF RecordsVersion, Rows, Connected, Goes, PCs
<1>10. CASE Inserts(c)
  <2> DEFINE new == [schema[db[c]] EXCEPT !.rows = schema[db[c]].rows \cup {c}]
  <2>1. db[c] \in Commands /\ schema[db[c]] \in Database
    BY <1>10 DEF Inserts, Roles, Role, File
  <2>2. new \in Database
    BY <2>1 DEF Database
  <2>3. schema' = [schema EXCEPT ![db[c]] = new]
    BY <1>10 DEF Inserts
  <2>4. schema' \in [Commands -> Database]
    BY <2>1, <2>2, <2>3
  <2>5. QED
    BY <1>10, <2>4 DEF Inserts, Rows, Goes, PCs
<1>11. CASE Logs(c)
  BY <1>11 DEF Logs, Rows, Goes, PCs
<1>12. CASE CallFails(c)
  BY <1>12, FailsTypes DEF CallFails, names
<1>13. CASE Killed(c)
  BY <1>13 DEF Killed, names, local, Goes, PCs
<1>14. CASE RollsBack(c)
  BY <1>14 DEF RollsBack, local, Goes, PCs, File
<1>15. QED
  BY <1>1, <1>2, <1>3, <1>4, <1>5, <1>6, <1>7, <1>8, <1>9, <1>10, <1>11, <1>12, <1>13, <1>14
  DEF Step

LEMMA StepRoles ==
  ASSUME TypesOK, Roles, NEW c \in Commands, Step(c)
  PROVE  Roles'
<1> USE DEF TypesOK, Roles, Role, Goes, IsInit, Savers, Kinds, Over
<1>1. CASE \E k \in Kinds : Starts(c, k)
  BY <1>1 DEF Starts, First, names
<1>2. CASE Loads(c)
  BY <1>2 DEF Loads, Files, Fails
<1>3. CASE OpensTmp(c)
  BY <1>3, StoreAssumption DEF OpensTmp, Files, Finds
<1>4. CASE Writes(c)
  BY <1>4 DEF Writes, Files
<1>5. CASE Replaces(c)
  BY <1>5 DEF Replaces, Files, Fails
<1>6. CASE Connects(c)
  BY <1>6, StoreAssumption DEF Connects, Rows, Finds
<1>7. CASE ReadsVersions(c)
  BY <1>7 DEF ReadsVersions, Rows, Connected
<1>8. CASE Migrates(c)
  BY <1>8 DEF Migrates, Rows, Fails
<1>9. CASE RecordsVersion(c)
  BY <1>9 DEF RecordsVersion, Rows, Connected
<1>10. CASE Inserts(c) \/ Logs(c)
  BY <1>10 DEF Inserts, Logs, Rows
<1>11. CASE CallFails(c) \/ Killed(c) \/ RollsBack(c)
  BY <1>11 DEF CallFails, Killed, RollsBack, Fails, names, local, Active, Begun
<1>12. QED
  BY <1>1, <1>2, <1>3, <1>4, <1>5, <1>6, <1>7, <1>8, <1>9, <1>10, <1>11 DEF Step

LEMMA StepFresh ==
  ASSUME Base, NEW c \in Commands, Step(c)
  PROVE  Fresh'
<1> USE DEF Base, TypesOK, Fresh, Goes, File
<1>1. CASE \E k \in Kinds : Starts(c, k)
  BY <1>1 DEF Starts, First, names
<1>2. CASE Loads(c) \/ Writes(c)
  BY <1>2 DEF Loads, Writes, Files, Fails
<1>3. CASE OpensTmp(c)
  BY <1>3, StoreAssumption DEF OpensTmp, Files, Finds
<1>4. CASE Replaces(c)
  <2>1. /\ \A d \in Commands : pc'[d] # pc[d] => d = c
        /\ pc[c] = "replacing" /\ pc'[c] \in {"connecting", "done", "rolling", "failed"}
        /\ UNCHANGED <<before, state>>
        /\ \/ config' = tmp /\ tmp' = NoFile
           \/ config' = config /\ tmp' = tmp
    BY <1>4 DEF Replaces, Files, Fails
  <2>2. QED
    BY <2>1, StoreAssumption
<1>5. CASE Connects(c)
  BY <1>5 DEF Connects, Rows, Finds
<1>6. CASE ReadsVersions(c) \/ RecordsVersion(c) \/ Inserts(c) \/ Logs(c)
  <2>1. /\ \A d \in Commands : pc'[d] # pc[d] => d = c
        /\ pc[c] \in {"reading", "migrating", "inserting", "logging"}
        /\ pc'[c] \in {"migrating", "inserting", "logging", "done"}
        /\ UNCHANGED <<before, state, config, tmp>>
    BY <1>6 DEF ReadsVersions, RecordsVersion, Inserts, Logs, Rows, Connected
  <2>2. QED
    BY <2>1
<1>7. CASE Migrates(c)
  BY <1>7 DEF Migrates, Rows, Fails
<1>8. CASE CallFails(c) \/ Killed(c) \/ RollsBack(c)
  BY <1>8, StoreAssumption DEF CallFails, Killed, RollsBack, Fails, names, local, Active, Begun
<1>9. QED
  BY <1>1, <1>2, <1>3, <1>4, <1>5, <1>6, <1>7, <1>8 DEF Step
LEMMA StepBase ==
  ASSUME Base, NEW c \in Commands, Step(c)
  PROVE  Base'
  BY StepTypes, StepRoles, StepFresh DEF Base

\* A step is of one command, and the others stay where they are.
LEMMA OthersStay ==
  ASSUME Base, NEW c \in Commands, Step(c), NEW d \in Commands \ {c}
  PROVE  /\ kind'[d] = kind[d] /\ pc'[d] = pc[d] /\ view'[d] = view[d] /\ fd'[d] = fd[d]
         /\ db'[d] = db[d] /\ at'[d] = at[d] /\ missing'[d] = missing[d]
         /\ before'[d] = before[d]
<1> USE DEF Base, TypesOK, Goes
<1>1. CASE \E k \in Kinds : Starts(c, k)
  BY <1>1 DEF Starts, First, names
<1>2. CASE Loads(c) \/ OpensTmp(c) \/ Writes(c) \/ Replaces(c)
  BY <1>2 DEF Loads, OpensTmp, Writes, Replaces, Files, Fails, Finds
<1>3. CASE Connects(c) \/ ReadsVersions(c) \/ Migrates(c) \/ RecordsVersion(c)
  BY <1>3 DEF Connects, ReadsVersions, Migrates, RecordsVersion, Rows, Fails, Finds, Connected
<1>4. CASE Inserts(c) \/ Logs(c)
  BY <1>4 DEF Inserts, Logs, Rows
<1>5. CASE CallFails(c) \/ Killed(c) \/ RollsBack(c)
  BY <1>5 DEF CallFails, Killed, RollsBack, Fails, names, local
<1>6. QED
  BY <1>1, <1>2, <1>3, <1>4, <1>5 DEF Step

-----------------------------------------------------------------------------
(***************************************************************************)
(* The database files.                                                     *)
(***************************************************************************)
\* Whoever migrates has run no more statements than there are.
SchemaOK ==
  /\ \A c \in Commands : pc[c] = "migrating" => at[c] <= schema[db[c]].done
  /\ VersionMeansSchema
  /\ OnlyFaultsTear

\* The steps that leave the databases alone take nobody in or out of a migration
\* but by a fault.
LEMMA QuietKeepsSchema ==
  ASSUME Base, SchemaOK, NEW c \in Commands, Step(c), UNCHANGED schema,
         UNCHANGED at,
         pc[c] = "migrating" => faults' > 0,
         pc'[c] \notin {"migrating", "inserting", "logging"},
         kind'[c] = "add" => pc'[c] # "done",
         faults' = 0 => faults = 0
  PROVE  SchemaOK'
<1>1. \A d \in Commands \ {c} : kind'[d] = kind[d] /\ pc'[d] = pc[d] /\ db'[d] = db[d]
  BY OthersStay
<1>2. Base /\ Base'
  BY StepBase
<1>3. (\A d \in Commands : pc[d] = "migrating" => at[d] <= schema[db[d]].done)'
  BY <1>1 DEF SchemaOK
<1>4. VersionMeansSchema'
  BY <1>1 DEF SchemaOK, VersionMeansSchema
<1>5. OnlyFaultsTear'
  <2>1. SUFFICES ASSUME faults' = 0, NEW f \in Commands
                 PROVE  \/ schema[f].done = 0 /\ ~schema[f].version
                        \/ schema[f].done = Statements /\ schema[f].version
                        \/ (\E d \in Active : db[d] = f /\ pc[d] = "migrating"
                                               /\ at[d] = schema[f].done)'
    BY DEF OnlyFaultsTear
  <2>2. CASE \E d \in Active : db[d] = f /\ pc[d] = "migrating" /\ at[d] = schema[f].done
    <3>1. PICK d \in Active : db[d] = f /\ pc[d] = "migrating" /\ at[d] = schema[f].done
      BY <2>2
    <3>2. d \in Commands \ {c} /\ faults = 0
      BY <2>1, <3>1, <1>2 DEF Active, Begun, Base, TypesOK
    <3>3. d \in Active'
      BY <1>1, <3>1, <3>2 DEF Active, Begun
    <3>4. QED
      BY <1>1, <3>1, <3>2, <3>3
  <2>3. QED
    BY <2>1, <2>2 DEF SchemaOK, OnlyFaultsTear
<1>6. QED
  BY <1>3, <1>4, <1>5 DEF SchemaOK

LEMMA StepSchema ==
  ASSUME Base, SchemaOK, NEW c \in Commands, Step(c)
  PROVE  SchemaOK'
<1>0. /\ TypesOK /\ Roles
      /\ \A d \in Commands : kind[d] = "add" \/ IsInit(d) \/ kind[d] \in {"set", "none"}
  BY DEF Base, TypesOK, Kinds, IsInit
<1>1. ASSUME NEW k \in Kinds, Starts(c, k) PROVE SchemaOK'
  <2>1. /\ pc[c] = "new" /\ pc'[c] \in {"noop", "failed", "loading", "connecting", "saving"}
        /\ UNCHANGED <<schema, at, faults>>
    BY <1>0, <1>1 DEF Starts, First, Goes, names, TypesOK
  <2>2. QED
    BY <1>0, <2>1, QuietKeepsSchema
<1>2. CASE Loads(c) \/ OpensTmp(c) \/ Writes(c) \/ Replaces(c)
  BY <1>0, <1>2, QuietKeepsSchema
  DEF Loads, OpensTmp, Writes, Replaces, Files, Fails, Goes, TypesOK, Roles, Role, Savers
<1>3. CASE Connects(c) \/ Logs(c) \/ RollsBack(c)
  BY <1>0, <1>3, QuietKeepsSchema
  DEF Connects, Logs, RollsBack, Rows, local, Goes, TypesOK, Roles, Role, IsInit
<1>4. CASE CallFails(c) \/ Killed(c)
  <2>1. /\ pc'[c] \in {"rolling", "failed", "killed"} /\ faults' = faults + 1
        /\ UNCHANGED <<schema, at>>
    BY <1>0, <1>4 DEF CallFails, Killed, Fails, Goes, names, local, TypesOK
  <2>2. faults' > 0
    BY <1>0, <2>1 DEF TypesOK
  <2>3. QED
    BY <1>0, <2>1, <2>2, QuietKeepsSchema
<1>5. \A d \in Commands \ {c} : /\ kind'[d] = kind[d] /\ pc'[d] = pc[d]
                                /\ db'[d] = db[d] /\ at'[d] = at[d]
  BY OthersStay
<1>6. CASE ReadsVersions(c)
  <2>1. /\ pc[c] = "reading" /\ at[c] = 0 /\ db[c] \in Commands
        /\ UNCHANGED <<schema, at, db, kind, faults>>
        /\ \/ schema[db[c]].version /\ pc'[c] \in {"inserting", "logging"}
           \/ pc'[c] = "migrating"
    BY <1>0, <1>6 DEF ReadsVersions, Connected, Goes, Rows, TypesOK, Roles, Role, File
  <2>2. (\A d \in Commands : pc[d] = "migrating" => at[d] <= schema[db[d]].done)'
    BY <1>0, <1>5, <2>1 DEF SchemaOK, TypesOK, Database
  <2>3. VersionMeansSchema'
    BY <1>5, <2>1 DEF SchemaOK, VersionMeansSchema
  <2>4. OnlyFaultsTear'
    BY <1>0, <1>5, <2>1 DEF SchemaOK, OnlyFaultsTear, Active, Begun, Over
  <2>5. QED
    BY <2>2, <2>3, <2>4 DEF SchemaOK
<1>7. CASE Migrates(c)
  <2>1. /\ pc[c] = "migrating" /\ db[c] \in Commands /\ at[c] \in Nat /\ at[c] < Statements
        /\ UNCHANGED <<db, kind, faults>>
    BY <1>0, <1>7 DEF Migrates, Rows, TypesOK, Roles, Role, File
  <2>2. CASE /\ schema[db[c]].done = at[c]
             /\ schema' = [schema EXCEPT ![db[c]].done = at[c] + 1]
             /\ at' = [at EXCEPT ![c] = @ + 1]
             /\ UNCHANGED <<pc, missing>>
    <3>1. /\ at'[c] = at[c] + 1 /\ schema'[db[c]].done = at[c] + 1
          /\ schema'[db[c]].version = schema[db[c]].version
          /\ \A f \in Commands \ {db[c]} : schema'[f] = schema[f]
          /\ ~schema[db[c]].version
      BY <1>0, <2>1, <2>2 DEF TypesOK, Database, SchemaOK, VersionMeansSchema
    <3>2. (\A d \in Commands : pc[d] = "migrating" => at[d] <= schema[db[d]].done)'
      <4>1. SUFFICES ASSUME NEW d \in Commands, pc[d] = "migrating"
                     PROVE  at'[d] <= schema'[db[d]].done
        BY <2>1, <2>2
      <4>2. db[d] \in Commands /\ at[d] \in Nat /\ at[d] <= schema[db[d]].done
            /\ schema[db[d]].done \in Nat
        BY <1>0, <4>1 DEF TypesOK, Database, Roles, Role, File, SchemaOK
      <4>3. CASE d = c
        BY <2>1, <3>1, <4>3
      <4>4. CASE d # c /\ db[d] = db[c]
        BY <1>5, <2>1, <2>2, <3>1, <4>2, <4>4
      <4>5. CASE d # c /\ db[d] # db[c]
        BY <1>5, <3>1, <4>2, <4>5
      <4>6. QED
        BY <4>3, <4>4, <4>5
    <3>3. VersionMeansSchema'
      <4>1. \A d \in Commands : db[d] \in Commands \/ db[d] = NoFile
        BY <1>0 DEF TypesOK, File
      <4>2. \A f \in Commands : schema'[f].version = schema[f].version
        BY <3>1
      <4>3. \A d \in Commands :
              pc[d] \in {"inserting", "logging"} \/ (kind[d] = "add" /\ pc[d] = "done")
                => db[d] \in Commands
        BY <1>0, <4>1 DEF Roles, Role
      <4>4. QED
        BY <2>1, <2>2, <3>1, <4>2, <4>3 DEF SchemaOK, VersionMeansSchema
    <3>4. OnlyFaultsTear'
      <4>1. SUFFICES ASSUME faults = 0, NEW f \in Commands
                     PROVE  \/ (schema[f].done = 0 /\ ~schema[f].version)'
                            \/ (schema[f].done = Statements /\ schema[f].version)'
                            \/ (\E d \in Active : db[d] = f /\ pc[d] = "migrating"
                                                   /\ at[d] = schema[f].done)'
        BY <2>1 DEF OnlyFaultsTear
      <4>2. Active' = Active /\ c \in Active
        BY <2>1, <2>2 DEF Active, Begun, Over
      <4>3. CASE f = db[c]
        BY <2>1, <2>2, <3>1, <4>2, <4>3
      <4>4. CASE f # db[c]
        <5>1. schema'[f] = schema[f]
          BY <3>1, <4>4
        <5>2. ASSUME NEW d \in Active, db[d] = f, pc[d] = "migrating", at[d] = schema[f].done
              PROVE  db'[d] = f /\ pc'[d] = "migrating" /\ at'[d] = schema'[f].done
                     /\ d \in Active'
          BY <1>5, <2>1, <2>2, <4>2, <4>4, <5>1, <5>2 DEF Active, Begun
        <5>3. QED
          BY <4>1, <5>1, <5>2 DEF SchemaOK, OnlyFaultsTear
      <4>5. QED
        BY <4>3, <4>4
    <3>5. QED
      BY <3>2, <3>3, <3>4 DEF SchemaOK
  <2>3. CASE /\ schema[db[c]].done > at[c]
             /\ Fails(c)
             /\ UNCHANGED <<schema, at>>
    <3>1. pc'[c] \in {"rolling", "failed"}
      BY <1>0, <2>3 DEF Fails, Goes, TypesOK
    <3>2. (\A d \in Commands : pc[d] = "migrating" => at[d] <= schema[db[d]].done)'
      BY <1>5, <2>3, <3>1 DEF SchemaOK
    <3>3. VersionMeansSchema'
      BY <1>5, <2>3, <3>1 DEF SchemaOK, VersionMeansSchema
    <3>4. OnlyFaultsTear'
      <4>1. SUFFICES ASSUME faults = 0, NEW f \in Commands
                     PROVE  \/ (schema[f].done = 0 /\ ~schema[f].version)'
                            \/ (schema[f].done = Statements /\ schema[f].version)'
                            \/ (\E d \in Active : db[d] = f /\ pc[d] = "migrating"
                                                   /\ at[d] = schema[f].done)'
        BY <2>1 DEF OnlyFaultsTear
      <4>2. ASSUME NEW d \in Active, db[d] = f, pc[d] = "migrating", at[d] = schema[f].done
            PROVE  db'[d] = f /\ pc'[d] = "migrating" /\ at'[d] = schema'[f].done
                   /\ d \in Active'
        <5>1. d \in Commands \ {c}
          BY <1>0, <2>1, <2>3, <4>2 DEF Active, Begun, TypesOK, Database
        <5>2. QED
          BY <1>5, <2>3, <4>2, <5>1 DEF Active, Begun
      <4>3. QED
        BY <2>3, <4>1, <4>2 DEF SchemaOK, OnlyFaultsTear
    <3>5. QED
      BY <3>2, <3>3, <3>4 DEF SchemaOK
  <2>4. QED
    BY <1>7, <2>2, <2>3 DEF Migrates
<1>8. CASE RecordsVersion(c)
  <2>1. /\ pc[c] = "migrating" /\ at[c] = Statements /\ db[c] \in Commands
        /\ pc'[c] \in {"inserting", "logging"} /\ UNCHANGED <<db, at, kind, faults>>
        /\ schema'[db[c]].version /\ schema'[db[c]].done = schema[db[c]].done
        /\ \A f \in Commands \ {db[c]} : schema'[f] = schema[f]
    BY <1>0, <1>8 DEF RecordsVersion, Connected, Goes, Rows, TypesOK, Database, Roles, Role, File
  <2>2. schema[db[c]].done = Statements
    <3>1. schema[db[c]].done \in 0 .. Statements
      BY <1>0, <2>1 DEF TypesOK, Database
    <3>2. Statements <= schema[db[c]].done
      BY <2>1 DEF SchemaOK
    <3>3. QED
      BY <3>1, <3>2, StoreAssumption
  <2>3. (\A d \in Commands : pc[d] = "migrating" => at[d] <= schema[db[d]].done)'
    <3>1. \A d \in Commands : pc[d] = "migrating" => db[d] \in Commands
      BY <1>0 DEF TypesOK, Roles, Role, File
    <3>2. QED
      BY <1>5, <2>1, <3>1 DEF SchemaOK
  <2>4. VersionMeansSchema'
    <3>1. \A d \in Commands :
            pc[d] \in {"inserting", "logging"} \/ (kind[d] = "add" /\ pc[d] = "done")
              => db[d] \in Commands
      BY <1>0 DEF TypesOK, Roles, Role, File
    <3>2. QED
      BY <1>5, <2>1, <2>2, <3>1 DEF SchemaOK, VersionMeansSchema
  <2>5. OnlyFaultsTear'
    <3>1. SUFFICES ASSUME faults = 0, NEW f \in Commands
                   PROVE  \/ (schema[f].done = 0 /\ ~schema[f].version)'
                          \/ (schema[f].done = Statements /\ schema[f].version)'
                          \/ (\E d \in Active : db[d] = f /\ pc[d] = "migrating"
                                                 /\ at[d] = schema[f].done)'
      BY <2>1 DEF OnlyFaultsTear
    <3>2. CASE f = db[c]
      BY <2>1, <2>2, <3>2
    <3>3. CASE f # db[c]
      <4>1. schema'[f] = schema[f]
        BY <2>1, <3>3
      <4>2. ASSUME NEW d \in Active, db[d] = f, pc[d] = "migrating", at[d] = schema[f].done
            PROVE  db'[d] = f /\ pc'[d] = "migrating" /\ at'[d] = schema'[f].done
                   /\ d \in Active'
        BY <1>5, <2>1, <3>3, <4>1, <4>2 DEF Active, Begun
      <4>3. QED
        BY <3>1, <4>1, <4>2 DEF SchemaOK, OnlyFaultsTear
    <3>4. QED
      BY <3>2, <3>3
  <2>6. QED
    BY <2>3, <2>4, <2>5 DEF SchemaOK
<1>9. CASE Inserts(c)
  <2>1. /\ pc[c] = "inserting" /\ pc'[c] = "done" /\ UNCHANGED <<db, at, kind, faults>>
        /\ db[c] \in Commands /\ kind[c] = "add"
        /\ \A f \in Commands : /\ schema'[f].done = schema[f].done
                               /\ schema'[f].version = schema[f].version
    BY <1>0, <1>9 DEF Inserts, Goes, Rows, TypesOK, Database, Roles, Role, File
  <2>2. (\A d \in Commands : pc[d] = "migrating" => at[d] <= schema[db[d]].done)'
    <3>1. \A d \in Commands : pc[d] = "migrating" => db[d] \in Commands
      BY <1>0 DEF TypesOK, Roles, Role, File
    <3>2. QED
      BY <1>5, <2>1, <3>1 DEF SchemaOK
  <2>3. VersionMeansSchema'
    <3>1. \A d \in Commands :
            pc[d] \in {"inserting", "logging"} \/ (kind[d] = "add" /\ pc[d] = "done")
              => db[d] \in Commands
      BY <1>0 DEF TypesOK, Roles, Role, File
    <3>2. QED
      BY <1>5, <2>1, <3>1 DEF SchemaOK, VersionMeansSchema
  <2>4. OnlyFaultsTear'
    <3>1. \A d \in Active : pc[d] = "migrating" => d \in Active' /\ d # c
      BY <1>5, <2>1 DEF Active, Begun
    <3>2. QED
      BY <1>5, <2>1, <3>1 DEF SchemaOK, OnlyFaultsTear, Active, Begun
  <2>5. QED
    BY <2>2, <2>3, <2>4 DEF SchemaOK
<1>10. QED
  BY <1>1, <1>2, <1>3, <1>4, <1>6, <1>7, <1>8, <1>9 DEF Step
-----------------------------------------------------------------------------
(***************************************************************************)
(* config.toml, while no two commands save at the same time.               *)
(***************************************************************************)
Single == ~overlap => \A c, d \in Active : kind[c] \in Savers /\ kind[d] \in Savers => c = d

\* The draft is the file of the only saver, and holds what it is about to save.
Draft ==
  ~overlap => \A c \in Commands :
    /\ pc[c] = "writing" => fd[c] = tmp /\ text[fd[c]].form = "empty"
    /\ pc[c] = "replacing" =>
         fd[c] = tmp /\ text[fd[c]].form = "whole" /\ text[fd[c]].has = view[c]

SavesOK == Single /\ Draft /\ ConfigWhole

LEMMA StepSingle ==
  ASSUME Base, Single, NEW c \in Commands, Step(c)
  PROVE  Single' /\ (overlap => overlap')
<1>0. TypesOK /\ Roles
  BY DEF Base
<1>1. CASE \E k \in Kinds : Starts(c, k)
  <2>1. PICK k \in Kinds : Starts(c, k)
    BY <1>1
  <2>2. /\ overlap' = (overlap \/ (k \in Savers /\ \E d \in Active : kind[d] \in Savers))
        /\ kind'[c] = k /\ pc[c] = "new" /\ pc'[c] # "new"
    BY <1>0, <2>1 DEF Starts, First, Goes, TypesOK
  <2>3. \A d \in Commands \ {c} : kind'[d] = kind[d] /\ pc'[d] = pc[d]
    BY OthersStay
  <2>4. Active' \subseteq Active \cup {c} /\ Active \subseteq Commands \ {c}
    BY <2>2, <2>3 DEF Active, Begun
  <2>5. QED
    BY <2>2, <2>3, <2>4 DEF Single
<1>2. CASE ~\E k \in Kinds : Starts(c, k)
  <2>1. UNCHANGED <<kind, overlap>>
    BY <1>2 DEF Step, Loads, OpensTmp, Writes, Replaces, Files, Connects, ReadsVersions,
                Migrates, RecordsVersion, Inserts, Logs, Rows, CallFails, Killed, RollsBack, local
  <2>2. pc[c] \notin Over \cup {"new"}
    BY <1>2 DEF Step, Loads, OpensTmp, Writes, Replaces, Connects, ReadsVersions, Migrates,
                RecordsVersion, Inserts, Logs, CallFails, Killed, RollsBack, Active, Begun, Over
  <2>3. Active' \subseteq Active
    BY <2>2, OthersStay DEF Active, Begun
  <2>4. QED
    BY <2>1, <2>3 DEF Single
<1>3. QED
  BY <1>1, <1>2

\* While one command saves, no other one holds a draft.
LEMMA LoneSaver ==
  ASSUME Base, Single, ~overlap, NEW c \in Active, kind[c] \in Savers, NEW d \in Commands,
         pc[d] \in {"loading", "saving", "writing", "replacing"}
  PROVE  d = c
  BY DEF Base, Roles, Role, Single, Active, Begun, Over, Savers

LEMMA StepSaves ==
  ASSUME Base, SavesOK, NEW c \in Commands, Step(c)
  PROVE  SavesOK'
<1>0. TypesOK /\ Roles /\ Fresh /\ Single
  BY DEF Base, SavesOK
<1>1. Single' /\ (overlap => overlap')
  BY <1>0, StepSingle
<1>2. SUFFICES ASSUME ~overlap', ~overlap PROVE Draft' /\ ConfigWhole'
  BY <1>1 DEF SavesOK, Draft, ConfigWhole
<1>3. \A d \in Commands \ {c} : pc'[d] = pc[d] /\ view'[d] = view[d] /\ fd'[d] = fd[d]
  BY OthersStay
<1>4. /\ config # NoFile => text[config].form = "whole"
      /\ \A d \in Commands :
           /\ pc[d] = "writing" => fd[d] = tmp /\ text[fd[d]].form = "empty"
           /\ pc[d] = "replacing" =>
                fd[d] = tmp /\ text[fd[d]].form = "whole" /\ text[fd[d]].has = view[d]
  BY <1>2 DEF SavesOK, Draft, ConfigWhole
<1>5. ASSUME UNCHANGED text, UNCHANGED tmp, config' \in {config, NoFile},
             pc'[c] \notin {"writing", "replacing"}
      PROVE  Draft' /\ ConfigWhole'
  BY <1>3, <1>4, <1>5 DEF Draft, ConfigWhole
<1>6. CASE \E k \in Kinds : Starts(c, k)
  <2>1. /\ pc'[c] \in {"noop", "failed", "loading", "connecting", "saving"}
        /\ UNCHANGED <<text, tmp, config>>
    BY <1>0, <1>6 DEF Starts, First, Goes, names, TypesOK
  <2>2. QED
    BY <1>5, <2>1
<1>7. CASE Loads(c)
  BY <1>0, <1>5, <1>7 DEF Loads, Files, Fails, Goes, TypesOK
<1>8. CASE OpensTmp(c)
  <2> DEFINE file == IF tmp = NoFile THEN c ELSE tmp
  <2>1. /\ pc[c] = "saving" /\ tmp' = file /\ fd'[c] = file /\ pc'[c] = "writing"
        /\ text' = [text EXCEPT ![file] = Blank] /\ config' = config
    BY <1>0, <1>8 DEF OpensTmp, Files, Goes, TypesOK
  <2>2. c \in Active /\ kind[c] \in Savers
    BY <1>0, <2>1 DEF Active, Begun, Over, Roles, Role
  <2>3. \A d \in Commands \ {c} : pc'[d] \notin {"writing", "replacing"}
    BY <1>2, <1>3, <1>0, <2>2, LoneSaver
  <2>4. file \in Commands /\ config # file
    BY <1>0, <2>1, StoreAssumption DEF TypesOK, Fresh, File
  <2>5. text'[file].form = "empty" /\ (config # NoFile => text'[config] = text[config])
    BY <1>0, <2>1, <2>4 DEF Blank, TypesOK, File
  <2>6. Draft'
    BY <2>1, <2>3, <2>5 DEF Draft
  <2>7. ConfigWhole'
    BY <1>4, <2>1, <2>5 DEF ConfigWhole
  <2>8. QED
    BY <2>6, <2>7
<1>9. CASE Writes(c)
  <2>1. /\ pc[c] = "writing" /\ pc'[c] = "replacing" /\ UNCHANGED <<view, fd, config, tmp>>
        /\ fd[c] = tmp /\ text[fd[c]].form = "empty" /\ fd[c] \in Commands
    BY <1>0, <1>4, <1>9 DEF Writes, Goes, Files, TypesOK, Roles, Role, File
  <2>2. text' = [text EXCEPT ![fd[c]] = [form |-> "whole", has |-> view[c]]]
    BY <1>9, <2>1 DEF Writes
  <2>3. c \in Active /\ kind[c] \in Savers
    BY <1>0, <2>1 DEF Active, Begun, Over, Roles, Role
  <2>4. \A d \in Commands \ {c} : pc'[d] \notin {"writing", "replacing"}
    BY <1>2, <1>3, <1>0, <2>3, LoneSaver
  <2>5. /\ text'[fd[c]].form = "whole" /\ text'[fd[c]].has = view[c]
        /\ config # NoFile => text'[config] = text[config]
    BY <1>0, <2>1, <2>2 DEF TypesOK, Fresh, File
  <2>6. QED
    BY <1>4, <2>1, <2>4, <2>5 DEF Draft, ConfigWhole
<1>10. CASE Replaces(c)
  <2>1. /\ pc[c] = "replacing" /\ pc'[c] \in {"connecting", "done", "rolling", "failed"}
        /\ UNCHANGED <<view, fd, text>> /\ fd[c] = tmp /\ fd[c] # NoFile
        /\ text[tmp].form = "whole" /\ config' \in {config, tmp}
    BY <1>0, <1>4, <1>10 DEF Replaces, Goes, Files, Fails, TypesOK, Roles, Role
  <2>2. c \in Active /\ kind[c] \in Savers
    BY <1>0, <2>1 DEF Active, Begun, Over, Roles, Role
  <2>3. \A d \in Commands : pc'[d] \notin {"writing", "replacing"}
    BY <1>2, <1>3, <1>0, <2>1, <2>2, LoneSaver
  <2>4. QED
    BY <1>4, <2>1, <2>3 DEF Draft, ConfigWhole
<1>11. CASE Connects(c) \/ ReadsVersions(c) \/ RecordsVersion(c) \/ Inserts(c) \/ Logs(c)
  BY <1>0, <1>5, <1>11
  DEF Connects, ReadsVersions, RecordsVersion, Inserts, Logs, Rows, Connected, Goes, TypesOK
<1>12. CASE Migrates(c)
  BY <1>0, <1>5, <1>12 DEF Migrates, Rows, Fails, Goes, TypesOK
<1>13. CASE CallFails(c) \/ Killed(c)
  BY <1>0, <1>5, <1>13 DEF CallFails, Killed, Fails, Goes, names, TypesOK
<1>14. CASE RollsBack(c)
  BY <1>0, <1>5, <1>14 DEF RollsBack, Goes, TypesOK
<1>15. QED
  BY <1>6, <1>7, <1>8, <1>9, <1>10, <1>11, <1>12, <1>13, <1>14 DEF Step
-----------------------------------------------------------------------------
(***************************************************************************)
(* Settings.                                                               *)
(***************************************************************************)
Reported  == {c \in Commands : kind[c] = "set" /\ pc[c] = "done"}
StartOver == \E d \in Commands : IsInit(d) /\ before[d].config # NoFile

\* What config set is about to save contains all that was reported, and an init
\* that found no configuration is alone with nothing reported.
SettingsOK ==
  ~overlap /\ ~StartOver =>
    /\ Reported # {} => config # NoFile /\ Reported \subseteq text[config].has
    /\ \A e \in Commands :
         /\ kind[e] = "set" /\ pc[e] \in {"saving", "writing", "replacing"} =>
              Reported \cup {e} \subseteq view[e]
         /\ IsInit(e) /\ e \in Active => Reported = {}

LEMMA StepSettings ==
  ASSUME Base, SavesOK, SettingsOK, NEW c \in Commands, Step(c)
  PROVE  SettingsOK'
<1>0. TypesOK /\ Roles /\ Fresh /\ Single /\ TypesOK' /\ Roles'
  BY StepBase DEF Base, SavesOK
<1>1. overlap => overlap'
  BY <1>0, StepSingle
<1>2. \A d \in Commands \ {c} : /\ kind'[d] = kind[d] /\ pc'[d] = pc[d] /\ view'[d] = view[d]
                                /\ before'[d] = before[d]
  BY OthersStay
<1>3. StartOver => StartOver'
  <2>1. CASE pc[c] = "new"
    BY <1>0, <1>2, <2>1 DEF StartOver, IsInit, Roles, Role
  <2>2. CASE pc[c] # "new"
    <3>1. UNCHANGED <<kind, before>>
      BY <2>2 DEF Step, Starts, Loads, OpensTmp, Writes, Replaces, Files, Connects,
                  ReadsVersions, Migrates, RecordsVersion, Inserts, Logs, Rows, CallFails,
                  Killed, RollsBack, local
    <3>2. QED
      BY <3>1 DEF StartOver, IsInit
  <2>3. QED
    BY <2>1, <2>2
<1>4. SUFFICES ASSUME ~overlap', ~StartOver', ~overlap, ~StartOver
               PROVE  /\ Reported' # {} => config' # NoFile /\ Reported' \subseteq text'[config'].has
                      /\ \A e \in Commands :
                           /\ kind'[e] = "set" /\ pc'[e] \in {"saving", "writing", "replacing"} =>
                                Reported' \cup {e} \subseteq view'[e]
                           /\ IsInit(e)' /\ e \in Active' => Reported' = {}
  BY <1>1, <1>3 DEF SettingsOK
<1>5. /\ Reported # {} => config # NoFile /\ Reported \subseteq text[config].has
      /\ \A e \in Commands :
           /\ kind[e] = "set" /\ pc[e] \in {"saving", "writing", "replacing"} =>
                Reported \cup {e} \subseteq view[e]
           /\ IsInit(e) /\ e \in Active => Reported = {}
  BY <1>4 DEF SettingsOK
<1>6. ASSUME UNCHANGED <<kind, view>>, Reported' = Reported, pc[c] \notin Over \cup {"new"},
             pc[c] = "loading" => pc'[c] # "saving",
             \/ Reported = {}
             \/ config' = config /\ (config # NoFile => text'[config].has = text[config].has)
      PROVE  /\ Reported' # {} => config' # NoFile /\ Reported' \subseteq text'[config'].has
             /\ \A e \in Commands :
                  /\ kind'[e] = "set" /\ pc'[e] \in {"saving", "writing", "replacing"} =>
                       Reported' \cup {e} \subseteq view'[e]
                  /\ IsInit(e)' /\ e \in Active' => Reported' = {}
  <2>1. \A e \in Commands : e \in Active' => e \in Active
    BY <1>0, <1>2, <1>6 DEF Active, Begun, Over
  <2>2. \A e \in Commands :
          kind'[e] = "set" /\ pc'[e] \in {"saving", "writing", "replacing"} =>
            kind[e] = "set" /\ pc[e] \in {"saving", "writing", "replacing"}
    <3>1. pc'[c] \in {"saving", "writing", "replacing"} =>
            pc[c] \in {"loading", "saving", "writing", "replacing"}
      BY <1>0, <1>6 DEF Step, Starts, Loads, OpensTmp, Writes, Replaces, Connects, ReadsVersions,
                  Migrates, RecordsVersion, Inserts, Logs, CallFails, Killed, RollsBack,
                  Fails, Connected, Goes, TypesOK, Over
    <3>2. pc'[c] \in {"writing", "replacing"} => pc[c] # "loading"
      BY <1>0, <1>6 DEF Step, Starts, Loads, OpensTmp, Writes, Replaces, Connects, ReadsVersions,
                  Migrates, RecordsVersion, Inserts, Logs, CallFails, Killed, RollsBack,
                  Fails, Connected, Goes, TypesOK, Over
    <3>3. QED
      BY <1>2, <1>6, <3>1, <3>2
  <2>3. \A e \in Commands : IsInit(e)' <=> IsInit(e)
    BY <1>6 DEF IsInit
  <2>4. QED
    BY <1>5, <1>6, <2>1, <2>2, <2>3
<1>7. CASE \E k \in Kinds : Starts(c, k)
  <2>1. PICK k \in Kinds : Starts(c, k)
    BY <1>7
  <2>2. /\ pc[c] = "new" /\ pc'[c] \in {"noop", "failed", "loading", "connecting", "saving"}
        /\ UNCHANGED <<text, config, view>> /\ kind'[c] = k
        /\ k = "set" => pc'[c] # "saving"
        /\ before'[c].config = config
    BY <1>0, <2>1 DEF Starts, First, Goes, names, TypesOK
  <2>3. Reported' = Reported
    BY <1>2, <2>2 DEF Reported
  <2>4. IsInit(c)' => config = NoFile
    BY <1>4, <2>2 DEF StartOver
  <2>5. \A e \in Commands \ {c} : e \in Active' => e \in Active
    BY <1>2 DEF Active, Begun
  <2>6. QED
    BY <1>2, <1>5, <2>2, <2>3, <2>4, <2>5 DEF IsInit
<1>8. CASE Loads(c)
  <2>1. /\ pc[c] = "loading" /\ kind[c] = "set" /\ UNCHANGED <<kind, config, text>>
        /\ \/ view'[c] = text[config].has \cup {c} /\ config # NoFile /\ pc'[c] = "saving"
           \/ pc'[c] \in {"rolling", "failed"} /\ UNCHANGED view
    BY <1>0, <1>8 DEF Loads, Files, Fails, Goes, TypesOK, Roles, Role
  <2>2. Reported' = Reported
    BY <1>2, <2>1 DEF Reported
  <2>3. \A e \in Commands \ {c} : e \in Active' => e \in Active
    BY <1>2 DEF Active, Begun
  <2>4. ~IsInit(c)'
    BY <2>1 DEF IsInit
  <2>5. \A e \in Commands : IsInit(e)' <=> IsInit(e)
    BY <2>1 DEF IsInit
  <2>6. QED
    BY <1>2, <1>5, <2>1, <2>2, <2>3, <2>4, <2>5
<1>9. CASE OpensTmp(c)
  <2> DEFINE file == IF tmp = NoFile THEN c ELSE tmp
  <2>1. /\ pc[c] = "saving" /\ pc'[c] = "writing" /\ UNCHANGED <<kind, view, config>>
        /\ text' = [text EXCEPT ![file] = Blank]
    BY <1>0, <1>9 DEF OpensTmp, Files, Goes, TypesOK
  <2>2. config # NoFile => text'[config] = text[config]
    BY <1>0, <2>1, StoreAssumption DEF TypesOK, Fresh, File
  <2>3. Reported' = Reported
    BY <1>2, <2>1 DEF Reported
  <2>4. QED
    BY <1>6, <2>1, <2>2, <2>3 DEF Over
<1>10. CASE Writes(c)
  <2>1. /\ pc[c] = "writing" /\ pc'[c] = "replacing" /\ UNCHANGED <<kind, view, config>>
        /\ \E r : text' = [text EXCEPT ![fd[c]] = r]
    BY <1>0, <1>10 DEF Writes, Goes, Files, TypesOK
  <2>2. fd[c] = tmp /\ tmp # NoFile
    BY <1>0, <1>4, <2>1 DEF SavesOK, Draft, Roles, Role
  <2>3. config # NoFile => text'[config] = text[config]
    BY <1>0, <2>1, <2>2 DEF TypesOK, Fresh, File
  <2>4. Reported' = Reported
    BY <1>2, <2>1 DEF Reported
  <2>5. QED
    BY <1>6, <2>1, <2>3, <2>4 DEF Over
<1>11. CASE Replaces(c)
  <2>1. /\ pc[c] = "replacing" /\ UNCHANGED <<kind, view, text>>
        /\ fd[c] = tmp /\ fd[c] # NoFile /\ text[tmp].has = view[c] /\ kind[c] \in Savers
    BY <1>0, <1>4, <1>11 DEF Replaces, Files, SavesOK, Draft, Roles, Role
  <2>2. config' = tmp /\ pc'[c] = IF IsInit(c) THEN "connecting" ELSE "done"
    BY <1>0, <1>11, <2>1 DEF Replaces, Goes, TypesOK
  <2>3. c \in Active
    BY <2>1 DEF Active, Begun, Over
  <2>4. CASE IsInit(c)
    <3>1. Reported' = Reported /\ Reported = {}
      BY <1>2, <1>5, <2>1, <2>2, <2>3, <2>4 DEF Reported
    <3>2. QED
      BY <1>6, <2>1, <2>2, <2>4, <3>1 DEF Over
  <2>5. CASE ~IsInit(c)
    <3>1. kind[c] = "set" /\ pc'[c] = "done"
      BY <2>1, <2>2, <2>5 DEF IsInit, Savers
    <3>2. Reported' = Reported \cup {c} /\ Reported' \subseteq view[c]
      BY <1>2, <1>5, <2>1, <3>1 DEF Reported
    <3>3. \A e \in Commands : ~(kind'[e] = "set" /\ pc'[e] \in {"saving", "writing", "replacing"})
      BY <1>0, <1>2, <1>4, <2>1, <2>3, <3>1, LoneSaver
    <3>4. \A e \in Commands : ~(IsInit(e)' /\ e \in Active')
      BY <1>0, <1>2, <1>4, <2>1, <2>3, <3>1 DEF Single, IsInit, Savers, Active, Begun, Over
    <3>5. QED
      BY <2>1, <2>2, <3>2, <3>3, <3>4
  <2>6. QED
    BY <2>4, <2>5
<1>12. CASE Connects(c) \/ ReadsVersions(c) \/ RecordsVersion(c) \/ Inserts(c) \/ Logs(c)
  <2>1. /\ pc[c] \notin Over \cup {"new", "loading"} /\ kind[c] # "set"
        /\ UNCHANGED <<kind, view, config, text>>
    BY <1>0, <1>12
    DEF Connects, ReadsVersions, RecordsVersion, Inserts, Logs, Rows, Over, Roles, Role, IsInit
  <2>2. Reported' = Reported
    BY <1>2, <2>1 DEF Reported
  <2>3. QED
    BY <1>6, <2>1, <2>2
<1>13. CASE Migrates(c)
  <2>1. /\ pc[c] = "migrating" /\ kind[c] # "set" /\ UNCHANGED <<kind, view, config, text>>
    BY <1>0, <1>13 DEF Migrates, Rows, Roles, Role
  <2>2. Reported' = Reported
    BY <1>2, <2>1 DEF Reported
  <2>3. QED
    BY <1>6, <2>1, <2>2 DEF Over
<1>14. CASE CallFails(c) \/ Killed(c)
  <2>1. /\ pc[c] \notin Over \cup {"new"} /\ pc'[c] \in {"rolling", "failed", "killed"}
        /\ UNCHANGED <<kind, view, config, text>>
    BY <1>0, <1>14 DEF CallFails, Killed, Fails, Goes, local, names, Active, Begun, TypesOK
  <2>2. Reported' = Reported
    BY <1>2, <2>1 DEF Reported, Over
  <2>3. QED
    BY <1>6, <2>1, <2>2
<1>15. CASE RollsBack(c)
  <2>1. /\ pc[c] = "rolling" /\ IsInit(c) /\ UNCHANGED <<kind, view, text>>
        /\ pc'[c] = "failed"
    BY <1>0, <1>15 DEF RollsBack, Goes, local, TypesOK, Roles, Role
  <2>2. Reported = {} /\ Reported' = {}
    BY <1>2, <1>5, <2>1 DEF Reported, IsInit, Active, Begun, Over
  <2>3. QED
    BY <1>6, <2>1, <2>2 DEF Over
<1>16. QED
  BY <1>7, <1>8, <1>9, <1>10, <1>11, <1>12, <1>13, <1>14, <1>15 DEF Step
-----------------------------------------------------------------------------
(***************************************************************************)
(* Registrations.                                                          *)
(***************************************************************************)
\* A rollback that began before the file f was called state.db.
TakenBack(f) == \E d \in Commands : IsInit(d) /\ pc[d] = "failed" /\ before[d].state # f

\* Whoever is on the list of state.db did not find today's state.db when it
\* began; a database in use is state.db, or was taken away by a rollback.
RowsOK ==
  /\ \A d \in Commands : "state" \in missing[d] /\ state # NoFile => before[d].state # state
  /\ \A c \in Commands : db[c] # NoFile => state = db[c] \/ TakenBack(db[c])
  /\ \A c \in Commands : kind[c] = "add" /\ pc[c] = "done" => c \in schema[db[c]].rows

\* The history of a command is written when it begins.
LEMMA KeepsHistory ==
  ASSUME Base, NEW c \in Commands, Step(c)
  PROVE  /\ \A f : TakenBack(f) => TakenBack(f)'
         /\ pc[c] # "new" => UNCHANGED <<kind, before>>
<1>1. pc[c] # "new" => UNCHANGED <<kind, before>>
  BY DEF Step, Starts, Loads, OpensTmp, Writes, Replaces, Files, Connects, ReadsVersions,
         Migrates, RecordsVersion, Inserts, Logs, Rows, CallFails, Killed, RollsBack, local
<1>2. pc[c] \notin Over
  BY DEF Step, Starts, Loads, OpensTmp, Writes, Replaces, Connects, ReadsVersions, Migrates,
         RecordsVersion, Inserts, Logs, CallFails, Killed, RollsBack, Active, Over
<1>3. \A d \in Commands \ {c} : kind'[d] = kind[d] /\ pc'[d] = pc[d] /\ before'[d] = before[d]
  BY OthersStay
<1>4. \A f : TakenBack(f) => TakenBack(f)'
  BY <1>2, <1>3 DEF TakenBack, IsInit, Over
<1>5. QED
  BY <1>1, <1>4

LEMMA StepRows ==
  ASSUME Base, RowsOK, NEW c \in Commands, Step(c)
  PROVE  RowsOK'
<1>0. TypesOK /\ Roles /\ Fresh /\ Roles'
  BY StepBase DEF Base
<1>1. \A d \in Commands \ {c} :
        /\ kind'[d] = kind[d] /\ pc'[d] = pc[d] /\ db'[d] = db[d]
        /\ missing'[d] = missing[d] /\ before'[d] = before[d]
  BY OthersStay
<1>2. /\ \A f : TakenBack(f) => TakenBack(f)'
      /\ pc[c] # "new" => UNCHANGED <<kind, before>>
  BY KeepsHistory
<1>3. \A d \in Commands : kind[d] = "add" /\ pc[d] = "done" => db[d] \in Commands
  BY <1>0 DEF TypesOK, Roles, Role, File
\* Steps that leave state.db and the databases in use alone.
<1>4. ASSUME UNCHANGED <<state, db>>, "state" \in missing'[c] => "state" \in missing[c],
             \A f \in Commands : schema[f].rows \subseteq schema'[f].rows,
             kind'[c] = "add" => pc'[c] # "done",
             pc[c] # "new"
      PROVE  RowsOK'
  BY <1>1, <1>2, <1>3, <1>4 DEF RowsOK
<1>5. CASE \E k \in Kinds : Starts(c, k)
  <2>1. /\ pc[c] = "new" /\ pc'[c] \in {"noop", "failed", "loading", "connecting", "saving"}
        /\ UNCHANGED <<state, db, missing, schema>> /\ missing[c] = {}
    BY <1>0, <1>5 DEF Starts, First, Goes, names, TypesOK, Roles, Role
  <2>2. QED
    BY <1>1, <1>2, <1>3, <2>1 DEF RowsOK
<1>6. CASE Loads(c) \/ OpensTmp(c) \/ Writes(c) \/ Replaces(c)
  <2>1. pc[c] # "new" /\ UNCHANGED <<state, db, schema>>
    BY <1>6 DEF Loads, OpensTmp, Writes, Replaces, Files
  <2>2. "state" \in missing'[c] => "state" \in missing[c]
    BY <1>0, <1>6, CreatedIsMissing DEF Loads, OpensTmp, Writes, Replaces, Fails, Finds, TypesOK
  <2>3. kind'[c] = "add" => pc'[c] # "done"
    <3>1. kind'[c] # "add"
      BY <1>0, <1>2, <1>6, <2>1
      DEF Loads, OpensTmp, Writes, Replaces, Roles, Role, Savers
    <3>2. QED
      BY <3>1
  <2>4. QED
    BY <1>4, <2>1, <2>2, <2>3
<1>7. CASE Connects(c)
  <2> DEFINE file == IF state = NoFile THEN c ELSE state
  <2>1. /\ pc[c] = "connecting" /\ pc'[c] = "reading" /\ state' = file /\ db'[c] = file
        /\ UNCHANGED schema /\ file # NoFile
        /\ "state" \in missing'[c] => "state" \in missing[c] \/ state = NoFile
    BY <1>0, <1>7, StoreAssumption DEF Connects, Rows, Finds, Goes, TypesOK
  <2>2. \A d \in Commands : before'[d] = before[d] /\ before[d].state # c
    BY <1>0, <1>2, <2>1 DEF Fresh
  <2>3. (\A d \in Commands : "state" \in missing[d] /\ state # NoFile => before[d].state # state)'
    BY <1>1, <2>1, <2>2 DEF RowsOK
  <2>4. (\A d \in Commands : db[d] # NoFile => state = db[d] \/ TakenBack(db[d]))'
    BY <1>1, <1>2, <2>1 DEF RowsOK
  <2>5. (\A d \in Commands : kind[d] = "add" /\ pc[d] = "done" => d \in schema[db[d]].rows)'
    BY <1>1, <1>3, <2>1 DEF RowsOK
  <2>6. QED
    BY <2>3, <2>4, <2>5 DEF RowsOK
<1>8. CASE ReadsVersions(c) \/ RecordsVersion(c) \/ Logs(c)
  <2>1. /\ pc[c] # "new" /\ UNCHANGED <<state, db, missing>>
        /\ kind'[c] = "add" => pc'[c] # "done"
    BY <1>0, <1>2, <1>8
    DEF ReadsVersions, RecordsVersion, Logs, Rows, Connected, Goes, TypesOK, Roles, Role, IsInit
  <2>2. ASSUME NEW f \in Commands PROVE schema[f].rows \subseteq schema'[f].rows
    <3>1. schema \in [Commands -> Database] /\ schema[f] \in Database
      BY <1>0 DEF TypesOK
    <3>2. schema' = [schema EXCEPT ![db[c]].version = TRUE] \/ schema' = schema
      BY <1>8 DEF ReadsVersions, RecordsVersion, Logs
    <3>3. schema'[f].rows = schema[f].rows
      BY <3>1, <3>2 DEF Database
    <3>4. QED
      BY <3>3
  <2>3. QED
    BY <1>4, <2>1, <2>2
<1>9. CASE Migrates(c)
  <2>1. /\ pc[c] = "migrating" /\ UNCHANGED <<state, db>>
        /\ pc'[c] # "done"
        /\ "state" \in missing'[c] => "state" \in missing[c]
    BY <1>0, <1>9, CreatedIsMissing DEF Migrates, Rows, Fails, Goes, TypesOK
  <2>2. ASSUME NEW f \in Commands PROVE schema[f].rows \subseteq schema'[f].rows
    <3>1. schema \in [Commands -> Database] /\ schema[f] \in Database
      BY <1>0 DEF TypesOK
    <3>2. schema' = [schema EXCEPT ![db[c]].done = at[c] + 1] \/ schema' = schema
      BY <1>9 DEF Migrates
    <3>3. schema'[f].rows = schema[f].rows
      BY <3>1, <3>2 DEF Database
    <3>4. QED
      BY <3>3
  <2>3. QED
    BY <1>4, <2>1, <2>2
<1>10. CASE Inserts(c)
  <2>1. /\ pc[c] = "inserting" /\ UNCHANGED <<state, db, missing>> /\ db[c] \in Commands
    BY <1>0, <1>10 DEF Inserts, Rows, TypesOK, Roles, Role, File
  <2>2. /\ \A f \in Commands : schema[f].rows \subseteq schema'[f].rows
        /\ c \in schema'[db[c]].rows
    BY <1>0, <1>10, <2>1 DEF Inserts, TypesOK, Database
  <2>3. QED
    BY <1>1, <1>2, <1>3, <2>1, <2>2 DEF RowsOK
<1>11. CASE CallFails(c) \/ Killed(c)
  <2>1. /\ pc[c] # "new" /\ UNCHANGED <<state, db, schema>>
        /\ pc'[c] # "done"
        /\ "state" \in missing'[c] => "state" \in missing[c]
    BY <1>0, <1>11, CreatedIsMissing
    DEF CallFails, Killed, Fails, Goes, names, local, TypesOK, Active, Begun
  <2>2. QED
    BY <1>4, <2>1
<1>12. CASE RollsBack(c)
  <2>1. /\ pc[c] = "rolling" /\ pc'[c] = "failed" /\ IsInit(c) /\ UNCHANGED <<db, missing, schema>>
        /\ IF "state" \in missing[c] THEN state' = NoFile ELSE state' = state
    BY <1>0, <1>12 DEF RollsBack, Goes, local, TypesOK, Roles, Role
  <2>2. CASE "state" \notin missing[c]
    BY <1>4, <2>1, <2>2
  <2>3. CASE "state" \in missing[c] /\ state = NoFile
    BY <1>4, <2>1, <2>3
  <2>4. CASE "state" \in missing[c] /\ state # NoFile
    <3>1. before[c].state # state /\ UNCHANGED <<kind, before>>
      BY <1>2, <2>1, <2>4 DEF RowsOK
    <3>2. PICK f : f = state
      OBVIOUS
    <3>3. TakenBack(f)'
      BY <2>1, <3>1, <3>2 DEF TakenBack, IsInit
    <3>4. ASSUME NEW d \in Commands, db'[d] # NoFile
          PROVE  TakenBack(db[d])'
      <4>1. PICK g : g = db[d]
        OBVIOUS
      <4>2. db'[d] = g /\ (g = f \/ TakenBack(g))
        BY <2>1, <3>2, <3>4, <4>1 DEF RowsOK
      <4>3. TakenBack(g)'
        BY <1>2, <3>3, <4>2
      <4>4. QED
        BY <4>2, <4>3 DEF TakenBack
    <3>5. (\A d \in Commands : db[d] # NoFile => state = db[d] \/ TakenBack(db[d]))'
      BY <3>4
    <3>6. (\A d \in Commands : kind[d] = "add" /\ pc[d] = "done" => d \in schema[db[d]].rows)'
      BY <1>1, <1>3, <2>1, <3>1 DEF RowsOK
    <3>7. QED
      BY <2>1, <2>4, <3>5, <3>6 DEF RowsOK
  <2>5. QED
    BY <2>2, <2>3, <2>4
<1>13. QED
  BY <1>5, <1>6, <1>7, <1>8, <1>9, <1>10, <1>11, <1>12 DEF Step
-----------------------------------------------------------------------------
(***************************************************************************)
(* What init delivers.                                                     *)
(***************************************************************************)
Finished == {c \in Commands : IsInit(c) /\ pc[c] \in {"done", "noop"}}

\* An init at work has what it has made so far, and may take away only what no
\* finished init has vouched for.
InitsOK ==
  ~overlap =>
    /\ Finished # {} => config # NoFile /\ state # NoFile
    /\ \A c \in Finished : pc[c] = "done" => schema[state].version
    /\ \A e \in Active : IsInit(e) /\ missing[e] # {} => Finished = {}
    /\ \A e \in Commands :
         /\ IsInit(e) /\ pc[e] \in {"connecting", "reading", "migrating", "logging"} =>
              config # NoFile
         /\ IsInit(e) /\ pc[e] \in {"reading", "migrating", "logging"} => state = db[e]

LEMMA StepInits ==
  ASSUME Base, Single, SchemaOK, InitsOK, NEW c \in Commands, Step(c)
  PROVE  InitsOK'
<1>0. TypesOK /\ Roles /\ Fresh /\ TypesOK' /\ Roles'
  BY StepBase DEF Base
<1>1. overlap => overlap'
  BY StepSingle
<1>2. SUFFICES ASSUME ~overlap', ~overlap PROVE InitsOK'
  BY <1>1 DEF InitsOK
<1>3. \A d \in Commands \ {c} :
        /\ kind'[d] = kind[d] /\ pc'[d] = pc[d] /\ db'[d] = db[d]
        /\ missing'[d] = missing[d] /\ (d \in Active' <=> d \in Active)
  BY OthersStay DEF Active, Begun
<1>4. /\ Finished # {} => config # NoFile /\ state # NoFile
      /\ \A d \in Finished : pc[d] = "done" => schema[state].version
      /\ \A e \in Active : IsInit(e) /\ missing[e] # {} => Finished = {}
      /\ \A e \in Commands :
           /\ IsInit(e) /\ pc[e] \in {"connecting", "reading", "migrating", "logging"} =>
                config # NoFile
           /\ IsInit(e) /\ pc[e] \in {"reading", "migrating", "logging"} => state = db[e]
  BY <1>2 DEF InitsOK
<1>5. pc[c] # "new" => UNCHANGED <<kind, before>>
  BY KeepsHistory
<1>6. \A f \in Commands : schema[f].version => schema'[f].version
  <2>1. CASE UNCHANGED schema
    BY <2>1
  <2>2. CASE \E f : schema' = [schema EXCEPT ![f].done = at[c] + 1]
    BY <1>0, <2>2 DEF TypesOK, Database
  <2>3. CASE \E f : schema' = [schema EXCEPT ![f].version = TRUE]
    BY <1>0, <2>3 DEF TypesOK, Database
  <2>4. CASE \E f, r : schema' = [schema EXCEPT ![f].rows = r]
    BY <1>0, <2>4 DEF TypesOK, Database
  <2>5. QED
    BY <2>1, <2>2, <2>3, <2>4
    DEF Step, Starts, Loads, OpensTmp, Writes, Replaces, Files, Connects, ReadsVersions,
        Migrates, RecordsVersion, Inserts, Logs, Rows, CallFails, Killed, RollsBack
<1>7. state \in Commands \cup {NoFile} /\ NoFile \notin Commands
  BY <1>0, StoreAssumption DEF TypesOK, File
\* Steps that leave the names alone and finish no init.
<1>8. ASSUME pc[c] \notin Over \cup {"new"}, Finished' = Finished, UNCHANGED db,
             missing'[c] \subseteq missing[c],
             config # NoFile => config' # NoFile,
             state' = state,
             IsInit(c) /\ pc'[c] \in {"connecting", "reading", "migrating", "logging"} =>
               config' # NoFile,
             IsInit(c) /\ pc'[c] \in {"reading", "migrating", "logging"} =>
               pc[c] \in {"reading", "migrating", "logging"}
      PROVE  InitsOK'
  <2>1. UNCHANGED kind /\ Active' \subseteq Active
    BY <1>3, <1>5, <1>8 DEF Active, Begun
  <2>2. \A d \in Commands : IsInit(d)' <=> IsInit(d)
    BY <2>1 DEF IsInit
  <2>3. (Finished # {} => config # NoFile /\ state # NoFile)'
    BY <1>4, <1>8
  <2>4. (\A d \in Finished : pc[d] = "done" => schema[state].version)'
    <3>1. SUFFICES ASSUME NEW d \in Finished, pc'[d] = "done" PROVE schema'[state].version
      BY <1>8
    <3>2. d # c
      BY <1>8 DEF Finished, Over
    <3>3. schema[state].version /\ state \in Commands
      BY <1>3, <1>4, <1>7, <3>1, <3>2 DEF Finished
    <3>4. QED
      BY <1>6, <3>3
  <2>5. (\A e \in Active : IsInit(e) /\ missing[e] # {} => Finished = {})'
    <3>1. SUFFICES ASSUME NEW e \in Active, IsInit(e), missing'[e] # {} PROVE Finished = {}
      BY <1>8, <2>1, <2>2 DEF Active, Begun
    <3>2. missing[e] # {}
      BY <1>3, <1>8, <3>1 DEF Active, Begun
    <3>3. QED
      BY <1>4, <3>1, <3>2
  <2>6. (\A e \in Commands :
           /\ IsInit(e) /\ pc[e] \in {"connecting", "reading", "migrating", "logging"} =>
                config # NoFile
           /\ IsInit(e) /\ pc[e] \in {"reading", "migrating", "logging"} => state = db[e])'
    BY <1>3, <1>4, <1>8, <2>2
  <2>7. QED
    BY <1>2, <2>3, <2>4, <2>5, <2>6 DEF InitsOK
<1>9. CASE \E k \in Kinds : Starts(c, k)
  <2>1. PICK k \in Kinds : Starts(c, k)
    BY <1>9
  <2>2. /\ pc[c] = "new" /\ pc'[c] \in {"noop", "failed", "loading", "connecting", "saving"}
        /\ UNCHANGED <<config, state, db, missing, schema>> /\ kind'[c] = k
        /\ pc'[c] = "connecting" => k = "add"
        /\ pc'[c] = "noop" => k = "init" /\ config # NoFile /\ state # NoFile
        /\ missing[c] = {}
    <3>1. pc[c] = "new" /\ UNCHANGED <<config, state, db, missing, schema>> /\ kind'[c] = k
      BY <1>0, <2>1 DEF Starts, names, TypesOK
    <3>2. missing[c] = {}
      BY <1>0, <3>1 DEF Roles, Role
    <3>3. /\ pc'[c] \in {"noop", "failed", "loading", "connecting", "saving"}
          /\ pc'[c] = "connecting" => k = "add"
          /\ pc'[c] = "noop" => k = "init" /\ config # NoFile /\ state # NoFile
      BY <1>0, <2>1 DEF Starts, First, Goes, TypesOK
    <3>4. QED
      BY <3>1, <3>2, <3>3
  <2>3. k \in Savers => \A d \in Active : kind[d] \notin Savers
    BY <1>2, <2>1 DEF Starts
  <2>4. CASE pc'[c] = "noop"
    <3>1. Finished' = Finished \cup {c}
      BY <1>3, <2>2, <2>4 DEF Finished, IsInit
    <3>2. \A e \in Active' : ~IsInit(e)'
      <4>1. \A e \in Active : ~IsInit(e)
        BY <2>2, <2>4, <2>3 DEF Savers, IsInit
      <4>2. c \notin Active'
        BY <2>4 DEF Active, Over
      <4>3. \A e \in Active' : e \in Commands \ {c}
        BY <4>2 DEF Active, Begun
      <4>4. QED
        BY <1>3, <4>1, <4>3 DEF IsInit
    <3>3. \A d \in Finished' : pc'[d] = "done" => d \in Finished /\ pc[d] = "done"
      BY <1>3, <2>4, <3>1 DEF Finished
    <3>4. (\A e \in Commands :
           /\ IsInit(e) /\ pc[e] \in {"connecting", "reading", "migrating", "logging"} =>
                config # NoFile
           /\ IsInit(e) /\ pc[e] \in {"reading", "migrating", "logging"} => state = db[e])'
      BY <1>3, <1>4, <2>2, <2>4 DEF IsInit
    <3>5. QED
      BY <1>4, <2>2, <2>4, <3>2, <3>3, <3>4 DEF InitsOK
  <2>5. CASE pc'[c] # "noop"
    <3>1. Finished' = Finished
      BY <1>3, <2>2, <2>5 DEF Finished, IsInit
    <3>2. \A d \in Finished : pc'[d] = pc[d]
      BY <1>3, <2>2 DEF Finished
    <3>3. (\A e \in Active : IsInit(e) /\ missing[e] # {} => Finished = {})'
      <4>1. \A e \in Active' : e = c \/ (e \in Active /\ e # c)
        BY <1>3 DEF Active, Begun
      <4>2. QED
        BY <1>3, <1>4, <2>2, <3>1, <4>1 DEF IsInit, Active, Begun
    <3>4. (\A e \in Commands :
           /\ IsInit(e) /\ pc[e] \in {"connecting", "reading", "migrating", "logging"} =>
                config # NoFile
           /\ IsInit(e) /\ pc[e] \in {"reading", "migrating", "logging"} => state = db[e])'
      BY <1>3, <1>4, <2>2 DEF IsInit
    <3>5. QED
      BY <1>4, <2>2, <3>1, <3>2, <3>3, <3>4 DEF InitsOK
  <2>6. QED
    BY <2>4, <2>5
<1>10. CASE Loads(c) \/ Writes(c)
  <2>1. /\ pc[c] \in {"loading", "writing"} /\ pc'[c] \in {"saving", "replacing", "rolling", "failed"}
        /\ UNCHANGED <<kind, config, state, db>> /\ missing'[c] \subseteq missing[c]
    BY <1>0, <1>10, CreatedIsMissing DEF Loads, Writes, Files, Fails, Goes, TypesOK
  <2>2. Finished' = Finished
    BY <1>3, <2>1 DEF Finished, IsInit
  <2>3. QED
    BY <1>8, <2>1, <2>2 DEF Over
<1>11. CASE OpensTmp(c)
  <2>1. /\ pc[c] = "saving" /\ pc'[c] = "writing" /\ UNCHANGED <<kind, config, state, db, schema>>
        /\ config # NoFile => missing' = missing
    BY <1>0, <1>11 DEF OpensTmp, Files, Finds, Goes, TypesOK
  <2>2. Finished' = Finished
    BY <1>3, <2>1 DEF Finished, IsInit
  <2>3. CASE config # NoFile
    BY <1>8, <2>1, <2>2, <2>3 DEF Over
  <2>4. CASE config = NoFile
    <3>1. Finished' = {}
      BY <1>4, <2>2, <2>4
    <3>2. (\A e \in Commands :
           /\ IsInit(e) /\ pc[e] \in {"connecting", "reading", "migrating", "logging"} =>
                config # NoFile
           /\ IsInit(e) /\ pc[e] \in {"reading", "migrating", "logging"} => state = db[e])'
      BY <1>3, <1>4, <2>1 DEF IsInit
    <3>3. QED
      BY <3>1, <3>2 DEF InitsOK
  <2>5. QED
    BY <2>3, <2>4
<1>12. CASE Replaces(c)
  <2>1. /\ pc[c] = "replacing" /\ UNCHANGED <<kind, state, db>> /\ missing'[c] \subseteq missing[c]
        /\ \/ config' # NoFile /\ pc'[c] = IF IsInit(c) THEN "connecting" ELSE "done"
           \/ config' = config /\ pc'[c] \in {"rolling", "failed"}
    BY <1>0, <1>12, CreatedIsMissing DEF Replaces, Files, Fails, Goes, TypesOK
  <2>2. Finished' = Finished
    BY <1>3, <2>1 DEF Finished, IsInit
  <2>3. QED
    BY <1>8, <2>1, <2>2 DEF Over
<1>13. CASE Connects(c)
  <2>1. /\ pc[c] = "connecting" /\ pc'[c] = "reading" /\ UNCHANGED <<kind, config, schema>>
        /\ state' = (IF state = NoFile THEN c ELSE state) /\ db'[c] = state'
        /\ state # NoFile => missing' = missing
    BY <1>0, <1>13 DEF Connects, Rows, Finds, Goes, TypesOK
  <2>2. Finished' = Finished
    BY <1>3, <2>1 DEF Finished, IsInit
  <2>3. (\A e \in Commands :
           /\ IsInit(e) /\ pc[e] \in {"connecting", "reading", "migrating", "logging"} =>
                config # NoFile
           /\ IsInit(e) /\ pc[e] \in {"reading", "migrating", "logging"} => state = db[e])'
    <3>1. SUFFICES ASSUME NEW e \in Commands, IsInit(e)
                   PROVE  /\ pc'[e] \in {"connecting", "reading", "migrating", "logging"} =>
                               config' # NoFile
                          /\ pc'[e] \in {"reading", "migrating", "logging"} => state' = db'[e]
      BY <2>1 DEF IsInit
    <3>2. CASE e = c
      BY <1>4, <2>1, <3>1, <3>2
    <3>3. CASE e # c
      <4>1. pc[e] \in {"reading", "migrating", "logging"} => state = db[e] /\ db[e] # NoFile
        BY <1>0, <1>4, <3>1 DEF Roles, Role
      <4>2. QED
        BY <1>3, <1>4, <2>1, <3>1, <3>3, <4>1
    <3>4. QED
      BY <3>2, <3>3
  <2>4. CASE state # NoFile
    <3>1. \A d \in Finished : pc'[d] = pc[d]
      BY <1>3, <2>1 DEF Finished
    <3>2. Active' \subseteq Active
      BY <1>3, <2>1 DEF Active, Begun, Over
    <3>3. (\A e \in Active : IsInit(e) /\ missing[e] # {} => Finished = {})'
      BY <1>4, <2>1, <2>2, <2>4, <3>2 DEF IsInit
    <3>4. QED
      BY <1>4, <2>1, <2>2, <2>3, <2>4, <3>1, <3>3 DEF InitsOK
  <2>5. CASE state = NoFile
    <3>1. Finished' = {}
      BY <1>4, <2>2, <2>5
    <3>2. QED
      BY <2>3, <3>1 DEF InitsOK
  <2>6. QED
    BY <2>4, <2>5
<1>14. CASE ReadsVersions(c) \/ RecordsVersion(c) \/ Inserts(c)
  <2>1. /\ pc[c] \in {"reading", "migrating", "inserting"}
        /\ pc'[c] \in {"migrating", "inserting", "logging", "done"}
        /\ pc'[c] = "done" => ~IsInit(c)
        /\ pc[c] = "inserting" => pc'[c] = "done"
        /\ UNCHANGED <<kind, config, state, db, missing>>
    BY <1>0, <1>14
    DEF ReadsVersions, RecordsVersion, Inserts, Rows, Connected, Goes, TypesOK, Roles, Role, IsInit
  <2>2. Finished' = Finished
    BY <1>3, <2>1 DEF Finished, IsInit
  <2>3. QED
    BY <1>4, <1>8, <2>1, <2>2 DEF Over
<1>15. CASE Migrates(c)
  <2>1. /\ pc[c] = "migrating" /\ pc'[c] \in {"migrating", "rolling", "failed"}
        /\ UNCHANGED <<kind, config, state, db>> /\ missing'[c] \subseteq missing[c]
    BY <1>0, <1>15, CreatedIsMissing DEF Migrates, Rows, Fails, Goes, TypesOK
  <2>2. Finished' = Finished
    BY <1>3, <2>1 DEF Finished, IsInit
  <2>3. QED
    BY <1>4, <1>8, <2>1, <2>2 DEF Over
<1>16. CASE Logs(c)
  <2>1. /\ pc[c] = "logging" /\ pc'[c] = "done" /\ IsInit(c) /\ db[c] # NoFile
        /\ UNCHANGED <<kind, config, state, db, missing, schema>>
    BY <1>0, <1>16 DEF Logs, Rows, Goes, TypesOK, Roles, Role
  <2>2. config # NoFile /\ state = db[c] /\ schema[state].version
    BY <1>4, <2>1 DEF SchemaOK, VersionMeansSchema
  <2>3. c \in Active /\ \A e \in Active' : e \in Active /\ e # c
    BY <1>3, <2>1 DEF Active, Begun, Over
  <2>4. \A e \in Active' : ~IsInit(e)'
    BY <1>2, <2>1, <2>3 DEF Single, IsInit, Savers
  <2>5. (\A e \in Commands :
           /\ IsInit(e) /\ pc[e] \in {"connecting", "reading", "migrating", "logging"} =>
                config # NoFile
           /\ IsInit(e) /\ pc[e] \in {"reading", "migrating", "logging"} => state = db[e])'
    BY <1>3, <1>4, <2>1 DEF IsInit
  <2>6. QED
    BY <2>1, <2>2, <2>4, <2>5 DEF InitsOK
<1>17. CASE CallFails(c) \/ Killed(c)
  <2>1. /\ pc[c] \notin Over \cup {"new"} /\ pc'[c] \in {"rolling", "failed", "killed"}
        /\ UNCHANGED <<kind, config, state, db>> /\ missing'[c] \subseteq missing[c]
    BY <1>0, <1>17, CreatedIsMissing
    DEF CallFails, Killed, Fails, Goes, local, names, Active, Begun, TypesOK
  <2>2. Finished' = Finished
    BY <1>3, <2>1 DEF Finished, IsInit, Over
  <2>3. QED
    BY <1>8, <2>1, <2>2
<1>18. CASE RollsBack(c)
  <2>1. /\ pc[c] = "rolling" /\ pc'[c] = "failed" /\ IsInit(c)
        /\ UNCHANGED <<kind, db, missing, schema>>
        /\ config' = IF "config" \in missing[c] THEN NoFile ELSE config
        /\ state' = IF "state" \in missing[c] THEN NoFile ELSE state
    BY <1>0, <1>18 DEF RollsBack, Goes, local, TypesOK, Roles, Role
  <2>2. c \in Active
    BY <2>1 DEF Active, Begun, Over
  <2>3. Finished' = Finished
    BY <1>3, <2>1 DEF Finished, IsInit
  <2>4. CASE missing[c] = {}
    BY <1>8, <2>1, <2>3, <2>4 DEF Over
  <2>5. CASE missing[c] # {}
    <3>1. Finished' = {}
      BY <1>4, <2>1, <2>2, <2>3, <2>5
    <3>2. \A e \in Commands : IsInit(e)' =>
            pc'[e] \notin {"connecting", "reading", "migrating", "logging"}
      <4>1. \A e \in Active : kind[e] \in Savers => e = c
        BY <1>2, <2>1, <2>2 DEF Single, IsInit, Savers
      <4>2. QED
        BY <1>3, <2>1, <4>1 DEF IsInit, Savers, Active, Begun, Over
    <3>3. QED
      BY <3>1, <3>2 DEF InitsOK
  <2>6. QED
    BY <2>4, <2>5
<1>19. QED
  BY <1>9, <1>10, <1>11, <1>12, <1>13, <1>14, <1>15, <1>16, <1>17, <1>18 DEF Step

-----------------------------------------------------------------------------
(***************************************************************************)
(* The theorems.                                                           *)
(***************************************************************************)
StoreState == Base /\ SchemaOK /\ SavesOK /\ SettingsOK /\ RowsOK /\ InitsOK

LEMMA InitStoreState == Init => StoreState
<1> SUFFICES ASSUME Init PROVE StoreState
  OBVIOUS
<1>1. Active = {} /\ \A c \in Commands : ~IsInit(c)
  BY DEF Init, Active, Begun, IsInit
<1>2. SchemaOK
  BY DEF Init, SchemaOK, VersionMeansSchema, OnlyFaultsTear, NoSchema
<1>3. SavesOK
  BY <1>1 DEF Init, SavesOK, Single, Draft, ConfigWhole
<1>4. Reported = {} /\ Finished = {}
  BY <1>1 DEF Init, Reported, Finished
<1>5. SettingsOK
  BY <1>1, <1>4 DEF Init, SettingsOK
<1>6. RowsOK
  BY DEF Init, RowsOK
<1>7. InitsOK
  BY <1>1, <1>4 DEF InitsOK
<1>8. QED
  BY <1>2, <1>3, <1>5, <1>6, <1>7, InitBase DEF StoreState

LEMMA NextStoreState ==
  ASSUME StoreState, [Next]_vars
  PROVE  StoreState'
<1>1. ASSUME NEW c \in Commands, Step(c) PROVE StoreState'
  <2>1. Base /\ SchemaOK /\ SavesOK /\ SettingsOK /\ RowsOK /\ InitsOK /\ Single
    BY DEF StoreState, SavesOK
  <2>2. QED
    BY <1>1, <2>1, StepBase, StepSchema, StepSaves, StepSettings, StepRows, StepInits
    DEF StoreState
<1>2. CASE UNCHANGED vars
  <2>1. /\ UNCHANGED <<kind, pc, view, fd, db, at, missing, before, config, tmp, state>>
        /\ UNCHANGED <<text, schema, faults, overlap>>
    BY <1>2 DEF vars, local, names
  <2>2. Active' = Active /\ \A c \in Commands : IsInit(c)' <=> IsInit(c)
    BY <2>1 DEF Active, Begun, IsInit
  <2>3. Reported' = Reported /\ Finished' = Finished /\ StartOver' = StartOver
    BY <2>1 DEF Reported, Finished, StartOver, IsInit
  <2>4. Base'
    BY <2>1 DEF StoreState, Base, TypesOK, Roles, Role, IsInit, Fresh
  <2>5. SchemaOK'
    BY <2>1, <2>2 DEF StoreState, SchemaOK, VersionMeansSchema, OnlyFaultsTear
  <2>6. SavesOK'
    BY <2>1, <2>2 DEF StoreState, SavesOK, Single, Draft, ConfigWhole
  <2>7. SettingsOK'
    BY <2>1, <2>2, <2>3 DEF StoreState, SettingsOK
  <2>8. RowsOK'
    BY <2>1 DEF StoreState, RowsOK, TakenBack, IsInit
  <2>9. InitsOK'
    BY <2>1, <2>2, <2>3 DEF StoreState, InitsOK, IsInit
  <2>10. QED
    BY <2>4, <2>5, <2>6, <2>7, <2>8, <2>9 DEF StoreState
<1>3. QED
  BY <1>1, <1>2 DEF Next

\* A recorded version means a complete schema, and without a fault no database
\* is left half-made, however many commands migrate at once.
THEOREM StoreInvariant == Spec => []StoreInv
<1>1. StoreState => StoreInv
  <2>1. SUFFICES ASSUME StoreState PROVE StoreInv
    OBVIOUS
  <2>2. QED
    BY <2>1 DEF StoreState, Base, TypesOK, File, Database, SchemaOK, StoreInv
<1>2. QED
  BY <1>1, InitStoreState, NextStoreState, PTL DEF Spec

\* config.toml is whole while no two commands save at the same time.
THEOREM ConfigWholeAlways == Spec => []ConfigWhole
<1>1. StoreState => ConfigWhole
  BY DEF StoreState, SavesOK
<1>2. QED
  BY <1>1, InitStoreState, NextStoreState, PTL DEF Spec

\* What config set has reported is in the file, unless an init started over.
THEOREM SettingsSurviveAlways == Spec => []SettingsSurvive
<1>1. StoreState => SettingsSurvive
  BY DEF StoreState, SettingsOK, SettingsSurvive, Reported, StartOver
<1>2. QED
  BY <1>1, InitStoreState, NextStoreState, PTL DEF Spec

\* What projects add has reported is in state.db, unless a rollback took it.
THEOREM RegistrationStaysAlways == Spec => []RegistrationStays
<1>1. StoreState => RegistrationStays
  <2>1. SUFFICES ASSUME StoreState, NEW c \in Commands, kind[c] = "add", pc[c] = "done"
                 PROVE  /\ c \in schema[db[c]].rows
                        /\ state = db[c] \/ TakenBack(db[c])
    BY DEF RegistrationStays, TakenBack
  <2>2. QED
    BY <2>1 DEF StoreState, Base, Roles, Role, RowsOK
<1>2. QED
  BY <1>1, InitStoreState, NextStoreState, PTL DEF Spec

\* An init that reports success has delivered.
THEOREM InitDeliversAlways == Spec => []InitDelivers
<1>1. StoreState => InitDelivers
  BY DEF StoreState, InitsOK, InitDelivers, Finished
<1>2. QED
  BY <1>1, InitStoreState, NextStoreState, PTL DEF Spec
=============================================================================
