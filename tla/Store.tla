------------------------------- MODULE Store -------------------------------
(***************************************************************************)
(* The two files of remotask and the commands that make and change them:   *)
(* config.toml (core/config.py load and save) and state.db (core/db.py     *)
(* connect and apply_migrations), as used by init, init --force, config    *)
(* set, config regenerate-token, projects add and any other command that   *)
(* connects, such as the daemon.                                           *)
(*                                                                         *)
(* Commands are processes of their own and nothing locks one against       *)
(* another.  A step is one system call on a shared file or one statement   *)
(* SQLite commits by itself; a process may be killed, or a call may fail,  *)
(* between any two.  Files are told from their names: a process that holds *)
(* a file keeps writing to it after the name has moved or gone.            *)
(***************************************************************************)
EXTENDS Naturals, FiniteSets

CONSTANTS
  Commands,    \* command ids; each is run once, and owns the files it creates
  Statements,  \* statements of the migration V0001
  MaxFaults,   \* bound on killed processes and failing calls
  NoFile

ASSUME StoreAssumption ==
  /\ Statements \in Nat \ {0}
  /\ MaxFaults \in Nat
  /\ NoFile \notin Commands

VARIABLES
  kind,      \* what a command is
  pc,        \* how far it has got
  view,      \* the settings it has read and is about to save
  fd,        \* the .tmp file it has open
  db,        \* the database file it is connected to
  at,        \* statements of the migration it has run itself
  missing,   \* the files init found missing when it was about to make them
  config,    \* the file called config.toml
  tmp,       \* the file called config.toml.tmp
  state,     \* the file called state.db
  text,      \* the contents of the files of configuration
  schema,    \* the contents of the database files
  faults,    \* faults so far
  before,    \* history: the named files when the command began
  overlap    \* history: two commands that save the configuration overlapped

names == <<config, tmp, state>>
local == <<kind, view, fd, db, at, missing, before>>
vars  == <<local, pc, names, text, schema, faults, overlap>>

Kinds   == {"init", "init_force", "set", "add"}
Savers  == {"init", "init_force", "set"}
Begun   == {c \in Commands : pc[c] # "new"}
Over    == {"done", "noop", "failed", "killed"}
Active  == {c \in Begun : pc[c] \notin Over}
IsInit(c) == kind[c] \in {"init", "init_force"}

\* A configuration is the set of the `config set` commands it reflects; the
\* default schema reflects none.
Blank    == [form |-> "empty", has |-> {}]
NoSchema == [done |-> 0, version |-> FALSE, rows |-> {}]

Init ==
  /\ kind = [c \in Commands |-> "none"]
  /\ pc = [c \in Commands |-> "new"]
  /\ view = [c \in Commands |-> {}]
  /\ fd = [c \in Commands |-> NoFile]
  /\ db = [c \in Commands |-> NoFile]
  /\ at = [c \in Commands |-> 0]
  /\ missing = [c \in Commands |-> {}]
  /\ before = [c \in Commands |-> [config |-> NoFile, state |-> NoFile]]
  /\ config = NoFile /\ tmp = NoFile /\ state = NoFile
  /\ text = [f \in Commands |-> Blank]
  /\ schema = [f \in Commands |-> NoSchema]
  /\ faults = 0 /\ overlap = FALSE

Goes(c, to) == pc' = [pc EXCEPT ![c] = to]

\* What init has put on its list `created` by now: a file is listed when the
\* call that made it, save or connect, has returned.
Created(c) ==
  CASE pc[c] \in {"saving", "writing", "replacing"}      -> {}
    [] pc[c] \in {"connecting", "reading", "migrating"} -> missing[c] \ {"state"}
    [] OTHER                                            -> missing[c]

\* Mutant of Fails: everything init has touched is on the list.
FailsListingAll(c) ==
  /\ Goes(c, IF IsInit(c) THEN "rolling" ELSE "failed")
  /\ missing' = [missing EXCEPT ![c] = {"config", "state"}]

\* An exception: init rolls back, the others just end.
Fails(c) ==
  /\ Goes(c, IF IsInit(c) THEN "rolling" ELSE "failed")
  /\ missing' = [missing EXCEPT ![c] = Created(c)]

Finds(c, name, file) ==
  missing' = [missing EXCEPT ![c] = IF file = NoFile THEN @ \cup {name} ELSE @]

-----------------------------------------------------------------------------
(***************************************************************************)
(* The beginning of a command.                                             *)
(***************************************************************************)
\* Mutant of First: initialised as soon as there is one of the two files.
FirstEither(c, k) ==
  CASE k = "init" /\ (config # NoFile \/ state # NoFile) -> Goes(c, "noop")
    [] k \in {"set", "add"} /\ config = NoFile           -> Goes(c, "failed")
    [] k = "set"                                         -> Goes(c, "loading")
    [] k = "add"                                         -> Goes(c, "connecting")
    [] OTHER                                             -> Goes(c, "saving")

\* What it finds: init is idempotent, the others want a configuration.
First(c, k) ==
  CASE k = "init" /\ config # NoFile /\ state # NoFile -> Goes(c, "noop")
    [] k \in {"set", "add"} /\ config = NoFile         -> Goes(c, "failed")
    [] k = "set"                                       -> Goes(c, "loading")
    [] k = "add"                                       -> Goes(c, "connecting")
    [] OTHER                                           -> Goes(c, "saving")

Starts(c, k) ==
  /\ pc[c] = "new"
  /\ First(c, k)
  /\ kind' = [kind EXCEPT ![c] = k]
  /\ before' = [before EXCEPT ![c] = [config |-> config, state |-> state]]
  /\ overlap' = (overlap \/ (k \in Savers /\ \E d \in Active : kind[d] \in Savers))
  /\ UNCHANGED <<view, fd, db, at, missing, names, text, schema, faults>>

-----------------------------------------------------------------------------
(***************************************************************************)
(* config.toml.                                                            *)
(***************************************************************************)
Files == UNCHANGED <<kind, db, at, before, state, schema, faults, overlap>>

\* Mutant of Loads: the change made to a default schema.
LoadsDefault(c) ==
  /\ pc[c] = "loading" /\ config # NoFile
  /\ view' = [view EXCEPT ![c] = {c}]
  /\ Goes(c, "saving")
  /\ Files /\ UNCHANGED <<fd, missing, config, tmp, text>>

\* load and set_dotted.  An empty file is a valid one, of defaults; a torn one
\* may be invalid, or valid by chance.
Loads(c) ==
  /\ pc[c] = "loading"
  /\ \/ /\ config # NoFile
        /\ view' = [view EXCEPT ![c] = text[config].has \cup {c}]
        /\ Goes(c, "saving") /\ UNCHANGED missing
     \/ /\ config # NoFile => text[config].form = "torn"
        /\ Fails(c) /\ UNCHANGED view
  /\ Files /\ UNCHANGED <<fd, config, tmp, text>>

\* Mutant of OpensTmp: the file itself opened for writing.
OpensInPlace(c) ==
  LET file == IF config = NoFile THEN c ELSE config IN
  /\ pc[c] = "saving"
  /\ config' = file /\ tmp' = file
  /\ fd' = [fd EXCEPT ![c] = file]
  /\ text' = [text EXCEPT ![file] = Blank]
  /\ Finds(c, "config", config)
  /\ Goes(c, "writing")
  /\ Files /\ UNCHANGED view

\* open(tmp, O_CREAT | O_TRUNC): one path for all writers.  init has looked
\* just before whether there is a configuration, to know if it creates one.
OpensTmp(c) ==
  LET file == IF tmp = NoFile THEN c ELSE tmp IN
  /\ pc[c] = "saving"
  /\ tmp' = file
  /\ fd' = [fd EXCEPT ![c] = file]
  /\ text' = [text EXCEPT ![file] = Blank]
  /\ Finds(c, "config", config)
  /\ Goes(c, "writing")
  /\ Files /\ UNCHANGED <<view, config>>

\* Over what another writer has put there a shorter text leaves a rest.
Writes(c) ==
  /\ pc[c] = "writing"
  /\ \E form \in IF text[fd[c]].form = "empty" THEN {"whole"} ELSE {"whole", "torn"} :
       text' = [text EXCEPT ![fd[c]] = [form |-> form, has |-> view[c]]]
  /\ Goes(c, "replacing")
  /\ Files /\ UNCHANGED <<view, fd, missing, config, tmp>>

\* The name .tmp may have been taken away by another writer's replace.
Replaces(c) ==
  /\ pc[c] = "replacing"
  /\ \/ /\ tmp # NoFile
        /\ config' = tmp /\ tmp' = NoFile
        /\ Goes(c, IF IsInit(c) THEN "connecting" ELSE "done")
        /\ UNCHANGED missing
     \/ /\ tmp = NoFile
        /\ Fails(c)
        /\ UNCHANGED <<config, tmp>>
  /\ Files /\ UNCHANGED <<view, fd, text>>

-----------------------------------------------------------------------------
(***************************************************************************)
(* state.db: connect, apply_migrations, projects.add.                      *)
(***************************************************************************)
Rows == UNCHANGED <<kind, view, fd, before, config, tmp, text, faults, overlap>>

\* connect creates the file; schema_version is CREATE TABLE IF NOT EXISTS.
\* init has looked just before whether there is a file.
Connects(c) ==
  LET file == IF state = NoFile THEN c ELSE state IN
  /\ pc[c] = "connecting"
  /\ state' = file
  /\ db' = [db EXCEPT ![c] = file]
  /\ Finds(c, "state", state)
  /\ Goes(c, "reading")
  /\ Rows /\ UNCHANGED <<at, schema>>

Connected(c) == Goes(c, IF IsInit(c) THEN "logging" ELSE "inserting")

ReadsVersions(c) ==
  /\ pc[c] = "reading"
  /\ IF schema[db[c]].version THEN Connected(c) ELSE Goes(c, "migrating")
  /\ Rows /\ UNCHANGED <<db, at, missing, state, schema>>

\* executescript commits the transaction BEGIN has opened, so every CREATE is
\* committed by itself, and fails where the table or index exists.
Migrates(c) ==
  /\ pc[c] = "migrating" /\ at[c] < Statements
  /\ \/ /\ schema[db[c]].done = at[c]
        /\ schema' = [schema EXCEPT ![db[c]].done = at[c] + 1]
        /\ at' = [at EXCEPT ![c] = @ + 1]
        /\ UNCHANGED <<pc, missing>>
     \/ /\ schema[db[c]].done > at[c]
        /\ Fails(c)
        /\ UNCHANGED <<schema, at>>
  /\ Rows /\ UNCHANGED <<db, state>>

\* Mutant of RecordsVersion: before the script instead of after it.
RecordsVersionFirst(c) ==
  /\ pc[c] = "migrating"
  /\ ~schema[db[c]].version \/ at[c] = Statements
  /\ schema' = [schema EXCEPT ![db[c]].version = TRUE]
  /\ IF at[c] = Statements THEN Connected(c) ELSE UNCHANGED pc
  /\ Rows /\ UNCHANGED <<db, at, missing, state>>

RecordsVersion(c) ==
  /\ pc[c] = "migrating" /\ at[c] = Statements
  /\ schema' = [schema EXCEPT ![db[c]].version = TRUE]
  /\ Connected(c)
  /\ Rows /\ UNCHANGED <<db, at, missing, state>>

Inserts(c) ==
  /\ pc[c] = "inserting"
  /\ schema' = [schema EXCEPT ![db[c]].rows = @ \cup {c}]
  /\ Goes(c, "done")
  /\ Rows /\ UNCHANGED <<db, at, missing, state>>

Logs(c) ==
  /\ pc[c] = "logging"
  /\ Goes(c, "done")
  /\ Rows /\ UNCHANGED <<db, at, missing, state, schema>>

-----------------------------------------------------------------------------
(***************************************************************************)
(* Failure.                                                                *)
(***************************************************************************)
\* A call fails, or the process is killed.
CallFails(c) ==
  /\ c \in Active /\ pc[c] # "rolling"
  /\ faults < MaxFaults
  /\ faults' = faults + 1
  /\ Fails(c)
  /\ UNCHANGED <<kind, view, fd, db, at, before, names, text, schema, overlap>>

Killed(c) ==
  /\ c \in Active
  /\ faults < MaxFaults
  /\ faults' = faults + 1
  /\ Goes(c, "killed")
  /\ UNCHANGED <<local, names, text, schema, overlap>>

\* init removes what is on its list, by name.
RollsBack(c) ==
  /\ pc[c] = "rolling"
  /\ config' = IF "config" \in missing[c] THEN NoFile ELSE config
  /\ state' = IF "state" \in missing[c] THEN NoFile ELSE state
  /\ Goes(c, "failed")
  /\ UNCHANGED <<local, tmp, text, schema, faults, overlap>>

-----------------------------------------------------------------------------
Step(c) ==
  \/ \E k \in Kinds : Starts(c, k)
  \/ Loads(c) \/ OpensTmp(c) \/ Writes(c) \/ Replaces(c)
  \/ Connects(c) \/ ReadsVersions(c) \/ Migrates(c) \/ RecordsVersion(c)
  \/ Inserts(c) \/ Logs(c)
  \/ CallFails(c) \/ Killed(c) \/ RollsBack(c)

Next == \E c \in Commands : Step(c)

Spec == Init /\ [][Next]_vars

-----------------------------------------------------------------------------
(***************************************************************************)
(* Properties.                                                             *)
(***************************************************************************)
\* A recorded version means that every statement of the migration is there,
\* and whoever connect lets through sees them all.
VersionMeansSchema ==
  /\ \A f \in Commands : schema[f].version => schema[f].done = Statements
  /\ \A c \in Commands :
       pc[c] \in {"inserting", "logging"} \/ (kind[c] = "add" /\ pc[c] = "done")
         => schema[db[c]].version

\* Commands that migrate at the same time do not spoil the database for each
\* other: it is left half-made only where one of them was killed or a call
\* failed (db.py:67 says one transaction; executescript makes it several).
OnlyFaultsTear ==
  faults = 0 => \A f \in Commands :
    \/ schema[f].done = 0 /\ ~schema[f].version
    \/ schema[f].done = Statements /\ schema[f].version
    \/ \E c \in Active : db[c] = f /\ pc[c] = "migrating" /\ at[c] = schema[f].done

\* Types, and the two facts above about every database file.
StoreInv ==
  /\ {config, tmp, state} \subseteq Commands \cup {NoFile}
  /\ text \in [Commands -> [form : {"empty", "whole", "torn"}, has : SUBSET Commands]]
  /\ schema \in [Commands -> [done : 0 .. Statements, version : BOOLEAN,
                             rows : SUBSET Commands]]
  /\ VersionMeansSchema
  /\ OnlyFaultsTear

\* The docstring of save, "atomically": config.toml is whole at any moment,
\* whoever is killed, as long as two commands do not save at the same time.
ConfigWhole == config # NoFile /\ ~overlap => text[config].form = "whole"

\* A setting that config set has reported is there for good, unless an init
\* began over an existing configuration: init --force, but also a plain init
\* that finds no state.db, writes the defaults.
SettingsSurvive ==
  ~overlap => \A c \in Commands :
    kind[c] = "set" /\ pc[c] = "done" =>
      \/ config # NoFile /\ c \in text[config].has
      \/ \E d \in Commands : IsInit(d) /\ before[d].config # NoFile

\* A project that projects add has reported stays registered ("DB user data
\* preserved", init.py:28): state.db is taken away from it only by the rollback
\* of an init that began before this file was there.
RegistrationStays ==
  \A c \in Commands : kind[c] = "add" /\ pc[c] = "done" =>
    /\ c \in schema[db[c]].rows
    /\ \/ state = db[c]
       \/ \E d \in Commands : /\ IsInit(d) /\ pc[d] = "failed"
                              /\ before[d].state # db[c]

\* An init that reports success leaves both files, the database complete.  One
\* that has nothing to do has found both, but has not looked into them.
InitDelivers ==
  ~overlap => \A c \in Commands : IsInit(c) /\ pc[c] \in {"done", "noop"} =>
    /\ config # NoFile /\ state # NoFile
    /\ pc[c] = "done" => schema[state].version
=============================================================================
