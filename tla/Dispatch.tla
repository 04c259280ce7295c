------------------------------ MODULE Dispatch ------------------------------
(***************************************************************************)
(* What becomes of a Telegram message: the whitelist, the slash-command    *)
(* parser and table (telegram/parser.py, telegram/commands.py), the        *)
(* routing of daemon/dispatcher.py with both of its accept paths, the      *)
(* project registry another process edits meanwhile (core/projects.py),    *)
(* and of the worker only what the routing reads.                          *)
(*                                                                         *)
(* A message is a record of what the code tells apart in it:               *)
(*   command  the bot_command entity at offset 0, "none" without one       *)
(*   at       the @suffix of the command: none, this bot's, another bot's  *)
(*   lead     what follows the command: nothing, words, or a whole first   *)
(*            token that is an issue key                                   *)
(*   key      the first issue key anywhere in the text                     *)
(***************************************************************************)
EXTENDS Naturals, FiniteSets, Sequences

CONSTANTS
  Prefixes, Numbers,   \* an issue key is a prefix and a number
  Sessions,            \* session ids, each of which is also its topic's id
  None,                \* no key, no session
  DefaultPrefix,       \* cfg.agent.default_project_jira_key, or None
  MaxConcurrent,       \* cfg.agent.max_concurrent
  Messages,            \* the messages people may write
  MaxMessages,         \* bound on the messages dispatched
  MaxEdits             \* bound on the edits of the registry

Keys   == Prefixes \X Numbers
Main   == "main"
Places == {Main} \cup Sessions

Message ==
  {m \in [sender  : {"operator", "stranger"},
          place   : Places,
          command : {"none", "run", "cancel", "status", "other"},
          at      : {"none", "own", "other"},
          lead    : {"empty", "words", "key"},
          key     : Keys \cup {None}] :
     /\ m.command = "none" => m.at = "none" /\ m.lead # "empty"
     /\ m.lead = "empty" => m.key = None
     /\ m.lead = "key" => m.key # None}

ASSUME DispatchAssumption ==
  /\ None \notin Prefixes \cup Keys \cup Sessions
  /\ Main \notin Sessions
  /\ DefaultPrefix \in Prefixes \cup {None}
  /\ MaxConcurrent \in Nat \ {0}
  /\ Messages \subseteq Message
  /\ MaxMessages \in Nat
  /\ MaxEdits \in Nat

VARIABLES
  botKnown,   \* getMe succeeded at startup: the suffixes are checked
  registry,   \* the prefixes of the enabled projects
  edits,      \* edits of the registry so far
  status,     \* sessions.status, "ended" for the four terminal ones
  issue,      \* sessions.issue_key
  topics,     \* the sessions whose topic exists
  locked,     \* the sessions that hold the lock row of their issue
  pids,       \* sessions in _worker_pid_by_session
  inFlight,   \* sessions in _operator_stop_in_flight
  signalled,  \* sessions whose worker was sent SIGUSR1
  disp,       \* the await dispatch is suspended at, and its session
  msg,        \* the last message
  fate,       \* what became of it
  posted,     \* the places it was answered in
  handled     \* number of messages so far

rows == <<status, issue, topics, locked>>
stop == <<inFlight, signalled>>
last == <<msg, fate, posted, handled>>
vars == <<botKnown, registry, edits, rows, pids, stop, disp, last>>

Synthetic(s) == <<"run", s>>     \* run-<time>-<slug>-<6 hex>, fresh each time
Issues == Keys \cup {Synthetic(s) : s \in Sessions}

Active    == {s \in Sessions : status[s] \in {"enqueued", "starting", "running"}}
Idle      == [at |-> "idle", session |-> None]
NoMessage == [sender |-> "stranger", place |-> Main, command |-> "none",
              at |-> "none", lead |-> "words", key |-> None]

Init ==
  /\ botKnown \in BOOLEAN
  /\ registry \in SUBSET Prefixes
  /\ edits = 0
  /\ status = [s \in Sessions |-> "absent"]
  /\ issue = [s \in Sessions |-> None]
  /\ topics = {} /\ locked = {} /\ pids = {}
  /\ inFlight = {} /\ signalled = {}
  /\ disp = Idle
  /\ msg = NoMessage /\ fate = "none" /\ posted = << >> /\ handled = 0

-----------------------------------------------------------------------------
(***************************************************************************)
(* Reading a message.                                                      *)
(***************************************************************************)
\* Mutant of IsSlash: the suffix not compared with the bot's name.
IsSlashAnySuffix(m) == m.command # "none"

\* match_slash_command is not None.
IsSlash(m) == m.command # "none" /\ (m.at = "other" => ~botKnown)

Allowed(m) == m.sender = "operator"

\* Replies to a slash command go where it came from, all others to the main chat.
ReplyPlace(m) == IF IsSlash(m) THEN m.place ELSE Main

\* It asks for a session, of the issue it names or, in words after /run, of
\* the default project.
Asks(m)     == IF IsSlash(m) THEN m.command = "run" /\ m.lead # "empty"
                             ELSE m.key # None
FreeText(m) == IsSlash(m) /\ m.lead = "words"

Project(m)  == IF FreeText(m) THEN DefaultPrefix ELSE m.key[1]
Issue(m, s) == IF FreeText(m) THEN Synthetic(s) ELSE m.key

Registered(p) == p \in registry                    \* projects.by_prefix
InFlight(m)   == ~FreeText(m) /\ \E s \in Active : issue[s] = m.key
AtCap         == Cardinality(Active) >= MaxConcurrent

\* Mutant of Admissible: no limit for an issue key in a plain text.
AdmissibleTextUncapped(m) ==
  Asks(m) /\ Registered(Project(m)) /\ ~InFlight(m) /\ (IsSlash(m) => ~AtCap)

Admissible(m) == /\ Asks(m) /\ Registered(Project(m))
                 /\ ~InFlight(m) /\ ~AtCap

\* The unfinished session of the topic, with a worker nobody has stopped yet.
Target(m) == {s \in Active \cap pids : s = m.place /\ s \in topics \ inFlight}

\* Mutant of Ignored: no answer when the limit is reached.
IgnoredAtCap(m) ==
  \/ ~Allowed(m)
  \/ IsSlash(m) /\ m.command = "other"
  \/ IsSlash(m) /\ m.command = "cancel" /\ Target(m) = {}
  \/ ~IsSlash(m) /\ m.key = None
  \/ Asks(m) /\ AtCap

Ignored(m) ==
  \/ ~Allowed(m)
  \/ IsSlash(m) /\ m.command = "other"
  \/ IsSlash(m) /\ m.command = "cancel" /\ Target(m) = {}
  \/ ~IsSlash(m) /\ m.key = None

\* The usage hint, the status, or why there is no session.
Answered(m) ==
  \/ IsSlash(m) /\ m.command = "run" /\ m.lead = "empty"
  \/ IsSlash(m) /\ m.command = "status"
  \/ Asks(m) /\ ~Admissible(m)

-----------------------------------------------------------------------------
(***************************************************************************)
(* dispatch.  The listener hands over one message at a time.               *)
(***************************************************************************)
Listening == disp = Idle /\ handled < MaxMessages

Takes(m, how) ==
  /\ m.place \in {Main} \cup topics
  /\ handled' = handled + 1
  /\ msg' = m
  /\ fate' = how
  /\ UNCHANGED <<botKnown, registry, edits, pids>>

Ignore(m) ==
  /\ Ignored(m)
  /\ Takes(m, "ignored")
  /\ posted' = << >>
  /\ UNCHANGED <<rows, stop, disp>>

Answer(m) ==
  /\ ~Ignored(m) /\ Answered(m)
  /\ Takes(m, "answered")
  /\ posted' = <<ReplyPlace(m)>>
  /\ disp' = [at |-> "replying", session |-> None]
  /\ UNCHANGED <<rows, stop>>

\* _accept_trigger as far as createForumTopic: the row and the lock row.
Open(m, s) ==
  /\ ~Ignored(m) /\ Admissible(m)
  /\ status[s] = "absent"
  /\ \A t \in locked : issue[t] # Issue(m, s)
  /\ Takes(m, "opening")
  /\ posted' = << >>
  /\ status' = [status EXCEPT ![s] = "enqueued"]
  /\ issue' = [issue EXCEPT ![s] = Issue(m, s)]
  /\ locked' = locked \cup {s}
  /\ disp' = [at |-> "forum", session |-> s]
  /\ UNCHANGED <<topics, stop>>

\* The lock row is there: both inserts are rolled back, the exception leaves
\* dispatch and the listener drops it.
Collide(m) ==
  /\ ~Ignored(m) /\ Admissible(m)
  /\ \E t \in locked : ~FreeText(m) /\ issue[t] = m.key
  /\ Takes(m, "raised")
  /\ posted' = << >>
  /\ UNCHANGED <<rows, stop, disp>>

\* Mutant of Signal: the newest worker, whatever the topic.
SignalAnyTopic(m) ==
  /\ ~Ignored(m) /\ IsSlash(m) /\ m.command = "cancel"
  /\ Takes(m, "signalled")
  /\ posted' = << >>
  /\ \E s \in Active \cap pids :
       /\ inFlight' = inFlight \cup {s}
       /\ signalled' = signalled \cup {s}
  /\ UNCHANGED <<rows, disp>>

\* /cancel in a topic, _handle_termination: marked in flight, then signalled
\* if the process still exists.
Signal(m) ==
  /\ ~Ignored(m) /\ IsSlash(m) /\ m.command = "cancel"
  /\ Takes(m, "signalled")
  /\ posted' = << >>
  /\ \E s \in Target(m) :
       /\ inFlight' = inFlight \cup {s}
       /\ signalled' \in {signalled, signalled \cup {s}}
  /\ UNCHANGED <<rows, disp>>

Replied ==
  /\ disp.at = "replying"
  /\ disp' = Idle
  /\ UNCHANGED <<botKnown, registry, edits, rows, pids, stop, last>>

TopicCreated ==
  /\ disp.at = "forum"
  /\ topics' = topics \cup {disp.session}
  /\ status' = [status EXCEPT ![disp.session] = "starting"]
  /\ disp' = [disp EXCEPT !.at = "announcing"]
  /\ UNCHANGED <<botKnown, registry, edits, issue, locked, pids, stop, last>>

\* The main chat is told, even of a /run that came from a topic.
TopicFails ==
  /\ disp.at = "forum"
  /\ status' = [status EXCEPT ![disp.session] = "ended"]
  /\ locked' = locked \ {disp.session}
  /\ disp' = [at |-> "replying", session |-> None]
  /\ fate' = "no_topic"
  /\ posted' = Append(posted, Main)
  /\ UNCHANGED <<botKnown, registry, edits, issue, topics, pids, stop, msg, handled>>

\* Both announcements are posted and run_worker becomes a task.
HandOff ==
  /\ disp.at = "announcing"
  /\ disp' = Idle
  /\ fate' = "opened"
  /\ UNCHANGED <<botKnown, registry, edits, rows, pids, stop, msg, posted, handled>>

-----------------------------------------------------------------------------
(***************************************************************************)
(* The worker coroutine, and remotask projects add and remove.             *)
(***************************************************************************)
Worker == UNCHANGED <<botKnown, registry, edits, issue, topics, stop, disp, last>>

WorktreeAdded(s) ==
  /\ status[s] = "starting" /\ disp.session # s
  /\ status' = [status EXCEPT ![s] = "running"]
  /\ Worker /\ UNCHANGED <<locked, pids>>

WorktreeFails(s) ==
  /\ status[s] = "starting" /\ disp.session # s
  /\ status' = [status EXCEPT ![s] = "ended"]
  /\ locked' = locked \ {s}
  /\ Worker /\ UNCHANGED pids

Spawned(s) ==
  /\ status[s] = "running"
  /\ pids' = pids \cup {s}
  /\ Worker /\ UNCHANGED <<status, locked>>

\* The outcome is committed and posted; the lock row goes after the post, and
\* never if the coroutine dies before.  The pid stays in its map.
WorkerEnds(s) ==
  /\ status[s] = "running" /\ s \in pids
  /\ status' = [status EXCEPT ![s] = "ended"]
  /\ Worker /\ UNCHANGED <<locked, pids>>

\* Mutant of LockReleased: as soon as the process is gone.
LockReleasedEarly(s) ==
  /\ status[s] = "running" /\ s \in pids \cap locked
  /\ locked' = locked \ {s}
  /\ Worker /\ UNCHANGED <<status, pids>>

LockReleased(s) ==
  /\ status[s] = "ended" /\ s \in locked
  /\ locked' = locked \ {s}
  /\ Worker /\ UNCHANGED <<status, pids>>

\* projects remove, or projects add of a prefix that is not there.
EditRegistry(p) ==
  /\ edits < MaxEdits
  /\ edits' = edits + 1
  /\ registry' = IF p \in registry THEN registry \ {p} ELSE registry \cup {p}
  /\ UNCHANGED <<botKnown, rows, pids, stop, disp, last>>

-----------------------------------------------------------------------------
Dispatches ==
  \/ /\ Listening
     /\ \E m \in Messages : \/ Ignore(m) \/ Answer(m) \/ Collide(m) \/ Signal(m)
                            \/ \E s \in Sessions : Open(m, s)
  \/ Replied \/ TopicCreated \/ TopicFails \/ HandOff

Works(s) == WorktreeAdded(s) \/ WorktreeFails(s) \/ Spawned(s) \/ WorkerEnds(s)
              \/ LockReleased(s)

Next ==
  \/ Dispatches
  \/ \E s \in Sessions : Works(s)
  \/ \E p \in Prefixes : EditRegistry(p)

Spec == Init /\ [][Next]_vars
-----------------------------------------------------------------------------
(***************************************************************************)
(* Properties.                                                             *)
(***************************************************************************)
\* Types, and how the parts of a session fit together: an unfinished one holds
\* the lock row of an issue nobody else holds, a topic belongs to a session
\* that got past the forum call, a stop to a session whose pid is known.
DispatchInv ==
  /\ registry \in SUBSET Prefixes
  /\ issue \in [Sessions -> Issues \cup {None}]
  /\ msg \in Message
  /\ Active \subseteq locked
  /\ \A s, t \in locked : issue[s] = issue[t] => s = t
  /\ \A s \in topics : status[s] \notin {"absent", "enqueued"}
  /\ signalled \subseteq inFlight /\ inFlight \subseteq pids
  /\ disp.at = "forum" => status[disp.session] = "enqueued"
  /\ disp.at = "announcing" => status[disp.session] = "starting"

\* Both accept paths, plain text and /run, keep the promise of IssueSlots:
\* one session per issue, never more than the limit.
Slots == INSTANCE IssueSlots
           WITH Capacity <- MaxConcurrent,
                open     <- {<<s, issue[s]>> : s \in Active},
                closed   <- {s \in Sessions : status[s] = "ended"}
ImplementsSlots == Slots!Spec

Handled == handled' = handled + 1

\* The operator wants something of this bot: /run, /status, or an issue key in
\* a text that is no command of this bot.
Wants(m) == /\ m.sender = "operator"
            /\ IF m.command = "none" \/ (m.at = "other" /\ botKnown)
               THEN m.key # None ELSE m.command \in {"run", "status"}

\* A command is answered where it came from, other texts in the main chat; a
\* topic that cannot be created is always reported in the main chat.
AnsweredAtOrigin ==
  /\ fate = "answered" =>
       posted = <<IF msg.command # "none" /\ (msg.at = "other" => ~botKnown)
                  THEN msg.place ELSE Main>>
  /\ fate = "no_topic" => posted = <<Main>>
  /\ fate \in {"ignored", "opening", "opened", "signalled", "raised"} => posted = << >>

\* Whoever is not on the whitelist gets nothing: no session, no signal, no reply.
StrangersPowerless ==
  Handled /\ msg'.sender = "stranger"
    => fate' = "ignored" /\ UNCHANGED <<rows, stop, disp>>

\* What the operator wants leads to a session or a reply, unless the last
\* session of the issue has ended and has not given its lock row back.
WantsAreMet ==
  Handled /\ Wants(msg') /\ fate' \notin {"answered", "opening"}
    => \E s \in locked : status[s] = "ended" /\ issue[s] = msg'.key

\* A session is opened or its failure reported before the next message.
OpeningIsSettled ==
  /\ ~Handled /\ fate = "opening" => fate' \in {"opening", "opened", "no_topic"}
  /\ Handled => fate # "opening"

\* An operator who wants something is answered once, with a session or a reply
\* in the right place, and nobody else is.  The only exception is the message
\* about an issue whose lock row is late: it is dropped without a word.
OperatorHeard ==
  [][WantsAreMet /\ OpeningIsSettled /\ AnsweredAtOrigin' /\ StrangersPowerless]_vars

SignalHits ==
  \A s \in signalled' \ signalled :
    /\ Handled /\ msg'.sender = "operator" /\ msg'.command = "cancel"
    /\ msg'.place = s /\ s \in Active /\ s \notin inFlight

CancelUnheard ==
  /\ Handled /\ fate' = "ignored"
  /\ msg'.sender = "operator" /\ msg'.command = "cancel"
  /\ msg'.at = "other" => ~botKnown

IgnoredWithoutWorker ==
  CancelUnheard => msg'.place \notin Active \cap pids \/ msg'.place \in inFlight

\* SIGUSR1 goes to the worker of the topic the operator wrote /cancel in, once;
\* and such a /cancel is ignored only while no worker of that topic is known
\* or when its stop is already under way.
CancelHitsItsTopic == [][SignalHits /\ IgnoredWithoutWorker]_vars

\* A command for another bot stops nothing, is no question, and its words start
\* nothing; but an issue key in it is read like any other text, although
\* dispatcher.py:119-121 says a command never falls through to plain text.
OtherBotsCommand ==
  Handled /\ botKnown /\ msg'.at = "other" =>
    /\ UNCHANGED stop
    /\ fate' = "answered" => msg'.key # None /\ posted' = <<Main>>
    /\ fate' = "opening" => issue'[disp'.session] = msg'.key
OtherBotsCommands == [][OtherBotsCommand]_vars
=============================================================================
