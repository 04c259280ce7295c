---------------------------- MODULE DispatchProofs ----------------------------
(***************************************************************************)
(* Proofs about Dispatch, for any prefixes, numbers and sessions, any set  *)
(* of messages, and any limit.                                             *)
(***************************************************************************)
EXTENDS Dispatch, FiniteSetTheorems, TLAPS

StateOK ==
  /\ status \in [Sessions -> {"absent", "enqueued", "starting", "running", "ended"}]
  /\ topics \subseteq Sessions /\ locked \subseteq Sessions
  /\ pids \subseteq Sessions
  /\ disp \in [at : {"idle", "replying", "forum", "announcing"},
               session : Sessions \cup {None}]
  /\ disp.at \in {"forum", "announcing"} => disp.session \in Sessions
  /\ handled \in Nat

\* A lock row belongs to a session that exists, and an unfinished session is
\* about an issue.
RowsOK ==
  /\ \A s \in locked : status[s] # "absent"
  /\ \A s \in Active : issue[s] \in Issues

\* While a session is being opened, that is what became of the last message,
\* and nothing was posted for it.
FateOK ==
  /\ fate = "opening" <=> disp.at \in {"forum", "announcing"}
  /\ AnsweredAtOrigin

CapOK == IsFiniteSet(Active)

RouteInv == StateOK /\ DispatchInv /\ RowsOK /\ FateOK /\ CapOK

-----------------------------------------------------------------------------
\* A session that is opened gets an issue: the key in the message, or its own.
LEMMA IssueOfMessage ==
  ASSUME NEW m \in Messages, NEW s \in Sessions, Asks(m)
  PROVE  Issue(m, s) \in Issues
<1>1. m \in Message
  BY DispatchAssumption
<1>2. CASE FreeText(m)
  BY <1>2 DEF Issue, Issues
<1>3. CASE ~FreeText(m)
  <2>1. m.key # None
    BY <1>1, <1>3 DEF Asks, FreeText, Message
  <2>2. m.key \in Keys
    BY <1>1, <2>1 DEF Message
  <2>3. QED
    BY <1>3, <2>2 DEF Issue, Issues
<1>4. QED
  BY <1>2, <1>3

LEMMA InitRouteInv == Init => RouteInv
<1> SUFFICES ASSUME Init PROVE RouteInv
  OBVIOUS
<1>1. StateOK
  BY DispatchAssumption DEF Init, StateOK, Idle
<1>2. Active = {}
  BY DEF Init, Active
<1>3. NoMessage \in Message
  BY DEF NoMessage, Message, Places
<1>4. DispatchInv
  BY <1>2, <1>3 DEF Init, DispatchInv, Idle
<1>5. RowsOK
  BY <1>2 DEF Init, RowsOK
<1>6. FateOK
  BY DEF Init, FateOK, AnsweredAtOrigin, Idle
<1>7. CapOK
  BY <1>2, FS_EmptySet DEF CapOK
<1>8. QED
  BY <1>1, <1>4, <1>5, <1>6, <1>7 DEF RouteInv

-----------------------------------------------------------------------------
(***************************************************************************)
(* One lemma per kind of step.                                             *)
(***************************************************************************)
\* A message that is ignored, answered, dropped or a signal touches no row.
Replies(m) == Ignore(m) \/ Answer(m) \/ Collide(m)

LEMMA RepliesKeepRouteInv ==
  ASSUME RouteInv, disp = Idle, NEW m \in Messages, Replies(m)
  PROVE  RouteInv'
<1>1. StateOK /\ DispatchInv /\ RowsOK /\ FateOK /\ CapOK
  BY DEF RouteInv
<1>2. m \in Message
  BY DispatchAssumption
<1>3. /\ UNCHANGED <<botKnown, registry, status, issue, topics, locked, pids, inFlight, signalled>>
      /\ msg' = m /\ handled' = handled + 1
      /\ disp' = disp \/ disp' = [at |-> "replying", session |-> None]
      /\ \/ fate' \in {"ignored", "raised"} /\ posted' = << >>
         \/ fate' = "answered" /\ posted' = <<ReplyPlace(m)>>
  BY DEF Replies, Ignore, Answer, Collide, Takes, rows, stop
<1>4. Active' = Active
  BY <1>3 DEF Active
<1>5. StateOK'
  BY <1>1, <1>3 DEF StateOK
<1>6. DispatchInv'
  BY <1>1, <1>2, <1>3, <1>4 DEF DispatchInv, Idle
<1>7. RowsOK' /\ CapOK'
  BY <1>1, <1>3, <1>4 DEF RowsOK, CapOK
<1>8. FateOK'
  BY <1>1, <1>3 DEF FateOK, AnsweredAtOrigin, ReplyPlace, IsSlash, Idle
<1>9. QED
  BY <1>5, <1>6, <1>7, <1>8 DEF RouteInv

LEMMA SignalKeepsRouteInv ==
  ASSUME RouteInv, disp = Idle, NEW m \in Messages, Signal(m)
  PROVE  RouteInv'
<1>1. StateOK /\ DispatchInv /\ RowsOK /\ FateOK /\ CapOK
  BY DEF RouteInv
<1>2. m \in Message
  BY DispatchAssumption
<1>3. /\ UNCHANGED <<botKnown, registry, status, issue, topics, locked, pids, disp>>
      /\ msg' = m /\ handled' = handled + 1
      /\ fate' = "signalled" /\ posted' = << >>
  BY DEF Signal, Takes, rows
<1>4. PICK s \in Target(m) : /\ inFlight' = inFlight \cup {s}
                             /\ signalled' \in {signalled, signalled \cup {s}}
  BY DEF Signal
<1>5. Active' = Active /\ s \in pids
  BY <1>3 DEF Active, Target
<1>6. StateOK'
  BY <1>1, <1>3 DEF StateOK
<1>7. DispatchInv'
  BY <1>1, <1>2, <1>3, <1>4, <1>5 DEF DispatchInv
<1>8. RowsOK' /\ CapOK'
  BY <1>1, <1>3, <1>5 DEF RowsOK, CapOK
<1>9. FateOK'
  BY <1>1, <1>3 DEF FateOK, AnsweredAtOrigin, Idle
<1>10. QED
  BY <1>6, <1>7, <1>8, <1>9 DEF RouteInv

\* The new session takes the lock row of its issue.
LEMMA OpenKeepsRouteInv ==
  ASSUME RouteInv, disp = Idle, NEW m \in Messages, NEW s \in Sessions, Open(m, s)
  PROVE  /\ RouteInv'
         /\ s \notin Active /\ Active' = Active \cup {s}
<1>1. StateOK /\ DispatchInv /\ RowsOK /\ FateOK /\ CapOK
  BY DEF RouteInv
<1>2. m \in Message /\ Issue(m, s) \in Issues
  BY DispatchAssumption, IssueOfMessage DEF Open, Admissible
<1>3. /\ status[s] = "absent" /\ \A t \in locked : issue[t] # Issue(m, s)
      /\ status' = [status EXCEPT ![s] = "enqueued"]
      /\ issue' = [issue EXCEPT ![s] = Issue(m, s)]
      /\ locked' = locked \cup {s}
      /\ disp' = [at |-> "forum", session |-> s]
      /\ UNCHANGED <<botKnown, registry, topics, pids, inFlight, signalled>>
      /\ msg' = m /\ handled' = handled + 1
      /\ fate' = "opening" /\ posted' = << >>
  BY DEF Open, Takes, stop
<1>4. s \notin Active /\ Active' = Active \cup {s}
  BY <1>1, <1>3 DEF Active, StateOK
<1>5. StateOK'
  BY <1>1, <1>3 DEF StateOK
<1>6. s \notin locked /\ s \notin topics
  BY <1>1, <1>3 DEF RowsOK, DispatchInv
<1>7. /\ issue \in [Sessions -> Issues \cup {None}]
      /\ issue'[s] = Issue(m, s)
      /\ \A t \in Sessions \ {s} : issue'[t] = issue[t] /\ status'[t] = status[t]
      /\ status'[s] = "enqueued"
  BY <1>1, <1>3 DEF DispatchInv, StateOK
<1>8. DispatchInv'
  <2>1. (issue \in [Sessions -> Issues \cup {None}] /\ registry \in SUBSET Prefixes /\ msg \in Message)'
    BY <1>1, <1>2, <1>3, <1>7 DEF DispatchInv
  <2>2. (Active \subseteq locked)'
    BY <1>1, <1>3, <1>4 DEF DispatchInv
  <2>3. (\A t, u \in locked : issue[t] = issue[u] => t = u)'
    BY <1>1, <1>3, <1>6, <1>7 DEF DispatchInv, StateOK
  <2>4. (\A t \in topics : status[t] \notin {"absent", "enqueued"})'
    BY <1>1, <1>3, <1>6, <1>7 DEF DispatchInv, StateOK
  <2>5. (signalled \subseteq inFlight /\ inFlight \subseteq pids)'
    BY <1>1, <1>3 DEF DispatchInv
  <2>6. QED
    BY <1>3, <1>7, <2>1, <2>2, <2>3, <2>4, <2>5 DEF DispatchInv
<1>9. RowsOK'
  BY <1>1, <1>2, <1>3, <1>4, <1>6, <1>7 DEF RowsOK, StateOK, Active
<1>10. FateOK'
  BY <1>3 DEF FateOK, AnsweredAtOrigin
<1>11. CapOK'
  BY <1>1, <1>4, FS_AddElement DEF CapOK
<1>12. QED
  BY <1>4, <1>5, <1>8, <1>9, <1>10, <1>11 DEF RouteInv
\* The dispatcher goes on with the message it has.
LEMMA GoesOnKeepsRouteInv ==
  ASSUME RouteInv, Replied \/ TopicCreated \/ TopicFails \/ HandOff
  PROVE  RouteInv'
<1>1. StateOK /\ DispatchInv /\ RowsOK /\ FateOK /\ CapOK
  BY DEF RouteInv
<1>2. CASE Replied \/ HandOff
  <2>1. /\ UNCHANGED <<botKnown, registry, status, issue, topics, locked, pids, inFlight,
                       signalled, msg, posted, handled>>
        /\ disp' = Idle /\ disp.at \in {"replying", "announcing"}
        /\ \/ disp.at = "replying" /\ fate' = fate
           \/ disp.at = "announcing" /\ fate' = "opened"
    BY <1>2 DEF Replied, HandOff, rows, stop, last
  <2>2. Active' = Active
    BY <2>1 DEF Active
  <2>3. StateOK'
    BY <1>1, <2>1 DEF StateOK, Idle
  <2>4. DispatchInv'
    BY <1>1, <2>1, <2>2 DEF DispatchInv, Idle
  <2>5. RowsOK' /\ CapOK'
    BY <1>1, <2>1, <2>2 DEF RowsOK, CapOK
  <2>6. FateOK'
    BY <1>1, <2>1 DEF FateOK, AnsweredAtOrigin, Idle
  <2>7. QED
    BY <2>3, <2>4, <2>5, <2>6 DEF RouteInv
<1>3. CASE TopicCreated
  <2>1. /\ UNCHANGED <<botKnown, registry, issue, locked, pids, inFlight, signalled, msg,
                       fate, posted, handled>>
        /\ disp.at = "forum" /\ topics' = topics \cup {disp.session}
        /\ status' = [status EXCEPT ![disp.session] = "starting"]
        /\ disp' = [disp EXCEPT !.at = "announcing"]
    BY <1>3 DEF TopicCreated, stop, last
  <2>2. status[disp.session] = "enqueued" /\ disp.session \in Sessions
    BY <1>1, <2>1 DEF DispatchInv, StateOK
  <2>3. Active' = Active
    BY <1>1, <2>1, <2>2 DEF Active, StateOK
  <2>4. disp'.at = "announcing" /\ disp'.session = disp.session
    BY <1>1, <2>1 DEF StateOK
  <2>5. StateOK'
    BY <1>1, <2>1, <2>2 DEF StateOK
  <2>6. DispatchInv'
    BY <1>1, <2>1, <2>2, <2>3, <2>4 DEF DispatchInv, StateOK
  <2>7. RowsOK' /\ CapOK'
    BY <1>1, <2>1, <2>3 DEF RowsOK, CapOK, StateOK
  <2>8. FateOK'
    BY <1>1, <2>1, <2>4 DEF FateOK, AnsweredAtOrigin
  <2>9. QED
    BY <2>5, <2>6, <2>7, <2>8 DEF RouteInv
<1>4. CASE TopicFails
  <2>1. /\ UNCHANGED <<botKnown, registry, issue, topics, pids, inFlight, signalled, msg,
                       handled>>
        /\ disp.at = "forum" /\ locked' = locked \ {disp.session}
        /\ status' = [status EXCEPT ![disp.session] = "ended"]
        /\ disp' = [at |-> "replying", session |-> None]
        /\ fate' = "no_topic" /\ posted' = Append(posted, Main)
    BY <1>4 DEF TopicFails, stop
  <2>2. status[disp.session] = "enqueued" /\ disp.session \in Sessions
    BY <1>1, <2>1 DEF DispatchInv, StateOK
  <2>3. Active' = Active \ {disp.session}
    BY <1>1, <2>1, <2>2 DEF Active, StateOK
  <2>4. StateOK'
    BY <1>1, <2>1, <2>2 DEF StateOK
  <2>5. DispatchInv'
    BY <1>1, <2>1, <2>2, <2>3 DEF DispatchInv, StateOK
  <2>6. RowsOK'
    BY <1>1, <2>1, <2>3 DEF RowsOK, StateOK
  <2>7. FateOK'
    <3>1. posted = << >>
      BY <1>1, <2>1 DEF FateOK, AnsweredAtOrigin
    <3>2. posted' = <<Main>>
      BY <2>1, <3>1
    <3>3. QED
      BY <2>1, <3>2 DEF FateOK, AnsweredAtOrigin
  <2>8. CapOK'
    BY <1>1, <2>3, FS_RemoveElement DEF CapOK
  <2>9. QED
    BY <2>4, <2>5, <2>6, <2>7, <2>8 DEF RouteInv
<1>5. QED
  BY <1>2, <1>3, <1>4

\* The workers, and the registry.
LEMMA WorksKeepsRouteInv ==
  ASSUME RouteInv, NEW s \in Sessions, Works(s)
  PROVE  RouteInv'
<1>1. StateOK /\ DispatchInv /\ RowsOK /\ FateOK /\ CapOK
  BY DEF RouteInv
<1>2. UNCHANGED <<botKnown, registry, issue, topics, inFlight, signalled, disp, msg, fate,
                  posted, handled>>
  BY DEF Works, WorktreeAdded, WorktreeFails, Spawned, WorkerEnds, LockReleased, Worker,
         stop, last
<1>3. pids \subseteq pids' /\ pids' \subseteq Sessions
  BY <1>1 DEF Works, WorktreeAdded, WorktreeFails, Spawned, WorkerEnds, LockReleased, StateOK
<1>4. FateOK'
  BY <1>1, <1>2 DEF FateOK, AnsweredAtOrigin
<1>5. CASE WorktreeAdded(s)
  <2>1. /\ status[s] = "starting" /\ disp.session # s /\ UNCHANGED locked
        /\ status' = [status EXCEPT ![s] = "running"]
    BY <1>5 DEF WorktreeAdded
  <2>2. Active' = Active
    BY <1>1, <2>1 DEF Active, StateOK
  <2>3. StateOK'
    BY <1>1, <1>2, <1>3, <2>1 DEF StateOK
  <2>4. DispatchInv'
    BY <1>1, <1>2, <1>3, <2>1, <2>2 DEF DispatchInv, StateOK
  <2>5. RowsOK' /\ CapOK'
    BY <1>1, <1>2, <2>1, <2>2 DEF RowsOK, CapOK, StateOK
  <2>6. QED
    BY <1>4, <2>3, <2>4, <2>5 DEF RouteInv
<1>6. CASE WorktreeFails(s) \/ WorkerEnds(s)
  <2>1. /\ status[s] \in {"starting", "running"}
        /\ status[s] = "starting" => disp.session # s
        /\ locked' \in {locked, locked \ {s}}
        /\ status' = [status EXCEPT ![s] = "ended"]
    BY <1>6 DEF WorktreeFails, WorkerEnds
  <2>2. Active' = Active \ {s}
    BY <1>1, <2>1 DEF Active, StateOK
  <2>3. StateOK'
    BY <1>1, <1>2, <1>3, <2>1 DEF StateOK
  <2>4. DispatchInv'
    BY <1>1, <1>2, <1>3, <2>1, <2>2 DEF DispatchInv, StateOK
  <2>5. RowsOK'
    BY <1>1, <1>2, <2>1, <2>2 DEF RowsOK, StateOK
  <2>6. CapOK'
    BY <1>1, <2>2, FS_RemoveElement DEF CapOK
  <2>7. QED
    BY <1>4, <2>3, <2>4, <2>5, <2>6 DEF RouteInv
<1>7. CASE Spawned(s) \/ LockReleased(s)
  <2>1. UNCHANGED status /\ (locked' = locked \/ (status[s] = "ended" /\ locked' = locked \ {s}))
    BY <1>7 DEF Spawned, LockReleased
  <2>2. Active' = Active
    BY <2>1 DEF Active
  <2>3. StateOK'
    BY <1>1, <1>2, <1>3, <2>1 DEF StateOK
  <2>4. DispatchInv'
    BY <1>1, <1>2, <1>3, <2>1, <2>2 DEF DispatchInv, Active
  <2>5. RowsOK' /\ CapOK'
    BY <1>1, <1>2, <2>1, <2>2 DEF RowsOK, CapOK
  <2>6. QED
    BY <1>4, <2>3, <2>4, <2>5 DEF RouteInv
<1>8. QED
  BY <1>5, <1>6, <1>7 DEF Works

LEMMA EditKeepsRouteInv ==
  ASSUME RouteInv, NEW p \in Prefixes, EditRegistry(p)
  PROVE  RouteInv'
<1>1. /\ registry' \in {registry \ {p}, registry \cup {p}}
      /\ UNCHANGED <<botKnown, status, issue, topics, locked, pids, inFlight, signalled,
                     disp, msg, fate, posted, handled>>
  BY DEF EditRegistry, rows, stop, last
<1>2. Active' = Active
  BY <1>1 DEF Active
<1>3. QED
  BY <1>1, <1>2 DEF RouteInv, StateOK, DispatchInv, RowsOK, FateOK, AnsweredAtOrigin, CapOK

\* RouteInv is inductive.
LEMMA NextRouteInv ==
  ASSUME RouteInv, [Next]_vars
  PROVE  RouteInv'
<1>1. CASE UNCHANGED vars
  <2>1. Active' = Active
    BY <1>1 DEF vars, rows, Active
  <2>2. QED
    BY <1>1, <2>1 DEF vars, rows, stop, last, RouteInv, StateOK, DispatchInv, RowsOK, FateOK,
                      AnsweredAtOrigin, CapOK
<1>2. CASE Dispatches
  BY <1>2, RepliesKeepRouteInv, SignalKeepsRouteInv, OpenKeepsRouteInv, GoesOnKeepsRouteInv
  DEF Dispatches, Replies, Listening
<1>3. QED
  BY <1>1, <1>2, WorksKeepsRouteInv, EditKeepsRouteInv DEF Next
-----------------------------------------------------------------------------
(***************************************************************************)
(* What a step does with a message.                                        *)
(***************************************************************************)
\* The steps that handle a message, and those that do not.
LEMMA StepHandles ==
  ASSUME RouteInv, [Next]_vars
  PROVE  \/ /\ Handled /\ disp = Idle
            /\ \E m \in Messages : Ignore(m) \/ Answer(m) \/ Collide(m) \/ Signal(m)
                                   \/ \E s \in Sessions : Open(m, s)
         \/ /\ ~Handled /\ UNCHANGED stop
            /\ fate' = fate \/ disp.at \in {"forum", "announcing"}
            /\ fate = "opening" => fate' \in {"opening", "opened", "no_topic"}
<1>1. handled \in Nat /\ (fate = "opening" <=> disp.at \in {"forum", "announcing"})
  BY DEF RouteInv, StateOK, FateOK
<1>2. CASE Listening /\ \E m \in Messages : Ignore(m) \/ Answer(m) \/ Collide(m) \/ Signal(m)
                                             \/ \E s \in Sessions : Open(m, s)
  BY <1>2 DEF Listening, Handled, Ignore, Answer, Collide, Signal, Open, Takes
<1>3. CASE Replied \/ TopicCreated \/ TopicFails \/ HandOff
  BY <1>1, <1>3 DEF Handled, Replied, TopicCreated, TopicFails, HandOff, last
<1>4. ASSUME NEW s \in Sessions, Works(s)
      PROVE  ~Handled /\ fate' = fate /\ UNCHANGED stop
  BY <1>1, <1>4 DEF Handled, Works, WorktreeAdded, WorktreeFails, Spawned, WorkerEnds, LockReleased,
                    Worker, last
<1>5. ASSUME NEW p \in Prefixes, EditRegistry(p)
      PROVE  ~Handled /\ fate' = fate /\ UNCHANGED stop
  BY <1>1, <1>5 DEF Handled, EditRegistry, last
<1>6. CASE UNCHANGED vars
  BY <1>1, <1>6 DEF Handled, vars, last
<1>7. QED
  BY <1>1, <1>2, <1>3, <1>4, <1>5, <1>6 DEF Next, Dispatches

\* What a message may become.
LEMMA MessageFate ==
  ASSUME NEW m \in Messages,
         \/ Ignore(m) \/ Answer(m) \/ Collide(m) \/ Signal(m)
         \/ \E s \in Sessions : Open(m, s)
  PROVE  /\ msg' = m /\ m.place \in {Main} \cup topics /\ UNCHANGED botKnown
         /\ \/ Ignored(m) /\ fate' = "ignored" /\ UNCHANGED <<rows, stop, disp>>
            \/ /\ ~Ignored(m) /\ fate' = "answered" /\ Answered(m)
               /\ posted' = <<ReplyPlace(m)>> /\ UNCHANGED <<rows, stop>>
            \/ /\ ~Ignored(m) /\ fate' = "raised" /\ Admissible(m) /\ ~FreeText(m)
               /\ \E t \in locked : issue[t] = m.key
               /\ UNCHANGED <<rows, stop, disp>>
            \/ /\ ~Ignored(m) /\ fate' = "signalled" /\ IsSlash(m) /\ m.command = "cancel"
               /\ \E t \in Target(m) : signalled' \in {signalled, signalled \cup {t}}
               /\ UNCHANGED <<rows, disp>>
            \/ /\ ~Ignored(m) /\ fate' = "opening" /\ Admissible(m) /\ UNCHANGED stop
               /\ \E s \in Sessions : issue' = [issue EXCEPT ![s] = Issue(m, s)]
                                     /\ disp'.session = s
<1>1. CASE Ignore(m) \/ Answer(m) \/ Collide(m)
  BY <1>1 DEF Ignore, Answer, Collide, Takes
<1>2. CASE Signal(m)
  BY <1>2 DEF Signal, Takes
<1>3. CASE \E s \in Sessions : Open(m, s)
  <2>1. PICK s \in Sessions : Open(m, s)
    BY <1>3
  <2>2. /\ msg' = m /\ m.place \in {Main} \cup topics /\ UNCHANGED botKnown
        /\ ~Ignored(m) /\ fate' = "opening" /\ Admissible(m) /\ UNCHANGED stop
        /\ issue' = [issue EXCEPT ![s] = Issue(m, s)]
    BY <2>1 DEF Open, Takes, stop
  <2>3. disp'.session = s
    BY <2>1 DEF Open
  <2>4. QED
    BY <2>2, <2>3
<1>4. QED
  BY <1>1, <1>2, <1>3

-----------------------------------------------------------------------------
\* The rows, locks, topics and stops of the sessions fit together.
THEOREM DispatchInvariant == Spec => []DispatchInv
<1>1. RouteInv => DispatchInv
  BY DEF RouteInv
<1>2. QED
  BY <1>1, InitRouteInv, NextRouteInv, PTL DEF Spec

\* SIGUSR1 goes to the worker of the topic /cancel was written in, and a /cancel
\* there is ignored only without such a worker or while its stop is under way.
LEMMA StepCancels ==
  ASSUME RouteInv, [Next]_vars
  PROVE  SignalHits /\ IgnoredWithoutWorker
<1>1. CASE ~Handled
  BY <1>1, StepHandles DEF SignalHits, IgnoredWithoutWorker, CancelUnheard, stop
<1>2. CASE Handled
  <2>1. PICK m \in Messages :
          \/ Ignore(m) \/ Answer(m) \/ Collide(m) \/ Signal(m)
          \/ \E s \in Sessions : Open(m, s)
    BY <1>2, StepHandles
  <2>2. SignalHits
    BY <1>2, <2>1, MessageFate DEF SignalHits, Ignored, Allowed, Target, stop
  <2>3. IgnoredWithoutWorker
    <3>1. SUFFICES ASSUME CancelUnheard
                   PROVE  m.place \notin Active \cap pids \/ m.place \in inFlight
      BY <2>1, MessageFate DEF IgnoredWithoutWorker
    <3>2. /\ m.sender = "operator" /\ m.command = "cancel" /\ IsSlash(m)
          /\ m.place \in {Main} \cup topics /\ Ignored(m)
      BY <2>1, <3>1, MessageFate DEF CancelUnheard, IsSlash
    <3>3. Target(m) = {}
      BY <3>2 DEF Ignored, Allowed
    <3>4. Main \notin Active
      BY DispatchAssumption DEF Active
    <3>5. QED
      BY <3>2, <3>3, <3>4 DEF Target
  <2>4. QED
    BY <2>2, <2>3
<1>3. QED
  BY <1>1, <1>2

\* The operator's /cancel reaches the worker of its topic, and no other.
THEOREM CancelHitsAlways == Spec => CancelHitsItsTopic
<1>1. RouteInv /\ [Next]_vars => [SignalHits /\ IgnoredWithoutWorker]_vars
  BY StepCancels
<1>2. QED
  BY <1>1, InitRouteInv, NextRouteInv, PTL DEF Spec, CancelHitsItsTopic

-----------------------------------------------------------------------------
\* A step keeps what OperatorHeard promises.
LEMMA StepHears ==
  ASSUME RouteInv, [Next]_vars
  PROVE  WantsAreMet /\ OpeningIsSettled /\ AnsweredAtOrigin' /\ StrangersPowerless
<1>1. AnsweredAtOrigin'
  BY NextRouteInv DEF RouteInv, FateOK
<1>2. CASE ~Handled
  BY <1>1, <1>2, StepHandles DEF WantsAreMet, OpeningIsSettled, StrangersPowerless
<1>3. CASE Handled
  <2>1. PICK m \in Messages :
          \/ Ignore(m) \/ Answer(m) \/ Collide(m) \/ Signal(m)
          \/ \E s \in Sessions : Open(m, s)
    BY <1>3, StepHandles
  <2>2. OpeningIsSettled
    BY <1>3, StepHandles DEF OpeningIsSettled, RouteInv, FateOK, Idle
  <2>3. StrangersPowerless
    BY <2>1, MessageFate DEF StrangersPowerless, Ignored, Allowed
  <2>4. WantsAreMet
    <3>1. SUFFICES ASSUME Wants(m)', fate' \notin {"answered", "opening"}
                   PROVE  \E s \in locked : status[s] = "ended" /\ issue[s] = m.key
      BY <2>1, MessageFate DEF WantsAreMet, Wants
    <3>2. Wants(m) /\ m.sender = "operator"
      BY <2>1, <3>1, MessageFate DEF Wants
    <3>3. ~Ignored(m)
      BY <3>2 DEF Wants, Ignored, Allowed, IsSlash
    <3>4. ~(IsSlash(m) /\ m.command = "cancel")
      BY <3>2 DEF Wants, IsSlash
    <3>5. Admissible(m) /\ ~FreeText(m) /\ \E t \in locked : issue[t] = m.key
      BY <2>1, <3>1, <3>3, <3>4, MessageFate
    <3>6. \A t \in Active : issue[t] # m.key
      BY <3>5 DEF Admissible, InFlight
    <3>7. \A t \in locked \ Active : status[t] = "ended"
      BY DEF RouteInv, RowsOK, StateOK, Active
    <3>8. QED
      BY <3>5, <3>6, <3>7
  <2>5. QED
    BY <1>1, <2>2, <2>3, <2>4
<1>4. QED
  BY <1>2, <1>3

\* Every wish of the operator ends in a session or in a reply at its place, but
\* for an issue whose lock row is late; nobody else gets anything.
THEOREM OperatorHeardAlways == Spec => OperatorHeard
<1>1. RouteInv /\ [Next]_vars
        => [WantsAreMet /\ OpeningIsSettled /\ AnsweredAtOrigin' /\ StrangersPowerless]_vars
  BY StepHears
<1>2. QED
  BY <1>1, InitRouteInv, NextRouteInv, PTL DEF Spec, OperatorHeard

\* What another bot's command can do is what a plain text can.
THEOREM OtherBotsAlways == Spec => OtherBotsCommands
<1>1. ASSUME RouteInv, [Next]_vars
      PROVE  OtherBotsCommand
  <2>1. SUFFICES ASSUME Handled, botKnown, msg'.at = "other"
                 PROVE  /\ UNCHANGED stop
                        /\ fate' = "answered" => msg'.key # None /\ posted' = <<Main>>
                        /\ fate' = "opening" => issue'[disp'.session] = msg'.key
    BY DEF OtherBotsCommand
  <2>2. PICK m \in Messages :
          \/ Ignore(m) \/ Answer(m) \/ Collide(m) \/ Signal(m)
          \/ \E s \in Sessions : Open(m, s)
    BY <1>1, <2>1, StepHandles
  <2>3. msg' = m /\ ~IsSlash(m) /\ ~FreeText(m)
    BY <2>1, <2>2, MessageFate DEF IsSlash, FreeText
  <2>4. DOMAIN issue = Sessions
    BY <1>1 DEF RouteInv, DispatchInv
  <2>5. QED
    BY <2>2, <2>3, <2>4, MessageFate DEF Answered, Asks, ReplyPlace, Issue
<1>2. QED
  BY <1>1, InitRouteInv, NextRouteInv, PTL DEF Spec, OtherBotsCommands
-----------------------------------------------------------------------------
(***************************************************************************)
(* Refinement of IssueSlots.                                               *)
(***************************************************************************)
Pairs == {<<s, issue[s]>> : s \in Active}
Ended == {s \in Sessions : status[s] = "ended"}

LEMMA PairsCounted ==
  ASSUME IsFiniteSet(Active)
  PROVE  Slots!Cardinality(Pairs) = Cardinality(Active)
<1> DEFINE f == [s \in Active |-> <<s, issue[s]>>]
<1>1. f \in Bijection(Active, Pairs)
  BY DEF Pairs, Bijection, Injection, Surjection, IsInjective
<1>2. ExistsBijection(Active, Pairs)
  BY <1>1 DEF ExistsBijection
<1>3. Cardinality(Pairs) = Cardinality(Active)
  BY <1>2, FS_Bijection
<1>4. QED
  BY <1>3 DEF Slots!Cardinality, Cardinality

\* Taking a message opens a slot for its issue.
LEMMA OpenTakesSlot ==
  ASSUME RouteInv, disp = Idle, NEW m \in Messages, NEW s \in Sessions, Open(m, s)
  PROVE  Slots!Next
<1>1. StateOK /\ DispatchInv /\ CapOK
  BY DEF RouteInv
<1>2. Issue(m, s) \in Issues /\ ~AtCap
  BY IssueOfMessage DEF Open, Admissible
<1>3. /\ status[s] = "absent" /\ \A t \in locked : issue[t] # Issue(m, s)
      /\ status' = [status EXCEPT ![s] = "enqueued"]
      /\ issue' = [issue EXCEPT ![s] = Issue(m, s)]
  BY DEF Open
<1>4. s \notin Active /\ Active' = Active \cup {s}
  BY OpenKeepsRouteInv
<1>5. issue'[s] = Issue(m, s) /\ \A t \in Active : issue'[t] = issue[t]
  BY <1>1, <1>3, <1>4 DEF DispatchInv, Active
<1>6. Pairs' = Pairs \cup {<<s, Issue(m, s)>>}
  BY <1>4, <1>5 DEF Pairs
<1>7. Ended' = Ended /\ s \notin Ended
  BY <1>1, <1>3 DEF Ended, StateOK
<1>8. s \notin Slots!Opened
  BY <1>4 DEF Slots!Opened
<1>9. Issue(m, s) \notin Slots!Taken
  BY <1>1, <1>3 DEF Slots!Taken, DispatchInv
<1>10. Slots!Cardinality(Pairs) < MaxConcurrent
  <2>1. Cardinality(Active) \in Nat
    BY <1>1, FS_CardinalityType DEF CapOK
  <2>2. QED
    BY <1>1, <1>2, <2>1, PairsCounted, DispatchAssumption DEF CapOK, AtCap
<1>11. PICK i \in Issues : i = Issue(m, s)
  BY <1>2
<1>12. Slots!Open(s, i)
  BY <1>6, <1>7, <1>8, <1>9, <1>10, <1>11 DEF Slots!Open, Pairs, Ended
<1>13. QED
  BY <1>12 DEF Slots!Next

\* Ending a session gives its slot back.
LEMMA EndGivesSlotBack ==
  ASSUME RouteInv, NEW s \in Active, UNCHANGED issue,
         status' = [status EXCEPT ![s] = "ended"]
  PROVE  Slots!Next
<1>1. StateOK /\ issue[s] \in Issues /\ s \in Sessions
  BY DEF RouteInv, RowsOK, Active
<1>2. Active' = Active \ {s}
  BY <1>1 DEF Active, StateOK
<1>3. Pairs' = Pairs \ {<<s, issue[s]>>} /\ <<s, issue[s]>> \in Pairs
  BY <1>2 DEF Pairs
<1>4. Ended' = Ended \cup {s}
  BY <1>1 DEF Ended, StateOK
<1>5. PICK i \in Issues : i = issue[s]
  BY <1>1
<1>6. Slots!Close(s, i)
  BY <1>3, <1>4, <1>5 DEF Slots!Close, Pairs, Ended
<1>7. QED
  BY <1>1, <1>6 DEF Slots!Next

\* The other steps leave a session where it is, or unfinished.
LEMMA OthersKeepSlots ==
  ASSUME RouteInv, UNCHANGED issue,
         \/ UNCHANGED status
         \/ \E s \in Active, v \in {"starting", "running"} :
              status' = [status EXCEPT ![s] = v]
  PROVE  UNCHANGED Slots!slotVars
<1>1. StateOK
  BY DEF RouteInv
<1>2. Active' = Active
  BY <1>1 DEF Active, StateOK
<1>3. Pairs' = Pairs
  BY <1>2 DEF Pairs
<1>4. Ended' = Ended
  BY <1>1 DEF Ended, Active, StateOK
<1>5. QED
  BY <1>3, <1>4 DEF Slots!slotVars, Pairs, Ended

LEMMA StepOnSlots ==
  ASSUME RouteInv, [Next]_vars
  PROVE  Slots!Next \/ UNCHANGED Slots!slotVars
<1>1. CASE UNCHANGED vars
  BY <1>1, OthersKeepSlots DEF vars, rows
<1>2. ASSUME disp = Idle, NEW m \in Messages, Replies(m) \/ Signal(m)
      PROVE  UNCHANGED Slots!slotVars
  <2>1. UNCHANGED <<status, issue>>
    BY <1>2 DEF Replies, Ignore, Answer, Collide, Signal, rows
  <2>2. QED
    BY <2>1, OthersKeepSlots
<1>3. CASE Replied \/ HandOff
  BY <1>3, OthersKeepSlots DEF Replied, HandOff, rows
<1>4. CASE TopicCreated \/ TopicFails
  <2>1. disp.at = "forum" /\ disp.session \in Active /\ UNCHANGED issue
    BY <1>4 DEF TopicCreated, TopicFails, RouteInv, StateOK, DispatchInv, Active
  <2>2. CASE TopicCreated
    BY <2>1, <2>2, OthersKeepSlots DEF TopicCreated
  <2>3. CASE TopicFails
    BY <2>1, <2>3, EndGivesSlotBack DEF TopicFails
  <2>4. QED
    BY <1>4, <2>2, <2>3
<1>5. ASSUME NEW s \in Sessions, Works(s)
      PROVE  Slots!Next \/ UNCHANGED Slots!slotVars
  <2>1. UNCHANGED issue
    BY <1>5 DEF Works, WorktreeAdded, WorktreeFails, Spawned, WorkerEnds, LockReleased, Worker
  <2>2. CASE WorktreeAdded(s)
    BY <2>1, <2>2, OthersKeepSlots DEF WorktreeAdded, Active
  <2>3. CASE WorktreeFails(s) \/ WorkerEnds(s)
    BY <2>1, <2>3, EndGivesSlotBack DEF WorktreeFails, WorkerEnds, Active
  <2>4. CASE Spawned(s) \/ LockReleased(s)
    BY <2>1, <2>4, OthersKeepSlots DEF Spawned, LockReleased
  <2>5. QED
    BY <1>5, <2>2, <2>3, <2>4 DEF Works
<1>6. ASSUME NEW p \in Prefixes, EditRegistry(p)
      PROVE  UNCHANGED Slots!slotVars
  BY <1>6, OthersKeepSlots DEF EditRegistry, rows
<1>7. CASE Dispatches
  BY <1>2, <1>3, <1>4, <1>7, OpenTakesSlot DEF Dispatches, Replies, Listening
<1>8. QED
  BY <1>1, <1>5, <1>6, <1>7 DEF Next

\* Both accept paths keep one session per issue and the limit.
THEOREM DispatchKeepsSlots == Spec => ImplementsSlots
<1>1. Init => Slots!Init
  BY DEF Init, Slots!Init, Active
<1>2. RouteInv /\ [Next]_vars => [Slots!Next]_(Slots!slotVars)
  BY StepOnSlots
<1>3. QED
  BY <1>1, <1>2, InitRouteInv, NextRouteInv, PTL DEF Spec, ImplementsSlots, Slots!Spec
=============================================================================
