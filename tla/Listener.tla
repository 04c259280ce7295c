------------------------------ MODULE Listener ------------------------------
(***************************************************************************)
(* The Telegram long-poll loop (daemon/listener.py): offsets and           *)
(* acknowledgement of updates, failures and backoff, pause, resume and     *)
(* stop, and what a crash of the daemon does to updates on their way.      *)
(*                                                                         *)
(* Telegram itself is external: it keeps the updates of the group in order *)
(* and forgets those below the offset of a getUpdates request it receives. *)
(***************************************************************************)
EXTENDS Naturals, Sequences, FiniteSets

CONSTANTS
  MaxUpdates,         \* bound on the updates of the group
  Texts,              \* the updates that carry a text message of the group
  DegradedThreshold,  \* _DEGRADED_THRESHOLD
  OverflowAt,         \* the failure whose 2 ** (n - 1) is too large for a float
  MaxFailures,        \* bound on the failed polls
  MaxToggles,         \* bound on the pauses and resumes
  MaxRestarts         \* bound on the restarts of the daemon

ASSUME ListenerAssumption ==
  /\ MaxUpdates \in Nat
  /\ Texts \subseteq 1 .. MaxUpdates
  /\ DegradedThreshold \in Nat \ {0}
  /\ OverflowAt \in Nat \ {0}
  /\ MaxFailures \in Nat
  /\ MaxToggles \in Nat
  /\ MaxRestarts \in Nat

VARIABLES
  posted,     \* updates of the group so far; their ids are 1 .. posted
  confirmed,  \* Telegram has forgotten the updates up to this id
  served,     \* the request in flight has reached Telegram
  loop,       \* the await Listener.run is suspended at
  offset,     \* _offset
  batch,      \* updates of the last poll not yet dispatched, head in hand
  unpaused,   \* _unpaused is set
  woken,      \* the waiter of _unpaused is scheduled
  stopping,   \* _stop_event is set
  failures,   \* consecutive_failures
  degraded,   \* state.degraded
  file,       \* state.running and state.last_update_id as last persisted
  running,    \* state.running
  handled,    \* how often on_message returned or raised, per update
  epoch,      \* the same, since the daemon last started
  polls,      \* failed polls so far
  toggles,    \* pauses and resumes so far
  restarts    \* restarts so far

telegram == <<posted, confirmed, served>>
control  == <<unpaused, woken, stopping>>
health   == <<failures, degraded, running, file>>
history  == <<handled, epoch>>
bounds   == <<polls, toggles, restarts>>
vars     == <<posted, confirmed, served, loop, offset, batch, unpaused, woken,
              stopping, failures, degraded, file, running, handled, epoch,
              polls, toggles, restarts>>

Updates == 1 .. MaxUpdates
Up      == loop \notin {"dead", "raised", "stopped"}

\* _flush_state: the snapshot the "telegram" commands read.
Flush(isRunning, last) == file' = [running |-> isRunning, last |-> last]

Init ==
  /\ posted = 0 /\ confirmed = 0 /\ served = FALSE
  /\ loop = "top" /\ offset = 0 /\ batch = << >>
  /\ unpaused = TRUE /\ woken = FALSE /\ stopping = FALSE
  /\ failures = 0 /\ degraded = FALSE /\ running = TRUE
  /\ file = [running |-> TRUE, last |-> 0]
  /\ handled = [u \in Updates |-> 0] /\ epoch = [u \in Updates |-> 0]
  /\ polls = 0 /\ toggles = 0 /\ restarts = 0

-----------------------------------------------------------------------------
(***************************************************************************)
(* Telegram.                                                               *)
(***************************************************************************)
Post ==
  /\ posted < MaxUpdates
  /\ posted' = posted + 1
  /\ UNCHANGED <<confirmed, served, loop, offset, batch, control, health,
                 history, bounds>>

\* Mutant of RequestArrives: offset sent without the + 1.
RequestArrivesUnacked ==
  /\ loop = "polling" /\ ~served
  /\ served' = TRUE
  /\ confirmed' = IF offset > 0 THEN offset - 1 ELSE confirmed
  /\ UNCHANGED <<posted, loop, offset, batch, control, health, history, bounds>>

\* getUpdates(offset + 1) confirms what lies below it, even when the answer is
\* lost; the first request of a listener carries no offset.
RequestArrives ==
  /\ loop = "polling" /\ ~served
  /\ served' = TRUE
  /\ confirmed' = IF offset > 0 THEN offset ELSE confirmed
  /\ UNCHANGED <<posted, loop, offset, batch, control, health, history, bounds>>

-----------------------------------------------------------------------------
(***************************************************************************)
(* Listener.run.                                                           *)
(***************************************************************************)
\* The top of the loop, after its sleep(0).
Iterates ==
  /\ loop = "top"
  /\ \/ /\ stopping
        /\ loop' = "stopped"
        /\ running' = FALSE
        /\ Flush(FALSE, offset)
        /\ UNCHANGED served
     \/ /\ ~stopping /\ unpaused
        /\ loop' = "polling" /\ served' = FALSE
        /\ UNCHANGED <<running, file>>
     \/ /\ ~stopping /\ ~unpaused
        /\ loop' = "paused"
        /\ UNCHANGED <<served, running, file>>
  /\ UNCHANGED <<posted, confirmed, offset, batch, control, failures, degraded,
                 history, bounds>>

\* Event.wait returns once the event was set, even if it is clear again: the
\* listener then polls without another look at it.
Wakes ==
  /\ loop = "paused" /\ woken
  /\ woken' = FALSE
  /\ \/ /\ stopping
        /\ loop' = "stopped"
        /\ running' = FALSE
        /\ Flush(FALSE, offset)
        /\ UNCHANGED served
     \/ /\ ~stopping
        /\ loop' = "polling" /\ served' = FALSE
        /\ UNCHANGED <<running, file>>
  /\ UNCHANGED <<posted, confirmed, offset, batch, unpaused, stopping, failures,
                 degraded, history, bounds>>

\* Mutant of Answered: the degraded flag is not reset.
AnsweredStillDegraded ==
  /\ loop = "polling" /\ served
  /\ loop' = "dispatching"
  /\ batch' = [n \in 1 .. posted - confirmed |-> confirmed + n]
  /\ failures' = 0
  /\ UNCHANGED <<telegram, offset, control, degraded, running, file, history, bounds>>

\* The answer carries every update Telegram still has; none when the long poll
\* timed out on its side.
Answered ==
  /\ loop = "polling" /\ served
  /\ loop' = "dispatching"
  /\ batch' = [n \in 1 .. posted - confirmed |-> confirmed + n]
  /\ failures' = 0
  /\ degraded' = FALSE
  /\ UNCHANGED <<telegram, offset, control, running, file, history, bounds>>

\* The request or its answer is lost, or Telegram answers with an error.
\* Without a retry_after the wait is _BACKOFF_BASE * 2 ** (failures - 1), capped
\* only after the product: from OverflowAt on (the 1025th failure in a row) it
\* raises OverflowError, and nothing in Listener.run catches it.
PollFails ==
  /\ loop = "polling"
  /\ polls < MaxFailures
  /\ polls' = polls + 1
  /\ failures' = failures + 1
  /\ degraded' = (degraded \/ failures + 1 >= DegradedThreshold)
  /\ Flush(running, offset)
  /\ \/ loop' = "backoff"
     \/ failures + 1 >= OverflowAt /\ loop' = "raised"
  /\ UNCHANGED <<telegram, offset, batch, control, running, history, toggles,
                 restarts>>

BackoffEnds ==
  /\ loop = "backoff"
  /\ loop' = "top"
  /\ UNCHANGED <<telegram, offset, batch, control, health, history, bounds>>

\* The update in hand raises the offset before its message is looked at.
Takes ==
  /\ loop = "dispatching" /\ batch # << >>
  /\ offset' = IF Head(batch) > offset THEN Head(batch) ELSE offset
  /\ \/ /\ Head(batch) \in Texts
        /\ loop' = "handling"
        /\ UNCHANGED batch
     \/ /\ Head(batch) \notin Texts
        /\ batch' = Tail(batch)
        /\ UNCHANGED loop
  /\ UNCHANGED <<telegram, control, health, history, bounds>>

\* Mutant of Handled: an exception of the dispatcher drops the rest of the batch.
HandledOrDropped ==
  /\ loop = "handling"
  /\ handled' = [handled EXCEPT ![Head(batch)] = @ + 1]
  /\ epoch' = [epoch EXCEPT ![Head(batch)] = @ + 1]
  /\ loop' = "dispatching"
  /\ batch' \in {Tail(batch), << >>}
  /\ offset' = IF batch' = << >> THEN batch[Len(batch)] ELSE offset
  /\ UNCHANGED <<telegram, control, health, bounds>>

\* on_message returns, or raises and the exception is logged.
Handled ==
  /\ loop = "handling"
  /\ handled' = [handled EXCEPT ![Head(batch)] = @ + 1]
  /\ epoch' = [epoch EXCEPT ![Head(batch)] = @ + 1]
  /\ loop' = "dispatching"
  /\ batch' = Tail(batch)
  /\ UNCHANGED <<telegram, offset, control, health, bounds>>

BatchDone ==
  /\ loop = "dispatching" /\ batch = << >>
  /\ Flush(running, offset)
  /\ loop' = "top"
  /\ UNCHANGED <<telegram, offset, batch, control, failures, degraded, running,
                 history, bounds>>

-----------------------------------------------------------------------------
(***************************************************************************)
(* Calls from the signal handlers, run on the loop by call_soon_threadsafe.*)
(***************************************************************************)
Pause ==
  /\ toggles < MaxToggles /\ loop # "dead"
  /\ toggles' = toggles + 1
  /\ unpaused' = FALSE
  /\ running' = FALSE
  /\ Flush(FALSE, offset)
  /\ UNCHANGED <<telegram, loop, offset, batch, woken, stopping, failures,
                 degraded, history, polls, restarts>>

Resume ==
  /\ toggles < MaxToggles /\ loop # "dead"
  /\ toggles' = toggles + 1
  /\ unpaused' = TRUE
  /\ woken' = (loop = "paused")
  /\ running' = TRUE
  /\ Flush(TRUE, offset)
  /\ UNCHANGED <<telegram, loop, offset, batch, stopping, failures, degraded,
                 history, polls, restarts>>

\* Mutant of Stop: a paused listener is not woken.
StopUnheard ==
  /\ Up /\ ~stopping
  /\ stopping' = TRUE
  /\ UNCHANGED <<telegram, loop, offset, batch, unpaused, woken, health,
                 history, bounds>>

\* A backoff ends early; a poll in flight does not.
Stop ==
  /\ Up /\ ~stopping
  /\ stopping' = TRUE
  /\ unpaused' = TRUE
  /\ woken' = (loop = "paused")
  /\ loop' = IF loop = "backoff" THEN "top" ELSE loop
  /\ UNCHANGED <<telegram, offset, batch, health, history, bounds>>

-----------------------------------------------------------------------------
(***************************************************************************)
(* Crash and restart of the daemon.  A failing write of the state file is  *)
(* no TelegramAPIError: it ends the thread of the listener like a crash.   *)
(***************************************************************************)
Crash ==
  /\ loop # "dead"
  /\ loop' = "dead"
  /\ UNCHANGED <<telegram, offset, batch, control, health, history, bounds>>

Started(from) ==
  /\ ~Up /\ restarts < MaxRestarts
  /\ restarts' = restarts + 1
  /\ loop' = "top" /\ offset' = from /\ batch' = << >>
  /\ unpaused' = TRUE /\ woken' = FALSE /\ stopping' = FALSE
  /\ failures' = 0 /\ degraded' = FALSE /\ running' = TRUE
  /\ Flush(TRUE, from)
  /\ epoch' = [u \in Updates |-> 0]
  /\ UNCHANGED <<telegram, handled, polls, toggles>>

\* Mutant of Restart: polling resumed from the persisted last_update_id.
RestartFromFile == Started(file.last)

\* initial_offset is never given: a new listener starts from 0.
Restart == Started(0)

-----------------------------------------------------------------------------
Loop == Iterates \/ Wakes \/ Answered \/ PollFails \/ BackoffEnds \/ Takes
          \/ Handled \/ BatchDone

Next == Post \/ RequestArrives \/ Loop \/ Pause \/ Resume \/ Stop
          \/ Crash \/ Restart

Spec == Init /\ [][Next]_vars

(***************************************************************************)
(* Telegram answers in the end (the failed polls are bounded) and the      *)
(* event loop keeps running.                                               *)
(***************************************************************************)
Fairness ==
  /\ WF_vars(RequestArrives)
  /\ WF_vars(Iterates \/ Wakes \/ Answered \/ BackoffEnds \/ Takes
               \/ Handled \/ BatchDone)

FairSpec == Spec /\ Fairness

-----------------------------------------------------------------------------
TypeOK ==
  /\ posted \in 0 .. MaxUpdates
  /\ confirmed \in 0 .. MaxUpdates
  /\ served \in BOOLEAN
  /\ loop \in {"top", "paused", "polling", "backoff", "dispatching",
               "handling", "stopped", "raised", "dead"}
  /\ offset \in 0 .. MaxUpdates
  /\ batch \in Seq(Updates)
  /\ unpaused \in BOOLEAN /\ woken \in BOOLEAN /\ stopping \in BOOLEAN
  /\ failures \in 0 .. MaxFailures
  /\ degraded \in BOOLEAN
  /\ file \in [running : BOOLEAN, last : 0 .. MaxUpdates]
  /\ running \in BOOLEAN
  /\ handled \in [Updates -> Nat] /\ epoch \in [Updates -> Nat]
  /\ polls \in 0 .. MaxFailures
  /\ toggles \in 0 .. MaxToggles
  /\ restarts \in 0 .. MaxRestarts

\* The updates in hand are the next ones, without a gap, and Telegram still
\* has them.
BatchIsNext ==
  /\ confirmed <= posted /\ offset <= posted
  /\ \A n \in 1 .. Len(batch) : confirmed < batch[n] /\ batch[n] <= posted
  /\ \A n \in 1 .. Len(batch) - 1 : batch[n + 1] = batch[n] + 1
  /\ loop = "handling" => batch # << >> /\ offset = Head(batch)

\* The degraded flag counts the failures in a row; only a paused listener, or
\* one that died in the pause, has a scheduled waiter.
FlagsAgree ==
  /\ degraded <=> failures >= DegradedThreshold
  /\ woken => loop \in {"paused", "dead"}

\* Types, the batch in hand, and the flags.
ListenerInv == TypeOK /\ BatchIsNext /\ FlagsAgree

\* Telegram only forgets a message of the group after the dispatcher has had
\* it: no crash, lost answer or restart swallows a trigger.
NothingForgotten == \A u \in Texts : u <= confirmed => handled[u] > 0

\* Between two starts of the daemon no message reaches the dispatcher twice,
\* however often polls fail after Telegram has seen the request: over all, a
\* message is repeated once per restart at most.
NoRepeatWithinRun ==
  \A u \in Updates : epoch[u] <= 1 /\ handled[u] <= restarts + 1

\* The message that is being dispatched, or was when the daemon died.
InHand == batch # << >> /\ offset = Head(batch)

\* The loop implements InOrderDelivery: the offset has passed what the run has
\* taken, and a run that was never answered stands where Telegram's memory
\* begins.
Delivery == INSTANCE InOrderDelivery WITH
  forgotten <- confirmed,
  reached   <- IF InHand THEN offset - 1 ELSE IF offset = 0 THEN confirmed ELSE offset,
  count     <- handled,
  runs      <- restarts
ImplementsDelivery == Delivery!Spec

\* A stop ends the loop, from a pause and from a backoff too.
StopHeard == stopping ~> ~Up

\* No wakeup is lost: a loop that waits for a resume when it is told to stop has
\* its waiter scheduled, whatever pause and resume follow.
StopWakes == stopping /\ loop = "paused" => woken

\* The iterations, messages and waits that a loop has before it when it is told
\* to stop: the poll in flight and the batch it brings are not cut short.
StopLeft == CASE loop \in {"top", "paused"}     -> 1
              [] loop = "backoff"              -> 2
              [] loop = "dispatching"          -> 2 + 2 * Len(batch)
              [] loop = "handling"             -> 1 + 2 * Len(batch)
              [] loop = "polling" /\ served    -> 3 + 2 * MaxUpdates
              [] loop = "polling" /\ ~served   -> 4 + 2 * MaxUpdates
              [] OTHER                         -> 0

\* Every step of a loop that was told to stop brings it nearer to its end; no
\* pause, resume or new update gives it more to do.
StopRunsDown ==
  [][stopping /\ stopping' =>
       /\ StopLeft' <= StopLeft
       /\ RequestArrives \/ Loop => StopLeft' < StopLeft]_vars

\* A message is handled in the end unless the operator pauses or stops the
\* listener or it is down; failed polls and exceptions do not lose it.
Heard(u) == posted >= u /\ u \in Texts
EveryMessageHandled ==
  \A u \in Updates :
    Heard(u) ~> (handled[u] > 0 \/ ~unpaused \/ stopping \/ ~Up)

-----------------------------------------------------------------------------
(***************************************************************************)
(* What the module docstring says and the code does not do.                *)
(***************************************************************************)
\* daemon/listener.py, module docstring: a failed poll waits, "capped at
\* backoff_max_seconds", and is tried again, however long the outage.
OutageIsSurvived == loop # "raised"
=============================================================================
