--------------------------- MODULE ListenerProofs ---------------------------
(***************************************************************************)
(* Proofs about Listener, for every number of updates, failed polls,       *)
(* toggles and restarts, and any choice of the updates that are texts.     *)
(***************************************************************************)
EXTENDS Listener, SequenceTheorems, TLAPS

\* Where there is a batch, and how far the offset is behind it.
Progress ==
  /\ failures <= polls
  /\ loop \notin {"dispatching", "handling", "dead"} => batch = << >>
  /\ loop = "polling" /\ served /\ offset > 0 => confirmed = offset
  /\ loop = "dispatching" /\ batch # << >> => offset < Head(batch)

\* Everything below the batch, and everything the offset has passed, was
\* handled, but for the message in hand.
Delivered ==
  /\ NothingForgotten
  /\ loop # "dead" /\ batch # << >> =>
       \A u \in Texts : u < Head(batch) => handled[u] > 0
  /\ loop # "dead" => \A u \in Texts : u <= offset =>
       handled[u] > 0 \/ (loop = "handling" /\ u = Head(batch))

\* What this run has handled lies behind the offset and below the batch.
Once ==
  /\ NoRepeatWithinRun
  /\ \A u \in Updates : handled[u] <= epoch[u] + restarts
  /\ \A u \in Updates : epoch[u] > 0 => u <= offset
  /\ loop # "dead" /\ batch # << >> =>
       \A u \in Updates : epoch[u] > 0 => u < Head(batch)

LoopInv == ListenerInv /\ Progress /\ Delivered /\ Once

-----------------------------------------------------------------------------
\* The updates are numbered.
LEMMA UpdatesAreNumbers == Updates \subseteq Nat /\ Texts \subseteq Updates
  BY ListenerAssumption DEF Updates

\* A sequence of updates without a gap, all of them still Telegram's.
InOrder(seq) ==
  /\ \A n \in 1 .. Len(seq) : confirmed < seq[n] /\ seq[n] <= posted
  /\ \A n \in 1 .. Len(seq) - 1 : seq[n + 1] = seq[n] + 1

\* The first update of a batch, and what the rest of it looks like.
LEMMA RestOfBatch ==
  ASSUME TypeOK, BatchIsNext, batch # << >>
  PROVE  /\ Head(batch) \in Updates /\ Tail(batch) \in Seq(Updates)
         /\ confirmed < Head(batch) /\ Head(batch) <= posted
         /\ Tail(batch) # << >> => Head(Tail(batch)) = Head(batch) + 1
         /\ InOrder(Tail(batch))
<1> USE DEF BatchIsNext
<1>1. batch \in Seq(Updates) /\ Len(batch) \in Nat /\ Len(batch) >= 1
  BY EmptySeq, LenProperties DEF TypeOK
<1>2. Head(batch) = batch[1] /\ batch[1] \in Updates
  BY <1>1, ElementOfSeq
<1>3. /\ Tail(batch) \in Seq(Updates)
      /\ Len(Tail(batch)) = Len(batch) - 1
      /\ \A n \in 1 .. Len(Tail(batch)) : Tail(batch)[n] = batch[n + 1]
  BY <1>1, HeadTailProperties
<1>4. Tail(batch) # << >> => Len(Tail(batch)) >= 1 /\ Head(Tail(batch)) = Tail(batch)[1]
  BY <1>3, LenProperties, EmptySeq
<1>5. Tail(batch) # << >> => Head(Tail(batch)) = Head(batch) + 1
  BY <1>1, <1>2, <1>3, <1>4
<1>6. confirmed < Head(batch) /\ Head(batch) <= posted
  BY <1>1, <1>2
<1>7. InOrder(Tail(batch))
  BY <1>1, <1>3 DEF InOrder
<1>8. QED
  BY <1>2, <1>3, <1>5, <1>6, <1>7

\* The answer to a poll: the updates Telegram still has, in their order.
LEMMA AnswerIsBatch ==
  ASSUME TypeOK, BatchIsNext, NEW answer,
         answer = [n \in 1 .. posted - confirmed |-> confirmed + n]
  PROVE  /\ answer \in Seq(Updates)
         /\ answer # << >> => Head(answer) = confirmed + 1
         /\ InOrder(answer)
<1> USE ListenerAssumption DEF TypeOK, BatchIsNext, Updates
<1>1. posted - confirmed \in Nat /\ answer \in [1 .. posted - confirmed -> Updates]
  OBVIOUS
<1>2. answer \in Seq(Updates) /\ Len(answer) = posted - confirmed
  BY <1>1, SeqDef, LenProperties
<1>3. answer # << >> => Len(answer) >= 1
  BY <1>2, EmptySeq, LenProperties
<1>4. answer # << >> => Head(answer) = confirmed + 1
  BY <1>2, <1>3
<1>5. InOrder(answer)
  BY <1>2 DEF InOrder
<1>6. QED
  BY <1>2, <1>4, <1>5

-----------------------------------------------------------------------------
\* A new listener has nothing in hand and has handled nothing.
LEMMA InitLoopInv == Init => LoopInv
<1> SUFFICES ASSUME Init PROVE LoopInv
  OBVIOUS
<1>1. batch \in Seq(Updates) /\ Len(batch) = 0
  BY EmptySeq DEF Init
<1>2. TypeOK
  <2>1. handled \in [Updates -> Nat] /\ epoch \in [Updates -> Nat]
    BY DEF Init
  <2>2. file \in [running : BOOLEAN, last : 0 .. MaxUpdates]
    BY ListenerAssumption DEF Init
  <2>3. served \in BOOLEAN /\ unpaused \in BOOLEAN /\ woken \in BOOLEAN
        /\ stopping \in BOOLEAN /\ degraded \in BOOLEAN /\ running \in BOOLEAN
    BY DEF Init
  <2>4. /\ posted \in 0 .. MaxUpdates /\ confirmed \in 0 .. MaxUpdates
        /\ offset \in 0 .. MaxUpdates /\ failures \in 0 .. MaxFailures
        /\ polls \in 0 .. MaxFailures /\ toggles \in 0 .. MaxToggles
        /\ restarts \in 0 .. MaxRestarts /\ loop = "top"
    BY ListenerAssumption DEF Init
  <2>5. QED
    BY <1>1, <2>1, <2>2, <2>3, <2>4 DEF TypeOK
<1>3. BatchIsNext /\ FlagsAgree
  BY <1>1, ListenerAssumption DEF Init, BatchIsNext, FlagsAgree
<1>4. QED
  BY <1>2, <1>3, ListenerAssumption
  DEF Init, LoopInv, ListenerInv, Progress, Delivered, Once, NothingForgotten,
      NoRepeatWithinRun, Updates

-----------------------------------------------------------------------------
(***************************************************************************)
(* Steps that leave the batch and what was handled alone.                  *)
(***************************************************************************)
Quiet == \/ Post \/ RequestArrives \/ Iterates \/ Wakes \/ PollFails \/ BackoffEnds
         \/ Pause \/ Resume \/ Stop \/ Crash

\* What is flushed to the state file has its types.
LEMMA FlushTypes ==
  ASSUME TypeOK, NEW r \in BOOLEAN, Flush(r, offset)
  PROVE  (file \in [running : BOOLEAN, last : 0 .. MaxUpdates])'
  BY ListenerAssumption DEF TypeOK, Flush

LEMMA QuietTypeOK ==
  ASSUME TypeOK, Progress, Quiet
  PROVE  TypeOK'
<1> USE DEF telegram, control, health, history, bounds
<1>1. CASE Post
  BY <1>1, ListenerAssumption DEF Post, TypeOK
<1>2. CASE RequestArrives
  BY <1>2, ListenerAssumption DEF RequestArrives, TypeOK
<1>3. CASE Iterates
  <2>1. (file \in [running : BOOLEAN, last : 0 .. MaxUpdates])'
    <3>1. CASE UNCHANGED file
      BY <3>1 DEF TypeOK
    <3>2. CASE Flush(FALSE, offset)
      BY <3>2, FlushTypes
    <3>3. QED
      BY <1>3, <3>1, <3>2 DEF Iterates
  <2>2. QED
    BY <1>3, <2>1 DEF Iterates, TypeOK
<1>4. CASE Wakes
  <2>1. (file \in [running : BOOLEAN, last : 0 .. MaxUpdates])'
    <3>1. CASE UNCHANGED file
      BY <3>1 DEF TypeOK
    <3>2. CASE Flush(FALSE, offset)
      BY <3>2, FlushTypes
    <3>3. QED
      BY <1>4, <3>1, <3>2 DEF Wakes
  <2>2. QED
    BY <1>4, <2>1 DEF Wakes, TypeOK
<1>5. CASE PollFails
  BY <1>5, ListenerAssumption DEF PollFails, Flush, Progress, TypeOK
<1>6. CASE BackoffEnds
  BY <1>6 DEF BackoffEnds, TypeOK
<1>7. CASE Pause
  <2>1. (file \in [running : BOOLEAN, last : 0 .. MaxUpdates])'
    BY <1>7, FlushTypes DEF Pause
  <2>2. (unpaused \in BOOLEAN /\ running \in BOOLEAN)'
    BY <1>7 DEF Pause
  <2>3. (toggles \in 0 .. MaxToggles)'
    BY <1>7, ListenerAssumption DEF Pause, TypeOK
  <2>4. UNCHANGED <<telegram, loop, offset, batch, woken, stopping, failures,
                    degraded, history, polls, restarts>>
    BY <1>7 DEF Pause
  <2>5. QED
    BY <2>1, <2>2, <2>3, <2>4 DEF TypeOK
<1>8. CASE Resume
  BY <1>8, ListenerAssumption DEF Resume, Flush, TypeOK
<1>9. CASE Stop
  BY <1>9 DEF Stop, TypeOK
<1>10. CASE Crash
  BY <1>10 DEF Crash, TypeOK
<1>11. QED
  BY <1>1, <1>2, <1>3, <1>4, <1>5, <1>6, <1>7, <1>8, <1>9, <1>10 DEF Quiet

LEMMA QuietBatchIsNext ==
  ASSUME TypeOK, BatchIsNext, Progress, Quiet
  PROVE  BatchIsNext'
<1> USE ListenerAssumption
    DEF BatchIsNext, TypeOK, telegram, control, health, history, bounds
<1>1. CASE Post
  <2>1. \A n \in 1 .. Len(batch) : batch[n] \in Updates
    BY ElementOfSeq
  <2>2. /\ posted' = posted + 1
        /\ UNCHANGED <<confirmed, loop, offset, batch>>
    BY <1>1 DEF Post
  <2>3. posted \in Nat /\ confirmed \in Nat /\ offset \in Nat
    OBVIOUS
  <2>4. \A n \in 1 .. Len(batch) : batch[n] \in Nat
    BY <2>1, UpdatesAreNumbers
  <2>5. \A n \in 1 .. Len(batch) : confirmed < batch[n] /\ batch[n] <= posted + 1
    BY <2>3, <2>4
  <2>6. QED
    BY <2>2, <2>3, <2>5
<1>2. CASE RequestArrives
  BY <1>2 DEF RequestArrives, Progress
<1>3. CASE Iterates \/ Wakes \/ PollFails \/ BackoffEnds
             \/ Pause \/ Resume \/ Stop \/ Crash
  BY <1>3 DEF Iterates, Wakes, PollFails, BackoffEnds, Pause, Resume, Stop, Crash
<1>4. QED
  BY <1>1, <1>2, <1>3 DEF Quiet

LEMMA QuietFlagsAgree ==
  ASSUME TypeOK, FlagsAgree, Quiet
  PROVE  FlagsAgree'
<1> USE DEF FlagsAgree, telegram, control, health, history, bounds
<1>1. CASE Post \/ RequestArrives \/ BackoffEnds
  BY <1>1 DEF Post, RequestArrives, BackoffEnds
<1>2. CASE Iterates
  BY <1>2 DEF Iterates
<1>3. CASE Wakes
  BY <1>3 DEF Wakes
<1>4. CASE PollFails
  <2>1. degraded' <=> (degraded \/ failures + 1 >= DegradedThreshold)
    BY <1>4, Zenon DEF PollFails
  <2>2. failures' = failures + 1 /\ failures \in Nat
    BY <1>4 DEF PollFails, TypeOK
  <2>3. degraded' <=> failures' >= DegradedThreshold
    BY <2>1, <2>2, ListenerAssumption
  <2>4. (woken => loop \in {"paused", "dead"})'
    BY <1>4 DEF PollFails
  <2>5. QED
    BY <2>3, <2>4
<1>5. CASE Pause
  BY <1>5 DEF Pause
<1>6. CASE Resume
  BY <1>6 DEF Resume
<1>7. CASE Stop
  BY <1>7 DEF Stop, TypeOK, Up
<1>8. CASE Crash
  BY <1>8 DEF Crash
<1>9. QED
  BY <1>1, <1>2, <1>3, <1>4, <1>5, <1>6, <1>7, <1>8 DEF Quiet

\* A request that arrives makes Telegram forget what lies behind the offset;
\* no other quiet step moves either of them.
LEMMA QuietKeepsHistory ==
  ASSUME TypeOK, Progress, Delivered, Once, Quiet
  PROVE  Progress' /\ Delivered' /\ Once'
<1> USE ListenerAssumption
    DEF Progress, TypeOK, telegram, control, health, history, bounds, Up,
        Quiet, Post, RequestArrives, Iterates, Wakes, PollFails, BackoffEnds,
        Pause, Resume, Stop, Crash
<1>1. Progress'
  <2>1. (failures <= polls)'
    <3>1. failures \in Nat /\ polls \in Nat /\ failures <= polls
      OBVIOUS
    <3>2. \/ failures' = failures + 1 /\ polls' = polls + 1
          \/ UNCHANGED <<failures, polls>>
      OBVIOUS
    <3>3. QED
      BY <3>1, <3>2
  <2>2. (loop \notin {"dispatching", "handling", "dead"} => batch = << >>)'
    OBVIOUS
  <2>3. (loop = "polling" /\ served /\ offset > 0 => confirmed = offset)'
    OBVIOUS
  <2>4. (loop = "dispatching" /\ batch # << >> => offset < Head(batch))'
    OBVIOUS
  <2>5. QED
    BY <2>1, <2>2, <2>3, <2>4
<1>2. Delivered'
  BY DEF Delivered, NothingForgotten
<1>3. Once'
  BY DEF Once, NoRepeatWithinRun
<1>4. QED
  BY <1>1, <1>2, <1>3

-----------------------------------------------------------------------------
(***************************************************************************)
(* Steps on the batch.                                                     *)
(***************************************************************************)
\* The answer starts where Telegram's memory does, and everything Telegram has
\* forgotten was handled.
LEMMA AnsweredKeepsLoopInv ==
  ASSUME LoopInv, Answered
  PROVE  LoopInv'
<1> USE DEF LoopInv, ListenerInv
<1>1. /\ batch' \in Seq(Updates)
      /\ batch' # << >> => Head(batch') = confirmed + 1
      /\ InOrder(batch')
  BY AnswerIsBatch DEF Answered
<1>2. /\ loop = "polling" /\ served /\ loop' = "dispatching"
      /\ failures' = 0 /\ degraded' = FALSE
      /\ UNCHANGED <<posted, confirmed, served, offset, unpaused, woken, stopping,
                     running, file, handled, epoch, polls, toggles, restarts>>
  BY DEF Answered, telegram, control, history, bounds
<1>3. TypeOK'
  <2>1. loop' = "dispatching" /\ (failures \in 0 .. MaxFailures)'
    BY <1>2, ListenerAssumption
  <2>2. UNCHANGED <<posted, confirmed, served, offset, unpaused, woken, stopping,
                    running, file, handled, epoch, polls, toggles, restarts>>
    BY <1>2
  <2>3. (degraded \in BOOLEAN)'
    BY DEF Answered
  <2>4. QED
    BY <1>1, <2>1, <2>2, <2>3 DEF TypeOK
<1>4. BatchIsNext'
  BY <1>1, <1>2 DEF BatchIsNext, InOrder
<1>5. FlagsAgree'
  BY <1>2, ListenerAssumption DEF FlagsAgree
<1>6. Progress'
  BY <1>1, <1>2, ListenerAssumption DEF Progress, TypeOK
<1>7. Delivered'
  BY <1>1, <1>2, ListenerAssumption DEF Delivered, NothingForgotten, TypeOK
<1>8. Once'
  <2>1. batch' # << >> => \A u \in Updates : epoch[u] > 0 => u < Head(batch')
    <3>1. \A u \in Updates : epoch[u] > 0 => u <= offset
      BY DEF Once
    <3>2. offset = 0 \/ offset = confirmed
      BY <1>2, ListenerAssumption DEF Progress, TypeOK
    <3>3. QED
      BY <1>1, <3>1, <3>2, ListenerAssumption, SMTT(30) DEF TypeOK, Updates
  <2>2. QED
    BY <1>2, <2>1 DEF Once, NoRepeatWithinRun
<1>9. QED
  BY <1>3, <1>4, <1>5, <1>6, <1>7, <1>8

\* The offset follows the update in hand.
LEMMA TakesKeepsLoopInv ==
  ASSUME LoopInv, Takes
  PROVE  LoopInv'
<1> USE DEF LoopInv, ListenerInv
<1>1. /\ batch # << >> /\ loop = "dispatching" /\ offset < Head(batch)
      /\ offset' = Head(batch)
      /\ UNCHANGED <<posted, confirmed, served, unpaused, woken, stopping, failures,
                     degraded, running, file, handled, epoch, polls, toggles, restarts>>
  BY DEF Takes, Progress, telegram, control, health, history, bounds
<1>2. /\ Head(batch) \in Updates /\ Tail(batch) \in Seq(Updates)
      /\ confirmed < Head(batch) /\ Head(batch) <= posted
      /\ Tail(batch) # << >> => Head(Tail(batch)) = Head(batch) + 1
      /\ InOrder(Tail(batch))
  BY <1>1, RestOfBatch
<1>3. \/ Head(batch) \in Texts /\ loop' = "handling" /\ batch' = batch
      \/ Head(batch) \notin Texts /\ loop' = "dispatching" /\ batch' = Tail(batch)
  BY DEF Takes
<1>4. TypeOK'
  <2>1. (batch \in Seq(Updates))'
    BY <1>2, <1>3 DEF TypeOK
  <2>2. (offset \in 0 .. MaxUpdates)'
    BY <1>1, <1>2, ListenerAssumption DEF Updates
  <2>3. loop' \in {"handling", "dispatching"}
    BY <1>3
  <2>4. UNCHANGED <<posted, confirmed, served, unpaused, woken, stopping, failures,
                    degraded, running, file, handled, epoch, polls, toggles, restarts>>
    BY <1>1
  <2>5. QED
    BY <2>1, <2>2, <2>3, <2>4 DEF TypeOK
<1>5. BatchIsNext'
  BY <1>1, <1>2, <1>3 DEF BatchIsNext, InOrder
<1>6. FlagsAgree'
  BY <1>1, <1>3 DEF FlagsAgree
<1>7. /\ Head(batch) \in Nat /\ offset \in Nat /\ Texts \subseteq Nat
      /\ Updates \subseteq Nat
      /\ Tail(batch) # << >> => Head(Tail(batch)) = Head(batch) + 1
  <2>1. offset \in Nat
    BY ListenerAssumption DEF TypeOK
  <2>2. Head(batch) \in Updates
    BY <1>2
  <2>3. QED
    BY <1>2, <2>1, <2>2, UpdatesAreNumbers
<1>8. /\ offset < Head(batch) /\ offset' = Head(batch) /\ loop = "dispatching"
      /\ batch # << >> /\ UNCHANGED <<confirmed, served, failures, polls, handled, epoch>>
  BY <1>1
<1>9. Progress'
  <2>1. failures <= polls
    BY DEF Progress
  <2>2. loop' = "dispatching" /\ batch' # << >> => offset' < Head(batch')
    BY <1>3, <1>7, <1>8
  <2>3. loop' \in {"handling", "dispatching"}
    BY <1>3
  <2>4. QED
    BY <1>8, <2>1, <2>2, <2>3 DEF Progress
<1>10. Delivered'
  <2>1. \A u \in Texts : u < Head(batch) => handled[u] > 0
    BY <1>8 DEF Delivered
  <2>2. \A u \in Texts : u <= confirmed => handled[u] > 0
    BY DEF Delivered, NothingForgotten
  <2>3. CASE loop' = "handling" /\ batch' = batch
    BY <1>7, <1>8, <2>1, <2>2, <2>3 DEF Delivered, NothingForgotten
  <2>4. CASE Head(batch) \notin Texts /\ loop' = "dispatching" /\ batch' = Tail(batch)
    <3>1. \A u \in Texts : u < Head(batch) + 1 => u < Head(batch)
      BY <1>7, <2>4
    <3>2. QED
      BY <1>7, <1>8, <2>1, <2>2, <2>4, <3>1 DEF Delivered, NothingForgotten
  <2>5. QED
    BY <1>3, <2>3, <2>4
<1>11. Once'
  <2>1. \A u \in Updates : epoch[u] <= 1 /\ (epoch[u] > 0 => u < Head(batch))
    BY <1>8 DEF Once, NoRepeatWithinRun
  <2>5. UNCHANGED restarts
    BY <1>1
  <2>2. \A u \in Updates : epoch[u] > 0 => u <= offset'
    BY <1>7, <1>8, <2>1
  <2>3. batch' # << >> => \A u \in Updates : epoch[u] > 0 => u < Head(batch')
    <3>1. batch' # << >> => Head(batch') \in {Head(batch), Head(batch) + 1}
      BY <1>3, <1>7
    <3>2. QED
      BY <1>7, <2>1, <3>1
  <2>4. QED
    BY <1>8, <2>1, <2>2, <2>3, <2>5 DEF Once, NoRepeatWithinRun
<1>12. QED
  BY <1>4, <1>5, <1>6, <1>9, <1>10, <1>11

\* The message in hand has not been handled before in this run.
LEMMA HandledKeepsLoopInv ==
  ASSUME LoopInv, Handled
  PROVE  LoopInv'
<1> USE DEF LoopInv, ListenerInv
<1>1. /\ batch # << >> /\ loop = "handling" /\ offset = Head(batch)
      /\ loop' = "dispatching" /\ batch' = Tail(batch)
      /\ UNCHANGED <<posted, confirmed, served, offset, unpaused, woken, stopping,
                     failures, degraded, running, file, polls, toggles, restarts>>
  BY DEF Handled, BatchIsNext, telegram, control, health, bounds
<1>2. /\ Head(batch) \in Updates /\ Tail(batch) \in Seq(Updates)
      /\ confirmed < Head(batch) /\ Head(batch) <= posted
      /\ Tail(batch) # << >> => Head(Tail(batch)) = Head(batch) + 1
      /\ InOrder(Tail(batch))
  BY <1>1, RestOfBatch
<1>3. /\ handled' = [handled EXCEPT ![Head(batch)] = @ + 1]
      /\ epoch' = [epoch EXCEPT ![Head(batch)] = @ + 1]
      /\ handled \in [Updates -> Nat] /\ epoch \in [Updates -> Nat]
  BY DEF Handled, TypeOK
<1>4. epoch[Head(batch)] = 0
  <2>1. epoch[Head(batch)] > 0 => Head(batch) < Head(batch)
    BY <1>1, <1>2 DEF Once
  <2>2. Head(batch) \in Nat /\ epoch[Head(batch)] \in Nat
    BY <1>2, <1>3, UpdatesAreNumbers
  <2>3. QED
    BY <2>1, <2>2
<1>5. TypeOK'
  <2>1. (handled \in [Updates -> Nat] /\ epoch \in [Updates -> Nat])'
    <3>1. Head(batch) \in Updates
      BY <1>2
    <3>2. QED
      BY <1>3, <3>1
  <2>2. (batch \in Seq(Updates))' /\ loop' = "dispatching"
    BY <1>1, <1>2
  <2>3. UNCHANGED <<posted, confirmed, served, offset, unpaused, woken, stopping,
                    failures, degraded, running, file, polls, toggles, restarts>>
    BY <1>1
  <2>4. QED
    BY <2>1, <2>2, <2>3 DEF TypeOK
<1>6. BatchIsNext'
  BY <1>1, <1>2 DEF BatchIsNext, InOrder
<1>7. FlagsAgree'
  BY <1>1 DEF FlagsAgree
<1>8. /\ Head(batch) \in Nat /\ Texts \subseteq Updates /\ Updates \subseteq Nat
      /\ Tail(batch) # << >> => Head(Tail(batch)) = Head(batch) + 1
      /\ Head(batch) \in Updates
  <2>1. Head(batch) \in Updates
    BY <1>2
  <2>2. QED
    BY <1>2, <2>1, UpdatesAreNumbers
<1>9. /\ offset = Head(batch) /\ offset' = offset /\ loop = "handling"
      /\ batch # << >> /\ batch' = Tail(batch) /\ loop' = "dispatching"
      /\ UNCHANGED <<confirmed, served, failures, polls>>
  BY <1>1
<1>10. Progress'
  <2>1. failures <= polls
    BY DEF Progress
  <2>2. QED
    BY <1>8, <1>9, <2>1 DEF Progress
<1>11. Delivered'
  <2>1. \A u \in Texts : u <= confirmed => handled[u] > 0
    BY DEF Delivered, NothingForgotten
  <2>2. \A u \in Texts : u <= offset => handled[u] > 0 \/ u = Head(batch)
    BY <1>9 DEF Delivered
  <2>3. \A u \in Texts : handled[u] \in Nat
    BY <1>3, <1>8
  <2>4. \A u \in Texts : handled'[u] = IF u = Head(batch) THEN handled[u] + 1 ELSE handled[u]
    BY <1>3, <1>8
  <2>5. \A u \in Texts : handled[u] > 0 \/ u = Head(batch) => handled'[u] > 0
    BY <2>3, <2>4
  <2>6. batch' # << >> => \A u \in Texts : u < Head(batch') => u <= offset
    BY <1>8, <1>9
  <2>7. QED
    BY <1>9, <2>1, <2>2, <2>5, <2>6 DEF Delivered, NothingForgotten
<1>12. Once'
  <2>1. \A u \in Updates : epoch[u] <= 1 /\ (epoch[u] > 0 => u <= offset)
    BY DEF Once, NoRepeatWithinRun
  <2>2. \A u \in Updates : epoch'[u] = IF u = Head(batch) THEN 1 ELSE epoch[u]
    BY <1>3, <1>4, <1>8
  <2>3. \A u \in Updates : epoch'[u] <= 1 /\ (epoch'[u] > 0 => u <= offset)
    BY <1>8, <1>9, <2>1, <2>2
  <2>4. batch' # << >> => \A u \in Updates : u <= offset => u < Head(batch')
    BY <1>8, <1>9
  <2>5. \A u \in Updates : handled[u] <= epoch[u] + restarts
    BY DEF Once
  <2>6. \A u \in Updates : handled'[u] <= epoch'[u] + restarts /\ handled'[u] <= restarts + 1
    <3>1. restarts \in Nat
      BY ListenerAssumption DEF TypeOK
    <3>2. \A u \in Updates :
            handled'[u] = (IF u = Head(batch) THEN handled[u] + 1 ELSE handled[u])
      BY <1>3, <1>8
    <3>3. \A u \in Updates :
            handled[u] \in Nat /\ handled[u] <= restarts + 1 /\ epoch[u] \in Nat
      BY <1>3 DEF Once, NoRepeatWithinRun
    <3>4. handled[Head(batch)] <= restarts
      BY <1>4, <1>8, <2>5, <3>1, <3>3
    <3>5. QED
      BY <1>8, <2>2, <2>5, <3>1, <3>2, <3>3, <3>4
  <2>7. UNCHANGED restarts
    BY <1>1
  <2>8. QED
    BY <1>9, <2>3, <2>4, <2>6, <2>7 DEF Once, NoRepeatWithinRun
<1>13. QED
  BY <1>5, <1>6, <1>7, <1>10, <1>11, <1>12

LEMMA BatchDoneKeepsLoopInv ==
  ASSUME LoopInv, BatchDone
  PROVE  LoopInv'
<1> USE DEF LoopInv, ListenerInv
<1>1. /\ loop = "dispatching" /\ batch = << >> /\ loop' = "top"
      /\ UNCHANGED <<posted, confirmed, served, offset, batch, unpaused, woken, stopping,
                     failures, degraded, running, handled, epoch, polls, toggles, restarts>>
  BY DEF BatchDone, telegram, control, history, bounds
<1>2. TypeOK'
  <2>1. (file \in [running : BOOLEAN, last : 0 .. MaxUpdates])'
    BY FlushTypes DEF BatchDone, TypeOK
  <2>2. QED
    BY <1>1, <2>1 DEF TypeOK
<1>3. BatchIsNext'
  BY <1>1 DEF BatchIsNext
<1>4. FlagsAgree'
  BY <1>1 DEF FlagsAgree
<1>5. Progress' /\ Delivered' /\ Once'
  BY <1>1 DEF Progress, Delivered, NothingForgotten, Once, NoRepeatWithinRun
<1>6. QED
  BY <1>2, <1>3, <1>4, <1>5

\* A new run starts with its offset at zero and nothing in hand.
LEMMA RestartKeepsLoopInv ==
  ASSUME LoopInv, Restart
  PROVE  LoopInv'
<1> USE DEF LoopInv, ListenerInv
<1>1. /\ loop' = "top" /\ offset' = 0 /\ batch' = << >>
      /\ unpaused' = TRUE /\ woken' = FALSE /\ stopping' = FALSE
      /\ failures' = 0 /\ degraded' = FALSE /\ running' = TRUE
      /\ file' = [running |-> TRUE, last |-> 0]
      /\ epoch' = [u \in Updates |-> 0]
      /\ restarts < MaxRestarts /\ restarts' = restarts + 1
      /\ UNCHANGED <<posted, confirmed, served, handled, polls, toggles>>
  BY DEF Restart, Started, Flush, telegram
<1>2. batch' \in Seq(Updates) /\ Len(batch') = 0
  BY <1>1, EmptySeq
<1>3. TypeOK'
  <2>1. (file \in [running : BOOLEAN, last : 0 .. MaxUpdates])'
    BY <1>1, ListenerAssumption
  <2>2. (handled \in [Updates -> Nat] /\ epoch \in [Updates -> Nat])'
    BY <1>1 DEF TypeOK
  <2>3. (unpaused \in BOOLEAN /\ woken \in BOOLEAN /\ stopping \in BOOLEAN
           /\ degraded \in BOOLEAN /\ running \in BOOLEAN)'
    BY DEF Restart, Started
  <2>4. (offset \in 0 .. MaxUpdates /\ failures \in 0 .. MaxFailures
           /\ restarts \in 0 .. MaxRestarts)' /\ loop' = "top"
    BY <1>1, ListenerAssumption DEF TypeOK
  <2>5. UNCHANGED <<posted, confirmed, served, polls, toggles>>
    BY <1>1
  <2>6. QED
    BY <1>2, <2>1, <2>2, <2>3, <2>4, <2>5 DEF TypeOK
<1>4. BatchIsNext'
  BY <1>1, <1>2, ListenerAssumption DEF BatchIsNext, TypeOK
<1>5. FlagsAgree'
  BY <1>1, ListenerAssumption DEF FlagsAgree
<1>6. Progress'
  BY <1>1, ListenerAssumption DEF Progress, TypeOK
<1>7. Delivered'
  BY <1>1, ListenerAssumption DEF Delivered, NothingForgotten, Updates
<1>8. Once'
  <2>1. restarts \in Nat /\ handled \in [Updates -> Nat] /\ epoch \in [Updates -> Nat]
    BY ListenerAssumption DEF TypeOK
  <2>2. \A u \in Updates : handled[u] <= restarts + 1
    BY DEF Once, NoRepeatWithinRun
  <2>3. \A u \in Updates : epoch'[u] = 0 /\ handled'[u] <= restarts'
    BY <1>1, <2>1, <2>2
  <2>4. restarts' \in Nat
    BY <1>1, <2>1
  <2>5. \A u \in Updates : handled'[u] \in Nat
    BY <1>1, <2>1
  <2>6. QED
    BY <1>1, <2>3, <2>4, <2>5 DEF Once, NoRepeatWithinRun
<1>9. QED
  BY <1>3, <1>4, <1>5, <1>6, <1>7, <1>8

-----------------------------------------------------------------------------
\* LoopInv is inductive.
LEMMA NextLoopInv ==
  ASSUME LoopInv, [Next]_vars
  PROVE  LoopInv'
<1>1. CASE UNCHANGED vars
  <2>1. ListenerInv'
    BY <1>1 DEF vars, LoopInv, ListenerInv, TypeOK, BatchIsNext, FlagsAgree
  <2>2. QED
    BY <1>1, <2>1 DEF vars, LoopInv, Progress, Delivered, Once, NothingForgotten,
                      NoRepeatWithinRun
<1>2. CASE Quiet
  BY <1>2, QuietTypeOK, QuietBatchIsNext, QuietFlagsAgree, QuietKeepsHistory
  DEF LoopInv, ListenerInv
<1>3. QED
  BY <1>1, <1>2, AnsweredKeepsLoopInv, TakesKeepsLoopInv, HandledKeepsLoopInv,
     BatchDoneKeepsLoopInv, RestartKeepsLoopInv DEF Next, Loop, Quiet

-----------------------------------------------------------------------------
\* The updates in hand are the next ones, without a gap, and still Telegram's;
\* the degraded flag tells the failures in a row.
THEOREM BatchFollows == Spec => []ListenerInv
<1>1. LoopInv => ListenerInv
  BY DEF LoopInv
<1>2. QED
  BY <1>1, InitLoopInv, NextLoopInv, PTL DEF Spec

\* No crash, restart, pause or lost answer makes Telegram forget a message the
\* dispatcher has not had.
THEOREM NothingIsForgotten == Spec => []NothingForgotten
<1>1. LoopInv => NothingForgotten
  BY DEF LoopInv, Delivered
<1>2. QED
  BY <1>1, InitLoopInv, NextLoopInv, PTL DEF Spec

\* A run of the daemon hands no message to the dispatcher twice.
THEOREM NoMessageTwice == Spec => []NoRepeatWithinRun
<1>1. LoopInv => NoRepeatWithinRun
  BY DEF LoopInv, Once
<1>2. QED
  BY <1>1, InitLoopInv, NextLoopInv, PTL DEF Spec
-----------------------------------------------------------------------------
(***************************************************************************)
(* Refinement of InOrderDelivery.                                          *)
(***************************************************************************)
Reached == IF InHand THEN offset - 1 ELSE IF offset = 0 THEN confirmed ELSE offset

\* The batch goes on where the run stands, and only a text is handed on.
Position ==
  /\ batch # << >> => Head(batch) = Reached + 1
  /\ offset = 0 \/ confirmed <= offset
  /\ loop = "handling" => Head(batch) \in Texts

\* The variables of the instance.
LEMMA DeliveryVars ==
  /\ Delivery!deliveryVars = <<posted, confirmed, Reached, handled, restarts>>
  /\ Delivery!deliveryVars' = <<posted', confirmed', Reached', handled', restarts'>>
  BY DEF Delivery!deliveryVars, Reached

\* A step that moves neither the offset nor the batch nor Telegram's memory.
StandsStill == UNCHANGED <<posted, confirmed, offset, batch, handled, restarts>>

LEMMA StandingStill ==
  ASSUME Position, StandsStill, loop' = "handling" => loop = "handling"
  PROVE  Position' /\ UNCHANGED Delivery!deliveryVars
  BY DeliveryVars DEF Position, StandsStill, Reached, InHand

LEMMA PostDelivers ==
  ASSUME Position, Post
  PROVE  Position' /\ Delivery!Post
  BY DEF Post, Position, Reached, InHand, Delivery!Post, telegram, control, health,
         history, bounds

\* Telegram forgets what the run has taken.
LEMMA RequestForgets ==
  ASSUME LoopInv, Position, RequestArrives
  PROVE  Position' /\ (Delivery!Forget \/ UNCHANGED Delivery!deliveryVars)
<1>1. /\ batch = << >> /\ batch' = << >> /\ loop' # "handling"
      /\ UNCHANGED <<posted, offset, handled, restarts>>
      /\ confirmed' = IF offset > 0 THEN offset ELSE confirmed
      /\ offset \in Nat /\ confirmed \in Nat
  BY ListenerAssumption
  DEF RequestArrives, LoopInv, Progress, ListenerInv, TypeOK, control, health, history, bounds
<1>2. CASE offset > 0
  <2>1. Reached = offset /\ Reached' = offset
    BY <1>1, <1>2 DEF Reached, InHand
  <2>2. Position'
    BY <1>1, <1>2 DEF Position
  <2>3. Delivery!Forget
    BY <1>1, <1>2, <2>1 DEF Delivery!Forget, Reached
  <2>4. QED
    BY <2>2, <2>3
<1>3. CASE offset = 0
  BY <1>1, <1>3, DeliveryVars DEF Position, Reached, InHand
<1>4. QED
  BY <1>1, <1>2, <1>3

\* The answer begins where the run stands.
LEMMA AnswerStandsStill ==
  ASSUME LoopInv, Position, Answered
  PROVE  Position' /\ UNCHANGED Delivery!deliveryVars
<1> USE DEF LoopInv, ListenerInv
<1>1. batch' # << >> => Head(batch') = confirmed + 1
  BY AnswerIsBatch DEF Answered
<1>2. /\ loop = "polling" /\ served /\ loop' = "dispatching"
      /\ UNCHANGED <<posted, confirmed, offset, handled, restarts>>
  BY DEF Answered, telegram, control, history, bounds
<1>3. /\ batch = << >> /\ offset \in Nat /\ confirmed \in Nat
      /\ offset = 0 \/ offset = confirmed
  BY <1>2, ListenerAssumption DEF Progress, TypeOK
<1>4. Reached = confirmed /\ Reached' = confirmed
  BY <1>1, <1>2, <1>3 DEF Reached, InHand
<1>5. Position'
  BY <1>1, <1>2, <1>4 DEF Position
<1>6. QED
  BY <1>2, <1>4, <1>5, DeliveryVars

\* A text is taken in hand and is not delivered yet; anything else is passed.
LEMMA TakesDelivers ==
  ASSUME LoopInv, Position, Takes
  PROVE  Position' /\ (Delivery!Pass \/ UNCHANGED Delivery!deliveryVars)
<1> USE DEF LoopInv, ListenerInv
<1>1. /\ batch # << >> /\ loop = "dispatching" /\ offset < Head(batch)
      /\ offset' = Head(batch) /\ UNCHANGED <<posted, confirmed, handled, restarts>>
  BY DEF Takes, Progress, telegram, control, health, history, bounds
<1>2. /\ confirmed < Head(batch) /\ Head(batch) <= posted
      /\ Tail(batch) # << >> => Head(Tail(batch)) = Head(batch) + 1
      /\ Head(batch) \in Nat
  BY <1>1, RestOfBatch, UpdatesAreNumbers
<1>3. /\ offset \in Nat /\ confirmed \in Nat /\ posted \in Nat
      /\ Head(batch) = Reached + 1 /\ Reached \in Nat
  BY <1>1, ListenerAssumption DEF TypeOK, Position, Reached, InHand
<1>4. CASE Head(batch) \in Texts /\ loop' = "handling" /\ batch' = batch
  <2>1. Reached' = Reached
    BY <1>1, <1>2, <1>3, <1>4 DEF Reached, InHand
  <2>2. Position'
    BY <1>1, <1>2, <1>3, <1>4, <2>1 DEF Position
  <2>3. QED
    BY <1>1, <2>1, <2>2, DeliveryVars
<1>5. CASE Head(batch) \notin Texts /\ loop' = "dispatching" /\ batch' = Tail(batch)
  <2>1. Reached' = Head(batch)
    BY <1>1, <1>2, <1>3, <1>5 DEF Reached, InHand
  <2>2. Position'
    <3>1. batch' # << >> => Head(batch') = Reached' + 1
      BY <1>2, <1>5, <2>1
    <3>2. confirmed' <= offset'
      BY <1>1, <1>2, <1>3
    <3>3. QED
      BY <1>5, <3>1, <3>2 DEF Position
  <2>3. /\ Reached < posted /\ Reached + 1 \notin Texts /\ Reached' = Reached + 1
    BY <1>2, <1>3, <1>5, <2>1
  <2>4. Delivery!Pass
    BY <1>1, <2>3 DEF Delivery!Pass, Reached
  <2>5. QED
    BY <2>2, <2>4
<1>6. QED
  BY <1>4, <1>5 DEF Takes

\* The message in hand is the next one.
LEMMA HandledDelivers ==
  ASSUME LoopInv, Position, Handled
  PROVE  Position' /\ Delivery!Deliver
<1> USE DEF LoopInv, ListenerInv
<1>1. /\ batch # << >> /\ loop = "handling" /\ offset = Head(batch)
      /\ loop' = "dispatching" /\ batch' = Tail(batch)
      /\ handled' = [handled EXCEPT ![Head(batch)] = @ + 1]
      /\ UNCHANGED <<posted, confirmed, offset, restarts>>
  BY DEF Handled, BatchIsNext, telegram, control, health, bounds
<1>2. /\ confirmed < Head(batch) /\ Head(batch) <= posted
      /\ Tail(batch) # << >> => Head(Tail(batch)) = Head(batch) + 1
      /\ Head(batch) \in Nat /\ confirmed \in Nat /\ posted \in Nat
  <2>1. confirmed \in Nat /\ posted \in Nat
    BY ListenerAssumption DEF TypeOK
  <2>2. QED
    BY <1>1, <2>1, RestOfBatch, UpdatesAreNumbers
<1>3. /\ Reached = offset - 1 /\ Reached' = offset
      /\ Head(batch) = Reached + 1 /\ Head(batch) \in Texts
  <2>1. Reached = offset - 1 /\ Head(batch) \in Texts
    BY <1>1 DEF Reached, InHand, Position
  <2>2. ~InHand'
    BY <1>1, <1>2 DEF InHand
  <2>3. offset' = offset /\ offset # 0
    BY <1>1, <1>2
  <2>4. Reached' = offset
    BY <2>2, <2>3 DEF Reached
  <2>5. QED
    BY <1>1, <1>2, <2>1, <2>4
<1>4. Position'
  BY <1>1, <1>2, <1>3 DEF Position
<1>5. /\ Reached < posted /\ Reached + 1 \in Texts /\ Reached' = Reached + 1
      /\ handled' = [handled EXCEPT ![Reached + 1] = @ + 1]
  <2>1. Reached + 1 = Head(batch)
    BY <1>3
  <2>2. handled' = [handled EXCEPT ![Reached + 1] = @ + 1]
    BY <1>1, <2>1
  <2>3. offset = Head(batch)
    BY <1>1
  <2>4. Reached < posted /\ Reached' = Reached + 1
    BY <1>2, <1>3, <2>3
  <2>5. QED
    BY <1>3, <2>1, <2>2, <2>4
<1>6. Delivery!Deliver
  BY <1>1, <1>5 DEF Delivery!Deliver, Reached
<1>7. QED
  BY <1>4, <1>6

\* A new run begins where Telegram's memory does.
LEMMA RestartIsNewRun ==
  ASSUME Position, Restart
  PROVE  Position' /\ Delivery!NewRun
<1>1. /\ offset' = 0 /\ batch' = << >> /\ loop' = "top"
      /\ restarts' = restarts + 1 /\ UNCHANGED <<posted, confirmed, handled>>
  BY DEF Restart, Started, telegram
<1>2. Reached' = confirmed
  BY <1>1 DEF Reached, InHand
<1>3. Position'
  BY <1>1 DEF Position
<1>4. Delivery!NewRun
  BY <1>1, <1>2 DEF Delivery!NewRun, Reached
<1>5. QED
  BY <1>3, <1>4

\* Every step of the loop, of Telegram and of the daemon is a step of the
\* delivery or leaves it alone.
LEMMA StepDelivers ==
  ASSUME LoopInv, Position, [Next]_vars
  PROVE  Position' /\ (Delivery!Next \/ UNCHANGED Delivery!deliveryVars)
<1>1. ASSUME \/ Iterates \/ Wakes \/ PollFails \/ BackoffEnds \/ BatchDone
             \/ Pause \/ Resume \/ Stop \/ Crash \/ UNCHANGED vars
      PROVE  Position' /\ UNCHANGED Delivery!deliveryVars
  <2>1. StandsStill /\ (loop' = "handling" => loop = "handling")
    BY <1>1 DEF StandsStill, Iterates, Wakes, PollFails, BackoffEnds, BatchDone, Pause,
                Resume, Stop, Crash, vars, telegram, control, health, history, bounds
  <2>2. QED
    BY <2>1, StandingStill
<1>2. QED
  BY <1>1, PostDelivers, RequestForgets, AnswerStandsStill, TakesDelivers,
     HandledDelivers, RestartIsNewRun DEF Next, Loop, Delivery!Next

\* Through lost answers, pauses, stops, crashes and restarts, the listener
\* delivers the texts of the group in their order, each once per run, and
\* Telegram forgets only what a run has passed.
THEOREM ListenerDelivers == Spec => ImplementsDelivery
<1>1. Init => Position /\ Delivery!Init
  BY DEF Init, Position, Reached, InHand, Delivery!Init, Updates
<1>2. LoopInv /\ Position /\ [Next]_vars
        => Position' /\ [Delivery!Next]_(Delivery!deliveryVars)
  BY StepDelivers
<1>3. QED
  BY <1>1, <1>2, InitLoopInv, NextLoopInv, PTL
  DEF Spec, ImplementsDelivery, Delivery!Spec
-----------------------------------------------------------------------------
(***************************************************************************)
(* Progress of a loop that was told to stop.                               *)
(***************************************************************************)
\* A stop that finds the loop paused is heard.
THEOREM StopWakesAlways == Spec => []StopWakes
<1>1. Init => StopWakes
  BY DEF Init, StopWakes
<1>2. ASSUME LoopInv, StopWakes, [Next]_vars
      PROVE  StopWakes'
  <2> USE DEF StopWakes, telegram, control, health, history, bounds
  <2>1. CASE Post \/ RequestArrives
    BY <1>2, <2>1 DEF Post, RequestArrives
  <2>2. CASE Loop
    BY <1>2, <2>2 DEF Loop, Iterates, Wakes, Answered, PollFails, BackoffEnds, Takes, Handled,
                BatchDone
  <2>3. CASE Pause \/ Resume \/ Stop
    BY <1>2, <2>3 DEF Pause, Resume, Stop
  <2>4. CASE Crash \/ Restart
    BY <1>2, <2>4 DEF Crash, Restart, Started
  <2>5. CASE UNCHANGED vars
    BY <1>2, <2>5 DEF vars
  <2>6. QED
    BY <1>2, <2>1, <2>2, <2>3, <2>4, <2>5 DEF Next
<1>3. QED
  BY <1>1, <1>2, InitLoopInv, NextLoopInv, PTL DEF Spec

LEMMA StopLeftIsNumber ==
  ASSUME TypeOK
  PROVE  StopLeft \in Nat /\ Len(batch) \in Nat /\ MaxUpdates \in Nat
<1>1. Len(batch) \in Nat /\ MaxUpdates \in Nat
  BY LenProperties, ListenerAssumption DEF TypeOK
<1>2. QED
  BY <1>1 DEF StopLeft

\* What a step of the loop leaves to be done.
LEMMA LoopRunsDown ==
  ASSUME LoopInv, stopping, RequestArrives \/ Loop
  PROVE  StopLeft' < StopLeft
<1> USE DEF LoopInv, ListenerInv
<1>1. TypeOK /\ batch \in Seq(Updates) /\ Len(batch) \in Nat /\ MaxUpdates \in Nat
  BY StopLeftIsNumber DEF TypeOK
<1>2. CASE RequestArrives
  BY <1>1, <1>2 DEF RequestArrives, StopLeft
<1>3. CASE Iterates \/ Wakes
  <2>1. loop \in {"top", "paused"} /\ loop' = "stopped"
    BY <1>3 DEF Iterates, Wakes
  <2>2. StopLeft = 1 /\ StopLeft' = 0
    BY <2>1 DEF StopLeft
  <2>3. QED
    BY <2>2
<1>4. CASE PollFails \/ BackoffEnds
  BY <1>1, <1>4 DEF PollFails, BackoffEnds, StopLeft
<1>5. CASE Answered
  <2>1. /\ loop = "polling" /\ served /\ loop' = "dispatching"
        /\ batch' = [n \in 1 .. posted - confirmed |-> confirmed + n]
    BY <1>5 DEF Answered
  <2>2. batch' \in Seq(Updates)
    BY <1>1, <2>1, AnswerIsBatch
  <2>3. posted - confirmed \in Nat /\ posted - confirmed <= MaxUpdates
    BY <1>1 DEF TypeOK, BatchIsNext
  <2>4. Len(batch') = posted - confirmed
    BY <2>1, <2>2, <2>3, LenProperties
  <2>5. StopLeft = 3 + 2 * MaxUpdates /\ StopLeft' = 2 + 2 * Len(batch')
    BY <2>1 DEF StopLeft
  <2>6. QED
    BY <1>1, <2>3, <2>4, <2>5
<1>6. CASE Takes \/ Handled
  <2>1. batch # << >>
    BY <1>6 DEF Takes, Handled, BatchIsNext
  <2>2. Len(batch) >= 1 /\ Len(Tail(batch)) = Len(batch) - 1
    BY <1>1, <2>1, HeadTailProperties, EmptySeq, LenProperties
  <2>3. \/ loop = "dispatching" /\ loop' = "handling" /\ batch' = batch
        \/ loop \in {"dispatching", "handling"} /\ loop' = "dispatching"
             /\ batch' = Tail(batch)
    BY <1>6 DEF Takes, Handled
  <2>4. QED
    BY <1>1, <2>2, <2>3 DEF StopLeft
<1>7. CASE BatchDone
  <2>1. loop = "dispatching" /\ loop' = "top" /\ Len(batch) = 0
    BY <1>7, EmptySeq DEF BatchDone
  <2>2. QED
    BY <2>1 DEF StopLeft
<1>8. QED
  BY <1>2, <1>3, <1>4, <1>5, <1>6, <1>7 DEF Loop

\* A loop that was told to stop runs down to its end in as many steps as StopLeft
\* counts, however often it is paused or resumed and whatever is posted meanwhile.
THEOREM StopRunsDownAlways == Spec => StopRunsDown
<1>1. ASSUME LoopInv, [Next]_vars, stopping, stopping'
      PROVE  /\ StopLeft' <= StopLeft
             /\ RequestArrives \/ Loop => StopLeft' < StopLeft
  <2> USE DEF telegram, control, health, history, bounds
  <2>1. StopLeft \in Nat
    BY <1>1, StopLeftIsNumber DEF LoopInv, ListenerInv
  <2>2. CASE RequestArrives \/ Loop
    <3>1. StopLeft' < StopLeft
      BY <1>1, <2>2, LoopRunsDown
    <3>2. TypeOK'
      BY <1>1, NextLoopInv DEF LoopInv, ListenerInv
    <3>3. Len(batch') \in Nat /\ MaxUpdates \in Nat
      BY <3>2, LenProperties, ListenerAssumption DEF TypeOK
    <3>4. StopLeft' \in Nat
      BY <3>3 DEF StopLeft
    <3>5. QED
      BY <2>1, <3>1, <3>4
  <2>3. CASE (Post \/ Pause \/ Resume \/ UNCHANGED vars) /\ ~(RequestArrives \/ Loop)
    <3>1. UNCHANGED <<loop, batch, served>>
      BY <2>3 DEF Post, Pause, Resume, vars
    <3>2. StopLeft' = StopLeft
      BY <3>1 DEF StopLeft
    <3>3. QED
      BY <2>1, <2>3, <3>2
  <2>4. CASE Crash /\ ~(RequestArrives \/ Loop)
    <3>1. StopLeft' = 0
      BY <2>4 DEF Crash, StopLeft
    <3>2. QED
      BY <2>1, <2>4, <3>1
  <2>5. CASE Stop \/ Restart
    BY <1>1, <2>5 DEF Stop, Restart, Started
  <2>6. QED
    BY <1>1, <2>2, <2>3, <2>4, <2>5 DEF Next
<1>2. QED
  BY <1>1, InitLoopInv, NextLoopInv, PTL DEF Spec, StopRunsDown
=============================================================================
