-------------------------- MODULE WorkerStopProofs --------------------------
(***************************************************************************)
(* Proofs about WorkerStop, for any number of progress lines and /cancel   *)
(* commands.                                                               *)
(***************************************************************************)
EXTENDS WorkerStop, SequenceTheorems, TLAPS

Kinds == {"progress", "pr"} \cup Reasons

InPipe(kind) == \E n \in 1 .. Len(pipe) : pipe[n] = kind

\* A marker line on its way was written by the worker, and one that was written
\* is on its way, harvested, or lost with a reader that failed.
MarkersTravel ==
  /\ \A n \in 1 .. Len(pipe) :
       /\ pipe[n] \in Reasons => pipe[n] = written.final
       /\ pipe[n] = "pr" => written.pr
  /\ reader # "failed" =>
       /\ written.final # "none" => result.final = written.final \/ InPipe(written.final)
       /\ written.pr => result.pr \/ InPipe("pr")

\* An operator stop is announced by a worker that saw the signal; the reader
\* starts with the wait and is through when the coroutine is.
Causes ==
  /\ written.final = "operator_stop" => asked = "observed"
  /\ run = "spawning" => reader = "none"
  /\ run \in {"ended", "died"} => reader \in {"eof", "failed"}

WorkerInv == StopInv /\ MarkersTravel /\ Causes /\ CanceledOnRequest /\ MarkersDecide

-----------------------------------------------------------------------------
LEMMA InitWorkerInv == Init => WorkerInv
<1> SUFFICES ASSUME Init PROVE WorkerInv
  OBVIOUS
<1> USE DEF Init, Agent!Init, NoMarkers, Agent!NoMarkers, Running
<1>1. pipe \in Seq({"progress", "pr"} \cup Reasons) /\ Len(pipe) = 0
  BY EmptySeq
<1>2. TypeOK
  <2>1. written \in [pr : BOOLEAN, final : Reasons \cup {"none"}]
    OBVIOUS
  <2>2. result \in [pr : BOOLEAN, final : Reasons \cup {"none"}]
    OBVIOUS
  <2>3. timedOut \in BOOLEAN /\ inFlight \in BOOLEAN
    OBVIOUS
  <2>4. QED
    BY <1>1, <2>1, <2>2, <2>3, WorkerStopAssumption DEF TypeOK
<1>3. StopInv
  BY <1>1, <1>2 DEF StopInv, EndsAgree, OneSignal, HarvestedIsWritten, Pursued, Alive,
               Agent!Alive, ActiveRow
<1>4. MarkersTravel
  BY <1>1 DEF MarkersTravel
<1>5. Causes /\ CanceledOnRequest /\ MarkersDecide
  BY DEF Causes, CanceledOnRequest, MarkersDecide
<1>6. QED
  BY <1>3, <1>4, <1>5 DEF WorkerInv

-----------------------------------------------------------------------------
(***************************************************************************)
(* Steps that write no line, read none, and do not end the session.        *)
(***************************************************************************)
Plain == \/ Boots \/ ObservesUsr1 \/ Exits \/ Reap
         \/ Posted \/ EndOfStream \/ StreamBreaks
         \/ SpawnReturns \/ WaitReturns \/ TimesOut \/ TermGraceExpires \/ DrainOverruns
         \/ Cancel \/ CancelIgnored \/ WatchdogFindsNoWorker \/ GraceExpires \/ WatchdogKills

\* What all of them leave alone.
LEMMA PlainKeepsMarkers ==
  ASSUME Plain
  PROVE  UNCHANGED <<written, progress, pipe, result, row>>
<1> USE DEF worker, stream, stop, Silent, Term, Kill, Dies, Agent!Dies
<1>1. CASE Boots \/ ObservesUsr1 \/ Exits \/ Reap
  BY <1>1 DEF Boots, ObservesUsr1, Exits, Reap, Agent!Boots, Agent!ObservesUsr1, Agent!Exits
<1>2. CASE Posted \/ EndOfStream \/ StreamBreaks
  BY <1>2 DEF Posted, EndOfStream, StreamBreaks
<1>3. CASE SpawnReturns \/ WaitReturns \/ TimesOut \/ TermGraceExpires \/ DrainOverruns
  BY <1>3 DEF SpawnReturns, WaitReturns, TimesOut, TermGraceExpires, DrainOverruns
<1>4. CASE Cancel \/ CancelIgnored
  BY <1>4 DEF Cancel, CancelIgnored, Agent!ReceivesUsr1
<1>5. CASE WatchdogFindsNoWorker \/ GraceExpires \/ WatchdogKills
  BY <1>5 DEF WatchdogFindsNoWorker, GraceExpires, WatchdogKills
<1>6. QED
  BY <1>1, <1>2, <1>3, <1>4, <1>5 DEF Plain

\* How far a plain step moves the process, the signals and the coroutines.
LEMMA PlainMoves ==
  ASSUME StopInv, Plain
  PROVE  /\ proc' \in {"booting", "working", "zombie", "reaped"}
         /\ rc' \in {"none", "zero", "error", "usr1", "term", "kill"}
         /\ asked' \in {"no", "pending", "observed"}
         /\ proc = "reaped" => proc' = "reaped"
         /\ ~Alive => ~Alive' /\ rc' = rc
         /\ rc' = "none" <=> Alive'
         /\ asked = "observed" => asked' = "observed"
<1> USE DEF worker, stream, stop, Silent, Term, Kill, Dies, Agent!Dies, Alive,
            Agent!Alive, StopInv, EndsAgree, TypeOK
<1>1. CASE Boots \/ ObservesUsr1 \/ Exits \/ Reap
  BY <1>1 DEF Boots, ObservesUsr1, Exits, Reap, Agent!Boots, Agent!ObservesUsr1, Agent!Exits
<1>2. CASE Posted \/ EndOfStream \/ StreamBreaks
  BY <1>2 DEF Posted, EndOfStream, StreamBreaks
<1>3. CASE SpawnReturns \/ WaitReturns \/ TimesOut \/ TermGraceExpires \/ DrainOverruns
  BY <1>3 DEF SpawnReturns, WaitReturns, TimesOut, TermGraceExpires, DrainOverruns
<1>4. CASE Cancel \/ CancelIgnored
  BY <1>4 DEF Cancel, CancelIgnored, Agent!ReceivesUsr1
<1>5. CASE WatchdogFindsNoWorker \/ GraceExpires \/ WatchdogKills
  BY <1>5 DEF WatchdogFindsNoWorker, GraceExpires, WatchdogKills
<1>6. QED
  BY <1>1, <1>2, <1>3, <1>4, <1>5 DEF Plain

LEMMA PlainTypeOK ==
  ASSUME StopInv, Plain
  PROVE  TypeOK'
<1>1. UNCHANGED <<written, progress, pipe, result, row>>
  BY PlainKeepsMarkers
<1>2. /\ proc' \in {"booting", "working", "zombie", "reaped"}
      /\ rc' \in {"none", "zero", "error", "usr1", "term", "kill"}
      /\ asked' \in {"no", "pending", "observed"}
  BY PlainMoves
<1>3. TypeOK /\ OneSignal
  BY DEF StopInv
<1> USE DEF worker, stream, stop, Silent, Plain, Boots, ObservesUsr1, Exits, Reap, Posted,
            EndOfStream, StreamBreaks, SpawnReturns, WaitReturns, TimesOut,
            TermGraceExpires, DrainOverruns, Cancel, CancelIgnored,
            WatchdogFindsNoWorker, GraceExpires, WatchdogKills
<1>4. /\ reader' \in {"none", "reading", "posting", "eof", "failed"}
      /\ run' \in {"spawning", "waiting", "term", "kill", "draining", "ended", "died"}
      /\ watchdog' \in {"none", "grace", "term", "kill", "gone"}
  BY <1>3 DEF TypeOK
<1>5. timedOut' \in BOOLEAN /\ inFlight' \in BOOLEAN
  BY <1>3 DEF TypeOK
<1>6. cancels' \in 0 .. MaxCancels /\ usr1' \in 0 .. MaxCancels
  <2>1. cancels \in 0 .. MaxCancels /\ usr1 \in 0 .. MaxCancels /\ (~inFlight => usr1 = 0)
    BY <1>3, WorkerStopAssumption DEF TypeOK, OneSignal
  <2>2. \/ UNCHANGED <<cancels, usr1>>
        \/ cancels < MaxCancels /\ cancels' = cancels + 1 /\ UNCHANGED usr1
        \/ cancels < MaxCancels /\ cancels' = cancels + 1 /\ ~inFlight /\ usr1' \in {usr1, usr1 + 1}
    OBVIOUS
  <2>3. QED
    BY <2>1, <2>2, WorkerStopAssumption
<1>7. QED
  BY <1>1, <1>2, <1>3, <1>4, <1>5, <1>6 DEF TypeOK

LEMMA PlainEndsAgree ==
  ASSUME StopInv, Causes, Plain
  PROVE  EndsAgree' /\ OneSignal' /\ HarvestedIsWritten' /\ Pursued'
<1>1. UNCHANGED <<written, progress, pipe, result, row>>
  BY PlainKeepsMarkers
<1>2. /\ proc = "reaped" => proc' = "reaped"
      /\ ~Alive => ~Alive'
      /\ rc' = "none" <=> Alive'
  BY PlainMoves
<1>3. TypeOK /\ EndsAgree /\ OneSignal /\ HarvestedIsWritten /\ Pursued
  BY DEF StopInv
<1> USE DEF worker, stream, stop, Silent, Plain, Boots, ObservesUsr1, Exits, Reap, Posted,
            EndOfStream, StreamBreaks, SpawnReturns, WaitReturns, TimesOut,
            TermGraceExpires, DrainOverruns, Cancel, CancelIgnored,
            WatchdogFindsNoWorker, GraceExpires, WatchdogKills
<1>4. (run \in {"draining", "ended", "died"} => proc = "reaped")'
  BY <1>2, <1>3 DEF EndsAgree
<1>5. (ActiveRow <=> run # "ended")'
  BY <1>1, <1>3 DEF EndsAgree, ActiveRow
<1>6. (run \in {"term", "kill"} => timedOut)'
  BY <1>3 DEF EndsAgree
<1>7. (reader = "eof" => pipe = << >> /\ ~Alive)'
  BY <1>1, <1>2, <1>3 DEF EndsAgree
<1>8. OneSignal'
  <2>1. CASE Cancel
    <3>1. inFlight' /\ usr1 = 0 /\ (usr1' = 1 \/ (~Exists /\ usr1' = 0 /\ watchdog' = watchdog))
      BY <1>3, <2>1 DEF OneSignal, TypeOK
    <3>2. asked' # "no" => asked # "no" \/ Exists
      BY <2>1 DEF Exists, Agent!ReceivesUsr1
    <3>3. QED
      BY <1>3, <3>1, <3>2 DEF OneSignal
  <2>2. CASE ~Cancel
    <3>1. UNCHANGED <<usr1, inFlight>> /\ (watchdog' # "none" => watchdog # "none")
      BY <2>2
    <3>2. asked' # "no" => asked # "no"
      BY <2>2 DEF Agent!Boots, Agent!ObservesUsr1, Agent!Exits
    <3>3. QED
      BY <1>3, <3>1, <3>2 DEF OneSignal
  <2>3. QED
    BY <2>1, <2>2
<1>9. HarvestedIsWritten'
  BY <1>1, <1>3 DEF HarvestedIsWritten
<1>10. Pursued'
  <2>1. (run = "kill" => ~Alive)'
    <3>1. CASE TermGraceExpires
      BY <3>1 DEF Kill, Dies, Agent!Dies, Alive, Agent!Alive
    <3>2. CASE ~TermGraceExpires
      <4>1. run' = "kill" => run = "kill"
        BY <3>2
      <4>2. QED
        BY <1>2, <1>3, <4>1 DEF Pursued
    <3>3. QED
      BY <3>1, <3>2
  <2>2. (run = "spawning" <=> reader = "none")'
    BY <1>3 DEF Pursued
  <2>3. (usr1 > 0 => ~Alive \/ watchdog \in {"grace", "term"})'
    <3>1. CASE Cancel
      BY <1>2, <1>3, <3>1 DEF Pursued, OneSignal, TypeOK
    <3>2. CASE WatchdogFindsNoWorker
      BY <1>3, <3>2 DEF Exists, Alive, Agent!Alive
    <3>3. CASE WatchdogKills
      BY <3>3 DEF Kill, Dies, Agent!Dies, Alive, Agent!Alive
    <3>4. CASE GraceExpires
      BY <3>4
    <3>5. CASE ~Cancel /\ ~WatchdogFindsNoWorker /\ ~WatchdogKills /\ ~GraceExpires
      <4>1. UNCHANGED <<usr1, watchdog>>
        BY <3>5
      <4>2. QED
        BY <1>2, <1>3, <4>1 DEF Pursued
    <3>6. QED
      BY <3>1, <3>2, <3>3, <3>4, <3>5
  <2>4. QED
    BY <2>1, <2>2, <2>3 DEF Pursued
<1>11. QED
  BY <1>2, <1>4, <1>5, <1>6, <1>7, <1>8, <1>9, <1>10 DEF EndsAgree

LEMMA PlainKeepsHistory ==
  ASSUME WorkerInv, Plain
  PROVE  MarkersTravel' /\ Causes' /\ CanceledOnRequest' /\ MarkersDecide'
<1>1. UNCHANGED <<written, progress, pipe, result, row>>
  BY PlainKeepsMarkers
<1>2. /\ ~Alive => rc' = rc
      /\ asked = "observed" => asked' = "observed"
  BY PlainMoves DEF WorkerInv
<1>3. EndsAgree /\ MarkersTravel /\ Causes /\ CanceledOnRequest /\ MarkersDecide
  BY DEF WorkerInv, StopInv
<1> USE DEF worker, stream, stop, Silent, Plain, Boots, ObservesUsr1, Exits, Reap, Posted,
            EndOfStream, StreamBreaks, SpawnReturns, WaitReturns, TimesOut,
            TermGraceExpires, DrainOverruns, Cancel, CancelIgnored,
            WatchdogFindsNoWorker, GraceExpires, WatchdogKills
<1>4. /\ run = "spawning" => reader = "none"
      /\ run \in {"ended", "died"} => reader \in {"eof", "failed"}
      /\ run = "ended" => ~Alive
      /\ ActiveRow <=> run # "ended"
  BY <1>3 DEF Causes, EndsAgree, Alive, Agent!Alive
<1>5. run' = "ended" => run = "ended"
  OBVIOUS
<1>6. run = "ended" => UNCHANGED <<reader, timedOut, inFlight>>
  BY <1>4
<1>7. inFlight => inFlight'
  OBVIOUS
<1>8. MarkersTravel'
  <2>1. reader' # "failed" => reader # "failed"
    BY <1>4
  <2>2. QED
    BY <1>1, <1>3, <2>1 DEF MarkersTravel, InPipe
<1>9. Causes'
  <2>1. (written.final = "operator_stop" => asked = "observed")'
    BY <1>1, <1>2, <1>3 DEF Causes
  <2>2. (run = "spawning" => reader = "none")'
    BY <1>4
  <2>3. (run \in {"ended", "died"} => reader \in {"eof", "failed"})'
    BY <1>4
  <2>4. QED
    BY <2>1, <2>2, <2>3 DEF Causes
<1>10. CanceledOnRequest'
  BY <1>1, <1>3, <1>7 DEF CanceledOnRequest
<1>11. MarkersDecide'
  <2>1. run' = "ended" => rc' = rc
    BY <1>2, <1>4, <1>5
  <2>2. QED
    BY <1>1, <1>3, <1>5, <1>6, <2>1 DEF MarkersDecide
<1>12. QED
  BY <1>8, <1>9, <1>10, <1>11

-----------------------------------------------------------------------------
(***************************************************************************)
(* Lines: written by the worker, read by the reader.                       *)
(***************************************************************************)
Writes == WritesProgress \/ WritesPr \/ StopHook \/ InterruptWatchdog

\* A line goes to the end of the pipe, and a marker is written at most once.
LEMMA WritesMoves ==
  ASSUME WorkerInv, Writes
  PROVE  \E kind \in Kinds :
           /\ pipe' = Append(pipe, kind)
           /\ \/ kind = "progress" /\ written' = written
              \/ kind = "pr" /\ written' = [written EXCEPT !.pr = TRUE]
              \/ /\ kind \in Reasons /\ written.final = "none"
                 /\ written' = [written EXCEPT !.final = kind]
           /\ kind = "operator_stop" => asked = "observed"
           /\ proc = "working"
           /\ progress' \in 0 .. MaxProgress
           /\ UNCHANGED <<proc, rc, asked, reader, result, run, timedOut, inFlight, usr1,
                          cancels, watchdog, row>>
<1> USE WorkerStopAssumption
    DEF WorkerInv, StopInv, TypeOK, Kinds, Reasons, Agent!Reasons, stop, Line
<1>1. CASE WritesProgress
  BY <1>1 DEF WritesProgress
<1>2. CASE WritesPr
  BY <1>2 DEF WritesPr, Agent!WritesPr
<1>3. CASE StopHook
  BY <1>3 DEF StopHook, Agent!WritesNatural, Agent!EmitFinalOnce
<1>4. CASE InterruptWatchdog
  BY <1>4 DEF InterruptWatchdog, Agent!WritesOperatorStop, Agent!EmitFinalOnce
<1>5. QED
  BY <1>1, <1>2, <1>3, <1>4 DEF Writes

LEMMA WritesKeepsWorkerInv ==
  ASSUME WorkerInv, Writes
  PROVE  WorkerInv'
<1>1. PICK kind \in Kinds :
        /\ pipe' = Append(pipe, kind)
        /\ \/ kind = "progress" /\ written' = written
           \/ kind = "pr" /\ written' = [written EXCEPT !.pr = TRUE]
           \/ /\ kind \in Reasons /\ written.final = "none"
              /\ written' = [written EXCEPT !.final = kind]
        /\ kind = "operator_stop" => asked = "observed"
        /\ proc = "working"
        /\ progress' \in 0 .. MaxProgress
        /\ UNCHANGED <<proc, rc, asked, reader, result, run, timedOut, inFlight, usr1,
                       cancels, watchdog, row>>
  BY WritesMoves
<1>2. TypeOK /\ EndsAgree /\ OneSignal /\ HarvestedIsWritten /\ Pursued
  BY DEF WorkerInv, StopInv
<1>3. MarkersTravel /\ Causes /\ CanceledOnRequest /\ MarkersDecide
  BY DEF WorkerInv
<1>4. pipe \in Seq(Kinds) /\ written \in [pr : BOOLEAN, final : Reasons \cup {"none"}]
  BY <1>2 DEF TypeOK, Kinds
<1>5. /\ pipe' \in Seq(Kinds) /\ Len(pipe) \in Nat /\ Len(pipe') = Len(pipe) + 1
      /\ \A n \in 1 .. Len(pipe) : pipe'[n] = pipe[n]
      /\ pipe'[Len(pipe) + 1] = kind
  BY <1>1, <1>4, AppendProperties, LenProperties
<1>6. /\ written' \in [pr : BOOLEAN, final : Reasons \cup {"none"}]
      /\ written.pr => written'.pr
      /\ written'.pr => written.pr \/ kind = "pr"
      /\ written.final # "none" => written'.final = written.final
      /\ written'.final # written.final => kind = written'.final
      /\ kind = "pr" => written'.pr
      /\ kind \in Reasons => written'.final = kind
  BY <1>1, <1>4 DEF Reasons, Agent!Reasons
<1>7. Alive /\ run \notin {"draining", "ended", "died"} /\ reader # "eof"
  BY <1>1, <1>2 DEF EndsAgree, Alive, Agent!Alive
<1>8. TypeOK'
  BY <1>1, <1>2, <1>5, <1>6 DEF TypeOK, Kinds
<1>9. EndsAgree'
  BY <1>1, <1>2, <1>7 DEF EndsAgree, Alive, Agent!Alive, ActiveRow
<1>10. OneSignal' /\ HarvestedIsWritten' /\ Pursued'
  BY <1>1, <1>2, <1>6 DEF OneSignal, HarvestedIsWritten, Pursued, Alive, Agent!Alive
<1>11. MarkersTravel'
  <2>1. \A n \in 1 .. Len(pipe') : n \in 1 .. Len(pipe) \/ n = Len(pipe) + 1
    BY <1>5
  <2>2. ASSUME NEW n \in 1 .. Len(pipe')
        PROVE  /\ pipe'[n] \in Reasons => pipe'[n] = written'.final
               /\ pipe'[n] = "pr" => written'.pr
    <3>1. CASE n \in 1 .. Len(pipe)
      <4>1. /\ pipe[n] \in Reasons => pipe[n] = written.final
            /\ pipe[n] = "pr" => written.pr
        BY <1>3, <3>1 DEF MarkersTravel
      <4>2. "none" \notin Reasons
        BY DEF Reasons, Agent!Reasons
      <4>3. QED
        BY <1>5, <1>6, <3>1, <4>1, <4>2
    <3>2. CASE n = Len(pipe) + 1
      BY <1>5, <1>6, <3>2
    <3>3. QED
      BY <2>1, <3>1, <3>2
  <2>3. \A line : InPipe(line) => InPipe(line)'
    BY <1>5 DEF InPipe
  <2>4. InPipe(kind)'
    BY <1>5 DEF InPipe
  <2>5. reader' # "failed" => reader # "failed" /\ UNCHANGED result
    BY <1>1
  <2>6. reader # "failed" =>
          /\ written.final # "none" => result.final = written.final \/ InPipe(written.final)
          /\ written.pr => result.pr \/ InPipe("pr")
    BY <1>3 DEF MarkersTravel
  <2>7. ASSUME reader' # "failed"
        PROVE  /\ written'.final # "none" =>
                    result'.final = written'.final \/ InPipe(written.final)'
               /\ written'.pr => result'.pr \/ InPipe("pr")'
    <3>1. CASE written'.final = written.final
      BY <1>6, <2>3, <2>4, <2>5, <2>6, <2>7, <3>1, ZenonT(60) DEF InPipe
    <3>2. CASE kind = written'.final
      BY <1>6, <2>3, <2>4, <2>5, <2>6, <2>7, <3>2 DEF InPipe
    <3>3. QED
      BY <1>6, <3>1, <3>2
  <2>8. QED
    BY <2>2, <2>7 DEF MarkersTravel
<1>12. Causes'
  <2>1. (written.final = "operator_stop" => asked = "observed")'
    BY <1>1, <1>3, <1>6 DEF Causes
  <2>2. QED
    BY <1>1, <1>3, <2>1 DEF Causes
<1>13. CanceledOnRequest' /\ MarkersDecide'
  BY <1>1, <1>3, <1>7 DEF CanceledOnRequest, MarkersDecide
<1>14. QED
  BY <1>8, <1>9, <1>10, <1>11, <1>12, <1>13 DEF WorkerInv, StopInv

\* The line that is read leaves the pipe; a marker is in the result then.
LEMMA ReadLineKeepsWorkerInv ==
  ASSUME WorkerInv, ReadLine
  PROVE  WorkerInv'
<1>1. TypeOK /\ EndsAgree /\ OneSignal /\ HarvestedIsWritten /\ Pursued
  BY DEF WorkerInv, StopInv
<1>2. MarkersTravel /\ Causes /\ CanceledOnRequest /\ MarkersDecide
  BY DEF WorkerInv
<1>3. /\ reader = "reading" /\ pipe # << >> /\ pipe' = Tail(pipe)
      /\ result' = Harvested(Head(pipe))
      /\ reader' \in {"reading", "posting"}
      /\ UNCHANGED <<proc, rc, asked, written, progress, run, timedOut, inFlight, usr1,
                     cancels, watchdog, row>>
  BY DEF ReadLine, worker, stop
<1>4. /\ pipe \in Seq(Kinds) /\ result \in [pr : BOOLEAN, final : Reasons \cup {"none"}]
      /\ written \in [pr : BOOLEAN, final : Reasons \cup {"none"}]
  BY <1>1 DEF TypeOK, Kinds
<1>5. /\ Len(pipe) \in Nat /\ Len(pipe) >= 1
      /\ Head(pipe) = pipe[1] /\ Head(pipe) \in Kinds
      /\ pipe' \in Seq(Kinds) /\ Len(pipe') = Len(pipe) - 1
      /\ \A n \in 1 .. Len(pipe') : pipe'[n] = pipe[n + 1]
  BY <1>3, <1>4, HeadTailProperties, EmptySeq, LenProperties
<1>6. /\ Head(pipe) \in Reasons => Head(pipe) = written.final
      /\ Head(pipe) = "pr" => written.pr
  BY <1>2, <1>5 DEF MarkersTravel
<1>7. /\ result' \in [pr : BOOLEAN, final : Reasons \cup {"none"}]
      /\ result'.pr <=> (result.pr \/ Head(pipe) = "pr")
      /\ result'.final = IF Head(pipe) \in Reasons THEN Head(pipe) ELSE result.final
  <2>1. CASE Head(pipe) = "pr"
    BY <1>3, <1>4, <2>1 DEF Harvested, Reasons, Agent!Reasons
  <2>2. CASE Head(pipe) \in Reasons
    BY <1>3, <1>4, <2>2 DEF Harvested, Reasons, Agent!Reasons
  <2>3. CASE Head(pipe) # "pr" /\ Head(pipe) \notin Reasons
    BY <1>3, <1>4, <2>3 DEF Harvested
  <2>4. QED
    BY <2>1, <2>2, <2>3
<1>8. TypeOK'
  BY <1>1, <1>3, <1>5, <1>7 DEF TypeOK, Kinds
<1>9. EndsAgree' /\ OneSignal' /\ Pursued'
  BY <1>1, <1>3 DEF EndsAgree, OneSignal, Pursued, Alive, Agent!Alive, ActiveRow
<1>10. HarvestedIsWritten'
  BY <1>1, <1>3, <1>6, <1>7 DEF HarvestedIsWritten
<1>11. MarkersTravel'
  <2>1. \A n \in 1 .. Len(pipe') :
          /\ pipe'[n] \in Reasons => pipe'[n] = written.final
          /\ pipe'[n] = "pr" => written.pr
    BY <1>2, <1>5 DEF MarkersTravel
  <2>2. \A line : InPipe(line) => line = Head(pipe) \/ InPipe(line)'
    <3>1. ASSUME NEW line, NEW n \in 1 .. Len(pipe), pipe[n] = line, n # 1
          PROVE  InPipe(line)'
      <4>1. n - 1 \in 1 .. Len(pipe') /\ pipe'[n - 1] = line
        BY <1>5, <3>1
      <4>2. QED
        BY <4>1 DEF InPipe
    <3>2. QED
      BY <1>5, <3>1 DEF InPipe
  <2>3. /\ written.final # "none" => result.final = written.final \/ InPipe(written.final)
        /\ written.pr => result.pr \/ InPipe("pr")
    BY <1>2, <1>3 DEF MarkersTravel
  <2>4. written.final # "none" => written.final \in Reasons
    BY <1>4
  <2>5. written.final # "none" => result'.final = written.final \/ InPipe(written.final)'
    BY <1>3, <1>6, <1>7, <2>2, <2>3, <2>4 DEF InPipe
  <2>6. written.pr => result'.pr \/ InPipe("pr")'
    BY <1>3, <1>7, <2>2, <2>3 DEF InPipe
  <2>7. QED
    BY <1>3, <2>1, <2>5, <2>6 DEF MarkersTravel, InPipe
<1>12. Causes' /\ CanceledOnRequest' /\ MarkersDecide'
  BY <1>2, <1>3 DEF Causes, CanceledOnRequest, MarkersDecide
<1>13. QED
  BY <1>8, <1>9, <1>10, <1>11, <1>12 DEF WorkerInv, StopInv

-----------------------------------------------------------------------------
(***************************************************************************)
(* The end of the session.                                                 *)
(***************************************************************************)
\* What the classification table makes of a FINAL line and of its absence.
LEMMA OutcomeProperties ==
  ASSUME NEW got \in [pr : BOOLEAN, final : Reasons \cup {"none"}]
  PROVE  /\ Outcome(got) \in
              [status : {"canceled", "failed", "pr_created", "completed"},
               message : {"none", "operator_stop", "operator_stop_forced",
                          "timeout", "error"}]
         /\ got.final = "operator_stop" => Outcome(got).message = "operator_stop"
         /\ got.final = "natural" => Outcome(got).status # "canceled"
         /\ Outcome(got).status = "canceled" => inFlight \/ got.final = "operator_stop"
         /\ got.pr /\ got.final # "operator_stop" /\ rc = "zero" /\ ~inFlight /\ ~timedOut
              => Outcome(got).status = "pr_created"
  BY DEF Outcome, Row, Reasons, Agent!Reasons

LEMMA ClassifyKeepsWorkerInv ==
  ASSUME WorkerInv, Classify
  PROVE  WorkerInv'
<1>1. TypeOK /\ EndsAgree /\ OneSignal /\ HarvestedIsWritten /\ Pursued
  BY DEF WorkerInv, StopInv
<1>2. MarkersTravel /\ Causes /\ CanceledOnRequest /\ MarkersDecide
  BY DEF WorkerInv
<1>3. /\ run = "draining" /\ run' = "ended"
      /\ UNCHANGED <<proc, rc, asked, written, progress, pipe, reader, result,
                     timedOut, inFlight, usr1, cancels, watchdog>>
  BY DEF Classify, worker, stream, stop
<1>4. PICK got \in {result, NoMarkers} :
        /\ row' = Outcome(got)
        /\ got = result \/ reader = "failed"
        /\ reader \in {"eof", "failed"}
  BY DEF Classify
<1>5. got \in [pr : BOOLEAN, final : Reasons \cup {"none"}]
  <2>1. NoMarkers \in [pr : BOOLEAN, final : Reasons \cup {"none"}]
    BY DEF NoMarkers, Agent!NoMarkers
  <2>2. result \in [pr : BOOLEAN, final : Reasons \cup {"none"}]
    BY <1>1 DEF TypeOK
  <2>3. QED
    BY <1>4, <2>1, <2>2
<1>6. got.final = "operator_stop" => inFlight
  <2>1. got.final = "operator_stop" => got = result
    BY <1>4 DEF NoMarkers, Agent!NoMarkers
  <2>2. QED
    BY <1>1, <1>2, <2>1 DEF HarvestedIsWritten, Causes, OneSignal
<1>7. /\ row' \in [status : {"canceled", "failed", "pr_created", "completed"},
                  message : {"none", "operator_stop", "operator_stop_forced",
                             "timeout", "error"}]
      /\ row'.status = "canceled" => inFlight
  BY <1>4, <1>5, <1>6, OutcomeProperties
<1>8. TypeOK'
  <2>1. row' \in [status : {"running", "canceled", "failed", "pr_created", "completed"},
                  message : {"none", "operator_stop", "operator_stop_forced",
                             "timeout", "error"}]
    BY <1>7
  <2>2. QED
    BY <1>1, <1>3, <2>1 DEF TypeOK
<1>9. EndsAgree'
  BY <1>1, <1>3, <1>7 DEF EndsAgree, Alive, Agent!Alive, ActiveRow
<1>10. OneSignal' /\ HarvestedIsWritten' /\ Pursued'
  BY <1>1, <1>3 DEF OneSignal, HarvestedIsWritten, Pursued, Alive, Agent!Alive
<1>11. MarkersTravel' /\ Causes'
  BY <1>2, <1>3, <1>4 DEF MarkersTravel, InPipe, Causes
<1>12. CanceledOnRequest'
  BY <1>3, <1>7 DEF CanceledOnRequest
<1>13. MarkersDecide'
  <2>1. SUFFICES ASSUME reader = "eof"
                 PROVE  /\ written.final = "operator_stop" => row'.message = "operator_stop"
                        /\ written.final = "natural" => row'.status # "canceled"
                        /\ written.pr /\ rc = "zero" /\ ~inFlight /\ ~timedOut
                             => row'.status = "pr_created"
    BY <1>3 DEF MarkersDecide
  <2>2. row' = Outcome(result) /\ result = got
    BY <1>4, <2>1
  <2>3. Len(pipe) = 0
    BY <1>1, <2>1, EmptySeq DEF EndsAgree
  <2>4. /\ written.final # "none" => result.final = written.final
        /\ written.pr => result.pr
    BY <1>2, <2>1, <2>3 DEF MarkersTravel, InPipe
  <2>5. result.final = "operator_stop" => inFlight
    BY <1>6, <2>2
  <2>6. QED
    BY <1>5, <2>2, <2>4, <2>5, OutcomeProperties
<1>14. QED
  BY <1>8, <1>9, <1>10, <1>11, <1>12, <1>13 DEF WorkerInv, StopInv

-----------------------------------------------------------------------------
\* WorkerInv is inductive.
LEMMA NextWorkerInv ==
  ASSUME WorkerInv, [Next]_vars
  PROVE  WorkerInv'
<1>1. CASE UNCHANGED vars
  BY <1>1 DEF vars, WorkerInv, StopInv, TypeOK, EndsAgree, OneSignal, HarvestedIsWritten,
              Pursued, MarkersTravel, InPipe, Causes, CanceledOnRequest, MarkersDecide,
              Alive, Agent!Alive, ActiveRow
<1>2. CASE Plain
  <2>1. StopInv'
    BY <1>2, PlainTypeOK, PlainEndsAgree DEF WorkerInv, StopInv
  <2>2. QED
    BY <1>2, <2>1, PlainKeepsHistory DEF WorkerInv
<1>3. QED
  BY <1>1, <1>2, WritesKeepsWorkerInv, ReadLineKeepsWorkerInv, ClassifyKeepsWorkerInv
  DEF Next, WorkerProcess, Reader, RunWorker, Watchdog, Plain, Writes

-----------------------------------------------------------------------------
\* Process, pipe, coroutines and row agree, and one SIGUSR1 at most is sent.
THEOREM StopConsistent == Spec => []StopInv
<1>1. WorkerInv => StopInv
  BY DEF WorkerInv
<1>2. QED
  BY <1>1, InitWorkerInv, NextWorkerInv, PTL DEF Spec

\* A session is recorded as canceled only when a /cancel was accepted for it.
THEOREM CanceledOnlyOnRequest == Spec => []CanceledOnRequest
<1>1. WorkerInv => CanceledOnRequest
  BY DEF WorkerInv
<1>2. QED
  BY <1>1, InitWorkerInv, NextWorkerInv, PTL DEF Spec

\* What the worker announced decides the outcome, once its pipe was read to
\* the end, in whatever order signal, timeout and exit came.
THEOREM MarkersDecideAlways == Spec => []MarkersDecide
<1>1. WorkerInv => MarkersDecide
  BY DEF WorkerInv
<1>2. QED
  BY <1>1, InitWorkerInv, NextWorkerInv, PTL DEF Spec
-----------------------------------------------------------------------------
(***************************************************************************)
(* The worker is one that SessionCore can take for its own.                *)
(***************************************************************************)
\* What SessionCore sees of the process and of the coroutine.
Ended  == IF Alive THEN "alive" ELSE "dead"
Course == CASE run = "draining" -> "draining"
            [] run = "ended"    -> "posting"
            [] run = "died"     -> "died"
            [] OTHER            -> "waiting"

\* A table with one line.
LEMMA OneLine ==
  ASSUME NEW x, NEW y
  PROVE  /\ One(x)["session"] = x
         /\ [One(x) EXCEPT !["session"] = y] = One(y)
  BY DEF One

\* The steps of SessionCore's session, in terms of the one line it has here.
LEMMA SessionSteps ==
  /\ Ended = "alive" /\ Ended' = "dead" /\ UNCHANGED <<row, Course>>
       => Core!ProcessExits("session")
  /\ Course = "waiting" /\ Ended = "dead" /\ Course' = "draining"
         /\ UNCHANGED <<row, Ended>>
       => Core!Reaped("session")
  /\ Course = "draining" /\ Course' = "died" /\ UNCHANGED <<row, Ended>>
       => Core!DrainOverruns("session")
  /\ Course = "draining" /\ Course' = "posting" /\ UNCHANGED Ended
         /\ row.status = "running"
       => Core!Classified("session", row'.status)
  /\ UNCHANGED <<row, Ended, Course>> => UNCHANGED Core!vars
<1> USE OneLine DEF Ended, Course, Core!Working, Core!LoopFree, Core!Transition, Core!db,
                    Core!git, Core!vars
<1>1. Ended = "alive" /\ Ended' = "dead" /\ UNCHANGED <<row, Course>>
        => Core!ProcessExits("session")
  BY DEF Core!ProcessExits
<1>2. Course = "waiting" /\ Ended = "dead" /\ Course' = "draining"
          /\ UNCHANGED <<row, Ended>>
        => Core!Reaped("session")
  BY DEF Core!Reaped
<1>3. Course = "draining" /\ Course' = "died" /\ UNCHANGED <<row, Ended>>
        => Core!DrainOverruns("session")
  BY DEF Core!DrainOverruns
<1>4. Course = "draining" /\ Course' = "posting" /\ UNCHANGED Ended
          /\ row.status = "running"
        => Core!Classified("session", row'.status)
  BY DEF Core!Classified
<1>5. UNCHANGED <<row, Ended, Course>> => UNCHANGED Core!vars
  OBVIOUS
<1>6. QED
  BY <1>1, <1>2, <1>3, <1>4, <1>5

\* What each step of the worker, its coroutines and its signals shows of it.
LEMMA StepsShow ==
  ASSUME StopInv, StopInv', Next
  PROVE  \/ Ended = "alive" /\ Ended' = "dead" /\ UNCHANGED <<row, Course>>
         \/ Course = "waiting" /\ Ended = "dead" /\ Course' = "draining"
              /\ UNCHANGED <<row, Ended>>
         \/ Course = "draining" /\ Course' = "died" /\ UNCHANGED <<row, Ended>>
         \/ Course = "draining" /\ Course' = "posting" /\ UNCHANGED Ended
              /\ row.status = "running" /\ row'.status \in Core!Terminal
         \/ UNCHANGED <<row, Ended, Course>>
<1> USE DEF worker, stream, stop, Silent, Line, Ended, Course, Alive, Agent!Alive
<1>1. TypeOK /\ EndsAgree /\ TypeOK' /\ EndsAgree'
  BY DEF StopInv
<1>2. CASE Boots \/ Exits \/ ObservesUsr1 \/ Reap
  BY <1>1, <1>2
  DEF Boots, Exits, ObservesUsr1, Reap, Agent!Boots, Agent!Exits, Agent!ObservesUsr1,
      Agent!Dies, TypeOK
<1>3. CASE Writes \/ Reader
  BY <1>3
  DEF Writes, WritesProgress, WritesPr, StopHook, InterruptWatchdog, Agent!WritesPr,
      Agent!WritesNatural, Agent!WritesOperatorStop, Agent!EmitFinalOnce, Reader,
      ReadLine, Posted, EndOfStream, StreamBreaks
<1>4. CASE SpawnReturns \/ WaitReturns \/ DrainOverruns
  BY <1>1, <1>4 DEF SpawnReturns, WaitReturns, DrainOverruns, EndsAgree
<1>5. CASE TimesOut \/ TermGraceExpires
  BY <1>1, <1>5 DEF TimesOut, TermGraceExpires, Term, Kill, Dies, Agent!Dies, TypeOK
<1>6. CASE Classify
  <2>1. row.status = "running" /\ run = "draining" /\ run' = "ended"
        /\ UNCHANGED <<proc, rc>>
    BY <1>1, <1>6 DEF Classify, EndsAgree, ActiveRow
  <2>2. row'.status \in Core!Terminal
    BY <1>1, <2>1 DEF TypeOK, EndsAgree, ActiveRow, Core!Terminal
  <2>3. QED
    BY <2>1, <2>2
<1>7. CASE Cancel \/ CancelIgnored
  BY <1>1, <1>7 DEF Cancel, CancelIgnored, Agent!ReceivesUsr1, Agent!Dies, TypeOK
<1>8. CASE Watchdog
  BY <1>1, <1>8
  DEF Watchdog, WatchdogFindsNoWorker, GraceExpires, WatchdogKills, Term, Kill, Dies,
      Agent!Dies, TypeOK
<1>9. QED
  BY <1>2, <1>3, <1>4, <1>5, <1>6, <1>7, <1>8 DEF Next, WorkerProcess, RunWorker, Writes

\* A spawned worker is in a state of SessionCore.
LEMMA SpawnedInCore == Init => Core!LockInv /\ Core!WorktreeInv
<1> SUFFICES ASSUME Init PROVE Core!LockInv /\ Core!WorktreeInv
  OBVIOUS
<1>1. row.status = "running" /\ Course = "waiting" /\ Ended = "alive"
  BY DEF Init, Running, Course, Ended, Alive, Agent!Alive, Agent!Init
<1> USE <1>1, OneLine DEF Course, Ended, Core!Active, Core!NonTerminal
<1>2. Core!TypeOK
  BY DEF Core!TypeOK, One
<1>3. /\ Core!RowsHaveIssue /\ Core!ActiveHoldsLock /\ Core!LockNamesItsIssue
      /\ Core!ReleaserHoldsLock
  BY DEF Core!RowsHaveIssue, Core!ActiveHoldsLock, Core!LockNamesItsIssue,
         Core!ReleaserHoldsLock
<1>4. Core!TaskMatchesStatus /\ Core!DispMatchesStatus /\ Core!MemoryFollowsDaemon
  BY DEF Core!TaskMatchesStatus, Core!DispMatchesStatus, Core!MemoryFollowsDaemon, Core!Idle
<1>5. Core!WorktreeInv
  BY DEF Core!WorktreeInv, Core!Occupies
<1>6. QED
  BY <1>2, <1>3, <1>4, <1>5 DEF Core!LockInv

\* Signals, timers, pipe, reader and classification come to what SessionCore
\* takes a worker for: a process that ends once, and a coroutine that goes on
\* to the terminal status, or dies, only after that.
THEOREM StopIsSession == Spec => ImplementsSession
<1>1. ASSUME StopInv, StopInv', [Next]_vars
      PROVE  [Core!WorkerStep("session") \/ Core!ProcessExits("session")]_(Core!vars)
  <2>1. CASE UNCHANGED vars
    <3>1. UNCHANGED <<row, Ended, Course>>
      BY <2>1 DEF vars, Ended, Course, Alive, Agent!Alive
    <3>2. QED
      BY <3>1, SessionSteps
  <2>2. CASE Next
    BY <1>1, <2>2, StepsShow, SessionSteps DEF Core!WorkerStep
  <2>3. QED
    BY <1>1, <2>1, <2>2
<1>2. QED
  BY <1>1, StopConsistent, SpawnedInCore, PTL DEF Spec, ImplementsSession
-----------------------------------------------------------------------------
(***************************************************************************)
(* Progress.                                                               *)
(***************************************************************************)
\* Sums of numbers, for the counts of steps below.
LEMMA SumFalls ==
  \A a, b, c \in Nat : a < b => a + c < b + c
OBVIOUS

LEMMA TwoForOne ==
  \A a, c \in Nat : c <= 2 => a - 2 + c < a + 1
OBVIOUS

LEMMA DifferenceIsNumber ==
  \A m \in Nat : \A n \in 0 .. m : m - n \in Nat
OBVIOUS

LEMMA SevenFall ==
  \A a, b, c, d, e, f, g \in Nat : \A c1, f1 \in Nat :
    f1 + c1 < f + c => a + b + c1 + d + e + f1 + g < a + b + c + d + e + f + g
OBVIOUS

\* The steps that are left are a number.
LEMMA LeftAreNumbers ==
  ASSUME TypeOK
  PROVE  /\ ProcLeft \in Nat /\ AskedLeft \in Nat /\ ReaderLeft \in Nat
         /\ RunLeft \in Nat /\ WatchdogLeft \in Nat /\ LinesLeft \in Nat
         /\ MaxCancels - cancels \in Nat
<1>1. ProcLeft \in Nat /\ AskedLeft \in Nat /\ ReaderLeft \in Nat
      /\ RunLeft \in Nat /\ WatchdogLeft \in Nat
  BY DEF ProcLeft, AskedLeft, ReaderLeft, RunLeft, WatchdogLeft
<1>2. Len(pipe) \in Nat
  BY LenProperties DEF TypeOK
<1>3. LinesLeft \in Nat
  BY <1>2, WorkerStopAssumption DEF TypeOK, LinesLeft
<1>4. MaxCancels - cancels \in Nat
  BY WorkerStopAssumption DEF TypeOK
<1>5. QED
  BY <1>1, <1>3, <1>4

\* What nobody ever takes back.
LEMMA NothingIsUndone ==
  ASSUME WorkerInv, Plain
  PROVE  /\ ProcLeft' <= ProcLeft /\ AskedLeft' <= AskedLeft
         /\ ReaderLeft' <= ReaderLeft /\ RunLeft' <= RunLeft
         /\ WatchdogLeft' <= WatchdogLeft /\ LinesLeft' = LinesLeft
         /\ MaxCancels - cancels' <= MaxCancels - cancels
<1> USE DEF worker, stream, stop, Silent, Plain, Boots, ObservesUsr1, Exits, Reap, Posted,
            EndOfStream, StreamBreaks, SpawnReturns, WaitReturns, TimesOut,
            TermGraceExpires, DrainOverruns, Cancel, CancelIgnored,
            WatchdogFindsNoWorker, GraceExpires, WatchdogKills
<1>1. TypeOK /\ EndsAgree /\ OneSignal /\ Pursued
  BY DEF WorkerInv, StopInv
<1>2. ProcLeft' <= ProcLeft
  BY <1>1 DEF ProcLeft, TypeOK, Term, Kill, Dies, Alive, Agent!Alive, Agent!Dies,
              Agent!Boots, Agent!ObservesUsr1, Agent!Exits, Agent!ReceivesUsr1
<1>3. AskedLeft' <= AskedLeft
  BY <1>1 DEF AskedLeft, TypeOK, Agent!Boots, Agent!ObservesUsr1, Agent!Exits,
              Agent!ReceivesUsr1
<1>4. ReaderLeft' <= ReaderLeft
  BY <1>1 DEF ReaderLeft, TypeOK, Pursued
<1>5. RunLeft' <= RunLeft
  BY <1>1 DEF RunLeft, TypeOK
<1>6. WatchdogLeft' <= WatchdogLeft
  BY <1>1 DEF WatchdogLeft, TypeOK, OneSignal
<1>7. LinesLeft' = LinesLeft
  BY PlainKeepsMarkers DEF LinesLeft
<1>8. MaxCancels - cancels' <= MaxCancels - cancels
  BY <1>1, WorkerStopAssumption DEF TypeOK
<1>9. QED
  BY <1>2, <1>3, <1>4, <1>5, <1>6, <1>7, <1>8

\* Each of these steps is one that somebody had before him.
LEMMA PlainCounts ==
  ASSUME WorkerInv, Plain
  PROVE  \/ ProcLeft' < ProcLeft \/ AskedLeft' < AskedLeft
         \/ ReaderLeft' < ReaderLeft \/ RunLeft' < RunLeft
         \/ WatchdogLeft' < WatchdogLeft
         \/ MaxCancels - cancels' < MaxCancels - cancels
<1>1. TypeOK /\ EndsAgree /\ OneSignal
  BY DEF WorkerInv, StopInv
<1>2. CASE Boots \/ Exits \/ Reap
  BY <1>1, <1>2
  DEF ProcLeft, TypeOK, Boots, Exits, Reap, Alive, Agent!Alive, Agent!Boots, Agent!Exits,
      Agent!Dies
<1>3. CASE ObservesUsr1
  BY <1>1, <1>3 DEF AskedLeft, ObservesUsr1, Agent!ObservesUsr1
<1>4. CASE Posted \/ EndOfStream \/ StreamBreaks
  BY <1>1, <1>4 DEF ReaderLeft, Posted, EndOfStream, StreamBreaks
<1>5. CASE SpawnReturns \/ WaitReturns \/ TimesOut \/ TermGraceExpires \/ DrainOverruns
  BY <1>1, <1>5
  DEF RunLeft, SpawnReturns, WaitReturns, TimesOut, TermGraceExpires, DrainOverruns
<1>6. CASE Cancel \/ CancelIgnored
  BY <1>1, <1>6, WorkerStopAssumption DEF TypeOK, Cancel, CancelIgnored
<1>7. CASE WatchdogFindsNoWorker \/ GraceExpires \/ WatchdogKills
  BY <1>1, <1>7 DEF WatchdogLeft, WatchdogFindsNoWorker, GraceExpires, WatchdogKills
<1>8. QED
  BY <1>2, <1>3, <1>4, <1>5, <1>6, <1>7 DEF Plain

\* A line costs three steps when it is written, two when it is read, and one
\* when it is posted.
LEMMA LinesCount ==
  ASSUME WorkerInv, Writes \/ ReadLine
  PROVE  /\ LinesLeft' + ReaderLeft' < LinesLeft + ReaderLeft
         /\ UNCHANGED <<ProcLeft, AskedLeft, RunLeft, WatchdogLeft, cancels>>
<1>1. TypeOK
  BY DEF WorkerInv, StopInv
<1>2. pipe \in Seq(Kinds) /\ Len(pipe) \in Nat
  BY <1>1, LenProperties DEF TypeOK, Kinds
<1>3. CASE Writes
  <2>1. UNCHANGED <<proc, asked, reader, run, watchdog, cancels>>
        /\ \E kind \in Kinds : pipe' = Append(pipe, kind)
    BY <1>3, WritesMoves
  <2>2. Len(pipe') = Len(pipe) + 1
    BY <1>2, <2>1, AppendProperties
  <2>3. \/ progress' = progress + 1 /\ progress < MaxProgress /\ written' = written
        \/ progress' = progress /\ ~written.pr /\ written'.pr
             /\ written'.final = written.final
        \/ progress' = progress /\ written.final = "none" /\ written'.final # "none"
             /\ written'.pr = written.pr
    BY <1>1, <1>3
    DEF Writes, WritesProgress, WritesPr, StopHook, InterruptWatchdog, Line, TypeOK,
        Agent!WritesPr, Agent!WritesNatural, Agent!WritesOperatorStop, Agent!EmitFinalOnce
  <2>4. LinesLeft' < LinesLeft
    <3>1. progress \in Nat /\ progress' \in Nat /\ MaxProgress \in Nat
      BY <1>1, <2>3, WorkerStopAssumption DEF TypeOK
    <3>2. QED
      BY <1>2, <2>2, <2>3, <3>1, SMTT(30) DEF LinesLeft
  <2>5. UNCHANGED <<ProcLeft, AskedLeft, ReaderLeft, RunLeft, WatchdogLeft, cancels>>
    BY <2>1 DEF ProcLeft, AskedLeft, ReaderLeft, RunLeft, WatchdogLeft
  <2>6. LinesLeft \in Nat /\ LinesLeft' \in Nat /\ ReaderLeft \in Nat
    <3>1. Len(pipe') \in Nat /\ progress' \in 0 .. MaxProgress
      BY <1>1, <1>2, <2>2, <2>3, WorkerStopAssumption DEF TypeOK
    <3>2. LinesLeft' \in Nat
      BY <3>1, WorkerStopAssumption DEF LinesLeft
    <3>3. QED
      BY <1>1, <3>2, LeftAreNumbers
  <2>7. LinesLeft' + ReaderLeft < LinesLeft + ReaderLeft
    BY <2>4, <2>6, SumFalls, Zenon
  <2>8. QED
    BY <2>5, <2>7
<1>4. CASE ReadLine
  <2>1. /\ reader = "reading" /\ pipe # << >> /\ pipe' = Tail(pipe)
        /\ reader' \in {"reading", "posting"}
        /\ UNCHANGED <<proc, asked, written, progress, run, watchdog, cancels>>
    BY <1>4 DEF ReadLine, worker, stop
  <2>2. Len(pipe') = Len(pipe) - 1 /\ Len(pipe) >= 1
    BY <1>2, <2>1, HeadTailProperties, EmptySeq, LenProperties
  <2>3. LinesLeft' = LinesLeft - 2
    <3>1. progress \in Nat /\ MaxProgress \in Nat
      BY <1>1, WorkerStopAssumption DEF TypeOK
    <3>2. QED
      BY <1>2, <2>1, <2>2, <3>1 DEF LinesLeft
  <2>4. ReaderLeft = 1 /\ ReaderLeft' <= 2 /\ ReaderLeft' \in Nat
    BY <2>1 DEF ReaderLeft
  <2>5. LinesLeft \in Nat
    BY <1>1, LeftAreNumbers
  <2>6. UNCHANGED <<ProcLeft, AskedLeft, RunLeft, WatchdogLeft>>
    BY <2>1 DEF ProcLeft, AskedLeft, RunLeft, WatchdogLeft
  <2>7. LinesLeft' + ReaderLeft' < LinesLeft + ReaderLeft
    <3>1. LinesLeft - 2 + ReaderLeft' < LinesLeft + 1
      BY <2>4, <2>5, TwoForOne, Zenon
    <3>2. QED
      BY <2>3, <2>4, <3>1, Zenon
  <2>8. QED
    BY <2>1, <2>6, <2>7
<1>5. QED
  BY <1>3, <1>4

\* The classification is the last step of the coroutine.
LEMMA ClassifyCounts ==
  ASSUME WorkerInv, Classify
  PROVE  /\ RunLeft' < RunLeft
         /\ UNCHANGED <<ProcLeft, AskedLeft, ReaderLeft, WatchdogLeft, LinesLeft, cancels>>
  BY DEF Classify, worker, stream, stop, ProcLeft, AskedLeft, ReaderLeft, RunLeft,
         WatchdogLeft, LinesLeft

\* Whatever the schedule, the worker, its coroutine, the reader, the watchdog
\* and the operator together take a bounded number of steps: nothing is tried
\* again for ever and nothing is undone.
THEOREM StepsRunOutAlways == Spec => StepsRunOut
<1>1. ASSUME WorkerInv, WorkerInv', [Next]_vars
      PROVE  [StepsLeft' < StepsLeft]_vars
  <2>1. TypeOK /\ TypeOK'
    BY <1>1 DEF WorkerInv, StopInv
  <2>2. /\ ProcLeft \in Nat /\ AskedLeft \in Nat /\ ReaderLeft \in Nat
        /\ RunLeft \in Nat /\ WatchdogLeft \in Nat /\ LinesLeft \in Nat
        /\ MaxCancels - cancels \in Nat
    BY <2>1, LeftAreNumbers
  <2>3. /\ ProcLeft' \in Nat /\ AskedLeft' \in Nat /\ ReaderLeft' \in Nat
        /\ RunLeft' \in Nat /\ WatchdogLeft' \in Nat /\ LinesLeft' \in Nat
        /\ MaxCancels - cancels' \in Nat
    <3>1. /\ ProcLeft' \in Nat /\ AskedLeft' \in Nat /\ ReaderLeft' \in Nat
          /\ RunLeft' \in Nat /\ WatchdogLeft' \in Nat
      BY DEF ProcLeft, AskedLeft, ReaderLeft, RunLeft, WatchdogLeft
    <3>2. Len(pipe') \in Nat /\ progress' \in 0 .. MaxProgress
      BY <2>1, LenProperties DEF TypeOK
    <3>3. LinesLeft' \in Nat
      BY <3>2, WorkerStopAssumption DEF LinesLeft
    <3>4. cancels' \in 0 .. MaxCancels
      BY <2>1 DEF TypeOK
    <3>5. MaxCancels - cancels' \in Nat
      BY <3>4, WorkerStopAssumption, DifferenceIsNumber, Zenon
    <3>6. QED
      BY <3>1, <3>3, <3>5
  <2>4. CASE Plain
    BY <1>1, <2>2, <2>3, <2>4, NothingIsUndone, PlainCounts DEF StepsLeft
  <2>5. CASE Writes \/ ReadLine
    <3>1. /\ LinesLeft' + ReaderLeft' < LinesLeft + ReaderLeft
          /\ UNCHANGED <<ProcLeft, AskedLeft, RunLeft, WatchdogLeft, cancels>>
      BY <1>1, <2>5, LinesCount
    <3>2. StepsLeft' = ProcLeft + AskedLeft + ReaderLeft' + RunLeft + WatchdogLeft
                         + LinesLeft' + (MaxCancels - cancels)
      BY <3>1, Zenon DEF StepsLeft
    <3>3. StepsLeft' < StepsLeft
      BY <2>2, <2>3, <3>1, <3>2, SevenFall, ZenonT(60) DEF StepsLeft
    <3>4. QED
      BY <3>3
  <2>6. CASE Classify
    BY <1>1, <2>2, <2>3, <2>6, ClassifyCounts DEF StepsLeft
  <2>7. QED
    BY <1>1, <2>4, <2>5, <2>6
    DEF Next, WorkerProcess, Reader, RunWorker, Watchdog, Plain, Writes
<1>2. QED
  BY <1>1, InitWorkerInv, NextWorkerInv, PTL DEF Spec, StepsRunOut

\* In no reachable state does run_worker wait for something that nobody does, nor
\* does a signalled worker live on without a watchdog that will stop it.
THEOREM SomebodyMovesAlways == Spec => []SomebodyMoves
<1>1. StopInv => SomebodyMoves
  BY DEF StopInv, TypeOK, EndsAgree, Pursued, SomebodyMoves, Exists, Alive, Agent!Alive
<1>2. QED
  BY <1>1, StopConsistent, PTL
=============================================================================
