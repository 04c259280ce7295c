------------------------- MODULE DaemonControlProofs --------------------------
(***************************************************************************)
(* Proofs about DaemonControl, for every set of daemons and shells.        *)
(***************************************************************************)
EXTENDS DaemonControl, SequenceTheorems, TLAPS

\* Before the first start nothing holds the PID file.
LEMMA InitControlInv == Init => ControlInv
<1> SUFFICES ASSUME Init PROVE ControlInv
  OBVIOUS
<1>1. calls \in [Daemons -> Seq(Callbacks)]
  BY EmptySeq DEF Init
<1>2. TypeOK
  BY <1>1 DEF Init, TypeOK, CliState, Alive, Commands
<1> QED
  BY <1>2, DaemonControlAssumption
  DEF Init, ControlInv, GuardHeld, SignalledWasArmed, LastCallDecides, CallsDecide, Working, Alive

-----------------------------------------------------------------------------
(***************************************************************************)
(* TypeOK.                                                                 *)
(***************************************************************************)
\* The end of a process keeps the types.
LEMMA DiesTypeOK ==
  ASSUME TypeOK, NEW d \in Daemons, Dies(d), UNCHANGED <<shown, operator>>
  PROVE  TypeOK'
<1>1. << >> \in Seq(Callbacks)
  BY EmptySeq
<1>2. (calls \in [Daemons -> Seq(Callbacks)])'
  BY <1>1 DEF TypeOK, Dies
<1> QED
  BY <1>2 DEF TypeOK, Dies, operator

\* The main thread's steps keep the types.
LEMMA MainStepTypeOK ==
  ASSUME TypeOK, NEW d \in Daemons, MainStep(d)
  PROVE  TypeOK'
<1> USE DEF process, received, loop, operator
<1>1. CASE Enters(d)
  BY <1>1 DEF Enters, TypeOK, Alive
<1>2. CASE Arms(d)
  BY <1>2 DEF Arms, TypeOK
<1>3. CASE Stops(d)
  <2>1. CASE Working(d)
    <3>1. Append(calls[d], "shutdown") \in Seq(Callbacks)
      BY AppendProperties DEF TypeOK, Callbacks
    <3>2. (calls \in [Daemons -> Seq(Callbacks)])'
      BY <1>3, <2>1, <3>1 DEF Stops, TypeOK
    <3> QED
      BY <1>3, <2>1, <3>2 DEF Stops, TypeOK
  <2>2. CASE ~Working(d)
    BY <1>3, <2>2, DiesTypeOK DEF Stops
  <2> QED
    BY <2>1, <2>2
<1>4. CASE Leaves(d)
  <2>1. CASE Working(d)
    BY <1>4, <2>1 DEF Leaves, TypeOK
  <2>2. CASE ~Working(d)
    BY <1>4, <2>2, DiesTypeOK DEF Leaves
  <2> QED
    BY <2>1, <2>2
<1>5. CASE Terminates(d)
  BY <1>5 DEF Terminates, TypeOK
<1>6. CASE Killed(d)
  BY <1>6, DiesTypeOK DEF Killed
<1>7. CASE IgnoresUsr1(d)
  BY <1>7 DEF IgnoresUsr1, TypeOK
<1>8. CASE HandlesUsr1(d)
  <2>1. CASE Working(d) \/ ~Heard(d)
    <3>1. Append(calls[d], Toggle(cmd.command)) \in Seq(Callbacks)
      BY AppendProperties DEF TypeOK, Callbacks, Toggle
    <3>2. (calls \in [Daemons -> Seq(Callbacks)])'
      BY <1>8, <2>1, <3>1, ZenonT(60) DEF HandlesUsr1, TypeOK
    <3>3. (accepted \in [Daemons -> Commands \cup {"none"}])'
      BY <1>8, <2>1, ZenonT(60) DEF HandlesUsr1, TypeOK
    <3>4. (lastSeq \in [Daemons -> Nat])'
      BY <1>8, <2>1 DEF HandlesUsr1, TypeOK
    <3> QED
      BY <1>8, <2>1, <3>2, <3>3, <3>4, ZenonT(60) DEF HandlesUsr1, TypeOK
  <2>2. CASE ~Working(d) /\ Heard(d)
    BY <1>8, <2>2, DiesTypeOK DEF HandlesUsr1
  <2> QED
    BY <2>1, <2>2
<1>9. QED
  BY <1>1, <1>2, <1>3, <1>4, <1>5, <1>6, <1>7, <1>8 DEF MainStep

\* The listener thread's steps keep the types.
LEMMA LoopStepTypeOK ==
  ASSUME TypeOK, NEW d \in Daemons, LoopStep(d)
  PROVE  TypeOK'
<1> USE DEF process, received, loop, operator
<1>0. << >> \in Seq(Callbacks)
  BY EmptySeq
<1>1. CASE Recovered(d)
  BY <1>1 DEF Recovered, Flush, TypeOK, Alive
<1>2. CASE RecoveryFails(d)
  <2>1. CASE main[d] # "left"
    <3>1. (calls \in [Daemons -> Seq(Callbacks)])'
      BY <1>0, <1>2, <2>1, ZenonT(60) DEF RecoveryFails, TypeOK
    <3> QED
      BY <1>2, <2>1, <3>1 DEF RecoveryFails, TypeOK
  <2>2. CASE main[d] = "left"
    BY <1>2, <2>2, DiesTypeOK DEF RecoveryFails
  <2> QED
    BY <2>1, <2>2
<1>3. CASE RunsCall(d)
  <2>1. Tail(calls[d]) \in Seq(Callbacks)
    BY <1>3, HeadTailProperties DEF RunsCall, TypeOK
  <2>2. (calls \in [Daemons -> Seq(Callbacks)])'
    BY <1>3, <2>1 DEF RunsCall, TypeOK
  <2>3. CASE RunsPause(d)
    BY <1>3, <2>2, <2>3 DEF RunsCall, RunsPause, Flush, TypeOK
  <2>4. CASE RunsResume(d)
    BY <1>3, <2>2, <2>4 DEF RunsCall, RunsResume, Flush, TypeOK
  <2>5. CASE RunsShutdown(d)
    <3>1. Heard(d) \in BOOLEAN
      BY DEF Heard
    <3>2. (stopping \in [Daemons -> BOOLEAN])'
      BY <2>5, <3>1, Zenon DEF RunsShutdown, TypeOK
    <3> QED
      BY <1>3, <2>2, <2>5, <3>2 DEF RunsCall, RunsShutdown, TypeOK
  <2> QED
    BY <1>3, <2>3, <2>4, <2>5 DEF RunsCall
<1>4. CASE Ends(d)
  BY <1>4 DEF Ends, Flush, TypeOK, Alive
<1>5. CASE ListenerRaises(d)
  BY <1>5 DEF ListenerRaises, TypeOK, Alive
<1>6. CASE Closes(d)
  <2>1. CASE main[d] # "left"
    <3>1. (calls \in [Daemons -> Seq(Callbacks)])'
      BY <1>0, <1>6, <2>1, ZenonT(60) DEF Closes, TypeOK
    <3> QED
      BY <1>6, <2>1, <3>1 DEF Closes, TypeOK
  <2>2. CASE main[d] = "left"
    BY <1>6, <2>2, DiesTypeOK DEF Closes
  <2> QED
    BY <2>1, <2>2
<1>7. QED
  BY <1>1, <1>2, <1>3, <1>4, <1>5, <1>6 DEF LoopStep

\* What a shell notes about its command keeps the type of that note.
LEMMA CliStateExcept ==
  ASSUME NEW note \in CliState, NEW to \in Daemons \cup {Nobody}
  PROVE  /\ [note EXCEPT !.pc = "written"] \in CliState
         /\ [note EXCEPT !.pc = "not running"] \in CliState
         /\ [note EXCEPT !.pc = "signalled", !.to = to] \in CliState
  BY DEF CliState

\* The commands' steps keep the types.
LEMMA CommandStepTypeOK ==
  ASSUME TypeOK, NEW c \in Clis, CommandStep(c)
  PROVE  TypeOK'
<1> USE DEF process, received, loop, operator
<1>1. CASE Numbers(c)
  <2>1. PICK command \in Commands :
          cli' = [cli EXCEPT ![c] = [pc |-> "numbered", seq |-> cmd.seq + 1,
                                     command |-> command, to |-> Nobody]]
    BY <1>1 DEF Numbers
  <2>2. [pc |-> "numbered", seq |-> cmd.seq + 1, command |-> command,
         to |-> Nobody] \in CliState
    <3>1. cmd.seq + 1 \in Nat
      BY DEF TypeOK
    <3> QED
      BY <3>1 DEF CliState
  <2>3. (cli \in [Clis -> CliState])'
    BY <2>1, <2>2 DEF TypeOK
  <2> QED
    BY <1>1, <2>3 DEF Numbers, TypeOK
<1>2. CASE Writes(c)
  <2>1. [cli[c] EXCEPT !.pc = "written"] \in CliState
    BY CliStateExcept DEF TypeOK
  <2>2. (cli \in [Clis -> CliState])'
    BY <1>2, <2>1 DEF Writes, TypeOK
  <2>3. cli[c].seq \in Nat /\ cli[c].command \in Commands \cup {"none"}
    BY DEF TypeOK, CliState
  <2>4. (cmd \in [seq : Nat, command : Commands \cup {"none"}, by : Clis \cup {Nobody}])'
    BY <1>2, <2>3 DEF Writes
  <2> QED
    BY <1>2, <2>2, <2>4 DEF Writes, TypeOK
<1>3. CASE Signals(c)
  <2>1. CASE guard = Nobody
    <3>1. [cli[c] EXCEPT !.pc = "not running"] \in CliState
      BY CliStateExcept DEF TypeOK
    <3>2. (cli \in [Clis -> CliState])'
      BY <1>3, <2>1, <3>1 DEF Signals, TypeOK
    <3> QED
      BY <1>3, <2>1, <3>2 DEF Signals, TypeOK
  <2>2. CASE guard # Nobody
    <3>1. guard \in Daemons
      BY <2>2 DEF TypeOK
    <3>2. [cli[c] EXCEPT !.pc = "signalled", !.to = guard] \in CliState
      BY <3>1, CliStateExcept DEF TypeOK
    <3>3. (cli \in [Clis -> CliState])'
      BY <1>3, <2>2, <3>2 DEF Signals, TypeOK
    <3>4. CASE Armed(guard)
      BY <1>3, <2>2, <3>1, <3>3, <3>4 DEF Signals, TypeOK
    <3>5. CASE ~Armed(guard)
      <4>1. Dies(guard) /\ UNCHANGED <<shown, cmd>>
        BY <1>3, <2>2, <3>5 DEF Signals
      <4>2. (calls \in [Daemons -> Seq(Callbacks)])'
        BY <3>1, <4>1, EmptySeq DEF Dies, TypeOK
      <4> QED
        BY <3>1, <3>3, <4>1, <4>2 DEF Dies, TypeOK
    <3> QED
      BY <3>4, <3>5
  <2> QED
    BY <2>1, <2>2
<1>4. QED
  BY <1>1, <1>2, <1>3 DEF CommandStep

\* Every step keeps the types.
LEMMA NextTypeOK == TypeOK /\ [Next]_vars => TypeOK'
<1> SUFFICES ASSUME TypeOK, [Next]_vars PROVE TypeOK'
  OBVIOUS
<1>1. CASE UNCHANGED vars
  BY <1>1 DEF TypeOK, vars
<1> QED
  BY <1>1, MainStepTypeOK, LoopStepTypeOK, CommandStepTypeOK DEF Next

-----------------------------------------------------------------------------
(***************************************************************************)
(* The PID file.                                                           *)
(***************************************************************************)
\* The end of a process frees the PID file if it was its own.
LEMMA DiesGuardHeld ==
  ASSUME TypeOK, GuardHeld, NEW d \in Daemons, Dies(d)
  PROVE  GuardHeld'
  BY DaemonControlAssumption DEF TypeOK, GuardHeld, Dies, Working, Alive

\* Every step keeps the PID file with the process that is inside.
LEMMA NextGuardHeld == TypeOK /\ GuardHeld /\ [Next]_vars => GuardHeld'
<1> SUFFICES ASSUME TypeOK, GuardHeld, [Next]_vars PROVE GuardHeld'
  OBVIOUS
<1> USE DaemonControlAssumption DEF process, received, loop, operator
<1>1. ASSUME NEW d \in Daemons, MainStep(d) PROVE GuardHeld'
  <2>1. CASE Dies(d)
    BY <2>1, DiesGuardHeld
  <2>2. CASE Enters(d)
    <3>1. \A e \in Daemons :
            main[e] \notin {"unconfigured", "starting", "serving", "joining"}
      BY <2>2 DEF Enters, GuardHeld
    <3>2. /\ guard' = d
          /\ main'[d] \in {"unconfigured", "starting"}
          /\ \A e \in Daemons \ {d} : main'[e] = main[e] /\ thread'[e] = thread[e]
          /\ main'[d] = "unconfigured" => thread'[d] = thread[d]
      BY <2>2 DEF Enters, TypeOK
    <3>3. thread[d] = "none"
      BY <2>2 DEF Enters, GuardHeld
    <3> QED
      BY <3>1, <3>2, <3>3 DEF GuardHeld, Working
  <2>3. CASE Arms(d)
    BY <2>3 DEF Arms, TypeOK, GuardHeld, Working
  <2>4. CASE Stops(d) /\ ~Dies(d)
    BY <2>4, ZenonT(60) DEF Stops, TypeOK, GuardHeld, Working
  <2>5. CASE Leaves(d) /\ ~Dies(d)
    <3>1. /\ Working(d)
          /\ main' = [main EXCEPT ![d] = "left"]
          /\ guard' = IF guard = d THEN Nobody ELSE guard
          /\ thread' = thread
      BY <2>5 DEF Leaves
    <3> QED
      BY <3>1 DEF TypeOK, GuardHeld, Working
  <2>6. CASE Terminates(d) \/ IgnoresUsr1(d)
    BY <2>6 DEF Terminates, IgnoresUsr1, GuardHeld, Working
  <2>7. CASE HandlesUsr1(d) /\ ~Dies(d)
    BY <2>7 DEF HandlesUsr1, GuardHeld, Working
  <2> QED
    BY <1>1, <2>1, <2>2, <2>3, <2>4, <2>5, <2>6, <2>7 DEF MainStep, Killed
<1>2. ASSUME NEW d \in Daemons, LoopStep(d) PROVE GuardHeld'
  <2>1. CASE Dies(d)
    BY <2>1, DiesGuardHeld
  <2>2. CASE Recovered(d)
    BY <2>2 DEF Recovered, TypeOK, GuardHeld, Working, Alive
  <2>3. CASE RunsCall(d)
    BY <2>3 DEF RunsCall, GuardHeld, Working
  <2>4. CASE Ends(d) \/ ListenerRaises(d)
    BY <2>4 DEF Ends, ListenerRaises, TypeOK, GuardHeld, Working, Alive
  <2>5. CASE (RecoveryFails(d) \/ Closes(d)) /\ ~Dies(d)
    BY <2>5 DEF RecoveryFails, Closes, TypeOK, GuardHeld, Working, Alive
  <2> QED
    BY <1>2, <2>1, <2>2, <2>3, <2>4, <2>5 DEF LoopStep
<1>3. ASSUME NEW c \in Clis, CommandStep(c) PROVE GuardHeld'
  <2>1. CASE guard \in Daemons /\ Dies(guard)
    BY <2>1, DiesGuardHeld
  <2>2. CASE UNCHANGED <<guard, main, thread>>
    BY <2>2 DEF GuardHeld, Working
  <2> QED
    BY <1>3, <2>1, <2>2 DEF CommandStep, Numbers, Writes, Signals, TypeOK
<1>4. CASE UNCHANGED vars
  BY <1>4 DEF vars, GuardHeld, Working
<1> QED
  BY <1>1, <1>2, <1>3, <1>4 DEF Next

\* Every step keeps SignalledWasArmed: a daemon is named by a command when it is
\* signalled, and a signal before Arms ends it.
LEMMA NextSignalledWasArmed ==
  TypeOK /\ GuardHeld /\ SignalledWasArmed /\ [Next]_vars => SignalledWasArmed'
<1> SUFFICES ASSUME TypeOK, GuardHeld, SignalledWasArmed, [Next]_vars
             PROVE  SignalledWasArmed'
  OBVIOUS
<1> USE DaemonControlAssumption DEF process, received, loop, operator
<1>1. ASSUME NEW d \in Daemons, MainStep(d) \/ LoopStep(d) PROVE SignalledWasArmed'
  <2>1. cli' = cli
    BY <1>1 DEF MainStep, LoopStep, Enters, Arms, Stops, Leaves, Terminates, Killed,
       IgnoresUsr1, HandlesUsr1, Recovered, RecoveryFails, RunsCall, Ends,
       ListenerRaises, Closes
  <2>2. \A e \in Daemons : main[e] \in {"serving", "joining", "left", "dead"} =>
          main'[e] \in {"serving", "joining", "left", "dead"}
    BY <1>1 DEF TypeOK, MainStep, LoopStep, Enters, Arms, Stops, Leaves, Terminates,
       Killed, IgnoresUsr1, HandlesUsr1, Recovered, RecoveryFails, RunsCall, Ends,
       ListenerRaises, Closes, Dies
  <2>3. \A c \in Clis : cli[c].to \in Daemons \cup {Nobody}
    BY DEF TypeOK, CliState
  <2> QED
    BY <2>1, <2>2, <2>3 DEF SignalledWasArmed
<1>2. ASSUME NEW c \in Clis, CommandStep(c) PROVE SignalledWasArmed'
  <2>1. CASE Numbers(c)
    <3>1. main' = main /\ cli'[c].to = Nobody
      <4>1. PICK command \in Commands :
              cli' = [cli EXCEPT ![c] = [pc |-> "numbered", seq |-> cmd.seq + 1,
                                         command |-> command, to |-> Nobody]]
        BY <2>1 DEF Numbers
      <4>2. cli'[c] = [pc |-> "numbered", seq |-> cmd.seq + 1,
                       command |-> command, to |-> Nobody]
        BY <4>1 DEF TypeOK
      <4>3. cli'[c].to = Nobody
        BY ONLY <4>2
      <4> QED
        BY <2>1, <4>3 DEF Numbers
    <3>2. \A e \in Clis \ {c} : cli'[e] = cli[e]
      BY <2>1 DEF Numbers, TypeOK
    <3> QED
      BY <3>1, <3>2 DEF SignalledWasArmed
  <2>2. CASE Writes(c)
    BY <2>2, ZenonT(60) DEF Writes, SignalledWasArmed, TypeOK, CliState
  <2>3. CASE Signals(c)
    <3>1. /\ cli'[c].pc \in {"signalled", "not running"}
          /\ cli'[c].to = IF guard = Nobody THEN cli[c].to ELSE guard
          /\ \A e \in Clis \ {c} : cli'[e] = cli[e]
      <4>1. cli[c] \in CliState
        BY DEF TypeOK
      <4>2. CASE guard = Nobody
        <5>1. cli' = [cli EXCEPT ![c].pc = "not running"]
          BY <2>3, <4>2 DEF Signals
        <5> QED
          BY <4>1, <4>2, <5>1 DEF TypeOK, CliState
      <4>3. CASE guard # Nobody
        <5>1. cli' = [cli EXCEPT ![c].pc = "signalled", ![c].to = guard]
          BY <2>3, <4>3 DEF Signals
        <5> QED
          BY <4>1, <4>3, <5>1 DEF TypeOK, CliState
      <4> QED
        BY <4>2, <4>3
    <3>2. cli[c].to = Nobody
      BY <2>3 DEF Signals, SignalledWasArmed
    <3>3. \A e \in Daemons : main'[e] = main[e] \/ main'[e] = "dead"
      BY <2>3 DEF Signals, Dies, TypeOK
    <3>4. guard # Nobody => main'[guard] \in {"serving", "joining", "left", "dead"}
      BY <2>3 DEF Signals, Dies, Armed, TypeOK
    <3>5. \A e \in Clis : cli[e].to \in Daemons \cup {Nobody}
      BY DEF TypeOK, CliState
    <3> QED
      BY <3>1, <3>2, <3>3, <3>4, <3>5 DEF SignalledWasArmed
  <2> QED
    BY <1>2, <2>1, <2>2, <2>3 DEF CommandStep
<1>3. CASE UNCHANGED vars
  BY <1>3 DEF vars, SignalledWasArmed
<1> QED
  BY <1>1, <1>2, <1>3 DEF Next

-----------------------------------------------------------------------------
(***************************************************************************)
(* The order of the callbacks.                                             *)
(***************************************************************************)
\* A callback appended is the last one, unless it is the shutdown.
LEMMA LastIsAppend ==
  ASSUME NEW queue \in Seq(Callbacks), NEW call, NEW new \in Callbacks,
         \/ new = "shutdown" /\ LastIs(queue, call)
         \/ new = call /\ call # "shutdown"
  PROVE  /\ LastIs(Append(queue, new), call)
         /\ OnlyShutdown(Append(queue, new)) =>
              OnlyShutdown(queue) /\ new = "shutdown"
<1> DEFINE longer == Append(queue, new)
<1>1. /\ Len(queue) \in Nat /\ Len(longer) = Len(queue) + 1
      /\ longer[Len(queue) + 1] = new
      /\ \A n \in 1 .. Len(queue) : longer[n] = queue[n]
  BY AppendProperties, LenProperties
<1> HIDE DEF longer
<1>2. LastIs(longer, call)
  <2> SUFFICES ASSUME NEW n \in 1 .. Len(longer), longer[n] \notin {"shutdown", call}
               PROVE  \E m \in n + 1 .. Len(longer) : longer[m] # "shutdown"
    BY DEF LastIs
  <2>1. n \in 1 .. Len(queue)
    BY <1>1
  <2>2. CASE new = "shutdown"
    <3>1. PICK m \in n + 1 .. Len(queue) : queue[m] # "shutdown"
      BY <1>1, <2>1, <2>2 DEF LastIs
    <3> QED
      BY <1>1, <2>1, <3>1
  <2>3. CASE new # "shutdown"
    BY <1>1, <2>1, <2>3
  <2> QED
    BY <2>2, <2>3
<1>3. OnlyShutdown(longer) => OnlyShutdown(queue) /\ new = "shutdown"
  BY <1>1 DEF OnlyShutdown
<1> QED
  BY <1>2, <1>3 DEF longer

\* Running the head leaves the last callback the last one; the last pause or
\* resume is the head when only shutdowns follow it.
LEMMA LastIsTail ==
  ASSUME NEW queue \in Seq(Callbacks), queue # << >>, NEW call, LastIs(queue, call)
  PROVE  /\ LastIs(Tail(queue), call)
         /\ OnlyShutdown(Tail(queue)) =>
              Head(queue) = call \/ OnlyShutdown(queue)
<1> DEFINE rest == Tail(queue)
<1>1. /\ Len(queue) \in Nat \ {0} /\ Len(rest) = Len(queue) - 1
      /\ Head(queue) = queue[1]
      /\ \A n \in 1 .. Len(rest) : rest[n] = queue[n + 1]
  BY EmptySeq, HeadTailProperties
<1> HIDE DEF rest
<1>2. \A n \in 2 .. Len(queue) : n - 1 \in 1 .. Len(rest) /\ queue[n] = rest[n - 1]
  BY <1>1
<1>3. LastIs(rest, call)
  <2> SUFFICES ASSUME NEW n \in 1 .. Len(rest), rest[n] \notin {"shutdown", call}
               PROVE  \E m \in n + 1 .. Len(rest) : rest[m] # "shutdown"
    BY DEF LastIs
  <2>1. n + 1 \in 1 .. Len(queue) /\ queue[n + 1] = rest[n]
    BY <1>1
  <2>2. PICK m \in n + 2 .. Len(queue) : queue[m] # "shutdown"
    BY <2>1, <1>1 DEF LastIs
  <2> QED
    BY <1>1, <1>2, <2>2
<1>4. ASSUME OnlyShutdown(rest) PROVE Head(queue) = call \/ OnlyShutdown(queue)
  BY <1>1, <1>2, <1>4, SMTT(30) DEF LastIs, OnlyShutdown
<1> QED
  BY <1>3, <1>4 DEF rest

\* A step of one daemon keeps LastCallDecides if it does so for that daemon.
LEMMA LastCallOfOne ==
  ASSUME LastCallDecides, NEW d \in Daemons, CallsDecide(d)',
         \A e \in Daemons \ {d} : /\ thread'[e] = thread[e] /\ accepted'[e] = accepted[e]
                                 /\ calls'[e] = calls[e] /\ running'[e] = running[e]
  PROVE  LastCallDecides'
<1> SUFFICES ASSUME NEW e \in Daemons PROVE CallsDecide(e)'
  BY DEF LastCallDecides
<1>1. CASE e # d
  BY <1>1 DEF LastCallDecides, CallsDecide, LastIs, OnlyShutdown, Toggle
<1> QED
  BY <1>1

\* The end of a process.
LEMMA DiesLastCall ==
  ASSUME TypeOK, LastCallDecides, NEW d \in Daemons, Dies(d)
  PROVE  LastCallDecides'
<1>1. thread'[d] = "none" /\ accepted'[d] = "none"
  BY DEF Dies, TypeOK
<1>2. CallsDecide(d)'
  BY <1>1 DEF CallsDecide
<1>3. \A e \in Daemons \ {d} : /\ thread'[e] = thread[e] /\ accepted'[e] = accepted[e]
                              /\ calls'[e] = calls[e] /\ running'[e] = running[e]
  BY DEF Dies, TypeOK
<1> QED
  BY <1>2, <1>3, LastCallOfOne

\* The main thread's steps append to the queue what was accepted last.
LEMMA MainStepLastCall ==
  ASSUME TypeOK, GuardHeld, LastCallDecides, NEW d \in Daemons, MainStep(d)
  PROVE  LastCallDecides'
<1> USE DEF process, received, loop, operator
<1>1. CASE Dies(d)
  BY <1>1, DiesLastCall
<1>2. CASE Enters(d)
  <2>1. accepted'[d] = "none" /\ thread'[d] # "listening"
    BY <1>2 DEF Enters, GuardHeld, LastCallDecides, CallsDecide, TypeOK
  <2>2. CallsDecide(d)'
    BY <2>1 DEF CallsDecide
  <2> QED
    BY <1>2, <2>2, LastCallOfOne DEF Enters, TypeOK
<1>3. CASE UNCHANGED <<thread, accepted, calls, running>>
  BY <1>3 DEF LastCallDecides, CallsDecide, LastIs, OnlyShutdown, Toggle
<1>4. CASE Stops(d) /\ ~Dies(d)
  <2>1. /\ calls' = [calls EXCEPT ![d] = Append(calls[d], "shutdown")]
        /\ UNCHANGED <<thread, accepted, running>>
    BY <1>4 DEF Stops
  <2>2. calls[d] \in Seq(Callbacks) /\ "shutdown" \in Callbacks
    BY DEF TypeOK, Callbacks
  <2>3. calls'[d] = Append(calls[d], "shutdown")
    BY <2>1 DEF TypeOK
  <2>4. CallsDecide(d)'
    BY <2>1, <2>2, <2>3, LastIsAppend DEF LastCallDecides, CallsDecide, Toggle
  <2> QED
    BY <2>1, <2>4, LastCallOfOne DEF TypeOK
<1>5. CASE HandlesUsr1(d) /\ ~Dies(d) /\ Heard(d)
  <2>1. /\ calls' = [calls EXCEPT ![d] = Append(calls[d], Toggle(cmd.command))]
        /\ accepted' = [accepted EXCEPT ![d] = cmd.command]
        /\ UNCHANGED <<thread, running>>
    BY <1>5 DEF HandlesUsr1
  <2>2. calls[d] \in Seq(Callbacks) /\ Toggle(cmd.command) \in Callbacks \ {"shutdown"}
    BY DEF TypeOK, Callbacks, Toggle
  <2>3. /\ calls'[d] = Append(calls[d], Toggle(cmd.command))
        /\ accepted'[d] = cmd.command
    BY <2>1 DEF TypeOK
  <2>4. /\ LastIs(calls'[d], Toggle(accepted'[d]))
        /\ ~OnlyShutdown(calls'[d])
    BY <2>2, <2>3, LastIsAppend
  <2>5. thread'[d] \notin {"none", "recovering", "aborted"}
    BY <1>5, <2>1 DEF Heard
  <2>6. CallsDecide(d)'
    BY <2>4, <2>5 DEF CallsDecide, Toggle, LastIs, OnlyShutdown
  <2> QED
    BY <2>1, <2>6, LastCallOfOne DEF TypeOK
<1>6. CASE HandlesUsr1(d) /\ ~Dies(d) /\ ~Heard(d)
  BY <1>3, <1>6 DEF HandlesUsr1
<1> QED
  BY <1>1, <1>2, <1>3, <1>4, <1>5, <1>6
  DEF MainStep, Arms, Leaves, Terminates, Killed, IgnoresUsr1

\* The listener thread's steps run the queue from its head.
LEMMA LoopStepLastCall ==
  ASSUME TypeOK, LastCallDecides, NEW d \in Daemons, LoopStep(d)
  PROVE  LastCallDecides'
<1> USE DEF process, received, loop, operator
<1>1. CASE Dies(d)
  BY <1>1, DiesLastCall
<1>2. CASE ~Dies(d) /\ ~RunsCall(d)
  <2>1. accepted' = accepted /\ thread'[d] \in {"listening", "aborted", "draining", "closed"}
    BY <1>2 DEF LoopStep, Recovered, RecoveryFails, Ends, ListenerRaises, Closes, TypeOK
  <2>2. thread'[d] \in {"listening", "aborted"} => accepted[d] = "none"
    BY <1>2 DEF LoopStep, Recovered, RecoveryFails, Ends, ListenerRaises, Closes,
       TypeOK, LastCallDecides, CallsDecide
  <2>3. CallsDecide(d)'
    BY <2>1, <2>2 DEF CallsDecide
  <2>4. \A e \in Daemons \ {d} : /\ thread'[e] = thread[e] /\ calls'[e] = calls[e]
                                /\ running'[e] = running[e]
    BY <1>2, ZenonT(60) DEF LoopStep, Recovered, RecoveryFails, Ends, ListenerRaises, Closes, TypeOK
  <2> QED
    BY <2>1, <2>3, <2>4, LastCallOfOne
<1>3. CASE RunsCall(d)
  <2>1. /\ calls' = [calls EXCEPT ![d] = Tail(calls[d])] /\ calls[d] # << >>
        /\ UNCHANGED <<thread, accepted>>
    BY <1>3 DEF RunsCall
  <2>2. calls[d] \in Seq(Callbacks) /\ calls'[d] = Tail(calls[d])
    BY <2>1 DEF TypeOK
  <2>3. \A e \in Daemons \ {d} : calls'[e] = calls[e] /\ running'[e] = running[e]
    <3>1. \/ running' = [running EXCEPT ![d] = FALSE]
          \/ running' = [running EXCEPT ![d] = TRUE]
          \/ running' = running
      BY <1>3 DEF RunsCall, RunsPause, RunsResume, RunsShutdown
    <3>2. \A e \in Daemons \ {d} : running'[e] = running[e]
      BY ONLY <3>1, TypeOK DEF TypeOK
    <3>3. \A e \in Daemons \ {d} : calls'[e] = calls[e]
      BY ONLY <2>1, TypeOK DEF TypeOK
    <3> QED
      BY <3>2, <3>3
  <2>4. ASSUME thread[d] = "listening", accepted[d] # "none"
        PROVE  /\ LastIs(calls'[d], Toggle(accepted[d]))
               /\ OnlyShutdown(calls'[d]) => running'[d] = (accepted[d] = "start")
    <3>1. /\ LastIs(calls'[d], Toggle(accepted[d]))
          /\ OnlyShutdown(calls'[d]) =>
               Head(calls[d]) = Toggle(accepted[d]) \/ OnlyShutdown(calls[d])
      BY <2>1, <2>2, <2>4, LastIsTail DEF LastCallDecides, CallsDecide
    <3>2. ASSUME Head(calls[d]) = Toggle(accepted[d])
          PROVE  running'[d] = (accepted[d] = "start")
      <4>1. CASE accepted[d] = "start"
        BY <1>3, <3>2, <4>1 DEF Toggle, RunsCall, RunsResume, TypeOK
      <4>2. CASE accepted[d] # "start"
        BY <1>3, <3>2, <4>2 DEF Toggle, RunsCall, RunsPause, TypeOK
      <4> QED
        BY <4>1, <4>2
    <3>3. ASSUME OnlyShutdown(calls[d])
          PROVE  running'[d] = (accepted[d] = "start")
      <4>1. Head(calls[d]) = "shutdown"
        BY <2>1, <2>2, <3>3, EmptySeq DEF OnlyShutdown
      <4>2. running'[d] = running[d]
        BY <1>3, <4>1 DEF RunsCall, RunsShutdown
      <4> QED
        BY <2>4, <3>3, <4>2 DEF LastCallDecides, CallsDecide
    <3> QED
      BY <3>1, <3>2, <3>3
  <2>5. CallsDecide(d)'
    BY <2>1, <2>4 DEF CallsDecide, LastCallDecides
  <2> QED
    BY <2>1, <2>3, <2>5, LastCallOfOne
<1> QED
  BY <1>1, <1>2, <1>3

\* A command only reaches the queue through a signal, and the signal that kills
\* a process empties it.
LEMMA CommandStepLastCall ==
  ASSUME TypeOK, LastCallDecides, NEW c \in Clis, CommandStep(c)
  PROVE  LastCallDecides'
<1>1. \/ guard \in Daemons /\ Dies(guard)
      \/ UNCHANGED <<thread, accepted, calls, running>>
  BY DEF CommandStep, Numbers, Writes, Signals, process, received, loop, TypeOK
<1>2. CASE guard \in Daemons /\ Dies(guard)
  BY <1>2, DiesLastCall
<1>3. CASE UNCHANGED <<thread, accepted, calls, running>>
  BY <1>3 DEF LastCallDecides, CallsDecide, LastIs, OnlyShutdown, Toggle
<1> QED
  BY <1>1, <1>2, <1>3

LEMMA NextLastCall ==
  ASSUME TypeOK, GuardHeld, LastCallDecides, [Next]_vars
  PROVE  LastCallDecides'
<1>1. CASE UNCHANGED vars
  BY <1>1 DEF vars, LastCallDecides, CallsDecide, LastIs, OnlyShutdown, Toggle
<1>2. ASSUME NEW d \in Daemons, MainStep(d) PROVE LastCallDecides'
  BY <1>2, MainStepLastCall
<1>3. ASSUME NEW d \in Daemons, LoopStep(d) PROVE LastCallDecides'
  BY <1>3, LoopStepLastCall
<1>4. ASSUME NEW c \in Clis, CommandStep(c) PROVE LastCallDecides'
  BY <1>4, CommandStepLastCall
<1> QED
  BY <1>1, <1>2, <1>3, <1>4 DEF Next

-----------------------------------------------------------------------------
\* Every reachable state is well typed, the PID file is held by the process in
\* its with block, no process without a handler has survived a signal, and the
\* queue of the loop ends with what the last accepted command asked for:
\* runtime.py's run, _thread_main and _on_sigusr1, for any number of processes,
\* shells and commands.
THEOREM ControlInvariant == Spec => []ControlInv
<1>1. Init => ControlInv
  BY InitControlInv
<1>2. ControlInv /\ [Next]_vars => ControlInv'
  BY NextTypeOK, NextGuardHeld, NextSignalledWasArmed, NextLastCall DEF ControlInv
<1> QED
  BY <1>1, <1>2, PTL DEF Spec

\* Two runtimes never work side by side unless one of them belongs to a process
\* whose join expired: run stops the runtime inside the with block of the PID file.
THEOREM RuntimesGuardedAlways == Spec => []RuntimesGuarded
<1>1. ControlInv => RuntimesGuarded
  <2> SUFFICES ASSUME ControlInv, NEW d \in Daemons, NEW e \in Daemons,
                      Working(d), Working(e), main[d] # "left", main[e] # "left"
               PROVE  d = e
    BY DEF RuntimesGuarded
  <2>1. /\ main[d] \in {"starting", "serving", "joining"}
        /\ main[e] \in {"starting", "serving", "joining"}
    BY DEF ControlInv, GuardHeld, Working, Alive
  <2> QED
    BY <2>1 DEF ControlInv, GuardHeld
<1> QED
  BY <1>1, ControlInvariant, PTL

\* A listening daemon whose callbacks have run is paused if and only if the last
\* command it accepted was "stop": call_soon_threadsafe keeps the order in
\* which _on_sigusr1 accepted them.
THEOREM LastCommandHoldsAlways == Spec => []LastCommandHolds
<1>1. ControlInv => LastCommandHolds
  BY DEF ControlInv, LastCallDecides, CallsDecide, LastCommandHolds
<1> QED
  BY <1>1, ControlInvariant, PTL

-----------------------------------------------------------------------------
\* A step of the main thread or of the listener thread leaves a daemon that was
\* signalled with the command read or the signal pending.
LEMMA DaemonStepRead ==
  ASSUME ControlInv, SignalledIsRead, NEW e \in Daemons, MainStep(e) \/ LoopStep(e)
  PROVE  SignalledIsRead'
<1> SUFFICES ASSUME NEW c \in Clis, NEW d \in Daemons,
                    cli'[c].to = d, main'[d] \in {"serving", "joining"},
                    ~usr1'[d], cmd'.by = c
             PROVE  lastSeq'[d] >= cmd'.seq
  BY DEF SignalledIsRead
<1> USE DEF process, received, loop, operator
<1>1. cli' = cli /\ cmd' = cmd
  BY DEF MainStep, LoopStep, Enters, Arms, Stops, Leaves, Terminates, Killed,
     IgnoresUsr1, HandlesUsr1, Recovered, RecoveryFails, RunsCall, Ends,
     ListenerRaises, Closes
<1>2. TypeOK /\ cmd.seq \in Nat /\ lastSeq[d] \in Nat
  BY DEF ControlInv, TypeOK
<1>3. main[d] \in {"serving", "joining", "left", "dead"}
  BY <1>1, DaemonControlAssumption DEF ControlInv, SignalledWasArmed
<1>4. CASE Dies(e)
  <2>1. d # e
    BY <1>2, <1>4 DEF Dies, TypeOK
  <2>2. main'[d] = main[d] /\ usr1'[d] = usr1[d] /\ lastSeq'[d] = lastSeq[d]
    BY <1>2, <1>4, <2>1 DEF Dies, TypeOK
  <2> QED
    BY <1>1, <2>2 DEF SignalledIsRead
<1>5. CASE ~Dies(e) /\ IgnoresUsr1(e)
  <2>1. /\ usr1' = [usr1 EXCEPT ![e] = FALSE] /\ cmd.seq <= lastSeq[e]
        /\ UNCHANGED <<main, lastSeq>>
    BY <1>5 DEF IgnoresUsr1
  <2>2. CASE d = e
    BY <1>1, <2>1, <2>2, <1>2
  <2>3. CASE d # e
    BY <1>1, <1>2, <2>1, <2>3 DEF SignalledIsRead, TypeOK
  <2> QED
    BY <2>2, <2>3
<1>6. CASE ~Dies(e) /\ HandlesUsr1(e)
  <2>1. /\ usr1' = [usr1 EXCEPT ![e] = FALSE]
        /\ lastSeq' = [lastSeq EXCEPT ![e] = cmd.seq] /\ main' = main
    BY <1>6 DEF HandlesUsr1
  <2>2. CASE d = e
    BY <1>1, <1>2, <2>1, <2>2 DEF TypeOK
  <2>3. CASE d # e
    BY <1>1, <1>2, <2>1, <2>3 DEF SignalledIsRead, TypeOK
  <2> QED
    BY <2>2, <2>3
<1>7. CASE ~Dies(e) /\ ~IgnoresUsr1(e) /\ ~HandlesUsr1(e)
  <2>1. usr1' = usr1 /\ lastSeq' = lastSeq
    BY <1>7 DEF MainStep, LoopStep, Enters, Arms, Stops, Leaves, Terminates, Killed,
       Recovered, RecoveryFails, RunsCall, Ends, ListenerRaises, Closes
  <2>2. \/ main' = main
        \/ main[e] \in {"new", "starting"}
        \/ main' = [main EXCEPT ![e] = "joining"] /\ main[e] = "serving"
        \/ main' = [main EXCEPT ![e] = "left"]
    BY <1>7 DEF MainStep, LoopStep, Enters, Arms, Stops, Leaves, Terminates, Killed,
       Recovered, RecoveryFails, RunsCall, Ends, ListenerRaises, Closes
  <2>3. \A f \in Daemons \ {e} : main'[f] = main[f]
    BY <1>2, <1>7, ZenonT(60) DEF MainStep, LoopStep, Enters, Arms, Stops, Leaves, Terminates,
       Killed, Recovered, RecoveryFails, RunsCall, Ends, ListenerRaises, Closes, TypeOK
  <2>4. main[d] \in {"serving", "joining"}
    BY <1>2, <1>3, <2>2, <2>3 DEF TypeOK
  <2> QED
    BY <1>1, <2>1, <2>4 DEF SignalledIsRead
<1> QED
  BY <1>4, <1>5, <1>6, <1>7

\* So does a step of a command.
LEMMA CommandStepRead ==
  ASSUME ControlInv, SignalledIsRead, NEW s \in Clis, CommandStep(s)
  PROVE  SignalledIsRead'
<1> SUFFICES ASSUME NEW c \in Clis, NEW d \in Daemons,
                    cli'[c].to = d, main'[d] \in {"serving", "joining"},
                    ~usr1'[d], cmd'.by = c
             PROVE  lastSeq'[d] >= cmd'.seq
  BY DEF SignalledIsRead
<1> USE DEF process, received, loop
<1>1. TypeOK /\ cli[s] \in CliState /\ d # Nobody
  BY DaemonControlAssumption DEF ControlInv, TypeOK
<1>2. CASE Numbers(s)
  <2>1. PICK command : cli' = [cli EXCEPT ![s] = [pc |-> "numbered", seq |-> cmd.seq + 1,
                                               command |-> command, to |-> Nobody]]
    BY <1>2 DEF Numbers
  <2>2. c # s
    BY <1>1, <2>1 DEF TypeOK
  <2>3. cli'[c] = cli[c]
    BY <1>1, <2>1, <2>2 DEF TypeOK
  <2>4. UNCHANGED <<main, usr1, lastSeq, cmd>>
    BY <1>2 DEF Numbers
  <2> QED
    BY <2>3, <2>4 DEF SignalledIsRead
<1>3. CASE Writes(s)
  <2>1. cmd'.by = s /\ cli' = [cli EXCEPT ![s].pc = "written"] /\ cli[s].to = Nobody
    BY <1>3 DEF Writes, ControlInv, SignalledWasArmed
  <2>2. cli'[s].to = cli[s].to
    BY ONLY <2>1, <1>1 DEF TypeOK, CliState
  <2> QED
    BY <1>1, <2>1, <2>2
<1>4. CASE Signals(s)
  <2>1. cmd' = cmd
    BY <1>4 DEF Signals
  <2>2. CASE guard = Nobody
    <3>1. cli' = [cli EXCEPT ![s].pc = "not running"] /\ UNCHANGED <<main, usr1, lastSeq>>
      BY <1>4, <2>2 DEF Signals
    <3>2. cli'[c].to = cli[c].to
      BY ONLY <3>1, <1>1 DEF TypeOK, CliState
    <3> QED
      BY <2>1, <3>1, <3>2 DEF SignalledIsRead
  <2>3. CASE guard # Nobody
    <3>1. cli' = [cli EXCEPT ![s].pc = "signalled", ![s].to = guard]
      BY <1>4, <2>3 DEF Signals
    <3>2. guard \in Daemons
      BY <1>1, <2>3 DEF TypeOK
    <3>3. IF c = s THEN cli'[c].to = guard ELSE cli'[c] = cli[c]
      BY ONLY <3>1, <1>1 DEF TypeOK, CliState
    <3>4. \/ Dies(guard)
          \/ usr1' = [usr1 EXCEPT ![guard] = TRUE] /\ UNCHANGED <<main, lastSeq>>
      BY <1>4, <2>3 DEF Signals
    <3>5. d # guard
      BY <1>1, <3>2, <3>4 DEF Dies, TypeOK
    <3>6. main'[d] = main[d] /\ usr1'[d] = usr1[d] /\ lastSeq'[d] = lastSeq[d]
      BY <1>1, <3>2, <3>4, <3>5 DEF Dies, TypeOK
    <3> QED
      BY <2>1, <3>3, <3>5, <3>6 DEF SignalledIsRead
  <2> QED
    BY <2>2, <2>3
<1> QED
  BY <1>2, <1>3, <1>4 DEF CommandStep

\* A daemon that a command has signalled and that still serves has read that
\* command once its signal is handled, or the file has been replaced: signals
\* that coalesce or come before the listener exists lose nothing that is on
\* disk (commands/telegram.py writes before it signals).
THEOREM SignalledIsReadAlways == Spec => []SignalledIsRead
<1>1. Init => SignalledIsRead
  BY DEF Init, SignalledIsRead, DaemonControlAssumption
<1>2. ControlInv /\ SignalledIsRead /\ [Next]_vars => SignalledIsRead'
  <2> SUFFICES ASSUME ControlInv, SignalledIsRead, [Next]_vars PROVE SignalledIsRead'
    OBVIOUS
  <2>1. CASE UNCHANGED vars
    BY <2>1 DEF vars, SignalledIsRead
  <2> QED
    BY <2>1, DaemonStepRead, CommandStepRead DEF Next
<1> QED
  BY <1>1, <1>2, ControlInvariant, PTL DEF Spec

-----------------------------------------------------------------------------
\* A writer of the state file works; without the PID file it has left.
LEMMA WriterLeft ==
  ASSUME TypeOK, GuardHeld, NEW e \in Daemons, Working(e), guard # e
  PROVE  main[e] = "left"
BY DEF GuardHeld, Working, Alive

\* A process that has left its with block only ends.
LEMMA LeftStays ==
  ASSUME TypeOK, NEW e \in Daemons, MainStep(e) \/ LoopStep(e),
         NEW f \in Daemons, main[f] \in {"left", "dead"}
  PROVE  main'[f] \in {"left", "dead"}
<1> USE DEF process, loop
<1>1. CASE Dies(e)
  BY <1>1 DEF Dies, TypeOK
<1>2. CASE ~Dies(e)
  <2>1. \/ main' = main
        \/ main[e] \notin {"left", "dead"}
           /\ \E place : main' = [main EXCEPT ![e] = place]
    BY <1>2 DEF MainStep, LoopStep, Enters, Arms, Stops, Leaves, Terminates, Killed,
       IgnoresUsr1, HandlesUsr1, Recovered, RecoveryFails, RunsCall, Ends,
       ListenerRaises, Closes
  <2> QED
    BY <2>1 DEF TypeOK
<1> QED
  BY <1>1, <1>2

\* A step of the listener thread that writes the state file writes whether its
\* own listener is paused; the others leave the file and the pause alone.
LEMMA WritesOwnPause ==
  ASSUME TypeOK, NEW e \in Daemons, MainStep(e) \/ LoopStep(e), ~Dies(e)
  PROVE  \/ shown' = shown /\ running' = running /\ ~Recovered(e)
         \/ /\ shown' = [by |-> e, running |-> running'[e]]
            /\ Working(e) /\ UNCHANGED <<guard, main>>
<1> USE DEF process, loop
<1>1. CASE Recovered(e)
  <2>1. /\ running' = [running EXCEPT ![e] = TRUE] /\ thread[e] = "recovering"
        /\ shown' = [by |-> e, running |-> TRUE] /\ UNCHANGED <<guard, main>>
    BY <1>1 DEF Recovered, Flush
  <2> QED
    BY <2>1 DEF Working, Alive, TypeOK
<1>2. CASE Ends(e)
  <2>1. /\ running' = [running EXCEPT ![e] = FALSE] /\ thread[e] = "listening"
        /\ shown' = [by |-> e, running |-> FALSE] /\ UNCHANGED <<guard, main>>
    BY <1>2 DEF Ends, Flush
  <2> QED
    BY <2>1 DEF Working, Alive, TypeOK
<1>3. CASE ~Recovered(e) /\ RunsCall(e)
  <2>1. Working(e) /\ UNCHANGED <<guard, main>>
    BY <1>3 DEF RunsCall, Working
  <2>2. \/ shown' = shown /\ running' = running
        \/ \E on \in BOOLEAN : /\ running' = [running EXCEPT ![e] = on]
                              /\ shown' = [by |-> e, running |-> on]
    BY <1>3 DEF RunsCall, RunsPause, RunsResume, RunsShutdown, Flush
  <2> QED
    BY <1>3, <2>1, <2>2 DEF TypeOK
<1>4. CASE ~Recovered(e) /\ ~Ends(e) /\ ~RunsCall(e)
  BY <1>4 DEF MainStep, LoopStep, Enters, Arms, Stops, Leaves, Terminates, Killed,
     IgnoresUsr1, HandlesUsr1, RecoveryFails, ListenerRaises, Closes
<1> QED
  BY <1>1, <1>2, <1>3, <1>4

\* A step of a daemon keeps what the state file says of the one in charge.
LEMMA DaemonStepTruthful ==
  ASSUME TypeOK, GuardHeld, StateFileTruthful, NEW e \in Daemons,
         MainStep(e) \/ LoopStep(e)
  PROVE  StateFileTruthful'
<1> SUFFICES ASSUME NEW d \in Daemons, guard' = d, thread'[d] = "listening"
             PROVE  \/ shown' = [by |-> d, running |-> running'[d]]
                    \/ /\ shown'.by \notin {d, Nobody}
                       /\ main'[shown'.by] \in {"left", "dead"}
  BY DEF StateFileTruthful
<1>0. d # Nobody /\ shown.by \in Daemons \cup {Nobody} /\ e # Nobody
  BY DaemonControlAssumption DEF TypeOK
<1>1. CASE Dies(e)
  <2>1. d # e /\ guard = d
    BY <1>0, <1>1 DEF Dies
  <2>2. thread[d] = "listening" /\ running'[d] = running[d]
    BY <1>1, <2>1 DEF Dies, TypeOK
  <2>3. shown' = shown
    <3>1. thread'[e] = "none"
      BY <1>1 DEF Dies, TypeOK
    <3>2. ~Recovered(e) /\ ~Ends(e) /\ ~RunsCall(e)
      BY <3>1 DEF Recovered, Ends, RunsCall, Alive, TypeOK
    <3> QED
      BY <3>2 DEF MainStep, LoopStep, Enters, Arms, Stops, Leaves, Terminates,
         Killed, IgnoresUsr1, HandlesUsr1, RecoveryFails, ListenerRaises, Closes,
         process, loop
  <2> QED
    BY <1>0, <2>1, <2>2, <2>3, LeftStays DEF StateFileTruthful
<1>2. CASE ~Dies(e) /\ shown' = [by |-> e, running |-> running'[e]]
                    /\ Working(e) /\ UNCHANGED <<guard, main>>
  BY <1>0, <1>2, WriterLeft
<1>3. CASE ~Dies(e) /\ shown' = shown /\ running' = running /\ ~Recovered(e)
  <2>1. guard = d /\ thread[d] = "listening"
    <3>1. CASE Enters(e)
      <4>1. thread[e] = "none" /\ thread'[e] # "listening" /\ guard' = e
        BY <3>1 DEF Enters, GuardHeld, TypeOK
      <4> QED
        BY <4>1
    <3>2. CASE ~Enters(e)
      <4>1. guard = d
        BY <1>0, <1>3, <3>2 DEF MainStep, LoopStep, Arms, Stops, Leaves, Terminates,
           Killed, IgnoresUsr1, HandlesUsr1, RecoveryFails, RunsCall, Ends,
           ListenerRaises, Closes, process, loop
      <4>2. \/ thread' = thread
            \/ \E place : thread' = [thread EXCEPT ![e] = place] /\ place # "listening"
        BY <1>3, <3>2 DEF MainStep, LoopStep, Arms, Stops, Leaves, Terminates,
           Killed, IgnoresUsr1, HandlesUsr1, RecoveryFails, RunsCall, Ends,
           ListenerRaises, Closes, process, loop
      <4>3. thread[d] = "listening"
        BY ONLY <4>2, TypeOK, thread'[d] = "listening" DEF TypeOK
      <4> QED
        BY <4>1, <4>3
    <3> QED
      BY <3>1, <3>2
  <2> QED
    BY <1>0, <1>3, <2>1, LeftStays DEF StateFileTruthful
<1> QED
  BY <1>1, <1>2, <1>3, WritesOwnPause

\* A command writes listener.cmd only; the process it kills has no PID file left.
LEMMA CommandStepTruthful ==
  ASSUME TypeOK, StateFileTruthful, NEW c \in Clis, CommandStep(c)
  PROVE  StateFileTruthful'
<1>1. shown' = shown
  BY DEF CommandStep, Numbers, Writes, Signals, loop
<1>2. CASE guard \in Daemons /\ Dies(guard)
  <2>1. guard' = Nobody
    BY <1>2 DEF Dies
  <2> QED
    BY <2>1, DaemonControlAssumption DEF StateFileTruthful
<1>3. CASE UNCHANGED <<guard, main, thread, running>>
  BY <1>1, <1>3 DEF StateFileTruthful
<1>4. \/ guard \in Daemons /\ Dies(guard)
      \/ UNCHANGED <<guard, main, thread, running>>
  BY DEF CommandStep, Numbers, Writes, Signals, process, loop, TypeOK
<1> QED
  BY <1>2, <1>3, <1>4

\* What "telegram status" shows of the daemon in charge is what its listener
\* does, unless a listener that outlived its join has written over it: every
\* change of state.running in listener.py flushes the file.
THEOREM StateFileTruthfulAlways == Spec => []StateFileTruthful
<1>1. Init => StateFileTruthful
  BY DEF Init, StateFileTruthful
<1>2. ControlInv /\ StateFileTruthful /\ [Next]_vars => StateFileTruthful'
  <2> SUFFICES ASSUME ControlInv, StateFileTruthful, [Next]_vars
               PROVE  StateFileTruthful'
    OBVIOUS
  <2>1. CASE UNCHANGED vars
    BY <2>1 DEF vars, StateFileTruthful
  <2> QED
    BY <2>1, DaemonStepTruthful, CommandStepTruthful DEF ControlInv, Next
<1> QED
  BY <1>1, <1>2, ControlInvariant, PTL DEF Spec

-----------------------------------------------------------------------------
(***************************************************************************)
(* The end of a daemon that was told to stop.                              *)
(***************************************************************************)
\* What a step leaves as it was at a daemon.
Same(d) ==
  /\ main'[d] = main[d] /\ term'[d] = term[d] /\ thread'[d] = thread[d]
  /\ calls'[d] = calls[d] /\ stopping'[d] = stopping[d] /\ lastSeq'[d] = lastSeq[d]

\* The end of one process is nothing to another.
LEMMA DiesSame ==
  ASSUME TypeOK, NEW e \in Daemons, Dies(e), NEW d \in Daemons, d # e
  PROVE  Same(d)
  BY DEF TypeOK, Dies, Same

\* A daemon's state is changed by its own threads and by what ends it, only.
LEMMA StepsOfOne ==
  ASSUME TypeOK, [Next]_vars, NEW d \in Daemons
  PROVE  Dies(d) \/ Same(d) \/ MainStep(d) \/ LoopStep(d)
<1> USE DEF process, received, loop, operator
<1>1. ASSUME NEW e \in Daemons, e # d, MainStep(e) PROVE Same(d)
  <2>1. CASE Dies(e)
    BY <1>1, <2>1, DiesSame
  <2>2. CASE Enters(e) \/ Arms(e) \/ Terminates(e) \/ IgnoresUsr1(e)
    BY <1>1, <2>2 DEF Enters, Arms, Terminates, IgnoresUsr1, TypeOK, Same
  <2>3. CASE (Stops(e) \/ Leaves(e)) /\ ~Dies(e)
    BY <1>1, <2>3 DEF Stops, Leaves, TypeOK, Same
  <2>4. CASE HandlesUsr1(e) /\ ~Dies(e)
    BY <1>1, <2>4 DEF HandlesUsr1, TypeOK, Same
  <2> QED
    BY <1>1, <2>1, <2>2, <2>3, <2>4 DEF MainStep, Killed
<1>2. ASSUME NEW e \in Daemons, e # d, LoopStep(e) PROVE Same(d)
  <2>1. CASE Dies(e)
    BY <1>2, <2>1, DiesSame
  <2>2. CASE RunsCall(e)
    BY <1>2, <2>2 DEF RunsCall, RunsPause, RunsResume, RunsShutdown, TypeOK, Same
  <2>3. CASE Recovered(e) \/ Ends(e) \/ ListenerRaises(e)
    BY <1>2, <2>3 DEF Recovered, Ends, ListenerRaises, TypeOK, Same
  <2>4. CASE (RecoveryFails(e) \/ Closes(e)) /\ ~Dies(e)
    BY <1>2, <2>4 DEF RecoveryFails, Closes, TypeOK, Same
  <2> QED
    BY <1>2, <2>1, <2>2, <2>3, <2>4 DEF LoopStep
<1>3. ASSUME NEW c \in Clis, CommandStep(c) PROVE Dies(d) \/ Same(d)
  <2>1. CASE guard \in Daemons /\ Dies(guard)
    BY <2>1, DiesSame
  <2>2. CASE UNCHANGED <<main, term, thread, calls, stopping, lastSeq>>
    BY <2>2 DEF Same
  <2> QED
    BY <1>3, <2>1, <2>2 DEF CommandStep, Numbers, Writes, Signals, TypeOK
<1>4. CASE UNCHANGED vars
  BY <1>4 DEF vars, Same
<1> QED
  BY <1>1, <1>2, <1>3, <1>4 DEF Next

\* A shutdown stays in the queue whatever is appended, and is the head when it
\* leaves it.
Queued(queue) == \E n \in 1 .. Len(queue) : queue[n] = "shutdown"

LEMMA QueuedStays ==
  ASSUME NEW queue \in Seq(Callbacks)
  PROVE  /\ \A call \in Callbacks : Queued(queue) => Queued(Append(queue, call))
         /\ Queued(Append(queue, "shutdown"))
         /\ queue # << >> /\ Queued(queue) =>
              Head(queue) = "shutdown" \/ Queued(Tail(queue))
<1>1. ASSUME NEW call \in Callbacks
      PROVE  /\ Len(queue) \in Nat /\ Len(Append(queue, call)) = Len(queue) + 1
             /\ Append(queue, call)[Len(queue) + 1] = call
             /\ \A n \in 1 .. Len(queue) : Append(queue, call)[n] = queue[n]
  BY AppendProperties, LenProperties
<1>2. \A call \in Callbacks : Queued(queue) => Queued(Append(queue, call))
  BY <1>1 DEF Queued
<1>3. Queued(Append(queue, "shutdown"))
  BY <1>1 DEF Queued, Callbacks
<1>4. ASSUME queue # << >>, NEW n \in 1 .. Len(queue), queue[n] = "shutdown"
      PROVE  Head(queue) = "shutdown" \/ Queued(Tail(queue))
  <2>1. /\ Len(queue) \in Nat /\ Len(Tail(queue)) = Len(queue) - 1
        /\ Head(queue) = queue[1]
        /\ \A m \in 1 .. Len(Tail(queue)) : Tail(queue)[m] = queue[m + 1]
    BY <1>4, EmptySeq, LenProperties, HeadTailProperties
  <2>2. CASE n # 1
    <3>1. n - 1 \in 1 .. Len(Tail(queue)) /\ Tail(queue)[n - 1] = queue[n]
      BY <1>4, <2>1, <2>2
    <3> QED
      BY <1>4, <3>1 DEF Queued
  <2> QED
    BY <1>4, <2>1, <2>2
<1> QED
  BY <1>2, <1>3, <1>4 DEF Queued

\* The steps of a daemon's own threads keep it on its way to its end.
LEMMA OwnStepEnding ==
  ASSUME ControlInv, NEW d \in Daemons, MainStep(d) \/ LoopStep(d)
  PROVE  /\ main[d] = "serving" /\ main'[d] = "joining" /\ Heard(d) => Ending(d)'
         /\ Ending(d) => Ending(d)' \/ Gone(d)'
<1> USE DEF ControlInv, Heard, process, received, loop, operator
<1>1. CASE Dies(d)
  BY <1>1 DEF Dies, TypeOK, Gone
<1>2. CASE Enters(d)
  BY <1>2 DEF Enters, GuardHeld, TypeOK, Ending
<1>3. CASE /\ main'[d] = main[d] \/ main[d] # "serving"
           /\ UNCHANGED <<thread, calls, stopping>>
  BY <1>3 DEF Ending
<1>4. CASE Stops(d) /\ ~Dies(d)
  <2>1. /\ calls'[d] = Append(calls[d], "shutdown") /\ calls[d] \in Seq(Callbacks)
        /\ UNCHANGED <<thread, stopping>>
    BY <1>4 DEF Stops, TypeOK
  <2>2. Queued(calls'[d])
    BY <2>1, QueuedStays
  <2> QED
    BY <2>1, <2>2 DEF Ending, Queued
<1>5. CASE HandlesUsr1(d) /\ ~Dies(d)
  <2>1. CASE Heard(d)
    <3>1. /\ calls'[d] = Append(calls[d], Toggle(cmd.command))
          /\ calls[d] \in Seq(Callbacks) /\ Toggle(cmd.command) \in Callbacks
          /\ UNCHANGED <<thread, stopping, main>>
      BY <1>5, <2>1 DEF HandlesUsr1, TypeOK, Toggle, Callbacks
    <3>2. Queued(calls[d]) => Queued(calls'[d])
      BY <3>1, QueuedStays
    <3> QED
      BY <3>1, <3>2 DEF Ending, Queued
  <2> QED
    BY <1>3, <1>5, <2>1 DEF HandlesUsr1
<1>6. CASE RunsCall(d)
  <2>1. /\ calls[d] \in Seq(Callbacks) /\ calls[d] # << >>
        /\ calls'[d] = Tail(calls[d])
        /\ UNCHANGED <<thread, main>>
    BY <1>6 DEF RunsCall, TypeOK
  <2>2. Queued(calls[d]) => Head(calls[d]) = "shutdown" \/ Queued(calls'[d])
    BY <2>1, QueuedStays
  <2>3. Head(calls[d]) = "shutdown" /\ Heard(d) => stopping'[d]
    BY <1>6 DEF RunsCall, RunsShutdown, TypeOK
  <2>4. stopping[d] /\ Heard(d) => stopping'[d]
    BY <1>6 DEF RunsCall, RunsPause, RunsResume, RunsShutdown, TypeOK
  <2> QED
    BY <2>1, <2>2, <2>3, <2>4 DEF Ending, Queued
<1>7. CASE (Recovered(d) \/ RecoveryFails(d)) /\ ~Dies(d)
  BY <1>7 DEF Recovered, RecoveryFails, Ending
<1>8. CASE (Ends(d) \/ ListenerRaises(d) \/ Closes(d)) /\ ~Dies(d)
  <2>1. thread'[d] \in {"draining", "closed"} /\ main' = main
    BY <1>8 DEF Ends, ListenerRaises, Closes, TypeOK
  <2> QED
    BY <2>1 DEF Ending
<1> QED
  BY <1>1, <1>2, <1>3, <1>4, <1>5, <1>6, <1>7, <1>8
  DEF MainStep, LoopStep, Arms, Leaves, Terminates, Killed, IgnoresUsr1

\* Once Runtime.stop has handed the shutdown to an existing listener, the
\* listener ends, or the process does: call_soon_threadsafe and Listener.stop
\* lose nothing, whatever commands, failures and other daemons interleave.
THEOREM ShutdownStaysAlways == Spec => ShutdownStays
<1>1. ASSUME ControlInv, [Next]_vars
      PROVE  \A d \in Daemons :
               /\ main[d] = "serving" /\ main'[d] = "joining" /\ Heard(d) => Ending(d)'
               /\ Ending(d) => Ending(d)' \/ Gone(d)'
  <2> TAKE d \in Daemons
  <2>1. CASE Dies(d)
    BY <1>1, <2>1 DEF Dies, TypeOK, ControlInv, Gone
  <2>2. CASE Same(d)
    BY <2>2 DEF Same, Ending, Heard
  <2> QED
    BY <1>1, <2>1, <2>2, StepsOfOne, OwnStepEnding DEF ControlInv
<1> QED
  BY <1>1, ControlInvariant, PTL DEF Spec, ShutdownStays

-----------------------------------------------------------------------------
\* What the two theorems below need besides: who is told to stop runs, whoever has
\* left the with block works, and commands have numbers up to the bound.
TermOK ==
  /\ LeftStillWorks
  /\ \A d \in Daemons : term[d] => main[d] \notin {"new", "dead"}
  /\ \A d \in Daemons : lastSeq[d] <= MaxCommands
  /\ cmd.seq <= MaxCommands
  /\ \A c \in Clis : cli[c].seq <= MaxCommands

\* The part of TermOK that is about one daemon.
TermOf(d) ==
  /\ main[d] = "left" => Working(d)
  /\ term[d] => main[d] \notin {"new", "dead"}
  /\ lastSeq[d] <= MaxCommands

LEMMA OwnStepTerm ==
  ASSUME ControlInv, TermOK, NEW d \in Daemons, MainStep(d) \/ LoopStep(d)
  PROVE  TermOf(d)'
<1> USE DEF ControlInv, TermOf, Working, Alive, process, received, loop, operator
<1>1. TermOf(d)
  BY DEF TermOK, LeftStillWorks
<1>2. CASE Dies(d)
  BY <1>2, DaemonControlAssumption DEF Dies, TypeOK
<1>3. CASE Enters(d) \/ Arms(d) \/ Terminates(d) \/ IgnoresUsr1(d)
  BY <1>1, <1>3 DEF Enters, Arms, Terminates, IgnoresUsr1, TypeOK, GuardHeld
<1>4. CASE (Stops(d) \/ Leaves(d)) /\ ~Dies(d)
  BY <1>1, <1>4 DEF Stops, Leaves, TypeOK
<1>5. CASE HandlesUsr1(d) /\ ~Dies(d)
  BY <1>1, <1>5 DEF HandlesUsr1, TypeOK, TermOK
<1>6. CASE LoopStep(d) /\ ~Dies(d)
  <2>1. UNCHANGED <<main, term, lastSeq>>
    BY <1>6 DEF LoopStep, Recovered, RecoveryFails, RunsCall, Ends, ListenerRaises, Closes
  <2>2. main[d] = "left" => thread'[d] \in {thread[d], "listening", "draining"}
    BY <1>6 DEF LoopStep, Recovered, RecoveryFails, RunsCall, Ends, ListenerRaises,
       Closes, TypeOK
  <2> QED
    BY <1>1, <2>1, <2>2
<1> QED
  BY <1>2, <1>3, <1>4, <1>5, <1>6 DEF MainStep, Killed

LEMMA NextTermOK == ControlInv /\ TermOK /\ [Next]_vars => TermOK'
<1> SUFFICES ASSUME ControlInv, TermOK, [Next]_vars PROVE TermOK'
  OBVIOUS
<1>1. ASSUME NEW d \in Daemons PROVE TermOf(d)'
  <2>1. CASE Dies(d)
    BY <2>1, DaemonControlAssumption DEF Dies, TypeOK, ControlInv, TermOf
  <2>2. CASE Same(d)
    BY <2>2 DEF Same, TermOf, TermOK, LeftStillWorks, Working
  <2> QED
    BY <2>1, <2>2, StepsOfOne, OwnStepTerm DEF ControlInv
<1>2. cmd'.seq <= MaxCommands /\ \A c \in Clis : cli'[c].seq <= MaxCommands
  <2>1. CASE UNCHANGED operator
    BY <2>1 DEF operator, TermOK
  <2>2. ASSUME NEW c \in Clis, Numbers(c)
        PROVE  cmd'.seq <= MaxCommands /\ \A e \in Clis : cli'[e].seq <= MaxCommands
    <3>1. /\ cmd' = cmd /\ cmd.seq < MaxCommands /\ cmd.seq \in Nat
          /\ \E command \in Commands :
               cli' = [cli EXCEPT ![c] = [pc |-> "numbered", seq |-> cmd.seq + 1,
                                          command |-> command, to |-> Nobody]]
      BY <2>2 DEF Numbers, ControlInv, TypeOK
    <3>2. \A e \in Clis : cli'[e].seq \in {cli[e].seq, cmd.seq + 1}
      BY <3>1 DEF ControlInv, TypeOK
    <3> QED
      BY <3>1, <3>2, DaemonControlAssumption DEF TermOK
  <2>3. ASSUME NEW c \in Clis, Writes(c) \/ Signals(c)
        PROVE  cmd'.seq <= MaxCommands /\ \A e \in Clis : cli'[e].seq <= MaxCommands
    <3>1. cmd' = cmd \/ cmd'.seq = cli[c].seq
      <4>1. CASE Writes(c)
        BY <4>1 DEF Writes
      <4>2. CASE Signals(c)
        BY <4>2 DEF Signals
      <4> QED
        BY <2>3, <4>1, <4>2
    <3>2. \A e \in Clis : cli'[e].seq = cli[e].seq
      <4>1. \/ cli' = [cli EXCEPT ![c].pc = "written"]
            \/ cli' = [cli EXCEPT ![c].pc = "not running"]
            \/ cli' = [cli EXCEPT ![c].pc = "signalled", ![c].to = guard]
        BY <2>3 DEF Writes, Signals
      <4>2. \A e \in Clis : cli[e] \in CliState /\ (e # c => cli'[e] = cli[e])
        BY <4>1 DEF ControlInv, TypeOK
      <4>3. \/ cli'[c] = [cli[c] EXCEPT !.pc = "written"]
            \/ cli'[c] = [cli[c] EXCEPT !.pc = "not running"]
            \/ cli'[c] = [cli[c] EXCEPT !.pc = "signalled", !.to = guard]
        BY <4>1 DEF ControlInv, TypeOK
      <4>4. cli'[c].seq = cli[c].seq
        BY <4>2, <4>3 DEF CliState
      <4> QED
        BY <4>2, <4>4
    <3> QED
      BY <3>1, <3>2 DEF TermOK
  <2>4. ASSUME NEW d \in Daemons, MainStep(d) \/ LoopStep(d) PROVE UNCHANGED operator
    BY <2>4 DEF MainStep, LoopStep, Enters, Arms, Stops, Leaves, Terminates, Killed,
       IgnoresUsr1, HandlesUsr1, Recovered, RecoveryFails, RunsCall, Ends,
       ListenerRaises, Closes, operator
  <2> QED
    BY <2>1, <2>2, <2>3, <2>4 DEF Next, CommandStep, vars, operator
<1> QED
  BY <1>1, <1>2 DEF TermOK, TermOf, LeftStillWorks

LEMMA TermOKAlways == Spec => [](ControlInv /\ TermOK)
<1>1. Init => TermOK
  BY DaemonControlAssumption DEF Init, TermOK, LeftStillWorks
<1> QED
  BY <1>1, NextTermOK, ControlInvariant, PTL DEF Spec

\* A process whose join has expired has a listener thread to wait for, and the end
\* of that thread ends it: none is left behind without its PID file.
THEOREM LeftStillWorksAlways == Spec => []LeftStillWorks
  BY TermOKAlways, PTL DEF TermOK

\* The numbers that TermLeft adds up.
LEMMA TermNumbers ==
  ASSUME TypeOK, NEW d \in Daemons, lastSeq[d] <= MaxCommands
  PROVE  /\ MainLeft(d) \in Nat /\ LoopLeft(d) \in Nat /\ Len(calls[d]) \in Nat
         /\ MaxCommands - lastSeq[d] \in Nat
         /\ ~Gone(d) => MainLeft(d) > 0 /\ TermLeft(d) > 0
<1>1. MainLeft(d) \in Nat /\ LoopLeft(d) \in Nat /\ (~Gone(d) => MainLeft(d) > 0)
  BY DEF MainLeft, LoopLeft, Gone, TypeOK
<1>2. Len(calls[d]) \in Nat /\ MaxCommands - lastSeq[d] \in Nat
  BY LenProperties, DaemonControlAssumption DEF TypeOK
<1> QED
  BY <1>1, <1>2 DEF TermLeft

\* The length of a queue that is appended to, and of one whose head has run.
LEMMA QueueLength ==
  ASSUME NEW queue \in Seq(Callbacks)
  PROVE  /\ Len(queue) \in Nat
         /\ \A call \in Callbacks : Len(Append(queue, call)) = Len(queue) + 1
         /\ queue # << >> => Len(Tail(queue)) = Len(queue) - 1
         /\ Len(<< >>) = 0
  BY LenProperties, AppendProperties, HeadTailProperties

\* One of the four numbers falls, and what another gains is less.
LEMMA SumOfFourFalls ==
  \A m, l, q, s, m2, l2, q2, s2 \in Nat :
    \/ m2 < m /\ l2 = l /\ q2 = q /\ s2 = s
    \/ m2 + 1 < m /\ l2 = l /\ q2 = q + 1 /\ s2 = s
    \/ m2 = m /\ l2 = l /\ q2 <= q + 1 /\ s2 < s
    \/ m2 = m /\ l2 < l /\ q2 <= q /\ s2 = s
    \/ m2 = m /\ l2 = l /\ q2 < q /\ s2 = s
    => m2 + l2 + q2 + 2 * s2 < m + l + q + 2 * s
  OBVIOUS

LEMMA SumOfFour == \A m, l, q, s \in Nat : m + l + q + 2 * s \in Nat
  OBVIOUS

\* The more commands were read, the fewer there are to come.
LEMMA CommandsToCome ==
  \A m, n, n2 \in Nat :
    n2 <= m => m - n2 \in Nat /\ (n < n2 => m - n2 < m - n)
  OBVIOUS

\* The same of TermLeft.
LEMMA TermLeftFalls ==
  ASSUME TypeOK, TypeOK', NEW d \in Daemons,
         lastSeq[d] <= MaxCommands, lastSeq'[d] <= MaxCommands, ~Gone(d),
         \/ MainLeft(d)' < MainLeft(d) /\ LoopLeft(d)' = LoopLeft(d)
              /\ Len(calls'[d]) = Len(calls[d]) /\ lastSeq'[d] = lastSeq[d]
         \/ MainLeft(d)' + 1 < MainLeft(d) /\ LoopLeft(d)' = LoopLeft(d)
              /\ Len(calls'[d]) = Len(calls[d]) + 1 /\ lastSeq'[d] = lastSeq[d]
         \/ MainLeft(d)' = MainLeft(d) /\ LoopLeft(d)' = LoopLeft(d)
              /\ Len(calls'[d]) <= Len(calls[d]) + 1 /\ lastSeq[d] < lastSeq'[d]
         \/ MainLeft(d)' = MainLeft(d) /\ LoopLeft(d)' < LoopLeft(d)
              /\ Len(calls'[d]) <= Len(calls[d]) /\ lastSeq'[d] = lastSeq[d]
         \/ MainLeft(d)' = MainLeft(d) /\ LoopLeft(d)' = LoopLeft(d)
              /\ Len(calls'[d]) < Len(calls[d]) /\ lastSeq'[d] = lastSeq[d]
  PROVE  TermLeft(d)' < TermLeft(d)
<1>1. /\ MainLeft(d) \in Nat /\ LoopLeft(d) \in Nat /\ Len(calls[d]) \in Nat
      /\ MaxCommands - lastSeq[d] \in Nat /\ TermLeft(d) > 0
  BY TermNumbers
<1>2. MainLeft(d)' \in Nat /\ LoopLeft(d)' \in Nat
  BY DEF MainLeft, LoopLeft
<1>3. /\ Len(calls'[d]) \in Nat /\ lastSeq[d] \in Nat /\ lastSeq'[d] \in Nat
      /\ MaxCommands \in Nat
  <2>1. calls'[d] \in Seq(Callbacks) /\ lastSeq'[d] \in Nat /\ lastSeq[d] \in Nat
    BY DEF TypeOK
  <2> QED
    BY <2>1, LenProperties, DaemonControlAssumption
<1>4. /\ MaxCommands - lastSeq'[d] \in Nat
      /\ lastSeq[d] < lastSeq'[d] =>
           MaxCommands - lastSeq'[d] < MaxCommands - lastSeq[d]
  BY <1>3, CommandsToCome, Zenon
<1>5. MainLeft(d)' + LoopLeft(d)' + Len(calls'[d]) + 2 * (MaxCommands - lastSeq'[d])
        < MainLeft(d) + LoopLeft(d) + Len(calls[d]) + 2 * (MaxCommands - lastSeq[d])
  <2>1. CASE MainLeft(d)' < MainLeft(d) /\ LoopLeft(d)' = LoopLeft(d)
              /\ Len(calls'[d]) = Len(calls[d]) /\ lastSeq'[d] = lastSeq[d]
    BY <2>1, <1>1, <1>2, <1>3, <1>4, SumOfFourFalls, Zenon
  <2>2. CASE MainLeft(d)' + 1 < MainLeft(d) /\ LoopLeft(d)' = LoopLeft(d)
              /\ Len(calls'[d]) = Len(calls[d]) + 1 /\ lastSeq'[d] = lastSeq[d]
    BY <2>2, <1>1, <1>2, <1>3, <1>4, SumOfFourFalls, Zenon
  <2>3. CASE MainLeft(d)' = MainLeft(d) /\ LoopLeft(d)' = LoopLeft(d)
              /\ Len(calls'[d]) <= Len(calls[d]) + 1 /\ lastSeq[d] < lastSeq'[d]
    BY <2>3, <1>1, <1>2, <1>3, <1>4, SumOfFourFalls, Zenon
  <2>4. CASE MainLeft(d)' = MainLeft(d) /\ LoopLeft(d)' < LoopLeft(d)
              /\ Len(calls'[d]) <= Len(calls[d]) /\ lastSeq'[d] = lastSeq[d]
    BY <2>4, <1>1, <1>2, <1>3, <1>4, SumOfFourFalls, Zenon
  <2>5. CASE MainLeft(d)' = MainLeft(d) /\ LoopLeft(d)' = LoopLeft(d)
              /\ Len(calls'[d]) < Len(calls[d]) /\ lastSeq'[d] = lastSeq[d]
    BY <2>5, <1>1, <1>2, <1>3, <1>4, SumOfFourFalls, Zenon
  <2> QED
    BY <2>1, <2>2, <2>3, <2>4, <2>5
<1>6. CASE Gone(d)'
  BY <1>1, <1>6 DEF TermLeft
<1>7. CASE ~Gone(d)'
  BY <1>5, <1>7 DEF TermLeft
<1> QED
  BY <1>6, <1>7

\* TermLeft stays a number.
LEMMA NextTermLeftIsNumber ==
  ASSUME TypeOK', NEW d \in Daemons, lastSeq'[d] <= MaxCommands
  PROVE  TermLeft(d)' \in Nat
<1>1. MainLeft(d)' \in Nat /\ LoopLeft(d)' \in Nat
  BY DEF MainLeft, LoopLeft
<1>2. Len(calls'[d]) \in Nat /\ lastSeq'[d] \in Nat /\ MaxCommands \in Nat
  <2>1. calls'[d] \in Seq(Callbacks) /\ lastSeq'[d] \in Nat
    BY DEF TypeOK
  <2> QED
    BY <2>1, LenProperties, DaemonControlAssumption
<1>3. MaxCommands - lastSeq'[d] \in Nat
  BY <1>2, CommandsToCome, Zenon
<1>4. MainLeft(d)' + LoopLeft(d)' + Len(calls'[d]) + 2 * (MaxCommands - lastSeq'[d]) \in Nat
  BY <1>1, <1>2, <1>3, SumOfFour, Zenon
<1> QED
  BY <1>4 DEF TermLeft

\* The steps of a daemon's own threads.
LEMMA OwnStepRunsDown ==
  ASSUME ControlInv, TermOK, TypeOK', NEW d \in Daemons, lastSeq'[d] <= MaxCommands,
         term[d], MainStep(d) \/ LoopStep(d)
  PROVE  \/ TermLeft(d)' < TermLeft(d)
         \/ (Terminates(d) \/ IgnoresUsr1(d)) /\ TermLeft(d)' = TermLeft(d)
<1> USE DEF ControlInv, process, received, loop, operator
<1>1. main[d] \notin {"new", "dead"} /\ ~Gone(d) /\ lastSeq[d] <= MaxCommands
  BY DEF TermOK, Gone
<1>2. CASE Dies(d)
  <2>1. Gone(d)'
    BY <1>2 DEF Dies, TypeOK, Gone
  <2> QED
    BY <1>1, <2>1, TermNumbers DEF TermLeft
<1>3. calls[d] \in Seq(Callbacks)
  BY DEF TypeOK
<1>4. CASE Arms(d) \/ (Leaves(d) /\ ~Dies(d))
  <2>1. UNCHANGED <<lastSeq, calls, thread>>
    BY <1>4 DEF Arms, Leaves
  <2>2. MainLeft(d)' < MainLeft(d)
    BY <1>4 DEF Arms, Leaves, TypeOK, MainLeft
  <2>3. LoopLeft(d)' = LoopLeft(d)
    BY <2>1 DEF LoopLeft
  <2> QED
    BY <1>1, <2>1, <2>2, <2>3, TermLeftFalls
<1>5. CASE Stops(d) /\ ~Dies(d)
  <2>1. /\ calls'[d] = Append(calls[d], "shutdown") /\ "shutdown" \in Callbacks
        /\ main[d] = "serving" /\ main'[d] = "joining"
        /\ UNCHANGED <<lastSeq, thread>>
    BY <1>5 DEF Stops, TypeOK, Callbacks
  <2>2. Len(calls'[d]) = Len(calls[d]) + 1
    BY <1>3, <2>1, QueueLength
  <2>3. LoopLeft(d)' = LoopLeft(d) /\ MainLeft(d)' + 1 < MainLeft(d)
    BY <2>1 DEF LoopLeft, MainLeft
  <2> QED
    BY <1>1, <2>1, <2>2, <2>3, TermLeftFalls
<1>6. CASE HandlesUsr1(d) /\ ~Dies(d)
  <2>1. /\ calls'[d] \in {calls[d], Append(calls[d], Toggle(cmd.command))}
        /\ lastSeq'[d] = cmd.seq /\ cmd.seq > lastSeq[d]
        /\ UNCHANGED <<main, thread>>
    BY <1>6 DEF HandlesUsr1, TypeOK
  <2>2. Toggle(cmd.command) \in Callbacks /\ lastSeq[d] < lastSeq'[d]
    BY <2>1 DEF Toggle, Callbacks, TypeOK
  <2>3. Len(calls'[d]) <= Len(calls[d]) + 1
    BY <1>3, <2>1, <2>2, QueueLength
  <2>4. LoopLeft(d)' = LoopLeft(d) /\ MainLeft(d)' = MainLeft(d)
    BY <2>1 DEF LoopLeft, MainLeft
  <2> QED
    BY <1>1, <2>2, <2>3, <2>4, TermLeftFalls
<1>7. CASE RunsCall(d)
  <2>1. /\ calls[d] # << >> /\ calls'[d] = Tail(calls[d])
        /\ UNCHANGED <<main, thread, lastSeq>>
    BY <1>7 DEF RunsCall, TypeOK
  <2>2. Len(calls'[d]) < Len(calls[d])
    BY <1>3, <2>1, QueueLength
  <2>3. LoopLeft(d)' = LoopLeft(d) /\ MainLeft(d)' = MainLeft(d)
    BY <2>1 DEF LoopLeft, MainLeft
  <2> QED
    BY <1>1, <2>1, <2>2, <2>3, TermLeftFalls
<1>8. CASE LoopStep(d) /\ ~RunsCall(d) /\ ~Dies(d)
  <2>1. /\ calls'[d] \in {calls[d], << >>} /\ UNCHANGED <<main, lastSeq>>
        /\ \/ thread[d] = "recovering" /\ thread'[d] \in {"listening", "aborted"}
           \/ thread[d] = "listening" /\ thread'[d] = "draining"
           \/ thread[d] = "draining" /\ thread'[d] = "closed"
    <3>1. CASE Recovered(d) \/ Ends(d) \/ ListenerRaises(d)
      <4>1. UNCHANGED <<main, lastSeq, calls>>
        BY <3>1 DEF Recovered, Ends, ListenerRaises
      <4>2. \/ thread[d] = "recovering" /\ thread'[d] = "listening"
            \/ thread[d] = "listening" /\ thread'[d] = "draining"
        <5>1. CASE Recovered(d)
          BY <5>1 DEF Recovered, TypeOK
        <5>2. CASE Ends(d)
          BY <5>2 DEF Ends, TypeOK
        <5>3. CASE ListenerRaises(d)
          BY <5>3 DEF ListenerRaises, TypeOK
        <5> QED
          BY <3>1, <5>1, <5>2, <5>3
      <4> QED
        BY <4>1, <4>2
    <3>2. CASE (RecoveryFails(d) \/ Closes(d)) /\ ~Dies(d)
      BY <3>2 DEF RecoveryFails, Closes, TypeOK
    <3> QED
      BY <1>8, <3>1, <3>2 DEF LoopStep
  <2>2. Len(calls'[d]) <= Len(calls[d])
    BY <1>3, <2>1, QueueLength
  <2>3. LoopLeft(d)' < LoopLeft(d) /\ MainLeft(d)' = MainLeft(d)
    BY <2>1 DEF LoopLeft, MainLeft
  <2> QED
    BY <1>1, <2>1, <2>2, <2>3, TermLeftFalls
<1>9. CASE Terminates(d) \/ IgnoresUsr1(d)
  BY <1>9 DEF Terminates, IgnoresUsr1, TermLeft, Gone, MainLeft, LoopLeft
<1>10. CASE Enters(d)
  BY <1>1, <1>10 DEF Enters
<1> QED
  BY <1>2, <1>4, <1>5, <1>6, <1>7, <1>8, <1>9, <1>10 DEF MainStep, LoopStep, Killed

\* A step that only notes a signal is none of the threads' steps to the end.
LEMMA NotedOnly ==
  ASSUME TypeOK, TermOK, NEW d \in Daemons, term[d], Terminates(d) \/ IgnoresUsr1(d)
  PROVE  ~(Arms(d) \/ Stops(d) \/ Leaves(d) \/ LoopStep(d))
<1>1. /\ UNCHANGED <<guard, main, thread, calls>>
      /\ usr1[d] # usr1'[d] \/ ~term[d]
      /\ main[d] # "dead"
  BY DEF Terminates, IgnoresUsr1, TypeOK, TermOK, loop, received, process
<1> QED
  BY <1>1 DEF Arms, Stops, Leaves, LoopStep, Recovered, RecoveryFails, RunsCall, Ends,
     ListenerRaises, Closes, Dies, TypeOK, process, loop

\* A daemon that was told to stop runs down: its threads have TermLeft steps before
\* them at most, and only commands, each once, add a callback to run.
THEOREM TermRunsDownAlways == Spec => TermRunsDown
<1>1. ASSUME ControlInv, TermOK, [Next]_vars
      PROVE  \A d \in Daemons : term[d] =>
               /\ TermLeft(d)' <= TermLeft(d)
               /\ Arms(d) \/ Stops(d) \/ Leaves(d) \/ LoopStep(d) =>
                    TermLeft(d)' < TermLeft(d)
  <2> SUFFICES ASSUME NEW d \in Daemons, term[d]
               PROVE  /\ TermLeft(d)' <= TermLeft(d)
                      /\ Arms(d) \/ Stops(d) \/ Leaves(d) \/ LoopStep(d) =>
                           TermLeft(d)' < TermLeft(d)
    OBVIOUS
  <2>1. TypeOK /\ TypeOK' /\ lastSeq[d] <= MaxCommands /\ lastSeq'[d] <= MaxCommands
    <3>1. TypeOK /\ TypeOK'
      BY <1>1, NextTypeOK DEF ControlInv
    <3>2. TermOK'
      BY <1>1, NextTermOK
    <3> QED
      BY <1>1, <3>1, <3>2 DEF TermOK
  <2>2. TermLeft(d) \in Nat
    BY <2>1, TermNumbers DEF TermLeft
  <2>3. CASE MainStep(d) \/ LoopStep(d)
    <3>1. \/ TermLeft(d)' < TermLeft(d)
          \/ (Terminates(d) \/ IgnoresUsr1(d)) /\ TermLeft(d)' = TermLeft(d)
      BY <1>1, <2>1, <2>3, OwnStepRunsDown
    <3>2. CASE TermLeft(d)' < TermLeft(d)
      <4>1. TermLeft(d)' \in Nat
        BY <2>1, NextTermLeftIsNumber
      <4> QED
        BY <2>2, <3>2, <4>1
    <3>3. CASE (Terminates(d) \/ IgnoresUsr1(d)) /\ TermLeft(d)' = TermLeft(d)
      <4>1. ~(Arms(d) \/ Stops(d) \/ Leaves(d) \/ LoopStep(d))
        BY <1>1, <2>1, <3>3, NotedOnly
      <4> QED
        BY <2>2, <3>3, <4>1
    <3> QED
      BY <3>1, <3>2, <3>3
  <2>4. CASE ~(MainStep(d) \/ LoopStep(d))
    <3>1. ~(Arms(d) \/ Stops(d) \/ Leaves(d) \/ LoopStep(d))
      BY <2>4 DEF MainStep
    <3>2. CASE Dies(d)
      <4>1. Gone(d)'
        BY <2>1, <3>2 DEF Dies, TypeOK, Gone
      <4>2. TermLeft(d)' = 0
        BY <4>1 DEF TermLeft
      <4> QED
        BY <2>2, <3>1, <4>2
    <3>3. CASE Same(d)
      <4>1. TermLeft(d)' = TermLeft(d)
        BY <3>3 DEF Same, TermLeft, Gone, MainLeft, LoopLeft
      <4> QED
        BY <2>2, <3>1, <4>1
    <3> QED
      BY <1>1, <2>1, <2>4, <3>2, <3>3, StepsOfOne
  <2> QED
    BY <2>3, <2>4
<1> QED
  BY <1>1, TermOKAlways, PTL DEF Spec, TermRunsDown
=============================================================================
