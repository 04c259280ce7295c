--------------------------- MODULE SdkDriverProofs ---------------------------
(***************************************************************************)
(* Proofs about SdkDriver, for any shell commands and any number of texts, *)
(* tools and signals.                                                      *)
(***************************************************************************)
EXTENDS SdkDriver, SequenceTheorems, TLAPS

SaidPr    == \E n \in 1 .. Len(said) : said[n] = "pr"
PrInInbox == \E n \in 1 .. Len(inbox) : inbox[n] = "pr"

\* The lines of a stop are written by the watchdog when its attempt is over.
Attempts ==
  /\ lines["agent.interrupt"] = IF watchdog = "done" THEN 1 ELSE 0
  /\ attempted <=> watchdog = "done"
  /\ lines["operator_stop"] > 0 => watchdog = "done"
  /\ lines["natural"] + lines["operator_stop"] <= 1
  /\ lines["PR_URL"] <= 1

\* Where run can be, and with what behind it.
Course ==
  /\ main = "draining" => interrupt = "set"
  /\ main = "booting" => interrupt = "no"
  /\ main = "ended" <=> code # "none"
  /\ code = "zero" => ~raising
  /\ main = "cancelling" => watchdog \in {"cancelled", "done"}

\* A pull request the agent has named was reported, or is on its way to a run
\* that still listens.
PrTravels ==
  ~raising /\ interrupt # "set" =>
    /\ SaidPr => lines["PR_URL"] = 1 \/ PrInInbox
    /\ main \in {"cancelling", "closing", "ended"} /\ code \notin {"one", "two", "usr1"}
         => inbox = << >>

Checked == tool # NoTool => tool[1] \in Commands /\ ~Denied(tool[1])

RunInv == DriverInv /\ Attempts /\ Course /\ PrTravels /\ Checked

-----------------------------------------------------------------------------
\* A command of a line without a torn quotation is a segment of its own, and the
\* rules find in it what is banned, whatever the order of the flags.
LEMMA CommandIsDenied ==
  ASSUME NEW line \in Seq(Tokens), Tears(line) = {},
         NEW i \in DOMAIN line, Begins(line, i), BannedCommand(line, i)
  PROVE  SegmentDenied(line, Segment(line, i))
<1> DEFINE seg   == Segment(line, i)
           words == Arguments(line, i)
<1>1. DOMAIN line \subseteq Nat \ {0} /\ \A k : ~Quoted(line, k)
  BY DEF Quoted
<1>2. i \in seg /\ i - 1 \notin seg
  BY <1>1 DEF Segment, Begins
<1>3. \A j \in DOMAIN line :
        i < j /\ (\A c \in i .. j : line[c] # Cut) => j \in seg
  BY <1>1 DEF Segment
<1>4. words \subseteq Rest(line, seg, i)
  BY <1>1, <1>3 DEF Arguments, Rest
<1>5. ASSUME NEW word \in words, word # line[i + 1]
      PROVE  word \in Rest(line, seg, i + 1)
  <2>1. PICK j \in DOMAIN line : word = line[j] /\ i < j /\ j \in seg
    BY <1>1, <1>3 DEF Arguments
  <2>2. j > i + 1
    BY <1>1, <1>5, <2>1
  <2>3. QED
    BY <2>1, <2>2 DEF Rest
<1>6. ASSUME ForcesAny(words)
      PROVE  \E flag \in words : Forces(flag) /\ flag.kind # "word"
  BY <1>6 DEF ForcesAny, Letters, Forces, ShortFlagContains, Long, Token
<1>7. ASSUME RecursesAny(words)
      PROVE  \E flag \in words : Recursive(flag)
  BY <1>7 DEF RecursesAny, Letters, Recursive, ShortFlagContains
<1>8. CASE line[i] = Word("sudo")
  BY <1>2, <1>8 DEF SegmentDenied, HeadDenied
<1>9. CASE /\ line[i] = Word("rm") /\ ForcesAny(words) /\ RecursesAny(words)
           /\ \E word \in words : ProtectedPath(word)
  <2>1. RmDenied(Rest(line, seg, i))
    BY <1>4, <1>6, <1>7, <1>9 DEF RmDenied
  <2>2. QED
    BY <1>2, <1>9, <2>1 DEF SegmentDenied, HeadDenied
<1>10. ASSUME NEW sub, line[i] = Word("git"), i + 1 \in DOMAIN line, line[i + 1] = Word(sub)
       PROVE  /\ i + 1 \in seg
              /\ \A word \in words : word.kind # "word" => word \in Rest(line, seg, i + 1)
  <2>1. line[i + 1].kind = "word" /\ line[i + 1] # Cut /\ line[i] # Cut
    <3>1. Word(sub).kind = "word" /\ Word("git").kind = "word" /\ Cut.kind = "cut"
      BY DEF Word, Cut, Token
    <3>2. QED
      BY <1>10, <3>1
  <2>2. i + 1 \in seg
    BY <1>1, <1>3, <1>10, <2>1
  <2>3. QED
    BY <1>5, <2>1, <2>2
<1>11. ASSUME line[i] = Word("git"), i + 1 \in seg,
              GitDenied(line[i + 1], Rest(line, seg, i + 1))
       PROVE  SegmentDenied(line, seg)
  BY <1>2, <1>11 DEF SegmentDenied, HeadDenied
<1>12. CASE /\ line[i] = Word("git") /\ i + 1 \in DOMAIN line /\ line[i + 1] = Word("push")
            /\ LongEq("force") \in words \/ ForcesAny(words)
  <2>1. \E flag \in words : PushForces(flag) /\ flag.kind # "word"
    <3>1. CASE LongEq("force") \in words
      BY <3>1 DEF PushForces, LongEq, Long, Token
    <3>2. CASE ForcesAny(words)
      BY <1>6, <3>2 DEF Forces, PushForces, ShortFlagContains, LongEq, Long, Token
    <3>3. QED
      BY <1>12, <3>1, <3>2
  <2>2. GitDenied(line[i + 1], Rest(line, seg, i + 1)) /\ i + 1 \in seg
    BY <1>10, <1>12, <2>1 DEF GitDenied
  <2>3. QED
    BY <1>11, <1>12, <2>2
<1>13. CASE /\ line[i] = Word("git") /\ i + 1 \in DOMAIN line /\ line[i + 1] = Word("reset")
            /\ Long("hard") \in words
  <2>1. Long("hard").kind # "word"
    BY DEF Long, Token
  <2>2. GitDenied(line[i + 1], Rest(line, seg, i + 1)) /\ i + 1 \in seg
    BY <1>10, <1>13, <2>1 DEF GitDenied
  <2>3. QED
    BY <1>11, <1>13, <2>2
<1>14. CASE /\ line[i] = Word("git") /\ i + 1 \in DOMAIN line /\ line[i + 1] = Word("clean")
            /\ ForcesAny(words)
  <2>1. GitDenied(line[i + 1], Rest(line, seg, i + 1)) /\ i + 1 \in seg
    BY <1>6, <1>10, <1>14 DEF GitDenied
  <2>2. QED
    BY <1>11, <1>14, <2>1
<1>15. QED
  BY <1>8, <1>9, <1>12, <1>13, <1>14 DEF BannedCommand

\* Where the code cuts inside a quoted text it leaves a torn quotation behind,
\* and that segment is denied: what a shell would still run behind the text, or
\* with it as an argument, does not get past the hook.
LEMMA TornIsDenied ==
  ASSUME NEW line \in Seq(Tokens), Tears(line) # {}
  PROVE  Denied(line)
<1>1. PICK t \in DOMAIN line : line[t] = Tear
  BY DEF Tears
<1>2. line[t] # Cut
  <2>1. Tear.kind = "tear" /\ Cut.kind = "cut"
    BY DEF Tear, Cut, Token
  <2>2. QED
    BY <1>1, <2>1
<1>3. t \in Segment(line, t)
  BY <1>2 DEF Segment
<1>4. SegmentDenied(line, Segment(line, t))
  BY <1>1, <1>3 DEF SegmentDenied, Unparseable
<1>5. QED
  BY <1>2, <1>4 DEF Denied, Segments

LEMMA BannedIsDenied ==
  ASSUME NEW line \in Seq(Tokens), Banned(line)
  PROVE  Denied(line)
<1>1. PICK i \in DOMAIN line : Begins(line, i) /\ BannedCommand(line, i)
  BY DEF Banned
<1>2. CASE Tears(line) = {}
  BY <1>1, <1>2, CommandIsDenied DEF Denied, Segments, Begins
<1>3. QED
  BY <1>2, TornIsDenied

-----------------------------------------------------------------------------
LEMMA InitRunInv == Init => RunInv
<1> SUFFICES ASSUME Init PROVE RunInv
  OBVIOUS
<1> USE SdkDriverAssumption DEF Init
<1>1. inbox \in Seq({"text", "pr"}) /\ said \in Seq({"text", "pr"}) /\ Len(said) = 0
  BY EmptySeq
<1>2. /\ lines \in [Kinds -> Nat]
      /\ \A kind \in Kinds : lines[kind] = 0
  BY DEF NoLine
<1>3. TypeOK
  <2>1. raising \in BOOLEAN /\ attempted \in BOOLEAN /\ recent \in BOOLEAN
    OBVIOUS
  <2>2. signals \in 0 .. MaxSignals /\ iter \in 0 .. MaxTools
    OBVIOUS
  <2>3. QED
    BY <1>1, <1>2, <2>1, <2>2 DEF TypeOK
<1>4. WatchdogLife /\ EveryToolAudited
  BY <1>2 DEF WatchdogLife, EveryToolAudited, Kinds
<1>5. Attempts /\ Course /\ Checked
  BY <1>2 DEF Attempts, Course, Checked, Kinds
<1>6. PrTravels
  BY <1>1 DEF PrTravels, SaidPr
<1>7. QED
  BY <1>3, <1>4, <1>5, <1>6 DEF RunInv, DriverInv
-----------------------------------------------------------------------------
(***************************************************************************)
(* Steps that write no line.                                               *)
(***************************************************************************)
RunsOn ==
  \/ Starts \/ Connects \/ Queried \/ Breaks \/ ReceiveEnds \/ ReceiveRaises
  \/ WatchdogAwaited \/ Closes

Signalled == Usr1 \/ SetInterrupt \/ WatchdogWakes

AgentGoesOn ==
  \/ \E msg \in {"text", "pr"} : Says(msg)
  \/ \E command \in Commands : AsksTool(command)
  \/ SecondPasses \/ TurnEnds

Silent == RunsOn \/ Signalled \/ AgentGoesOn

LEMMA SilentKeepsTypeOK ==
  ASSUME TypeOK, Silent
  PROVE  TypeOK'
<1> USE SdkDriverAssumption DEF TypeOK, sdk, state
<1>1. CASE Starts \/ Connects \/ Queried
  BY <1>1, ZenonT(60) DEF Starts, Connects, Queried, Ends
<1>2. CASE Breaks \/ ReceiveEnds \/ ReceiveRaises
  BY <1>2 DEF Breaks, ReceiveEnds, ReceiveRaises, Finally
<1>3. CASE WatchdogAwaited \/ Closes
  BY <1>3 DEF WatchdogAwaited, Closes, Ends
<1>4. CASE Usr1 \/ SetInterrupt \/ WatchdogWakes
  BY <1>4 DEF Usr1, SetInterrupt, WatchdogWakes, Ends
<1>5. ASSUME NEW message \in {"text", "pr"}, Says(message) PROVE TypeOK'
  <2>1. inbox' \in Seq({"text", "pr"}) /\ said' \in Seq({"text", "pr"})
    BY <1>5, AppendProperties DEF Says
  <2>2. UNCHANGED <<main, raising, code, interrupt, signals, watchdog, attempted,
                    turn, tool, iter, recent, lines>>
    BY <1>5 DEF Says
  <2>3. QED
    BY <2>1, <2>2
<1>6. ASSUME NEW command \in Commands, AsksTool(command) PROVE TypeOK'
  BY <1>6 DEF AsksTool
<1>7. CASE SecondPasses \/ TurnEnds
  BY <1>7, ZenonT(60) DEF SecondPasses, TurnEnds
<1>8. QED
  BY <1>1, <1>2, <1>3, <1>4, <1>5, <1>6, <1>7 DEF Silent, RunsOn, Signalled, AgentGoesOn

LEMMA SilentKeepsLife ==
  ASSUME RunInv, Silent
  PROVE  WatchdogLife' /\ EveryToolAudited' /\ Attempts' /\ Course' /\ Checked'
<1> USE DEF RunInv, DriverInv, WatchdogLife, EveryToolAudited, Attempts, Course, Checked,
            TypeOK, sdk, state
<1>1. CASE Starts \/ Connects \/ Queried
  BY <1>1 DEF Starts, Connects, Queried, Ends
<1>2. CASE Breaks \/ ReceiveEnds \/ ReceiveRaises
  BY <1>2 DEF Breaks, ReceiveEnds, ReceiveRaises, Finally
<1>3. CASE WatchdogAwaited \/ Closes
  BY <1>3 DEF WatchdogAwaited, Closes, Ends
<1>4. CASE Usr1 \/ SetInterrupt \/ WatchdogWakes
  BY <1>4 DEF Usr1, SetInterrupt, WatchdogWakes, Ends, Living
<1>5. ASSUME NEW message \in {"text", "pr"}, Says(message)
      PROVE  WatchdogLife' /\ EveryToolAudited' /\ Attempts' /\ Course' /\ Checked'
  BY <1>5 DEF Says
<1>6. ASSUME NEW command \in Commands, AsksTool(command)
      PROVE  WatchdogLife' /\ EveryToolAudited' /\ Attempts' /\ Course' /\ Checked'
  BY <1>6 DEF AsksTool, NoTool
<1>7. CASE SecondPasses \/ TurnEnds
  BY <1>7 DEF SecondPasses, TurnEnds, NoTool
<1>8. QED
  BY <1>1, <1>2, <1>3, <1>4, <1>5, <1>6, <1>7 DEF Silent, RunsOn, Signalled, AgentGoesOn
LEMMA SilentKeepsPrTravels ==
  ASSUME RunInv, Silent
  PROVE  PrTravels'
<1> USE DEF PrTravels, sdk, state
<1>1. PrTravels /\ Course /\ TypeOK
  BY DEF RunInv, DriverInv
<1>2. CASE RunsOn
  <2>1. UNCHANGED <<said, inbox, lines, interrupt>>
    BY <1>2 DEF RunsOn, Starts, Connects, Queried, Breaks, ReceiveEnds, ReceiveRaises,
                WatchdogAwaited, Closes
  <2>2. SaidPr' = SaidPr /\ PrInInbox' = PrInInbox
    BY <2>1 DEF SaidPr, PrInInbox
  <2>3. raising => raising'
    BY <1>2 DEF RunsOn, Starts, Connects, Queried, Breaks, ReceiveEnds, ReceiveRaises,
                WatchdogAwaited, Closes
  <2>4. ~raising' /\ interrupt # "set" /\ main' \in {"cancelling", "closing", "ended"}
          /\ code' \notin {"one", "two", "usr1"} => inbox = << >>
    <3>1. CASE Starts \/ Connects \/ Queried
      BY <1>1, <3>1 DEF Starts, Connects, Queried, Ends, Course
    <3>2. CASE Breaks \/ ReceiveEnds \/ ReceiveRaises
      BY <1>1, <3>2 DEF Breaks, ReceiveEnds, ReceiveRaises, Finally
    <3>3. CASE WatchdogAwaited \/ Closes
      BY <1>1, <3>3 DEF WatchdogAwaited, Closes, Ends, Course
    <3>4. QED
      BY <1>2, <3>1, <3>2, <3>3 DEF RunsOn
  <2>5. QED
    BY <1>1, <2>1, <2>2, <2>3, <2>4
<1>3. CASE Signalled
  <2>1. /\ UNCHANGED <<said, inbox, lines, raising>>
        /\ interrupt' # "set" => interrupt # "set"
        /\ UNCHANGED <<main, code>> \/ code' = "usr1"
    BY <1>3 DEF Signalled, Usr1, SetInterrupt, WatchdogWakes, Ends
  <2>2. SaidPr' = SaidPr /\ PrInInbox' = PrInInbox
    BY <2>1 DEF SaidPr, PrInInbox
  <2>3. QED
    BY <1>1, <2>1, <2>2
<1>4. ASSUME NEW message \in {"text", "pr"}, Says(message) PROVE PrTravels'
  <2>1. /\ main \in {"receiving", "draining"}
        /\ said' = Append(said, message) /\ inbox' = Append(inbox, message)
        /\ UNCHANGED <<main, raising, code, interrupt, lines>>
    BY <1>4 DEF Says
  <2>2. /\ Len(said') = Len(said) + 1 /\ said'[Len(said) + 1] = message
        /\ \A n \in 1 .. Len(said) : said'[n] = said[n]
        /\ Len(inbox') = Len(inbox) + 1 /\ inbox'[Len(inbox) + 1] = message
        /\ \A n \in 1 .. Len(inbox) : inbox'[n] = inbox[n]
        /\ Len(said) \in Nat /\ Len(inbox) \in Nat
    BY <1>1, <2>1, AppendProperties, LenProperties DEF TypeOK
  <2>3. PrInInbox => PrInInbox'
    BY <2>2 DEF PrInInbox
  <2>4. message = "pr" => PrInInbox'
    BY <2>2 DEF PrInInbox
  <2>5. SaidPr' => SaidPr \/ message = "pr"
    BY <2>2 DEF SaidPr
  <2>6. QED
    BY <1>1, <2>1, <2>3, <2>4, <2>5
<1>5. CASE (\E command \in Commands : AsksTool(command)) \/ SecondPasses \/ TurnEnds
  <2>1. UNCHANGED <<main, raising, code, interrupt, lines, said, inbox>>
    BY <1>5 DEF AsksTool, SecondPasses, TurnEnds
  <2>2. QED
    BY <1>1, <2>1 DEF SaidPr, PrInInbox
<1>6. QED
  BY <1>2, <1>3, <1>4, <1>5 DEF Silent, AgentGoesOn

-----------------------------------------------------------------------------
(***************************************************************************)
(* Steps that write.                                                       *)
(***************************************************************************)
\* One more line of a kind.
LEMMA Emitted ==
  ASSUME NEW old \in [Kinds -> Nat], NEW kind \in Kinds
  PROVE  /\ Emit(old, kind) \in [Kinds -> Nat]
         /\ Emit(old, kind)[kind] = old[kind] + 1
         /\ \A other \in Kinds : other # kind => Emit(old, kind)[other] = old[other]
  BY DEF Emit

\* The FINAL line is written by whoever comes first.
LEMMA FinalOnce ==
  ASSUME TypeOK, NEW old \in [Kinds -> Nat], NEW reason \in {"natural", "operator_stop"},
         old["natural"] = lines["natural"], old["operator_stop"] = lines["operator_stop"]
  PROVE  LET new == EmitFinalOnce(old, reason)
         IN  /\ new \in [Kinds -> Nat]
             /\ \A kind \in Kinds \ {reason} : new[kind] = old[kind]
             /\ new[reason] = IF lines["natural"] + lines["operator_stop"] > 0
                              THEN old[reason] ELSE 1
<1>1. {"natural", "operator_stop"} \subseteq Kinds /\ lines \in [Kinds -> Nat]
  BY DEF Kinds, TypeOK
<1>2. CASE FinalEmitted
  BY <1>1, <1>2 DEF EmitFinalOnce, FinalEmitted
<1>3. CASE ~FinalEmitted
  <2>1. lines["natural"] = 0 /\ lines["operator_stop"] = 0
    BY <1>1, <1>3 DEF FinalEmitted
  <2>2. QED
    BY <1>1, <1>3, <2>1, Emitted DEF EmitFinalOnce, FinalEmitted
<1>4. QED
  BY <1>2, <1>3

LEMMA ReceivesKeepsRunInv ==
  ASSUME RunInv, Receives
  PROVE  RunInv'
<1>1. /\ main = "receiving" /\ interrupt # "set" /\ inbox # << >>
      /\ inbox' = Tail(inbox)
      /\ UNCHANGED <<main, raising, code, interrupt, signals, watchdog, attempted,
                     turn, said, tool, iter, recent>>
  BY DEF Receives
<1>2. DriverInv /\ Attempts /\ Course /\ PrTravels /\ Checked /\ TypeOK
  BY DEF RunInv, DriverInv
<1>3. /\ inbox \in Seq({"text", "pr"}) /\ Len(inbox) \in Nat /\ Len(inbox) >= 1
      /\ Head(inbox) = inbox[1]
      /\ inbox' \in Seq({"text", "pr"}) /\ Len(inbox') = Len(inbox) - 1
      /\ \A n \in 1 .. Len(inbox') : inbox'[n] = inbox[n + 1]
  BY <1>1, <1>2, HeadTailProperties, EmptySeq, LenProperties DEF TypeOK
<1>4. /\ lines' \in [Kinds -> Nat]
      /\ \A kind \in Kinds \ {"PR_URL"} : lines'[kind] = lines[kind]
      /\ lines["PR_URL"] <= lines'["PR_URL"] /\ lines'["PR_URL"] <= 1
      /\ Head(inbox) = "pr" => lines'["PR_URL"] = 1
  <2>1. lines \in [Kinds -> Nat] /\ "PR_URL" \in Kinds /\ lines["PR_URL"] <= 1
    BY <1>2 DEF TypeOK, Attempts, Kinds
  <2>2. CASE Head(inbox) = "pr" /\ lines["PR_URL"] = 0
    BY <2>1, <2>2, Emitted DEF Receives, HandleMessage
  <2>3. CASE ~(Head(inbox) = "pr" /\ lines["PR_URL"] = 0)
    BY <2>1, <2>3 DEF Receives, HandleMessage
  <2>4. QED
    BY <2>2, <2>3
<1>5. TypeOK'
  BY <1>1, <1>2, <1>3, <1>4 DEF TypeOK
<1>6. WatchdogLife' /\ EveryToolAudited' /\ Attempts' /\ Course' /\ Checked'
  BY <1>1, <1>2, <1>4
  DEF DriverInv, WatchdogLife, EveryToolAudited, Attempts, Course, Checked, Kinds
<1>7. PrTravels'
  <2>1. PrInInbox => Head(inbox) = "pr" \/ PrInInbox'
    <3>1. ASSUME NEW n \in 1 .. Len(inbox), inbox[n] = "pr", n # 1
          PROVE  PrInInbox'
      <4>1. n - 1 \in 1 .. Len(inbox') /\ inbox'[n - 1] = "pr"
        BY <1>3, <3>1
      <4>2. QED
        BY <4>1 DEF PrInInbox
    <3>2. QED
      BY <1>3, <3>1 DEF PrInInbox
  <2>2. lines["PR_URL"] = 1 => lines'["PR_URL"] = 1
    <3>1. lines["PR_URL"] \in Nat /\ lines'["PR_URL"] \in Nat
      BY <1>2, <1>4 DEF TypeOK, Kinds
    <3>2. QED
      BY <1>4, <3>1
  <2>3. QED
    BY <1>1, <1>2, <1>4, <2>1, <2>2 DEF PrTravels, SaidPr
<1>8. QED
  BY <1>5, <1>6, <1>7 DEF RunInv, DriverInv
LEMMA WatchdogEmitsKeepsRunInv ==
  ASSUME RunInv, WatchdogEmits
  PROVE  RunInv'
<1>1. /\ watchdog = "interrupting" /\ watchdog' = "done" /\ attempted' = TRUE
      /\ lines' = EmitFinalOnce(Emit(lines, "agent.interrupt"), "operator_stop")
      /\ UNCHANGED <<main, raising, code, interrupt, signals, turn, inbox, said, tool,
                     iter, recent>>
  BY DEF WatchdogEmits, sdk
<1>2. DriverInv /\ Attempts /\ Course /\ PrTravels /\ Checked /\ TypeOK
  BY DEF RunInv, DriverInv
<1>3. /\ lines' \in [Kinds -> Nat]
      /\ \A kind \in Kinds \ {"agent.interrupt", "operator_stop"} : lines'[kind] = lines[kind]
      /\ lines'["agent.interrupt"] = lines["agent.interrupt"] + 1
      /\ lines'["operator_stop"] = IF lines["natural"] + lines["operator_stop"] > 0
                                   THEN lines["operator_stop"] ELSE 1
  <2>1. lines \in [Kinds -> Nat] /\ "agent.interrupt" \in Kinds
    BY <1>2 DEF TypeOK, Kinds
  <2> DEFINE old == Emit(lines, "agent.interrupt")
  <2>2. /\ old \in [Kinds -> Nat]
        /\ old["agent.interrupt"] = lines["agent.interrupt"] + 1
        /\ \A kind \in Kinds \ {"agent.interrupt"} : old[kind] = lines[kind]
    BY <2>1, Emitted
  <2>3. old["natural"] = lines["natural"] /\ old["operator_stop"] = lines["operator_stop"]
    BY <2>2 DEF Kinds
  <2> HIDE DEF old
  <2>4. LET new == EmitFinalOnce(old, "operator_stop")
        IN  /\ new \in [Kinds -> Nat]
            /\ \A kind \in Kinds \ {"operator_stop"} : new[kind] = old[kind]
            /\ new["operator_stop"] = IF lines["natural"] + lines["operator_stop"] > 0
                                      THEN old["operator_stop"] ELSE 1
    BY <1>2, <2>2, <2>3, FinalOnce
  <2>5. lines' = EmitFinalOnce(old, "operator_stop")
    BY <1>1 DEF old
  <2>6. QED
    BY <2>1, <2>2, <2>3, <2>4, <2>5
<1>4. TypeOK'
  BY <1>1, <1>2, <1>3 DEF TypeOK
<1>5. WatchdogLife' /\ EveryToolAudited'
  BY <1>1, <1>2, <1>3 DEF DriverInv, WatchdogLife, EveryToolAudited, Kinds
<1>6. Attempts'
  <2>1. lines["natural"] \in Nat /\ lines["operator_stop"] \in Nat
    BY <1>2 DEF TypeOK, Kinds
  <2>2. QED
    BY <1>1, <1>2, <1>3, <2>1 DEF Attempts, Kinds
<1>7. Course' /\ Checked'
  BY <1>1, <1>2 DEF Course, Checked
<1>8. PrTravels'
  BY <1>1, <1>2, <1>3 DEF PrTravels, SaidPr, PrInInbox, Kinds
<1>9. QED
  BY <1>4, <1>5, <1>6, <1>7, <1>8 DEF RunInv, DriverInv

LEMMA ToolEndsKeepsRunInv ==
  ASSUME RunInv, ToolEnds
  PROVE  RunInv'
<1>1. /\ tool # NoTool /\ tool' = NoTool /\ iter' = iter + 1 /\ recent' = TRUE
      /\ lines' = IF recent THEN Emit(lines, "tool") ELSE Emit(Emit(lines, "tool"), "STEP")
      /\ UNCHANGED <<main, raising, code, interrupt, signals, watchdog, attempted,
                     turn, inbox, said>>
  BY DEF ToolEnds, PostToolUse
<1>2. DriverInv /\ Attempts /\ Course /\ PrTravels /\ Checked /\ TypeOK
  BY DEF RunInv, DriverInv
<1>3. /\ lines' \in [Kinds -> Nat]
      /\ \A kind \in Kinds \ {"tool", "STEP"} : lines'[kind] = lines[kind]
      /\ lines'["tool"] = lines["tool"] + 1
      /\ lines'["STEP"] \in {lines["STEP"], lines["STEP"] + 1}
  <2>1. lines \in [Kinds -> Nat] /\ "tool" \in Kinds /\ "STEP" \in Kinds
    BY <1>2 DEF TypeOK, Kinds
  <2>2. QED
    BY <1>1, <2>1 DEF Emit
<1>4. iter \in 0 .. MaxTools /\ iter < MaxTools /\ lines["STEP"] \in Nat
  BY <1>1, <1>2 DEF DriverInv, TypeOK, EveryToolAudited, Kinds
<1>5. TypeOK'
  <2>1. iter' \in 0 .. MaxTools
    BY <1>1, <1>4, SdkDriverAssumption
  <2>2. QED
    BY <1>1, <1>2, <1>3, <2>1 DEF TypeOK
<1>6. WatchdogLife' /\ EveryToolAudited'
  BY <1>1, <1>2, <1>3, <1>4 DEF DriverInv, WatchdogLife, EveryToolAudited, Kinds
<1>7. Attempts' /\ Course' /\ Checked'
  BY <1>1, <1>2, <1>3 DEF Attempts, Course, Checked, Kinds
<1>8. PrTravels'
  BY <1>1, <1>2, <1>3 DEF PrTravels, SaidPr, PrInInbox, Kinds
<1>9. QED
  BY <1>5, <1>6, <1>7, <1>8 DEF RunInv, DriverInv

LEMMA StopsKeepsRunInv ==
  ASSUME RunInv, Stops
  PROVE  RunInv'
<1>1. /\ turn' = "stopped"
      /\ lines' = IF interrupt = "set" THEN lines
                  ELSE EmitFinalOnce(Emit(lines, "agent.stop"), "natural")
      /\ UNCHANGED <<main, raising, code, interrupt, signals, watchdog, attempted,
                     inbox, said, tool, iter, recent>>
  BY DEF Stops, OnStop
<1>2. DriverInv /\ Attempts /\ Course /\ PrTravels /\ Checked /\ TypeOK
  BY DEF RunInv, DriverInv
<1>3. /\ lines' \in [Kinds -> Nat]
      /\ \A kind \in Kinds \ {"agent.stop", "natural"} : lines'[kind] = lines[kind]
      /\ lines'["natural"] = lines["natural"]
           \/ (lines["natural"] + lines["operator_stop"] = 0 /\ lines'["natural"] = 1)
  <2>1. /\ lines \in [Kinds -> Nat] /\ "agent.stop" \in Kinds
        /\ lines["natural"] \in Nat /\ lines["operator_stop"] \in Nat
    BY <1>2 DEF TypeOK, Kinds
  <2> DEFINE old == Emit(lines, "agent.stop")
  <2>2. /\ old \in [Kinds -> Nat]
        /\ \A kind \in Kinds \ {"agent.stop"} : old[kind] = lines[kind]
    BY <2>1, Emitted
  <2>3. old["natural"] = lines["natural"] /\ old["operator_stop"] = lines["operator_stop"]
    BY <2>2 DEF Kinds
  <2> HIDE DEF old
  <2>4. LET new == EmitFinalOnce(old, "natural")
        IN  /\ new \in [Kinds -> Nat]
            /\ \A kind \in Kinds \ {"natural"} : new[kind] = old[kind]
            /\ new["natural"] = IF lines["natural"] + lines["operator_stop"] > 0
                                THEN old["natural"] ELSE 1
    BY <1>2, <2>2, <2>3, FinalOnce
  <2>5. CASE lines' = lines
    BY <2>1, <2>5
  <2>6. CASE lines' = EmitFinalOnce(old, "natural")
    <3>1. lines'["natural"] = IF lines["natural"] + lines["operator_stop"] > 0
                             THEN lines["natural"] ELSE 1
      BY <2>3, <2>4, <2>6
    <3>2. \A kind \in Kinds \ {"agent.stop", "natural"} : lines'[kind] = lines[kind]
      BY <2>2, <2>4, <2>6
    <3>3. lines' \in [Kinds -> Nat]
      BY <2>4, <2>6
    <3>4. QED
      BY <2>1, <3>1, <3>2, <3>3
  <2>7. QED
    BY <1>1, <2>5, <2>6 DEF old
<1>4. TypeOK'
  BY <1>1, <1>2, <1>3 DEF TypeOK
<1>5. WatchdogLife' /\ EveryToolAudited'
  BY <1>1, <1>2, <1>3 DEF DriverInv, WatchdogLife, EveryToolAudited, Kinds
<1>6. Attempts'
  <2>1. lines["natural"] \in Nat /\ lines["operator_stop"] \in Nat
    BY <1>2 DEF TypeOK, Kinds
  <2>2. (lines["natural"] + lines["operator_stop"] <= 1)'
    BY <1>2, <1>3, <2>1 DEF Attempts, Kinds
  <2>3. QED
    BY <1>1, <1>2, <1>3, <2>2 DEF Attempts, Kinds
<1>7. Course' /\ Checked'
  BY <1>1, <1>2 DEF Course, Checked
<1>8. PrTravels'
  BY <1>1, <1>2, <1>3 DEF PrTravels, SaidPr, PrInInbox, Kinds
<1>9. QED
  BY <1>4, <1>5, <1>6, <1>7, <1>8 DEF RunInv, DriverInv

\* RunInv is inductive.
LEMMA NextRunInv ==
  ASSUME RunInv, [Next]_vars
  PROVE  RunInv'
<1>1. CASE UNCHANGED vars
  BY <1>1 DEF vars, RunInv, DriverInv, TypeOK, WatchdogLife, EveryToolAudited, Attempts,
              Course, PrTravels, Checked, SaidPr, PrInInbox
<1>2. CASE Silent
  BY <1>2, SilentKeepsTypeOK, SilentKeepsLife, SilentKeepsPrTravels DEF RunInv, DriverInv
<1>3. CASE Receives \/ WatchdogEmits \/ ToolEnds \/ Stops
  BY <1>3, ReceivesKeepsRunInv, WatchdogEmitsKeepsRunInv, ToolEndsKeepsRunInv,
     StopsKeepsRunInv
<1>4. QED
  <2>1. Run => RunsOn \/ Receives
    BY DEF Run, RunsOn
  <2>2. Stop => Signalled \/ WatchdogEmits
    BY DEF Stop, Signalled
  <2>3. Turn => AgentGoesOn \/ ToolEnds \/ Stops
    BY DEF Turn, AgentGoesOn
  <2>4. QED
    BY <1>1, <1>2, <1>3, <2>1, <2>2, <2>3 DEF Next, Silent

-----------------------------------------------------------------------------
\* The watchdog task lives under the tool hooks and never outlives its client;
\* every tool that ran is in the audit log.
THEOREM DriverSound == Spec => []DriverInv
<1>1. RunInv => DriverInv
  BY DEF RunInv
<1>2. QED
  BY <1>1, InitRunInv, NextRunInv, PTL DEF Spec

\* One FINAL line at most, operator_stop only after an attempt, and no pull
\* request of an undisturbed agent is missing from the lines.
THEOREM OneLastWordAlways == Spec => []OneLastWord
<1>1. RunInv => OneLastWord
  <2>1. SUFFICES ASSUME RunInv PROVE OneLastWord
    OBVIOUS
  <2>2. /\ lines["PR_URL"] \in Nat /\ lines["agent.interrupt"] \in Nat
        /\ inbox \in Seq({"text", "pr"}) /\ said \in Seq({"text", "pr"})
    BY <2>1 DEF RunInv, DriverInv, TypeOK, Kinds
  <2>3. inbox = << >> => ~PrInInbox
    BY EmptySeq DEF PrInInbox
  <2>4. (\E i \in DOMAIN said : said[i] = "pr") => SaidPr
    BY <2>2, LenProperties DEF SaidPr
  <2>5. code = "zero" /\ interrupt # "set" /\ SaidPr => lines["PR_URL"] = 1
    BY <2>1, <2>3 DEF RunInv, PrTravels, Course
  <2>6. QED
    BY <2>1, <2>2, <2>4, <2>5 DEF RunInv, Attempts, OneLastWord
<1>2. QED
  BY <1>1, InitRunInv, NextRunInv, PTL DEF Spec

\* Whatever commands the agent asks for, none that runs has a banned segment.
THEOREM NothingBannedRunsEver == Spec => []NothingBannedRuns
<1>1. RunInv => NothingBannedRuns
  BY SdkDriverAssumption, BannedIsDenied DEF RunInv, Checked, NothingBannedRuns, Denied
<1>2. QED
  BY <1>1, InitRunInv, NextRunInv, PTL DEF Spec
-----------------------------------------------------------------------------
(***************************************************************************)
(* The driver is a worker as WorkerStop takes it.                          *)
(***************************************************************************)
Proc == CASE main = "booting" -> "booting"
          [] main = "ended"   -> "zombie"
          [] OTHER            -> "working"

Exit == CASE code \in {"one", "two"} -> "error" [] OTHER -> code

Asked == CASE interrupt = "no"        -> "no"
           [] interrupt = "scheduled" -> "pending"
           [] interrupt = "set"       -> "observed"

Final == CASE lines["natural"] > 0       -> "natural"
           [] lines["operator_stop"] > 0 -> "operator_stop"
           [] OTHER                      -> "none"

Written == [pr |-> lines["PR_URL"] > 0, final |-> Final]

\* A worker that gets on, and nothing else seen of it.
Quietly == UNCHANGED <<Proc, Exit, Asked, Written>>

\* The worker as the protocol names it.
LEMMA Mapping ==
  /\ Protocol!Alive <=> Proc \in {"booting", "working"}
  /\ Protocol!agent = <<Proc, Exit, Asked, Written>>
  BY DEF Protocol!Alive, Protocol!agent, Proc, Exit, Asked, Written, Final

LEMMA InitRefines == Init => Protocol!Init
<1> SUFFICES ASSUME Init PROVE Protocol!Init
  OBVIOUS
<1>1. lines["PR_URL"] = 0 /\ lines["natural"] = 0 /\ lines["operator_stop"] = 0
  BY DEF Init, NoLine, Kinds
<1>2. (lines["PR_URL"] > 0) = FALSE
  BY <1>1
<1>3. Final = "none"
  BY <1>1 DEF Final
<1>4. Written = [pr |-> FALSE, final |-> "none"]
  BY <1>2, <1>3, Zenon DEF Written
<1>5. Proc = "booting" /\ Exit = "none" /\ Asked = "no"
  BY DEF Init, Proc, Exit, Asked
<1>6. QED
  BY <1>4, <1>5 DEF Protocol!Init, Protocol!NoMarkers, Proc, Exit, Asked, Written, Final

\* What a step does to the worker, in the variables of the protocol.
LEMMA SilentRefines ==
  ASSUME RunInv, Silent
  PROVE  Protocol!Next \/ Quietly
<1> USE DEF Proc, Exit, Asked, Quietly, sdk, state, Course, Ends
<1>1. TypeOK /\ WatchdogLife /\ Course
  BY DEF RunInv, DriverInv
<1>2. lines' = lines
  BY DEF Silent, RunsOn, Signalled, AgentGoesOn, Starts, Connects, Queried, Breaks,
         ReceiveEnds, ReceiveRaises, WatchdogAwaited, Closes, Usr1, SetInterrupt,
         WatchdogWakes, Says, AsksTool, SecondPasses, TurnEnds
<1>3. Written' = Written
  BY <1>2 DEF Written, Final
<1> USE DEF Protocol!Next, Protocol!Boots, Protocol!Exits, Protocol!Dies, Protocol!Alive,
            Protocol!ReceivesUsr1, Protocol!ObservesUsr1
<1>4. CASE Starts \/ Connects \/ Queried
  BY <1>1, <1>3, <1>4 DEF Starts, Connects, Queried, TypeOK
<1>5. CASE Breaks \/ ReceiveEnds \/ ReceiveRaises
  BY <1>1, <1>3, <1>5 DEF Breaks, ReceiveEnds, ReceiveRaises, Finally, TypeOK
<1>6. CASE WatchdogAwaited \/ Closes
  BY <1>1, <1>3, <1>6 DEF WatchdogAwaited, Closes, TypeOK
<1>7. CASE Signalled
  BY <1>1, <1>3, <1>7 DEF Signalled, Usr1, SetInterrupt, WatchdogWakes, Living, TypeOK
<1>8. CASE AgentGoesOn
  BY <1>1, <1>3, <1>8 DEF AgentGoesOn, Says, AsksTool, SecondPasses, TurnEnds
<1>9. QED
  BY <1>4, <1>5, <1>6, <1>7, <1>8 DEF Silent, RunsOn
\* The markers are read off the lines, which these steps write.
LEMMA LinesRefine ==
  ASSUME RunInv, Receives \/ WatchdogEmits \/ ToolEnds \/ Stops
  PROVE  Protocol!Next \/ Quietly
<1>1. TypeOK /\ WatchdogLife /\ Course /\ Attempts
  BY DEF RunInv, DriverInv
<1>2. /\ main' = main /\ code' = code /\ interrupt' = interrupt
      /\ main \notin {"booting", "ended"}
  BY <1>1 DEF Receives, WatchdogEmits, ToolEnds, Stops, Hooked, Course, WatchdogLife, sdk
<1>3. Proc' = Proc /\ Exit' = Exit /\ Asked' = Asked /\ Proc = "working"
  BY <1>2 DEF Proc, Exit, Asked
<1>4. /\ lines \in [Kinds -> Nat]
      /\ {"PR_URL", "natural", "operator_stop", "tool", "STEP", "agent.stop",
          "agent.interrupt"} \subseteq Kinds
  BY <1>1 DEF TypeOK, Kinds
<1>5. ASSUME UNCHANGED <<lines["PR_URL"], lines["natural"], lines["operator_stop"]>>
      PROVE  Quietly
  <2>1. Written' = Written
    BY <1>5 DEF Written, Final
  <2>2. QED
    BY <1>3, <2>1 DEF Quietly
<1>6. CASE Receives
  <2>1. CASE Head(inbox) = "pr" /\ lines["PR_URL"] = 0
    <3>1. lines' = Emit(lines, "PR_URL")
      BY <1>6, <2>1 DEF Receives, HandleMessage
    <3>2. lines'["PR_URL"] = 1 /\ UNCHANGED <<lines["natural"], lines["operator_stop"]>>
      BY <1>4, <2>1, <3>1, Emitted
    <3>3. Final' = Final
      BY <3>2 DEF Final
    <3>4. (lines'["PR_URL"] > 0) = TRUE /\ (lines["PR_URL"] > 0) = FALSE
      BY <2>1, <3>2
    <3>5. Written' = [Written EXCEPT !.pr = (lines'["PR_URL"] > 0)]
      BY <3>3 DEF Written
    <3>6. Written' = [Written EXCEPT !.pr = TRUE]
      BY <3>4, <3>5, Zenon
    <3>7. ~Written.pr
      <4>1. Written.pr = (lines["PR_URL"] > 0)
        BY DEF Written
      <4>2. QED
        BY <3>4, <4>1, Zenon
    <3>8. Asked # "observed"
      BY <1>1, <1>6 DEF Asked, Receives, TypeOK
    <3>9. Protocol!WritesPr
      BY <1>3, <3>6, <3>7, <3>8 DEF Protocol!WritesPr, Proc, Exit, Asked, Written, Final
    <3>10. QED
      BY <3>9 DEF Protocol!Next
  <2>2. CASE ~(Head(inbox) = "pr" /\ lines["PR_URL"] = 0)
    BY <1>5, <1>6, <2>2 DEF Receives, HandleMessage
  <2>3. QED
    BY <2>1, <2>2
<1>7. CASE ToolEnds
  <2>1. UNCHANGED <<lines["PR_URL"], lines["natural"], lines["operator_stop"]>>
    BY <1>4, <1>7 DEF ToolEnds, PostToolUse, Emit
  <2>2. QED
    BY <1>5, <2>1
<1>8. ASSUME NEW reason \in {"natural", "operator_stop"},
             NEW kind \in {"agent.stop", "agent.interrupt"},
             lines' = EmitFinalOnce(Emit(lines, kind), reason)
      PROVE  Quietly \/ Protocol!EmitFinalOnce(reason)
  <2> DEFINE old == Emit(lines, kind)
  <2>1. old \in [Kinds -> Nat] /\ UNCHANGED <<main, code>>
        /\ old["PR_URL"] = lines["PR_URL"] /\ old["natural"] = lines["natural"]
        /\ old["operator_stop"] = lines["operator_stop"]
    BY <1>2, <1>4, Emitted, SMTT(30)
  <2> HIDE DEF old
  <2>2. LET new == EmitFinalOnce(old, reason)
        IN  /\ new \in [Kinds -> Nat]
            /\ \A other \in Kinds \ {reason} : new[other] = old[other]
            /\ new[reason] = IF lines["natural"] + lines["operator_stop"] > 0
                             THEN old[reason] ELSE 1
    BY <1>1, <2>1, FinalOnce
  <2>3. /\ \A other \in Kinds \ {reason} : lines'[other] = old[other]
        /\ lines'[reason] = IF lines["natural"] + lines["operator_stop"] > 0
                            THEN old[reason] ELSE 1
    BY <1>8, <2>2 DEF old
  <2>4. CASE lines["natural"] + lines["operator_stop"] > 0
    BY <1>4, <1>5, <2>1, <2>3, <2>4
  <2>5. CASE lines["natural"] = 0 /\ lines["operator_stop"] = 0
    <3>1. UNCHANGED lines["PR_URL"] /\ lines'[reason] = 1
          /\ \A other \in {"natural", "operator_stop"} \ {reason} : lines'[other] = 0
      BY <1>4, <2>1, <2>3, <2>5
    <3>2. Final = "none" /\ Final' = reason
      BY <2>5, <3>1 DEF Final
    <3>3. (lines["PR_URL"] > 0)' = (lines["PR_URL"] > 0)
      BY <3>1
    <3>4. Written' = [Written EXCEPT !.final = reason]
      BY <3>2, <3>3 DEF Written
    <3>5. Written.final = "none"
      BY <3>2 DEF Written
    <3>6. QED
      BY <1>3, <3>4, <3>5
      DEF Protocol!EmitFinalOnce, Quietly, Proc, Exit, Asked, Written, Final
  <2>6. QED
    BY <1>4, <2>4, <2>5
<1>9. CASE WatchdogEmits
  <2>1. Asked = "observed"
    BY <1>1, <1>9 DEF WatchdogEmits, WatchdogLife, Asked
  <2>2. Quietly \/ Protocol!EmitFinalOnce("operator_stop")
    BY <1>8, <1>9 DEF WatchdogEmits
  <2>3. QED
    BY <1>3, <2>1, <2>2 DEF Protocol!Next, Protocol!WritesOperatorStop, Proc, Asked
<1>10. CASE Stops
  <2>1. CASE interrupt = "set"
    BY <1>5, <1>10, <2>1 DEF Stops, OnStop
  <2>2. CASE interrupt # "set"
    <3>1. Asked # "observed"
      BY <1>1, <2>2 DEF Asked, TypeOK
    <3>2. Quietly \/ Protocol!EmitFinalOnce("natural")
      BY <1>8, <1>10, <2>2 DEF Stops, OnStop
    <3>3. QED
      BY <1>3, <3>1, <3>2 DEF Protocol!Next, Protocol!WritesNatural, Proc, Asked
  <2>3. QED
    BY <2>1, <2>2
<1>11. QED
  BY <1>6, <1>7, <1>9, <1>10

\* The driver implements AgentProtocol: what WorkerStop assumes of a worker
\* holds of it for every command, text, tool and signal.
THEOREM DriverIsWorker == Spec => ImplementsProtocol
<1>1. ASSUME RunInv, [Next]_vars
      PROVE  [Protocol!Next]_(Protocol!agent)
  <2>1. CASE UNCHANGED vars
    BY <2>1 DEF vars, Protocol!agent
  <2>2. CASE Next
    <3>1. Protocol!Next \/ Quietly
      <4>1. Run => RunsOn \/ Receives
        BY DEF Run, RunsOn
      <4>2. Stop => Signalled \/ WatchdogEmits
        BY DEF Stop, Signalled
      <4>3. Turn => AgentGoesOn \/ ToolEnds \/ Stops
        BY DEF Turn, AgentGoesOn
      <4>4. QED
        BY <1>1, <2>2, <4>1, <4>2, <4>3, SilentRefines, LinesRefine DEF Next, Silent
    <3>2. Quietly => UNCHANGED Protocol!agent
      BY Mapping DEF Quietly, Protocol!agent, Proc, Exit, Asked, Written, Final
    <3>3. QED
      BY <3>1, <3>2
  <2>3. QED
    BY <1>1, <2>1, <2>2
<1>2. QED
  BY <1>1, InitRunInv, NextRunInv, InitRefines, PTL DEF Spec, ImplementsProtocol, Protocol!Spec
-----------------------------------------------------------------------------
(***************************************************************************)
(* Progress.                                                               *)
(***************************************************************************)
\* Sums of numbers, for the steps counted below.
LEMMA FourFall ==
  \A a, b, c, d, a1, b1, c1, d1 \in Nat :
    a1 <= a /\ b1 <= b /\ c1 <= c /\ d1 <= d
      => /\ a1 + b1 + c1 + d1 <= a + b + c + d
         /\ a1 < a \/ b1 < b \/ c1 < c \/ d1 < d
              => a1 + b1 + c1 + d1 < a + b + c + d
OBVIOUS

\* A stop that is under way ends with a FINAL line.
THEOREM StopNotGivenUpEver == Spec => StopNotGivenUp
<1>1. ASSUME RunInv, [Next]_vars, interrupt = "set", watchdog \in {"waiting", "interrupting"}
      PROVE  /\ main' # "ended"
             /\ watchdog' \in {"waiting", "interrupting"} \/ FinalEmitted'
  <2>1. WatchdogLife /\ Course /\ TypeOK
    BY <1>1 DEF RunInv, DriverInv
  <2>2. main \notin {"booting", "connecting", "querying", "cancelling", "closing", "ended"}
    BY <1>1, <2>1 DEF WatchdogLife, Course
  <2>3. CASE Run
    BY <1>1, <2>2, <2>3
    DEF Run, Starts, Connects, Queried, Receives, Breaks, ReceiveEnds, ReceiveRaises,
        WatchdogAwaited, Closes, Finally, Ends
  <2>4. CASE WatchdogEmits
    <3>1. /\ lines \in [Kinds -> Nat] /\ "agent.interrupt" \in Kinds
          /\ {"natural", "operator_stop"} \subseteq Kinds
      BY <2>1 DEF TypeOK, Kinds
    <3> DEFINE old == Emit(lines, "agent.interrupt")
    <3>2. /\ old \in [Kinds -> Nat] /\ old["natural"] = lines["natural"]
          /\ old["operator_stop"] = lines["operator_stop"]
      BY <3>1, Emitted
    <3>3. lines' = EmitFinalOnce(old, "operator_stop") /\ main' = main
      BY <2>4 DEF WatchdogEmits
    <3> HIDE DEF old
    <3>4. /\ lines'["natural"] = old["natural"]
          /\ lines'["operator_stop"] = IF lines["natural"] + lines["operator_stop"] > 0
                                       THEN old["operator_stop"] ELSE 1
      BY <2>1, <3>1, <3>2, <3>3, FinalOnce
    <3>5. lines["natural"] \in Nat /\ lines["operator_stop"] \in Nat
      BY <3>1
    <3>6. lines'["natural"] + lines'["operator_stop"] > 0
      BY <3>2, <3>4, <3>5
    <3>7. QED
      BY <2>2, <3>3, <3>6 DEF FinalEmitted
  <2>5. CASE Usr1 \/ SetInterrupt \/ WatchdogWakes
    BY <1>1, <2>2, <2>5 DEF Usr1, SetInterrupt, WatchdogWakes, Ends
  <2>6. CASE Turn \/ UNCHANGED vars
    BY <1>1, <2>2, <2>6
    DEF Turn, Says, AsksTool, ToolEnds, SecondPasses, Stops, TurnEnds, vars
  <2>7. QED
    BY <1>1, <2>3, <2>4, <2>5, <2>6 DEF Next, Stop
<1>2. QED
  BY <1>1, InitRunInv, NextRunInv, PTL DEF Spec, StopNotGivenUp

-----------------------------------------------------------------------------
\* The turn begins with the query, and run drains only a watchdog that lives.
TurnFollows ==
  /\ turn # "idle" => main \notin {"booting", "connecting", "querying"}
  /\ main = "draining" => watchdog \in {"waiting", "interrupting", "done"}

LEMMA InitTurnFollows == Init => TurnFollows
  BY DEF Init, TurnFollows

LEMMA NextTurnFollows ==
  ASSUME RunInv, TurnFollows, [Next]_vars
  PROVE  TurnFollows'
<1> USE DEF TurnFollows, sdk, state
<1>1. WatchdogLife /\ TypeOK
  BY DEF RunInv, DriverInv
<1>2. CASE Run
  BY <1>1, <1>2
  DEF Run, Starts, Connects, Queried, Receives, Breaks, ReceiveEnds, ReceiveRaises,
      WatchdogAwaited, Closes, Finally, Ends, WatchdogLife
<1>3. CASE Stop
  BY <1>3 DEF Stop, Usr1, SetInterrupt, WatchdogWakes, WatchdogEmits, Ends
<1>4. CASE Turn
  BY <1>4 DEF Turn, Says, AsksTool, ToolEnds, SecondPasses, Stops, TurnEnds, Hooked
<1>5. CASE UNCHANGED vars
  BY <1>5 DEF vars
<1>6. QED
  BY <1>2, <1>3, <1>4, <1>5 DEF Next

\* After the turn nothing of the process is undone.
LEMMA NothingComesBack ==
  ASSUME RunInv, TurnFollows, [Next]_vars, turn = "over"
  PROVE  /\ turn' = "over"
         /\ MainLeft' <= MainLeft /\ InterruptLeft' <= InterruptLeft
         /\ WatchdogLeft' <= WatchdogLeft
<1> USE DEF TypeOK, sdk, state, MainLeft, InterruptLeft, WatchdogLeft
<1>1. TypeOK /\ main \notin {"booting", "connecting", "querying"}
  BY DEF RunInv, DriverInv, TurnFollows
<1>2. CASE Run
  BY <1>1, <1>2
  DEF Run, Starts, Connects, Queried, Receives, Breaks, ReceiveEnds, ReceiveRaises,
      WatchdogAwaited, Closes, Finally, Ends
<1>3. CASE Stop
  BY <1>1, <1>3 DEF Stop, Usr1, SetInterrupt, WatchdogWakes, WatchdogEmits, Ends
<1>4. CASE Turn
  BY <1>1, <1>4 DEF Turn, Says, AsksTool, ToolEnds, SecondPasses, Stops, TurnEnds
<1>5. CASE UNCHANGED vars
  BY <1>1, <1>5 DEF vars
<1>6. QED
  BY <1>2, <1>3, <1>4, <1>5 DEF Next

\* The SDK says no more, and what it said is read once.
LEMMA InboxEmpties ==
  ASSUME RunInv, [Next]_vars, turn = "over"
  PROVE  /\ Len(inbox) \in Nat /\ Len(inbox') \in Nat
         /\ Len(inbox') <= Len(inbox)
         /\ Receives => Len(inbox') < Len(inbox)
<1>1. inbox \in Seq({"text", "pr"}) /\ Len(inbox) \in Nat
  BY LenProperties DEF RunInv, DriverInv, TypeOK
<1>2. CASE Receives
  <2>1. inbox # << >> /\ inbox' = Tail(inbox)
    BY <1>2 DEF Receives
  <2>2. Len(inbox') = Len(inbox) - 1 /\ Len(inbox) >= 1
    BY <1>1, <2>1, HeadTailProperties, EmptySeq, LenProperties
  <2>3. QED
    BY <1>1, <2>2
<1>3. CASE ~Receives
  <2>1. inbox' = inbox
    BY <1>3
    DEF Next, Run, Stop, Turn, Starts, Connects, Queried, Breaks, ReceiveEnds,
        ReceiveRaises, WatchdogAwaited, Closes, Usr1, SetInterrupt, WatchdogWakes,
        WatchdogEmits, Says, AsksTool, ToolEnds, SecondPasses, Stops, TurnEnds, sdk, vars
  <2>2. QED
    BY <1>1, <1>3, <2>1
<1>4. QED
  BY <1>2, <1>3

\* Each of its own steps is one of those it had before it.
LEMMA OwnStepCounts ==
  ASSUME RunInv, TurnFollows, turn = "over", Run \/ SetInterrupt \/ WatchdogWakes \/ WatchdogEmits
  PROVE  \/ Receives \/ MainLeft' < MainLeft \/ InterruptLeft' < InterruptLeft
         \/ WatchdogLeft' < WatchdogLeft
<1>1. main \notin {"booting", "connecting", "querying"}
  BY DEF TurnFollows
<1>2. CASE Run
  BY <1>1, <1>2
  DEF Run, Starts, Connects, Queried, Breaks, ReceiveEnds, ReceiveRaises,
      WatchdogAwaited, Closes, Finally, Ends, MainLeft
<1>3. CASE SetInterrupt \/ WatchdogWakes \/ WatchdogEmits
  BY <1>3 DEF SetInterrupt, WatchdogWakes, WatchdogEmits, InterruptLeft, WatchdogLeft
<1>4. QED
  BY <1>2, <1>3

LEMMA LeftAreNumbers ==
  ASSUME TypeOK
  PROVE  MainLeft \in Nat /\ InterruptLeft \in Nat /\ WatchdogLeft \in Nat
  BY DEF TypeOK, MainLeft, InterruptLeft, WatchdogLeft

\* When the turn is over the driver runs down to its end, in as many steps as
\* DriverLeft counts, whatever signals and timers come in between.
THEOREM TurnOverRunsDownAlways == Spec => TurnOverRunsDown
<1>1. ASSUME RunInv, RunInv', TurnFollows, [Next]_vars, turn = "over"
      PROVE  /\ turn' = "over"
             /\ DriverLeft' <= DriverLeft
             /\ Run \/ SetInterrupt \/ WatchdogWakes \/ WatchdogEmits
                  => DriverLeft' < DriverLeft
  <2>1. MainLeft \in Nat /\ InterruptLeft \in Nat /\ WatchdogLeft \in Nat
    BY <1>1, LeftAreNumbers DEF RunInv, DriverInv
  <2>2. MainLeft' \in Nat /\ InterruptLeft' \in Nat /\ WatchdogLeft' \in Nat
    BY <1>1 DEF RunInv, DriverInv, TypeOK, MainLeft, InterruptLeft, WatchdogLeft
  <2>3. /\ turn' = "over"
        /\ MainLeft' <= MainLeft /\ InterruptLeft' <= InterruptLeft
        /\ WatchdogLeft' <= WatchdogLeft
    BY <1>1, NothingComesBack
  <2>4. /\ Len(inbox) \in Nat /\ Len(inbox') \in Nat
        /\ Len(inbox') <= Len(inbox)
        /\ Receives => Len(inbox') < Len(inbox)
    BY <1>1, InboxEmpties
  <2>5. DriverLeft' <= DriverLeft
    BY <2>1, <2>2, <2>3, <2>4, FourFall, Zenon DEF DriverLeft
  <2>6. ASSUME Run \/ SetInterrupt \/ WatchdogWakes \/ WatchdogEmits
        PROVE  DriverLeft' < DriverLeft
    <3>1. \/ MainLeft' < MainLeft \/ InterruptLeft' < InterruptLeft
          \/ WatchdogLeft' < WatchdogLeft \/ Len(inbox') < Len(inbox)
      BY <1>1, <2>4, <2>6, OwnStepCounts
    <3>2. QED
      BY <2>1, <2>2, <2>3, <2>4, <3>1, FourFall, Zenon DEF DriverLeft
  <2>7. QED
    BY <2>3, <2>5, <2>6
<1>2. QED
  BY <1>1, InitRunInv, NextRunInv, InitTurnFollows, NextTurnFollows, PTL
  DEF Spec, TurnOverRunsDown

\* And it never waits for the SDK: at each of its awaits after the turn there is
\* a step that only needs the event loop or a timer.
THEOREM TurnOverMovesAlways == Spec => []TurnOverMoves
<1>1. RunInv /\ TurnFollows => TurnOverMoves
  BY DEF RunInv, DriverInv, TypeOK, Course, TurnFollows, TurnOverMoves
<1>2. QED
  BY <1>1, InitRunInv, NextRunInv, InitTurnFollows, NextTurnFollows, PTL DEF Spec
=============================================================================
