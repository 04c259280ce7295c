------------------------------ MODULE DenyList ------------------------------
(***************************************************************************)
(* The deny list of the agent's shell commands (deny_reason_for and        *)
(* _segment_deny_reason of agent/sdk_worker.py).                           *)
(*                                                                         *)
(* A command line is the sequence of what the code can tell apart in it:   *)
(* the separators ; && || | that it cuts at, in quotes or not, and between *)
(* them the words of shlex.split.  A newline is a blank like any other, a  *)
(* single & is a word, and so are an option of git and its value.          *)
(***************************************************************************)
EXTENDS Naturals, Sequences

Tokens == [kind    : {"cut", "tear", "word", "long", "assigned", "short", "path"},
           name    : STRING,
           letters : SUBSET STRING,
           path    : Seq(STRING)]

Token(kind, name) == [kind |-> kind, name |-> name, letters |-> {}, path |-> << >>]

Cut == Token("cut", "")

\* A quotation mark whose partner is missing, or stands beyond a separator.
Tear == Token("tear", "")

\* A flag is a long one, with or without "=<value>", or a bundle of letters.
Word(name)     == Token("word", name)
Long(name)     == Token("long", name)
LongEq(name)   == Token("assigned", name)
Short(letters) == [Token("short", "") EXCEPT !.letters = letters]

\* A word that starts with "/", as the texts between its slashes: neither ".."
\* nor an empty text is resolved.
Path(texts) == [Token("path", "") EXCEPT !.path = texts]

Tears(line) == {t \in DOMAIN line : line[t] = Tear}

\* Bound on the lines: one quoted text with separators in it, closed or not.
OneQuotedText(line) ==
  /\ \A t, u, v \in Tears(line) : ~(t < u /\ u < v)
  /\ \A t, u \in Tears(line) : t < u => \E c \in t .. u : line[c] = Cut

-----------------------------------------------------------------------------
\* The segment of position i, as a set of positions: no separator is between.
Segment(line, i) ==
  {k \in DOMAIN line : \A c \in (i .. k) \cup (k .. i) : line[c] # Cut}

Segments(line) == {Segment(line, i) : i \in {k \in DOMAIN line : line[k] # Cut}}

\* shlex.split raises a ValueError.
Unparseable(line, seg) == \E k \in seg : line[k] = Tear

Rest(line, seg, head) == {line[k] : k \in {j \in seg : j > head}}

ShortFlagContains(token, letter) == token.kind = "short" /\ letter \in token.letters

\* The loop over the flags of git push leaves at the first one that forces
\* and steps over --force-with-lease.
PushForces(flag) ==
  /\ flag \notin {Long("force-with-lease"), LongEq("force-with-lease")}
  /\ flag \in {Long("force"), LongEq("force")} \/ ShortFlagContains(flag, "f")

Forces(flag) == flag = Long("force") \/ ShortFlagContains(flag, "f")

Recursive(flag) ==
  \/ flag = Long("recursive")
  \/ ShortFlagContains(flag, "r") \/ ShortFlagContains(flag, "R")

\* Absolute, and neither /tmp nor a text that begins with /tmp/ or
\* /var/folders/.
ProtectedPath(word) ==
  /\ word.kind = "path"
  /\ word.path # <<"tmp">>
  /\ ~(Len(word.path) > 1 /\ word.path[1] = "tmp")
  /\ ~(Len(word.path) > 2 /\ word.path[1] = "var" /\ word.path[2] = "folders")

\* The subcommand is the word after git, whatever it is.
GitDenied(sub, flags) ==
  \/ sub = Word("push")  /\ \E flag \in flags : PushForces(flag)
  \/ sub = Word("reset") /\ Long("hard") \in flags
  \/ sub = Word("clean") /\ \E flag \in flags : Forces(flag)

RmDenied(rest) ==
  /\ \E flag \in rest : Recursive(flag)
  /\ \E flag \in rest : Forces(flag)
  /\ \E word \in rest : ProtectedPath(word)

HeadDenied(line, seg, head) ==
  \/ line[head] = Word("sudo")
  \/ /\ line[head] = Word("git")
     /\ head + 1 \in seg
     /\ GitDenied(line[head + 1], Rest(line, seg, head + 1))
  \/ line[head] = Word("rm") /\ RmDenied(Rest(line, seg, head))

SegmentDenied(line, seg) ==
  \/ Unparseable(line, seg)
  \/ \E head \in seg : head - 1 \notin seg /\ HeadDenied(line, seg, head)

\* Mutant of Denied: only the segment that the line begins with.
DeniedAtHead(line) == \E seg \in Segments(line) : 1 \in seg /\ SegmentDenied(line, seg)

\* A line without words has no segment, and is allowed.
Denied(line) == \E seg \in Segments(line) : SegmentDenied(line, seg)

-----------------------------------------------------------------------------
(***************************************************************************)
(* The commands the docstring of deny_reason_for means, by the list of     *)
(* CONSTITUTION.md:189-192, in the line as a shell cuts it: a separator in *)
(* quotes is text, and so are the words there.                             *)
(***************************************************************************)
Quoted(line, k) ==
  \E t \in Tears(line) : t < k /\ \A u \in Tears(line) \ {t} : k < u

\* A command starts the line or follows a separator.
Begins(line, i) ==
  /\ line[i] # Cut /\ ~Quoted(line, i)
  /\ i = 1 \/ (line[i - 1] = Cut /\ ~Quoted(line, i - 1))

\* It goes on to the next separator, through any quoted text.
Arguments(line, i) ==
  {line[k] : k \in {j \in DOMAIN line :
      /\ i < j /\ ~Quoted(line, j)
      /\ \A c \in i .. j : line[c] = Cut => Quoted(line, c)}}

Letters(words) == UNION {word.letters : word \in {w \in words : w.kind = "short"}}

\* The flags in any order and any bundle.
ForcesAny(words)  == Long("force") \in words \/ "f" \in Letters(words)
RecursesAny(words) == Long("recursive") \in words \/ {"r", "R"} \cap Letters(words) # {}

BannedCommand(line, i) ==
  LET words    == Arguments(line, i)
      git(sub) == /\ line[i] = Word("git")
                  /\ i + 1 \in DOMAIN line /\ line[i + 1] = Word(sub)
  IN  \/ line[i] = Word("sudo")
      \/ git("push")  /\ (LongEq("force") \in words \/ ForcesAny(words))
      \/ git("reset") /\ Long("hard") \in words
      \/ git("clean") /\ ForcesAny(words)
      \/ /\ line[i] = Word("rm")
         /\ ForcesAny(words) /\ RecursesAny(words)
         /\ \E word \in words : ProtectedPath(word)

Banned(line) == \E i \in DOMAIN line : Begins(line, i) /\ BannedCommand(line, i)
=============================================================================
