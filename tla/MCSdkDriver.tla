---------------------------- MODULE MCSdkDriver ----------------------------
(***************************************************************************)
(* Command lines for TLC: every rule of the deny list, allowed and not,    *)
(* alone, behind a separator, and around or behind a quoted separator.     *)
(***************************************************************************)
EXTENDS SdkDriver

Echo  == Word("echo")
Git(sub, flags) == <<Word("git"), Word(sub)>> \o flags
Rm(words)       == <<Word("rm")>> \o words

Force == Long("force")
Lease == Long("force-with-lease")
Tmp   == Path(<<"tmp">>)
Below == Path(<<"tmp", "build">>)
Home  == Path(<<"home">>)

SimpleCommands == {
  <<Echo>>,
  <<Word("sudo"), Echo>>,
  <<Echo, Word("sudo")>>,
  Git("push", << >>),
  Git("push", <<Lease>>),
  Git("push", <<Lease, Word("main"), Force>>),
  Git("push", <<LongEq("force"), LongEq("force-with-lease")>>),
  Git("push", <<Short({"f", "u"})>>),
  Git("reset", <<Long("hard")>>),
  Git("reset", <<Long("soft")>>),
  Git("clean", <<Short({"d"}), Short({"f"})>>),
  Git("clean", <<Short({"d"})>>),
  Rm(<<Short({"r", "f"}), Home>>),
  Rm(<<Below, Home, Short({"f"}), Short({"R"})>>),
  Rm(<<Long("recursive"), Force, Tmp, Below, Word("build")>>),
  Rm(<<Long("recursive"), Home>>)}

\* An argument in quotes with a separator in it.
QuotedText == <<Tear, Word("a"), Cut, Word("sudo"), Tear>>

MCCommands ==
  UNION {{command, <<Echo, Cut>> \o command, command \o <<Cut, Echo>>} :
           command \in SimpleCommands}
    \cup UNION {{<<Echo>> \o QuotedText, command \o QuotedText,
                 <<Echo>> \o QuotedText \o <<Cut>> \o command, <<Echo, Tear>> \o command} :
           command \in {<<Echo>>, <<Word("sudo"), Echo>>, Git("push", <<Force>>)}}
    \cup {<< >>, <<Cut>>}
=============================================================================
