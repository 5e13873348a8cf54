---------------------------- MODULE MCCommandLine ----------------------------
(* CommandLine for TLC: every line of a few tokens is typed alone, and lines *)
(* that change something are typed one after the other.                      *)
EXTENDS CommandLine

MCNumbers   == "0" :> 0 @@ "1" :> 1 @@ "2" :> 2 @@ "3" :> 3 @@ "5" :> 5 @@ "010" :> 10
MCLiterals  == "0" :> 0 @@ "1" :> 1 @@ "2" :> 2 @@ "3" :> 3 @@ "5" :> 5 @@ "010" :> 8 @@ "0x5" :> 5
MCUnits     == [s |-> 1, m |-> 2, h |-> 4, d |-> 8]
MCDurations == "1m" :> [amount |-> 1, unit |-> "m"] @@ "1h" :> [amount |-> 1, unit |-> "h"]
               @@ "3d" :> [amount |-> 3, unit |-> "d"] @@ "5d" :> [amount |-> 5, unit |-> "d"]
               @@ "9d" :> [amount |-> 9, unit |-> "d"]
               @@ "11d" :> [amount |-> 11, unit |-> "d"]

\* What follows a command, up to n tokens of a set.
Lines(name, tokens, n) == {name \o rest : rest \in UNION {[1..k -> tokens] : k \in 0..n}}

Flag(name)  == Token(2, name, "")
Some        == {Word("1"), Word("2"), JsonToken}
Limits      == {Flag("max-chars"), Token(1, "max-chars", ""), Token(2, "max-chars", "5"), Token(1, "5", "")}
Based       == {Word("1"), Word("010"), Word("0x5"), Flag("max-chars"), Token(2, "max-diff-chars", "0x5"),
                Token(2, "max-chars", "010"), Token(1, "010", "")}

Comparisons == Lines(<<Word("diff")>>, Some \cup Limits \cup {Flag("max-diff-chars"), Terminator, Word("0")}, 4)
               \cup Lines(<<Word("compare")>>, Some \cup {Flag("help"), Terminator, Dash, Word("x")}, 3)
               \cup Lines(<<Word("content")>>, Some \cup Limits \cup {Word("0")}, 4)
               \cup Lines(<<Word("content")>>, {Word(""), Word("1")}, 2)
               \cup Lines(<<Word("diff")>>, Based \cup {Word("2"), Word("3")}, 4)
               \cup Lines(<<Word("content")>>, Based, 3)
Closings    == Lines(<<Word("close")>>, {Flag("confirm"), Token(1, "confirm", ""), Token(2, "confirm", "f"), Token(2, "confirm", "1"),
                     Word("1"), Word("2"), Word("3"), Word("x"), Token(1, "1", ""), Flag("help"), Terminator}, 3)
Timings     == {<<Word("list"), Flag("sort"), Word(field), Flag("sort-order"), Word(order)>> :
                  field \in SortFields \cup {"x"}, order \in SortOrders \cup {"x"}}
               \cup {<<Word("list"), Flag("inactive-for"), Word(d)>> : d \in DOMAIN MCDurations \cup {"0d"}}
Listings    == Lines(<<Word("list")>>, {Flag("window"), Flag("group"), Flag("ungrouped"), Word("1"), JsonToken}, 3)
               \cup Lines(<<Word("group"), Word("list")>>, {Flag("window"), Word("1"), Word("0x5"), Token(1, "1", "")}, 2)
Others      == Lines(<<Word("group")>>, {Word(w) : w \in {"preview", "apply", "undo", "x"}}
                     \cup {Flag("plan"), Token(2, "preview-id", "x")}, 3)
               \cup Lines(<<>>, {Word(w) : w \in {"mcp", "serve", "status", "doctor", "version", "help"}} \cup {JsonToken}, 2)

Tab(id, window, index, group, accessed, created) ==
  [id |-> id, window |-> window, index |-> index, group |-> group, accessed |-> accessed, created |-> created,
   incognito |-> FALSE, ignored |-> FALSE]

SomeTabs == <<Tab(1, 1, 1, 1, 10, Null), Tab(2, 1, 2, -1, 2, 3), [Tab(3, 2, 1, 1, 8, 3) EXCEPT !.ignored = TRUE]>>
\* Tabs whose times are known or not, are alike or not.
TimedTabs == {<<Tab(3, 2, 1, -1, a, Null), Tab(1, 1, 1, -1, b, c), Tab(2, 1, 2, -1, 4, c)>> :
                a, b \in {4, 11, 60, Null}, c \in {5, Null}}
NoFiles   == [manifest |-> "absent", registry |-> "absent", product |-> {}]

Session(script, tabs) ==
  [script |-> script, tabs |-> tabs, groups |-> <<[id |-> 1, window |-> 1]>>, windows |-> FALSE, files |-> NoFiles]

Approvals == {<<Word("close"), Flag("confirm"), Word("1"), Word("2")>>, <<Word("close"), Flag("confirm"), Word("2")>>,
              <<Word("close"), Flag("confirm"), Word("2"), Word("1")>>, <<Word("close"), Word("1"), Flag("confirm")>>}
Managing  == {<<Word("install")>>, <<Word("uninstall"), JsonToken>>, <<Word("install"), Word("1")>>}

MCSessions ==
  {Session(<<line>>, <<>>) : line \in Comparisons \cup Others}
  \cup {Session(<<line>>, SomeTabs) : line \in Closings \cup Listings \cup Timings}
  \cup {Session(<<line>>, tabs) : line \in Timings, tabs \in TimedTabs}
  \cup {Session(<<one, two>>, SomeTabs) : one, two \in Approvals}
  \cup {s \in {[Session(<<one, two>>, <<>>) EXCEPT !.windows = w, !.files = f] :
                  one, two \in Managing, w \in BOOLEAN, f \in Files} : Intact(s.windows, s.files)}

ASSUME SessionsAssumption == \A s \in MCSessions : Proper(s)

MCSpec == Init(MCSessions) /\ [][Next]_vars
=============================================================================
