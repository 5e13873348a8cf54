----------------------------- MODULE CommandLine -----------------------------
(***************************************************************************)
(* The command line of tabcli (internal/cli, cmd/tabcli): how a line of    *)
(* arguments is read, which tool it calls through the host, and the status *)
(* it exits with; with the tools that list and close tabs (TabTools) and   *)
(* install and uninstall (Installation) carried out, while the user closes *)
(* tabs, has them ignored or not, and the connection breaks.               *)
(*                                                                         *)
(* A token is a record: how many dashes it begins with, the word that      *)
(* follows, and the word behind a "=".                                     *)
(***************************************************************************)
EXTENDS TabTools, Installation

CONSTANTS
  Numbers,    (* the numerals without a sign, and what they stand for: 010   *)
              (* is ten                                                      *)
  Literals,   (* the numerals as Go writes them, and what they stand for:    *)
              (* 010 is eight, 0x10 and 1_6 are sixteen                      *)
  Durations,  (* the words like 7d: [amount, unit]                           *)
  MaxInt,     (* the largest value of an int64, counting nanoseconds         *)
  Units,      (* the nanoseconds in a second, a minute, an hour and a day    *)
  Now,        (* time.Now in milliseconds                                    *)
  MaxLost,    (* bound: calls whose connection breaks                        *)
  MaxChanges  (* bound: how often a tab comes to be ignored, or shown again  *)

ASSUME NumbersAssumption ==
  /\ \A w \in DOMAIN Numbers : Numbers[w] \in Nat
  /\ \A w \in DOMAIN Literals : Literals[w] \in Nat

ASSUME DurationsAssumption ==
  /\ MaxInt \in Nat /\ Now \in Nat
  /\ \A u \in {"s", "m", "h", "d"} : Units[u] \in Nat \ {0} /\ Units[u] % Units["s"] = 0
  /\ "" \notin DOMAIN Durations
  /\ \A w \in DOMAIN Durations : Durations[w].amount \in Nat \ {0} /\ Durations[w].unit \in {"m", "h", "d"}

Tokens == [dashes : 0..2, name : STRING, value : STRING]

Token(dashes, name, value) == [dashes |-> dashes, name |-> name, value |-> value]
Word(w)     == Token(0, w, "")
JsonToken   == Token(2, "json", "")
Terminator  == Token(2, "", "")
Dash        == Token(1, "", "")

\* A number, with or without a minus.
Numeral(numerals, t) ==
  IF t.value # "" \/ t.dashes > 1 \/ t.name \notin DOMAIN numerals THEN Null
  ELSE IF t.dashes = 0 THEN numerals[t.name] ELSE -numerals[t.name]

\* strconv.Atoi, and strconv.ParseInt with the base that the numeral names.
Atoi(t)     == Numeral(Numbers, t)
ParseInt(t) == Numeral(Literals, t)

\* strconv.ParseBool.
TrueWords  == {"1", "t", "T", "TRUE", "true", "True"}
FalseWords == {"0", "f", "F", "FALSE", "false", "False"}

ParseBool(word) == IF word \in TrueWords THEN TRUE ELSE IF word \in FalseWords THEN FALSE ELSE Null

-----------------------------------------------------------------------------
(* The flag package: flags up to the first token that is none, then what   *)
(* is left.  kinds says of each flag whether it is a bool, an int or a     *)
(* string; at is where the reading is.                                     *)

Flags(bools, ints, strings) ==
  [f \in bools \cup ints \cup strings |-> IF f \in bools THEN "bool" ELSE IF f \in ints THEN "int" ELSE "string"]

\* A token as a string; "-" stands for all that are not a single word.
Text(t) == IF t = Word(t.name) THEN t.name ELSE "-"

Assign(kinds, s, flag, t) ==
  LET value == CASE kinds[flag] = "int"    -> ParseInt(t)
                 [] kinds[flag] = "bool"   -> ParseBool(t.name)
                 [] kinds[flag] = "string" -> Text(t)
  IN IF value = Null THEN [s EXCEPT !.at = "error"]
     ELSE [s EXCEPT !.at = "flags", !.set = [f \in DOMAIN @ \cup {flag} |-> IF f = flag THEN value ELSE @[f]]]

ReadFlag(kinds, s, t) ==
  IF t.name \notin DOMAIN kinds THEN [s EXCEPT !.at = IF t.name \in {"help", "h"} THEN "help" ELSE "error"]
  ELSE IF t.value # "" THEN Assign(kinds, s, t.name, Word(t.value))
  ELSE IF kinds[t.name] = "bool" THEN Assign(kinds, s, t.name, Word("true"))
  ELSE [s EXCEPT !.at = "value", !.flag = t.name]

ReadToken(kinds, s, t) ==
  IF s.at \in {"error", "help"} THEN s
  ELSE IF s.at = "value" THEN Assign(kinds, s, s.flag, t)
  ELSE IF s.at = "rest" \/ t.dashes = 0 \/ t = Dash THEN [s EXCEPT !.at = "rest", !.rest = Append(@, t)]
  ELSE IF t = Terminator THEN [s EXCEPT !.at = "rest"]
  ELSE ReadFlag(kinds, s, t)

\* What has been set, what is left, and whether it is "ok".
ParseFlags(kinds, args) ==
  LET start == [at |-> "flags", flag |-> "", set |-> <<>>, rest |-> <<>>]
      state[i \in 0..Len(args)] == IF i = 0 THEN start ELSE ReadToken(kinds, state[i - 1], args[i])
      end   == state[Len(args)]
  IN [set |-> end.set, rest |-> end.rest,
      result |-> CASE end.at \in {"flags", "rest"}  -> "ok"
                   [] end.at \in {"value", "error"} -> "error"
                   [] end.at = "help"               -> "help"]

Setting(parsed, flag, default) == IF flag \in DOMAIN parsed.set THEN parsed.set[flag] ELSE default

-----------------------------------------------------------------------------
(* Exit statuses, and what a command comes to: it exits, or it calls.      *)

\* ExitCodeForError; what is not a tool's error exits with 1.
ExitCode(code) ==
  CASE code = "OK" -> 0
    [] code \in {"BROWSER_DISCONNECTED", "DISCOVERY_NOT_FOUND", "DISCOVERY_STALE", "UPSTREAM_UNAVAILABLE"} -> 3
    [] code \in {"INVALID_ARGUMENT", "INVALID_DURATION", "TAB_NOT_FOUND", "GROUP_NOT_FOUND",
                 "TAB_NOT_OPERABLE", "CONFIRMATION_REQUIRED"} -> 4
    [] code = "PLAN_INVALID" -> 5
    [] code = "PLAN_STALE" -> 6
    [] code = "CONTENT_PERMISSION_REQUIRED" -> 7
    [] code \in {"CONTENT_NOT_ACCESSIBLE", "CONTENT_EXTRACTION_FAILED"} -> 8
    [] code = "CONTENT_STALE" -> 9
    [] code = "PREVIEW_EXPIRED" -> 10
    [] code = "PREVIEW_NOT_FOUND" -> 11
    [] code = "APPLY_FAILED_ROLLED_BACK" -> 12
    [] code = "APPLY_PARTIAL" -> 13
    [] code = "UNDO_UNAVAILABLE" -> 14
    [] code = "PROTOCOL_VERSION_MISMATCH" -> 15
    [] code = "CROSS_WINDOW_GROUP" -> 16
    [] OTHER -> 1

Exit(status)      == [kind |-> "exit", status |-> status]
Reject(code)      == Exit(ExitCode(code))
Do(what)          == [kind |-> what]
Call(tool, input) == [kind |-> "call", tool |-> tool, input |-> input]

\* Parse's error ends a command; else it comes to what its arguments ask for.
AfterParse(parsed, json, outcome) ==
  CASE parsed.result = "ok"    -> outcome
    [] parsed.result = "help"  -> Exit(0)
    [] OTHER                   -> IF json THEN Reject("INVALID_ARGUMENT") ELSE Exit(2)

-----------------------------------------------------------------------------
(* The commands.                                                           *)

\* Variant: the product wraps at the width of an int64.
ParseDurationWrapped(word) ==
  LET d == Durations[word]
  IN IF word \notin DOMAIN Durations THEN Null
     ELSE ((d.amount * Units[d.unit] + MaxInt + 1) % (2 * (MaxInt + 1))) - (MaxInt + 1)

ParseDuration(word) ==
  LET d == Durations[word]
  IN IF word \notin DOMAIN Durations \/ d.amount > MaxInt \div Units[d.unit] THEN Null
     ELSE d.amount * Units[d.unit]

\* A window or a group of zero is none.
OrNone(n) == IF n = 0 THEN Null ELSE n

ListFlags == Flags({"json", "ungrouped", "include-activity"}, {"window", "group"}, {"inactive-for", "sort", "sort-order"})

ListTabsCommand(args, json) ==
  LET parsed   == ParseFlags(ListFlags, args)
      window   == Setting(parsed, "window", 0)
      group    == Setting(parsed, "group", 0)
      word     == Setting(parsed, "inactive-for", "")
      duration == ParseDuration(word)
      outcome  ==
        IF parsed.rest # <<>> \/ window < 0 \/ group < 0 THEN Reject("INVALID_ARGUMENT")
        ELSE IF word # "" /\ duration = Null THEN Reject("INVALID_DURATION")
        ELSE Call("list",
               [window |-> OrNone(window), group |-> OrNone(group),
                ungrouped |-> Setting(parsed, "ungrouped", FALSE),
                inactive |-> IF word = "" THEN Null ELSE duration \div Units["s"],
                sort |-> Setting(parsed, "sort", ""), order |-> Setting(parsed, "sort-order", "asc")])
  IN AfterParse(parsed, json, outcome)

ListGroupsCommand(args, json) ==
  LET parsed  == ParseFlags(Flags({"json"}, {"window"}, {}), args)
      window  == Setting(parsed, "window", 0)
      outcome == IF parsed.rest # <<>> \/ window < 0 THEN Reject("INVALID_ARGUMENT")
                 ELSE Call("group list", [window |-> OrNone(window)])
  IN AfterParse(parsed, json, outcome)

NotConfirmed(parsed) == ~Setting(parsed, "confirm", FALSE)

Bad(ids) == \E i \in DOMAIN ids : ids[i] = Null \/ ids[i] <= 0

CloseCommand(args, json) ==
  LET parsed  == ParseFlags(Flags({"confirm", "json"}, {}, {}), args)
      ids     == [i \in DOMAIN parsed.rest |-> Atoi(parsed.rest[i])]
      outcome == IF NotConfirmed(parsed) THEN Reject("CONFIRMATION_REQUIRED")
                 ELSE IF ids = <<>> \/ Bad(ids) THEN Reject("INVALID_ARGUMENT")
                 ELSE Call("close", [ids |-> ids, confirmed |-> TRUE])
  IN AfterParse(parsed, json, outcome)

\* content takes its tab first or, when the flags come first or what comes first
\* is empty, last.  A limit of zero is the default one.
ContentCommand(args, json) ==
  LET first   == args # <<>> /\ args[1].dashes = 0
      parsed  == ParseFlags(Flags({"json"}, {"max-chars"}, {}), IF first THEN Tail(args) ELSE args)
      tabs    == IF first /\ args[1] # Word("") THEN <<args[1]>> \o parsed.rest ELSE parsed.rest
      id      == Atoi(tabs[1])
      outcome == IF Len(tabs) # 1 \/ Bad(<<id>>) THEN Reject("INVALID_ARGUMENT")
                 ELSE Call("content", [id |-> id, max |-> Setting(parsed, "max-chars", 0)])
  IN AfterParse(parsed, json, outcome)

\* Variant: a limit behind a "=" takes the next token all the same.
SeparateByName(t) == t.dashes = 2 /\ t.name \in {"max-chars", "max-diff-chars"}

\* splitComparisonArguments: the tokens, at which places, that go to the flags.
Separate(t) == t \in {Token(2, "max-chars", ""), Token(2, "max-diff-chars", "")}

FlagPlaces(args) ==
  LET value[i \in 1..Len(args)] == i > 1 /\ Separate(args[i - 1]) /\ ~value[i - 1]
  IN {i \in 1..Len(args) : value[i] \/ args[i].dashes > 0}

\* parseComparisonTabIDs: of the tokens that are no flags and those Parse has left.
ComparisonIds(args, parsed) ==
  LET tokens == ItemsAt(args, (1..Len(args)) \ FlagPlaces(args)) \o parsed.rest
  IN [i \in DOMAIN tokens |-> Atoi(tokens[i])]

IsComparison(ids) == Len(ids) = 2 /\ ~Bad(ids) /\ Distinct(ids)

CompareCommand(args, json) ==
  LET parsed  == ParseFlags(Flags({"json"}, {}, {}), ItemsAt(args, FlagPlaces(args)))
      ids     == ComparisonIds(args, parsed)
      outcome == IF IsComparison(ids) THEN Call("compare", [ids |-> ids]) ELSE Reject("INVALID_ARGUMENT")
  IN AfterParse(parsed, json, outcome)

DiffCommand(args, json) ==
  LET limits  == {"max-chars", "max-diff-chars"}
      parsed  == ParseFlags(Flags({"json"}, limits, {}), ItemsAt(args, FlagPlaces(args)))
      ids     == ComparisonIds(args, parsed)
      outcome == IF ~IsComparison(ids) THEN Reject("INVALID_ARGUMENT")
                 ELSE Call("diff", [ids |-> ids, max |-> Setting(parsed, "max-chars", 0),
                                    maxDiff |-> Setting(parsed, "max-diff-chars", 0)])
  IN AfterParse(parsed, json, outcome)

\* group preview, group apply and group undo; flag is what must be given.
GroupCommand(tool, flag, args, json) ==
  LET parsed  == ParseFlags(Flags({"json"}, {}, {flag} \ {""}), args)
      missing == flag # "" /\ Setting(parsed, flag, "") = ""
      outcome == IF parsed.rest # <<>> \/ missing THEN Reject("INVALID_ARGUMENT")
                 ELSE Call(tool, Setting(parsed, flag, ""))
  IN AfterParse(parsed, json, outcome)

\* --json may stand anywhere.
ParseGlobalJSON(line) == Chosen(line, LAMBDA t : t # JsonToken)

\* What one does not know ends in the same way as a line that is empty.
Unknown(json) == IF json THEN Reject("INVALID_ARGUMENT") ELSE Exit(2)

Alone(what, rest) == IF rest = <<>> THEN Do(what) ELSE Reject("INVALID_ARGUMENT")

GroupCommands(rest, json) ==
  LET args == Tail(rest)
  IN IF rest = <<>> THEN Unknown(json) ELSE
     CASE rest[1] = Word("list")    -> ListGroupsCommand(args, json)
       [] rest[1] = Word("preview") -> GroupCommand("group preview", "plan", args, json)
       [] rest[1] = Word("apply")   -> GroupCommand("group apply", "preview-id", args, json)
       [] rest[1] = Word("undo")    -> GroupCommand("group undo", "", args, json)
       [] OTHER -> Unknown(json)

\* Command.Run.
RunCommand(args, json) ==
  LET rest == Tail(args)
  IN IF args = <<>> THEN Unknown(json) ELSE
     CASE args[1] \in {Word("help"), Token(2, "help", ""), Token(1, "h", "")} -> Exit(0)
       [] args[1] \in {Word("version"), Token(2, "version", "")} -> Alone("report", rest)
       [] args[1] = Word("doctor")    -> Alone("report", rest)
       [] args[1] = Word("status")    -> Alone("status", rest)
       [] args[1] = Word("install")   -> Alone("install", rest)
       [] args[1] = Word("uninstall") -> Alone("uninstall", rest)
       [] args[1] = Word("list")      -> ListTabsCommand(rest, json)
       [] args[1] = Word("content")   -> ContentCommand(rest, json)
       [] args[1] = Word("compare")   -> CompareCommand(rest, json)
       [] args[1] = Word("diff")      -> DiffCommand(rest, json)
       [] args[1] = Word("close")     -> CloseCommand(rest, json)
       [] args[1] = Word("group")     -> GroupCommands(rest, json)
       [] OTHER -> Unknown(json)

\* main; mcp serve is the stdio proxy, which runs until its input ends.
Run(line) ==
  IF line = <<Word("mcp"), Word("serve")>> THEN Exit(0)
  ELSE RunCommand(ParseGlobalJSON(line), \E i \in DOMAIN line : line[i] = JsonToken)

-----------------------------------------------------------------------------
(* A terminal in which one line is typed after the other.                  *)

VARIABLES
  session,   (* the lines to type, and what Chrome and the disk hold at first *)
  open,      (* the tabs that are open                                        *)
  ignored,   (* those whose address is one that the user has ignored          *)
  command,   (* the last line: where it is and what has become of it          *)
  removals,  (* the requests to close tabs the extension has not handled      *)
  closed,    (* the tabs it has closed, and for which line                    *)
  seen,      (* for each line, the tabs that a snapshot would have shown at   *)
             (* some moment between its typing and its request                *)
  lost, changes  (* how much of each bound is used up                         *)

chrome == <<open, ignored, removals, closed, seen>>
vars   == <<session, command, chrome, lost, changes, installation>>

Line(n)  == session.script[n]

\* The tabs as they are now.
Present(tab) == [tab EXCEPT !.ignored = tab.id \in ignored]
OpenTabs     == {Present(tab) : tab \in {t \in Elements(session.tabs) : t.id \in open}}
Tabs         == LET found == Chosen(session.tabs, LAMBDA tab : tab.id \in open)
                IN [i \in DOMAIN found |-> Present(found[i])]

NewCommand(n, phase, outcome, status) ==
  [number |-> n, phase |-> phase, outcome |-> outcome, status |-> status, code |-> "",
   listed |-> <<>>]

\* cli.Command.Run up to the call it makes, or to its end.
TypeLine ==
  LET n == command.number + 1
      Becomes(phase, outcome, status) == command' = NewCommand(n, phase, outcome, status)
  IN /\ command.phase \in {"none", "exited"}
     /\ n <= Len(session.script)
     /\ \E outcome \in {Run(Line(n))} :
          \/ outcome.kind = "exit"   /\ Becomes("exited", outcome, outcome.status) /\ UNCHANGED installation
          \/ outcome.kind = "report" /\ Becomes("exited", outcome, 0) /\ UNCHANGED installation
          \/ outcome.kind \in {"call", "status"} /\ Becomes("calling", outcome, 0) /\ UNCHANGED installation
          \/ outcome.kind = "install"   /\ Becomes("running", outcome, 0) /\ BeginInstall
          \/ outcome.kind = "uninstall" /\ Becomes("running", outcome, 0) /\ BeginUninstall
     /\ seen' = Append(seen, Visible(OpenTabs))
     /\ UNCHANGED <<session, open, ignored, removals, closed, lost, changes>>

Answer(code)        == command' = [command EXCEPT !.phase = "answered", !.code = code]
AnswerList(result)  ==
  command' = [command EXCEPT !.phase = "answered", !.code = result.code,
                             !.listed = IF result.code = "OK" THEN result.value ELSE <<>>]
Asked(tool)         == command.phase = "calling" /\ command.outcome.kind = "call" /\ command.outcome.tool = tool

\* The host runs the tool; the snapshot shows the tabs that are open now.
Lists ==
  /\ \/ Asked("list") /\ AnswerList(ListTabs(Tabs, command.outcome.input, Now))
     \/ Asked("group list") /\ AnswerList(ListGroups(Tabs, session.groups, command.outcome.input))
  /\ UNCHANGED chrome

Closes ==
  LET input == command.outcome.input
      code  == CheckClose(input, OpenTabs)
  IN /\ Asked("close")
     /\ IF code = "OK"
        THEN /\ command' = [command EXCEPT !.phase = "closing"]
             /\ removals' = removals \cup {[of |-> command.number, ids |-> input.ids]}
        ELSE Answer(code) /\ UNCHANGED removals
     /\ UNCHANGED <<open, ignored, closed, seen>>

\* What content tools refuse, before the extension answers as PageContent says.
Check(outcome) ==
  CASE outcome.tool = "content" -> CheckContent(outcome.input)
    [] outcome.tool = "compare" -> CheckComparison(outcome.input)
    [] outcome.tool = "diff"    -> CheckDiff(outcome.input)

ContentCodes == {"OK", "TAB_NOT_FOUND", "CONTENT_PERMISSION_REQUIRED", "CONTENT_NOT_ACCESSIBLE",
                 "CONTENT_EXTRACTION_FAILED", "CONTENT_STALE"}

Reads ==
  /\ Asked("content") \/ Asked("compare") \/ Asked("diff")
  /\ IF Check(command.outcome) = "OK" THEN \E code \in ContentCodes : Answer(code) ELSE Answer(Check(command.outcome))
  /\ UNCHANGED chrome

\* The tools of plans answer as PlanApply says; a plan that cannot be read is no
\* tool's error.  status reads the discovery file.
PlanCodes == {"OK", "UNREADABLE", "PLAN_INVALID", "PLAN_STALE", "PREVIEW_EXPIRED", "PREVIEW_NOT_FOUND",
              "APPLY_FAILED_ROLLED_BACK", "APPLY_PARTIAL", "UNDO_UNAVAILABLE", "CROSS_WINDOW_GROUP"}

Plans ==
  /\ Asked("group preview") \/ Asked("group apply") \/ Asked("group undo")
  /\ \E code \in PlanCodes : Answer(code)
  /\ UNCHANGED chrome

Status ==
  /\ command.phase = "calling" /\ command.outcome.kind = "status"
  /\ Answer("OK")
  /\ UNCHANGED chrome

\* Client.Call fails, if there is no host or it is not to be reached any more; a
\* request the host has sent may be on its way, or never arrive.
Disconnect ==
  /\ command.phase \in {"calling", "closing"}
  /\ lost < MaxLost
  /\ lost' = lost + 1
  /\ Answer("BROWSER_DISCONNECTED")
  /\ removals' \in {removals, {r \in removals : r.of # command.number}}
  /\ UNCHANGED <<session, open, ignored, closed, seen, changes, installation>>

\* The extension closes tabs, and answers whoever still waits.
RemoveTabs ==
  \E r \in removals :
    /\ removals' = removals \ {r}
    /\ open' = open \ Removed(r.ids, open)
    /\ closed' = closed \cup {[of |-> r.of, id |-> i] : i \in Removed(r.ids, open)}
    /\ IF command.number = r.of /\ command.phase = "closing" THEN Answer(CloseAnswer(r.ids, open)) ELSE UNCHANGED command
    /\ UNCHANGED <<ignored, seen>>

\* writeJSON, or writeError: the status tells what has become of it.
Finish ==
  /\ \/ command.phase = "answered" /\ command' = [command EXCEPT !.phase = "exited", !.status = ExitCode(command.code)]
     \/ /\ command.phase = "running" /\ ~Running
        /\ command' = [command EXCEPT !.phase = "exited", !.status = IF process.result = "ok" THEN 0 ELSE 1]
  /\ UNCHANGED chrome

UserCloses ==
  \E id \in open :
    /\ open' = open \ {id}
    /\ UNCHANGED <<session, command, ignored, removals, closed, seen, lost, changes, installation>>

\* A tab goes to an address that is ignored or leaves it, or the list of those
\* addresses is edited.
UserIgnores ==
  \E id \in open :
    /\ changes < MaxChanges
    /\ changes' = changes + 1
    /\ ignored' = IF id \in ignored THEN ignored \ {id} ELSE ignored \cup {id}
    /\ UNCHANGED <<session, command, open, removals, closed, lost, installation>>
    /\ seen' = IF command.phase = "calling" THEN [seen EXCEPT ![command.number] = @ \cup Visible(OpenTabs)'] ELSE seen

Installs == InstallationStep /\ UNCHANGED <<session, command, chrome, lost, changes>>

\* All lines have been typed and all requests handled.
Done ==
  /\ command.phase = "exited" /\ command.number = Len(session.script)
  /\ removals = {} /\ UNCHANGED vars

ChromeTabs == [id : Nat, window : Int, index : Int, group : Int, accessed : Nat \cup {Null}, created : Nat \cup {Null},
               incognito : BOOLEAN, ignored : BOOLEAN]

\* What a session may begin with: no two tabs have the same identifier.
Proper(s) ==
  /\ s.tabs \in Seq(ChromeTabs)
  /\ s.script \in Seq(Seq(Tokens))
  /\ \A i, j \in DOMAIN s.tabs : s.tabs[i].id = s.tabs[j].id => i = j
  /\ s.windows \in BOOLEAN /\ Intact(s.windows, s.files)

Init(Sessions) ==
  /\ session \in Sessions
  /\ open = Elements(Ids(session.tabs))
  /\ ignored = {tab.id : tab \in {t \in Elements(session.tabs) : t.ignored}}
  /\ command = NewCommand(0, "none", Exit(0), 0)
  /\ removals = {} /\ closed = {} /\ seen = <<>> /\ lost = 0 /\ changes = 0
  /\ InstallationInit(session.windows, session.files)

Next ==
  \/ TypeLine \/ Disconnect \/ UserCloses \/ UserIgnores \/ Installs \/ Done
  \/ (Lists \/ Closes \/ Reads \/ Plans \/ Status \/ RemoveTabs \/ Finish) /\ UNCHANGED <<session, lost, changes, installation>>

-----------------------------------------------------------------------------
(* Properties.                                                             *)

Asks(tool)    == command.outcome.kind = "call" /\ command.outcome.tool = tool
Exited(codes) == command.phase = "exited" /\ command.status \in codes
ClosedFor(n)  == {c.id : c \in {r \in closed : r.of = n}}

\* The line names the tab, behind --confirm.
Approved(line, id) ==
  \E i, j \in DOMAIN line :
    /\ i < j /\ Atoi(line[j]) = id
    /\ line[i].dashes > 0 /\ line[i].name = "confirm" /\ line[i].value \in {""} \cup TrueWords

\* FR-010, FR-011: a tab is closed only when the line that closed it names it
\* behind --confirm, and when a snapshot would have shown it at some moment between
\* the typing of that line and its request, whatever lines follow and however late
\* the extension handles the request; and a line that names a tab which all that
\* time was gone, incognito or ignored closes no tab at all.
ClosesOnlyApproved ==
  /\ \A c \in closed : c.id \in seen[c.of] /\ Approved(Line(c.of), c.id)
  /\ Asks("close") /\ ~(Elements(command.outcome.input.ids) \subseteq seen[command.number]) =>
       ClosedFor(command.number) = {} /\ \A r \in removals : r.of # command.number

\* ExitCodeForError: a script can rely on the status.  A usage or argument error
\* (2 or 4) says that nothing has been closed, and that nothing will be; zero says
\* that it is done: the tabs are gone, the host can be started.
StatusIsTrue ==
  /\ Exited({2, 4}) => ClosedFor(command.number) = {} /\ \A r \in removals : r.of # command.number
  /\ Exited({0}) =>
       /\ Asks("close") => Elements(command.outcome.input.ids) \cap open = {}
       /\ command.outcome.kind = "install" => Usable \/ Disturbed

\* The arguments as one reads them: a limit's value is the token behind it,
\* wherever it stands, and all that is no flag is a tab.
WrittenValues(args) ==
  LET value[i \in 1..Len(args)] ==
        /\ i > 1 /\ ~value[i - 1]
        /\ args[i - 1].dashes > 0 /\ args[i - 1].value = "" /\ args[i - 1].name \in {"max-chars", "max-diff-chars"}
  IN {i \in 1..Len(args) : value[i]}

WrittenTabs(args) ==
  LET tabs == ItemsAt(args, {i \in 1..Len(args) : args[i].dashes = 0} \ WrittenValues(args))
  IN [i \in DOMAIN tabs |-> Atoi(tabs[i])]

\* The tokens, or words behind a "=", that a limit has been given.
WrittenLimits(args, flag) ==
  {args[i] : i \in {k \in WrittenValues(args) : args[k - 1].name = flag}}
    \cup {Word(args[i].value) : i \in {k \in 1..Len(args) \ WrittenValues(args) :
                                            args[k].dashes > 0 /\ args[k].name = flag /\ args[k].value # ""}}

\* A numeral is decimal, if it can be.
AsOneReads(t) == IF Atoi(t) # Null THEN Atoi(t) ELSE ParseInt(t)

Says(args, flag, limit) ==
  IF WrittenLimits(args, flag) = {} THEN limit = 0 ELSE \E t \in WrittenLimits(args, flag) : AsOneReads(t) = limit

\* Three lines are not: a limit that begins with a zero is taken for octal; compare
\* and diff let a limit with one dash take a negative numeral for its value, if one
\* follows somewhere; and content drops an empty word.
Misread(tool, args) ==
  \/ \E t \in WrittenLimits(args, "max-chars") \cup WrittenLimits(args, "max-diff-chars") :
       Null \notin {Atoi(t), ParseInt(t)} /\ Atoi(t) # ParseInt(t)
  \/ tool # "content" /\ \E i, j \in DOMAIN args :
       /\ args[i].dashes = 1 /\ args[i].name \in {"max-chars", "max-diff-chars"} /\ args[i].value = ""
       /\ args[j].dashes = 1 /\ args[j].name \in DOMAIN Literals
  \/ tool = "content" /\ Word("") \in Elements(args)

\* content, compare and diff: what is asked of the extension is what the line
\* says, in whatever order flags and tabs stand in it; nothing is dropped.
ReadAsWritten ==
  \A tool \in {"content", "compare", "diff"} :
    command.phase = "calling" /\ Asks(tool) /\ Check(command.outcome) = "OK" =>
      LET args  == Tail(Chosen(Line(command.number), LAMBDA t : t # JsonToken))
          input == command.outcome.input
      IN ~Misread(tool, args) =>
           /\ WrittenTabs(args) = IF tool = "content" THEN <<input.id>> ELSE input.ids
           /\ tool # "compare" => Says(args, "max-chars", input.max)
           /\ tool = "diff" => Says(args, "max-diff-chars", input.maxDiff)

\* How long the tabs that are listed must have been left alone, as one reads the
\* line: the word behind the last --inactive-for.
WrittenDurations(args) ==
  {Durations[args[k + 1].name] : k \in {j \in 1..(Len(args) - 1) :
     /\ args[j].dashes > 0 /\ args[j].name = "inactive-for" /\ args[j].value = ""
     /\ args[j + 1] = Word(args[j + 1].name) /\ args[j + 1].name \in DOMAIN Durations
     /\ \A i \in (j + 1)..Len(args) : args[i].name # "inactive-for"}}

\* list --sort: by the column that is shown, what is unknown last; so the tabs
\* inactive the shortest come first, or with desc the longest.  list
\* --inactive-for: every tab listed has been left alone for as long as the line
\* says, however large a number it says.
ListedAsAsked ==
  Asks("list") =>
    /\ \A i, j \in DOMAIN command.listed :
         LET left  == command.listed[i]
             right == command.listed[j]
             input == command.outcome.input
             time(tab) == IF input.sort = "created_at" THEN tab.created
                          ELSE IF input.sort = "last_accessed" \/ tab.accessed = Null THEN tab.accessed
                          ELSE InactiveSeconds(tab, Now)
         IN i < j /\ input.sort \notin {"", "position"} =>
              \/ time(right) = Null
              \/ time(left) # Null /\ (IF input.order = "desc" THEN time(left) >= time(right) ELSE time(left) <= time(right))
    /\ \A i \in DOMAIN command.listed, d \in WrittenDurations(Tail(Chosen(Line(command.number), LAMBDA t : t # JsonToken))) :
         /\ command.listed[i].accessed # Null
         /\ (Now - command.listed[i].accessed) * Units["s"] >= d.amount * Units[d.unit] * Second
=============================================================================
