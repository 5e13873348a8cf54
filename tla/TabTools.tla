------------------------------ MODULE TabTools ------------------------------
(***************************************************************************)
(* The tools that list and close tabs and those that check what they are   *)
(* asked before the extension is (internal/tools), with the snapshot they  *)
(* work on (buildSnapshot in extension/src/snapshot.ts).  A tab that Chrome *)
(* has is a record [id, window, index, group, incognito, ignored, accessed, *)
(* created]; group is -1 for none, and a time is Null when Chrome or the   *)
(* activity log does not know it.                                          *)
(***************************************************************************)
EXTENDS Selections, FiniteSets, TLC

CONSTANTS
  Null,      (* nil: no time, no filter                        *)
  Second,    (* milliseconds in a second                       *)
  MaxChars   (* the characters of a page one may ask for, at most *)

ASSUME ToolsAssumption == {Second, MaxChars} \subseteq Nat \ {0} /\ Null \notin Int

Ok(value)    == [code |-> "OK", value |-> value]
Failed(code) == [code |-> code]

Elements(s) == {s[i] : i \in DOMAIN s}
Ids(tabs)   == [i \in DOMAIN tabs |-> tabs[i].id]

-----------------------------------------------------------------------------
(* buildSnapshot.                                                          *)

Shown(tab) == ~tab.incognito /\ ~tab.ignored

SnapshotTabs(tabs) == Chosen(tabs, Shown)

\* The groups with a tab to show, and the tabs of theirs that may be shown.
SnapshotGroups(tabs, groups) ==
  LET Members(g) == Chosen(SnapshotTabs(tabs), LAMBDA tab : tab.group = g.id)
      Listed     == Chosen(groups, LAMBDA g : Members(g) # <<>>)
  IN [i \in DOMAIN Listed |-> [id |-> Listed[i].id, window |-> Listed[i].window, tabs |-> Ids(Members(Listed[i]))]]

-----------------------------------------------------------------------------
(* ListTabs and ListGroups.                                                *)

InactiveSeconds(tab, now) ==
  IF now < tab.accessed THEN 0 ELSE (now - tab.accessed) \div Second

Matches(tab, input, now) ==
  /\ input.window = Null \/ tab.window = input.window
  /\ input.group = Null \/ tab.group = input.group
  /\ ~input.ungrouped \/ tab.group < 0
  /\ input.inactive = Null \/ (tab.accessed # Null /\ InactiveSeconds(tab, now) >= input.inactive)

SortFields == {"position", "last_accessed", "inactive_duration", "created_at"}
SortOrders == {"asc", "desc"}

SortValue(tab, field) == IF field = "created_at" THEN tab.created ELSE tab.accessed

\* Left of the other in the order of the windows.
LeftOf(a, b) == a.window < b.window \/ (a.window = b.window /\ a.index < b.index)

\* Inactive the longer, the smaller the time of the last access.
Ordered(a, b, field, order) ==
  IF (order = "desc") # (field = "inactive_duration") THEN a > b ELSE a < b

\* sortTabs's less: what has no value comes last, and identifiers break a tie.
Before(a, b, field, order) ==
  LET left  == SortValue(a, field)
      right == SortValue(b, field)
  IN IF field = "position"
     THEN IF order = "desc" THEN LeftOf(b, a) ELSE LeftOf(a, b)
     ELSE \/ left = right /\ a.id < b.id
          \/ left # Null /\ right = Null
          \/ left # right /\ Null \notin {left, right} /\ Ordered(left, right, field, order)

\* How many tabs sort.SliceStable puts before the i-th.
Rank(tabs, i, field, order) ==
  Cardinality({j \in DOMAIN tabs : \/ Before(tabs[j], tabs[i], field, order)
                                   \/ j < i /\ ~Before(tabs[i], tabs[j], field, order)})

Sorted(tabs, field, order) ==
  [k \in DOMAIN tabs |-> tabs[CHOOSE i \in DOMAIN tabs : Rank(tabs, i, field, order) = k - 1]]

ListTabs(tabs, input, now) ==
  LET found == Chosen(SnapshotTabs(tabs), LAMBDA tab : Matches(tab, input, now))
      wrong == \/ input.ungrouped /\ input.group # Null
               \/ input.inactive # Null /\ input.inactive < 0
               \/ input.sort # "" /\ (input.sort \notin SortFields \/ input.order \notin SortOrders \cup {""})
  IN IF wrong THEN Failed("INVALID_ARGUMENT")
     ELSE IF input.sort = "" THEN Ok(found)
     ELSE Ok(Sorted(found, input.sort, input.order))

ListGroups(tabs, groups, input) ==
  Ok(Chosen(SnapshotGroups(tabs, groups), LAMBDA g : input.window = Null \/ g.window = input.window))

-----------------------------------------------------------------------------
(* CloseTabs.                                                              *)

Distinct(ids) == \A i, j \in DOMAIN ids : ids[i] = ids[j] => i = j
Positive(ids) == \A i \in DOMAIN ids : ids[i] > 0

\* The identifiers of the tabs in the snapshot; here, tabs is the set of Chrome's.
Visible(tabs) == {tab.id : tab \in {t \in tabs : Shown(t)}}

\* Variant: something of what was approved is still there.
SomeAvailable(ids, tabs) == Elements(ids) \cap Visible(tabs) # {}

\* All that was approved is still there, and may be seen.
Available(ids, tabs) == Elements(ids) \subseteq Visible(tabs)

\* What CloseTabs does before it asks the extension.
CheckClose(input, tabs) ==
  IF ~input.confirmed THEN "CONFIRMATION_REQUIRED"
  ELSE IF input.ids = <<>> \/ ~Positive(input.ids) \/ ~Distinct(input.ids) THEN "INVALID_ARGUMENT"
  ELSE IF ~Available(input.ids, tabs) THEN "TAB_NOT_FOUND"
  ELSE "OK"

\* chrome.tabs.remove closes one tab after the other, up to the first that is
\* not there; then the promise is rejected.
Removed(ids, open) ==
  {ids[i] : i \in {j \in DOMAIN ids : \A k \in DOMAIN ids : k <= j => ids[k] \in open}}

\* Variant of the extension's closeTabs: the rejection is swallowed.
CloseAnswerIgnored(ids, open) == "OK"

CloseAnswer(ids, open) == IF Elements(ids) \subseteq open THEN "OK" ELSE "TAB_CLOSE_FAILED"

-----------------------------------------------------------------------------
(* What GetContent, CompareContent and DiffContent check.                  *)

Limited(n) == n = 0 \/ n \in 1..MaxChars

CheckContent(input) ==
  IF input.id <= 0 \/ ~Limited(input.max) THEN "INVALID_ARGUMENT" ELSE "OK"

CheckPair(ids) == Len(ids) = 2 /\ Positive(ids) /\ Distinct(ids)

CheckComparison(input) == IF CheckPair(input.ids) THEN "OK" ELSE "INVALID_ARGUMENT"

CheckDiff(input) ==
  IF CheckPair(input.ids) /\ Limited(input.max) /\ Limited(input.maxDiff) THEN "OK" ELSE "INVALID_ARGUMENT"
=============================================================================
