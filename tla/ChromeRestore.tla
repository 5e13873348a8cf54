---------------------------- MODULE ChromeRestore ----------------------------
(***************************************************************************)
(* One apply and the way back: the operations of a plan, then              *)
(* restoreChromeSnapshot (src/extension/src/chrome-operations.ts), which   *)
(* undo_restore and rollback both run, one Chrome call per step.  What the *)
(* restore read before its first change it does not read again, and in     *)
(* between the user may move tabs and Chrome removes the groups that lose  *)
(* their last tab to the restore itself.                                   *)
(*                                                                         *)
(* Data: that of PlanOperations, and of a group its look, that is, the     *)
(* group whose title and colour it shows.  Positions, windows and the      *)
(* pinned flag are left out; the calls that set them fail when the tab is  *)
(* closed, like the calls that group it.                                   *)
(***************************************************************************)
EXTENDS PlanOperations

CONSTANTS
  MaxEdits,  (* bound: tabs the user moves or closes                         *)
  MaxTries   (* bound: restores of the same snapshot                         *)

ASSUME BoundsAssumption == {MaxEdits, MaxTries} \subseteq Nat

\* A browser has no more than some number of tabs.
ASSUME FiniteTabs == IsFiniteSet(Tabs)

VARIABLES
  look,            (* the group whose title and colour each group shows      *)
  base,            (* the grouping Apply found                               *)
  todo,            (* the operations still to do                             *)
  createdGroups,   (* the groups the apply has made for the keys             *)
  undo,            (* captureUndoSnapshot's result                           *)
  phase,
  \* the locals of restoreChromeSnapshot
  currentTabs,     (* the grouping the restore read                          *)
  currentGroupIDs, (* the groups it read after that                          *)
  groupMapping,    (* the group that now stands for each group of undo       *)
  groupsLeft,      (* the groups its first loop has not come to              *)
  tabsLeft,        (* the tabs its second loop has not come to               *)
  unrestorable,    (* its list of that name is not empty                     *)
  \* history, for the properties
  touched,         (* tabs the user has moved and the restore did not see    *)
  tries,           (* restores begun                                         *)
  edits            (* bound counter                                          *)

chromeState == <<groupOf, usedGroups, look>>
plan        == <<base, todo, createdGroups, undo>>
readings    == <<currentTabs, currentGroupIDs>>
loops       == <<groupMapping, groupsLeft, tabsLeft, unrestorable>>
bounds      == <<touched, tries, edits>>
vars        == <<chromeState, plan, phase, readings, loops, bounds>>

Phases == {"applying", "applied", "failed", "reading_tabs", "reading_groups", "groups",
           "naming", "tabs", "arranging", "returned", "threw"}

TypeOK ==
  /\ groupOf \in [Tabs -> Places]
  /\ usedGroups \subseteq GroupIDs
  /\ look \in [GroupIDs -> GroupIDs \cup {None}]
  /\ base \in [Tabs -> Places]
  /\ todo \subseteq Operation
  /\ createdGroups \in [Keys -> GroupIDs \cup {None}]
  /\ undo.groups \subseteq GroupIDs /\ DOMAIN undo.tabs \subseteq Tabs
  /\ \A t \in DOMAIN undo.tabs : undo.tabs[t] \in undo.groups \cup {Ungrouped}
  /\ phase \in Phases
  /\ currentTabs \in [Tabs -> Places]
  /\ currentGroupIDs \subseteq GroupIDs
  /\ groupMapping \in [undo.groups -> GroupIDs \cup {None}]
  /\ groupsLeft \subseteq undo.groups
  /\ tabsLeft \subseteq DOMAIN undo.tabs
  /\ unrestorable \in BOOLEAN
  /\ touched \subseteq Tabs /\ tries \in 0..MaxTries /\ edits \in 0..MaxEdits

Groups(grouping) == {g \in GroupIDs : Exists(g, grouping)}

-----------------------------------------------------------------------------
(* The apply.                                                              *)

Resolved(o) == IF o.kind = "move_tab" /\ o.dest \in Keys
               THEN [o EXCEPT !.dest = createdGroups[o.dest]] ELSE o

CarryOut ==
  \E o \in todo :
    /\ phase = "applying"
    /\ IsNext(o, todo)
    /\ ApplyChromeOperation(Resolved(o))
    /\ todo' = todo \ {o}
    /\ createdGroups' = IF o.kind = "create_group"
                        THEN [createdGroups EXCEPT ![o.dest] = groupOf'[o.tab]] ELSE createdGroups
    /\ UNCHANGED <<look, base, undo, phase, readings, loops, bounds>>

\* Chrome refuses an operation whose tab or group is gone.
RefuseOperation ==
  \E o \in todo :
    /\ phase = "applying"
    /\ IsNext(o, todo)
    /\ ~CanApply(Resolved(o))
    /\ phase' = "failed"
    /\ UNCHANGED <<chromeState, plan, readings, loops, bounds>>

FinishApply ==
  /\ phase = "applying"
  /\ todo = {}
  /\ phase' = "applied"
  /\ UNCHANGED <<chromeState, plan, readings, loops, bounds>>

-----------------------------------------------------------------------------
(* restoreChromeSnapshot.                                                  *)

\* Rollback of a failed apply, Undo of a successful one, and Undo once more
\* after it threw: Apply's snapshot is still there.  Nothing repeats a rollback.
BeginRestore ==
  /\ phase \in {"applied", "failed", "threw"}
  /\ phase = "threw" => todo = {}
  /\ tries < MaxTries
  /\ tries' = tries + 1
  /\ phase' = "reading_tabs"
  /\ groupMapping' = [g \in undo.groups |-> None]
  /\ groupsLeft' = undo.groups
  /\ tabsLeft' = DOMAIN undo.tabs
  /\ unrestorable' = FALSE
  /\ UNCHANGED <<chromeState, plan, readings, touched, edits>>

\* chrome.tabs.query.  What the user has done to a tab of the snapshot until
\* now is taken back, unless the tab is closed.
ReadTabs ==
  /\ phase = "reading_tabs"
  /\ currentTabs' = groupOf
  /\ touched' = touched \ {t \in DOMAIN undo.tabs : groupOf[t] # Closed}
  /\ phase' = "reading_groups"
  /\ UNCHANGED <<chromeState, plan, currentGroupIDs, loops, tries, edits>>

\* chrome.tabGroups.query, and the start of the first loop: it throws when there
\* is no group in the snapshot, because Groups is then nil and arrives as null.
ReadGroups ==
  /\ phase = "reading_groups"
  /\ currentGroupIDs' = Groups(groupOf)
  /\ phase' = IF undo.groups = {} THEN "threw" ELSE "groups"
  /\ UNCHANGED <<chromeState, plan, currentTabs, loops, bounds>>

Members(g) == {t \in DOMAIN undo.tabs : undo.tabs[t] = g /\ currentTabs[t] # Closed}

\* Variant: every group is taken to be there.
StandsAlways(g) == TRUE

Stands(g) == g \in currentGroupIDs

\* Something is added to unrestorable.  Variant: nothing is.
StaySilent == UNCHANGED unrestorable
Report == unrestorable' = TRUE

\* The group is there, as far as the restore knows.
KeepGroup(g) ==
  /\ phase = "groups"
  /\ g \in groupsLeft
  /\ Stands(g)
  /\ groupMapping' = [groupMapping EXCEPT ![g] = g]
  /\ phase' = "naming"
  /\ UNCHANGED <<chromeState, plan, readings, groupsLeft, tabsLeft, unrestorable, bounds>>

\* The group is gone and has no tab left to make it of.
GiveUpGroup(g) ==
  /\ phase = "groups"
  /\ g \in groupsLeft
  /\ ~Stands(g)
  /\ Members(g) = {}
  /\ groupsLeft' = groupsLeft \ {g}
  /\ Report
  /\ UNCHANGED <<chromeState, plan, phase, readings, groupMapping, tabsLeft, bounds>>

\* chrome.tabs.group with createProperties: the group is gone, and is made again
\* of all its tabs, which may take the last tab from another group.
MakeGroup(g) ==
  /\ phase = "groups"
  /\ g \in groupsLeft
  /\ ~Stands(g)
  /\ Members(g) # {}
  /\ IF \E t \in Members(g) : groupOf[t] = Closed
     THEN /\ phase' = "threw"
          /\ UNCHANGED <<chromeState, groupMapping>>
     ELSE /\ phase' = "naming"
          /\ \E new \in Fresh :
               /\ NewGroups({new})
               /\ groupOf' = [t \in Tabs |-> IF t \in Members(g) THEN new ELSE groupOf[t]]
               /\ usedGroups' = usedGroups \cup {new}
               /\ groupMapping' = [groupMapping EXCEPT ![g] = new]
          /\ UNCHANGED look
  /\ UNCHANGED <<plan, readings, groupsLeft, tabsLeft, unrestorable, bounds>>

\* chrome.tabGroups.update, which throws when there is no such group.
NameGroup(g) ==
  /\ phase = "naming"
  /\ g \in groupsLeft
  /\ groupMapping[g] # None
  /\ IF Exists(groupMapping[g], groupOf)
     THEN /\ look' = [look EXCEPT ![groupMapping[g]] = g]
          /\ groupsLeft' = groupsLeft \ {g}
          /\ phase' = "groups"
     ELSE phase' = "threw" /\ UNCHANGED <<look, groupsLeft>>
  /\ UNCHANGED <<groupOf, usedGroups, plan, readings, groupMapping, tabsLeft, unrestorable, bounds>>

FinishGroups ==
  /\ phase = "groups"
  /\ groupsLeft = {}
  /\ phase' = "tabs"
  /\ UNCHANGED <<chromeState, plan, readings, loops, bounds>>

\* Variant: a tab that was in no group stays in the one it is in now.
DestinationInGroups(t) ==
  IF undo.tabs[t] # Ungrouped THEN groupMapping[undo.tabs[t]] ELSE groupOf[t]

\* Where a tab is put.  A tab that was in no group is taken out of its group only
\* if it was in one when the restore read the tabs.
Destination(t) ==
  IF undo.tabs[t] # Ungrouped THEN groupMapping[undo.tabs[t]]
  ELSE IF currentTabs[t] \in GroupIDs THEN Ungrouped ELSE groupOf[t]

\* The tab was open when the restore looked, and a group stands for its own.
Placeable(t) == currentTabs[t] # Closed /\ Destination(t) # None

\* Any other tab is listed as unrestorable.
SkipTab(t) ==
  /\ phase = "tabs"
  /\ t \in tabsLeft
  /\ ~Placeable(t)
  /\ tabsLeft' = tabsLeft \ {t}
  /\ Report
  /\ UNCHANGED <<chromeState, plan, phase, readings, groupMapping, groupsLeft, bounds>>

\* chrome.tabs.ungroup or chrome.tabs.group: the tab and its group must be there.
PlaceTab(t) ==
  LET place == Destination(t) IN
  /\ phase = "tabs"
  /\ t \in tabsLeft
  /\ Placeable(t)
  /\ IF groupOf[t] # Closed /\ (place \in GroupIDs => Exists(place, groupOf))
     THEN /\ groupOf' = [groupOf EXCEPT ![t] = place]
          /\ tabsLeft' = tabsLeft \ {t}
          /\ UNCHANGED phase
     ELSE phase' = "threw" /\ UNCHANGED <<groupOf, tabsLeft>>
  /\ UNCHANGED <<usedGroups, look, plan, readings, groupMapping, groupsLeft, unrestorable, bounds>>

FinishTabs ==
  /\ phase = "tabs"
  /\ tabsLeft = {}
  /\ phase' = "arranging"
  /\ UNCHANGED <<chromeState, plan, readings, loops, bounds>>

\* The third loop moves every tab that the restore saw to its old position.
Arrange ==
  /\ phase = "arranging"
  /\ phase' = IF \E t \in DOMAIN undo.tabs : currentTabs[t] # Closed /\ groupOf[t] = Closed
              THEN "threw" ELSE "returned"
  /\ UNCHANGED <<chromeState, plan, readings, loops, bounds>>

-----------------------------------------------------------------------------
\* The user moves a tab, groups it anew, or closes it, after the apply.
UserMoves(t, place) ==
  /\ phase \notin {"applying", "returned"}
  /\ groupOf[t] \notin {Closed, place}
  /\ place \in {Ungrouped, Closed} \/ Exists(place, groupOf) \/ NewGroups({place})
  /\ edits < MaxEdits
  /\ edits' = edits + 1
  /\ groupOf' = [groupOf EXCEPT ![t] = place]
  /\ usedGroups' = usedGroups \cup ({place} \cap GroupIDs)
  /\ touched' = touched \cup {t}
  /\ UNCHANGED <<look, plan, phase, readings, loops, tries>>

Init ==
  /\ base \in [Tabs -> InitGroups \cup {Ungrouped}]
  /\ \E p \in {q \in Plans : ValidatePlan(q, base)} : todo = BuildOperations(p, base)
  /\ undo = CaptureUndoSnapshot(base, todo)
  /\ createdGroups = [k \in Keys |-> None]
  /\ groupOf = base
  /\ usedGroups = InitGroups
  /\ look = [g \in GroupIDs |-> IF g \in InitGroups THEN g ELSE None]
  /\ phase = "applying"
  /\ currentTabs = base
  /\ currentGroupIDs = {}
  /\ groupMapping = [g \in undo.groups |-> None]
  /\ groupsLeft = {}
  /\ tabsLeft = {}
  /\ unrestorable = FALSE
  /\ touched = {}
  /\ tries = 0
  /\ edits = 0

Restore ==
  \/ BeginRestore \/ ReadTabs \/ ReadGroups
  \/ \E g \in GroupIDs : KeepGroup(g) \/ GiveUpGroup(g) \/ MakeGroup(g) \/ NameGroup(g)
  \/ FinishGroups
  \/ \E t \in Tabs : SkipTab(t) \/ PlaceTab(t)
  \/ FinishTabs \/ Arrange

Next ==
  \/ CarryOut \/ RefuseOperation \/ FinishApply
  \/ Restore
  \/ \E t \in Tabs, place \in Places : UserMoves(t, place)

Spec == Init /\ [][Next]_vars

-----------------------------------------------------------------------------
(* Properties.                                                             *)

\* A tab is back: out of any group, or in a group that looks as its own did.
Back(t) ==
  IF base[t] = Ungrouped THEN groupOf[t] = Ungrouped
  ELSE groupOf[t] \in GroupIDs /\ look[groupOf[t]] = base[t]

\* When restoreChromeSnapshot returns, every tab that the user has left alone
\* since it looked is where it was before the apply, with the tabs it was with,
\* in a group of the same title and colour, whatever the user did to other tabs
\* and however many attempts failed before.
ReturnedMeansBack ==
  phase = "returned" =>
    \A t, u \in Tabs \ touched :
      /\ Back(t)
      /\ base[t] \in GroupIDs => (base[t] = base[u] <=> groupOf[t] = groupOf[u])

\* AC-04: unless the user has moved tabs, it lists something as unrestorable
\* exactly when a tab of the snapshot is closed or no group stands for one of its
\* groups.  (A group the user has emptied but for tabs the apply put there goes
\* with those, and is not listed.)
ReportIsHonest ==
  phase = "returned" /\ touched \subseteq {t \in DOMAIN undo.tabs : currentTabs[t] = Closed} =>
    (unrestorable <=> \/ \E t \in DOMAIN undo.tabs : groupOf[t] = Closed
                      \/ \E g \in undo.groups :
                           \A h \in Groups(groupOf) : look[h] # g)

\* Undo need not be tried for ever: with nobody else moving tabs, a restore of a
\* snapshot with groups throws at most once for each of its groups, because what
\* it throws at is a group that is gone for good (and that the next try makes).
RetriesSuffice ==
  phase = "threw" /\ edits = 0 /\ undo.groups # {} => tries <= Cardinality(undo.groups)

-----------------------------------------------------------------------------
(* What the requirements say and the code does not do.                     *)

\* AC-04, docs/requirements.md:696: an Undo right after the apply restores the
\* tabs and groups.  It throws when the snapshot has no group.
UndoneRightAway == ~(phase = "threw" /\ todo = {} /\ edits = 0 /\ tries = 1)
=============================================================================
