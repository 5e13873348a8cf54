--------------------------- MODULE PlanOperations ---------------------------
(***************************************************************************)
(* Classification plans and what becomes of them: the check of a plan      *)
(* against a snapshot of Chrome, the operations it is turned into, their   *)
(* order, the snapshot kept for Undo (src/internal/plan), and what one     *)
(* operation does to Chrome (src/extension/src/chrome-operations.ts).      *)
(*                                                                         *)
(* Data: a tab is a number, and what a plan changes of it is the group it  *)
(* is in.  Titles, colours, indices and the pinned flag are left out, and  *)
(* with them update_group.  Chrome never gives two groups of one session   *)
(* the same identifier, and removes a group with its last tab.             *)
(***************************************************************************)
EXTENDS Naturals, FiniteSets

CONSTANTS
  Tabs,        (* tab identifiers                                            *)
  GroupIDs,    (* group identifiers Chrome can give out                      *)
  InitGroups,  (* the groups that may exist when the host starts             *)
  Keys,        (* the newGroupKeys of the plans                              *)
  Plans,       (* the classification plans clients send                      *)
  Ungrouped,   (* the place of a tab that is in no group: groupId -1         *)
  Closed,      (* the place of a tab that has been closed                    *)
  Unassigned,  (* the destination of a tab the plan does not name            *)
  None         (* nil                                                        *)

Places       == GroupIDs \cup {Ungrouped, Closed}
Destinations == GroupIDs \cup Keys \cup {Ungrouped, Unassigned}
Policies     == {"ungrouped_only", "preserve_existing", "existing_groups_only",
                 "rebuild_selected"}

ASSUME TabsAssumption  == Tabs \subseteq Nat
ASSUME KeysAssumption  == Keys \subseteq Nat
ASSUME PlaceAssumption ==
  /\ GroupIDs \subseteq Nat
  /\ Cardinality({Ungrouped, Closed, Unassigned, None}) = 4
  /\ {Ungrouped, Closed, Unassigned, None} \cap (GroupIDs \cup Keys) = {}
  /\ GroupIDs \cap Keys = {}
  /\ InitGroups \subseteq GroupIDs

\* A plan gives each tab a destination and names the tabs whose content the
\* classification was based on (contentRevisions).
ASSUME PlansAssumption ==
  Plans \subseteq [policy: Policies, dest: [Tabs -> Destinations], refs: SUBSET Tabs]

-----------------------------------------------------------------------------
(* Plans, operations and snapshots: the pure part of src/internal/plan.    *)

Operation == [kind: {"create_group", "move_tab", "ungroup_tab"},
              tab: Tabs, dest: Destinations]

Assigned(plan) == {t \in Tabs : plan.dest[t] # Unassigned}

\* A group exists as long as a tab is in it: Chrome removes an empty group.
Exists(g, grouping) == \E t \in Tabs : grouping[t] = g

ValidatePlan(plan, grouping) ==
  /\ \A t \in Assigned(plan) :
       /\ grouping[t] # Closed
       /\ plan.dest[t] \in GroupIDs => Exists(plan.dest[t], grouping)
       /\ plan.policy = "existing_groups_only" => plan.dest[t] \notin Keys
  /\ plan.refs \subseteq Assigned(plan)

\* Variant: tabs that are to leave their group are forgotten.
BuildOperationsWithoutUngroup(plan, grouping) ==
  {[kind |-> "move_tab", tab |-> t, dest |-> plan.dest[t]] :
     t \in {u \in Assigned(plan) : plan.dest[u] \in GroupIDs /\ grouping[u] # plan.dest[u]}}

\* The operations of a plan on a snapshot.  A new group is made of the first
\* of its tabs and every one of its tabs, that one too, is then moved into it.
BuildOperations(plan, grouping) ==
  LET chosen == {t \in Assigned(plan) :
                   plan.policy = "ungrouped_only" => grouping[t] = Ungrouped}
      keyed  == {t \in chosen : plan.dest[t] \in Keys}
      first  == {t \in keyed : \A u \in keyed : plan.dest[u] = plan.dest[t] => t <= u}
      moved  == {t \in chosen : plan.dest[t] \in GroupIDs /\ grouping[t] # plan.dest[t]}
      freed  == {t \in chosen : plan.dest[t] = Ungrouped /\ grouping[t] \in GroupIDs}
      ops(kind, S) == {[kind |-> kind, tab |-> t, dest |-> plan.dest[t]] : t \in S}
  IN ops("create_group", first) \cup ops("move_tab", keyed \cup moved)
       \cup ops("ungroup_tab", freed)

\* Variant: operations by tab number alone, creations not first.
BeforeByTab(o, p) == o.tab < p.tab \/ (o.tab = p.tab /\ o.kind = "move_tab")

\* The order of the operations: creations by key, then the tabs by number.
Before(o, p) ==
  IF o.kind = "create_group"
  THEN p.kind # "create_group" \/ o.dest < p.dest
  ELSE p.kind # "create_group" /\ o.tab < p.tab

IsNext(o, ops) == o \in ops /\ \A p \in ops \ {o} : Before(o, p)

\* What Apply keeps to restore: the place of every tab an operation names, and
\* every group an operation moves a tab into or out of.
UndoSnapshot == [tabs: UNION {[S -> Places] : S \in SUBSET Tabs}, groups: SUBSET GroupIDs]

\* Variants: only the tabs that are moved are kept; the groups of tabs that have
\* none are kept too.
CaptureMovedTabs(grouping, ops) ==
  [tabs   |-> [t \in {o.tab : o \in {p \in ops : p.kind = "move_tab"}} |-> grouping[t]],
   groups |-> {g \in GroupIDs : \E o \in ops : grouping[o.tab] = g}]

CaptureEveryGroup(grouping, ops) ==
  [tabs   |-> [t \in {o.tab : o \in ops} |-> grouping[t]],
   groups |-> {grouping[o.tab] : o \in ops}]

CaptureUndoSnapshot(grouping, ops) ==
  LET named == {o.tab : o \in ops}
  IN [tabs   |-> [t \in named |-> grouping[t]],
      groups |-> {g \in GroupIDs :
                    /\ Exists(g, grouping)
                    /\ \/ \E o \in ops : o.kind = "move_tab" /\ o.dest = g
                       \/ \E t \in named : grouping[t] = g}]

-----------------------------------------------------------------------------
(* Chrome's tab groups.                                                    *)

VARIABLES
  groupOf,      (* the group of each tab                                     *)
  usedGroups    (* the group identifiers Chrome has given out                *)

Fresh == GroupIDs \ usedGroups

\* The identifiers Chrome gives to new groups: unused ones, in order.
NewGroups(S) == S \subseteq Fresh /\ \A g \in S, h \in Fresh \ S : g < h

\* applyChromeOperation.  A create makes a group of its tab; a move joins a
\* group that must still exist; the tab must still be open.
CanApply(o) ==
  /\ groupOf[o.tab] # Closed
  /\ o.dest \in GroupIDs => Exists(o.dest, groupOf)

ApplyChromeOperation(o) ==
  /\ CanApply(o)
  /\ \/ /\ o.kind = "create_group"
        /\ \E g \in Fresh :
             /\ NewGroups({g})
             /\ groupOf' = [groupOf EXCEPT ![o.tab] = g]
             /\ usedGroups' = usedGroups \cup {g}
     \/ /\ o.kind # "create_group"
        /\ groupOf' = [groupOf EXCEPT ![o.tab] = o.dest]
        /\ UNCHANGED usedGroups

-----------------------------------------------------------------------------
(* What those who carry out operations rely on.                            *)

\* Each operation has a destination of its kind.
OperationsOK(ops) ==
  \A o \in ops :
    /\ o \in Operation
    /\ o.kind = "create_group" => o.dest \in Keys
    /\ o.kind = "move_tab"     => o.dest \in Keys \cup GroupIDs
    /\ o.kind = "ungroup_tab"  => o.dest = Ungrouped

\* A group that is still to be moved into has been made or is still to be made.
CreatesItsGroups(ops, created) ==
  \A o \in ops :
    o.kind = "move_tab" /\ o.dest \in Keys =>
      \/ created[o.dest] # None
      \/ \E p \in ops : p.kind = "create_group" /\ p.dest = o.dest

NoGroups == [k \in Keys |-> None]

RunnableOperations(ops) == OperationsOK(ops) /\ CreatesItsGroups(ops, NoGroups)

\* An operation that can be sent: its group, if it has one, is known.
Concrete(o) ==
  /\ o \in Operation
  /\ o.kind = "move_tab"    => o.dest \in GroupIDs
  /\ o.kind = "ungroup_tab" => o.dest = Ungrouped

\* Chrome has given out the identifier of every group there is.
GroupsUsed == \A t \in Tabs : groupOf[t] \in GroupIDs => groupOf[t] \in usedGroups
=============================================================================
