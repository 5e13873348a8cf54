------------------------ MODULE ChromeRestoreProofs ------------------------
(***************************************************************************)
(* What holds of ChromeRestore for any number of tabs and groups, any      *)
(* plans, whatever the user does and however often a restore is tried: a   *)
(* restore that returns has put back every tab the user has left alone, it *)
(* says truly whether something is missing, and if nobody interferes it    *)
(* throws at most once for each group of the snapshot.                     *)
(***************************************************************************)
EXTENDS ChromeRestore, CommonLemmas

-----------------------------------------------------------------------------
(* Plans, their operations, and what an operation does to Chrome.          *)

\* The special values differ from each other.
LEMMA SpecialValues ==
  /\ Ungrouped # Closed /\ Ungrouped # None /\ Closed # None
  /\ {Ungrouped, Closed, None} \cap GroupIDs = {}
<1>1. Cardinality({Ungrouped, Closed, Unassigned, None}) = 4
  BY PlaceAssumption
<1>2. ASSUME Ungrouped = Closed \/ Ungrouped = None PROVE FALSE
  <2>1. {Ungrouped, Closed, Unassigned, None} = {Closed, Unassigned, None}
    BY <1>2
  <2> QED BY <1>1, <2>1, AtMostThree
<1>3. ASSUME Closed = None PROVE FALSE
  <2>1. {Ungrouped, Closed, Unassigned, None} = {Ungrouped, Unassigned, None}
    BY <1>3
  <2> QED BY <1>1, <2>1, AtMostThree
<1> QED BY <1>2, <1>3, PlaceAssumption

\* BuildOperations gives each operation a destination of its kind, and a
\* creation for every new group it moves a tab into.
LEMMA BuildOperationsType ==
  ASSUME NEW aPlan \in Plans, NEW grouping \in [Tabs -> Places]
  PROVE  RunnableOperations(BuildOperations(aPlan, grouping))
<1> DEFINE chosen == {t \in Assigned(aPlan) :
                        aPlan.policy = "ungrouped_only" => grouping[t] = Ungrouped}
           keyed  == {t \in chosen : aPlan.dest[t] \in Keys}
           first  == {t \in keyed : \A u \in keyed : aPlan.dest[u] = aPlan.dest[t] => t <= u}
           moved  == {t \in chosen : aPlan.dest[t] \in GroupIDs /\ grouping[t] # aPlan.dest[t]}
           freed  == {t \in chosen : aPlan.dest[t] = Ungrouped /\ grouping[t] \in GroupIDs}
           ops(kind, S) == {[kind |-> kind, tab |-> t, dest |-> aPlan.dest[t]] : t \in S}
           all    == BuildOperations(aPlan, grouping)
<1>1. aPlan.dest \in [Tabs -> Destinations]
  BY PlansAssumption
<1>2. chosen \subseteq Tabs
  BY DEF Assigned
<1>3. all = ops("create_group", first) \cup ops("move_tab", keyed \cup moved)
              \cup ops("ungroup_tab", freed)
  BY DEF BuildOperations
<1>4. OperationsOK(ops("create_group", first))
  BY <1>1, <1>2 DEF OperationsOK, Operation
<1>5. OperationsOK(ops("move_tab", keyed \cup moved))
  BY <1>1, <1>2 DEF OperationsOK, Operation
<1>6. OperationsOK(ops("ungroup_tab", freed))
  BY <1>1, <1>2 DEF OperationsOK, Operation
<1>7. OperationsOK(all)
  BY <1>3, <1>4, <1>5, <1>6 DEF OperationsOK
<1>8. ASSUME NEW o \in all, o.kind = "move_tab", o.dest \in Keys
      PROVE  \E p \in all : p.kind = "create_group" /\ p.dest = o.dest
  <2>1. PICK t \in keyed : aPlan.dest[t] = o.dest
    BY <1>3, <1>8, PlaceAssumption
  <2> DEFINE same == {u \in keyed : aPlan.dest[u] = o.dest}
  <2>2. same \subseteq Nat /\ same # {}
    BY <1>2, <2>1, TabsAssumption
  <2> HIDE DEF same
  <2>3. PICK m \in same : \A n \in same : m <= n
    BY <2>2, Least
  <2>4. m \in first /\ aPlan.dest[m] = o.dest
    BY <2>3 DEF same
  <2>5. [kind |-> "create_group", tab |-> m, dest |-> aPlan.dest[m]] \in all
    BY <1>3, <2>4
  <2>6. QED
    BY <2>4, <2>5
<1>9. CreatesItsGroups(all, NoGroups)
  BY <1>8 DEF CreatesItsGroups
<1>10. QED
  BY <1>7, <1>9 DEF RunnableOperations

\* After the next operation, what is still to be moved has its group or is still
\* to get it.
LEMMA CreatesItsGroupsKept ==
  ASSUME NEW ops, NEW created \in [Keys -> GroupIDs \cup {None}], NEW o \in ops,
         CreatesItsGroups(ops, created), NEW g \in GroupIDs,
         NEW new, new = IF o.kind = "create_group" THEN [created EXCEPT ![o.dest] = g] ELSE created
  PROVE  CreatesItsGroups(ops \ {o}, new)
<1> SUFFICES ASSUME NEW q \in ops \ {o}, q.kind = "move_tab", q.dest \in Keys
             PROVE  \/ new[q.dest] # None
                    \/ \E p \in ops \ {o} : p.kind = "create_group" /\ p.dest = q.dest
  BY DEF CreatesItsGroups
<1>1. CASE created[q.dest] # None
  BY <1>1, PlaceAssumption
<1>2. CASE \E p \in ops : p.kind = "create_group" /\ p.dest = q.dest
  <2>1. PICK p \in ops : p.kind = "create_group" /\ p.dest = q.dest
    BY <1>2
  <2>2. CASE p = o
    BY <2>1, <2>2, PlaceAssumption
  <2>3. CASE p # o
    BY <2>1, <2>3
  <2>4. QED
    BY <2>2, <2>3
<1>3. QED
  BY <1>1, <1>2 DEF CreatesItsGroups

\* What captureUndoSnapshot takes from a grouping is a snapshot Restore can be sent.
LEMMA CaptureUndoSnapshotType ==
  ASSUME NEW grouping \in [Tabs -> Places], NEW ops \in SUBSET Operation
  PROVE  CaptureUndoSnapshot(grouping, ops) \in UndoSnapshot
<1> DEFINE named == {o.tab : o \in ops}
<1>1. named \subseteq Tabs
  BY DEF Operation
<1>2. [t \in named |-> grouping[t]] \in [named -> Places]
  BY <1>1
<1>3. QED
  BY <1>1, <1>2 DEF CaptureUndoSnapshot, UndoSnapshot

\* An operation that knows its group leaves every tab in a place, and gives out
\* identifiers only.
LEMMA ApplyChromeOperationType ==
  ASSUME NEW o, Concrete(o), groupOf \in [Tabs -> Places], usedGroups \subseteq GroupIDs,
         ApplyChromeOperation(o)
  PROVE  /\ groupOf' \in [Tabs -> Places]
         /\ usedGroups' \subseteq GroupIDs
         /\ o.kind = "create_group" => groupOf'[o.tab] \in GroupIDs
<1>1. o.tab \in Tabs
  BY DEF Concrete, Operation
<1>2. CASE o.kind = "create_group"
  <2>1. PICK g \in Fresh : /\ groupOf' = [groupOf EXCEPT ![o.tab] = g]
                           /\ usedGroups' = usedGroups \cup {g}
    BY <1>2 DEF ApplyChromeOperation
  <2>2. QED
    BY <1>1, <2>1 DEF Fresh, Places
<1>3. CASE o.kind # "create_group"
  <2>1. groupOf' = [groupOf EXCEPT ![o.tab] = o.dest] /\ usedGroups' = usedGroups
    BY <1>3 DEF ApplyChromeOperation
  <2>2. QED
    BY <1>3, <2>1 DEF Concrete, Operation, Places
<1>4. QED
  BY <1>2, <1>3

\* An operation leaves only groups that Chrome has given out.
LEMMA OperationUsesGroups ==
  ASSUME NEW o, o.tab \in Tabs, groupOf \in [Tabs -> Places], GroupsUsed, ApplyChromeOperation(o)
  PROVE  /\ GroupsUsed' /\ usedGroups \subseteq usedGroups'
         /\ \A t \in Tabs : t # o.tab => groupOf'[t] = groupOf[t]
<1>1. CASE o.kind = "create_group"
  <2>1. PICK g \in Fresh : /\ groupOf' = [groupOf EXCEPT ![o.tab] = g]
                           /\ usedGroups' = usedGroups \cup {g}
    BY <1>1 DEF ApplyChromeOperation
  <2>2. QED
    BY <2>1 DEF GroupsUsed
<1>2. CASE o.kind # "create_group"
  <2>1. groupOf' = [groupOf EXCEPT ![o.tab] = o.dest] /\ usedGroups' = usedGroups
    BY <1>2 DEF ApplyChromeOperation
  <2>2. o.dest \in GroupIDs => o.dest \in usedGroups
    BY DEF ApplyChromeOperation, CanApply, Exists, GroupsUsed
  <2>3. QED
    BY <2>1, <2>2 DEF GroupsUsed
<1>3. QED
  BY <1>1, <1>2

-----------------------------------------------------------------------------
(* The inductive invariant.                                                *)

Named == DOMAIN undo.tabs

\* undo is what the plan's operations need of base.
UndoInv ==
  /\ undo \in UndoSnapshot
  /\ \A t \in Tabs : base[t] \in InitGroups \cup {Ungrouped}
  /\ \A t \in Named : undo.tabs[t] = base[t] /\ (base[t] \in GroupIDs => base[t] \in undo.groups)
  /\ \A g \in undo.groups : Exists(g, base)

PlanInv ==
  /\ OperationsOK(todo) /\ CreatesItsGroups(todo, createdGroups)
  /\ \A o \in todo : o.tab \in Named

\* The groups there were at first look as they did.  A tab that neither the plan
\* nor the user has touched is where it was, and only the user closes tabs.
WorldInv ==
  /\ GroupsUsed
  /\ InitGroups \subseteq usedGroups
  /\ \A g \in InitGroups : look[g] = g
  /\ \A t \in Tabs \ (touched \cup Named) : groupOf[t] = base[t]
  /\ \A t \in Tabs : groupOf[t] = Closed => t \in touched

HasTabs   == phase \in {"reading_groups", "groups", "naming", "tabs", "arranging", "returned"}
HasGroups == phase \in {"groups", "naming", "tabs", "arranging", "returned"}
InTabs    == phase \in {"tabs", "arranging", "returned"}

\* A restore begins with nothing done.  What it has read is still true of what it
\* has not come to, as far as the user has left it alone.
ReadingInv ==
  /\ phase \in {"reading_tabs", "reading_groups"} =>
       /\ tabsLeft = Named /\ groupsLeft = undo.groups /\ ~unrestorable
       /\ groupMapping = [g \in undo.groups |-> None]
  /\ HasTabs =>
       /\ \A t \in Tabs : currentTabs[t] = Closed => groupOf[t] = Closed
       /\ \A t \in tabsLeft \ touched : base[t] = Ungrouped => groupOf[t] = currentTabs[t]
       /\ InTabs \/ tabsLeft = Named
  /\ HasGroups =>
       /\ currentGroupIDs \subseteq usedGroups
       /\ \A t \in Tabs \ (touched \cup Named) : base[t] \in GroupIDs => base[t] \in currentGroupIDs

\* A group stands for itself, if it was there, or a new one does; no group stands
\* for two; the first loop deals with one at a time, and what stands for one that
\* it is done with has its title and colour.
MappingInv ==
  HasGroups =>
    /\ \A g \in undo.groups : groupMapping[g] # None =>
         /\ groupMapping[g] \in usedGroups
         /\ IF groupMapping[g] = g THEN g \in currentGroupIDs
            ELSE g \notin currentGroupIDs /\ groupMapping[g] \notin InitGroups \cup currentGroupIDs
    /\ \A g, h \in undo.groups :
         groupMapping[g] # None /\ groupMapping[g] = groupMapping[h] => g = h
    /\ \A g, h \in groupsLeft : groupMapping[g] # None => phase = "naming" /\ groupMapping[h] \in {None, groupMapping[g]}
    /\ \A g \in undo.groups \ groupsLeft :
         IF groupMapping[g] = None THEN g \notin currentGroupIDs /\ Members(g) = {}
         ELSE look[groupMapping[g]] = g
    /\ InTabs => groupsLeft = {}

\* A tab that the second loop is done with is back, unless it is closed.
PlacedInv ==
  InTabs =>
    /\ \A t \in Named \ (tabsLeft \cup touched) :
         IF base[t] = Ungrouped THEN groupOf[t] = Ungrouped
         ELSE groupMapping[base[t]] # None /\ groupOf[t] = groupMapping[base[t]]
    /\ phase # "tabs" => tabsLeft = {}

\* What is reported is missing, and what the second loop found missing is reported.
ReportInv ==
  /\ HasGroups /\ unrestorable =>
       \/ \E t \in Named : currentTabs[t] = Closed
       \/ \E g \in undo.groups \ currentGroupIDs : Members(g) = {}
  /\ InTabs => \A t \in Named \ tabsLeft : currentTabs[t] = Closed => unrestorable

\* The groups of the snapshot that are gone.
Gone == {g \in undo.groups : ~Exists(g, groupOf)}

\* With nobody else moving tabs, every try finds one more group gone than the one
\* before, and what a try has made stays.
TriesInv ==
  edits = 0 =>
    /\ touched = {}
    /\ HasGroups =>
         /\ undo.groups \ currentGroupIDs \subseteq Gone
         /\ \A g \in undo.groups : groupMapping[g] \notin {None, g} =>
              Members(g) # {} /\ \A t \in Members(g) : groupOf[t] = groupMapping[g]
    /\ undo.groups # {} =>
         /\ phase \in {"applying", "applied", "failed"} => tries = 0
         /\ phase = "threw" => tries <= Cardinality(Gone)
         /\ phase \in {"reading_tabs", "reading_groups"} => tries <= Cardinality(Gone) + 1
         /\ HasGroups => tries <= Cardinality(undo.groups \ currentGroupIDs) + 1

IInv ==
  /\ TypeOK
  /\ UndoInv /\ PlanInv /\ WorldInv
  /\ ReadingInv /\ MappingInv /\ PlacedInv /\ ReportInv
  /\ TriesInv

-----------------------------------------------------------------------------
(* What most steps have in common.                                         *)

\* The plan, its operations and its snapshot do not change.
LEMMA PlanKept ==
  ASSUME UndoInv, PlanInv, UNCHANGED plan
  PROVE  UndoInv' /\ PlanInv'
<1>1. UndoInv'
  BY DEF UndoInv, plan, Named, Exists
<1>2. PlanInv'
  BY DEF PlanInv, plan, Named, OperationsOK, CreatesItsGroups
<1> QED BY <1>1, <1>2

\* What holds of tabs and groups holds as long as nobody touches them.
LEMMA WorldKept ==
  ASSUME WorldInv, UNCHANGED <<chromeState, plan, touched>>
  PROVE  WorldInv'
BY DEF WorldInv, GroupsUsed, chromeState, plan, Named

\* Before the restore has read the tabs there is nothing to say of its locals.
LEMMA NothingRead ==
  ASSUME phase' \in Phases, ~HasTabs', phase' # "reading_tabs"
  PROVE  ReadingInv' /\ MappingInv' /\ PlacedInv' /\ ReportInv'
BY DEF ReadingInv, MappingInv, PlacedInv, ReportInv, HasTabs, HasGroups, InTabs

\* Each group of the snapshot was there at first.
LEMMA SnapshotGroupsUsed ==
  ASSUME UndoInv, WorldInv
  PROVE  undo.groups \subseteq InitGroups /\ undo.groups \subseteq usedGroups
<1>1. SUFFICES ASSUME NEW g \in undo.groups PROVE g \in InitGroups
  BY DEF WorldInv
<1>2. g \in GroupIDs
  BY DEF UndoInv, UndoSnapshot
<1>3. PICK t \in Tabs : base[t] = g
  BY DEF UndoInv, Exists
<1> QED BY <1>2, <1>3, SpecialValues DEF UndoInv

\* The groups of the snapshot can be counted: each has a tab.
LEMMA FiniteGroups ==
  ASSUME TypeOK, UndoInv, NEW S \in SUBSET undo.groups
  PROVE  IsFiniteSet(S) /\ Cardinality(S) \in Nat /\ Cardinality(S) <= Cardinality(undo.groups)
<1> DEFINE places == {base[t] : t \in Tabs}
<1>1. base \in Surjection(Tabs, places)
  BY DEF TypeOK, Surjection
<1>2. IsFiniteSet(places)
  BY <1>1, FiniteTabs, FS_Surjection
<1>3. undo.groups \in SUBSET places
  BY DEF UndoInv, Exists
<1>4. IsFiniteSet(undo.groups)
  BY <1>2, <1>3, FS_Subset
<1> QED BY <1>4, FS_Subset, FS_CardinalityType

\* A try that throws at a group it saw has found one more gone.
LEMMA ThrowsAtAnother ==
  ASSUME TypeOK, UndoInv, TriesInv, HasGroups, edits = 0,
         NEW g \in undo.groups \cap currentGroupIDs, ~Exists(g, groupOf)
  PROVE  touched = {} /\ tries <= Cardinality(Gone)
<1> DEFINE before == undo.groups \ currentGroupIDs
<1>1. before \in SUBSET undo.groups /\ Gone \in SUBSET undo.groups
  BY DEF Gone
<1>2. before \cup {g} \in SUBSET Gone
  BY DEF TriesInv, Gone
<1>3. IsFiniteSet(before) /\ IsFiniteSet(Gone) /\ Cardinality(before) \in Nat /\ Cardinality(Gone) \in Nat
  BY <1>1, FiniteGroups
<1>4. Cardinality(before \cup {g}) = Cardinality(before) + 1
  BY <1>3, FS_AddElement
<1>5. Cardinality(before \cup {g}) <= Cardinality(Gone)
  BY <1>2, <1>3, FS_Subset
<1>6. tries <= Cardinality(before) + 1
  BY DEF TriesInv
<1> QED BY <1>3, <1>4, <1>5, <1>6 DEF TriesInv, TypeOK

-----------------------------------------------------------------------------
(* The apply.                                                              *)

\* The next operation has its group.
LEMMA NextOperation ==
  ASSUME TypeOK, PlanInv, NEW o \in todo, IsNext(o, todo)
  PROVE  /\ Concrete(Resolved(o))
         /\ o.kind = "create_group" => o.dest \in Keys /\ Resolved(o) = o
         /\ o.kind = Resolved(o).kind /\ o.tab = Resolved(o).tab
<1>1. /\ o \in Operation
      /\ o.kind = "create_group" => o.dest \in Keys
      /\ o.kind = "move_tab"     => o.dest \in Keys \cup GroupIDs
      /\ o.kind = "ungroup_tab"  => o.dest = Ungrouped
  BY DEF PlanInv, OperationsOK
<1>2. CASE o.kind = "move_tab" /\ o.dest \in Keys
  <2> DEFINE g == createdGroups[o.dest]
  <2>1. ~ \E p \in todo : p.kind = "create_group" /\ p.dest = o.dest
    BY <1>2 DEF IsNext, Before
  <2>2. g # None
    BY <1>2, <2>1 DEF PlanInv, CreatesItsGroups
  <2>3. g \in GroupIDs
    BY <1>2, <2>2 DEF TypeOK
  <2>4. Resolved(o) = [o EXCEPT !.dest = g]
    BY <1>2 DEF Resolved
  <2> QED BY <1>1, <1>2, <2>3, <2>4 DEF Concrete, Operation, Destinations
<1>3. CASE ~(o.kind = "move_tab" /\ o.dest \in Keys)
  BY <1>1, <1>3 DEF Concrete, Resolved, Operation
<1> QED BY <1>2, <1>3

\* Apply: one operation in Chrome.
LEMMA CarryOutInv ==
  ASSUME IInv, CarryOut
  PROVE  IInv'
<1> USE DEF IInv
<1>1. PICK o \in todo :
        /\ phase = "applying" /\ IsNext(o, todo)
        /\ ApplyChromeOperation(Resolved(o))
        /\ todo' = todo \ {o}
        /\ createdGroups' = IF o.kind = "create_group"
                            THEN [createdGroups EXCEPT ![o.dest] = groupOf'[o.tab]] ELSE createdGroups
        /\ UNCHANGED <<look, base, undo, phase, readings, loops, bounds>>
  BY DEF CarryOut
<1>2. /\ Concrete(Resolved(o))
      /\ o.kind = "create_group" => o.dest \in Keys /\ Resolved(o) = o
      /\ o.kind = Resolved(o).kind /\ o.tab = Resolved(o).tab
  BY <1>1, NextOperation
<1>3. o.tab \in Named /\ o.tab \in Tabs
  BY <1>2 DEF PlanInv, Concrete, Operation
<1>4. /\ groupOf' \in [Tabs -> Places] /\ usedGroups' \subseteq GroupIDs
      /\ o.kind = "create_group" => groupOf'[o.tab] \in GroupIDs
  BY <1>1, <1>2, ApplyChromeOperationType DEF TypeOK
<1>5. /\ GroupsUsed' /\ usedGroups \subseteq usedGroups'
      /\ \A t \in Tabs : t # o.tab => groupOf'[t] = groupOf[t]
  BY <1>1, <1>2, <1>3, OperationUsesGroups DEF TypeOK, WorldInv
<1>6. groupOf'[o.tab] # Closed
  BY <1>1, <1>2, <1>3, SpecialValues DEF ApplyChromeOperation, Concrete, TypeOK, Fresh, Operation
<1>7. TypeOK'
  BY <1>1, <1>2, <1>4 DEF TypeOK, readings, loops, bounds
<1>8. UndoInv'
  BY <1>1 DEF UndoInv, Named, Exists
<1>9. PlanInv'
  <2>1. CreatesItsGroups(todo', createdGroups')
    <3>1. CASE o.kind = "create_group"
      BY <1>1, <1>4, <3>1, CreatesItsGroupsKept DEF PlanInv, TypeOK
    <3>2. CASE o.kind # "create_group"
      BY <1>1, <3>2 DEF PlanInv, CreatesItsGroups
    <3> QED BY <3>1, <3>2
  <2> QED BY <1>1, <2>1 DEF PlanInv, OperationsOK, Named
<1>10. WorldInv'
  BY <1>1, <1>3, <1>5, <1>6 DEF WorldInv, Named, bounds
<1>11. ReadingInv' /\ MappingInv' /\ PlacedInv' /\ ReportInv'
  BY <1>1, NothingRead DEF HasTabs, Phases
<1>12. TriesInv'
  BY <1>1 DEF TriesInv, HasGroups, bounds
<1> QED BY <1>7, <1>8, <1>9, <1>10, <1>11, <1>12

\* Apply: its end, and with it the snapshot that a restore begins with.
LEMMA EndOfApplyInv ==
  ASSUME IInv, RefuseOperation \/ FinishApply
  PROVE  IInv'
<1> USE DEF IInv, RefuseOperation, FinishApply
<1>1. TypeOK'
  BY DEF TypeOK, Phases, chromeState, plan, readings, loops, bounds
<1>2. UndoInv' /\ PlanInv' /\ WorldInv'
  BY PlanKept, WorldKept DEF bounds
<1>3. ReadingInv' /\ MappingInv' /\ PlacedInv' /\ ReportInv'
  BY NothingRead DEF HasTabs, Phases
<1>4. TriesInv'
  BY DEF TriesInv, HasGroups, plan, bounds
<1> QED BY <1>1, <1>2, <1>3, <1>4

-----------------------------------------------------------------------------
(* The restore: what it reads.                                             *)

\* A rollback or an undo begins, or begins again.
LEMMA BeginRestoreInv ==
  ASSUME IInv, BeginRestore
  PROVE  IInv'
<1> USE DEF IInv, BeginRestore
<1>1. TypeOK'
  <2>1. groupMapping' \in [undo'.groups -> GroupIDs \cup {None}]
    BY DEF plan
  <2>2. tries' \in 0..MaxTries
    BY BoundsAssumption DEF TypeOK
  <2> QED BY <2>1, <2>2 DEF TypeOK, Phases, chromeState, plan, readings
<1>2. UndoInv' /\ PlanInv' /\ WorldInv'
  BY PlanKept, WorldKept
<1>3. ReadingInv' /\ MappingInv' /\ PlacedInv' /\ ReportInv'
  BY DEF ReadingInv, MappingInv, PlacedInv, ReportInv, HasTabs, HasGroups, InTabs, Named, plan
<1>4. TriesInv'
  <2>1. Gone' = Gone /\ undo' = undo
    BY DEF Gone, plan, chromeState, Exists
  <2>2. Cardinality(Gone) \in Nat
    BY FiniteGroups DEF Gone
  <2> QED BY <2>1, <2>2 DEF TriesInv, HasGroups, TypeOK
<1> QED BY <1>1, <1>2, <1>3, <1>4

\* restoreChromeSnapshot: which tabs are open.
LEMMA ReadTabsInv ==
  ASSUME IInv, ReadTabs
  PROVE  IInv'
<1> USE DEF IInv, ReadTabs
<1>1. TypeOK'
  BY DEF TypeOK, Phases, chromeState, plan, loops
<1>2. UndoInv' /\ PlanInv'
  BY PlanKept
<1>3. WorldInv'
  BY DEF WorldInv, GroupsUsed, Named, chromeState, plan
<1>4. ReadingInv'
  <2>1. /\ tabsLeft' = Named' /\ groupsLeft' = undo'.groups /\ ~unrestorable'
        /\ groupMapping' = [g \in undo'.groups |-> None]
    BY DEF ReadingInv, loops, plan, Named
  <2>2. phase' = "reading_groups" /\ currentTabs' = groupOf'
    BY DEF chromeState
  <2> QED BY <2>1, <2>2 DEF ReadingInv, HasTabs, HasGroups, InTabs
<1>5. MappingInv' /\ PlacedInv' /\ ReportInv'
  BY DEF MappingInv, PlacedInv, ReportInv, HasGroups, InTabs
<1>6. TriesInv'
  <2>1. Gone' = Gone /\ undo' = undo
    BY DEF Gone, plan, chromeState, Exists
  <2> QED BY <2>1 DEF TriesInv, HasGroups
<1> QED BY <1>1, <1>2, <1>3, <1>4, <1>5, <1>6

\* restoreChromeSnapshot: which groups stand.
LEMMA ReadGroupsInv ==
  ASSUME IInv, ReadGroups
  PROVE  IInv'
<1> USE DEF IInv, ReadGroups
<1>1. TypeOK'
  BY DEF TypeOK, Phases, Groups, chromeState, plan, loops, bounds
<1>2. UndoInv' /\ PlanInv' /\ WorldInv'
  BY PlanKept, WorldKept DEF bounds
<1>3. /\ tabsLeft' = Named' /\ groupsLeft' = undo'.groups /\ ~unrestorable'
      /\ groupMapping' = [g \in undo'.groups |-> None]
  BY DEF ReadingInv, loops, plan, Named
<1>4. currentGroupIDs' = {g \in GroupIDs : Exists(g, groupOf)}
  BY DEF Groups
<1>5. phase' \in {"groups", "threw"} /\ (phase' = "threw" => undo.groups = {})
  OBVIOUS
<1>6. ReadingInv'
  <2>1. currentGroupIDs' \subseteq usedGroups'
    BY <1>4 DEF WorldInv, GroupsUsed, Exists, chromeState
  <2>2. \A t \in Tabs \ (touched \cup Named) : base[t] \in GroupIDs => base[t] \in currentGroupIDs'
    BY <1>4 DEF WorldInv, Exists
  <2>3. HasTabs
    BY DEF HasTabs
  <2> QED BY <1>3, <1>5, <2>1, <2>2, <2>3 DEF ReadingInv, InTabs, plan, bounds, chromeState, Named
<1>7. MappingInv'
  BY <1>3, <1>5 DEF MappingInv, HasGroups, InTabs
<1>8. PlacedInv' /\ ReportInv'
  BY <1>3, <1>5 DEF PlacedInv, ReportInv, HasGroups, InTabs
<1>9. TriesInv'
  <2>1. Gone' = Gone /\ undo' = undo /\ touched' = touched /\ tries' = tries /\ edits' = edits
    BY DEF Gone, plan, chromeState, Exists, bounds
  <2>2. undo.groups \ currentGroupIDs' = Gone
    BY <1>4 DEF Gone, TypeOK
  <2> QED BY <1>3, <1>5, <2>1, <2>2 DEF TriesInv, HasGroups
<1> QED BY <1>1, <1>2, <1>6, <1>7, <1>8, <1>9

-----------------------------------------------------------------------------
(* Its first loop.                                                         *)

\* First loop: a group that stands is kept.
LEMMA KeepGroupInv ==
  ASSUME IInv, NEW g \in GroupIDs, KeepGroup(g)
  PROVE  IInv'
<1> USE DEF IInv, KeepGroup
<1>1. g \in undo.groups /\ g \in currentGroupIDs /\ phase = "groups" /\ phase' = "naming"
  BY DEF TypeOK, Stands
<1>2. TypeOK'
  BY <1>1 DEF TypeOK, Phases, chromeState, plan, readings, bounds
<1>3. UndoInv' /\ PlanInv' /\ WorldInv'
  BY PlanKept, WorldKept DEF bounds
<1>4. ReadingInv'
  BY <1>1 DEF ReadingInv, HasTabs, HasGroups, InTabs, Named, chromeState, plan, readings, bounds
<1>5. MappingInv'
  <2>1. groupMapping' = [groupMapping EXCEPT ![g] = g] /\ DOMAIN groupMapping = undo.groups
    BY DEF TypeOK
  <2>2. groupMapping'[g] = g /\ \A h \in undo.groups \ {g} : groupMapping'[h] = groupMapping[h]
    BY <1>1, <2>1
  <2>3. \A h \in undo.groups \ {g} : groupMapping[h] # g
    BY <1>1, SpecialValues DEF MappingInv, HasGroups
  <2>4. g \in usedGroups /\ HasGroups /\ HasGroups' /\ ~InTabs'
    BY <1>1 DEF ReadingInv, HasGroups, InTabs
  <2>5. Members(g)' = Members(g) /\ \A h : Members(h)' = Members(h)
    BY DEF Members, plan, readings
  <2>6. \A h \in groupsLeft : groupMapping[h] = None
    BY <1>1 DEF MappingInv, HasGroups
  <2>7. \A h, k \in groupsLeft' : groupMapping'[h] # None => groupMapping'[k] \in {None, groupMapping'[h]}
    BY <1>1, <2>2, <2>6 DEF TypeOK
  <2>8. \A h \in undo.groups' \ groupsLeft' :
          IF groupMapping'[h] = None THEN h \notin currentGroupIDs' /\ Members(h)' = {}
          ELSE look'[groupMapping'[h]] = h
    BY <1>1, <2>2, <2>4, <2>5 DEF MappingInv, plan, readings, chromeState
  <2>9. \A h \in undo.groups' : groupMapping'[h] # None =>
         /\ groupMapping'[h] \in usedGroups'
         /\ IF groupMapping'[h] = h THEN h \in currentGroupIDs'
            ELSE h \notin currentGroupIDs' /\ groupMapping'[h] \notin InitGroups \cup currentGroupIDs'
    BY <1>1, <2>2, <2>4 DEF MappingInv, plan, readings, chromeState
  <2>10. \A h, k \in undo.groups' : groupMapping'[h] # None /\ groupMapping'[h] = groupMapping'[k] => h = k
    BY <1>1, <2>2, <2>3, <2>4 DEF MappingInv, plan
  <2> QED BY <1>1, <2>4, <2>7, <2>8, <2>9, <2>10 DEF MappingInv
<1>6. PlacedInv' /\ ReportInv'
  BY <1>1 DEF PlacedInv, ReportInv, HasGroups, InTabs, Members, Named, plan, readings
<1>7. TriesInv'
  <2>1. Gone' = Gone /\ undo' = undo /\ \A h : Members(h)' = Members(h)
    BY DEF Gone, plan, chromeState, Exists, Members, readings
  <2>2. \A h \in undo.groups : groupMapping'[h] \notin {None, h} => groupMapping'[h] = groupMapping[h]
    BY <1>1 DEF TypeOK
  <2> QED BY <1>1, <2>1, <2>2 DEF TriesInv, HasGroups, bounds, readings, chromeState
<1> QED BY <1>2, <1>3, <1>4, <1>5, <1>6, <1>7

\* First loop: a group none of whose tabs is open is given up.
LEMMA GiveUpGroupInv ==
  ASSUME IInv, NEW g \in GroupIDs, GiveUpGroup(g)
  PROVE  IInv'
<1> USE DEF IInv, GiveUpGroup
<1>1. /\ g \in undo.groups /\ g \notin currentGroupIDs /\ Members(g) = {}
      /\ phase = "groups" /\ phase' = phase /\ unrestorable' = TRUE
      /\ groupMapping[g] = None
  BY DEF TypeOK, Stands, Report, MappingInv, HasGroups
<1>2. TypeOK'
  BY <1>1 DEF TypeOK, Phases, chromeState, plan, readings, bounds
<1>3. UndoInv' /\ PlanInv' /\ WorldInv'
  BY PlanKept, WorldKept DEF bounds
<1>4. ReadingInv'
  BY <1>1 DEF ReadingInv, HasTabs, HasGroups, InTabs, Named, chromeState, plan, readings, bounds
<1>5. MappingInv'
  <2>1. \A h : Members(h)' = Members(h)
    BY DEF Members, plan, readings
  <2> QED BY <1>1, <2>1 DEF MappingInv, HasGroups, InTabs, chromeState, plan, readings
<1>6. PlacedInv' /\ ReportInv'
  <2>1. Members(g)' = {} /\ g \in undo'.groups \ currentGroupIDs'
    BY <1>1 DEF Members, plan, readings
  <2> QED BY <1>1, <2>1 DEF PlacedInv, ReportInv, HasGroups, InTabs
<1>7. TriesInv'
  <2>1. Gone' = Gone /\ undo' = undo /\ \A h : Members(h)' = Members(h)
    BY DEF Gone, plan, chromeState, Exists, Members, readings
  <2> QED BY <1>1, <2>1 DEF TriesInv, HasGroups, bounds, readings, chromeState
<1> QED BY <1>2, <1>3, <1>4, <1>5, <1>6, <1>7

\* A group that is made again holds all its tabs, and no other tab moves.
LEMMA MakeGroupInv ==
  ASSUME IInv, NEW g \in GroupIDs, MakeGroup(g)
  PROVE  IInv'
<1> USE DEF IInv
<1>1. /\ g \in undo.groups /\ g \in groupsLeft /\ g \notin currentGroupIDs /\ Members(g) # {}
      /\ phase = "groups" /\ groupMapping[g] = None
      /\ UNCHANGED <<plan, readings, groupsLeft, tabsLeft, unrestorable, bounds, look>>
  BY DEF TypeOK, Stands, MakeGroup, MappingInv, HasGroups, chromeState
<1>2. UndoInv' /\ PlanInv'
  BY <1>1, PlanKept
<1>3. /\ undo' = undo /\ base' = base /\ Named' = Named /\ touched' = touched
      /\ \A h : Members(h)' = Members(h)
  BY <1>1 DEF plan, Named, bounds, Members, readings
<1>4. CASE \E t \in Members(g) : groupOf[t] = Closed
  <2>1. phase' = "threw" /\ UNCHANGED <<chromeState, groupMapping>>
    BY <1>4 DEF MakeGroup
  <2>2. TypeOK'
    BY <1>1, <2>1 DEF TypeOK, Phases, chromeState, plan, readings, bounds
  <2>3. WorldInv'
    BY <1>1, <2>1, WorldKept DEF bounds
  <2>4. ReadingInv' /\ MappingInv' /\ PlacedInv' /\ ReportInv'
    BY <2>1, <2>2, NothingRead DEF TypeOK, HasTabs
  <2>5. edits' # 0
    BY <1>1, <1>4 DEF TriesInv, WorldInv, UndoInv, Members, Named, bounds, UndoSnapshot
  <2> QED BY <1>2, <2>2, <2>3, <2>4, <2>5 DEF TriesInv
<1>5. CASE ~ \E t \in Members(g) : groupOf[t] = Closed
  <2>1. PICK new \in Fresh :
          /\ groupOf' = [t \in Tabs |-> IF t \in Members(g) THEN new ELSE groupOf[t]]
          /\ usedGroups' = usedGroups \cup {new}
          /\ groupMapping' = [groupMapping EXCEPT ![g] = new]
    BY <1>5 DEF MakeGroup
  <2>2. phase' = "naming" /\ HasTabs /\ HasGroups /\ ~InTabs /\ HasTabs' /\ HasGroups' /\ ~InTabs'
    BY <1>1, <1>5 DEF MakeGroup, HasTabs, HasGroups, InTabs
  <2>3. /\ new \in GroupIDs \ usedGroups /\ new # None /\ new # Closed
        /\ new \notin InitGroups \cup currentGroupIDs /\ new # g
    <3>1. undo.groups \subseteq usedGroups
      BY SnapshotGroupsUsed
    <3>2. new \in GroupIDs \ usedGroups
      BY <2>1 DEF Fresh
    <3> QED BY <1>1, <2>2, <3>1, <3>2, SpecialValues DEF WorldInv, ReadingInv
  <2>4. Members(g) \subseteq Named /\ Named \subseteq Tabs
        /\ \A t \in Members(g) : base[t] = g
    BY DEF Members, UndoInv, Named, UndoSnapshot
  <2>5. TypeOK'
    BY <1>1, <2>1, <2>2, <2>3 DEF TypeOK, Phases, Places, plan, readings, bounds
  <2>6. WorldInv'
    BY <1>1, <1>3, <2>1, <2>3, <2>4 DEF WorldInv, GroupsUsed
  <2>7. ReadingInv'
    <3>1. \A t \in Tabs : currentTabs[t] = Closed => groupOf'[t] = Closed
      BY <2>1, <2>2 DEF ReadingInv, Members
    <3>2. \A t \in tabsLeft \ touched : base[t] = Ungrouped => groupOf'[t] = currentTabs[t]
      BY <2>1, <2>2, <2>4, SpecialValues DEF ReadingInv, TypeOK
    <3> QED BY <1>1, <1>3, <2>1, <2>2, <3>1, <3>2 DEF ReadingInv, readings
  <2>8. groupMapping'[g] = new /\ \A h \in undo.groups \ {g} : groupMapping'[h] = groupMapping[h]
    BY <1>1, <2>1 DEF TypeOK
  <2>9. \A h \in undo.groups \ {g} : groupMapping[h] # new
    BY <2>2, <2>3 DEF MappingInv
  <2>10. MappingInv'
    <3>1. \A h \in groupsLeft : groupMapping[h] = None
      BY <1>1, <2>2 DEF MappingInv
    <3>2. \A h, k \in groupsLeft' : groupMapping'[h] # None => groupMapping'[k] \in {None, groupMapping'[h]}
      BY <1>1, <2>8, <3>1 DEF TypeOK
    <3>3. \A h \in undo.groups' \ groupsLeft' :
            IF groupMapping'[h] = None THEN h \notin currentGroupIDs' /\ Members(h)' = {}
            ELSE look'[groupMapping'[h]] = h
      BY <1>1, <1>3, <2>2, <2>8 DEF MappingInv, readings
    <3>4. \A h \in undo.groups' : groupMapping'[h] # None =>
           /\ groupMapping'[h] \in usedGroups'
           /\ IF groupMapping'[h] = h THEN h \in currentGroupIDs'
              ELSE h \notin currentGroupIDs' /\ groupMapping'[h] \notin InitGroups \cup currentGroupIDs'
      BY <1>1, <1>3, <2>1, <2>2, <2>3, <2>8 DEF MappingInv, readings
    <3>5. \A h, k \in undo.groups' : groupMapping'[h] # None /\ groupMapping'[h] = groupMapping'[k] => h = k
      BY <1>3, <2>2, <2>8, <2>9 DEF MappingInv
    <3> QED BY <2>2, <3>2, <3>3, <3>4, <3>5 DEF MappingInv
  <2>11. PlacedInv' /\ ReportInv'
    BY <1>1, <1>3, <2>2 DEF PlacedInv, ReportInv, readings
  <2>12. TriesInv'
    <3> SUFFICES ASSUME edits' = 0 PROVE TriesInv'
      BY DEF TriesInv
    <3>1. edits = 0 /\ tries' = tries /\ currentGroupIDs' = currentGroupIDs
      BY <1>1 DEF bounds, readings
    <3>2. \A h \in undo.groups : h \in Gone => h \in Gone'
      <4>1. undo.groups \subseteq usedGroups
        BY SnapshotGroupsUsed
      <4> QED BY <1>3, <2>1, <2>3, <4>1 DEF Gone, Exists
    <3>3. undo'.groups \ currentGroupIDs' \subseteq Gone'
      BY <1>3, <2>2, <3>1, <3>2 DEF TriesInv
    <3>4. \A h \in undo.groups \ {g} : Members(h) \cap Members(g) = {}
      BY DEF Members
    <3>5. \A h \in undo.groups : groupMapping'[h] \notin {None, h} =>
            Members(h) # {} /\ \A t \in Members(h) : groupOf'[t] = groupMapping'[h]
      <4>1. \A h \in undo.groups \ {g} : \A t \in Members(h) : groupOf'[t] = groupOf[t]
        BY <2>1, <2>4, <3>4 DEF Members, UndoInv, Named, UndoSnapshot
      <4>2. \A t \in Members(g) : groupOf'[t] = new
        BY <2>1, <2>4
      <4> QED BY <1>1, <2>2, <2>8, <3>1, <4>1, <4>2 DEF TriesInv
    <3> QED BY <1>3, <2>2, <3>1, <3>3, <3>5 DEF TriesInv
  <2> QED BY <1>2, <2>5, <2>6, <2>7, <2>10, <2>11, <2>12
<1> QED BY <1>4, <1>5

\* What stands for a group has its look from now on, or is gone; what is gone was
\* there when the restore looked.
LEMMA NameGroupInv ==
  ASSUME IInv, NEW g \in GroupIDs, NameGroup(g)
  PROVE  IInv'
<1> USE DEF IInv
<1> DEFINE m == groupMapping[g]
<1>1. /\ g \in undo.groups /\ g \in groupsLeft /\ phase = "naming" /\ m # None
      /\ m \in GroupIDs
      /\ UNCHANGED <<groupOf, usedGroups, plan, readings, groupMapping, tabsLeft, unrestorable, bounds>>
  BY DEF TypeOK, NameGroup
<1>2. UndoInv' /\ PlanInv'
  BY <1>1, PlanKept
<1>3. /\ undo' = undo /\ base' = base /\ Named' = Named /\ touched' = touched
      /\ Gone' = Gone /\ \A h : Members(h)' = Members(h)
  BY <1>1 DEF plan, Named, bounds, Members, readings, Gone, Exists
<1>4. HasTabs /\ HasGroups /\ ~InTabs
  BY <1>1 DEF HasTabs, HasGroups, InTabs
<1>5. CASE ~Exists(m, groupOf)
  <2>1. phase' = "threw" /\ UNCHANGED <<look, groupsLeft>>
    BY <1>5 DEF NameGroup
  <2>2. TypeOK'
    BY <1>1, <2>1 DEF TypeOK, Phases, plan, readings, bounds
  <2>3. WorldInv'
    BY <1>1, <2>1, WorldKept DEF bounds, chromeState
  <2>4. ReadingInv' /\ MappingInv' /\ PlacedInv' /\ ReportInv'
    BY <2>1, <2>2, NothingRead DEF TypeOK, HasTabs
  <2>5. TriesInv'
    <3> SUFFICES ASSUME edits = 0 PROVE touched = {} /\ tries <= Cardinality(Gone)
      BY <1>1, <1>3, <2>1 DEF TriesInv, HasGroups, bounds
    <3>1. m = g
      BY <1>1, <1>4, <1>5 DEF TriesInv, Exists, Members, UndoInv, UndoSnapshot
    <3>2. g \in currentGroupIDs
      BY <1>1, <1>4, <3>1 DEF MappingInv
    <3> QED BY <1>1, <1>4, <1>5, <3>1, <3>2, ThrowsAtAnother
  <2> QED BY <1>2, <2>2, <2>3, <2>4, <2>5
<1>6. CASE Exists(m, groupOf)
  <2>1. look' = [look EXCEPT ![m] = g] /\ groupsLeft' = groupsLeft \ {g} /\ phase' = "groups"
    BY <1>6 DEF NameGroup
  <2>2. HasTabs' /\ HasGroups' /\ ~InTabs'
    BY <2>1 DEF HasTabs, HasGroups, InTabs
  <2>3. TypeOK'
    BY <1>1, <2>1 DEF TypeOK, Phases, plan, readings, bounds
  <2>4. \A h \in InitGroups : look'[h] = h
    BY <1>1, <1>4, <2>1, PlaceAssumption DEF WorldInv, MappingInv, TypeOK
  <2>5. WorldInv'
    BY <1>1, <1>3, <2>4 DEF WorldInv, GroupsUsed
  <2>6. ReadingInv'
    BY <1>1, <1>3, <1>4, <2>1, <2>2 DEF ReadingInv, readings
  <2>7. MappingInv'
    <3>1. look'[m] = g /\ \A h \in GroupIDs \ {m} : look'[h] = look[h]
      BY <1>1, <2>1 DEF TypeOK
    <3>2. \A h \in undo.groups \ groupsLeft :
            IF groupMapping[h] = None THEN h \notin currentGroupIDs /\ Members(h) = {}
            ELSE look'[groupMapping[h]] = h
      BY <1>1, <1>4, <3>1 DEF MappingInv, TypeOK
    <3>3. \A h \in groupsLeft \ {g} : groupMapping[h] = None
      BY <1>1, <1>4 DEF MappingInv, TypeOK
    <3> QED BY <1>1, <1>3, <1>4, <2>1, <2>2, <3>1, <3>2, <3>3 DEF MappingInv, readings
  <2>8. PlacedInv' /\ ReportInv'
    BY <1>1, <1>3, <1>4, <2>2 DEF PlacedInv, ReportInv, readings
  <2>9. TriesInv'
    BY <1>1, <1>3, <1>4, <2>1, <2>2 DEF TriesInv, bounds, readings
  <2> QED BY <1>2, <2>3, <2>5, <2>6, <2>7, <2>8, <2>9
<1> QED BY <1>5, <1>6

\* The first loop is over: every group is kept, made or given up.
LEMMA FinishGroupsInv ==
  ASSUME IInv, FinishGroups
  PROVE  IInv'
<1> USE DEF IInv, FinishGroups
<1>1. TypeOK'
  BY DEF TypeOK, Phases, chromeState, plan, readings, loops, bounds
<1>2. UndoInv' /\ PlanInv' /\ WorldInv'
  BY PlanKept, WorldKept DEF bounds
<1>3. tabsLeft = Named /\ HasTabs /\ HasGroups /\ ~InTabs /\ HasTabs' /\ HasGroups' /\ InTabs'
  BY DEF ReadingInv, HasTabs, HasGroups, InTabs
<1>4. /\ undo' = undo /\ base' = base /\ Named' = Named /\ touched' = touched
      /\ Gone' = Gone /\ \A h : Members(h)' = Members(h)
  BY DEF plan, Named, bounds, Members, readings, Gone, Exists, chromeState
<1>5. ReadingInv' /\ MappingInv'
  BY <1>3, <1>4 DEF ReadingInv, MappingInv, readings, loops, chromeState
<1>6. PlacedInv' /\ ReportInv'
  BY <1>3, <1>4 DEF PlacedInv, ReportInv, readings, loops
<1>7. TriesInv'
  BY <1>3, <1>4 DEF TriesInv, bounds, readings, loops, chromeState
<1> QED BY <1>1, <1>2, <1>5, <1>6, <1>7

-----------------------------------------------------------------------------
(* Its second and third loop.                                              *)

\* Where a tab goes: to what stands for its group, or out of any group.
LEMMA DestinationOf ==
  ASSUME IInv, InTabs, NEW t \in tabsLeft
  PROVE  /\ t \in Named /\ t \in Tabs /\ undo.tabs[t] = base[t]
         /\ base[t] = Ungrouped =>
              /\ Destination(t) \in {Ungrouped, groupOf[t]}
              /\ currentTabs[t] # Closed /\ t \notin touched => Destination(t) = Ungrouped
         /\ base[t] # Ungrouped => base[t] \in undo.groups /\ Destination(t) = groupMapping[base[t]]
         /\ base[t] # Ungrouped /\ currentTabs[t] # Closed =>
              t \in Members(base[t]) /\ Destination(t) \in GroupIDs
<1> USE DEF IInv
<1>1. t \in Named /\ t \in Tabs /\ undo.tabs[t] = base[t]
  BY DEF TypeOK, Named, UndoInv
<1>2. HasTabs /\ HasGroups
  BY DEF InTabs, HasTabs, HasGroups
<1>3. CASE base[t] = Ungrouped
  <2>1. Destination(t) = IF currentTabs[t] \in GroupIDs THEN Ungrouped ELSE groupOf[t]
    BY <1>1, <1>3 DEF Destination
  <2>2. t \notin touched => groupOf[t] = currentTabs[t]
    BY <1>1, <1>2, <1>3 DEF ReadingInv
  <2>3. currentTabs[t] \in Places
    BY <1>1 DEF TypeOK
  <2> QED BY <1>1, <1>3, <2>1, <2>2, <2>3 DEF Places
<1>4. CASE base[t] # Ungrouped
  <2>1. base[t] \in undo.groups /\ Destination(t) = groupMapping[base[t]]
    BY <1>1, <1>4, PlaceAssumption DEF Destination, UndoInv
  <2>2. ASSUME currentTabs[t] # Closed
        PROVE  t \in Members(base[t]) /\ Destination(t) \in GroupIDs
    <3>1. t \in Members(base[t])
      BY <1>1, <2>2 DEF Members, Named
    <3>2. groupMapping[base[t]] # None
      BY <1>2, <2>1, <3>1 DEF MappingInv
    <3> QED BY <2>1, <3>1, <3>2 DEF TypeOK
  <2> QED BY <1>1, <1>4, <2>1, <2>2
<1> QED BY <1>3, <1>4

\* Only closed tabs are skipped.
LEMMA SkipTabInv ==
  ASSUME IInv, NEW t \in Tabs, SkipTab(t)
  PROVE  IInv'
<1> USE DEF IInv
<1>1. /\ phase = "tabs" /\ t \in tabsLeft /\ ~Placeable(t)
      /\ tabsLeft' = tabsLeft \ {t} /\ unrestorable' = TRUE
      /\ UNCHANGED <<chromeState, plan, phase, readings, groupMapping, groupsLeft, bounds>>
  BY DEF SkipTab, Report
<1>2. HasTabs /\ HasGroups /\ InTabs /\ HasTabs' /\ HasGroups' /\ InTabs'
  BY <1>1 DEF HasTabs, HasGroups, InTabs
<1>3. /\ undo' = undo /\ base' = base /\ Named' = Named /\ touched' = touched
      /\ Gone' = Gone /\ \A h : Members(h)' = Members(h)
  BY <1>1 DEF plan, Named, bounds, Members, readings, Gone, Exists, chromeState
<1>4. t \in Named /\ currentTabs[t] = Closed
  <2>1. ASSUME currentTabs[t] # Closed PROVE FALSE
    <3>1. Destination(t) = None
      BY <1>1, <2>1 DEF Placeable
    <3>2. Destination(t) \in GroupIDs \cup {Ungrouped, groupOf[t]}
      BY <1>1, <1>2, <2>1, DestinationOf
    <3> QED BY <3>1, <3>2, SpecialValues DEF TypeOK, Places
  <2> QED BY <1>1, <1>2, <2>1, DestinationOf
<1>5. t \in touched
  BY <1>2, <1>4 DEF ReadingInv, WorldInv
<1>6. TypeOK'
  BY <1>1 DEF TypeOK, chromeState, plan, readings, bounds
<1>7. UndoInv' /\ PlanInv' /\ WorldInv'
  BY <1>1, PlanKept, WorldKept DEF bounds
<1>8. ReadingInv'
  BY <1>1, <1>2, <1>3 DEF ReadingInv, readings, chromeState
<1>9. MappingInv'
  BY <1>1, <1>2, <1>3 DEF MappingInv, readings, chromeState
<1>10. PlacedInv'
  BY <1>1, <1>2, <1>3, <1>5 DEF PlacedInv, chromeState
<1>11. ReportInv'
  BY <1>1, <1>2, <1>3, <1>4 DEF ReportInv, readings
<1>12. TriesInv'
  BY <1>1, <1>2, <1>3 DEF TriesInv, bounds, readings, chromeState
<1> QED BY <1>6, <1>7, <1>8, <1>9, <1>10, <1>11, <1>12

\* Second loop: a tab is placed.
LEMMA PlaceTabInv ==
  ASSUME IInv, NEW t \in Tabs, PlaceTab(t)
  PROVE  IInv'
<1> USE DEF IInv
<1> DEFINE place == Destination(t)
           done  == groupOf[t] # Closed /\ (place \in GroupIDs => Exists(place, groupOf))
<1>1. /\ phase = "tabs" /\ t \in tabsLeft /\ currentTabs[t] # Closed
      /\ UNCHANGED <<usedGroups, look, plan, readings, groupMapping, groupsLeft, unrestorable, bounds>>
  BY DEF PlaceTab, Placeable
<1>2. HasTabs /\ HasGroups /\ InTabs
  BY <1>1 DEF HasTabs, HasGroups, InTabs
<1>3. /\ undo' = undo /\ base' = base /\ Named' = Named /\ touched' = touched
      /\ \A h : Members(h)' = Members(h)
  BY <1>1 DEF plan, Named, bounds, Members, readings
<1>4. /\ t \in Named /\ undo.tabs[t] = base[t]
      /\ base[t] = Ungrouped =>
           place \in {Ungrouped, groupOf[t]} /\ (t \notin touched => place = Ungrouped)
      /\ base[t] # Ungrouped =>
           /\ base[t] \in undo.groups /\ place = groupMapping[base[t]]
           /\ t \in Members(base[t]) /\ place \in GroupIDs
  BY <1>1, <1>2, DestinationOf
<1>5. UndoInv' /\ PlanInv'
  BY <1>1, PlanKept
<1> HIDE DEF place
<1>6. CASE ~done
  <2>1. phase' = "threw" /\ UNCHANGED <<groupOf, tabsLeft>>
    BY <1>6 DEF PlaceTab, place
  <2>2. TypeOK'
    BY <1>1, <2>1 DEF TypeOK, Phases, plan, readings, bounds
  <2>3. WorldInv'
    BY <1>1, <2>1, WorldKept DEF bounds, chromeState
  <2>4. ReadingInv' /\ MappingInv' /\ PlacedInv' /\ ReportInv'
    BY <2>1, <2>2, NothingRead DEF TypeOK, HasTabs
  <2>5. TriesInv'
    <3> SUFFICES ASSUME edits = 0 PROVE touched = {} /\ tries <= Cardinality(Gone)
      BY <1>1, <1>3, <2>1 DEF TriesInv, HasGroups, bounds, Gone, Exists
    <3>1. groupOf[t] # Closed
      BY DEF TriesInv, WorldInv
    <3>2. place \in GroupIDs /\ ~Exists(place, groupOf)
      BY <1>6, <3>1
    <3>3. place # groupOf[t] /\ base[t] # Ungrouped
      BY <1>4, <3>2, SpecialValues DEF Exists
    <3>4. place = base[t]
      BY <1>2, <1>4, <3>2, <3>3, SpecialValues DEF TriesInv
    <3>5. base[t] \in currentGroupIDs
      BY <1>2, <1>4, <3>2, <3>3, <3>4, SpecialValues DEF MappingInv
    <3> QED BY <1>2, <1>4, <3>2, <3>3, <3>4, <3>5, ThrowsAtAnother
  <2> QED BY <1>5, <2>2, <2>3, <2>4, <2>5
<1>7. CASE done
  <2>1. groupOf' = [groupOf EXCEPT ![t] = place] /\ tabsLeft' = tabsLeft \ {t} /\ phase' = "tabs"
    BY <1>1, <1>7 DEF PlaceTab, place
  <2>2. HasTabs' /\ HasGroups' /\ InTabs'
    BY <2>1 DEF HasTabs, HasGroups, InTabs
  <2>3. groupOf[t] # Closed /\ place \in Places /\ place # Closed
    BY <1>4, <1>7, SpecialValues DEF TypeOK, Places
  <2>4. place \in GroupIDs => place \in usedGroups
    BY <1>7 DEF WorldInv, GroupsUsed, Exists
  <2>5. groupOf'[t] = place /\ \A u \in Tabs \ {t} : groupOf'[u] = groupOf[u]
    BY <2>1 DEF TypeOK
  <2>6. TypeOK'
    BY <1>1, <2>1, <2>3 DEF TypeOK, plan, readings, bounds
  <2>7. WorldInv'
    BY <1>1, <1>3, <1>4, <2>3, <2>4, <2>5 DEF WorldInv, GroupsUsed
  <2>8. ReadingInv'
    <3>1. \A u \in Tabs : currentTabs[u] = Closed => groupOf'[u] = Closed
      BY <1>1, <1>2, <2>5 DEF ReadingInv
    <3>2. \A u \in tabsLeft' \ touched : base[u] = Ungrouped => groupOf'[u] = currentTabs[u]
      BY <1>2, <2>1, <2>5 DEF ReadingInv, TypeOK, UndoInv, UndoSnapshot
    <3> QED BY <1>1, <1>2, <1>3, <2>1, <2>2, <3>1, <3>2 DEF ReadingInv, readings
  <2>9. MappingInv'
    BY <1>1, <1>2, <1>3, <2>1, <2>2 DEF MappingInv, readings
  <2>10. PlacedInv'
    <3>1. \A u \in Named \ (tabsLeft' \cup touched) :
            IF base[u] = Ungrouped THEN groupOf'[u] = Ungrouped
            ELSE groupMapping[base[u]] # None /\ groupOf'[u] = groupMapping[base[u]]
      <4> TAKE u \in Named \ (tabsLeft' \cup touched)
      <4>1. CASE u = t
        BY <1>4, <2>5, <4>1, SpecialValues
      <4>2. CASE u # t
        BY <1>2, <2>1, <2>5, <4>2 DEF PlacedInv, Named, TypeOK
      <4> QED BY <4>1, <4>2
    <3> QED BY <1>1, <1>3, <2>1, <3>1 DEF PlacedInv
  <2>11. ReportInv'
    BY <1>1, <1>2, <1>3, <2>1, <2>2 DEF ReportInv, readings
  <2>12. TriesInv'
    <3> SUFFICES ASSUME edits' = 0 PROVE TriesInv'
      BY DEF TriesInv
    <3>1. edits = 0 /\ tries' = tries /\ currentGroupIDs' = currentGroupIDs
      BY <1>1 DEF bounds, readings
    <3>2. ASSUME NEW h \in undo.groups \ currentGroupIDs PROVE h \in Gone'
      <4>1. h \in GroupIDs /\ h \in InitGroups /\ h \in Gone
        BY <1>2, <3>1, <3>2, SnapshotGroupsUsed DEF TypeOK, TriesInv
      <4>2. \A u \in Tabs : groupOf[u] # h
        BY <4>1 DEF Gone, Exists
      <4>3. place # h
        BY <1>2, <1>4, <3>2, <4>1, <4>2, SpecialValues DEF MappingInv
      <4> QED BY <1>3, <2>5, <4>1, <4>2, <4>3 DEF Gone, Exists
    <3>3. ASSUME NEW h \in undo.groups, groupMapping[h] \notin {None, h}
          PROVE  Members(h) # {} /\ \A u \in Members(h) : groupOf'[u] = groupMapping[h]
      <4>1. Members(h) # {} /\ \A u \in Members(h) : groupOf[u] = groupMapping[h]
        BY <1>2, <3>1, <3>3 DEF TriesInv
      <4>2. t \in Members(h) => place = groupMapping[h]
        BY <1>4, SpecialValues DEF Members, TypeOK
      <4>3. Members(h) \subseteq Tabs
        BY DEF Members, TypeOK
      <4> QED BY <2>5, <4>1, <4>2, <4>3
    <3> QED BY <1>1, <1>2, <1>3, <2>1, <3>1, <3>2, <3>3 DEF TriesInv, HasGroups, bounds
  <2> QED BY <1>5, <2>6, <2>7, <2>8, <2>9, <2>10, <2>11, <2>12
<1> QED BY <1>6, <1>7

\* The second loop is over: every tab is placed or skipped.
LEMMA FinishTabsInv ==
  ASSUME IInv, FinishTabs
  PROVE  IInv'
<1> USE DEF IInv, FinishTabs
<1>1. TypeOK'
  BY DEF TypeOK, Phases, chromeState, plan, readings, loops, bounds
<1>2. UndoInv' /\ PlanInv' /\ WorldInv'
  BY PlanKept, WorldKept DEF bounds
<1>3. HasTabs /\ HasGroups /\ InTabs /\ HasTabs' /\ HasGroups' /\ InTabs'
  BY DEF HasTabs, HasGroups, InTabs
<1>4. /\ undo' = undo /\ base' = base /\ Named' = Named /\ touched' = touched
      /\ Gone' = Gone /\ \A h : Members(h)' = Members(h)
  BY DEF plan, Named, bounds, Members, readings, Gone, Exists, chromeState
<1>5. ReadingInv' /\ MappingInv'
  BY <1>3, <1>4 DEF ReadingInv, MappingInv, readings, loops, chromeState
<1>6. PlacedInv' /\ ReportInv'
  BY <1>3, <1>4 DEF PlacedInv, ReportInv, readings, loops, chromeState
<1>7. TriesInv'
  BY <1>3, <1>4 DEF TriesInv, bounds, readings, loops, chromeState
<1> QED BY <1>1, <1>2, <1>5, <1>6, <1>7

\* Only a tab that the user has closed makes it throw.
LEMMA ArrangeInv ==
  ASSUME IInv, Arrange
  PROVE  IInv'
<1> USE DEF IInv, Arrange
<1>1. phase' \in {"threw", "returned"}
  OBVIOUS
<1>2. TypeOK'
  BY <1>1 DEF TypeOK, Phases, chromeState, plan, readings, loops, bounds
<1>3. UndoInv' /\ PlanInv' /\ WorldInv'
  BY PlanKept, WorldKept DEF bounds
<1>4. HasTabs /\ HasGroups /\ InTabs
  BY DEF HasTabs, HasGroups, InTabs
<1>5. /\ undo' = undo /\ base' = base /\ Named' = Named /\ touched' = touched
      /\ Gone' = Gone /\ \A h : Members(h)' = Members(h)
  BY DEF plan, Named, bounds, Members, readings, Gone, Exists, chromeState
<1>6. CASE phase' = "threw"
  <2>1. ReadingInv' /\ MappingInv' /\ PlacedInv' /\ ReportInv'
    BY <1>2, <1>6, NothingRead DEF TypeOK, HasTabs
  <2>2. PICK t \in Named : groupOf[t] = Closed
    BY <1>6 DEF Named
  <2>3. edits' # 0
    BY <2>2 DEF TriesInv, WorldInv, UndoInv, UndoSnapshot, Named, bounds
  <2> QED BY <1>2, <1>3, <2>1, <2>3 DEF TriesInv
<1>7. CASE phase' = "returned"
  <2>1. HasTabs' /\ HasGroups' /\ InTabs'
    BY <1>7 DEF HasTabs, HasGroups, InTabs
  <2>2. ReadingInv' /\ MappingInv'
    BY <1>4, <1>5, <1>7, <2>1 DEF ReadingInv, MappingInv, readings, loops, chromeState
  <2>3. PlacedInv' /\ ReportInv'
    BY <1>4, <1>5, <1>7, <2>1 DEF PlacedInv, ReportInv, readings, loops, chromeState
  <2>4. TriesInv'
    BY <1>4, <1>5, <1>7, <2>1 DEF TriesInv, bounds, readings, loops, chromeState
  <2> QED BY <1>2, <1>3, <2>2, <2>3, <2>4
<1> QED BY <1>1, <1>6, <1>7

-----------------------------------------------------------------------------
(* The user, and the beginning.                                            *)

\* The user moves or closes a tab between any two calls.
LEMMA UserMovesInv ==
  ASSUME IInv, NEW t \in Tabs, NEW place \in Places, UserMoves(t, place)
  PROVE  IInv'
<1> USE DEF IInv
<1>1. /\ phase \notin {"applying", "returned"} /\ groupOf[t] # Closed
      /\ place \in {Ungrouped, Closed} \/ Exists(place, groupOf) \/ NewGroups({place})
      /\ edits < MaxEdits /\ edits' = edits + 1
      /\ groupOf' = [groupOf EXCEPT ![t] = place]
      /\ usedGroups' = usedGroups \cup ({place} \cap GroupIDs)
      /\ touched' = touched \cup {t}
      /\ UNCHANGED <<look, plan, phase, readings, loops, tries>>
  BY DEF UserMoves
<1>2. groupOf'[t] = place /\ \A u \in Tabs \ {t} : groupOf'[u] = groupOf[u]
  BY <1>1 DEF TypeOK
<1>3. /\ undo' = undo /\ base' = base /\ Named' = Named /\ \A h : Members(h)' = Members(h)
      /\ HasTabs' = HasTabs /\ HasGroups' = HasGroups /\ InTabs' = InTabs
  BY <1>1 DEF plan, Named, Members, readings, HasTabs, HasGroups, InTabs
<1>4. edits \in Nat /\ edits' \in 0..MaxEdits /\ edits' # 0
  BY <1>1, BoundsAssumption DEF TypeOK
<1>5. TypeOK'
  BY <1>1, <1>4 DEF TypeOK, plan, readings, loops
<1>6. UndoInv' /\ PlanInv'
  BY <1>1, PlanKept
<1>7. WorldInv'
  BY <1>1, <1>2, <1>3 DEF WorldInv, GroupsUsed
<1>8. ReadingInv'
  <2>1. HasTabs => \A u \in Tabs : currentTabs[u] = Closed => groupOf'[u] = Closed
    BY <1>1, <1>2 DEF ReadingInv
  <2>2. HasTabs => \A u \in tabsLeft \ touched' : base[u] = Ungrouped => groupOf'[u] = currentTabs[u]
    BY <1>1, <1>2 DEF ReadingInv, TypeOK, UndoInv, UndoSnapshot
  <2> QED BY <1>1, <1>3, <2>1, <2>2 DEF ReadingInv, readings, loops
<1>9. MappingInv'
  BY <1>1, <1>3 DEF MappingInv, readings, loops
<1>10. PlacedInv'
  BY <1>1, <1>2, <1>3 DEF PlacedInv, loops, Named, UndoInv, UndoSnapshot
<1>11. ReportInv'
  BY <1>1, <1>3 DEF ReportInv, readings, loops
<1>12. TriesInv'
  BY <1>4 DEF TriesInv
<1> QED BY <1>5, <1>6, <1>7, <1>8, <1>9, <1>10, <1>11, <1>12

\* The state in which Apply has compared the revisions.
LEMMA InitInv ==
  ASSUME Init
  PROVE  IInv
<1>1. /\ base \in [Tabs -> InitGroups \cup {Ungrouped}] /\ undo = CaptureUndoSnapshot(base, todo)
      /\ createdGroups = NoGroups /\ groupOf = base /\ usedGroups = InitGroups
      /\ look = [g \in GroupIDs |-> IF g \in InitGroups THEN g ELSE None]
      /\ phase = "applying" /\ currentTabs = base /\ currentGroupIDs = {}
      /\ groupMapping = [g \in undo.groups |-> None]
      /\ groupsLeft = {} /\ tabsLeft = {} /\ unrestorable = FALSE
      /\ touched = {} /\ tries = 0 /\ edits = 0
  BY DEF Init, NoGroups
<1>2. base \in [Tabs -> Places]
  BY <1>1, PlaceAssumption DEF Places
<1>3. RunnableOperations(todo)
  BY <1>2, BuildOperationsType DEF Init
<1>4. todo \in SUBSET Operation
  BY <1>3 DEF RunnableOperations, OperationsOK
<1>5. undo \in UndoSnapshot
  BY <1>1, <1>2, <1>4, CaptureUndoSnapshotType
<1>6. /\ Named = {o.tab : o \in todo} /\ Named \subseteq Tabs
      /\ \A t \in Named : undo.tabs[t] = base[t]
  BY <1>1, <1>4 DEF Named, CaptureUndoSnapshot, Operation
<1>7. undo.groups \subseteq GroupIDs /\ \A g \in undo.groups : Exists(g, base)
  BY <1>1 DEF CaptureUndoSnapshot
<1>8. ASSUME NEW t \in Named, base[t] \in GroupIDs PROVE base[t] \in undo.groups
  BY <1>1, <1>6, <1>8 DEF CaptureUndoSnapshot, Exists
<1>9. UndoInv
  BY <1>1, <1>5, <1>6, <1>7, <1>8 DEF UndoInv
<1>10. PlanInv
  BY <1>1, <1>3, <1>6 DEF PlanInv, RunnableOperations
<1>11. TypeOK
  <2>1. \A t \in DOMAIN undo.tabs : undo.tabs[t] \in undo.groups \cup {Ungrouped}
    BY <1>1, <1>6, <1>8, PlaceAssumption DEF Named
  <2>2. tries \in 0..MaxTries /\ edits \in 0..MaxEdits
    BY <1>1, BoundsAssumption
  <2>3. createdGroups \in [Keys -> GroupIDs \cup {None}]
    BY <1>1 DEF NoGroups
  <2> QED BY <1>1, <1>2, <1>4, <1>6, <1>7, <2>1, <2>2, <2>3, PlaceAssumption DEF TypeOK, Phases, Named
<1>12. WorldInv
  BY <1>1, <1>2, PlaceAssumption, SpecialValues DEF WorldInv, GroupsUsed
<1>13. ReadingInv /\ MappingInv /\ PlacedInv /\ ReportInv
  BY <1>1 DEF ReadingInv, MappingInv, PlacedInv, ReportInv, HasTabs, HasGroups, InTabs
<1>14. TriesInv
  BY <1>1 DEF TriesInv, HasGroups
<1> QED BY <1>9, <1>10, <1>11, <1>12, <1>13, <1>14 DEF IInv

\* No step, the stuttering one included, breaks the invariant.
LEMMA NextInv ==
  ASSUME IInv, [Next]_vars
  PROVE  IInv'
<1>1. CASE CarryOut
  BY <1>1, CarryOutInv
<1>2. CASE RefuseOperation \/ FinishApply
  BY <1>2, EndOfApplyInv
<1>3. CASE Restore
  BY <1>3, BeginRestoreInv, ReadTabsInv, ReadGroupsInv, KeepGroupInv, GiveUpGroupInv, MakeGroupInv,
     NameGroupInv, FinishGroupsInv, SkipTabInv, PlaceTabInv, FinishTabsInv, ArrangeInv DEF Restore
<1>4. CASE \E t \in Tabs, place \in Places : UserMoves(t, place)
  BY <1>4, UserMovesInv
<1>5. CASE UNCHANGED vars
  <2>1. UNCHANGED <<chromeState, plan, phase, readings, loops, bounds>>
    BY <1>5 DEF vars
  <2>2. UndoInv' /\ PlanInv' /\ WorldInv'
    BY <2>1, PlanKept, WorldKept DEF IInv, bounds
  <2>3. TypeOK'
    BY <2>1 DEF IInv, TypeOK, chromeState, plan, readings, loops, bounds
  <2>4. /\ Named' = Named /\ Gone' = Gone /\ \A h : Members(h)' = Members(h)
        /\ HasTabs' = HasTabs /\ HasGroups' = HasGroups /\ InTabs' = InTabs
    BY <2>1 DEF Named, Gone, Members, Exists, plan, readings, chromeState, HasTabs, HasGroups, InTabs
  <2>5. ReadingInv' /\ MappingInv'
    BY <2>1, <2>4 DEF IInv, ReadingInv, MappingInv, plan, readings, loops, bounds, chromeState
  <2>6. PlacedInv' /\ ReportInv'
    BY <2>1, <2>4 DEF IInv, PlacedInv, ReportInv, plan, readings, loops, bounds, chromeState
  <2>7. TriesInv'
    BY <2>1, <2>4 DEF IInv, TriesInv, plan, readings, loops, bounds, chromeState
  <2> QED BY <2>2, <2>3, <2>5, <2>6, <2>7 DEF IInv
<1> QED BY <1>1, <1>2, <1>3, <1>4, <1>5 DEF Next

-----------------------------------------------------------------------------
(* The theorems.                                                           *)

\* The invariant holds of applyChromeOperation, restoreChromeSnapshot and the user.
THEOREM Invariance == Spec => []IInv
<1>1. Init => IInv
  BY InitInv
<1>2. IInv /\ [Next]_vars => IInv'
  BY NextInv
<1> QED BY <1>1, <1>2, PTL DEF Spec

\* The locals of restoreChromeSnapshot, the snapshot and the groups are what they
\* are said to be.
THEOREM TypeCorrect == Spec => []TypeOK
<1>1. IInv => TypeOK
  BY DEF IInv
<1> QED BY <1>1, Invariance, PTL

\* Where a tab is that the user has left alone when the restore has returned: where
\* it was, or with what stands for its group.
LEMMA WhereItIs ==
  ASSUME IInv, phase = "returned", NEW t \in Tabs \ touched
  PROVE  /\ base[t] = Ungrouped => groupOf[t] = Ungrouped
         /\ base[t] # Ungrouped =>
              /\ base[t] \in GroupIDs /\ groupOf[t] \in GroupIDs
              /\ look[groupOf[t]] = base[t]
              /\ groupOf[t] = IF base[t] \in undo.groups THEN groupMapping[base[t]] ELSE base[t]
<1> USE DEF IInv
<1>1. InTabs /\ HasGroups /\ HasTabs /\ tabsLeft = {} /\ groupsLeft = {}
  BY DEF InTabs, HasGroups, HasTabs, PlacedInv, MappingInv
<1>2. base[t] # Ungrouped => base[t] \in InitGroups /\ base[t] \in GroupIDs
  BY PlaceAssumption DEF UndoInv
<1>3. CASE t \in Named
  <2>1. IF base[t] = Ungrouped THEN groupOf[t] = Ungrouped
        ELSE groupMapping[base[t]] # None /\ groupOf[t] = groupMapping[base[t]]
    BY <1>1, <1>3 DEF PlacedInv
  <2>2. base[t] # Ungrouped => base[t] \in undo.groups
    BY <1>2, <1>3 DEF UndoInv
  <2> QED BY <1>1, <1>2, <2>1, <2>2 DEF MappingInv, TypeOK
<1>4. CASE t \notin Named
  <2>1. groupOf[t] = base[t] /\ (base[t] # Ungrouped => look[base[t]] = base[t])
    BY <1>2, <1>4 DEF WorldInv
  <2>2. base[t] # Ungrouped => base[t] \in currentGroupIDs
    BY <1>1, <1>2, <1>4 DEF ReadingInv
  <2>3. base[t] \in undo.groups => groupMapping[base[t]] = base[t]
    BY <1>1, <1>2, <2>2, SpecialValues DEF MappingInv, UndoInv, UndoSnapshot
  <2> QED BY <1>2, <2>1, <2>3
<1> QED BY <1>3, <1>4

\* When restoreChromeSnapshot returns, the tabs the user has left alone are back,
\* together with the tabs they were with.
THEOREM ComesBack == Spec => []ReturnedMeansBack
<1>1. ASSUME IInv PROVE ReturnedMeansBack
  <2> SUFFICES ASSUME phase = "returned", NEW t \in Tabs \ touched, NEW u \in Tabs \ touched
               PROVE  /\ Back(t)
                      /\ base[t] \in GroupIDs => (base[t] = base[u] <=> groupOf[t] = groupOf[u])
    BY DEF ReturnedMeansBack
  <2>1. Back(t)
    BY <1>1, WhereItIs DEF Back
  <2>2. ASSUME base[t] \in GroupIDs PROVE base[t] = base[u] <=> groupOf[t] = groupOf[u]
    <3>1. base[t] # Ungrouped
      BY <2>2, SpecialValues
    <3>2. base[u] = Ungrouped => groupOf[u] = Ungrouped /\ groupOf[u] # groupOf[t]
      BY <1>1, <3>1, WhereItIs, SpecialValues
    <3>3. base[u] # Ungrouped => (base[t] = base[u] <=> groupOf[t] = groupOf[u])
      BY <1>1, <3>1, WhereItIs
    <3> QED BY <3>1, <3>2, <3>3
  <2> QED BY <2>1, <2>2
<1> QED BY <1>1, Invariance, PTL

\* Unless the user has moved tabs, restoreChromeSnapshot lists something as
\* unrestorable exactly when a tab or a group of the snapshot is missing.
THEOREM SaysWhatIsMissing == Spec => []ReportIsHonest
<1>1. ASSUME IInv PROVE ReportIsHonest
  <2> SUFFICES ASSUME phase = "returned", touched \subseteq {t \in Named : currentTabs[t] = Closed}
               PROVE  unrestorable <=> \/ \E t \in Named : groupOf[t] = Closed
                                       \/ \E g \in undo.groups :
                                            \A h \in Groups(groupOf) : look[h] # g
    BY DEF ReportIsHonest, Named
  <2> USE <1>1 DEF IInv
  <2>1. InTabs /\ HasGroups /\ HasTabs /\ tabsLeft = {} /\ Named \subseteq Tabs
    BY DEF InTabs, HasGroups, HasTabs, PlacedInv, Named, UndoInv, UndoSnapshot
  <2>2. \A t \in Tabs : currentTabs[t] = Closed => groupOf[t] = Closed
    BY <2>1 DEF ReadingInv
  <2>3. ASSUME unrestorable, NEW g \in undo.groups \ currentGroupIDs, Members(g) = {},
               NEW h \in Groups(groupOf), look[h] = g
        PROVE  FALSE
    <3>1. PICK u \in Tabs : groupOf[u] = h /\ h \in GroupIDs
      BY DEF Groups, Exists
    <3>2. u \notin touched
      BY <2>2, <3>1, SpecialValues
    <3>3. base[u] = g
      BY <2>3, <3>1, <3>2, WhereItIs, SpecialValues
    <3>4. u \notin Named
      <4>1. u \in Named => u \in Members(g)
        BY <2>2, <3>1, <3>3, SpecialValues DEF Members, UndoInv, Named
      <4> QED BY <2>3, <4>1
    <3>5. g \in currentGroupIDs
      BY <2>1, <3>2, <3>3, <3>4 DEF ReadingInv, UndoInv, UndoSnapshot
    <3> QED BY <3>5
  <2>4. ASSUME unrestorable
        PROVE  \/ \E t \in Named : groupOf[t] = Closed
               \/ \E g \in undo.groups : \A h \in Groups(groupOf) : look[h] # g
    <3>1. CASE \E t \in Named : currentTabs[t] = Closed
      BY <2>1, <2>2, <3>1
    <3>2. CASE \E g \in undo.groups \ currentGroupIDs : Members(g) = {}
      BY <2>3, <2>4, <3>2
    <3> QED BY <2>1, <2>4, <3>1, <3>2 DEF ReportInv
  <2>5. ASSUME NEW t \in Named, groupOf[t] = Closed PROVE unrestorable
    BY <2>1, <2>5 DEF WorldInv, ReportInv
  <2>6. ASSUME NEW g \in undo.groups, \A h \in Groups(groupOf) : look[h] # g PROVE unrestorable
    <3>1. PICK u \in Tabs : base[u] = g
      BY DEF UndoInv, Exists
    <3>2. CASE u \in touched
      BY <2>1, <3>2 DEF ReportInv
    <3>3. CASE u \notin touched
      <4>1. groupOf[u] \in Groups(groupOf) /\ look[groupOf[u]] = g
        <5>1. base[u] # Ungrouped
          BY <3>1, SpecialValues DEF TypeOK
        <5> QED BY <3>1, <3>3, <5>1, WhereItIs DEF Groups, Exists
      <4> QED BY <2>6, <4>1
    <3> QED BY <3>2, <3>3
  <2> QED BY <2>4, <2>5, <2>6
<1> QED BY <1>1, Invariance, PTL

\* With nobody else moving tabs, restoreChromeSnapshot throws at most once for each
\* group of the snapshot.
THEOREM UndoNeedsFewTries == Spec => []RetriesSuffice
<1>1. ASSUME IInv PROVE RetriesSuffice
  <2>1. /\ Cardinality(Gone) \in Nat /\ Cardinality(undo.groups) \in Nat
        /\ Cardinality(Gone) <= Cardinality(undo.groups)
    BY <1>1, FiniteGroups DEF IInv, Gone
  <2> QED BY <1>1, <2>1 DEF IInv, TriesInv, RetriesSuffice, TypeOK
<1> QED BY <1>1, Invariance, PTL
=============================================================================
