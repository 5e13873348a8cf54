--------------------------- MODULE PlanApplyProofs ---------------------------
(***************************************************************************)
(* What holds of PlanApply for any number of clients, tabs, groups, keys   *)
(* and previews, any plans, and any bound: the types, that a preview's     *)
(* operations are begun at most once, that one call at a time changes      *)
(* Chrome, and that every move finds the group it is to go to; then that,  *)
(* while nobody else moves a tab, an apply works on the grouping the user  *)
(* saw in the preview, and when it succeeds, it has done what its plan     *)
(* says and nothing else, and when it is rolled back or undone in full,    *)
(* the tabs are together as they were before it.                           *)
(***************************************************************************)
EXTENDS PlanApply, CommonLemmas

-----------------------------------------------------------------------------
(* Plans, their operations, and what an operation does to Chrome.          *)

\* The special values differ from each other.
LEMMA SpecialValues ==
  /\ Ungrouped # Closed /\ Ungrouped # None /\ Closed # None
  /\ {Ungrouped, Closed, None} \cap GroupIDs = {}
<1>1. Cardinality({Ungrouped, Closed, Unassigned, None}) = 4
  BY PlaceAssumption
<1>2. ASSUME Ungrouped = Closed \/ Ungrouped = None PROVE FALSE
  <2>1. {Ungrouped, Closed, Unassigned, None} = {Closed, Unassigned, None}
    BY <1>2
  <2> QED BY <1>1, <2>1, AtMostThree
<1>3. ASSUME Closed = None PROVE FALSE
  <2>1. {Ungrouped, Closed, Unassigned, None} = {Ungrouped, Unassigned, None}
    BY <1>3
  <2> QED BY <1>1, <2>1, AtMostThree
<1> QED BY <1>2, <1>3, PlaceAssumption

\* BuildOperations gives each operation a destination of its kind, and a
\* creation for every new group it moves a tab into.
LEMMA BuildOperationsType ==
  ASSUME NEW aPlan \in Plans, NEW grouping \in [Tabs -> Places]
  PROVE  RunnableOperations(BuildOperations(aPlan, grouping))
<1> DEFINE chosen == {t \in Assigned(aPlan) :
                        aPlan.policy = "ungrouped_only" => grouping[t] = Ungrouped}
           keyed  == {t \in chosen : aPlan.dest[t] \in Keys}
           first  == {t \in keyed : \A u \in keyed : aPlan.dest[u] = aPlan.dest[t] => t <= u}
           moved  == {t \in chosen : aPlan.dest[t] \in GroupIDs /\ grouping[t] # aPlan.dest[t]}
           freed  == {t \in chosen : aPlan.dest[t] = Ungrouped /\ grouping[t] \in GroupIDs}
           ops(kind, S) == {[kind |-> kind, tab |-> t, dest |-> aPlan.dest[t]] : t \in S}
           all    == BuildOperations(aPlan, grouping)
<1>1. aPlan.dest \in [Tabs -> Destinations]
  BY PlansAssumption
<1>2. chosen \subseteq Tabs
  BY DEF Assigned
<1>3. all = ops("create_group", first) \cup ops("move_tab", keyed \cup moved)
              \cup ops("ungroup_tab", freed)
  BY DEF BuildOperations
<1>4. OperationsOK(ops("create_group", first))
  BY <1>1, <1>2 DEF OperationsOK, Operation
<1>5. OperationsOK(ops("move_tab", keyed \cup moved))
  BY <1>1, <1>2 DEF OperationsOK, Operation
<1>6. OperationsOK(ops("ungroup_tab", freed))
  BY <1>1, <1>2 DEF OperationsOK, Operation
<1>7. OperationsOK(all)
  BY <1>3, <1>4, <1>5, <1>6 DEF OperationsOK
<1>8. ASSUME NEW o \in all, o.kind = "move_tab", o.dest \in Keys
      PROVE  \E p \in all : p.kind = "create_group" /\ p.dest = o.dest
  <2>1. PICK t \in keyed : aPlan.dest[t] = o.dest
    BY <1>3, <1>8, PlaceAssumption
  <2> DEFINE same == {u \in keyed : aPlan.dest[u] = o.dest}
  <2>2. same \subseteq Nat /\ same # {}
    BY <1>2, <2>1, TabsAssumption
  <2> HIDE DEF same
  <2>3. PICK m \in same : \A n \in same : m <= n
    BY <2>2, Least
  <2>4. m \in first /\ aPlan.dest[m] = o.dest
    BY <2>3 DEF same
  <2>5. [kind |-> "create_group", tab |-> m, dest |-> aPlan.dest[m]] \in all
    BY <1>3, <2>4
  <2>6. QED
    BY <2>4, <2>5
<1>9. CreatesItsGroups(all, NoGroups)
  BY <1>8 DEF CreatesItsGroups
<1>10. QED
  BY <1>7, <1>9 DEF RunnableOperations

\* After the next operation, what is still to be moved has its group or is still
\* to get it.
LEMMA CreatesItsGroupsKept ==
  ASSUME NEW ops, NEW created \in [Keys -> GroupIDs \cup {None}], NEW o \in ops,
         CreatesItsGroups(ops, created), NEW g \in GroupIDs,
         NEW new, new = IF o.kind = "create_group" THEN [created EXCEPT ![o.dest] = g] ELSE created
  PROVE  CreatesItsGroups(ops \ {o}, new)
<1> SUFFICES ASSUME NEW q \in ops \ {o}, q.kind = "move_tab", q.dest \in Keys
             PROVE  \/ new[q.dest] # None
                    \/ \E p \in ops \ {o} : p.kind = "create_group" /\ p.dest = q.dest
  BY DEF CreatesItsGroups
<1>1. CASE created[q.dest] # None
  BY <1>1, PlaceAssumption
<1>2. CASE \E p \in ops : p.kind = "create_group" /\ p.dest = q.dest
  <2>1. PICK p \in ops : p.kind = "create_group" /\ p.dest = q.dest
    BY <1>2
  <2>2. CASE p = o
    BY <2>1, <2>2, PlaceAssumption
  <2>3. CASE p # o
    BY <2>1, <2>3
  <2>4. QED
    BY <2>2, <2>3
<1>3. QED
  BY <1>1, <1>2 DEF CreatesItsGroups

\* What captureUndoSnapshot takes from a grouping is a snapshot Restore can be sent.
LEMMA CaptureUndoSnapshotType ==
  ASSUME NEW grouping \in [Tabs -> Places], NEW ops \in SUBSET Operation
  PROVE  CaptureUndoSnapshot(grouping, ops) \in UndoSnapshot
<1> DEFINE named == {o.tab : o \in ops}
<1>1. named \subseteq Tabs
  BY DEF Operation
<1>2. [t \in named |-> grouping[t]] \in [named -> Places]
  BY <1>1
<1>3. QED
  BY <1>1, <1>2 DEF CaptureUndoSnapshot, UndoSnapshot

\* An operation that knows its group leaves every tab in a place, and gives out
\* identifiers only.
LEMMA ApplyChromeOperationType ==
  ASSUME NEW o, Concrete(o), groupOf \in [Tabs -> Places], usedGroups \subseteq GroupIDs,
         ApplyChromeOperation(o)
  PROVE  /\ groupOf' \in [Tabs -> Places]
         /\ usedGroups' \subseteq GroupIDs
         /\ o.kind = "create_group" => groupOf'[o.tab] \in GroupIDs
<1>1. o.tab \in Tabs
  BY DEF Concrete, Operation
<1>2. CASE o.kind = "create_group"
  <2>1. PICK g \in Fresh : /\ groupOf' = [groupOf EXCEPT ![o.tab] = g]
                           /\ usedGroups' = usedGroups \cup {g}
    BY <1>2 DEF ApplyChromeOperation
  <2>2. QED
    BY <1>1, <2>1 DEF Fresh, Places
<1>3. CASE o.kind # "create_group"
  <2>1. groupOf' = [groupOf EXCEPT ![o.tab] = o.dest] /\ usedGroups' = usedGroups
    BY <1>3 DEF ApplyChromeOperation
  <2>2. QED
    BY <1>3, <2>1 DEF Concrete, Operation, Places
<1>4. QED
  BY <1>2, <1>3

\* An operation leaves only groups that Chrome has given out.
LEMMA OperationUsesGroups ==
  ASSUME NEW o, o.tab \in Tabs, groupOf \in [Tabs -> Places], GroupsUsed, ApplyChromeOperation(o)
  PROVE  /\ GroupsUsed' /\ usedGroups \subseteq usedGroups'
         /\ \A t \in Tabs : t # o.tab => groupOf'[t] = groupOf[t]
<1>1. CASE o.kind = "create_group"
  <2>1. PICK g \in Fresh : /\ groupOf' = [groupOf EXCEPT ![o.tab] = g]
                           /\ usedGroups' = usedGroups \cup {g}
    BY <1>1 DEF ApplyChromeOperation
  <2>2. QED
    BY <2>1 DEF GroupsUsed
<1>2. CASE o.kind # "create_group"
  <2>1. groupOf' = [groupOf EXCEPT ![o.tab] = o.dest] /\ usedGroups' = usedGroups
    BY <1>2 DEF ApplyChromeOperation
  <2>2. o.dest \in GroupIDs => o.dest \in usedGroups
    BY DEF ApplyChromeOperation, CanApply, Exists, GroupsUsed
  <2>3. QED
    BY <2>1, <2>2 DEF GroupsUsed
<1>3. QED
  BY <1>1, <1>2

-----------------------------------------------------------------------------
(* The inductive invariant.                                                *)

\* A preview is stored only between being drawn and being begun.
PreviewsInv ==
  \A id \in PreviewIDs :
    /\ id \notin drawn => records[id] = None /\ began[id] = 0
    /\ records[id] # None => began[id] = 0 /\ RunnableOperations(records[id].operations)

HoldsLock(c) == Applying(c) \/ In(c, "undoing")

CallInv(c) ==
  /\ call[c].phase \in {"validating", "previewing"} => call[c].plan \in Plans
  /\ In(c, "apply_locking") => call[c].id \in PreviewIDs
  /\ HoldsLock(c) => operationMu = c
  /\ In(c, "undoing") => undoSnapshot \in UndoSnapshot
  /\ Applying(c) =>
       /\ call[c].id \in drawn
       /\ records[call[c].id] = None
       /\ call[c].record \in PreviewRecord
       /\ RunnableOperations(call[c].record.operations)
  /\ In(c, "apply_locking") \/ In(c, "checking") => call[c].createdGroups = NoGroups
  /\ In(c, "checking") => began[call[c].id] = 0
  /\ In(c, "applying") =>
       /\ call[c].todo \subseteq call[c].record.operations
       /\ CreatesItsGroups(call[c].todo, call[c].createdGroups)

LateInv == \A r \in late : r.request.kind = "operation" => Concrete(r.request.operation)

IInv ==
  /\ TypeOK
  /\ PreviewsInv
  /\ AppliedAtMostOnce
  /\ LateInv
  /\ \A c \in Clients : CallInv(c)

-----------------------------------------------------------------------------
(* What Chrome does.                                                       *)

\* A restore of any of its tabs leaves every tab in a place.
LEMMA RestoreTabsType ==
  ASSUME NEW undo \in UndoSnapshot, NEW S \in SUBSET DOMAIN undo.tabs,
         groupOf \in [Tabs -> Places], usedGroups \subseteq GroupIDs,
         RestoreTabs(undo, S)
  PROVE  groupOf' \in [Tabs -> Places] /\ usedGroups' \subseteq GroupIDs
<1> DEFINE gone == {undo.tabs[t] : t \in S}
                     \ ({Ungrouped} \cup {g \in GroupIDs : Exists(g, groupOf)})
<1>1. PICK id \in [gone -> Fresh] :
        /\ groupOf' = [t \in Tabs |-> IF t \notin S THEN groupOf[t]
                                      ELSE IF undo.tabs[t] \in gone THEN id[undo.tabs[t]]
                                      ELSE undo.tabs[t]]
        /\ usedGroups' = usedGroups \cup {id[g] : g \in gone}
  BY DEF RestoreTabs
<1>2. \A g \in gone : id[g] \in GroupIDs
  BY DEF Fresh
<1>3. \A t \in S : undo.tabs[t] \in Places
  BY DEF UndoSnapshot
<1>4. \A t \in Tabs : groupOf'[t] \in Places
  BY <1>1, <1>2, <1>3 DEF Places
<1>5. QED
  BY <1>1, <1>2, <1>4

\* So do a restore that gets through and one that throws on the way.
LEMMA RestoreType ==
  ASSUME NEW undo \in UndoSnapshot,
         groupOf \in [Tabs -> Places], usedGroups \subseteq GroupIDs, spent \in Bounds,
         Restores(undo) \/ RestoreThrows(undo)
  PROVE  groupOf' \in [Tabs -> Places] /\ usedGroups' \subseteq GroupIDs /\ spent' \in Bounds
<1>1. CASE UNCHANGED <<groupOf, usedGroups, spent>>
  BY <1>1
<1>2. CASE \E S \in SUBSET Restorable(undo) : RestoreTabs(undo, S)
  <2>1. PICK S \in SUBSET Restorable(undo) : RestoreTabs(undo, S)
    BY <1>2
  <2>2. S \in SUBSET DOMAIN undo.tabs
    BY <2>1 DEF Restorable
  <2>3. spent' \in Bounds
    BY BoundsAssumption DEF Restores, RestoreThrows, Spend, Bounds
  <2>4. QED
    BY <2>1, <2>2, <2>3, RestoreTabsType
<1>3. QED
  BY <1>1, <1>2 DEF Restores, RestoreThrows

-----------------------------------------------------------------------------
(* The locals of a call.                                                   *)

\* A call that has returned is a call.
LEMMA IdleType == \A o \in Outcomes : [Idle EXCEPT !.outcome = o] \in Call /\ Idle \in Call
BY PlaceAssumption DEF Idle, Call, Phases, Waiting, Outcomes, Places

\* Each local of a call has its type.
LEMMA CallType ==
  ASSUME call \in [Clients -> Call], NEW c \in Clients, NEW r \in Call,
         call' = [call EXCEPT ![c] = r]
  PROVE  /\ call' \in [Clients -> Call]
         /\ call'[c] = r
         /\ \A d \in Clients \ {c} : call'[d] = call[d]
OBVIOUS

\* What keeps the invariant of a call that does not take the step.
LEMMA OthersUndisturbed ==
  ASSUME NEW d \in Clients, CallInv(d), call'[d] = call[d],
         HoldsLock(d) => operationMu' = operationMu /\ undoSnapshot' = undoSnapshot,
         drawn \subseteq drawn',
         \A id \in drawn : records'[id] \in {records[id], None},
         HoldsLock(d) => began'[call[d].id] = began[call[d].id]
  PROVE  CallInv(d)'
BY DEF CallInv, HoldsLock, Applying, In

\* A call that has returned has nothing to keep, whatever it returned.
LEMMA IdleInv ==
  ASSUME NEW c \in Clients, call'[c].phase = "idle"
  PROVE  CallInv(c)'
BY DEF CallInv, HoldsLock, Applying, In

\* The next operation can be sent: a move into a new group comes after the
\* creation of that group.
LEMMA NextOperation ==
  ASSUME TypeOK, NEW c \in Clients, CallInv(c), In(c, "applying"),
         NEW o \in call[c].todo, IsNext(o, call[c].todo)
  PROVE  /\ Concrete(Resolved(c, o))
         /\ o.kind = "create_group" => o.dest \in Keys /\ Resolved(c, o) = o
         /\ o.kind = Resolved(c, o).kind /\ o.tab = Resolved(c, o).tab
<1>1. /\ o \in Operation
      /\ o.kind = "create_group" => o.dest \in Keys
      /\ o.kind = "move_tab"     => o.dest \in Keys \cup GroupIDs
      /\ o.kind = "ungroup_tab"  => o.dest = Ungrouped
  BY DEF CallInv, Applying, In, RunnableOperations, OperationsOK
<1>2. CASE o.kind = "move_tab" /\ o.dest \in Keys
  <2> DEFINE g == call[c].createdGroups[o.dest]
  <2>1. ~ \E p \in call[c].todo : p.kind = "create_group" /\ p.dest = o.dest
    BY <1>2 DEF IsNext, Before
  <2>2. g # None
    BY <1>2, <2>1 DEF CallInv, CreatesItsGroups
  <2>3. g \in GroupIDs
    BY <1>2, <2>2 DEF TypeOK, Call
  <2>4. Resolved(c, o) = [o EXCEPT !.dest = g]
    BY <1>2 DEF Resolved
  <2>5. QED
    BY <1>1, <1>2, <2>3, <2>4 DEF Concrete, Operation, Destinations
<1>3. CASE ~(o.kind = "move_tab" /\ o.dest \in Keys)
  <2>1. Resolved(c, o) = o
    BY <1>3 DEF Resolved
  <2>2. QED
    BY <1>1, <1>3, <2>1 DEF Concrete, Operation
<1>4. QED
  BY <1>2, <1>3

\* The snapshot that the rollback of an apply sends is well formed.
LEMMA UndoingType ==
  ASSUME TypeOK, NEW c \in Clients, CallInv(c), Applying(c)
  PROVE  Undoing(c) \in UndoSnapshot
<1>1. call[c].base \in [Tabs -> Places] /\ call[c].record.operations \in SUBSET Operation
  BY DEF TypeOK, Call, CallInv, PreviewRecord
<1>2. QED
  BY <1>1, CaptureUndoSnapshotType DEF Undoing

\* What a waiting call has sent is a request whose group, if it needs one, is known.
LEMMA OutstandingType ==
  ASSUME TypeOK, NEW c \in Clients, CallInv(c), call[c].phase \in Waiting,
         NEW q \in Outstanding(c)
  PROVE  q \in Request /\ (q.kind = "operation" => Concrete(q.operation))
<1>1. CASE In(c, "applying")
  <2>1. q \in {[kind |-> "operation", operation |-> Resolved(c, o)] :
                 o \in {p \in call[c].todo : IsNext(p, call[c].todo)}}
    BY <1>1 DEF Outstanding, In
  <2>2. PICK o \in call[c].todo : /\ IsNext(o, call[c].todo)
                                  /\ q = [kind |-> "operation", operation |-> Resolved(c, o)]
    BY <2>1
  <2>3. Concrete(Resolved(c, o))
    BY <1>1, <2>2, NextOperation
  <2>4. QED
    BY <2>2, <2>3 DEF Request, Concrete
<1>2. CASE In(c, "rolling_back")
  <2>1. q = [kind |-> "restore", undo |-> Undoing(c)]
    BY <1>2 DEF Outstanding, In
  <2>2. QED
    BY <1>2, <2>1, UndoingType DEF Request, Applying, In
<1>3. CASE In(c, "undoing")
  <2>1. q = [kind |-> "restore", undo |-> undoSnapshot]
    BY <1>3 DEF Outstanding, In
  <2>2. QED
    BY <1>3, <2>1 DEF Request, CallInv
<1>4. CASE ~In(c, "applying") /\ ~In(c, "rolling_back") /\ ~In(c, "undoing")
  <2>1. q = [kind |-> "read"]
    BY <1>4 DEF Outstanding
  <2>2. QED
    BY <2>1 DEF Request
<1>5. QED
  BY <1>1, <1>2, <1>3, <1>4

\* A step of c that leaves the previews alone keeps the invariant of the other
\* calls: it can touch the lock only when nobody else has it, and the undo
\* snapshot only under the lock.
LEMMA StepOfCall ==
  ASSUME IInv, NEW c \in Clients, NEW r \in Call, call' = [call EXCEPT ![c] = r],
         UNCHANGED <<plans, began>>,
         operationMu' # operationMu => operationMu \in {None, c},
         undoSnapshot' # undoSnapshot => operationMu = c,
         CallInv(c)'
  PROVE  /\ call' \in [Clients -> Call]
         /\ \A d \in Clients : CallInv(d)'
         /\ PreviewsInv'
         /\ AppliedAtMostOnce'
<1>1. call' \in [Clients -> Call] /\ \A d \in Clients \ {c} : call'[d] = call[d]
  BY CallType DEF IInv, TypeOK
<1>2. \A d \in Clients \ {c} : HoldsLock(d) => operationMu \notin {None, c}
  BY NoneAssumption DEF IInv, CallInv
<1>3. \A d \in Clients \ {c} : CallInv(d)'
  BY <1>1, <1>2, OthersUndisturbed DEF IInv, plans
<1>4. PreviewsInv' /\ AppliedAtMostOnce'
  BY DEF IInv, PreviewsInv, AppliedAtMostOnce, plans
<1>5. QED
  BY <1>1, <1>3, <1>4

\* As long as late requests stay or are dropped, they stay well formed.
LEMMA LateKept ==
  ASSUME TypeOK, LateInv, UNCHANGED late
  PROVE  LateInv' /\ late' \subseteq [live: BOOLEAN, request: Request]
BY DEF LateInv, TypeOK

-----------------------------------------------------------------------------
(* Every action preserves the invariant.                                   *)

\* A preview that starts has a plan of Plans and holds no lock.
LEMMA StartPreviewInv ==
  ASSUME IInv, NEW c \in Clients, NEW plan \in Plans, NEW read \in [Tabs -> 0..MaxEdits],
         StartPreview(c, plan, read)
  PROVE  IInv'
<1> DEFINE r == [Idle EXCEPT !.phase = IF plan.refs = {} THEN "previewing" ELSE "validating",
                             !.plan = plan, !.read = read]
<1>1. read \in [Tabs -> Nat]
  BY BoundsAssumption
<1>2. r \in Call /\ r.phase \in {"previewing", "validating"} /\ r.plan = plan
  <2>1. {"previewing", "validating"} \subseteq Phases
    BY DEF Phases, Waiting
  <2>2. Idle \in Call
    BY IdleType DEF Outcomes
  <2>3. r \in Call
    BY <1>1, <2>1, <2>2 DEF Call
  <2>4. r.phase \in {"previewing", "validating"} /\ r.plan = plan
    BY DEF Idle
  <2>5. QED
    BY <2>3, <2>4
<1> HIDE DEF r
<1>3. call' = [call EXCEPT ![c] = r] /\ call \in [Clients -> Call]
  BY DEF StartPreview, r, IInv, TypeOK
<1>4. call'[c] = r
  BY <1>3
<1>5. CallInv(c)'
  BY <1>2, <1>4 DEF CallInv, HoldsLock, Applying, In
<1>6. /\ call' \in [Clients -> Call]
      /\ \A d \in Clients : CallInv(d)'
      /\ PreviewsInv'
      /\ AppliedAtMostOnce'
  BY <1>2, <1>3, <1>5, StepOfCall DEF StartPreview
<1>7. spent' \in Bounds
  BY BoundsAssumption DEF StartPreview, Spend, IInv, TypeOK, Bounds
<1>8. TypeOK'
  BY <1>6, <1>7 DEF StartPreview, IInv, TypeOK, chrome, plans
<1>9. QED
  BY <1>6, <1>8, LateKept DEF IInv, StartPreview

\* A call that reports keeps its other locals.
LEMMA ReportedCall ==
  ASSUME call \in [Clients -> Call], NEW c \in Clients, NEW o, Report(c, o)
  PROVE  LET r == [call[c] EXCEPT !.phase = "idle", !.outcome = o] IN
           call' = [call EXCEPT ![c] = r] /\ r.phase = "idle" /\ r.outcome = o
<1>1. call[c] \in Call
  OBVIOUS
<1>2. {"phase", "outcome"} \subseteq DOMAIN call[c]
  BY <1>1 DEF Call
<1>3. call' = [call EXCEPT ![c] = [call[c] EXCEPT !.phase = "idle", !.outcome = o]]
  BY DEF Report
<1> QED
  BY <1>2, <1>3

\* A call that ends, whatever it has kept.
LEMMA EndOfCall ==
  ASSUME IInv, NEW c \in Clients, NEW o \in Outcomes, Return(c, o) \/ Report(c, o),
         UNCHANGED <<plans, began>>,
         operationMu' # operationMu => operationMu \in {None, c},
         undoSnapshot' # undoSnapshot => operationMu = c
  PROVE  /\ call' \in [Clients -> Call]
         /\ \A d \in Clients : CallInv(d)'
         /\ PreviewsInv'
         /\ AppliedAtMostOnce'
<1>1. call \in [Clients -> Call]
  BY DEF IInv, TypeOK
<1>2. PICK r \in Call : call' = [call EXCEPT ![c] = r] /\ r.phase = "idle"
  <2>1. CASE Return(c, o)
    <3>1. [Idle EXCEPT !.outcome = o] \in Call /\ [Idle EXCEPT !.outcome = o].phase = "idle"
      BY IdleType DEF Idle
    <3>2. QED
      BY <2>1, <3>1 DEF Return
  <2>2. CASE Report(c, o)
    <3> DEFINE r == [call[c] EXCEPT !.phase = "idle", !.outcome = o]
    <3>1. "idle" \in Phases
      BY DEF Phases
    <3>2. r \in Call /\ r.phase = "idle"
      BY <1>1, <3>1, ZenonT(40) DEF Call
    <3>3. call' = [call EXCEPT ![c] = r]
      BY <1>1, <2>2, ReportedCall
    <3>4. QED
      BY <3>2, <3>3
  <2>3. QED
    BY <2>1, <2>2
<1>3. CallInv(c)'
  BY <1>1, <1>2, IdleInv
<1>4. QED
  BY <1>2, <1>3, StepOfCall

\* A call whose locals do not change but for its phase.
LEMMA EnterInv ==
  ASSUME call \in [Clients -> Call], NEW c \in Clients, NEW p \in Phases, Enter(c, p)
  PROVE  /\ call' = [call EXCEPT ![c] = [call[c] EXCEPT !.phase = p]]
         /\ [call[c] EXCEPT !.phase = p] \in Call
         /\ call'[c] = [call[c] EXCEPT !.phase = p]
BY ZenonT(40) DEF Enter, Call

\* The answer to content_revisions_validate changes one call only.
LEMMA ValidateContentRevisionsInv ==
  ASSUME IInv, NEW c \in Clients, ValidateContentRevisions(c)
  PROVE  IInv'
<1> USE DEF ValidateContentRevisions
<1>1. call \in [Clients -> Call]
  BY DEF IInv, TypeOK
<1>2. /\ call' \in [Clients -> Call]
      /\ \A d \in Clients : CallInv(d)'
      /\ PreviewsInv'
      /\ AppliedAtMostOnce'
  <2>1. CASE Enter(c, "previewing")
    <3>1. "previewing" \in Phases
      BY DEF Phases, Waiting
    <3>2. /\ call' = [call EXCEPT ![c] = [call[c] EXCEPT !.phase = "previewing"]]
          /\ [call[c] EXCEPT !.phase = "previewing"] \in Call
          /\ call'[c] = [call[c] EXCEPT !.phase = "previewing"]
      BY <1>1, <2>1, <3>1, EnterInv
    <3>3. call'[c].phase = "previewing" /\ call'[c].plan = call[c].plan
      BY <1>1, <3>2 DEF Call
    <3>4. CallInv(c)'
      BY <3>3 DEF IInv, CallInv, HoldsLock, Applying, In
    <3>5. QED
      BY <3>2, <3>4, StepOfCall DEF history
  <2>2. CASE Return(c, "CONTENT_STALE")
    BY <2>2, EndOfCall DEF Outcomes, history
  <2>3. QED
    BY <2>1, <2>2
<1>3. TypeOK'
  BY <1>2 DEF IInv, TypeOK, chrome, plans, history
<1>4. QED
  BY <1>2, <1>3, LateKept DEF IInv

\* Preview stores a record under an identifier never drawn before, which no apply
\* has begun, with operations that create their groups.
LEMMA PreviewInv ==
  ASSUME IInv, NEW c \in Clients, Preview(c)
  PROVE  IInv'
<1> DEFINE plan == call[c].plan
<1> USE DEF Preview
<1>1. /\ UNCHANGED <<chrome, late, operationMu, undoSnapshot, doomed, history, spent>>
      /\ Return(c, "PLAN_INVALID") \/ Return(c, "previewed")
  OBVIOUS
<1>2. CASE UNCHANGED plans
  <2>1. /\ call' \in [Clients -> Call]
        /\ \A d \in Clients : CallInv(d)'
        /\ PreviewsInv'
        /\ AppliedAtMostOnce'
    BY <1>1, <1>2, EndOfCall DEF Outcomes, history
  <2>2. TypeOK'
    BY <1>1, <1>2, <2>1 DEF IInv, TypeOK, chrome, plans, history
  <2>3. QED
    BY <1>1, <2>1, <2>2, LateKept DEF IInv
<1>3. ASSUME NEW id \in PreviewIDs \ drawn, Return(c, "previewed"),
             drawn' = drawn \cup {id},
             records' = [records EXCEPT ![id] =
               [plan |-> plan, read |-> call[c].read, revision |-> groupOf,
                operations |-> BuildOperations(plan, groupOf), expired |-> FALSE]]
      PROVE  IInv'
  <2> DEFINE rec == [plan |-> plan, read |-> call[c].read, revision |-> groupOf,
                     operations |-> BuildOperations(plan, groupOf), expired |-> FALSE]
  <2>1. plan \in Plans /\ call[c].read \in [Tabs -> Nat] /\ groupOf \in [Tabs -> Places]
    BY DEF IInv, CallInv, In, TypeOK, Call
  <2>2. RunnableOperations(BuildOperations(plan, groupOf))
    BY <2>1, BuildOperationsType
  <2>3. rec \in PreviewRecord
    BY <2>1, <2>2 DEF PreviewRecord, RunnableOperations, OperationsOK
  <2>4. RunnableOperations(rec.operations)
    BY <2>2
  <2> HIDE DEF rec
  <2>5. records' = [records EXCEPT ![id] = rec] /\ records \in [PreviewIDs -> PreviewRecord \cup {None}]
    BY <1>3 DEF rec, IInv, TypeOK
  <2>6. /\ call' = [call EXCEPT ![c] = [Idle EXCEPT !.outcome = "previewed"]]
        /\ call \in [Clients -> Call]
        /\ [Idle EXCEPT !.outcome = "previewed"] \in Call
        /\ [Idle EXCEPT !.outcome = "previewed"].phase = "idle"
    BY <1>3, IdleType DEF Return, Outcomes, IInv, TypeOK, Idle
  <2>7. call' \in [Clients -> Call] /\ call'[c].phase = "idle"
    BY <2>6
  <2>8. \A d \in Clients \ {c} : CallInv(d)'
    BY <1>1, <1>3, <2>5, <2>6, OthersUndisturbed DEF IInv, history
  <2>9. PreviewsInv'
    BY <1>1, <1>3, <2>4, <2>5 DEF IInv, PreviewsInv, history
  <2>10. TypeOK'
    <3>1. records' \in [PreviewIDs -> PreviewRecord \cup {None}]
      BY <2>3, <2>5
    <3>2. drawn' \subseteq PreviewIDs
      BY <1>3 DEF IInv, TypeOK
    <3>3. QED
      BY <1>1, <2>7, <3>1, <3>2 DEF IInv, TypeOK, chrome, history
  <2>11. QED
    BY <1>1, <2>7, <2>8, <2>9, <2>10, IdleInv, LateKept DEF IInv, AppliedAtMostOnce, history
<1>4. QED
  BY <1>2, <1>3

\* An expired record is the same record for the invariant.
LEMMA ExpireInv ==
  ASSUME IInv, NEW id \in PreviewIDs, Expire(id)
  PROVE  IInv'
<1> DEFINE rec == [records[id] EXCEPT !.expired = TRUE]
<1>1. /\ records' = [records EXCEPT ![id] = rec]
      /\ records \in [PreviewIDs -> PreviewRecord \cup {None}]
      /\ records[id] # None
      /\ UNCHANGED <<chrome, late, drawn, operationMu, undoSnapshot, doomed, call, history, spent>>
  BY DEF Expire, IInv, TypeOK
<1>2. rec \in PreviewRecord /\ rec.operations = records[id].operations
  BY <1>1 DEF PreviewRecord
<1> HIDE DEF rec
<1>3. records' \in [PreviewIDs -> PreviewRecord \cup {None}]
  BY <1>1, <1>2
<1>4. TypeOK'
  BY <1>1, <1>3 DEF IInv, TypeOK, chrome, history
<1>5. PreviewsInv' /\ AppliedAtMostOnce'
  BY <1>1, <1>2 DEF IInv, PreviewsInv, AppliedAtMostOnce, history
<1>6. ASSUME NEW c \in Clients PROVE CallInv(c)'
  BY <1>1 DEF IInv, CallInv, HoldsLock, Applying, In, history
<1>7. QED
  BY <1>1, <1>4, <1>5, <1>6, LateKept DEF IInv

\* An apply that starts holds nothing but the identifier it was given.
LEMMA StartApplyInv ==
  ASSUME IInv, NEW c \in Clients, NEW id \in PreviewIDs, StartApply(c, id)
  PROVE  IInv'
<1> DEFINE r == [Idle EXCEPT !.phase = "apply_locking", !.id = id]
<1>1. r \in Call /\ r.phase = "apply_locking" /\ r.id = id /\ r.createdGroups = NoGroups
  <2>1. "apply_locking" \in Phases /\ Idle \in Call
    BY IdleType DEF Phases, Outcomes
  <2>2. r \in Call
    BY <2>1 DEF Call
  <2>3. QED
    BY <2>2 DEF Idle, NoGroups
<1> HIDE DEF r
<1>2. call' = [call EXCEPT ![c] = r] /\ call'[c] = r
  BY DEF StartApply, r, IInv, TypeOK
<1>3. CallInv(c)'
  BY <1>1, <1>2 DEF CallInv, HoldsLock, Applying, In
<1>4. /\ call' \in [Clients -> Call]
      /\ \A d \in Clients : CallInv(d)'
      /\ PreviewsInv'
      /\ AppliedAtMostOnce'
  BY <1>1, <1>2, <1>3, StepOfCall DEF StartApply
<1>5. TypeOK'
  BY <1>4 DEF StartApply, IInv, TypeOK, chrome, plans
<1>6. QED
  BY <1>4, <1>5, LateKept DEF IInv, StartApply

\* Consume takes the lock and the record at once: the record is gone from records when
\* its apply has it, and nobody else was past the lock.
LEMMA ConsumeInv ==
  ASSUME IInv, NEW c \in Clients, Consume(c)
  PROVE  IInv'
<1> DEFINE id == call[c].id
<1>1. /\ In(c, "apply_locking")
      /\ operationMu = None
      /\ records' = [records EXCEPT ![id] = None]
      /\ UNCHANGED <<chrome, late, drawn, undoSnapshot, doomed, history, spent>>
  BY DEF Consume, LockIsFree, WithoutRecord
<1>2. /\ id \in PreviewIDs
      /\ call[c].createdGroups = NoGroups
      /\ records \in [PreviewIDs -> PreviewRecord \cup {None}]
      /\ call \in [Clients -> Call]
  BY <1>1 DEF IInv, CallInv, TypeOK
<1>3. \A d \in Clients : ~HoldsLock(d)
  BY <1>1, NoneAssumption DEF IInv, CallInv
<1>4. records' \in [PreviewIDs -> PreviewRecord \cup {None}]
  BY <1>1, <1>2
<1>5. PreviewsInv' /\ AppliedAtMostOnce'
  BY <1>1, <1>2 DEF IInv, PreviewsInv, AppliedAtMostOnce, history
<1>6. /\ call' \in [Clients -> Call]
      /\ \A d \in Clients \ {c} : call'[d] = call[d]
      /\ CallInv(c)'
      /\ operationMu' \in {None, c}
  <2>1. CASE /\ Return(c, "PREVIEW_NOT_FOUND") \/ Return(c, "PREVIEW_EXPIRED")
             /\ UNCHANGED operationMu
    <3>1. PICK r \in Call : call' = [call EXCEPT ![c] = r] /\ r.phase = "idle"
      BY <2>1, IdleType DEF Return, Outcomes, Idle
    <3>2. QED
      BY <1>1, <1>2, <2>1, <3>1, IdleInv
  <2>2. CASE /\ records[id] # None
             /\ call' = [call EXCEPT ![c].phase = "checking", ![c].record = records[id]]
             /\ operationMu' = c
    <3> DEFINE r == [call[c] EXCEPT !.phase = "checking", !.record = records[id]]
    <3>1. "checking" \in Phases /\ records[id] \in PreviewRecord
      BY <1>2, <2>2 DEF Phases, Waiting
    <3>2. r \in Call /\ r.phase = "checking" /\ r.record = records[id] /\ r.id = id
            /\ r.createdGroups = NoGroups
      BY <1>2, <3>1, ZenonT(40) DEF Call
    <3> HIDE DEF r
    <3>3. call' = [call EXCEPT ![c] = r]
      BY <1>2, <2>2 DEF r
    <3>4. id \in drawn /\ began[id] = 0 /\ RunnableOperations(records[id].operations)
      BY <1>2, <2>2 DEF IInv, PreviewsInv
    <3>5. call'[c] = r /\ records'[id] = None /\ drawn' = drawn /\ began' = began
      BY <1>1, <1>2, <3>3 DEF history
    <3>6. CallInv(c)'
      <4>1. /\ call'[c].phase = "checking" /\ operationMu' = c
            /\ call'[c].id \in drawn' /\ records'[call'[c].id] = None /\ began'[call'[c].id] = 0
            /\ call'[c].record \in PreviewRecord
            /\ RunnableOperations(call'[c].record.operations)
            /\ call'[c].createdGroups = NoGroups
        <5>1. call'[c].id = id /\ call'[c].record = records[id]
                /\ call'[c].phase = "checking" /\ call'[c].createdGroups = NoGroups
          BY <3>2, <3>5
        <5>2. QED
          BY <2>2, <3>1, <3>4, <3>5, <5>1
      <4>2. QED
        BY <4>1 DEF CallInv, HoldsLock, Applying, In
    <3>7. QED
      BY <1>2, <2>2, <3>2, <3>3, <3>6, ZenonT(40)
  <2>3. QED
    BY <2>1, <2>2 DEF Consume
<1>7. \A d \in Clients \ {c} : CallInv(d)'
  BY <1>1, <1>2, <1>3, <1>6, OthersUndisturbed DEF IInv
<1>8. TypeOK'
  BY <1>1, <1>4, <1>6 DEF IInv, TypeOK, chrome, history
<1>9. QED
  BY <1>1, <1>5, <1>6, <1>7, <1>8, LateKept DEF IInv

\* A stale apply ends and lets go of the lock.
LEMMA RefuseStaleInv ==
  ASSUME IInv, NEW c \in Clients, RefuseStale(c)
  PROVE  IInv'
<1>1. operationMu = c /\ operationMu' = None
  BY DEF RefuseStale, Unlock, IInv, CallInv, HoldsLock, Applying, In
<1>2. /\ call' \in [Clients -> Call]
      /\ \A d \in Clients : CallInv(d)'
      /\ PreviewsInv'
      /\ AppliedAtMostOnce'
  BY <1>1, EndOfCall DEF RefuseStale, Outcomes, history
<1>3. TypeOK'
  BY <1>1, <1>2 DEF RefuseStale, IInv, TypeOK, chrome, plans, history
<1>4. QED
  BY <1>2, <1>3, LateKept DEF IInv, RefuseStale

\* The count of a preview goes up once, since its record is no longer there.
LEMMA BeginOperationsInv ==
  ASSUME IInv, NEW c \in Clients, BeginOperations(c)
  PROVE  IInv'
<1> DEFINE id == call[c].id
           r  == [call[c] EXCEPT !.phase = "applying", !.base = groupOf,
                                 !.todo = call[c].record.operations]
<1>1. /\ In(c, "checking")
      /\ call' = [call EXCEPT ![c] = r]
      /\ began' = [began EXCEPT ![id] = @ + 1]
      /\ calm' = calm \cup {c}
      /\ UNCHANGED <<chrome, late, plans, operationMu, undoSnapshot, doomed, undoBase, spent>>
  BY DEF BeginOperations, IInv, TypeOK
<1>2. /\ call \in [Clients -> Call]
      /\ groupOf \in [Tabs -> Places]
      /\ began \in [PreviewIDs -> Nat]
      /\ drawn \subseteq PreviewIDs
  BY DEF IInv, TypeOK
<1>3. /\ Applying(c)
      /\ operationMu = c
      /\ id \in drawn
      /\ records[id] = None
      /\ call[c].record \in PreviewRecord
      /\ RunnableOperations(call[c].record.operations)
      /\ call[c].createdGroups = NoGroups
      /\ began[id] = 0
  BY <1>1 DEF IInv, CallInv, HoldsLock, Applying, In
<1>4. /\ r \in Call
      /\ r.phase = "applying"
      /\ r.id = id
      /\ r.record = call[c].record
      /\ r.todo = r.record.operations
      /\ r.createdGroups = NoGroups
  <2>1. "applying" \in Phases /\ call[c].record.operations \in SUBSET Operation
    BY <1>3 DEF Phases, Waiting, PreviewRecord
  <2>2. r \in Call
    BY <1>2, <2>1, ZenonT(40) DEF Call
  <2>3. QED
    BY <1>2, <1>3, <2>2 DEF Call
<1> HIDE DEF r
<1>5. call' \in [Clients -> Call] /\ call'[c] = r /\ \A d \in Clients \ {c} : call'[d] = call[d]
  BY <1>1, <1>2, <1>4
<1>6. CallInv(c)'
  BY <1>1, <1>3, <1>4, <1>5 DEF CallInv, HoldsLock, Applying, In, plans, RunnableOperations
<1>7. \A d \in Clients \ {c} : ~HoldsLock(d)
  BY <1>3 DEF IInv, CallInv
<1>8. \A d \in Clients \ {c} : CallInv(d)'
  BY <1>1, <1>5, <1>7, OthersUndisturbed DEF IInv, plans
<1>9. /\ began' \in [PreviewIDs -> Nat]
      /\ \A p \in PreviewIDs : began'[p] = IF p = id THEN 1 ELSE began[p]
  BY <1>1, <1>2, <1>3
<1>10. PreviewsInv' /\ AppliedAtMostOnce'
  BY <1>1, <1>3, <1>9 DEF IInv, PreviewsInv, AppliedAtMostOnce, plans
<1>11. TypeOK'
  BY <1>1, <1>5, <1>9 DEF IInv, TypeOK, chrome, plans
<1>12. QED
  BY <1>1, <1>6, <1>8, <1>10, <1>11, LateKept DEF IInv

\* An operation that is carried out leaves the others with their groups created or
\* still to be created.
LEMMA CarryOutInv ==
  ASSUME IInv, NEW c \in Clients, NEW o \in call[c].todo, CarryOut(c, o)
  PROVE  IInv'
<1> DEFINE created == IF o.kind = "create_group"
                      THEN [call[c].createdGroups EXCEPT ![o.dest] = groupOf'[o.tab]]
                      ELSE call[c].createdGroups
           r == [call[c] EXCEPT !.todo = call[c].todo \ {o}, !.createdGroups = created]
<1>1. /\ In(c, "applying")
      /\ IsNext(o, call[c].todo)
      /\ ApplyChromeOperation(Resolved(c, o))
      /\ call' = [call EXCEPT ![c] = r]
      /\ calm' = calm \cap {c}
      /\ undoBase' = None
      /\ UNCHANGED <<page, late, plans, operationMu, undoSnapshot, doomed, began, spent>>
  BY DEF CarryOut, IInv, TypeOK
<1>2. TypeOK /\ CallInv(c) /\ call[c] \in Call
  BY DEF IInv, TypeOK
<1>3. /\ Concrete(Resolved(c, o))
      /\ o.kind = "create_group" => o.dest \in Keys
      /\ o.kind = Resolved(c, o).kind /\ o.tab = Resolved(c, o).tab
  BY <1>1, <1>2, NextOperation
<1>4. /\ groupOf' \in [Tabs -> Places]
      /\ usedGroups' \subseteq GroupIDs
      /\ o.kind = "create_group" => groupOf'[o.tab] \in GroupIDs
  BY <1>1, <1>2, <1>3, ApplyChromeOperationType DEF TypeOK
<1>5. created \in [Keys -> GroupIDs \cup {None}]
  BY <1>2, <1>3, <1>4 DEF Call
<1>6. CreatesItsGroups(call[c].todo \ {o}, created)
  <2>1. CreatesItsGroups(call[c].todo, call[c].createdGroups)
          /\ call[c].createdGroups \in [Keys -> GroupIDs \cup {None}]
    BY <1>1, <1>2 DEF CallInv, Call
  <2>2. CASE o.kind = "create_group"
    BY <1>4, <2>1, <2>2, CreatesItsGroupsKept
  <2>3. CASE o.kind # "create_group"
    BY <2>1, <2>3 DEF CreatesItsGroups
  <2>4. QED
    BY <2>2, <2>3
<1> HIDE DEF created
<1>7. /\ r \in Call
      /\ r.phase = "applying"
      /\ r.id = call[c].id
      /\ r.record = call[c].record
      /\ r.todo = call[c].todo \ {o}
      /\ r.createdGroups = created
  <2>1. r \in Call
    BY <1>2, <1>5 DEF Call
  <2>2. call[c].phase = "applying"
    BY <1>1 DEF In
  <2>3. r.todo = call[c].todo \ {o} /\ r.createdGroups = created
    BY <1>2 DEF Call
  <2>4. r.phase = call[c].phase /\ r.id = call[c].id /\ r.record = call[c].record
    BY <1>2 DEF Call
  <2>5. QED
    BY <2>1, <2>2, <2>3, <2>4
<1> HIDE DEF r
<1>8. CallInv(c)'
  <2>1. call'[c] = r
    BY <1>1 DEF IInv, TypeOK
  <2>2. QED
    BY <1>1, <1>2, <1>6, <1>7, <2>1 DEF CallInv, HoldsLock, Applying, In, plans
<1>9. /\ call' \in [Clients -> Call]
      /\ \A d \in Clients : CallInv(d)'
      /\ PreviewsInv'
      /\ AppliedAtMostOnce'
  BY <1>1, <1>7, <1>8, StepOfCall
<1>10. TypeOK'
  BY <1>1, <1>4, <1>9 DEF IInv, TypeOK, plans
<1>11. QED
  BY <1>1, <1>9, <1>10, LateKept DEF IInv

\* An operation that fails leaves the call with its lock and its record.
LEMMA FailOperationInv ==
  ASSUME IInv, NEW c \in Clients, NEW o \in call[c].todo, FailOperation(c, o)
  PROVE  IInv'
<1> DEFINE r == [call[c] EXCEPT !.phase = "rolling_back"]
<1>1. /\ In(c, "applying")
      /\ IsNext(o, call[c].todo)
      /\ Enter(c, "rolling_back")
      /\ UNCHANGED <<page, late, plans, operationMu, undoSnapshot, doomed, began>>
  BY DEF FailOperation, history
<1>2. TypeOK /\ CallInv(c) /\ call \in [Clients -> Call]
  BY DEF IInv, TypeOK
<1>3. Concrete(Resolved(c, o))
  BY <1>1, <1>2, NextOperation
<1>4. /\ groupOf' \in [Tabs -> Places]
      /\ usedGroups' \subseteq GroupIDs
      /\ calm' \subseteq Clients
      /\ undoBase' \in [Tabs -> Places] \cup {None}
  <2>1. CASE UNCHANGED <<groupOf, usedGroups, history>>
    BY <1>2, <2>1 DEF TypeOK, history
  <2>2. CASE ApplyChromeOperation(Resolved(c, o)) /\ calm' = calm \cap {c} /\ undoBase' = None
    BY <1>2, <1>3, <2>2, ApplyChromeOperationType DEF TypeOK
  <2>3. QED
    BY <2>1, <2>2 DEF FailOperation
<1>5. spent' \in Bounds
  BY <1>2, BoundsAssumption DEF FailOperation, Spend, TypeOK, Bounds
<1>6. call' = [call EXCEPT ![c] = r] /\ r \in Call /\ call'[c] = r
  BY <1>1, <1>2, EnterInv DEF Phases, Waiting
<1>7. r.phase = "rolling_back" /\ r.id = call[c].id /\ r.record = call[c].record
  BY <1>2 DEF Call
<1> HIDE DEF r
<1>8. CallInv(c)'
  BY <1>1, <1>2, <1>6, <1>7 DEF CallInv, HoldsLock, Applying, In, plans
<1>9. /\ call' \in [Clients -> Call]
      /\ \A d \in Clients : CallInv(d)'
      /\ PreviewsInv'
      /\ AppliedAtMostOnce'
  BY <1>1, <1>6, <1>8, StepOfCall
<1>10. TypeOK'
  BY <1>1, <1>4, <1>5, <1>9 DEF IInv, TypeOK, plans
<1>11. QED
  BY <1>1, <1>9, <1>10, LateKept DEF IInv

\* An apply that ends with success leaves a well formed snapshot for Undo.
LEMMA CommitInv ==
  ASSUME IInv, NEW c \in Clients, Commit(c)
  PROVE  IInv'
<1>1. TypeOK /\ CallInv(c) /\ Applying(c) /\ operationMu = c
  BY DEF Commit, IInv, CallInv, HoldsLock, Applying, In
<1>2. undoSnapshot' \in UndoSnapshot
  BY <1>1, UndoingType DEF Commit
<1>3. undoBase' \in [Tabs -> Places] \cup {None}
  BY <1>1 DEF Commit, TypeOK, Call
<1>4. /\ call' \in [Clients -> Call]
      /\ \A d \in Clients : CallInv(d)'
      /\ PreviewsInv'
      /\ AppliedAtMostOnce'
  BY <1>1, EndOfCall DEF Commit, Outcomes
<1>5. TypeOK'
  BY <1>2, <1>3, <1>4 DEF Commit, Unlock, IInv, TypeOK, chrome, plans
<1>6. QED
  BY <1>4, <1>5, LateKept DEF IInv, Commit

\* A rolled back apply ends, whether the restore got through or not.
LEMMA RollbackInv ==
  ASSUME IInv, NEW c \in Clients, Rollback(c)
  PROVE  IInv'
<1>1. TypeOK /\ CallInv(c) /\ Applying(c) /\ operationMu = c
  BY DEF Rollback, IInv, CallInv, HoldsLock, Applying, In
<1>2. Undoing(c) \in UndoSnapshot
  BY <1>1, UndoingType
<1>3. groupOf' \in [Tabs -> Places] /\ usedGroups' \subseteq GroupIDs /\ spent' \in Bounds
  BY <1>1, <1>2, RestoreType DEF Rollback, TypeOK
<1>5. /\ call' \in [Clients -> Call]
      /\ \A d \in Clients : CallInv(d)'
      /\ PreviewsInv'
      /\ AppliedAtMostOnce'
  <2>1. \E o \in Outcomes : Return(c, o) \/ Report(c, o)
    BY DEF Rollback, Outcomes
  <2>2. QED
    BY <1>1, <2>1, EndOfCall DEF Rollback
<1>6. TypeOK'
  BY <1>3, <1>5 DEF Rollback, Unlock, IInv, TypeOK, plans
<1>7. QED
  BY <1>5, <1>6, LateKept DEF IInv, Rollback

\* An undo that starts holds nothing yet.
LEMMA StartUndoInv ==
  ASSUME IInv, NEW c \in Clients, StartUndo(c)
  PROVE  IInv'
<1> DEFINE r == [Idle EXCEPT !.phase = "undo_locking"]
<1>1. r \in Call /\ r.phase = "undo_locking"
  <2>1. "undo_locking" \in Phases /\ Idle \in Call
    BY IdleType DEF Phases, Outcomes
  <2>2. r \in Call
    BY <2>1 DEF Call
  <2>3. QED
    BY <2>2 DEF Idle
<1> HIDE DEF r
<1>2. call' = [call EXCEPT ![c] = r] /\ call'[c] = r
  BY DEF StartUndo, r, IInv, TypeOK
<1>3. CallInv(c)'
  BY <1>1, <1>2 DEF CallInv, HoldsLock, Applying, In
<1>4. /\ call' \in [Clients -> Call]
      /\ \A d \in Clients : CallInv(d)'
      /\ PreviewsInv'
      /\ AppliedAtMostOnce'
  BY <1>1, <1>2, <1>3, StepOfCall DEF StartUndo
<1>5. TypeOK'
  BY <1>4 DEF StartUndo, IInv, TypeOK, chrome, plans
<1>6. QED
  BY <1>4, <1>5, LateKept DEF IInv, StartUndo

\* Undo takes the lock only when there is a snapshot to send.
LEMMA TakeUndoInv ==
  ASSUME IInv, NEW c \in Clients, TakeUndo(c)
  PROVE  IInv'
<1>1. /\ operationMu = None
      /\ UNCHANGED <<chrome, late, plans, undoSnapshot, doomed, history, spent>>
  BY DEF TakeUndo, LockIsFree
<1>2. /\ call' \in [Clients -> Call]
      /\ \A d \in Clients : CallInv(d)'
      /\ PreviewsInv'
      /\ AppliedAtMostOnce'
      /\ operationMu' \in {None, c}
  <2>1. CASE Return(c, "UNDO_UNAVAILABLE") /\ UNCHANGED operationMu
    BY <1>1, <2>1, EndOfCall DEF Outcomes, history
  <2>2. CASE undoSnapshot # None /\ Enter(c, "undoing") /\ operationMu' = c
    <3>1. /\ call' = [call EXCEPT ![c] = [call[c] EXCEPT !.phase = "undoing"]]
          /\ [call[c] EXCEPT !.phase = "undoing"] \in Call
          /\ call'[c] = [call[c] EXCEPT !.phase = "undoing"]
      BY <2>2, EnterInv DEF IInv, TypeOK, Phases, Waiting
    <3>2. call'[c].phase = "undoing" /\ undoSnapshot' \in UndoSnapshot
      BY <1>1, <2>2, <3>1 DEF IInv, TypeOK, Call
    <3>3. CallInv(c)'
      BY <2>2, <3>2 DEF CallInv, HoldsLock, Applying, In
    <3>4. QED
      BY <1>1, <2>2, <3>1, <3>3, StepOfCall DEF history
  <2>3. QED
    BY <2>1, <2>2 DEF TakeUndo
<1>3. TypeOK'
  BY <1>1, <1>2 DEF IInv, TypeOK, chrome, plans, history
<1>4. QED
  BY <1>1, <1>2, <1>3, LateKept DEF IInv

\* An undo that the extension has answered clears the snapshot and the lock.
LEMMA UndoInv ==
  ASSUME IInv, NEW c \in Clients, Undo(c)
  PROVE  IInv'
<1> DEFINE r == [call[c] EXCEPT !.phase = "idle",
                   !.outcome = IF FullyRestorable(undoSnapshot) THEN "undone" ELSE "undone_partly",
                   !.base = IF undoBase = None THEN call[c].base ELSE undoBase]
<1>1. operationMu = c /\ In(c, "undoing") /\ TypeOK
  BY DEF Undo, IInv, CallInv, HoldsLock
<1>2. groupOf' \in [Tabs -> Places] /\ usedGroups' \subseteq GroupIDs /\ spent' \in Bounds
  BY <1>1, RestoreType DEF Undo, IInv, CallInv, TypeOK
<1>3. call' = [call EXCEPT ![c] = r]
  BY <1>1 DEF Undo, TypeOK
<1>4. r \in Call /\ r.phase = "idle"
  <2>1. {"undone", "undone_partly"} \subseteq Outcomes /\ "idle" \in Phases
    BY DEF Outcomes, Phases
  <2>2. call[c] \in Call /\ (undoBase # None => undoBase \in [Tabs -> Places])
    BY <1>1 DEF TypeOK
  <2>3. QED
    BY <2>1, <2>2 DEF Call
<1> HIDE DEF r
<1>5. CallInv(c)'
  BY <1>1, <1>3, <1>4, IdleInv DEF TypeOK
<1>6. /\ call' \in [Clients -> Call]
      /\ \A d \in Clients : CallInv(d)'
      /\ PreviewsInv'
      /\ AppliedAtMostOnce'
  BY <1>1, <1>3, <1>4, <1>5, StepOfCall DEF Undo
<1>7. TypeOK'
  BY <1>1, <1>2, <1>6 DEF Undo, Unlock, TypeOK, plans
<1>8. QED
  BY <1>6, <1>7, LateKept DEF IInv, Undo

\* An undo that fails keeps the snapshot, and lets go of the lock.
LEMMA FailUndoInv ==
  ASSUME IInv, NEW c \in Clients, FailUndo(c)
  PROVE  IInv'
<1>1. operationMu = c /\ In(c, "undoing") /\ TypeOK
  BY DEF FailUndo, IInv, CallInv, HoldsLock
<1>2. groupOf' \in [Tabs -> Places] /\ usedGroups' \subseteq GroupIDs /\ spent' \in Bounds
  BY <1>1, RestoreType DEF FailUndo, IInv, CallInv, TypeOK
<1>4. /\ call' \in [Clients -> Call]
      /\ \A d \in Clients : CallInv(d)'
      /\ PreviewsInv'
      /\ AppliedAtMostOnce'
  BY <1>1, EndOfCall DEF FailUndo, Outcomes
<1>5. TypeOK'
  BY <1>1, <1>2, <1>4 DEF FailUndo, Unlock, TypeOK, plans
<1>6. QED
  BY <1>4, <1>5, LateKept DEF IInv, FailUndo

\* A call whose snapshot or validation fails ends, without the lock if it had it.
LEMMA FailReadInv ==
  ASSUME IInv, NEW c \in Clients, FailRead(c)
  PROVE  IInv'
<1>1. spent' \in Bounds
  BY BoundsAssumption DEF FailRead, Spend, IInv, TypeOK, Bounds
<1>2. /\ call' \in [Clients -> Call]
      /\ \A d \in Clients : CallInv(d)'
      /\ PreviewsInv'
      /\ AppliedAtMostOnce'
  BY EndOfCall DEF FailRead, LockAfter, Outcomes, history
<1>3. TypeOK'
  BY <1>1, <1>2 DEF FailRead, LockAfter, IInv, TypeOK, chrome, plans, history
<1>4. QED
  BY <1>2, <1>3, LateKept DEF IInv, FailRead

\* A cancelled call ends or rolls back, and what it has sent may still arrive.
LEMMA CancelInv ==
  ASSUME IInv, NEW c \in Clients, Cancel(c)
  PROVE  IInv'
<1> DEFINE new == Outstanding(c) \cup
                    IF In(c, "applying") THEN {[kind |-> "restore", undo |-> Undoing(c)]} ELSE {}
<1>1. TypeOK /\ CallInv(c) /\ call[c].phase \in Waiting
  BY DEF IInv, Cancel
<1>2. ASSUME NEW q \in new
      PROVE  q \in Request /\ (q.kind = "operation" => Concrete(q.operation))
  <2>1. CASE q \in Outstanding(c)
    BY <1>1, <2>1, OutstandingType
  <2>2. CASE In(c, "applying") /\ q = [kind |-> "restore", undo |-> Undoing(c)]
    BY <1>1, <2>2, UndoingType DEF Request, Applying, In
  <2>3. QED
    BY <1>2, <2>1, <2>2
<1>3. late' = late \cup [live : {TRUE}, request : new]
  BY DEF Cancel
<1> HIDE DEF new
<1>4. late' \subseteq [live : BOOLEAN, request : Request]
  BY <1>1, <1>2, <1>3 DEF TypeOK
<1>5. LateInv'
  BY <1>2, <1>3 DEF IInv, LateInv
<1>6. spent' \in Bounds
  BY <1>1, BoundsAssumption DEF Cancel, Spend, TypeOK, Bounds
<1>7. /\ call' \in [Clients -> Call]
      /\ \A d \in Clients : CallInv(d)'
      /\ PreviewsInv'
      /\ AppliedAtMostOnce'
  <2>1. \E o \in Outcomes : Return(c, o)
    BY DEF Cancel, Outcomes
  <2>2. QED
    BY <2>1, EndOfCall DEF Cancel, LockAfter, history
<1>8. TypeOK'
  BY <1>1, <1>4, <1>6, <1>7 DEF Cancel, LockAfter, TypeOK, chrome, plans, history
<1>9. QED
  BY <1>5, <1>7, <1>8 DEF IInv

\* What else happens leaves the calls and the host alone, but for HostExit.
LEMMA ElsewhereInv ==
  ASSUME IInv, UNCHANGED <<plans, operationMu, undoSnapshot, call, began>>
  PROVE  PreviewsInv' /\ AppliedAtMostOnce' /\ \A c \in Clients : CallInv(c)'
BY DEF IInv, PreviewsInv, AppliedAtMostOnce, CallInv, HoldsLock, Applying, In, plans

\* A late request does what it would have done in time, and to Chrome only.
LEMMA AnswerLateInv ==
  ASSUME IInv, NEW r \in late, AnswerLate(r)
  PROVE  IInv'
<1> DEFINE q == r.request
<1>1. TypeOK /\ q \in Request /\ r.live \in BOOLEAN /\ (q.kind = "operation" => Concrete(q.operation))
  BY DEF IInv, TypeOK, LateInv
<1>2. q.kind \in {"read", "operation", "restore"}
        /\ (q.kind = "restore" => q.undo \in UndoSnapshot)
  BY <1>1 DEF Request
<1>3. /\ groupOf' \in [Tabs -> Places]
      /\ usedGroups' \subseteq GroupIDs
      /\ spent' \in Bounds
      /\ began' = began
      /\ calm' \subseteq Clients
      /\ undoBase' \in [Tabs -> Places] \cup {None}
  <2>1. CASE UNCHANGED <<groupOf, usedGroups, history, spent>>
    BY <1>1, <2>1 DEF TypeOK, history
  <2>2. CASE /\ q.kind = "operation" /\ ApplyChromeOperation(q.operation)
             /\ Disturb /\ UNCHANGED <<began, spent>>
    BY <1>1, <2>2, ApplyChromeOperationType DEF TypeOK, Disturb
  <2>3. CASE /\ q.kind = "restore" /\ (Restores(q.undo) \/ RestoreThrows(q.undo))
             /\ Disturb /\ UNCHANGED began
    BY <1>1, <1>2, <2>3, RestoreType DEF TypeOK, Disturb
  <2>4. QED
    <3>1. CASE q.kind = "read"
      BY <2>1, <3>1 DEF AnswerLate
    <3>2. CASE q.kind = "operation"
      BY <2>1, <2>2, <3>2 DEF AnswerLate
    <3>3. CASE q.kind = "restore"
      BY <2>3, <3>3 DEF AnswerLate
    <3>4. QED
      BY <1>2, <3>1, <3>2, <3>3
<1>4. /\ late' = late \ {r}
      /\ doomed' = (doomed \/ r.live)
      /\ UNCHANGED <<page, plans, operationMu, undoSnapshot, call>>
  BY DEF AnswerLate
<1>5. doomed' \in BOOLEAN
  BY <1>4
<1>6. TypeOK'
  BY <1>1, <1>3, <1>4, <1>5 DEF TypeOK, plans
<1>7. LateInv'
  BY <1>4 DEF IInv, LateInv
<1>8. QED
  BY <1>3, <1>4, <1>6, <1>7, ElsewhereInv DEF IInv

\* With the host its records, its snapshot, its lock and its calls are gone.
LEMMA HostExitInv ==
  ASSUME IInv, HostExit
  PROVE  IInv'
<1> DEFINE waiting == {d \in Clients : call[d].phase \in Waiting}
           new     == {r.request : r \in late} \cup UNION {Outstanding(c) : c \in waiting}
<1>1. TypeOK /\ \A c \in Clients : CallInv(c)
  BY DEF IInv
<1>2. ASSUME NEW q \in new
      PROVE  q \in Request /\ (q.kind = "operation" => Concrete(q.operation))
  <2>1. CASE \E r \in late : q = r.request
    BY <2>1 DEF IInv, TypeOK, LateInv
  <2>2. CASE \E c \in waiting : q \in Outstanding(c)
    BY <1>1, <2>2, OutstandingType
  <2>3. QED
    BY <1>2, <2>1, <2>2
<1>3. late' = [live : {FALSE}, request : new]
  BY DEF HostExit
<1> HIDE DEF new
<1>4. late' \subseteq [live : BOOLEAN, request : Request] /\ LateInv'
  BY <1>2, <1>3 DEF LateInv
<1>5. \A c \in Clients : call'[c] \in Call /\ call'[c].phase = "idle"
  <2>1. [Idle EXCEPT !.outcome = "disconnected"] \in Call
          /\ [Idle EXCEPT !.outcome = "disconnected"].phase = "idle"
    BY IdleType DEF Outcomes, Idle
  <2>2. QED
    BY <1>1, <2>1 DEF HostExit, TypeOK, In
<1>6. call' \in [Clients -> Call] /\ \A c \in Clients : CallInv(c)'
  BY <1>5, IdleInv DEF HostExit
<1>7. PreviewsInv' /\ AppliedAtMostOnce'
  BY DEF HostExit, IInv, PreviewsInv, AppliedAtMostOnce
<1>8. spent' \in Bounds
  BY <1>1, BoundsAssumption DEF HostExit, Spend, TypeOK, Bounds
<1>9. TypeOK'
  BY <1>1, <1>4, <1>6, <1>8 DEF HostExit, TypeOK, chrome
<1>10. QED
  BY <1>4, <1>6, <1>7, <1>9 DEF IInv

\* The user moves tabs to places.
LEMMA UserMovesInv ==
  ASSUME IInv, NEW t \in Tabs, NEW place \in Places, UserMoves(t, place)
  PROVE  IInv'
<1>1. spent' \in Bounds
  BY BoundsAssumption DEF UserMoves, Spend, IInv, TypeOK, Bounds
<1>2. TypeOK'
  BY <1>1 DEF UserMoves, Disturb, IInv, TypeOK, plans
<1>3. QED
  BY <1>2, LateKept, ElsewhereInv DEF UserMoves, IInv

\* The user changes pages only.
LEMMA UserNavigatesInv ==
  ASSUME IInv, NEW t \in Tabs, UserNavigates(t)
  PROVE  IInv'
<1>1. spent' \in Bounds
  BY BoundsAssumption DEF UserNavigates, Spend, IInv, TypeOK, Bounds
<1>2. TypeOK'
  BY <1>1 DEF UserNavigates, IInv, TypeOK, plans, history
<1>3. QED
  BY <1>2, LateKept, ElsewhereInv DEF UserNavigates, IInv, history

-----------------------------------------------------------------------------
(* The theorems.                                                           *)

\* The invariant holds when the host starts.
LEMMA InitInv == Init => IInv
<1> SUFFICES ASSUME Init PROVE IInv
  OBVIOUS
<1>1. Idle \in Call /\ Idle.phase = "idle"
  BY IdleType DEF Outcomes, Idle
<1>2. TypeOK
  <2>1. groupOf \in [Tabs -> Places] /\ usedGroups \subseteq GroupIDs
    BY PlaceAssumption DEF Init, Places
  <2>2. spent \in Bounds
    BY BoundsAssumption DEF Init, Bounds
  <2>3. page \in [Tabs -> Nat] /\ began \in [PreviewIDs -> Nat]
    BY DEF Init
  <2>4. call \in [Clients -> Call]
    BY <1>1 DEF Init
  <2>5. records \in [PreviewIDs -> PreviewRecord \cup {None}]
    BY DEF Init
  <2>6. QED
    BY <2>1, <2>2, <2>3, <2>4, <2>5 DEF Init, TypeOK
<1>3. \A c \in Clients : CallInv(c)
  BY <1>1 DEF Init, CallInv, HoldsLock, Applying, In
<1>4. QED
  BY <1>2, <1>3 DEF Init, IInv, PreviewsInv, AppliedAtMostOnce, LateInv

\* The invariant is one of states.
LEMMA StutterInv == IInv /\ UNCHANGED vars => IInv'
BY LateKept, ElsewhereInv DEF IInv, TypeOK, vars, chrome, plans, history

\* Every step keeps the invariant.
LEMMA NextInv == IInv /\ [Next]_vars => IInv'
<1> SUFFICES ASSUME IInv, [Next]_vars PROVE IInv'
  OBVIOUS
<1>1. CASE \E c \in Clients : Start(c)
  BY <1>1, StartPreviewInv, StartApplyInv, StartUndoInv DEF Start
<1>2. CASE \E c \in Clients : Lock(c)
  BY <1>2, ConsumeInv, TakeUndoInv DEF Lock
<1>3. CASE \E c \in Clients : Answer(c)
  BY <1>3, ValidateContentRevisionsInv, PreviewInv, RefuseStaleInv, BeginOperationsInv,
     CommitInv, CarryOutInv, FailOperationInv, RollbackInv, UndoInv, FailUndoInv,
     FailReadInv DEF Answer
<1>4. CASE \E c \in Clients : Cancel(c)
  BY <1>4, CancelInv
<1>5. CASE Environment
  BY <1>5, ExpireInv, AnswerLateInv, HostExitInv, UserMovesInv, UserNavigatesInv
     DEF Environment
<1>6. CASE UNCHANGED vars
  BY <1>6, StutterInv
<1>7. QED
  BY <1>1, <1>2, <1>3, <1>4, <1>5, <1>6 DEF Next

\* The inductive invariant holds in every reachable state.
THEOREM Invariance == Spec => []IInv
BY InitInv, NextInv, PTL DEF Spec

\* Every variable keeps its type: in particular no tab is ever put in a place
\* that is neither a group Chrome gave out, nor no group, nor closed, whatever
\* becomes of the requests of calls that are gone.
THEOREM TypeCorrect == Spec => []TypeOK
<1>1. IInv => TypeOK
  BY DEF IInv
<1>2. QED
  BY <1>1, Invariance, PTL

\* A preview is applied at most once: PreviewManager.Consume hands each record
\* to one call, and to none after a host exit.
THEOREM AtMostOnce == Spec => []AppliedAtMostOnce
<1>1. IInv => AppliedAtMostOnce
  BY DEF IInv
<1>2. QED
  BY <1>1, Invariance, PTL

\* Apply and Undo exclude each other, from operationMu.Lock to their return.
THEOREM MutualExclusion == Spec => []OneChangeAtATime
<1>1. IInv => OneChangeAtATime
  BY DEF IInv, CallInv, HoldsLock, OneChangeAtATime
<1>2. QED
  BY <1>1, Invariance, PTL

\* Apply never finds the mapping of a new group missing, for any plan that
\* BuildOperations has turned into operations.
THEOREM GroupsBeforeMoves == Spec => []CreatedBeforeUse
<1>1. IInv => CreatedBeforeUse
  <2> SUFFICES ASSUME IInv, NEW c \in Clients, In(c, "applying"), NEW o \in call[c].todo,
                      IsNext(o, call[c].todo), o.kind = "move_tab"
               PROVE  Resolved(c, o).dest # None
    BY DEF CreatedBeforeUse
  <2>1. Concrete(Resolved(c, o)) /\ Resolved(c, o).kind = "move_tab"
    BY NextOperation DEF IInv
  <2>2. QED
    BY <2>1, PlaceAssumption DEF Concrete
<1>2. QED
  BY <1>1, Invariance, PTL

-----------------------------------------------------------------------------
(* What an apply does to Chrome: the inductive invariant, on top of IInv.  *)

\* A tab is moved to one place, once its group has been created.
OnePerTab(ops) ==
  \A o, p \in ops :
    o.kind # "create_group" /\ p.kind # "create_group" /\ o.tab = p.tab => o = p

\* A record is what Preview has made of a plan that it found valid.
MadeFromPlan(rec) ==
  /\ ValidatePlan(rec.plan, rec.revision)
  /\ rec.operations = BuildOperations(rec.plan, rec.revision)

\* A call that has taken a record, and one that has begun its operations, which it
\* is when it has ended well, too.
HasRecord(r) == r.phase \in {"checking", "applying", "rolling_back"} \/ r.outcome = "applied"
Working(r)   == r.phase = "applying" \/ r.outcome = "applied"

Made(r) ==
  /\ HasRecord(r) => r.record \in PreviewRecord /\ MadeFromPlan(r.record)
  /\ r.outcome = "applied" => r.phase = "idle"

RecordsMade == \A id \in PreviewIDs : records[id] # None => MadeFromPlan(records[id])

\* Where a call's operation o goes, given the groups it has created.
Place(r, o) == IF o.kind = "move_tab" /\ o.dest \in Keys THEN r.createdGroups[o.dest] ELSE o.dest

Done(r) == r.record.operations \ r.todo

\* Creations come first; tabs not yet come to are as they were; the others are
\* where their operation put them.
Moves(r) ==
  /\ \A p \in Done(r), q \in r.todo : q.kind = "create_group" => p.kind = "create_group"
  /\ \A t \in Tabs : (\A o \in Done(r) : o.tab # t) => groupOf[t] = r.record.revision[t]
  /\ \A o \in Done(r) :
       /\ o.kind # "create_group" => groupOf[o.tab] = Place(r, o)
       /\ o.kind = "move_tab" => Place(r, o) \in GroupIDs

\* The groups it has created are as many as their keys, and none of them is one
\* that the preview knew.
Creates(r) ==
  /\ \A t \in Tabs : r.record.revision[t] \in GroupIDs => r.record.revision[t] \in usedGroups
  /\ \A k \in Keys : r.createdGroups[k] # None =>
       /\ r.createdGroups[k] \in usedGroups
       /\ \A j \in Keys : r.createdGroups[j] = r.createdGroups[k] => j = k
       /\ \A t \in Tabs : r.record.revision[t] # r.createdGroups[k]

Progress(c) ==
  Working(call[c]) /\ c \in calm =>
    /\ call[c].todo \subseteq call[c].record.operations
    /\ Moves(call[c])
    /\ Creates(call[c])
    /\ call[c].outcome = "applied" => call[c].todo = {}

EInv ==
  /\ GroupsUsed
  /\ RecordsMade
  /\ \A c \in Clients : Made(call[c])
  /\ \A c \in Clients : Progress(c)

-----------------------------------------------------------------------------
(* Chrome gives out identifiers and takes none back.                       *)

\* So does a restore: a group that is gone comes back under a new identifier.
LEMMA RestoreUsesGroups ==
  ASSUME NEW undo \in UndoSnapshot, GroupsUsed, Restores(undo) \/ RestoreThrows(undo)
  PROVE  GroupsUsed' /\ usedGroups \subseteq usedGroups'
<1>1. CASE UNCHANGED <<groupOf, usedGroups>>
  BY <1>1 DEF GroupsUsed
<1>2. ASSUME NEW S \in SUBSET Restorable(undo), RestoreTabs(undo, S)
      PROVE  GroupsUsed' /\ usedGroups \subseteq usedGroups'
  <2> DEFINE gone == {undo.tabs[t] : t \in S}
                       \ ({Ungrouped} \cup {g \in GroupIDs : Exists(g, groupOf)})
  <2>1. PICK id \in [gone -> Fresh] :
          /\ groupOf' = [t \in Tabs |-> IF t \notin S THEN groupOf[t]
                                        ELSE IF undo.tabs[t] \in gone THEN id[undo.tabs[t]]
                                        ELSE undo.tabs[t]]
          /\ usedGroups' = usedGroups \cup {id[g] : g \in gone}
    BY <1>2 DEF RestoreTabs
  <2>2. ASSUME NEW t \in Tabs, groupOf'[t] \in GroupIDs PROVE groupOf'[t] \in usedGroups'
    <3>1. CASE t \notin S
      BY <2>1, <2>2, <3>1 DEF GroupsUsed
    <3>2. CASE t \in S /\ undo.tabs[t] \in gone
      BY <2>1, <3>2
    <3>3. CASE t \in S /\ undo.tabs[t] \notin gone
      <4>1. groupOf'[t] = undo.tabs[t] /\ undo.tabs[t] \in GroupIDs
        BY <2>1, <2>2, <3>3
      <4>2. Exists(undo.tabs[t], groupOf)
        BY <3>3, <4>1, PlaceAssumption
      <4>3. QED
        BY <2>1, <4>1, <4>2 DEF Exists, GroupsUsed
    <3>4. QED
      BY <3>1, <3>2, <3>3
  <2>3. QED
    BY <2>1, <2>2 DEF GroupsUsed
<1>3. QED
  BY <1>1, <1>2 DEF Restores, RestoreThrows

-----------------------------------------------------------------------------
(* Plans and their operations.                                             *)

\* BuildOperations has one place for a tab.
LEMMA OneOperationPerTab ==
  ASSUME NEW plan \in Plans, NEW grouping \in [Tabs -> Places]
  PROVE  OnePerTab(BuildOperations(plan, grouping))
<1>1. plan.dest \in [Tabs -> Destinations]
  BY PlansAssumption
<1>2. ASSUME NEW o \in BuildOperations(plan, grouping), o.kind # "create_group"
      PROVE  \E t \in Tabs :
               o = [kind |-> IF plan.dest[t] = Ungrouped THEN "ungroup_tab" ELSE "move_tab",
                    tab |-> t, dest |-> plan.dest[t]]
  BY <1>2, PlaceAssumption DEF BuildOperations, Assigned
<1>3. QED
  BY <1>2 DEF OnePerTab

-----------------------------------------------------------------------------
(* Steps that do no operation.                                             *)

\* A call that goes on as it was, in a Chrome nobody else has changed, or that
\* does not count any more.
LEMMA ProgressKept ==
  ASSUME NEW d \in Clients, Progress(d), usedGroups \subseteq usedGroups',
         Working(call'[d]) /\ d \in calm' =>
           call'[d] = call[d] /\ d \in calm /\ groupOf' = groupOf
  PROVE  Progress(d)'
<1> SUFFICES ASSUME Working(call'[d]), d \in calm'
             PROVE  /\ call'[d].todo \subseteq call'[d].record.operations
                    /\ Moves(call[d])' /\ Creates(call[d])'
                    /\ call'[d].outcome = "applied" => call'[d].todo = {}
  BY DEF Progress
<1>1. Working(call[d]) /\ d \in calm /\ call'[d] = call[d] /\ groupOf' = groupOf
  OBVIOUS
<1>2. Moves(call[d])'
  BY <1>1 DEF Progress, Moves, Done, Place
<1>3. Creates(call[d])'
  BY <1>1 DEF Progress, Creates
<1>4. QED
  BY <1>1, <1>2, <1>3 DEF Progress

\* One call goes on, to something other than operations.
LEMMA OneCallElsewhere ==
  ASSUME IInv, EInv, NEW c \in Clients, NEW r, call' = [call EXCEPT ![c] = r],
         ~Working(r), Made(r), GroupsUsed', RecordsMade', usedGroups \subseteq usedGroups',
         calm' \subseteq calm \cup {c},
         groupOf' = groupOf \/ calm' \subseteq {c}
  PROVE  EInv'
<1>1. call'[c] = r /\ \A d \in Clients \ {c} : call'[d] = call[d]
  BY DEF IInv, TypeOK
<1>2. \A d \in Clients : Made(call'[d])
  BY <1>1 DEF EInv
<1>3. ASSUME NEW d \in Clients PROVE Progress(d)'
  <2>1. Progress(d)
    BY DEF EInv
  <2>2. Working(call'[d]) /\ d \in calm' => call'[d] = call[d] /\ d \in calm /\ groupOf' = groupOf
    BY <1>1
  <2>3. QED
    BY <2>1, <2>2, ProgressKept
<1>4. QED
  BY <1>2, <1>3 DEF EInv, Made, MadeFromPlan, HasRecord

\* No call goes on.
LEMMA NoCall ==
  ASSUME EInv, UNCHANGED call, GroupsUsed', RecordsMade', usedGroups \subseteq usedGroups',
         (UNCHANGED <<groupOf, calm>>) \/ calm' = {}
  PROVE  EInv'
<1>1. \A d \in Clients : Progress(d)'
  <2> SUFFICES ASSUME NEW d \in Clients PROVE Progress(d)'
    OBVIOUS
  <2>1. Progress(d)
    BY DEF EInv
  <2>2. d \in calm' => call'[d] = call[d] /\ d \in calm /\ groupOf' = groupOf
    OBVIOUS
  <2>3. QED
    BY <2>1, <2>2, ProgressKept
<1>2. QED
  BY <1>1 DEF EInv

\* A call that returns, having applied nothing.
LEMMA ReturnElsewhere ==
  ASSUME IInv, EInv, NEW c \in Clients, NEW o \in Outcomes \ {"applied"},
         Return(c, o) \/ Report(c, o),
         GroupsUsed', RecordsMade', usedGroups \subseteq usedGroups',
         calm' \subseteq calm, groupOf' = groupOf \/ calm' \subseteq {c}
  PROVE  EInv'
<1>1. PICK r : call' = [call EXCEPT ![c] = r] /\ r.phase = "idle" /\ r.outcome = o
  <2>1. CASE Return(c, o)
    <3> DEFINE r == [Idle EXCEPT !.outcome = o]
    <3>1. call' = [call EXCEPT ![c] = r] /\ r.phase = "idle" /\ r.outcome = o
      BY <2>1 DEF Return, Idle
    <3>2. QED
      BY <3>1
  <2>2. CASE Report(c, o)
    <3> DEFINE r == [call[c] EXCEPT !.phase = "idle", !.outcome = o]
    <3>1. call' = [call EXCEPT ![c] = r] /\ r.phase = "idle" /\ r.outcome = o
      <4>1. call \in [Clients -> Call]
        BY DEF IInv, TypeOK
      <4> QED
        BY <2>2, <4>1, ReportedCall
    <3>2. QED
      BY <3>1
  <2>3. QED
    BY <2>1, <2>2
<1>2. ~Working(r) /\ Made(r)
  BY <1>1 DEF Working, Made, HasRecord
<1>3. QED
  BY <1>1, <1>2, OneCallElsewhere

\* A call that waits for something other than an operation.
LEMMA EnterElsewhere ==
  ASSUME IInv, EInv, NEW c \in Clients, NEW p \in {"previewing", "rolling_back", "undoing"},
         Enter(c, p), ~In(c, "idle"),
         p = "rolling_back" => In(c, "applying"),
         GroupsUsed', RecordsMade', usedGroups \subseteq usedGroups',
         calm' \subseteq calm, groupOf' = groupOf \/ calm' \subseteq {c}
  PROVE  EInv'
<1> DEFINE r == [call[c] EXCEPT !.phase = p]
<1>1. call' = [call EXCEPT ![c] = r] /\ r.phase = p /\ r.outcome = call[c].outcome /\ r.record = call[c].record
  BY DEF Enter, IInv, TypeOK, Call
<1>2. Made(call[c]) /\ call[c].outcome # "applied"
  BY DEF EInv, Made, In
<1>3. ~Working(r) /\ Made(r)
  BY <1>1, <1>2 DEF Working, Made, HasRecord, In
<1>4. QED
  BY <1>1, <1>3, OneCallElsewhere

\* With the same records and the same grouping, RecordsMade and GroupsUsed stay.
LEMMA SameChrome ==
  ASSUME EInv, UNCHANGED <<groupOf, usedGroups>>
  PROVE  GroupsUsed' /\ usedGroups \subseteq usedGroups'
BY DEF EInv, GroupsUsed

\* Where no record changes, each is still made from its plan.
LEMMA SameRecords ==
  ASSUME EInv, UNCHANGED records
  PROVE  RecordsMade'
BY DEF EInv, RecordsMade, MadeFromPlan

\* Calls that only begin, wait for a lock, look, or end early.
LEMMA QuietSteps ==
  ASSUME IInv, EInv, NEW c \in Clients,
         \/ \E plan \in Plans, read \in [Tabs -> 0..MaxEdits] : StartPreview(c, plan, read)
         \/ \E id \in PreviewIDs : StartApply(c, id)
         \/ StartUndo(c) \/ TakeUndo(c) \/ ValidateContentRevisions(c)
         \/ RefuseStale(c) \/ FailRead(c) \/ Cancel(c)
  PROVE  EInv'
<1>1. CASE \/ \E plan \in Plans, read \in [Tabs -> 0..MaxEdits] : StartPreview(c, plan, read)
           \/ \E id \in PreviewIDs : StartApply(c, id)
           \/ StartUndo(c)
  <2>1. UNCHANGED <<groupOf, usedGroups, records>> /\ calm' = calm \ {c}
    BY <1>1 DEF StartPreview, StartApply, StartUndo, chrome, plans
  <2> DEFINE Begun(r) == /\ call' = [call EXCEPT ![c] = r] /\ r.outcome = "none"
                         /\ r.phase \in {"previewing", "validating", "apply_locking", "undo_locking"}
  <2>2. \E r : Begun(r)
    <3>1. ASSUME NEW plan \in Plans, NEW read, StartPreview(c, plan, read)
          PROVE  Begun([Idle EXCEPT !.phase = IF plan.refs = {} THEN "previewing" ELSE "validating",
                                    !.plan = plan, !.read = read])
      BY <3>1 DEF StartPreview, Idle
    <3>2. ASSUME NEW id, StartApply(c, id)
          PROVE  Begun([Idle EXCEPT !.phase = "apply_locking", !.id = id])
      BY <3>2 DEF StartApply, Idle
    <3>3. ASSUME StartUndo(c)
          PROVE  Begun([Idle EXCEPT !.phase = "undo_locking"])
      BY <3>3 DEF StartUndo, Idle
    <3> HIDE DEF Begun
    <3>4. QED
      BY <1>1, <3>1, <3>2, <3>3
  <2>3. PICK r : call' = [call EXCEPT ![c] = r] /\ ~Working(r) /\ Made(r)
    BY <2>2 DEF Working, Made, HasRecord
  <2>4. QED
    BY <2>1, <2>3, SameChrome, SameRecords, OneCallElsewhere
<1>2. CASE TakeUndo(c) \/ ValidateContentRevisions(c)
  <2>1. /\ UNCHANGED <<groupOf, usedGroups, records, calm>> /\ ~In(c, "idle")
        /\ \/ Enter(c, "undoing") \/ Enter(c, "previewing")
           \/ Return(c, "UNDO_UNAVAILABLE") \/ Return(c, "CONTENT_STALE")
    BY <1>2 DEF TakeUndo, ValidateContentRevisions, chrome, plans, history, In
  <2>2. QED
    BY <2>1, SameChrome, SameRecords, ReturnElsewhere, EnterElsewhere DEF Outcomes
<1>3. CASE RefuseStale(c) \/ FailRead(c) \/ Cancel(c)
  <2>1. /\ UNCHANGED <<groupOf, usedGroups, records, calm>>
        /\ \E o \in Outcomes \ {"applied"} : Return(c, o)
    BY <1>3 DEF RefuseStale, FailRead, Cancel, chrome, plans, history, Outcomes
  <2>2. QED
    BY <2>1, SameChrome, SameRecords, ReturnElsewhere
<1>4. QED
  BY <1>1, <1>2, <1>3

\* Preview stores what it has made of the plan on the grouping it was answered.
LEMMA PreviewEffect ==
  ASSUME IInv, EInv, NEW c \in Clients, Preview(c)
  PROVE  EInv'
<1> DEFINE plan == call[c].plan
           rec  == [plan |-> plan, read |-> call[c].read, revision |-> groupOf,
                    operations |-> BuildOperations(plan, groupOf), expired |-> FALSE]
<1>1. /\ UNCHANGED <<groupOf, usedGroups, calm>>
      /\ Return(c, "PLAN_INVALID") \/ Return(c, "previewed")
  BY DEF Preview, chrome, history
<1>2. RecordsMade'
  <2>1. CASE UNCHANGED plans
    BY <2>1, SameRecords DEF plans
  <2>2. CASE \E id \in PreviewIDs \ drawn : ValidatePlan(plan, groupOf) /\ records' = [records EXCEPT ![id] = rec]
    <3>1. ValidatePlan(plan, groupOf) => MadeFromPlan(rec)
      BY DEF MadeFromPlan
    <3> HIDE DEF rec
    <3>2. \A id \in PreviewIDs : records[id] # None => MadeFromPlan(records[id])
      BY DEF EInv, RecordsMade
    <3>3. \A id \in PreviewIDs : records'[id] # None => MadeFromPlan(records'[id])
      BY <2>2, <3>1, <3>2 DEF IInv, TypeOK
    <3>4. QED
      BY <3>3 DEF RecordsMade, MadeFromPlan
  <2>3. QED
    BY <2>1, <2>2 DEF Preview
<1>3. QED
  BY <1>1, <1>2, SameChrome, ReturnElsewhere DEF Outcomes

\* Consume gives the record it has found to its call.
LEMMA ConsumeEffect ==
  ASSUME IInv, EInv, NEW c \in Clients, Consume(c)
  PROVE  EInv'
<1> DEFINE id == call[c].id
<1>1. /\ In(c, "apply_locking") /\ id \in PreviewIDs
      /\ records' = [records EXCEPT ![id] = None]
      /\ UNCHANGED <<groupOf, usedGroups, calm>>
      /\ records \in [PreviewIDs -> PreviewRecord \cup {None}]
      /\ \A i \in PreviewIDs : records[i] # None => MadeFromPlan(records[i])
  BY DEF Consume, WithoutRecord, chrome, history, IInv, TypeOK, CallInv, EInv, RecordsMade
<1>2. RecordsMade'
  <2>1. \A i \in PreviewIDs : records'[i] # None => MadeFromPlan(records'[i])
    BY <1>1
  <2>2. QED
    BY <2>1 DEF RecordsMade, MadeFromPlan
<1>3. CASE Return(c, "PREVIEW_NOT_FOUND") \/ Return(c, "PREVIEW_EXPIRED")
  BY <1>1, <1>2, <1>3, SameChrome, ReturnElsewhere DEF Outcomes
<1>4. CASE records[id] # None /\ call' = [call EXCEPT ![c].phase = "checking", ![c].record = records[id]]
  <2> DEFINE r == [call[c] EXCEPT !.phase = "checking", !.record = records[id]]
  <2>1. r.phase = "checking" /\ r.record = records[id] /\ r.outcome = call[c].outcome
    BY DEF IInv, TypeOK, Call
  <2>2. call' = [call EXCEPT ![c] = r]
    BY <1>4 DEF IInv, TypeOK
  <2>3. call[c].outcome # "applied"
    BY <1>1 DEF EInv, Made, In
  <2> HIDE DEF r
  <2>4. ~Working(r) /\ Made(r)
    BY <1>1, <1>4, <2>1, <2>3 DEF Working, Made
  <2>5. QED
    BY <1>1, <1>2, <2>2, <2>4, SameChrome, OneCallElsewhere
<1>5. QED
  BY <1>3, <1>4 DEF Consume

-----------------------------------------------------------------------------
(* The steps of an apply.                                                  *)

\* Once the groupings are found to be equal, the apply has everything to do and
\* every tab is as the preview says.
LEMMA BeginOperationsEffect ==
  ASSUME IInv, EInv, NEW c \in Clients, BeginOperations(c)
  PROVE  EInv'
<1> DEFINE r == [call[c] EXCEPT !.phase = "applying", !.base = groupOf, !.todo = call[c].record.operations]
<1>1. /\ In(c, "checking") /\ groupOf = call[c].record.revision
      /\ UNCHANGED <<groupOf, usedGroups, records>> /\ calm' = calm \cup {c}
      /\ call' = [call EXCEPT ![c] = r]
  BY DEF BeginOperations, chrome, plans, IInv, TypeOK
<1>2. /\ r.phase = "applying" /\ r.outcome = call[c].outcome /\ r.record = call[c].record
      /\ r.todo = r.record.operations /\ r.createdGroups = call[c].createdGroups
  BY DEF IInv, TypeOK, Call
<1> HIDE DEF r
<1>3. call'[c] = r /\ \A d \in Clients \ {c} : call'[d] = call[d]
  BY <1>1 DEF IInv, TypeOK
<1>4. Made(call[c]) /\ call[c].outcome # "applied" /\ call[c].createdGroups = NoGroups
  BY <1>1 DEF EInv, Made, In, IInv, CallInv
<1>5. Made(r)
  BY <1>1, <1>2, <1>4 DEF Made, HasRecord, In
<1>6. Progress(c)'
  <2>1. Done(r) = {}
    BY <1>2 DEF Done
  <2>2. Moves(call[c])'
    BY <1>1, <1>2, <1>3, <2>1 DEF Moves, Done, Place
  <2>3. Creates(call[c])'
    BY <1>1, <1>2, <1>3, <1>4 DEF Creates, NoGroups, EInv, GroupsUsed
  <2>4. QED
    BY <1>2, <1>3, <1>4, <2>2, <2>3 DEF Progress
<1>7. ASSUME NEW d \in Clients \ {c} PROVE Progress(d)'
  BY <1>1, <1>3, ProgressKept DEF EInv
<1>8. \A d \in Clients : Made(call'[d])
  BY <1>3, <1>5 DEF EInv
<1>9. QED
  BY <1>1, <1>6, <1>7, <1>8, SameChrome, SameRecords DEF EInv, Made, MadeFromPlan, HasRecord

\* An operation of a call in progress moves its tab to its place, and no other
\* operation that is done is about this tab.
LEMMA CarryOutEffect ==
  ASSUME IInv, EInv, NEW c \in Clients, NEW o \in call[c].todo, CarryOut(c, o)
  PROVE  EInv'
<1> DEFINE created == IF o.kind = "create_group"
                      THEN [call[c].createdGroups EXCEPT ![o.dest] = groupOf'[o.tab]]
                      ELSE call[c].createdGroups
           r       == [call[c] EXCEPT !.todo = @ \ {o}, !.createdGroups = created]
           old     == call[c]
<1>1. /\ In(c, "applying") /\ IsNext(o, old.todo)
      /\ ApplyChromeOperation(Resolved(c, o))
      /\ UNCHANGED records /\ calm' = calm \cap {c}
      /\ call' = [call EXCEPT ![c] = r]
  BY DEF CarryOut, plans, IInv, TypeOK
<1>2. /\ r.phase = old.phase /\ r.outcome = old.outcome /\ r.record = old.record
      /\ r.todo = old.todo \ {o} /\ r.createdGroups = created
  BY DEF IInv, TypeOK, Call
<1>3. /\ Concrete(Resolved(c, o)) /\ o.kind = Resolved(c, o).kind /\ o.tab = Resolved(c, o).tab
      /\ o.kind = "create_group" => o.dest \in Keys /\ Resolved(c, o) = o
  BY <1>1, NextOperation DEF IInv
<1>4. /\ o \in Operation /\ groupOf \in [Tabs -> Places] /\ usedGroups \subseteq GroupIDs
      /\ old.createdGroups \in [Keys -> GroupIDs \cup {None}]
      /\ old.todo \subseteq old.record.operations
      /\ OperationsOK(old.record.operations)
  BY <1>1 DEF IInv, TypeOK, Call, CallInv, Applying, In, RunnableOperations, OperationsOK
<1>5. /\ GroupsUsed' /\ usedGroups \subseteq usedGroups'
      /\ \A t \in Tabs : t # o.tab => groupOf'[t] = groupOf[t]
  BY <1>1, <1>3, <1>4, OperationUsesGroups DEF EInv, Operation
<1>6. Made(old) /\ old.outcome # "applied" /\ old.record \in PreviewRecord /\ MadeFromPlan(old.record)
  BY <1>1 DEF EInv, Made, HasRecord, In
<1>7. OnePerTab(old.record.operations)
  BY <1>6, OneOperationPerTab DEF MadeFromPlan, PreviewRecord
<1> HIDE DEF r
<1>8. call'[c] = r /\ \A d \in Clients \ {c} : call'[d] = call[d]
  BY <1>1 DEF IInv, TypeOK
<1>9. ASSUME c \in calm PROVE Moves(call[c])' /\ Creates(call[c])'
  <2>1. Moves(old) /\ Creates(old)
    BY <1>1, <1>9 DEF EInv, Progress, Working, In
  <2>2. Done(r) = Done(old) \cup {o} /\ o \notin Done(old)
    BY <1>2, <1>4 DEF Done
  <2>3. \A q \in r.todo : q.kind = "create_group" => o.kind = "create_group"
    BY <1>1, <1>2 DEF IsNext, Before
  <2>4. \A p \in Done(old) : o.kind = "create_group" => p.kind = "create_group"
    BY <2>1 DEF Moves
  <2>5. CASE o.kind = "create_group"
    <3>1. PICK g \in Fresh : /\ groupOf' = [groupOf EXCEPT ![o.tab] = g]
                             /\ usedGroups' = usedGroups \cup {g}
      BY <1>3, <2>5 DEF ApplyChromeOperation, CarryOut
    <3>2. o.tab \in Tabs /\ o.dest \in Keys /\ g \in GroupIDs \ usedGroups /\ groupOf'[o.tab] = g
      BY <1>3, <1>4, <2>5, <3>1 DEF Operation, Fresh
    <3>3. created = [old.createdGroups EXCEPT ![o.dest] = g]
      BY <2>5, <3>2
    <3> HIDE DEF created
    <3>4. \A p \in Done(r) : p.kind = "create_group"
      BY <2>2, <2>4, <2>5
    <3>5. \A t \in Tabs : (\A p \in Done(r) : p.tab # t) => groupOf'[t] = r.record.revision[t]
      BY <1>2, <1>5, <2>1, <2>2 DEF Moves
    <3>6. Moves(call[c])'
      BY <1>8, <2>5, <3>4, <3>5 DEF Moves, Done
    <3>7. /\ \A t \in Tabs : old.record.revision[t] # g
          /\ \A k \in Keys : old.createdGroups[k] # g
      BY <2>1, <3>2, PlaceAssumption DEF Creates
    <3>8. \A k \in Keys : created[k] = IF k = o.dest THEN g ELSE old.createdGroups[k]
      BY <1>4, <3>3
    <3>9. /\ r.record = old.record /\ r.createdGroups = created
          /\ usedGroups' = usedGroups \cup {g} /\ call'[c] = r
      BY <1>2, <1>8, <3>1
    <3>10. Creates(call[c])'
      BY <2>1, <3>7, <3>8, <3>9 DEF Creates
    <3>11. QED
      BY <3>6, <3>10
  <2>6. CASE o.kind # "create_group"
    <3> DEFINE dest == Resolved(c, o).dest
    <3>1. groupOf' = [groupOf EXCEPT ![o.tab] = dest] /\ usedGroups' = usedGroups
      BY <1>3, <2>6 DEF ApplyChromeOperation, CarryOut
    <3>2. r.createdGroups = old.createdGroups /\ created = old.createdGroups
      BY <1>2, <2>6
    <3> HIDE DEF created
    <3>3. o.tab \in Tabs /\ groupOf'[o.tab] = dest /\ dest = Place(old, o)
          /\ (o.kind = "move_tab" => dest \in GroupIDs)
      BY <1>3, <1>4, <3>1 DEF Operation, Resolved, Place, Concrete
    <3> HIDE DEF dest
    <3>4. \A p \in Done(old) : p.kind # "create_group" => p.tab # o.tab /\ p.tab \in Tabs
      BY <1>4, <1>7, <2>2, <2>6 DEF OnePerTab, Done, OperationsOK, Operation
    <3>5. \A p \in Done(r), q \in r.todo : q.kind = "create_group" => p.kind = "create_group"
      BY <2>3, <2>6
    <3>6. \A t \in Tabs : (\A p \in Done(r) : p.tab # t) => groupOf'[t] = r.record.revision[t]
      BY <1>2, <1>5, <2>1, <2>2 DEF Moves
    <3>7. \A p \in Done(r) :
            /\ p.kind # "create_group" => groupOf'[p.tab] = Place(r, p)
            /\ p.kind = "move_tab" => Place(r, p) \in GroupIDs
      <4> SUFFICES ASSUME NEW p \in Done(r)
                   PROVE  /\ p.kind # "create_group" => groupOf'[p.tab] = Place(r, p)
                          /\ p.kind = "move_tab" => Place(r, p) \in GroupIDs
        OBVIOUS
      <4>1. Place(r, p) = Place(old, p)
        BY <3>2 DEF Place
      <4>2. CASE p = o
        BY <3>3, <4>1, <4>2
      <4>3. CASE p \in Done(old)
        BY <1>5, <2>1, <3>4, <4>1, <4>3 DEF Moves
      <4>4. QED
        BY <2>2, <4>2, <4>3
    <3>8. Moves(call[c])'
      BY <1>8, <3>5, <3>6, <3>7 DEF Moves, Done, Place
    <3>9. Creates(call[c])'
      BY <1>2, <1>8, <2>1, <3>1, <3>2 DEF Creates
    <3>10. QED
      BY <3>8, <3>9
  <2>7. QED
    BY <2>5, <2>6
<1>10. Progress(c)'
  <2>1. r.outcome # "applied" /\ r.todo \subseteq r.record.operations
    BY <1>2, <1>4, <1>6
  <2>2. QED
    BY <1>1, <1>8, <1>9, <2>1 DEF Progress
<1>11. ASSUME NEW d \in Clients \ {c} PROVE Progress(d)'
  BY <1>1, <1>11 DEF Progress
<1>12. \A d \in Clients : Made(call'[d])
  BY <1>1, <1>2, <1>6, <1>8 DEF EInv, Made, HasRecord, In
<1>13. QED
  BY <1>1, <1>5, <1>10, <1>11, <1>12, SameRecords DEF EInv, Made, MadeFromPlan, HasRecord

\* The apply that ends well keeps what it has done.
LEMMA CommitEffect ==
  ASSUME IInv, EInv, NEW c \in Clients, Commit(c)
  PROVE  EInv'
<1> DEFINE r == [call[c] EXCEPT !.phase = "idle", !.outcome = "applied"]
<1>1. /\ In(c, "applying") /\ call[c].todo = {}
      /\ UNCHANGED <<groupOf, usedGroups, records, calm>>
      /\ call' = [call EXCEPT ![c] = r]
  BY DEF Commit, Report, chrome, plans, IInv, TypeOK
<1>2. /\ r.phase = "idle" /\ r.outcome = "applied" /\ r.record = call[c].record
      /\ r.todo = call[c].todo /\ r.createdGroups = call[c].createdGroups
  BY DEF IInv, TypeOK, Call
<1> HIDE DEF r
<1>3. call'[c] = r /\ \A d \in Clients \ {c} : call'[d] = call[d]
  BY <1>1 DEF IInv, TypeOK
<1>4. \A d \in Clients : Made(call'[d])
  BY <1>1, <1>2, <1>3 DEF EInv, Made, HasRecord, In
<1>5. Progress(c)'
  <2> SUFFICES ASSUME c \in calm'
               PROVE  Moves(call[c])' /\ Creates(call[c])' /\ call'[c].todo = {}
    BY DEF Progress
  <2>1. Moves(call[c]) /\ Creates(call[c])
    BY <1>1 DEF EInv, Progress, Working, In
  <2>2. Moves(call[c])'
    BY <1>1, <1>2, <1>3, <2>1 DEF Moves, Done, Place
  <2>3. Creates(call[c])'
    BY <1>1, <1>2, <1>3, <2>1 DEF Creates
  <2>4. QED
    BY <1>1, <1>2, <1>3, <2>2, <2>3
<1>6. ASSUME NEW d \in Clients \ {c} PROVE Progress(d)'
  BY <1>1, <1>3, ProgressKept DEF EInv
<1>7. QED
  BY <1>1, <1>4, <1>5, <1>6, SameChrome, SameRecords DEF EInv, Made, MadeFromPlan, HasRecord

\* An operation that fails leaves the apply to its rollback, whatever it has done.
LEMMA FailOperationEffect ==
  ASSUME IInv, EInv, NEW c \in Clients, NEW o \in call[c].todo, FailOperation(c, o)
  PROVE  EInv'
<1>1. /\ In(c, "applying") /\ ~In(c, "idle") /\ Enter(c, "rolling_back") /\ UNCHANGED records
  BY DEF FailOperation, plans, In
<1>2. CASE UNCHANGED <<groupOf, usedGroups, calm>>
  BY <1>1, <1>2, SameChrome, SameRecords, EnterElsewhere
<1>3. CASE ApplyChromeOperation(Resolved(c, o)) /\ calm' = calm \cap {c}
  <2>1. Concrete(Resolved(c, o)) /\ groupOf \in [Tabs -> Places]
    BY <1>1, NextOperation DEF IInv, TypeOK, FailOperation
  <2>2. GroupsUsed' /\ usedGroups \subseteq usedGroups'
    BY <1>3, <2>1, OperationUsesGroups DEF EInv, Concrete, Operation
  <2>3. QED
    BY <1>1, <1>3, <2>2, SameRecords, EnterElsewhere
<1>4. QED
  BY <1>2, <1>3 DEF FailOperation, history

\* A rollback or an undo ends its call and disturbs the others.
LEMMA RestoreEffect ==
  ASSUME IInv, EInv, NEW c \in Clients, Rollback(c) \/ Undo(c) \/ FailUndo(c)
  PROVE  EInv'
<1>1. CASE Rollback(c)
  <2>1. Restores(Undoing(c)) \/ RestoreThrows(Undoing(c))
    BY <1>1 DEF Rollback
  <2>2. Undoing(c) \in UndoSnapshot
    BY <1>1, UndoingType DEF Rollback, IInv, Applying, In
  <2>3. GroupsUsed' /\ usedGroups \subseteq usedGroups'
    BY <2>1, <2>2, RestoreUsesGroups DEF EInv
  <2>4. /\ \E out \in Outcomes \ {"applied"} : Return(c, out) \/ Report(c, out)
        /\ calm' = calm \cap {c} /\ UNCHANGED records
    BY <1>1 DEF Rollback, plans, Outcomes
  <2>5. QED
    BY <2>3, <2>4, SameRecords, ReturnElsewhere
<1>2. CASE Undo(c) \/ FailUndo(c)
  <2>1. Restores(undoSnapshot) \/ RestoreThrows(undoSnapshot)
    BY <1>2 DEF Undo, FailUndo
  <2>2. undoSnapshot \in UndoSnapshot
    BY <1>2 DEF Undo, FailUndo, IInv, CallInv
  <2>3. GroupsUsed' /\ usedGroups \subseteq usedGroups'
    BY <2>1, <2>2, RestoreUsesGroups DEF EInv
  <2>4. RecordsMade'
    BY <1>2, SameRecords DEF Undo, FailUndo, plans
  <2>5. CASE FailUndo(c)
    BY <2>3, <2>4, <2>5, ReturnElsewhere DEF FailUndo, Outcomes
  <2>6. CASE Undo(c)
    <3> DEFINE r == [call[c] EXCEPT !.phase = "idle",
                       !.outcome = IF FullyRestorable(undoSnapshot) THEN "undone" ELSE "undone_partly",
                       !.base = IF undoBase = None THEN @ ELSE undoBase]
    <3>1. call' = [call EXCEPT ![c] = r] /\ calm' \subseteq {c}
      BY <2>6 DEF Undo, IInv, TypeOK
    <3>2. r.phase = "idle" /\ r.outcome # "applied"
      BY DEF IInv, TypeOK, Call
    <3> HIDE DEF r
    <3>3. ~Working(r) /\ Made(r)
      BY <3>2 DEF Working, Made, HasRecord
    <3>4. QED
      BY <2>3, <2>4, <3>1, <3>3, OneCallElsewhere
  <2>7. QED
    BY <1>2, <2>5, <2>6
<1>3. QED
  BY <1>1, <1>2

-----------------------------------------------------------------------------
(* Everything else.                                                        *)

\* A record that has expired is made from the same plan.
LEMMA ExpireEffect ==
  ASSUME IInv, EInv, NEW id \in PreviewIDs, Expire(id)
  PROVE  EInv'
<1> DEFINE rec == [records[id] EXCEPT !.expired = TRUE]
<1>1. /\ records' = [records EXCEPT ![id] = rec] /\ records[id] \in PreviewRecord
      /\ records \in [PreviewIDs -> PreviewRecord \cup {None}]
      /\ records[id] # None
      /\ UNCHANGED <<groupOf, usedGroups, call, calm>>
  BY DEF Expire, IInv, TypeOK, chrome, history
<1>2. rec.plan = records[id].plan /\ rec.revision = records[id].revision /\ rec.operations = records[id].operations
  BY <1>1 DEF PreviewRecord
<1> HIDE DEF rec
<1>3. \A i \in PreviewIDs : records'[i] # None => MadeFromPlan(records'[i])
  BY <1>1, <1>2 DEF EInv, RecordsMade, MadeFromPlan
<1>4. RecordsMade'
  BY <1>3 DEF RecordsMade, MadeFromPlan
<1>5. QED
  BY <1>1, <1>4, SameChrome, NoCall

\* A late request disturbs everyone.
LEMMA AnswerLateEffect ==
  ASSUME IInv, EInv, NEW r \in late, AnswerLate(r)
  PROVE  EInv'
<1>1. UNCHANGED <<records, call>> /\ r.request \in Request
  BY DEF AnswerLate, plans, IInv, TypeOK
<1>2. CASE UNCHANGED <<groupOf, usedGroups, history>>
  BY <1>1, <1>2, SameChrome, SameRecords, NoCall DEF history
<1>3. CASE r.request.kind = "operation" /\ ApplyChromeOperation(r.request.operation) /\ Disturb
  <2>1. Concrete(r.request.operation) /\ groupOf \in [Tabs -> Places]
    BY <1>3 DEF IInv, LateInv, TypeOK
  <2>2. GroupsUsed' /\ usedGroups \subseteq usedGroups'
    BY <1>3, <2>1, OperationUsesGroups DEF EInv, Concrete, Operation
  <2>3. QED
    BY <1>1, <1>3, <2>2, SameRecords, NoCall DEF Disturb
<1>4. CASE /\ r.request.kind = "restore" /\ Disturb
           /\ Restores(r.request.undo) \/ RestoreThrows(r.request.undo)
  <2>1. r.request.undo \in UndoSnapshot
    BY <1>1, <1>4 DEF Request
  <2>2. GroupsUsed' /\ usedGroups \subseteq usedGroups'
    BY <1>4, <2>1, RestoreUsesGroups DEF EInv
  <2>3. QED
    BY <1>1, <1>4, <2>2, SameRecords, NoCall DEF Disturb
<1>5. r.request.kind \in {"read", "operation", "restore"}
  BY <1>1 DEF Request
<1>6. QED
  BY <1>2, <1>3, <1>4, <1>5 DEF AnswerLate

\* With the host the calls that have not returned are gone.
LEMMA HostExitEffect ==
  ASSUME IInv, EInv, HostExit
  PROVE  EInv'
<1> DEFINE gone == [Idle EXCEPT !.outcome = "disconnected"]
<1>a. gone.phase = "idle" /\ gone.outcome = "disconnected"
  BY DEF Idle
<1>b. \A d \in Clients : call'[d] = call[d] \/ call'[d] = gone
  BY DEF HostExit
<1>c. UNCHANGED <<groupOf, usedGroups, calm>> /\ records' = [id \in PreviewIDs |-> None]
  BY DEF HostExit, chrome
<1> HIDE DEF gone
<1>1. ASSUME NEW d \in Clients, call'[d] # call[d]
      PROVE  call'[d].phase = "idle" /\ call'[d].outcome = "disconnected"
  <2>1. call'[d] = gone
    BY <1>b, <1>1
  <2>2. QED
    BY ONLY <2>1, <1>a
<1>2. \A d \in Clients : Made(call'[d])
  BY <1>1 DEF EInv, Made, HasRecord
<1>3. ASSUME NEW d \in Clients PROVE Progress(d)'
  <2>1. Working(call'[d]) => call'[d] = call[d]
    BY <1>1 DEF Working
  <2>2. QED
    BY <1>c, <2>1, ProgressKept DEF EInv
<1>4. RecordsMade'
  BY <1>c DEF RecordsMade
<1>5. QED
  BY <1>c, <1>2, <1>3, <1>4, SameChrome DEF EInv, Made, MadeFromPlan, HasRecord

\* The user disturbs everyone, and makes groups in the way Chrome does.
LEMMA UserEffect ==
  ASSUME IInv, EInv,
         \/ \E t \in Tabs, place \in Places : UserMoves(t, place)
         \/ \E t \in Tabs : UserNavigates(t)
  PROVE  EInv'
<1>1. CASE \E t \in Tabs : UserNavigates(t)
  BY <1>1, SameChrome, SameRecords, NoCall DEF UserNavigates, plans, history
<1>2. ASSUME NEW t \in Tabs, NEW place \in Places, UserMoves(t, place) PROVE EInv'
  <2>1. /\ groupOf' = [groupOf EXCEPT ![t] = place] /\ usedGroups' = usedGroups \cup ({place} \cap GroupIDs)
        /\ UNCHANGED <<records, call>> /\ calm' = {}
    BY <1>2 DEF UserMoves, Disturb, plans
  <2>2. GroupsUsed' /\ usedGroups \subseteq usedGroups'
    BY <2>1 DEF EInv, GroupsUsed, IInv, TypeOK
  <2>3. QED
    BY <2>1, <2>2, SameRecords, NoCall
<1>3. QED
  BY <1>1, <1>2

-----------------------------------------------------------------------------
(* The theorems.                                                           *)

\* At first there is no record, no group but those tabs are in, and no call.
LEMMA InitEffect == Init => EInv
<1> SUFFICES ASSUME Init PROVE EInv
  OBVIOUS
<1>1. GroupsUsed /\ RecordsMade
  BY PlaceAssumption DEF Init, GroupsUsed, RecordsMade
<1>2. \A c \in Clients : Made(call[c]) /\ Progress(c)
  BY DEF Init, Idle, Made, HasRecord, Progress, Working
<1>3. QED
  BY <1>1, <1>2 DEF EInv

\* Every step keeps what is known of its effects.
LEMMA NextEffect == IInv /\ EInv /\ [Next]_vars => EInv'
<1> SUFFICES ASSUME IInv, EInv, [Next]_vars PROVE EInv'
  OBVIOUS
<1>1. CASE \E c \in Clients : Start(c) \/ Lock(c) \/ Cancel(c)
  BY <1>1, QuietSteps, ConsumeEffect DEF Start, Lock
<1>2. CASE \E c \in Clients : Answer(c)
  BY <1>2, QuietSteps, PreviewEffect, BeginOperationsEffect, CommitEffect, CarryOutEffect,
     FailOperationEffect, RestoreEffect DEF Answer
<1>3. CASE Environment
  BY <1>3, ExpireEffect, AnswerLateEffect, HostExitEffect, UserEffect DEF Environment
<1>4. CASE UNCHANGED vars
  BY <1>4, SameChrome, SameRecords, NoCall DEF vars, chrome, plans, history
<1>5. QED
  BY <1>1, <1>2, <1>3, <1>4 DEF Next

\* What is known of the effects holds in every reachable state.
THEOREM Effects == Spec => [](IInv /\ EInv)
BY InitInv, NextInv, InitEffect, NextEffect, PTL DEF Spec

\* While only the apply itself moves tabs, each tab is where the preview showed it
\* until an operation comes to it, and where the preview said it would go after
\* that (ApplyManager.Apply from its comparison of the revisions on).
THEOREM WorksAsPreviewed == Spec => []WorksOnThePreviewedState
<1>1. IInv /\ EInv => WorksOnThePreviewedState
  <2> SUFFICES ASSUME EInv, NEW c \in Clients, In(c, "applying"), c \in calm
               PROVE  \A t \in Tabs :
                        /\ (\A o \in Done(call[c]) : o.tab # t) => groupOf[t] = call[c].record.revision[t]
                        /\ \A o \in Done(call[c]) :
                             o.tab = t /\ o.kind # "create_group" => groupOf[t] = Resolved(c, o).dest
    BY DEF WorksOnThePreviewedState, Done
  <2>1. Moves(call[c])
    BY DEF EInv, Progress, Working, In
  <2>2. \A o \in Done(call[c]) : o.kind # "create_group" => groupOf[o.tab] = Place(call[c], o)
    BY <2>1 DEF Moves
  <2>3. \A o : Place(call[c], o) = Resolved(c, o).dest
    BY DEF Place, Resolved
  <2>4. QED
    BY <2>1, <2>2, <2>3 DEF Moves
<1>2. QED
  BY <1>1, Effects, PTL

\* An apply that has succeeded, with nobody else moving a tab since it compared
\* the revisions, has done what its plan says, all of it and nothing else
\* (BuildOperations, the order of its operations, and createdGroups together).
THEOREM AppliedAsPlanned == Spec => []AppliedMeansApplied
<1>1. ASSUME EInv, NEW c \in Clients, call[c].outcome = "applied", c \in calm
      PROVE  LET rec    == call[c].record
                 dest   == rec.plan.dest
                 chosen == {t \in Assigned(rec.plan) :
                              rec.plan.policy = "ungrouped_only" => rec.revision[t] = Ungrouped}
             IN \A t \in Tabs :
                  /\ t \notin chosen => groupOf[t] = rec.revision[t]
                  /\ t \in chosen /\ dest[t] \notin Keys => groupOf[t] = dest[t]
                  /\ t \in chosen /\ dest[t] \in Keys =>
                       \A u \in Tabs : groupOf[u] = groupOf[t] <=> u \in chosen /\ dest[u] = dest[t]
  <2> DEFINE r      == call[c]
             rec    == r.record
             dest   == rec.plan.dest
             ops    == rec.operations
             chosen == {t \in Assigned(rec.plan) :
                          rec.plan.policy = "ungrouped_only" => rec.revision[t] = Ungrouped}
             made   == r.createdGroups
             op(kind, t) == [kind |-> kind, tab |-> t, dest |-> dest[t]]
  <2>1. /\ rec \in PreviewRecord /\ MadeFromPlan(rec)
        /\ Moves(r) /\ Creates(r) /\ Done(r) = ops
    BY <1>1 DEF EInv, Made, HasRecord, Progress, Working, Done
  <2>2. dest \in [Tabs -> Destinations] /\ rec.revision \in [Tabs -> Places]
    BY <2>1, PlansAssumption DEF PreviewRecord
  <2>3. /\ \A o \in ops : o.tab \in chosen
        /\ \A t \in chosen :
             /\ dest[t] \in Keys => op("move_tab", t) \in ops
             /\ dest[t] \in GroupIDs /\ rec.revision[t] # dest[t] => op("move_tab", t) \in ops
             /\ dest[t] = Ungrouped /\ rec.revision[t] \in GroupIDs => op("ungroup_tab", t) \in ops
             /\ dest[t] = rec.revision[t] => \A o \in ops : o.tab # t
    <3> DEFINE keyed == {t \in chosen : dest[t] \in Keys}
               first == {t \in keyed : \A u \in keyed : dest[u] = dest[t] => t <= u}
               moved == {t \in chosen : dest[t] \in GroupIDs /\ rec.revision[t] # dest[t]}
               freed == {t \in chosen : dest[t] = Ungrouped /\ rec.revision[t] \in GroupIDs}
    <3>1. ops = {op("create_group", t) : t \in first} \cup {op("move_tab", t) : t \in keyed \cup moved}
                  \cup {op("ungroup_tab", t) : t \in freed}
      BY <2>1 DEF MadeFromPlan, BuildOperations
    <3>2. \A t \in Tabs : rec.revision[t] \in Places
      BY <2>2
    <3>3. chosen \subseteq Tabs
      BY DEF Assigned
    <3> HIDE DEF ops, chosen, dest
    <3>4. \A t \in chosen : dest[t] = rec.revision[t] => t \notin keyed \cup moved \cup freed
      BY <3>2, <3>3, PlaceAssumption DEF Places
    <3>5. QED
      BY <3>1, <3>4
  <2>4. \A t \in chosen :
          /\ t \in Tabs /\ dest[t] \in Keys \cup GroupIDs \cup {Ungrouped}
          /\ rec.revision[t] \in GroupIDs \cup {Ungrouped}
          /\ dest[t] \in GroupIDs => \E u \in Tabs : rec.revision[u] = dest[t]
    BY <2>1, <2>2 DEF MadeFromPlan, ValidatePlan, Exists, Assigned, Destinations, Places
  <2>5. \A t \in Tabs : (\A o \in ops : o.tab # t) => groupOf[t] = rec.revision[t]
    BY <2>1 DEF Moves
  <2>6. \A o \in ops : /\ o.kind # "create_group" => groupOf[o.tab] = Place(r, o)
                       /\ o.kind = "move_tab" => Place(r, o) \in GroupIDs
    BY <2>1 DEF Moves
  <2>7. \A k \in Keys : made[k] # None =>
          /\ \A j \in Keys : made[j] = made[k] => j = k
          /\ \A t \in Tabs : rec.revision[t] # made[k]
    BY <2>1 DEF Creates
  <2> HIDE DEF ops, dest, chosen, made
  <2>8. \A t \in Tabs \ chosen : groupOf[t] = rec.revision[t]
    BY <2>3, <2>5
  <2>9. ASSUME NEW t \in chosen, dest[t] \notin Keys PROVE groupOf[t] = dest[t]
    <3>1. CASE dest[t] = rec.revision[t]
      BY <2>3, <2>4, <2>5, <3>1
    <3>2. CASE dest[t] \in GroupIDs /\ rec.revision[t] # dest[t]
      <4>1. op("move_tab", t) \in ops
        BY <2>3, <3>2
      <4>2. Place(r, op("move_tab", t)) = dest[t]
        BY <2>9 DEF Place
      <4>3. QED
        BY <2>6, <4>1, <4>2
    <3>3. CASE dest[t] = Ungrouped /\ rec.revision[t] \in GroupIDs
      <4>1. op("ungroup_tab", t) \in ops
        BY <2>3, <3>3
      <4>2. Place(r, op("ungroup_tab", t)) = dest[t]
        BY DEF Place
      <4>3. QED
        BY <2>6, <4>1, <4>2
    <3>4. QED
      BY <2>4, <2>9, <3>1, <3>2, <3>3
  <2>10. ASSUME NEW t \in chosen, dest[t] \in Keys
         PROVE  groupOf[t] = made[dest[t]] /\ made[dest[t]] \in GroupIDs
    <3>1. op("move_tab", t) \in ops
      BY <2>3, <2>10
    <3>2. Place(r, op("move_tab", t)) = made[dest[t]]
      BY <2>10 DEF Place, made
    <3>3. QED
      BY <2>6, <3>1, <3>2
  <2>11. ASSUME NEW t \in chosen, dest[t] \in Keys, NEW u \in Tabs
         PROVE  groupOf[u] = groupOf[t] <=> u \in chosen /\ dest[u] = dest[t]
    <3>1. groupOf[t] = made[dest[t]] /\ made[dest[t]] \in GroupIDs /\ made[dest[t]] # None
      BY <2>10, <2>11, PlaceAssumption
    <3>2. CASE u \notin chosen
      BY <2>7, <2>8, <2>11, <3>1, <3>2
    <3>3. CASE u \in chosen /\ dest[u] \in Keys
      BY <2>7, <2>10, <2>11, <3>1, <3>3
    <3>4. CASE u \in chosen /\ dest[u] \notin Keys
      <4>1. groupOf[u] = dest[u] /\ dest[u] # dest[t]
        BY <2>9, <2>11, <3>4
      <4>2. groupOf[u] # made[dest[t]]
        BY <2>4, <2>7, <2>11, <3>1, <3>4, <4>1, PlaceAssumption
      <4>3. QED
        BY <3>1, <4>1, <4>2
    <3>5. QED
      BY <3>2, <3>3, <3>4
  <2>12. QED
    BY <2>4, <2>8, <2>9, <2>11 DEF dest, chosen
<1>2. IInv /\ EInv => AppliedMeansApplied
  BY <1>1 DEF AppliedMeansApplied
<1>3. QED
  BY <1>2, Effects, PTL

-----------------------------------------------------------------------------
(* The way back of an apply: the inductive invariant, on top of these.     *)

\* A snapshot that brings back the grouping base, whatever has become of the tabs
\* it names: all others are where they were.
BringsBack(undo, base, grouping, used) ==
  /\ \A t \in DOMAIN undo.tabs : undo.tabs[t] = base[t] /\ base[t] # Closed
  /\ \A t \in Tabs \ DOMAIN undo.tabs : grouping[t] = base[t]
  /\ \A t \in Tabs : base[t] \in GroupIDs => base[t] \in used

\* What an apply keeps to restore.
Taken(r) == CaptureUndoSnapshot(r.base, r.record.operations)

Midway(r)   == r.phase \in {"applying", "rolling_back"}
Restored(r) == r.outcome \in {"APPLY_FAILED_ROLLED_BACK", "undone"}

\* Where a call that nobody disturbs is on its way there and back.
WayBack(c) ==
  /\ Restored(call[c]) => call[c].phase = "idle"
  /\ Midway(call[c]) /\ c \in calm => BringsBack(Taken(call[c]), call[c].base, groupOf, usedGroups)
  /\ Restored(call[c]) /\ c \in calm => SameGrouping(groupOf, call[c].base)

\* And where the last apply is that Undo can take back.
UndoBack == undoBase # None => BringsBack(undoSnapshot, undoBase, groupOf, usedGroups)

RInv == UndoBack /\ \A c \in Clients : WayBack(c)

-----------------------------------------------------------------------------
(* Restoring.                                                              *)

\* restoreChromeSnapshot moves no tab that the snapshot does not name.
LEMMA RestoreLeaves ==
  ASSUME NEW undo \in UndoSnapshot, Restores(undo) \/ RestoreThrows(undo)
  PROVE  \A t \in Tabs \ DOMAIN undo.tabs : groupOf'[t] = groupOf[t]
<1>1. CASE UNCHANGED groupOf
  BY <1>1
<1>2. ASSUME NEW S \in SUBSET Restorable(undo), RestoreTabs(undo, S)
      PROVE  \A t \in Tabs \ DOMAIN undo.tabs : groupOf'[t] = groupOf[t]
  BY <1>2 DEF RestoreTabs, Restorable
<1>3. QED
  BY <1>1, <1>2 DEF Restores, RestoreThrows

\* When it gets through, and every tab is open, tabs are together as they were: a
\* group that is gone comes back under an identifier that no group had.
LEMMA RestoredGroups ==
  ASSUME NEW undo \in UndoSnapshot, NEW base \in [Tabs -> Places],
         groupOf \in [Tabs -> Places], usedGroups \subseteq GroupIDs, GroupsUsed,
         BringsBack(undo, base, groupOf, usedGroups),
         Restores(undo), FullyRestorable(undo)
  PROVE  SameGrouping(groupOf', base)
<1> DEFINE S == DOMAIN undo.tabs
           gone == {undo.tabs[t] : t \in S} \ ({Ungrouped} \cup {g \in GroupIDs : Exists(g, groupOf)})
<1>1. RestoreTabs(undo, S) /\ S \subseteq Tabs
  BY DEF Restores, FullyRestorable, UndoSnapshot
<1>2. PICK id \in [gone -> Fresh] :
        /\ \A g, h \in gone : g < h => id[g] < id[h]
        /\ groupOf' = [t \in Tabs |-> IF t \notin S THEN groupOf[t]
                                      ELSE IF undo.tabs[t] \in gone THEN id[undo.tabs[t]]
                                      ELSE undo.tabs[t]]
  BY <1>1 DEF RestoreTabs
<1> DEFINE new(g) == IF g \in gone THEN id[g] ELSE g
<1>3. gone \subseteq GroupIDs
  BY <1>1 DEF BringsBack, Places
<1>4. \A t \in Tabs : groupOf'[t] = new(base[t])
  <2>1. ASSUME NEW t \in Tabs \ S PROVE groupOf'[t] = new(base[t])
    <3>1. groupOf'[t] = base[t] /\ groupOf[t] = base[t]
      BY <1>2 DEF BringsBack
    <3>2. base[t] \notin gone
      BY <1>3, <3>1 DEF Exists
    <3>3. QED
      BY <3>1, <3>2
  <2>2. ASSUME NEW t \in S PROVE groupOf'[t] = new(base[t])
    BY <1>1, <1>2 DEF BringsBack
  <2>3. QED
    BY <2>1, <2>2
<1>5. \A g \in gone : id[g] \in GroupIDs /\ id[g] \notin usedGroups
  BY <1>2 DEF Fresh
<1>6. \A g, h \in gone : id[g] = id[h] => g = h
  <2> SUFFICES ASSUME NEW g \in gone, NEW h \in gone, id[g] = id[h] PROVE g = h
    OBVIOUS
  <2>1. g \in Nat /\ h \in Nat /\ id[g] \in Nat /\ id[h] \in Nat
    BY <1>3, <1>5, PlaceAssumption
  <2>2. ~(g < h) /\ ~(h < g)
    <3>1. (g < h => id[g] < id[h]) /\ (h < g => id[h] < id[g])
      BY <1>2
    <3> HIDE DEF gone
    <3> QED
      BY <2>1, <3>1
  <2> QED
    BY <2>1, <2>2
<1>7. \A t \in Tabs : base[t] \in GroupIDs => base[t] \in usedGroups
  BY DEF BringsBack
<1>8. \A t, u \in Tabs : new(base[t]) = new(base[u]) => base[t] = base[u]
  <2> SUFFICES ASSUME NEW t \in Tabs, NEW u \in Tabs, new(base[t]) = new(base[u]) PROVE base[t] = base[u]
    OBVIOUS
  <2> HIDE DEF gone
  <2>1. CASE base[t] \in gone /\ base[u] \in gone
    BY <1>6, <2>1
  <2>2. CASE base[t] \in gone /\ base[u] \notin gone
    BY <1>5, <1>7, <2>2
  <2>3. CASE base[t] \notin gone /\ base[u] \in gone
    BY <1>5, <1>7, <2>3
  <2> QED
    BY <2>1, <2>2, <2>3
<1>9. \A t \in Tabs : /\ base[t] \in {Ungrouped, Closed} => new(base[t]) = base[t]
                      /\ base[t] \notin {Ungrouped, Closed} => new(base[t]) \in GroupIDs
  <2> HIDE DEF gone
  <2>1. \A t \in Tabs : base[t] \in Places
    OBVIOUS
  <2> QED
    BY <1>3, <1>5, <2>1, PlaceAssumption DEF Places
<1> HIDE DEF new
<1>10. Ungrouped \notin GroupIDs /\ Closed \notin GroupIDs
  BY PlaceAssumption
<1> QED
  BY <1>4, <1>8, <1>9, <1>10 DEF SameGrouping

\* BuildOperations is about the tabs of the plan only.
LEMMA AboutAssignedTabs ==
  \A plan, grouping : \A o \in BuildOperations(plan, grouping) : o.tab \in Assigned(plan)
BY SMTT(30) DEF BuildOperations

\* What an apply captures, as it has found it, brings that back.
LEMMA TakenBringsBack ==
  ASSUME NEW r, r.record \in PreviewRecord, MadeFromPlan(r.record), r.base = r.record.revision,
         groupOf = r.base, groupOf \in [Tabs -> Places], GroupsUsed
  PROVE  BringsBack(Taken(r), r.base, groupOf, usedGroups)
<1>1. DOMAIN Taken(r).tabs = {o.tab : o \in r.record.operations}
      /\ \A t \in DOMAIN Taken(r).tabs : Taken(r).tabs[t] = r.base[t]
  BY DEF Taken, CaptureUndoSnapshot
<1>2. \A o \in r.record.operations : o.tab \in Assigned(r.record.plan)
  <2>1. r.record.operations = BuildOperations(r.record.plan, r.record.revision)
    BY DEF MadeFromPlan
  <2> QED
    BY <2>1, AboutAssignedTabs
<1>3. \A t \in Assigned(r.record.plan) : r.base[t] # Closed
  BY DEF MadeFromPlan, ValidatePlan
<1> QED
  BY <1>1, <1>2, <1>3 DEF BringsBack, GroupsUsed

\* Only tabs that are not named count, and the identifiers that are used up.
LEMMA StillBringsBack ==
  ASSUME NEW undo, NEW base, BringsBack(undo, base, groupOf, usedGroups), usedGroups \subseteq usedGroups',
         \A t \in Tabs \ DOMAIN undo.tabs : groupOf'[t] = groupOf[t]
  PROVE  BringsBack(undo, base, groupOf', usedGroups')
BY DEF BringsBack

-----------------------------------------------------------------------------
(* Steps that are on nobody's way.                                         *)

\* A call that goes on without moving a tab, or that does not count any more.
Alike(n, r) ==
  /\ ~Restored(n)
  /\ Midway(n) => Midway(r) /\ n.base = r.base /\ n.record = r.record

\* Who moves no tab is on nobody's way.
LEMMA WayKept ==
  ASSUME NEW d \in Clients, WayBack(d), usedGroups \subseteq usedGroups',
         d \in calm' => d \in calm /\ groupOf' = groupOf,
         call'[d] = call[d] \/ Alike(call'[d], call[d])
  PROVE  WayBack(d)'
<1>1. ASSUME Midway(call'[d]), d \in calm'
      PROVE  BringsBack(Taken(call[d]), call[d].base, groupOf, usedGroups)'
  <2>1. /\ Midway(call[d]) /\ d \in calm /\ groupOf' = groupOf
        /\ call'[d].base = call[d].base /\ call'[d].record = call[d].record
    BY <1>1 DEF Alike
  <2>2. Taken(call'[d]) = Taken(call[d])
    BY <2>1 DEF Taken
  <2>3. BringsBack(Taken(call[d]), call[d].base, groupOf, usedGroups)
    BY <2>1 DEF WayBack
  <2> QED
    BY <2>1, <2>2, <2>3 DEF BringsBack, Taken
<1>2. ASSUME Restored(call'[d])
      PROVE  call'[d].phase = "idle" /\ (d \in calm' => SameGrouping(groupOf', call'[d].base))
  BY <1>2 DEF Alike, WayBack
<1> QED
  BY <1>1, <1>2 DEF WayBack, Midway, Restored, SameGrouping

\* The same of what Undo can take back.
LEMMA UndoKept ==
  ASSUME UndoBack, usedGroups \subseteq usedGroups',
         undoBase' = None \/ UNCHANGED <<groupOf, undoBase, undoSnapshot>>
  PROVE  UndoBack'
BY DEF UndoBack, BringsBack

\* A step of one call that moves no tab.
LEMMA QuietCall ==
  ASSUME IInv, RInv, NEW c \in Clients, NEW r, call' = [call EXCEPT ![c] = r], Alike(r, call[c]),
         UNCHANGED <<groupOf, usedGroups, undoBase, undoSnapshot>>, calm' \subseteq calm
  PROVE  RInv'
<1>1. call'[c] = r /\ \A d \in Clients \ {c} : call'[d] = call[d]
  BY DEF IInv, TypeOK
<1>2. \A d \in Clients : WayBack(d)'
  BY <1>1, WayKept DEF RInv
<1> QED
  BY <1>2, UndoKept DEF RInv

\* A call that returns without having restored anything.
LEMMA ReturnOnWay ==
  ASSUME NEW c \in Clients, NEW o, o \notin {"APPLY_FAILED_ROLLED_BACK", "undone"}, Return(c, o)
  PROVE  \E r : call' = [call EXCEPT ![c] = r] /\ Alike(r, call[c]) /\ r.phase = "idle" /\ ~Restored(r)
<1> DEFINE r == [Idle EXCEPT !.outcome = o]
<1>1. r.phase = "idle" /\ r.outcome = o
  BY DEF Idle
<1>2. call' = [call EXCEPT ![c] = r]
  BY DEF Return
<1> HIDE DEF r
<1> QED
  BY <1>1, <1>2 DEF Alike, Restored, Midway

\* A call that enters another phase, a rollback among them.
LEMMA EnterOnWay ==
  ASSUME IInv, NEW c \in Clients, WayBack(c), ~In(c, "idle"), NEW p \in {"previewing", "undoing", "rolling_back"},
         Enter(c, p), p = "rolling_back" => In(c, "applying")
  PROVE  \E r : call' = [call EXCEPT ![c] = r] /\ Alike(r, call[c])
<1> DEFINE r == [call[c] EXCEPT !.phase = p]
<1>1. /\ call' = [call EXCEPT ![c] = r] /\ r.phase = p /\ r.outcome = call[c].outcome
      /\ r.base = call[c].base /\ r.record = call[c].record
  BY DEF Enter, IInv, TypeOK, Call
<1> HIDE DEF r
<1>2. ~Restored(r)
  BY <1>1 DEF WayBack, In, Restored
<1> QED
  BY <1>1, <1>2 DEF Alike, Midway, In

\* Calls that only begin, wait for a lock, look, or end early.
LEMMA QuietStepsOnWay ==
  ASSUME IInv, RInv, NEW c \in Clients,
         \/ \E plan \in Plans, read \in [Tabs -> 0..MaxEdits] : StartPreview(c, plan, read)
         \/ \E id \in PreviewIDs : StartApply(c, id)
         \/ StartUndo(c) \/ TakeUndo(c) \/ ValidateContentRevisions(c) \/ Preview(c)
         \/ RefuseStale(c) \/ FailRead(c) \/ Cancel(c) \/ Consume(c)
  PROVE  RInv'
<1>w. WayBack(c)
  BY DEF RInv
<1>1. CASE \/ \E plan \in Plans, read \in [Tabs -> 0..MaxEdits] : StartPreview(c, plan, read)
           \/ \E id \in PreviewIDs : StartApply(c, id)
           \/ StartUndo(c)
  <2>1. UNCHANGED <<groupOf, usedGroups, undoBase, undoSnapshot>> /\ calm' \subseteq calm
    BY <1>1 DEF StartPreview, StartApply, StartUndo, chrome
  <2> DEFINE Begun(r) == /\ call' = [call EXCEPT ![c] = r] /\ r.outcome = "none"
                         /\ r.phase \in {"previewing", "validating", "apply_locking", "undo_locking"}
  <2>2. \E r : Begun(r)
    <3>1. ASSUME NEW plan \in Plans, NEW read, StartPreview(c, plan, read)
          PROVE  Begun([Idle EXCEPT !.phase = IF plan.refs = {} THEN "previewing" ELSE "validating",
                                    !.plan = plan, !.read = read])
      BY <3>1 DEF StartPreview, Idle
    <3>2. ASSUME NEW id, StartApply(c, id)
          PROVE  Begun([Idle EXCEPT !.phase = "apply_locking", !.id = id])
      BY <3>2 DEF StartApply, Idle
    <3>3. ASSUME StartUndo(c)
          PROVE  Begun([Idle EXCEPT !.phase = "undo_locking"])
      BY <3>3 DEF StartUndo, Idle
    <3> HIDE DEF Begun
    <3> QED
      BY <1>1, <3>1, <3>2, <3>3
  <2>3. PICK r : call' = [call EXCEPT ![c] = r] /\ Alike(r, call[c])
    BY <2>2 DEF Alike, Restored, Midway
  <2> QED
    BY <2>1, <2>3, QuietCall
<1>2. CASE TakeUndo(c) \/ ValidateContentRevisions(c)
  <2>1. /\ UNCHANGED <<groupOf, usedGroups, calm, undoBase, undoSnapshot>> /\ ~In(c, "idle")
        /\ \/ Enter(c, "undoing") \/ Enter(c, "previewing")
           \/ Return(c, "UNDO_UNAVAILABLE") \/ Return(c, "CONTENT_STALE")
    BY <1>2 DEF TakeUndo, ValidateContentRevisions, chrome, history, In
  <2>2. PICK r : call' = [call EXCEPT ![c] = r] /\ Alike(r, call[c])
    BY <1>w, <2>1, ReturnOnWay, EnterOnWay
  <2> QED
    BY <2>1, <2>2, QuietCall
<1>3. CASE Preview(c) \/ RefuseStale(c) \/ FailRead(c) \/ Cancel(c)
  <2>1. /\ UNCHANGED <<groupOf, usedGroups, calm, undoBase, undoSnapshot>>
        /\ \E o \in Outcomes \ {"APPLY_FAILED_ROLLED_BACK", "undone"} : Return(c, o)
    BY <1>3 DEF Preview, RefuseStale, FailRead, Cancel, chrome, history, Outcomes
  <2>2. PICK r : call' = [call EXCEPT ![c] = r] /\ Alike(r, call[c])
    BY <2>1, ReturnOnWay
  <2> QED
    BY <2>1, <2>2, QuietCall
<1>4. CASE Consume(c)
  <2> DEFINE id == call[c].id
             r  == [call[c] EXCEPT !.phase = "checking", !.record = records[id]]
  <2>1. UNCHANGED <<groupOf, usedGroups, calm, undoBase, undoSnapshot>> /\ In(c, "apply_locking")
    BY <1>4 DEF Consume, chrome, history
  <2>2. CASE Return(c, "PREVIEW_NOT_FOUND") \/ Return(c, "PREVIEW_EXPIRED")
    <3>1. PICK n : call' = [call EXCEPT ![c] = n] /\ Alike(n, call[c])
      BY <2>2, ReturnOnWay
    <3> QED
      BY <2>1, <3>1, QuietCall
  <2>3. CASE call' = [call EXCEPT ![c].phase = "checking", ![c].record = records[id]]
    <3>1. r.phase = "checking" /\ r.outcome = call[c].outcome
      BY DEF IInv, TypeOK, Call
    <3>2. call' = [call EXCEPT ![c] = r]
      BY <2>3 DEF IInv, TypeOK
    <3> HIDE DEF r
    <3>3. ~Restored(call[c])
      BY <1>w, <2>1 DEF WayBack, In
    <3>4. Alike(r, call[c])
      BY <3>1, <3>3 DEF Alike, Restored, Midway
    <3> QED
      BY <2>1, <3>2, <3>4, QuietCall
  <2> QED
    BY <1>4, <2>2, <2>3 DEF Consume
<1> QED
  BY <1>1, <1>2, <1>3, <1>4

-----------------------------------------------------------------------------
(* The steps of an apply.                                                  *)

\* An apply that begins has captured what brings back what it has found.
LEMMA BeginOnWay ==
  ASSUME IInv, EInv, RInv, NEW c \in Clients, BeginOperations(c)
  PROVE  RInv'
<1>1. PICK r : r = [call[c] EXCEPT !.phase = "applying", !.base = groupOf, !.todo = call[c].record.operations]
  OBVIOUS
<1>2. /\ In(c, "checking") /\ groupOf = call[c].record.revision
      /\ UNCHANGED <<groupOf, usedGroups, undoBase, undoSnapshot>> /\ calm' = calm \cup {c}
      /\ call' = [call EXCEPT ![c] = r]
  BY <1>1 DEF BeginOperations, chrome, IInv, TypeOK
<1>3. r.phase = "applying" /\ r.outcome = call[c].outcome /\ r.record = call[c].record /\ r.base = groupOf
  BY <1>1 DEF IInv, TypeOK, Call
<1>4. call'[c] = r /\ \A d \in Clients \ {c} : call'[d] = call[d]
  BY <1>2 DEF IInv, TypeOK
<1>5. ~Restored(r)
  BY <1>2, <1>3 DEF RInv, WayBack, Restored, In
<1>6. BringsBack(Taken(r), r.base, groupOf, usedGroups)
  <2>1. r.record \in PreviewRecord /\ MadeFromPlan(r.record)
    BY <1>2, <1>3 DEF EInv, Made, HasRecord, In
  <2> QED
    BY <1>2, <1>3, <2>1, TakenBringsBack DEF EInv, IInv, TypeOK
<1>7. WayBack(c)'
  BY <1>2, <1>4, <1>5, <1>6 DEF WayBack, Restored, BringsBack, Taken
<1>8. \A d \in Clients \ {c} : WayBack(d)'
  BY <1>2, <1>4, WayKept DEF RInv
<1> QED
  BY <1>2, <1>7, <1>8, UndoKept DEF RInv

\* Every operation is about a tab that has been captured.
LEMMA OperationOnWay ==
  ASSUME IInv, EInv, RInv, NEW c \in Clients, In(c, "applying"), NEW o \in call[c].todo, IsNext(o, call[c].todo),
         ApplyChromeOperation(Resolved(c, o)),
         NEW r, call' = [call EXCEPT ![c] = r], Midway(r), r.outcome = call[c].outcome,
         r.base = call[c].base, r.record = call[c].record,
         calm' = calm \cap {c}, undoBase' = None
  PROVE  RInv'
<1>1. call'[c] = r /\ \A d \in Clients \ {c} : call'[d] = call[d]
  BY DEF IInv, TypeOK
<1>2. Concrete(Resolved(c, o)) /\ o.tab = Resolved(c, o).tab /\ groupOf \in [Tabs -> Places]
  BY NextOperation DEF IInv, TypeOK
<1>3. usedGroups \subseteq usedGroups'
  BY <1>2, OperationUsesGroups DEF EInv, Concrete, Operation
<1>4. \A t \in Tabs : t # o.tab => groupOf'[t] = groupOf[t]
  BY <1>2 DEF ApplyChromeOperation
<1>5. o \in call[c].record.operations
  BY DEF IInv, CallInv, In
<1>6. \A t \in Tabs \ DOMAIN Taken(r).tabs : groupOf'[t] = groupOf[t]
  <2>1. o.tab \in DOMAIN Taken(r).tabs
    BY <1>5 DEF Taken, CaptureUndoSnapshot
  <2> QED
    BY <1>4, <2>1
<1>7. Taken(r) = Taken(call[c]) /\ ~Restored(r) /\ Midway(call[c])
  BY DEF Taken, RInv, WayBack, Restored, In, Midway
<1>8. c \in calm => BringsBack(Taken(r), r.base, groupOf', usedGroups')
  <2> SUFFICES ASSUME c \in calm PROVE BringsBack(Taken(r), r.base, groupOf', usedGroups')
    OBVIOUS
  <2>1. BringsBack(Taken(r), r.base, groupOf, usedGroups)
    BY <1>7 DEF RInv, WayBack
  <2>2. PICK u : u = Taken(r)
    OBVIOUS
  <2> QED
    BY <1>3, <1>6, <2>1, <2>2, StillBringsBack
<1>9. WayBack(c)'
  BY <1>1, <1>7, <1>8 DEF WayBack, Restored, BringsBack, Taken
<1>10. \A d \in Clients \ {c} : WayBack(d)'
  BY <1>1, <1>3, WayKept DEF RInv
<1> QED
  BY <1>9, <1>10 DEF RInv, UndoBack

\* An operation is carried out.
LEMMA CarryOutOnWay ==
  ASSUME IInv, EInv, RInv, NEW c \in Clients, NEW o \in call[c].todo, CarryOut(c, o)
  PROVE  RInv'
<1>1. PICK r : r = [call[c] EXCEPT !.todo = @ \ {o},
                      !.createdGroups = IF o.kind = "create_group"
                                        THEN [@ EXCEPT ![o.dest] = groupOf'[o.tab]] ELSE @]
  OBVIOUS
<1>2. /\ In(c, "applying") /\ IsNext(o, call[c].todo) /\ ApplyChromeOperation(Resolved(c, o))
      /\ calm' = calm \cap {c} /\ undoBase' = None
      /\ call' = [call EXCEPT ![c] = r]
  BY <1>1 DEF CarryOut, IInv, TypeOK
<1>3. /\ r.phase = call[c].phase /\ r.outcome = call[c].outcome
      /\ r.base = call[c].base /\ r.record = call[c].record
  BY <1>1 DEF IInv, TypeOK, Call
<1> QED
  BY <1>2, <1>3, OperationOnWay DEF Midway, In

\* An operation fails, before or after it has moved its tab.
LEMMA FailOperationOnWay ==
  ASSUME IInv, EInv, RInv, NEW c \in Clients, NEW o \in call[c].todo, FailOperation(c, o)
  PROVE  RInv'
<1>1. /\ In(c, "applying") /\ ~In(c, "idle") /\ IsNext(o, call[c].todo) /\ Enter(c, "rolling_back")
      /\ UNCHANGED undoSnapshot
  BY DEF FailOperation, In
<1>2. CASE UNCHANGED <<groupOf, usedGroups, calm, undoBase>>
  <2>1. PICK r : call' = [call EXCEPT ![c] = r] /\ Alike(r, call[c])
    BY <1>1, EnterOnWay DEF RInv
  <2> QED
    BY <1>1, <1>2, <2>1, QuietCall
<1>3. CASE ApplyChromeOperation(Resolved(c, o)) /\ calm' = calm \cap {c} /\ undoBase' = None
  <2>1. PICK r : r = [call[c] EXCEPT !.phase = "rolling_back"]
    OBVIOUS
  <2>2. /\ call' = [call EXCEPT ![c] = r] /\ r.phase = "rolling_back" /\ r.outcome = call[c].outcome
        /\ r.base = call[c].base /\ r.record = call[c].record
    BY <1>1, <2>1 DEF Enter, IInv, TypeOK, Call
  <2> QED
    BY <1>1, <1>3, <2>2, OperationOnWay DEF Midway
<1> QED
  BY <1>2, <1>3 DEF FailOperation, history

\* What has been captured becomes what Undo restores.
LEMMA CommitOnWay ==
  ASSUME IInv, RInv, NEW c \in Clients, Commit(c)
  PROVE  RInv'
<1>1. PICK r : r = [call[c] EXCEPT !.phase = "idle", !.outcome = "applied"]
  OBVIOUS
<1>2. /\ In(c, "applying") /\ UNCHANGED <<groupOf, usedGroups, calm>>
      /\ undoSnapshot' = Taken(call[c])
      /\ undoBase' = IF c \in calm THEN call[c].base ELSE None
      /\ call' = [call EXCEPT ![c] = r]
  BY <1>1 DEF Commit, Report, Undoing, Taken, chrome, IInv, TypeOK
<1>3. r.phase = "idle" /\ r.outcome = "applied"
  BY <1>1 DEF IInv, TypeOK, Call
<1>4. call'[c] = r /\ \A d \in Clients \ {c} : call'[d] = call[d]
  BY <1>2 DEF IInv, TypeOK
<1>5. UndoBack'
  <2>1. c \in calm => BringsBack(Taken(call[c]), call[c].base, groupOf, usedGroups)
    BY <1>2 DEF RInv, WayBack, Midway, In
  <2> QED
    BY <1>2, <2>1 DEF UndoBack, BringsBack
<1>6. \A d \in Clients : WayBack(d)'
  BY <1>2, <1>3, <1>4, WayKept DEF RInv, Alike, Restored, Midway
<1> QED
  BY <1>5, <1>6 DEF RInv

-----------------------------------------------------------------------------
(* The ways back.                                                          *)

\* A call that returns, and is the only one left undisturbed.
LEMMA ReturnAlone ==
  ASSUME IInv, RInv, NEW c \in Clients, NEW r, call' = [call EXCEPT ![c] = r], r.phase = "idle",
         usedGroups \subseteq usedGroups', calm' \subseteq {c}, UndoBack',
         Restored(r) /\ c \in calm' => SameGrouping(groupOf', r.base)
  PROVE  RInv'
<1>1. call'[c] = r /\ \A d \in Clients \ {c} : call'[d] = call[d]
  BY DEF IInv, TypeOK
<1>2. WayBack(c)'
  BY <1>1 DEF WayBack, Midway, Restored, SameGrouping
<1>3. \A d \in Clients \ {c} : WayBack(d)'
  BY <1>1, WayKept DEF RInv
<1> QED
  BY <1>2, <1>3 DEF RInv

\* A rollback that gets through brings back what the apply had found.
LEMMA RollbackOnWay ==
  ASSUME IInv, EInv, RInv, NEW c \in Clients, Rollback(c)
  PROVE  RInv'
<1>1. PICK u : u = Undoing(c)
  OBVIOUS
<1>2. /\ In(c, "rolling_back") /\ u \in UndoSnapshot /\ u = Taken(call[c])
      /\ Restores(u) \/ RestoreThrows(u)
      /\ calm' = calm \cap {c} /\ undoBase' = None
  BY <1>1, UndoingType DEF Rollback, IInv, Applying, In, Taken, Undoing
<1>3. usedGroups \subseteq usedGroups' /\ UndoBack'
  BY <1>2, RestoreUsesGroups DEF EInv, UndoBack
<1>4. CASE Restores(u) /\ FullyRestorable(u) /\ Report(c, "APPLY_FAILED_ROLLED_BACK")
  <2>1. PICK r : r = [call[c] EXCEPT !.phase = "idle", !.outcome = "APPLY_FAILED_ROLLED_BACK"]
    OBVIOUS
  <2>2. call' = [call EXCEPT ![c] = r] /\ r.phase = "idle" /\ r.base = call[c].base
    BY <1>4, <2>1 DEF Report, IInv, TypeOK, Call
  <2>3. c \in calm' => SameGrouping(groupOf', r.base)
    <3> SUFFICES ASSUME c \in calm PROVE SameGrouping(groupOf', r.base)
      BY <1>2
    <3>1. PICK b : b = r.base
      OBVIOUS
    <3>2. b \in [Tabs -> Places] /\ groupOf \in [Tabs -> Places] /\ usedGroups \subseteq GroupIDs
      BY <2>2, <3>1 DEF IInv, TypeOK, Call
    <3>3. BringsBack(u, b, groupOf, usedGroups)
      BY <1>2, <2>2, <3>1 DEF RInv, WayBack, Midway, In
    <3> QED
      BY <1>2, <1>4, <3>1, <3>2, <3>3, RestoredGroups DEF EInv
  <2> QED
    BY <1>2, <1>3, <2>2, <2>3, ReturnAlone
<1>5. CASE Report(c, "APPLY_PARTIAL") \/ Return(c, "APPLY_PARTIAL")
  <2>1. PICK r : call' = [call EXCEPT ![c] = r] /\ r.phase = "idle" /\ ~Restored(r)
    <3>1. CASE Return(c, "APPLY_PARTIAL")
      BY <3>1, ReturnOnWay
    <3>2. CASE Report(c, "APPLY_PARTIAL")
      <4>1. PICK r : r = [call[c] EXCEPT !.phase = "idle", !.outcome = "APPLY_PARTIAL"]
        OBVIOUS
      <4>2. call' = [call EXCEPT ![c] = r] /\ r.phase = "idle" /\ r.outcome = "APPLY_PARTIAL"
        BY <3>2, <4>1 DEF Report, IInv, TypeOK, Call
      <4> QED
        BY <4>2 DEF Restored
    <3> QED
      BY <1>5, <3>1, <3>2
  <2> QED
    BY <1>2, <1>3, <2>1, ReturnAlone
<1> QED
  BY <1>1, <1>4, <1>5 DEF Rollback

\* And so does an undo.
LEMMA UndoOnWay ==
  ASSUME IInv, EInv, RInv, NEW c \in Clients, Undo(c)
  PROVE  RInv'
<1>1. PICK u : u = undoSnapshot
  OBVIOUS
<1>2. PICK r : r = [call[c] EXCEPT !.phase = "idle",
                      !.outcome = IF FullyRestorable(undoSnapshot) THEN "undone" ELSE "undone_partly",
                      !.base = IF undoBase = None THEN @ ELSE undoBase]
  OBVIOUS
<1>3. /\ u \in UndoSnapshot /\ Restores(u) /\ undoBase' = None
      /\ calm' = IF undoBase = None THEN {} ELSE {c}
      /\ call' = [call EXCEPT ![c] = r]
  BY <1>1, <1>2 DEF Undo, IInv, CallInv, TypeOK
<1>4. /\ r.phase = "idle"
      /\ r.outcome = IF FullyRestorable(u) THEN "undone" ELSE "undone_partly"
      /\ undoBase # None => r.base = undoBase
  BY <1>1, <1>2 DEF IInv, TypeOK, Call
<1>5. usedGroups \subseteq usedGroups' /\ UndoBack'
  BY <1>3, RestoreUsesGroups DEF EInv, UndoBack
<1>6. Restored(r) /\ c \in calm' => SameGrouping(groupOf', r.base)
  <2> SUFFICES ASSUME Restored(r), c \in calm' PROVE SameGrouping(groupOf', r.base)
    OBVIOUS
  <2>1. FullyRestorable(u) /\ undoBase # None
    BY <1>3, <1>4 DEF Restored
  <2>2. PICK b : b = undoBase
    OBVIOUS
  <2>3. b \in [Tabs -> Places] /\ groupOf \in [Tabs -> Places] /\ usedGroups \subseteq GroupIDs /\ b = r.base
    BY <1>4, <2>1, <2>2 DEF IInv, TypeOK
  <2>4. BringsBack(u, b, groupOf, usedGroups)
    BY <1>1, <2>1, <2>2 DEF RInv, UndoBack
  <2> QED
    BY <1>3, <2>1, <2>3, <2>4, RestoredGroups DEF EInv
<1> QED
  BY <1>3, <1>4, <1>5, <1>6, ReturnAlone

\* An undo that throws has moved named tabs only, so that another can follow.
LEMMA FailUndoOnWay ==
  ASSUME IInv, EInv, RInv, NEW c \in Clients, FailUndo(c)
  PROVE  RInv'
<1>1. PICK u, b : u = undoSnapshot /\ b = undoBase
  OBVIOUS
<1>2. /\ u \in UndoSnapshot /\ RestoreThrows(u) /\ UNCHANGED <<undoSnapshot, undoBase>>
      /\ calm' = {} /\ Return(c, "error")
  BY <1>1 DEF FailUndo, IInv, CallInv
<1>3. usedGroups \subseteq usedGroups' /\ \A t \in Tabs \ DOMAIN u.tabs : groupOf'[t] = groupOf[t]
  BY <1>2, RestoreUsesGroups, RestoreLeaves DEF EInv
<1>4. UndoBack'
  <2>1. b # None => BringsBack(u, b, groupOf, usedGroups)
    BY <1>1 DEF RInv, UndoBack
  <2>2. b # None => BringsBack(u, b, groupOf', usedGroups')
    BY <1>3, <2>1, StillBringsBack
  <2> QED
    BY <1>1, <1>2, <2>2 DEF UndoBack, BringsBack
<1>5. PICK r : call' = [call EXCEPT ![c] = r] /\ r.phase = "idle" /\ ~Restored(r)
  BY <1>2, ReturnOnWay
<1> QED
  BY <1>2, <1>3, <1>4, <1>5, ReturnAlone

-----------------------------------------------------------------------------
(* Everything else.                                                        *)

\* Who moves a tab outside of a call is in everybody's way.
LEMMA EnvironmentOnWay ==
  ASSUME IInv, RInv, Environment
  PROVE  RInv'
<1>1. CASE UNCHANGED <<groupOf, usedGroups, call, calm, undoBase, undoSnapshot>>
  BY <1>1 DEF RInv, UndoBack, WayBack, BringsBack, Taken, SameGrouping, Midway, Restored
<1>2. CASE Disturb /\ UNCHANGED call
  BY <1>2 DEF Disturb, RInv, UndoBack, WayBack, Midway, Restored
<1>3. CASE HostExit
  <2> DEFINE gone == [Idle EXCEPT !.outcome = "disconnected"]
  <2>1. gone.phase = "idle" /\ gone.outcome = "disconnected"
    BY DEF Idle
  <2>2. ~Midway(gone) /\ ~Restored(gone)
    BY <2>1 DEF Midway, Restored
  <2>3. /\ \A d \in Clients : call'[d] = call[d] \/ call'[d] = gone
        /\ UNCHANGED <<groupOf, usedGroups, calm>> /\ undoBase' = None
    BY <1>3 DEF HostExit, chrome
  <2> HIDE DEF gone
  <2>4. \A d \in Clients : WayBack(d)'
    BY <2>2, <2>3, WayKept DEF RInv, Alike
  <2> QED
    BY <2>3, <2>4 DEF RInv, UndoBack
<1>4. ASSUME NEW id \in PreviewIDs, Expire(id) PROVE RInv'
  BY <1>1, <1>4 DEF Expire, chrome, history
<1>5. ASSUME NEW r \in late, AnswerLate(r) PROVE RInv'
  <2>1. r.request.kind \in {"read", "operation", "restore"}
    BY DEF IInv, TypeOK, Request
  <2> QED
    BY <1>1, <1>2, <1>5, <2>1 DEF AnswerLate, history
<1>6. ASSUME NEW t \in Tabs, NEW place \in Places, UserMoves(t, place) PROVE RInv'
  BY <1>2, <1>6 DEF UserMoves
<1>7. ASSUME NEW t \in Tabs, UserNavigates(t) PROVE RInv'
  BY <1>1, <1>7 DEF UserNavigates, history
<1> QED
  BY <1>3, <1>4, <1>5, <1>6, <1>7 DEF Environment

-----------------------------------------------------------------------------
(* The theorem.                                                            *)

\* At first nothing is on its way.
LEMMA InitOnWay == Init => RInv
BY DEF Init, Idle, RInv, UndoBack, WayBack, Midway, Restored

\* Every step keeps what is known of the ways back.
LEMMA NextOnWay == IInv /\ EInv /\ RInv /\ [Next]_vars => RInv'
<1> SUFFICES ASSUME IInv, EInv, RInv, [Next]_vars PROVE RInv'
  OBVIOUS
<1>1. CASE \E c \in Clients : Start(c) \/ Lock(c) \/ Cancel(c)
  BY <1>1, QuietStepsOnWay DEF Start, Lock
<1>2. CASE \E c \in Clients : Answer(c)
  BY <1>2, QuietStepsOnWay, BeginOnWay, CommitOnWay, CarryOutOnWay, FailOperationOnWay,
     RollbackOnWay, UndoOnWay, FailUndoOnWay DEF Answer
<1>3. CASE Environment
  BY <1>3, EnvironmentOnWay
<1>4. CASE UNCHANGED vars
  BY <1>4 DEF vars, chrome, history, RInv, UndoBack, WayBack, BringsBack, Taken, SameGrouping, Midway, Restored
<1> QED
  BY <1>1, <1>2, <1>3, <1>4 DEF Next

\* APPLY_FAILED_ROLLED_BACK, and an undo without a warning, mean what they say: if
\* nobody else has moved a tab since the apply compared the revisions, the tabs are
\* together as they were before it, whichever operation failed, before or after it
\* took effect, and however often the undo was tried (rollbackFailure,
\* ApplyManager.Undo and captureUndoSnapshot).
THEOREM RestoredAsBefore == Spec => []RestoredMeansRestored
<1>1. RInv => RestoredMeansRestored
  BY DEF RInv, WayBack, Restored, RestoredMeansRestored
<1> QED
  BY <1>1, Effects, InitOnWay, NextOnWay, PTL DEF Spec
=============================================================================
