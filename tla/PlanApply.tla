------------------------------ MODULE PlanApply ------------------------------
(***************************************************************************)
(* The plan service of the native host: previewing a classification plan,  *)
(* applying an approved preview, rolling a failed apply back, and undoing  *)
(* the last apply.  It models PreviewManager and ApplyManager              *)
(* (src/internal/plan), the bridge calls they make, the way the extension  *)
(* answers them, and everything that may happen between two of those       *)
(* calls: other MCP clients, the user rearranging tabs, the end of a       *)
(* preview's five minutes, a cancelled request that Chrome still carries   *)
(* out, and the end of the host process.                                   *)
(*                                                                         *)
(* Plans, operations and what they do to Chrome are in PlanOperations; a    *)
(* page is the number of navigations a tab has made.                       *)
(***************************************************************************)
EXTENDS PlanOperations

CONSTANTS
  Clients,     (* tool calls that can be running at the same time            *)
  PreviewIDs,  (* identifiers Preview can draw; none is drawn twice          *)
  MaxPreviews, (* bound: previews requested; no more than there are PreviewIDs *)
  MaxEdits,    (* bound: what the user does to tabs                          *)
  MaxFaults,   (* bound: Chrome calls that fail                              *)
  MaxCancels,  (* bound: calls whose context is cancelled                    *)
  MaxExits     (* bound: host exits that no late response caused             *)

ASSUME NoneAssumption == None \notin Clients \cup PreviewIDs

ASSUME BoundsAssumption ==
  {MaxPreviews, MaxEdits, MaxFaults, MaxCancels, MaxExits} \subseteq Nat

\* A stored preview.  Its revision is the digest of the snapshot's grouping,
\* and equal exactly when that grouping is; pages are not part of it.
PreviewRecord == [plan: Plans, read: [Tabs -> Nat], revision: [Tabs -> Places],
                  operations: SUBSET Operation, expired: BOOLEAN]

\* A bridge request, as far as Chrome can tell requests apart.
Request == [kind: {"read"}] \cup [kind: {"operation"}, operation: Operation]
             \cup [kind: {"restore"}, undo: UndoSnapshot]

-----------------------------------------------------------------------------
VARIABLES
  \* Chrome
  page,         (* how often each tab has navigated                          *)
  late,         (* requests whose caller is gone, not yet carried out        *)
  \* the native host
  records,      (* PreviewManager.records                                    *)
  drawn,        (* the preview identifiers RandomID has returned             *)
  operationMu,  (* the client that holds ApplyManager.operationMu            *)
  undoSnapshot, (* ApplyManager.undoSnapshot                                 *)
  doomed,       (* Bridge.Run has read a response that nobody waits for      *)
  call,         (* the tool call of each client                              *)
  \* history, for the properties
  began,        (* how often the operations of each preview were begun       *)
  calm,         (* the clients since whose snapshot nobody else changed tabs *)
  undoBase,     (* the grouping the last successful apply started from, None *)
                (* when another change has come in between                   *)
  spent         (* how much of each bound is used up                         *)

chrome  == <<groupOf, page, usedGroups>>
plans   == <<records, drawn>>
history == <<began, calm, undoBase>>
vars    == <<chrome, late, plans, operationMu, undoSnapshot, doomed, call, history, spent>>

Waiting  == {"validating", "previewing", "checking", "applying", "rolling_back", "undoing"}
Phases   == Waiting \cup {"idle", "apply_locking", "undo_locking"}
Outcomes == {"none", "previewed", "applied", "undone", "undone_partly", "CONTENT_STALE",
             "PLAN_INVALID", "PREVIEW_NOT_FOUND", "PREVIEW_EXPIRED", "PLAN_STALE",
             "APPLY_FAILED_ROLLED_BACK", "APPLY_PARTIAL", "UNDO_UNAVAILABLE",
             "error", "cancelled", "disconnected"}

\* The locals of one tool call: id and record of the preview it applies, the
\* snapshot it works from, the operations it still has to do, createdGroups.
Call == [phase: Phases, outcome: Outcomes, plan: Plans \cup {None}, read: [Tabs -> Nat],
         id: PreviewIDs \cup {None}, record: PreviewRecord \cup {None},
         base: [Tabs -> Places], todo: SUBSET Operation,
         createdGroups: [Keys -> GroupIDs \cup {None}]]

Bounds == [previews: 0..MaxPreviews, edits: 0..MaxEdits, faults: 0..MaxFaults,
           cancels: 0..MaxCancels, exits: 0..MaxExits]

TypeOK ==
  /\ groupOf \in [Tabs -> Places]
  /\ page \in [Tabs -> Nat]
  /\ usedGroups \subseteq GroupIDs
  /\ late \subseteq [live: BOOLEAN, request: Request]
  /\ records \in [PreviewIDs -> PreviewRecord \cup {None}]
  /\ drawn \subseteq PreviewIDs
  /\ operationMu \in Clients \cup {None}
  /\ undoSnapshot \in UndoSnapshot \cup {None}
  /\ doomed \in BOOLEAN
  /\ call \in [Clients -> Call]
  /\ began \in [PreviewIDs -> Nat]
  /\ calm \subseteq Clients
  /\ undoBase \in [Tabs -> Places] \cup {None}
  /\ spent \in Bounds

-----------------------------------------------------------------------------
(* What Chrome does.                                                       *)

\* Variant: a tab whose group is gone is left alone.
RestoreToExisting(undo, S) ==
  /\ groupOf' = [t \in Tabs |->
       IF t \in S /\ (undo.tabs[t] = Ungrouped \/ Exists(undo.tabs[t], groupOf))
       THEN undo.tabs[t] ELSE groupOf[t]]
  /\ UNCHANGED usedGroups

\* restoreChromeSnapshot, for the tabs S it gets to.  A group that Chrome has
\* removed in the meantime is made again, under a new identifier.
RestoreTabs(undo, S) ==
  LET gone == {undo.tabs[t] : t \in S} \ ({Ungrouped} \cup {g \in GroupIDs : Exists(g, groupOf)})
  IN \E id \in [gone -> Fresh] :
       /\ \A g, h \in gone : g < h => id[g] < id[h]
       /\ NewGroups({id[g] : g \in gone})
       /\ groupOf' = [t \in Tabs |-> IF t \notin S THEN groupOf[t]
                                     ELSE IF undo.tabs[t] \in gone THEN id[undo.tabs[t]]
                                     ELSE undo.tabs[t]]
       /\ usedGroups' = usedGroups \cup {id[g] : g \in gone}

Restorable(undo) == {t \in DOMAIN undo.tabs : groupOf[t] # Closed}

\* restored.unrestorable is empty: every tab is open, and every group is there
\* or has a tab to be made of.
FullyRestorable(undo) ==
  /\ Restorable(undo) = DOMAIN undo.tabs
  /\ \A g \in undo.groups : \/ Exists(g, groupOf)
                            \/ \E t \in DOMAIN undo.tabs : undo.tabs[t] = g

-----------------------------------------------------------------------------
(* Helpers for the steps of a tool call.                                   *)

Idle == [phase |-> "idle", outcome |-> "none", plan |-> None, read |-> [t \in Tabs |-> 0],
         id |-> None, record |-> None, base |-> [t \in Tabs |-> Ungrouped], todo |-> {},
         createdGroups |-> [k \in Keys |-> None]]

In(c, phase) == call[c].phase = phase

\* What a step does to the locals of the call.  Return forgets them; Report
\* keeps those of an apply, for the properties to compare its outcome with.
Enter(c, phase)    == call' = [call EXCEPT ![c].phase = phase]
Return(c, outcome) == call' = [call EXCEPT ![c] = [Idle EXCEPT !.outcome = outcome]]
Report(c, outcome) == call' = [call EXCEPT ![c].phase = "idle", ![c].outcome = outcome]

\* Variants: the lock is taken by whoever comes; a call that is cut short keeps
\* it; the record stays.
NoLock == TRUE
HoldTheLock(c) == operationMu
KeptRecord(id) == records

\* operationMu.Lock gets through; the deferred operationMu.Unlock.
LockIsFree == operationMu = None
Unlock     == operationMu' = None

\* delete(manager.records, id)
WithoutRecord(id) == [records EXCEPT ![id] = None]

Spend(bound, max) ==
  /\ spent[bound] < max
  /\ spent' = [spent EXCEPT ![bound] = @ + 1]

\* The restore gets through, or throws: at its very start when the snapshot has
\* no group, because captureUndoSnapshot then leaves Groups nil, which reaches
\* the extension as null; or after any part of its work.  (ChromeRestore follows
\* its steps one by one, and finds the group that is gone when it gets to it.)
Restores(undo) ==
  undo.groups # {} /\ RestoreTabs(undo, Restorable(undo)) /\ UNCHANGED spent

RestoreThrows(undo) ==
  \/ undo.groups = {} /\ UNCHANGED <<groupOf, usedGroups, spent>>
  \/ /\ undo.groups # {}
     /\ Spend("faults", MaxFaults)
     /\ \E S \in SUBSET Restorable(undo) : RestoreTabs(undo, S)

\* Somebody else than a running apply or undo has moved tabs.
Disturb == calm' = {} /\ undoBase' = None

\* The operation c is waiting for, with NewGroupKey resolved to the group.
Resolved(c, o) ==
  IF o.kind = "move_tab" /\ o.dest \in Keys
  THEN [o EXCEPT !.dest = call[c].createdGroups[o.dest]] ELSE o

Undoing(c) == CaptureUndoSnapshot(call[c].base, call[c].record.operations)

\* operationMu after the call of c has ended.
LockAfter(c) == IF operationMu = c THEN None ELSE operationMu

\* The request a call has written and not yet had an answer to.
Outstanding(c) ==
  CASE In(c, "applying") ->
         {[kind |-> "operation", operation |-> Resolved(c, o)] :
            o \in {p \in call[c].todo : IsNext(p, call[c].todo)}}
    [] In(c, "rolling_back") -> {[kind |-> "restore", undo |-> Undoing(c)]}
    [] In(c, "undoing")      -> {[kind |-> "restore", undo |-> undoSnapshot]}
    [] OTHER                 -> {[kind |-> "read"]}

-----------------------------------------------------------------------------
(* chrome_tab_groups_preview                                               *)

\* A client sends a plan.  The pages it was made from were read earlier, so
\* the revisions it names may be those of pages that are gone.
StartPreview(c, plan, read) ==
  /\ In(c, "idle")
  /\ \A t \in Tabs : read[t] <= page[t] /\ (t \notin plan.refs => read[t] = 0)
  /\ call' = [call EXCEPT ![c] =
                [Idle EXCEPT !.phase = IF plan.refs = {} THEN "previewing" ELSE "validating",
                             !.plan = plan, !.read = read]]
  /\ Spend("previews", MaxPreviews)
  /\ calm' = calm \ {c}
  /\ UNCHANGED <<chrome, late, plans, operationMu, undoSnapshot, doomed, began, undoBase>>

\* The extension answers content_revisions_validate.
ValidateContentRevisions(c) ==
  /\ In(c, "validating")
  /\ IF \A t \in call[c].plan.refs : call[c].read[t] = page[t] /\ groupOf[t] # Closed
     THEN Enter(c, "previewing")
     ELSE Return(c, "CONTENT_STALE")
  /\ UNCHANGED <<chrome, late, plans, operationMu, undoSnapshot, doomed, history, spent>>

\* The extension answers snapshot; Preview validates, builds and stores.
Preview(c) ==
  LET plan == call[c].plan IN
  /\ In(c, "previewing")
  /\ \/ /\ ~ValidatePlan(plan, groupOf)
        /\ Return(c, "PLAN_INVALID")
        /\ UNCHANGED plans
     \/ /\ ValidatePlan(plan, groupOf)
        /\ \E id \in PreviewIDs \ drawn :
             /\ drawn' = drawn \cup {id}
             /\ records' = [records EXCEPT ![id] =
                  [plan |-> plan, read |-> call[c].read, revision |-> groupOf,
                   operations |-> BuildOperations(plan, groupOf), expired |-> FALSE]]
        /\ Return(c, "previewed")
  /\ UNCHANGED <<chrome, late, operationMu, undoSnapshot, doomed, history, spent>>

\* Five minutes have passed since the preview.
Expire(id) ==
  /\ records[id] # None
  /\ ~records[id].expired
  /\ records' = [records EXCEPT ![id].expired = TRUE]
  /\ UNCHANGED <<chrome, late, drawn, operationMu, undoSnapshot, doomed, call, history, spent>>

-----------------------------------------------------------------------------
(* chrome_tab_groups_apply                                                 *)

StartApply(c, id) ==
  /\ In(c, "idle")
  /\ call' = [call EXCEPT ![c] = [Idle EXCEPT !.phase = "apply_locking", !.id = id]]
  /\ calm' = calm \ {c}
  /\ UNCHANGED <<chrome, late, plans, operationMu, undoSnapshot, doomed, began, undoBase, spent>>

\* operationMu.Lock and Consume: the record is gone whatever follows.
Consume(c) ==
  LET id == call[c].id IN
  /\ In(c, "apply_locking")
  /\ LockIsFree
  /\ records' = WithoutRecord(id)
  /\ \/ /\ records[id] = None
        /\ Return(c, "PREVIEW_NOT_FOUND")
        /\ UNCHANGED operationMu
     \/ /\ records[id] # None
        /\ records[id].expired
        /\ Return(c, "PREVIEW_EXPIRED")
        /\ UNCHANGED operationMu
     \/ /\ records[id] # None
        /\ ~records[id].expired
        /\ call' = [call EXCEPT ![c].phase = "checking", ![c].record = records[id]]
        /\ operationMu' = c
  /\ UNCHANGED <<chrome, late, drawn, undoSnapshot, doomed, history, spent>>

\* The extension answers Apply's own snapshot with a grouping other than the
\* preview's.
RefuseStale(c) ==
  /\ In(c, "checking")
  /\ groupOf # call[c].record.revision
  /\ Return(c, "PLAN_STALE")
  /\ Unlock
  /\ UNCHANGED <<chrome, late, plans, undoSnapshot, doomed, history, spent>>

\* Variant: the revisions are not compared.
BeginUnchecked(c) ==
  /\ In(c, "checking")
  /\ call' = [call EXCEPT ![c].phase = "applying", ![c].base = groupOf,
                          ![c].todo = call[c].record.operations]
  /\ began' = [began EXCEPT ![call[c].id] = @ + 1]
  /\ calm' = calm \cup {c}
  /\ UNCHANGED <<chrome, late, plans, operationMu, undoSnapshot, doomed, undoBase, spent>>

BeginOperations(c) ==
  /\ In(c, "checking")
  /\ groupOf = call[c].record.revision
  /\ call' = [call EXCEPT ![c].phase = "applying", ![c].base = groupOf,
                          ![c].todo = call[c].record.operations]
  /\ began' = [began EXCEPT ![call[c].id] = @ + 1]
  /\ calm' = calm \cup {c}
  /\ UNCHANGED <<chrome, late, plans, operationMu, undoSnapshot, doomed, undoBase, spent>>

\* The extension carries out the next operation and answers.
CarryOut(c, o) ==
  /\ In(c, "applying")
  /\ IsNext(o, call[c].todo)
  /\ ApplyChromeOperation(Resolved(c, o))
  /\ call' = [call EXCEPT ![c].todo = @ \ {o},
                ![c].createdGroups =
                   IF o.kind = "create_group" THEN [@ EXCEPT ![o.dest] = groupOf'[o.tab]] ELSE @]
  /\ calm' = calm \cap {c}
  /\ undoBase' = None
  /\ UNCHANGED <<page, late, plans, operationMu, undoSnapshot, doomed, began, spent>>

\* The operation fails: Chrome refuses it, because the tab or the group is not
\* there any more or for a reason of its own, before or after it has moved the
\* tab (create_group groups first and names the group in a second call).
FailOperation(c, o) ==
  /\ In(c, "applying")
  /\ IsNext(o, call[c].todo)
  /\ Enter(c, "rolling_back")
  /\ \/ /\ ~CanApply(Resolved(c, o))
        /\ UNCHANGED <<groupOf, usedGroups, spent, history>>
     \/ /\ CanApply(Resolved(c, o))
        /\ Spend("faults", MaxFaults)
        /\ UNCHANGED <<groupOf, usedGroups, history>>
     \/ /\ Spend("faults", MaxFaults)
        /\ ApplyChromeOperation(Resolved(c, o))
        /\ calm' = calm \cap {c}
        /\ undoBase' = None
        /\ UNCHANGED began
  /\ UNCHANGED <<page, late, plans, operationMu, undoSnapshot, doomed>>

\* The loop is over: the apply becomes the one that Undo takes back.
Commit(c) ==
  /\ In(c, "applying")
  /\ call[c].todo = {}
  /\ undoSnapshot' = Undoing(c)
  /\ undoBase' = IF c \in calm THEN call[c].base ELSE None
  /\ Report(c, "applied")
  /\ Unlock
  /\ UNCHANGED <<chrome, late, plans, doomed, began, calm, spent>>

\* The extension answers rollback, with a result or an error.
Rollback(c) ==
  /\ In(c, "rolling_back")
  /\ \/ /\ Restores(Undoing(c))
        /\ Report(c, IF FullyRestorable(Undoing(c)) THEN "APPLY_FAILED_ROLLED_BACK"
                                                   ELSE "APPLY_PARTIAL")
     \/ /\ RestoreThrows(Undoing(c))
        /\ Return(c, "APPLY_PARTIAL")
  /\ calm' = calm \cap {c}
  /\ undoBase' = None
  /\ Unlock
  /\ UNCHANGED <<page, late, plans, undoSnapshot, doomed, began>>

-----------------------------------------------------------------------------
(* chrome_tab_groups_undo                                                  *)

StartUndo(c) ==
  /\ In(c, "idle")
  /\ call' = [call EXCEPT ![c] = [Idle EXCEPT !.phase = "undo_locking"]]
  /\ calm' = calm \ {c}
  /\ UNCHANGED <<chrome, late, plans, operationMu, undoSnapshot, doomed, began, undoBase, spent>>

TakeUndo(c) ==
  /\ In(c, "undo_locking")
  /\ LockIsFree
  /\ \/ /\ undoSnapshot = None
        /\ Return(c, "UNDO_UNAVAILABLE")
        /\ UNCHANGED operationMu
     \/ /\ undoSnapshot # None
        /\ Enter(c, "undoing")
        /\ operationMu' = c
  /\ UNCHANGED <<chrome, late, plans, undoSnapshot, doomed, history, spent>>

\* The extension answers undo_restore; the snapshot is given up even when not
\* all of it could be restored.
Undo(c) ==
  /\ In(c, "undoing")
  /\ Restores(undoSnapshot)
  /\ call' = [call EXCEPT ![c].phase = "idle",
                ![c].outcome = IF FullyRestorable(undoSnapshot) THEN "undone" ELSE "undone_partly",
                ![c].base = IF undoBase = None THEN @ ELSE undoBase]
  /\ undoSnapshot' = None
  /\ calm' = IF undoBase = None THEN {} ELSE {c}
  /\ undoBase' = None
  /\ Unlock
  /\ UNCHANGED <<page, late, plans, doomed, began>>

\* The extension answers undo_restore with an error: the snapshot stays.
FailUndo(c) ==
  /\ In(c, "undoing")
  /\ RestoreThrows(undoSnapshot)
  /\ Return(c, "error")
  /\ calm' = {}
  /\ Unlock
  /\ UNCHANGED <<page, late, plans, undoSnapshot, doomed, began, undoBase>>

-----------------------------------------------------------------------------
(* Calls that end early, and everything else that happens to Chrome.       *)

Reading == {"validating", "previewing", "checking"}

\* A read request fails.
FailRead(c) ==
  /\ call[c].phase \in Reading
  /\ Spend("faults", MaxFaults)
  /\ Return(c, "error")
  /\ operationMu' = LockAfter(c)
  /\ UNCHANGED <<chrome, late, plans, undoSnapshot, doomed, history>>

\* The context of the call ends while Bridge.Call waits (the client gave up or
\* is gone).  The call returns; the extension still has its request.  An apply
\* goes on to its rollback, writes that request too, and does not wait for it.
Cancel(c) ==
  /\ call[c].phase \in Waiting
  /\ In(c, "applying") => call[c].todo # {}
  /\ Spend("cancels", MaxCancels)
  /\ late' = late \cup [live : {TRUE}, request : Outstanding(c) \cup
                 IF In(c, "applying") THEN {[kind |-> "restore", undo |-> Undoing(c)]} ELSE {}]
  /\ Return(c, IF In(c, "applying") \/ In(c, "rolling_back") THEN "APPLY_PARTIAL" ELSE "cancelled")
  /\ operationMu' = LockAfter(c)
  /\ UNCHANGED <<chrome, plans, undoSnapshot, doomed, history>>

\* The extension gets to a request whose caller is gone (a restore it may not
\* get through).  Its answer, if the
\* host that asked is still there, is one that nobody waits for.
AnswerLate(r) ==
  /\ r \in late
  /\ late' = late \ {r}
  /\ doomed' = (doomed \/ r.live)
  /\ CASE r.request.kind = "read" -> UNCHANGED <<groupOf, usedGroups, history, spent>>
       [] r.request.kind = "operation" ->
            IF CanApply(r.request.operation)
            THEN ApplyChromeOperation(r.request.operation) /\ Disturb /\ UNCHANGED <<began, spent>>
            ELSE UNCHANGED <<groupOf, usedGroups, history, spent>>
       [] r.request.kind = "restore" ->
            /\ Restores(r.request.undo) \/ RestoreThrows(r.request.undo)
            /\ Disturb
            /\ UNCHANGED began
  /\ UNCHANGED <<page, plans, operationMu, undoSnapshot, call>>

\* The host process ends, with everything it held, and the extension starts a
\* new one.  Requests the extension already has are not taken back.
HostExit ==
  /\ \/ doomed /\ UNCHANGED spent
     \/ ~doomed /\ Spend("exits", MaxExits)
  /\ late' = [live : {FALSE}, request : {r.request : r \in late} \cup
                 UNION {Outstanding(c) : c \in {d \in Clients : call[d].phase \in Waiting}}]
  /\ records' = [id \in PreviewIDs |-> None]
  /\ operationMu' = None
  /\ undoSnapshot' = None
  /\ undoBase' = None
  /\ doomed' = FALSE
  /\ call' = [c \in Clients |->
                IF In(c, "idle") THEN call[c]
                ELSE [Idle EXCEPT !.outcome = "disconnected"]]
  /\ UNCHANGED <<chrome, drawn, began, calm>>

\* The user moves a tab to another group or out of its group, groups it anew,
\* or closes it (as chrome_tabs_close does, which takes no lock).
UserMoves(t, place) ==
  /\ groupOf[t] \notin {Closed, place}
  /\ \/ place \in {Ungrouped, Closed} \/ Exists(place, groupOf) \/ NewGroups({place})
  /\ Spend("edits", MaxEdits)
  /\ groupOf' = [groupOf EXCEPT ![t] = place]
  /\ usedGroups' = usedGroups \cup ({place} \cap GroupIDs)
  /\ Disturb
  /\ UNCHANGED <<page, late, plans, operationMu, undoSnapshot, doomed, call, began>>

UserNavigates(t) ==
  /\ groupOf[t] # Closed
  /\ Spend("edits", MaxEdits)
  /\ page' = [page EXCEPT ![t] = @ + 1]
  /\ UNCHANGED <<groupOf, usedGroups, late, plans, operationMu, undoSnapshot, doomed, call, history>>

-----------------------------------------------------------------------------
Init ==
  /\ groupOf \in [Tabs -> InitGroups \cup {Ungrouped}]
  /\ page = [t \in Tabs |-> 0]
  /\ usedGroups = InitGroups
  /\ late = {}
  /\ records = [id \in PreviewIDs |-> None]
  /\ drawn = {}
  /\ operationMu = None
  /\ undoSnapshot = None
  /\ doomed = FALSE
  /\ call = [c \in Clients |-> Idle]
  /\ began = [id \in PreviewIDs |-> 0]
  /\ calm = {}
  /\ undoBase = None
  /\ spent = [previews |-> 0, edits |-> 0, faults |-> 0, cancels |-> 0, exits |-> 0]

\* A step of the call of c that needs nothing but the extension's answer.
Answer(c) ==
  \/ ValidateContentRevisions(c) \/ Preview(c)
  \/ RefuseStale(c) \/ BeginOperations(c) \/ Commit(c)
  \/ \E o \in call[c].todo : CarryOut(c, o) \/ FailOperation(c, o)
  \/ Rollback(c) \/ Undo(c) \/ FailUndo(c) \/ FailRead(c)

Start(c) ==
  \/ \E plan \in Plans, read \in [Tabs -> 0..MaxEdits] : StartPreview(c, plan, read)
  \/ \E id \in PreviewIDs : StartApply(c, id)
  \/ StartUndo(c)

Lock(c) == Consume(c) \/ TakeUndo(c)

Environment ==
  \/ \E id \in PreviewIDs : Expire(id)
  \/ \E r \in late : AnswerLate(r)
  \/ HostExit
  \/ \E t \in Tabs, place \in Places : UserMoves(t, place)
  \/ \E t \in Tabs : UserNavigates(t)

Next ==
  \/ \E c \in Clients : Start(c) \/ Lock(c) \/ Answer(c) \/ Cancel(c)
  \/ Environment

Spec == Init /\ [][Next]_vars

\* The extension answers what it is asked, and a sync.Mutex passes over no
\* waiter for ever (it hands over in order after a millisecond of starvation).
Fairness == \A c \in Clients : WF_vars(Answer(c)) /\ SF_vars(Lock(c))
FairSpec == Spec /\ Fairness

-----------------------------------------------------------------------------
(* Properties.                                                             *)

Applying(c) == call[c].phase \in {"checking", "applying", "rolling_back"}

\* The operations of an approved preview are begun at most once, however many
\* clients apply it, however often, and even when it was found stale before
\* (Consume deletes the record before anything can fail).
AppliedAtMostOnce == \A id \in PreviewIDs : began[id] <= 1

\* Between Consume and its answer, an apply has Chrome to itself as far as the
\* host is concerned: no two clients are past operationMu.Lock at once.
OneChangeAtATime ==
  \A c, d \in Clients :
    (Applying(c) \/ In(c, "undoing")) /\ (Applying(d) \/ In(d, "undoing")) => c = d

\* A move into a group the plan creates finds the group in createdGroups, so
\* the "created group mapping is missing" branch of Apply is never taken.
CreatedBeforeUse ==
  \A c \in Clients : In(c, "applying") =>
    \A o \in call[c].todo :
      IsNext(o, call[c].todo) /\ o.kind = "move_tab" => Resolved(c, o).dest # None

\* While only the apply itself moves tabs, every tab it has not come to yet is
\* where the user saw it in the preview, and every tab it is done with is where
\* the preview said it would go.
WorksOnThePreviewedState ==
  \A c \in Clients : In(c, "applying") /\ c \in calm =>
    LET rec == call[c].record
        done == rec.operations \ call[c].todo IN
    \A t \in Tabs :
      /\ (\A o \in done : o.tab # t) => groupOf[t] = rec.revision[t]
      /\ \A o \in done :
           o.tab = t /\ o.kind # "create_group"  => groupOf[t] = Resolved(c, o).dest

\* Two groupings are the same but for the identifiers of groups.
SameGrouping(f, g) ==
  \A t, u \in Tabs :
    /\ f[t] \in {Ungrouped, Closed} \/ g[t] \in {Ungrouped, Closed} => f[t] = g[t]
    /\ f[t] \in GroupIDs => (f[t] = f[u] <=> g[t] = g[u])

\* APPLY_FAILED_ROLLED_BACK, and a full undo, mean what they say: if nobody else
\* has moved a tab since the apply looked, all tabs are grouped as they were
\* before it, those too that only the failed operation had touched.
RestoredMeansRestored ==
  \A c \in Clients :
    call[c].outcome \in {"APPLY_FAILED_ROLLED_BACK", "undone"} /\ c \in calm =>
      SameGrouping(groupOf, call[c].base)

\* A successful apply has done what its plan says, all of it and nothing else.
AppliedMeansApplied ==
  \A c \in Clients :
    call[c].outcome = "applied" /\ c \in calm =>
      LET rec    == call[c].record
          dest   == rec.plan.dest
          chosen == {t \in Assigned(rec.plan) :
                       rec.plan.policy = "ungrouped_only" => rec.revision[t] = Ungrouped}
      IN \A t \in Tabs :
           /\ t \notin chosen => groupOf[t] = rec.revision[t]
           /\ t \in chosen /\ dest[t] \notin Keys => groupOf[t] = dest[t]
           /\ t \in chosen /\ dest[t] \in Keys =>
                \A u \in Tabs : groupOf[u] = groupOf[t] <=> u \in chosen /\ dest[u] = dest[t]

\* Every tool call returns: no path through Apply and Undo, the failing and the
\* cancelled ones included, keeps operationMu.
CallsReturn == \A c \in Clients : call[c].phase # "idle" ~> call[c].phase = "idle"
=============================================================================
