------------------------------- MODULE Activity -------------------------------
(***************************************************************************)
(* What the extension remembers of each tab while it is open: the events   *)
(* Chrome reports (src/extension/src/activity-events.ts), the reducer that *)
(* counts them (activity-reducer.ts), and ActivityRuntime                  *)
(* (activity-store.ts), which keeps the result across ends of the service  *)
(* worker and starts anew in each session of the browser, where the same   *)
(* tab identifiers name other tabs.                                        *)
(*                                                                         *)
(* Data: of a record, whether createdAt, lastMovedAt and                   *)
(* lastGroupChangedAt are set, and the count.  createdAt is set exactly    *)
(* when activityDataCompleteness is created_observed.  Times are left out. *)
(***************************************************************************)
EXTENDS Naturals, Sequences, Functions

CONSTANTS
  Tabs,         (* tab identifiers, of every session                          *)
  Incognito,    (* those of incognito windows                                 *)
  Kinds,        (* what happens to an open tab, of ChangeKinds                *)
  None,         (* undefined; a key that is not in the storage                *)
  MaxSessions,  (* bound: sessions of the browser                             *)
  MaxChanges,   (* bound: what happens to tabs                                *)
  MaxStops,     (* bound: ends of the worker while the browser goes on        *)
  MaxFaults     (* bound: requests to Chrome that fail                        *)

\* Attached and detached are moved to the reducer.
ChangeKinds == {"tab-activated", "tab-updated", "tab-moved"}

ASSUME TabsAssumption  == Incognito \subseteq Tabs
ASSUME KindAssumption  == Kinds \subseteq ChangeKinds
ASSUME BoundAssumption == {MaxChanges, MaxStops, MaxFaults} \subseteq Nat /\ MaxSessions \in Nat \ {0}

\* Session identifiers are random: the one a session needs was never drawn before.
SessionIDs == 1..MaxSessions

Record == [created : BOOLEAN, activationCount : 0..MaxChanges,
           moved : BOOLEAN, groupChanged : BOOLEAN]

\* What is remembered of the tabs of a session.
States == [session : SessionIDs, records : UNION {[D -> Record] : D \in SUBSET Tabs}]

ASSUME NoneAssumption == None \notin Nat \cup Tabs \cup States

Event == [type : {"tab-created", "tab-removed"} \cup ChangeKinds, tab : Tabs]
           \cup [type : {"group-changed"}, tab : {None}]

VARIABLES
  \* Chrome
  open,            (* the tabs that are open                                  *)
  known,           (* the tabs there have been in this session                *)
  pipe,            (* events on their way to the worker                       *)
  session,         (* chrome.storage.session: browserSessionId                *)
  local,           (* chrome.storage.local: activityState                     *)
  writes,          (* states on their way to chrome.storage.local             *)
  \* the worker
  worker,          (* stopped, initializing, initialized; failed to initialize *)
  read,            (* what initialize has read so far                         *)
  state,           (* ActivityRuntime.state                                   *)
  queued,          (* ActivityRuntime.queued                                  *)
  flushScheduled,  (* ActivityRuntime.flushScheduled                          *)
  \* history, for the properties
  real,            (* what has happened to each tab in this session           *)
  lost,            (* whether some of it may have been lost with a worker     *)
  lastFailed,      (* whether the last write has failed                       *)
  drawn,           (* session identifiers drawn                               *)
  spent            (* how much of each bound is used up                       *)

tabs    == <<open, known, real>>
storage == <<session, local, writes>>
runtime == <<worker, read, state, queued, flushScheduled>>
history == <<lost, lastFailed>>
vars    == <<tabs, pipe, storage, runtime, history, drawn, spent>>

\* Events are queued before initialisation only, and written after it only.
TypeOK ==
  /\ open \subseteq known /\ known \subseteq Tabs
  /\ pipe \in Seq(Event)
  /\ session \in SessionIDs \cup {None}
  /\ local \in States \cup {None}
  /\ writes \in Seq(States)
  /\ worker \in {"stopped", "initializing", "initialized", "failed"}
  /\ read \in [session : SessionIDs \cup {None}, local : States \cup {None}, tabs : (SUBSET Tabs) \cup {{None}}]
  /\ IF worker = "initialized" THEN state \in States ELSE state = None
  /\ queued \in Seq(Event)
  /\ queued # <<>> => state = None
  /\ flushScheduled \in BOOLEAN /\ (flushScheduled => state # None)
  /\ real \in [Tabs -> Record]
  /\ lost \in BOOLEAN /\ lastFailed \in BOOLEAN
  /\ drawn \in 0..MaxSessions
  /\ spent \in [sessions : 0..MaxSessions, changes : 0..MaxChanges,
                stops : 0..MaxStops, faults : 0..MaxFaults]

Spend(bound, max) ==
  /\ spent[bound] < max
  /\ spent' = [spent EXCEPT ![bound] = @ + 1]

-----------------------------------------------------------------------------
(* activity-reducer.ts                                                     *)

\* existingObservation
Unseen == [created |-> FALSE, activationCount |-> 0, moved |-> FALSE, groupChanged |-> FALSE]

\* What an event says of its tab, given what was known of it.
Updated(record, type) ==
  CASE type = "tab-created"   -> [Unseen EXCEPT !.created = TRUE]
    [] type = "tab-activated" -> [record EXCEPT !.activationCount = @ + 1]
    [] type = "tab-updated"   -> [record EXCEPT !.groupChanged = TRUE]
    [] type = "tab-moved"     -> [record EXCEPT !.moved = TRUE]

\* updateRecord
UpdateRecord(s, t, type) ==
  LET record == IF t \in DOMAIN s.records THEN s.records[t] ELSE Unseen
  IN [s EXCEPT !.records = [u \in DOMAIN @ \cup {t} |->
                              IF u = t THEN Updated(record, type) ELSE @[u]]]

\* reduceActivity; group-changed always comes with no tab.
Reduce(s, e) ==
  CASE e.type = "group-changed" \/ (e.type = "tab-created" /\ e.tab \in Incognito) -> s
    [] e.type = "tab-removed" -> [s EXCEPT !.records = Restrict(@, DOMAIN @ \ {e.tab})]
    [] OTHER -> UpdateRecord(s, e.tab, e.type)

\* Variant: the records of another session are kept for the tabs of the same
\* identifiers.
ReconcileAnySession(previous, current, id) ==
  [session |-> id,
   records |-> [t \in current \ Incognito |->
                  IF previous # None /\ t \in DOMAIN previous.records
                  THEN previous.records[t] ELSE Unseen]]

\* reconcileActivity
Reconcile(previous, current, id) ==
  LET kept == IF previous # None /\ previous.session = id THEN previous.records ELSE <<>>
  IN [session |-> id,
      records |-> [t \in current \ Incognito |->
                     IF t \in DOMAIN kept THEN kept[t] ELSE Unseen]]

-----------------------------------------------------------------------------
(* What happens to tabs.  Chrome reports it all, in order.                 *)

Happens(t, type) ==
  /\ Spend("changes", MaxChanges)
  /\ pipe' = Append(pipe, [type |-> type, tab |-> t])
  /\ UNCHANGED <<storage, runtime, history, drawn>>

\* No two tabs of a session have the same identifier.
TabCreated(t) ==
  /\ t \notin known
  /\ open' = open \cup {t}
  /\ known' = known \cup {t}
  /\ real' = [real EXCEPT ![t] = Updated(@, "tab-created")]
  /\ Happens(t, "tab-created")

\* It is activated, moved (or attached, or detached), or its group changes.
TabChanged(t, type) ==
  /\ t \in open
  /\ real' = [real EXCEPT ![t] = Updated(@, type)]
  /\ Happens(t, type)
  /\ UNCHANGED <<open, known>>

TabRemoved(t) ==
  /\ t \in open
  /\ open' = open \ {t}
  /\ Happens(t, "tab-removed")
  /\ UNCHANGED <<known, real>>

\* tabGroups.onCreated, onUpdated, onMoved or onRemoved: an event without a tab.
\* tabs.onUpdated of anything but the group has the same effect.
GroupChanged ==
  /\ Happens(None, "group-changed")
  /\ UNCHANGED tabs

-----------------------------------------------------------------------------
(* ActivityRuntime                                                         *)

NothingRead == [session |-> None, local |-> None, tabs |-> {None}]

\* An event, or the start of the browser, starts the worker; its module
\* registers the listeners and calls initialize, which reads three things.
StartWorker ==
  /\ worker = "stopped"
  /\ worker' = "initializing"
  /\ UNCHANGED <<tabs, pipe, storage, read, state, queued, flushScheduled, history, drawn, spent>>

\* getOrCreateBrowserSessionID and local.get: the session's identifier, drawn
\* and stored if there is none, and what was stored last.  Only this worker uses
\* the two areas, and Chrome has carried out the writes of earlier ones.
ReadStorage ==
  /\ worker = "initializing"
  /\ read.session = None
  /\ writes = <<>>
  /\ IF session # None THEN UNCHANGED <<session, drawn>>
                       ELSE session' = drawn + 1 /\ drawn' = drawn + 1
  /\ read' = [read EXCEPT !.session = session', !.local = local]
  /\ UNCHANGED <<tabs, pipe, local, writes, worker, state, queued, flushScheduled, history, spent>>

\* queryTabs
QueryTabs ==
  /\ worker = "initializing"
  /\ read.tabs = {None}
  /\ read' = [read EXCEPT !.tabs = open]
  /\ UNCHANGED <<tabs, pipe, storage, worker, state, queued, flushScheduled, history, drawn, spent>>

\* Variant: the queue is not emptied.
StillQueued == queued

\* s, and after it what becomes of it with each of the events.
Replayed(s) ==
  LET after[n \in 0..Len(queued)] == IF n = 0 THEN s ELSE Reduce(after[n - 1], queued[n])
  IN after[Len(queued)]
Emptied == <<>>

\* Promise.all is settled: reconcile, replay, and persist.
Initialize ==
  /\ worker = "initializing"
  /\ read.session # None
  /\ read.tabs # {None}
  /\ worker' = "initialized"
  /\ state' = Replayed(Reconcile(read.local, read.tabs, read.session))
  /\ read' = NothingRead
  /\ queued' = Emptied
  /\ writes' = Append(writes, state')
  /\ UNCHANGED <<tabs, pipe, session, local, flushScheduled, history, drawn, spent>>

\* One of the three is rejected; so is initialize, and nobody calls it again.
FailInitialize ==
  /\ worker = "initializing"
  /\ Spend("faults", MaxFaults)
  /\ worker' = "failed"
  /\ read' = NothingRead
  /\ UNCHANGED <<tabs, pipe, storage, state, queued, flushScheduled, history, drawn>>

\* Variant: no flush is scheduled as long as a write is on its way.
UnlessWriting == flushScheduled \/ writes = <<>>

\* schedulePersist
Scheduled == TRUE

\* dispatch
Dispatch ==
  /\ worker # "stopped"
  /\ pipe # <<>>
  /\ pipe' = Tail(pipe)
  /\ IF state = None
     THEN /\ queued' = Append(queued, Head(pipe))
          /\ UNCHANGED <<state, flushScheduled>>
     ELSE /\ state' = Reduce(state, Head(pipe))
          /\ flushScheduled' = Scheduled
          /\ UNCHANGED queued
  /\ UNCHANGED <<tabs, storage, worker, read, history, drawn, spent>>

\* The microtask of schedulePersist: what is written is the state of now.
Flush ==
  /\ flushScheduled
  /\ writes' = Append(writes, state)
  /\ flushScheduled' = FALSE
  /\ UNCHANGED <<tabs, pipe, session, local, worker, read, state, queued, history, drawn, spent>>

-----------------------------------------------------------------------------
(* chrome.storage.local, and the ends of the worker and the browser.       *)

\* Chrome carries out the first of the writes, or it fails.
Store ==
  /\ writes # <<>>
  /\ writes' = Tail(writes)
  /\ \/ /\ local' = Head(writes)
        /\ lastFailed' = FALSE
        /\ UNCHANGED <<lost, spent>>
     \/ /\ Spend("faults", MaxFaults)
        /\ lastFailed' = TRUE
        /\ lost' = (lost \/ state = None)
        /\ UNCHANGED local
  /\ UNCHANGED <<tabs, pipe, session, runtime, drawn>>

\* The worker and its memory are gone, and some of what was on its way.
Stop ==
  /\ worker # "stopped"
  /\ worker' = "stopped"
  /\ read' = NothingRead
  /\ state' = None
  /\ queued' = <<>>
  /\ flushScheduled' = FALSE

\* Chrome stops the worker.  Events it has not handled may start the next one
\* (they come in order), and writes it has sent may still be carried out.
StopWorker ==
  /\ Stop
  /\ Spend("stops", MaxStops)
  /\ \E i \in 0..Len(pipe), n \in 0..Len(writes) :
       /\ pipe' = SubSeq(pipe, i + 1, Len(pipe))
       /\ writes' = SubSeq(writes, 1, n)
       /\ lost' = (\/ lost \/ lastFailed \/ flushScheduled
                   \/ queued # <<>> \/ i > 0 \/ n < Len(writes))
  /\ UNCHANGED <<tabs, session, local, lastFailed, drawn>>

\* The browser ends, and starts again with tabs of which some may have the
\* identifiers of others before.
RestartBrowser ==
  /\ \/ Stop
     \/ worker = "stopped" /\ UNCHANGED runtime
  /\ Spend("sessions", MaxSessions)
  /\ open' \in SUBSET Tabs
  /\ known' = open'
  /\ real' = [t \in Tabs |-> Unseen]
  /\ pipe' = <<>>
  /\ session' = None
  /\ local' \in {local} \cup Range(writes)
  /\ writes' = <<>>
  /\ lost' = FALSE
  /\ lastFailed' = FALSE
  /\ UNCHANGED drawn

\* The extension has been installed into a session that has some tabs.
Init ==
  /\ open \in SUBSET Tabs
  /\ known = open
  /\ pipe = <<>>
  /\ session = None
  /\ local = None
  /\ writes = <<>>
  /\ worker = "stopped"
  /\ read = NothingRead
  /\ state = None
  /\ queued = <<>>
  /\ flushScheduled = FALSE
  /\ real = [t \in Tabs |-> Unseen]
  /\ lost = FALSE
  /\ lastFailed = FALSE
  /\ drawn = 0
  /\ spent = [sessions |-> 1, changes |-> 0, stops |-> 0, faults |-> 0]

Next ==
  \/ \E t \in Tabs : \/ TabCreated(t) \/ TabRemoved(t)
                     \/ \E kind \in Kinds : TabChanged(t, kind)
  \/ GroupChanged
  \/ StartWorker
  \/ ReadStorage \/ QueryTabs \/ Initialize \/ FailInitialize
  \/ Dispatch \/ Flush \/ Store
  \/ StopWorker \/ RestartBrowser

Spec == Init /\ [][Next]_vars

-----------------------------------------------------------------------------
(* Properties.                                                             *)

\* Everything that has happened has been handled, and everything handled written.
Quiet == worker = "initialized" /\ pipe = <<>> /\ ~flushScheduled /\ writes = <<>>

\* FR-055, FR-061: what is remembered of a tab, in the worker or in the storage,
\* has happened to this tab, in this session.
OnlyWhatHappened ==
  \A s \in {state, local} \ {None} : s.session = session =>
    \A t \in DOMAIN s.records \ Incognito :
      LET r == s.records[t] IN
      /\ t \in known
      /\ r.activationCount <= real[t].activationCount
      /\ r.created => real[t].created
      /\ r.moved => real[t].moved
      /\ r.groupChanged => real[t].groupChanged

\* FR-054, FR-058, FR-060, FR-064: once all is quiet, the records are those of the
\* tabs that are open, whatever came before, between or after the three readings of
\* initialize, and they are what the storage holds, unless it failed to take them.
\* Nothing is forgotten either: if every worker so far could hand over all it knew,
\* the records say exactly what has happened.
CaughtUp ==
  Quiet =>
    /\ DOMAIN state.records \ Incognito = open \ Incognito
    /\ state.session = session
    /\ ~lastFailed => local = state
    /\ ~lost => \A t \in open \ Incognito : state.records[t] = real[t]
=============================================================================
