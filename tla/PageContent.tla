---------------------------- MODULE PageContent ----------------------------
(***************************************************************************)
(* Page text in the extension: content_get, content_compare, content_diff  *)
(* and content_revisions_validate (content-service.ts), the revisions they *)
(* hand out (ContentRevisionStore of content.ts), the events of Chrome     *)
(* that revoke them, and the service worker that may stop at any moment.   *)
(*                                                                         *)
(* Every await is a step boundary: a script runs in a page, or chrome.tabs *)
(* answers, with the page as it is then, and the page may be another one   *)
(* by the time the next step is taken.                                     *)
(***************************************************************************)
EXTENDS LineDiff

CONSTANTS
  Clients,
  Tabs,
  Urls,
  Ignored,        \* addresses a tabignore pattern matches
  Denied,         \* addresses the extension has no access to; scripts fail there
  Letters,        \* the characters of texts
  Texts,          \* what a page may come to show
  Openings,       \* where a behaviour starts: the pages, and the numbers of
                  \* changes to them and of requests that bound it
  None,
  SourceLimit,    \* maxChars of the requests
  DiffLimits,     \* maxDiffChars of the requests
  MaxRevisions,   \* bound on the revisions handed out
  MaxStops        \* bound on the ends of the service worker

Revisions == 1 .. MaxRevisions

\* What a tab may show, and ContentIdentity.
PageTexts  == Texts \cup {o.pages[t].text : o \in Openings, t \in Tabs}
Pages      == [url : Urls, doc : Nat, text : PageTexts]
Identities == [tab : Tabs, url : Urls, doc : Nat]

ASSUME NoneAssumption ==
  /\ None \notin Pages
  /\ \A held \in SUBSET Revisions : None \notin [held -> Identities]

ASSUME PagesAssumption ==
  /\ MaxRevisions \in Nat
  /\ \A o \in Openings :
       /\ o.pages \in [Tabs -> Pages] /\ \A t \in Tabs : o.pages[t].doc = 1
       /\ o.edits \in Nat /\ o.requests \in Nat

ASSUME TextsAssumption ==
  /\ PageTexts \subseteq Seq(Letters)
  /\ SourceLimit \in Nat /\ DiffLimits \subseteq Nat

VARIABLES
  page,       \* what each tab shows: [url, doc, text], or None once it is closed
  events,     \* how many onUpdated and onRemoved events wait, of each tab
  store,      \* ContentRevisionStore.revisions; None until load has read it
  writes,     \* the un-awaited storage.set calls on their way
  disk,       \* contentRevisions in chrome.storage.session
  calls,      \* the request of each client
  history,    \* everything the tabs have shown together
  edits, requests,  \* how many are left
  stops,
  truth,      \* the page that each revision was handed out for
  revoked     \* the revisions an event has removed

world   == <<page, history, edits>>
storage == <<store, writes, disk, truth, revoked>>
vars    == <<world, events, storage, calls, stops, requests>>

Pairs     == {p \in Tabs \X Tabs : p[1] # p[2]}
Clip(text) == SubSeq(text, 1, Min({Len(text), SourceLimit}))

\* The identity of a page, or of an identity already taken.
Identity(tab, shown) == [tab |-> tab, url |-> shown.url, doc |-> shown.doc]
NoCall == [op |-> "none"]

Init ==
  /\ \E o \in Openings : page = o.pages /\ edits = o.edits /\ requests = o.requests
  /\ history = {page}
  /\ events = [t \in Tabs |-> 0]
  /\ store = <<>> /\ writes = <<>> /\ disk = <<>>
  /\ calls = [c \in Clients |-> NoCall]
  /\ stops = 0
  /\ truth = <<>> /\ revoked = {}

-----------------------------------------------------------------------------
(* Chrome and its user. *)

Show(t, shown) ==
  /\ edits > 0
  /\ page' = [page EXCEPT ![t] = shown]
  /\ history' = history \cup {page'}
  /\ edits' = edits - 1
  /\ events' = [events EXCEPT ![t] = @ + 1]
  /\ UNCHANGED <<storage, calls, stops, requests>>

\* A navigation or a reload: another document, perhaps at the same address.
Navigate(t) ==
  /\ page[t] # None
  /\ \E url \in Urls, text \in Texts :
       Show(t, [url |-> url, doc |-> page[t].doc + 1, text |-> text])

\* history.pushState: another address and another text in the same document.
PushState(t) ==
  /\ page[t] # None
  /\ \E url \in Urls \ {page[t].url}, text \in Texts :
       Show(t, [url |-> url, doc |-> page[t].doc, text |-> text])

CloseTab(t) == page[t] # None /\ Show(t, None)

-----------------------------------------------------------------------------
(* The store and its copy in chrome.storage.session. *)

Persist == writes' = Append(writes, store')

Stored ==
  /\ writes # <<>>
  /\ disk' = Head(writes) /\ writes' = Tail(writes)
  /\ UNCHANGED <<world, events, store, calls, stops, requests, truth, revoked>>

\* ContentRevisionStore.load, in a worker that has just started.
Load ==
  /\ store = None
  /\ store' = disk
  /\ UNCHANGED <<world, events, writes, disk, calls, stops, requests, truth, revoked>>

\* invalidateContentRevision and invalidateTab, for one event.
Invalidate(t) ==
  LET gone == {r \in DOMAIN store : store[r].tab = t} IN
  /\ events[t] > 0 /\ store # None
  /\ events' = [events EXCEPT ![t] = @ - 1]
  /\ store' = [r \in DOMAIN store \ gone |-> store[r]]
  /\ IF gone # {} THEN Persist ELSE UNCHANGED writes
  /\ revoked' = revoked \cup gone
  /\ UNCHANGED <<world, disk, calls, stops, requests, truth>>

\* The worker ends, with its requests; writes that are under way may be lost.
StopWorker ==
  /\ store # None /\ stops < MaxStops
  /\ stops' = stops + 1
  /\ store' = None
  /\ \E n \in 0 .. Len(writes) :
       disk' = IF n = 0 THEN disk ELSE writes[n]
  /\ writes' = <<>>
  /\ calls' = [c \in Clients |-> NoCall]
  /\ revoked' = revoked \ DOMAIN disk'
  /\ UNCHANGED <<world, events, requests, truth>>

-----------------------------------------------------------------------------
(* Requests for text.  For each tab, "at" says what is awaited next.       *)

Start(c, call) ==
  /\ calls[c].op = "none" /\ store # None /\ requests > 0
  /\ calls' = [calls EXCEPT ![c] = call]
  /\ requests' = requests - 1
  /\ UNCHANGED <<world, events, storage, stops>>

TextCall(op, tabs, limit) ==
  [op |-> op, tabs |-> tabs, limit |-> limit,
   at |-> [k \in DOMAIN tabs |-> "access"], got |-> [k \in DOMAIN tabs |-> None]]

Request(c) ==
  \/ Cardinality(DOMAIN truth) < MaxRevisions /\ \E t \in Tabs : Start(c, TextCall("get", <<t>>, 0))
  \/ \E p \in Pairs : Start(c, TextCall("compare", p, 0))
  \/ \E p \in Pairs, limit \in DiffLimits : Start(c, TextCall("diff", p, limit))

Answer(c, code, result) ==
  calls' = [calls EXCEPT ![c] = [op |-> "answer", of |-> calls[c], code |-> code, result |-> result]]
Fail(c, code)   == Answer(c, code, None) /\ UNCHANGED storage
Go(c, k, stage) == calls' = [calls EXCEPT ![c].at[k] = stage] /\ UNCHANGED storage

\* Promise.all: no tab of the request is captured before all are found to be
\* accessible, and none is validated before all are captured.
AllAccessible(c) == \A k \in DOMAIN calls[c].at : calls[c].at[k] # "access"
EachForItself(c) == TRUE   \* a variant
AllCaptured(c)   == \A k \in DOMAIN calls[c].at : calls[c].at[k] \notin {"access", "capture", "digest"}

\* requireAccessibleTab.
RequireAccessible(c, k, t) ==
  /\ calls[c].at[k] = "access"
  /\ IF page[t] = None THEN Fail(c, "TAB_NOT_FOUND")
     ELSE IF page[t].url \in Ignored THEN Fail(c, "CONTENT_NOT_ACCESSIBLE")
     ELSE IF page[t].url \in Denied  THEN Fail(c, "CONTENT_PERMISSION_REQUIRED")
     ELSE Go(c, k, "capture")

Scriptable(t) == page[t] # None /\ page[t].url \notin Denied

\* The script that reads the text.  fixedPageExtractor is done at once; the
\* other two await a digest before they read the address.
Capture(c, k, t) ==
  /\ calls[c].at[k] = "capture" /\ AllAccessible(c)
  /\ IF ~Scriptable(t) THEN Fail(c, "CONTENT_EXTRACTION_FAILED")
     ELSE /\ calls' = [calls EXCEPT ![c].got[k] = page[t],
                        ![c].at[k] = IF calls[c].op = "get" THEN "probe" ELSE "digest"]
          /\ UNCHANGED storage

Digested(c, k, t) ==
  /\ calls[c].at[k] = "digest"
  /\ IF page[t] = None \/ page[t].doc # calls[c].got[k].doc
     THEN Fail(c, "CONTENT_EXTRACTION_FAILED")
     ELSE /\ calls' = [calls EXCEPT ![c].got[k].url = page[t].url, ![c].at[k] = "probe"]
          /\ UNCHANGED storage

\* validateCapturedPage: fixedIdentityProbe and validateStableIdentity ...
Probe(c, k, t) ==
  /\ calls[c].at[k] = "probe" /\ AllCaptured(c)
  /\ IF Scriptable(t) /\ Identity(t, page[t]) = Identity(t, calls[c].got[k])
     THEN Go(c, k, "latest") ELSE Fail(c, "CONTENT_STALE")

\* randomID: no revision is handed out twice.  The variant counts the store.
CountRevisions == Cardinality(DOMAIN store) + 1
NewRevision    == Cardinality(DOMAIN truth) + 1

With(f, x, value) == [y \in DOMAIN f \cup {x} |-> IF y = x THEN value ELSE f[y]]

\* ContentRevisionStore.issue.
Issue(revision, identity) ==
  /\ store' = With(store, revision, identity)
  /\ Persist
  /\ UNCHANGED <<disk, revoked>>

\* What the three requests answer once every page has been validated.
Deliver(c) ==
  LET got == calls[c].got
      Text(k) == Clip(got[k].text)
      revision == NewRevision
      tab == calls[c].tabs[1]
  IN \/ /\ calls[c].op = "get"
        /\ revision \in Revisions
        /\ Answer(c, "ok", [text |-> Text(1), revision |-> revision])
        /\ Issue(revision, Identity(tab, got[1]))
        /\ truth' = With(truth, revision, [tab |-> tab, page |-> got[1]])
     \/ /\ calls[c].op = "compare"
        /\ Answer(c, "ok", [match |-> got[1].text = got[2].text])
        /\ UNCHANGED storage
     \/ /\ calls[c].op = "diff"
        /\ Answer(c, "ok", [match |-> got[1].text = got[2].text,
                            cut |-> \E k \in 1 .. 2 : got[k].text # Text(k),
                            diff |-> CreateLineDiff(Text(1), Text(2), calls[c].limit)])
        /\ UNCHANGED storage

\* ... and chrome.tabs.get; the last one to return completes the request.
Latest(c, k, t) ==
  /\ calls[c].at[k] = "latest"
  /\ IF page[t] = None \/ page[t].url # calls[c].got[k].url THEN Fail(c, "CONTENT_STALE")
     ELSE IF \E j \in DOMAIN calls[c].at \ {k} : calls[c].at[j] # "done" THEN Go(c, k, "done")
     ELSE Deliver(c)

Text(c) ==
  /\ calls[c].op \in {"get", "compare", "diff"}
  /\ \E k \in DOMAIN calls[c].tabs : LET t == calls[c].tabs[k] IN
       \/ RequireAccessible(c, k, t) \/ Capture(c, k, t) \/ Digested(c, k, t)
       \/ Probe(c, k, t) \/ Latest(c, k, t)
  /\ UNCHANGED <<world, events, stops, requests>>

-----------------------------------------------------------------------------
(* content_revisions_validate, one reference after the other.              *)

Known(ref) == ref.revision \in DOMAIN store /\ store[ref.revision].tab = ref.tab

\* The first reference from i on that is in the store; the others are invalid.
NextKnown(refs, i) == Min({k \in i .. Len(refs) : Known(refs[k])} \cup {Len(refs) + 1})

\* The call once it has dealt with the references before the i-th.
Proceed(call, i, valid) ==
  LET next == NextKnown(call.refs, i)
  IN IF next <= Len(call.refs)
     THEN [call EXCEPT !.next = next, !.valid = valid, !.seen = None]
     ELSE [op |-> "answer", of |-> call, code |-> "ok", result |-> valid]

Validate(c) ==
  \E refs \in {refs \in [1 .. 2 -> [tab : Tabs, revision : DOMAIN truth]] :
                 refs[1].tab # refs[2].tab} \cup [1 .. 1 -> [tab : Tabs, revision : DOMAIN truth]] :
    Start(c, Proceed([op |-> "validate", refs |-> refs, next |-> 1, valid |-> {}, seen |-> None], 1, {}))

\* The probe runs in the page ...
ProbeReference(c) ==
  LET call == calls[c]
      t    == call.refs[call.next].tab
  IN /\ call.op = "validate" /\ call.seen = None
     /\ calls' = [calls EXCEPT ![c] =
          IF Scriptable(t) THEN [call EXCEPT !.seen = Identity(t, page[t])]
          ELSE Proceed(call, call.next + 1, call.valid)]
     /\ UNCHANGED <<world, events, storage, stops, requests>>

\* ContentRevisionStore.isValid.  The variants only ask whether the revision is
\* there, or compare with what was there before the probe.
IsThere(revision, identity) == revision \in DOMAIN store
WasThere(revision, identity) == Identity(truth[revision].tab, truth[revision].page) = identity
IsValid(revision, identity) == revision \in DOMAIN store /\ store[revision] = identity

\* ... and its result reaches the worker, where the store may have changed.
JudgeReference(c) ==
  LET call == calls[c]
      ref  == call.refs[call.next]
  IN /\ call.op = "validate" /\ call.seen # None
     /\ calls' = [calls EXCEPT ![c] =
          Proceed(call, call.next + 1,
                  IF IsValid(ref.revision, call.seen)
                  THEN call.valid \cup {[ref |-> ref, seen |-> call.seen, kept |-> ref.revision \notin revoked]}
                  ELSE call.valid)]
     /\ UNCHANGED <<world, events, storage, stops, requests>>

\* The client has its answer, and may ask again.
Done(c) ==
  /\ calls[c].op = "answer"
  /\ calls' = [calls EXCEPT ![c] = NoCall]
  /\ UNCHANGED <<world, events, storage, stops, requests>>

Next ==
  \/ \E t \in Tabs : Navigate(t) \/ PushState(t) \/ CloseTab(t) \/ Invalidate(t)
  \/ Stored \/ Load \/ StopWorker
  \/ \E c \in Clients :
       Request(c) \/ Text(c) \/ Validate(c) \/ ProbeReference(c) \/ JudgeReference(c) \/ Done(c)

Spec == Init /\ [][Next]_vars

-----------------------------------------------------------------------------
Stages == {"access", "capture", "digest", "probe", "latest", "done"}

\* The store, its copy and the writes between them hold identities of pages
\* that revisions were handed out for, and a request never gets ahead of what
\* it awaits: what is validated has been captured.
TypeOK ==
  /\ \A t \in Tabs : page[t] = None \/ page[t].url \in Urls
  /\ events \in [Tabs -> Nat]
  /\ \A held \in {disk} \cup ToSet(writes) \cup ({store} \ {None}) :
       /\ DOMAIN held \subseteq DOMAIN truth
       /\ \A r \in DOMAIN held : held[r] = Identity(truth[r].tab, truth[r].page)
  /\ \A c \in Clients : calls[c].op \in {"get", "compare", "diff"} =>
       \A k \in DOMAIN calls[c].at :
         /\ calls[c].at[k] \in Stages
         /\ calls[c].at[k] \in {"digest", "probe", "latest", "done"} => calls[c].got[k] # None

Answered(c, op) == calls[c].op = "answer" /\ calls[c].code = "ok" /\ calls[c].of.op = op

\* Whatever pages come and go between the awaits, the text that is returned was
\* shown at the address that is returned with it, and the two texts that are
\* compared belong to documents that were open at the same moment
\* (validateCapturedPage, after Promise.all has captured both).
OfOneMoment ==
  \A c \in Clients : \E shown \in history :
    /\ Answered(c, "get") => shown[calls[c].of.tabs[1]] = calls[c].of.got[1]
    /\ Answered(c, "compare") \/ Answered(c, "diff") =>
         \A k \in 1 .. 2 : LET t == calls[c].of.tabs[k] IN
           shown[t] # None /\ shown[t].doc = calls[c].of.got[k].doc

\* A revision that is found valid is that of the document and the address its
\* tab shows while it is validated, even if the event that should have revoked
\* it came before it was issued, or its removal was lost with the worker
\* (validateCurrentContentRevisions).
ValidMeansSamePage ==
  \A c \in Clients : Answered(c, "validate") => \A v \in calls[c].result :
    LET was == truth[v.ref.revision] IN
      /\ v.seen = Identity(v.ref.tab, was.page)
      /\ was.tab = v.ref.tab

\* A revision that an event has revoked is not found valid any more, not even
\* when the event comes while its page is being probed and the page has come
\* back to the address it had (isValid after the await, not before).
RevokedIsInvalid ==
  \A c \in Clients : Answered(c, "validate") => \A v \in calls[c].result : v.kept

\* A difference that is not said to be incomplete turns the text of the first
\* tab into that of the second; one that is said to be minimal has no more
\* changes than the longest common subsequence of lines makes necessary, whatever
\* the common beginning and end leave to createMinimalChanges; and none exceeds
\* its limits (createLineDiff and diffTabContent).
DiffIsRight ==
  \A c \in Clients : Answered(c, "diff") =>
    LET diff == calls[c].result.diff
        got  == calls[c].of.got
        lines(k) == SplitLines(Clip(got[k].text))
    IN /\ Characters(diff.changes) <= calls[c].of.limit /\ Len(diff.changes) <= MaxEntries
       /\ ~calls[c].result.cut /\ ~diff.truncated =>
            Explains(diff.changes, SplitLines(got[1].text), SplitLines(got[2].text))
       /\ diff.minimal =>
            diff.count = Len(lines(1)) + Len(lines(2)) - 2 * MostInCommon(lines(1), lines(2))
=============================================================================
