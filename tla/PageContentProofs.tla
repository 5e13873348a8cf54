------------------------- MODULE PageContentProofs -------------------------
(***************************************************************************)
(* What holds of PageContent for any number of clients, tabs, addresses    *)
(* and texts, however often pages change and the worker stops: what is     *)
(* answered was true at some moment, no revision is found valid that is    *)
(* not, and the line difference of any two texts is right: that one comes  *)
(* last, after what it needs of the table of createMinimalChanges.         *)
(***************************************************************************)
EXTENDS PageContent, CommonLemmas

-----------------------------------------------------------------------------
(* The inductive invariant.                                                *)

\* A document of a tab never comes back once another has taken its place.
PageInv ==
  /\ page \in [Tabs -> Pages \cup {None}]
  /\ page \in history
  /\ events \in [Tabs -> Nat]

\* The revisions handed out are numbered.
TruthInv ==
  /\ \E n \in Nat : DOMAIN truth = 1 .. n
  /\ DOMAIN truth \subseteq Revisions
  /\ \A r \in DOMAIN truth : truth[r].tab \in Tabs /\ truth[r].page \in Pages

\* What a store may hold: some of the revisions, each with the identity of its page.
Held(held) ==
  /\ held = [r \in DOMAIN held |-> Identity(truth[r].tab, truth[r].page)]
  /\ DOMAIN held \subseteq DOMAIN truth

\* What an event has removed from the store is not in it again, and when the worker
\* has stopped, the store that it will read is on the disk.
StoreInv ==
  /\ Held(disk)
  /\ store # None => Held(store) /\ DOMAIN store \cap revoked = {}
  /\ writes \in Seq({held \in UNION {[S -> Identities] : S \in SUBSET Revisions} : Held(held)})
  /\ revoked \subseteq DOMAIN truth
  /\ store = None => /\ writes = <<>> /\ DOMAIN disk \cap revoked = {}
                     /\ \A c \in Clients : calls[c] = NoCall

-----------------------------------------------------------------------------
(* The requests. *)

GetCalls == [op : {"get"}, tabs : [1 .. 1 -> Tabs], limit : {0},
             at : [1 .. 1 -> Stages], got : [1 .. 1 -> Pages \cup {None}]]
PairCalls == [op : {"compare", "diff"}, tabs : [1 .. 2 -> Tabs], limit : DiffLimits \cup {0},
              at : [1 .. 2 -> Stages], got : [1 .. 2 -> Pages \cup {None}]]

\* What a request has read was there, and what it has read of two tabs was there together.
Shown(call) == \E shown \in history : shown[call.tabs[1]] = call.got[1]
Together(call) ==
  \E shown \in history : \A k \in 1 .. 2 :
    shown[call.tabs[k]] # None /\ shown[call.tabs[k]].doc = call.got[k].doc

\* Whether a pair was there together is a matter of what was read, not of how far the request is.
LEMMA TogetherAsRead ==
  ASSUME NEW one, NEW other, one.tabs = other.tabs, one.got = other.got
  PROVE  Together(one) => Together(other)
BY DEF Together

\* A page whose address is replaced is the same document still.
LEMMA OtherAddress ==
  ASSUME NEW got \in Pages, NEW url \in Urls
  PROVE  /\ [got EXCEPT !.url = url] \in Pages
         /\ [got EXCEPT !.url = url].doc = got.doc
BY DEF Pages

\* The tab does not show an older document than the one read, or a later one.
NotBefore(t, got) == page[t] = None \/ page[t].doc >= got.doc
Past(t, got) == page[t] = None \/ page[t].doc > got.doc

Captured(call) == \A k \in 1 .. 2 : call.at[k] \in {"probe", "latest", "done"}

GetOK(call) ==
  /\ call \in GetCalls
  /\ call.at[1] \notin {"access", "capture"} =>
       call.at[1] # "digest" /\ call.got[1] \in Pages /\ Shown(call)

\* When both tabs have been read, either their documents were open together then, or
\* one of them was not open any more, and its probe will find that out.
PairOK(call) ==
  /\ call \in PairCalls
  /\ \A k \in 1 .. 2 :
       /\ call.at[k] \notin {"access", "capture"} =>
            call.got[k] \in Pages /\ NotBefore(call.tabs[k], call.got[k])
       /\ call.at[k] \in {"latest", "done"} => Captured(call)
  /\ Captured(call) =>
       \/ Together(call)
       \/ \E k \in 1 .. 2 : call.at[k] = "probe" /\ Past(call.tabs[k], call.got[k])

\* A reference rightly found valid.
Right(v) ==
  /\ v.ref.revision \in DOMAIN truth
  /\ v.seen = Identity(v.ref.tab, truth[v.ref.revision].page)
  /\ truth[v.ref.revision].tab = v.ref.tab
  /\ v.kept

ValidateOK(call) ==
  /\ call = [op |-> "validate", refs |-> call.refs, next |-> call.next,
             valid |-> call.valid, seen |-> call.seen]
  /\ call.seen # None => call.seen.tab = call.refs[call.next].tab
  /\ \A v \in call.valid : Right(v)

\* The difference that is answered is that of what was read and clipped.
DifferenceOf(call, limit, got) ==
  /\ limit \in DiffLimits \cup {0} /\ \A k \in 1 .. 2 : got[k] \in Pages
  /\ call.result.diff = CreateLineDiff(Clip(got[1].text), Clip(got[2].text), limit)
  /\ call.result.cut = (\E k \in 1 .. 2 : got[k].text # Clip(got[k].text))

AnswerOK(call) ==
  /\ call.op = "answer"
  /\ call.code = "ok" =>
       /\ call.of.op = "get" => Shown(call.of)
       /\ call.of.op \in {"compare", "diff"} => Together(call.of)
       /\ call.of.op = "diff" => DifferenceOf(call, call.of.limit, call.of.got)
       /\ call.of.op = "validate" => \A v \in call.result : Right(v)

CallOK(call) ==
  \/ call = NoCall
  \/ GetOK(call) \/ PairOK(call) \/ ValidateOK(call) \/ AnswerOK(call)

CallInv ==
  /\ calls = [c \in Clients |-> calls[c]]
  /\ \A c \in Clients : CallOK(calls[c])

IInv == PageInv /\ TruthInv /\ StoreInv /\ CallInv

-----------------------------------------------------------------------------
(* What most steps have in common.                                         *)

\* What was there stays in the history, and documents do not come back.
Onward ==
  /\ history \subseteq history'
  /\ \A t \in Tabs : \/ page'[t] = None
                     \/ page[t] # None /\ page'[t].doc >= page[t].doc
  /\ \A r \in DOMAIN truth : r \in DOMAIN truth' /\ truth'[r] = truth[r]

\* What a request knows stays true, whatever the others do.
LEMMA CallKept ==
  ASSUME NEW call, CallOK(call), Onward, PageInv, PageInv'
  PROVE  CallOK(call)'
<1>1. ASSUME NEW any, Shown(any) PROVE Shown(any)'
  BY <1>1 DEF Shown, Onward
<1>2. ASSUME NEW any, Together(any) PROVE Together(any)'
  BY <1>2 DEF Together, Onward
<1>3. ASSUME NEW v, Right(v) PROVE Right(v)'
  BY <1>3 DEF Right, Onward
<1>4. CASE call = NoCall
  BY <1>4 DEF CallOK, NoCall
<1>5. CASE GetOK(call)
  BY <1>1, <1>5 DEF CallOK, GetOK
<1>6. CASE PairOK(call)
  <2>1. call \in PairCalls /\ \A k \in 1 .. 2 : call.tabs[k] \in Tabs
    BY <1>6 DEF PairOK, PairCalls
  <2>2. ASSUME NEW k \in 1 .. 2, call.got[k] \in Pages, NotBefore(call.tabs[k], call.got[k])
        PROVE  NotBefore(call.tabs[k], call.got[k])'
    BY <2>1, <2>2 DEF NotBefore, Onward, PageInv, Pages
  <2>3. ASSUME NEW k \in 1 .. 2, call.got[k] \in Pages, Past(call.tabs[k], call.got[k])
        PROVE  Past(call.tabs[k], call.got[k])'
    BY <2>1, <2>3 DEF Past, Onward, PageInv, Pages
  <2>4. PairOK(call)'
    BY <1>2, <1>6, <2>2, <2>3 DEF PairOK, Captured
  <2> QED BY <2>4 DEF CallOK
<1>7. CASE ValidateOK(call)
  BY <1>3, <1>7 DEF CallOK, ValidateOK
<1>8. CASE AnswerOK(call)
  BY <1>1, <1>2, <1>3, <1>8 DEF CallOK, AnswerOK
<1> QED BY <1>4, <1>5, <1>6, <1>7, <1>8 DEF CallOK

\* A step of no client, and a step of one.
LEMMA NoCallMoves ==
  ASSUME CallInv, Onward, PageInv, PageInv', UNCHANGED calls
  PROVE  CallInv'
<1>1. \A c \in Clients : CallOK(calls[c])'
  BY CallKept DEF CallInv
<1> QED BY <1>1 DEF CallInv

\* A step that moves one call, to a state that is all right, keeps what holds of the calls.
LEMMA OneCallMoves ==
  ASSUME CallInv, Onward, PageInv, PageInv', NEW c \in Clients, NEW next, CallOK(next)',
         calls' = [calls EXCEPT ![c] = next]
  PROVE  CallInv'
<1>1. calls' = [x \in Clients |-> IF x = c THEN next ELSE calls[x]]
  BY DEF CallInv
<1>2. ASSUME NEW x \in Clients PROVE CallOK(calls[x])'
  <2>1. CASE x = c
    BY <1>1, <2>1
  <2>2. CASE x # c
    BY <1>1, <2>2, CallKept DEF CallInv
  <2> QED BY <2>1, <2>2
<1> QED BY <1>1, <1>2 DEF CallInv

\* A step that changes nothing but the requests.
LEMMA RestKept ==
  ASSUME IInv, UNCHANGED <<world, events, storage>>
  PROVE  PageInv' /\ TruthInv' /\ Onward /\ (store # None => StoreInv')
<1>1. PageInv'
  BY DEF IInv, PageInv, world
<1>2. TruthInv'
  BY DEF IInv, TruthInv, storage
<1>3. Onward
  BY DEF IInv, Onward, PageInv, Pages, world, storage
<1>4. ASSUME store # None PROVE StoreInv'
  BY <1>4 DEF IInv, StoreInv, Held, storage
<1> QED BY <1>1, <1>2, <1>3, <1>4

\* What a store may hold is not None.
LEMMA HeldIsStore ==
  ASSUME TruthInv, NEW held, Held(held)
  PROVE  held # None /\ held \in UNION {[S -> Identities] : S \in SUBSET Revisions}
<1>1. DOMAIN held \in SUBSET Revisions
  BY DEF Held, TruthInv
<1>2. \A r \in DOMAIN held : Identity(truth[r].tab, truth[r].page) \in Identities
  BY DEF Held, TruthInv, Identity, Identities, Pages
<1>3. held \in [DOMAIN held -> Identities]
  BY <1>2 DEF Held
<1> QED BY <1>1, <1>3, NoneAssumption

-----------------------------------------------------------------------------
(* Chrome and its user. *)

\* A tab shows another page, or none.
LEMMA ShowInv ==
  ASSUME IInv, NEW t \in Tabs, NEW shown \in Pages \cup {None}, Show(t, shown),
         page[t] # None, shown # None => shown.doc >= page[t].doc
  PROVE  IInv'
<1>1. page' = [page EXCEPT ![t] = shown] /\ history' = history \cup {page'}
      /\ events' = [events EXCEPT ![t] = @ + 1] /\ UNCHANGED <<storage, calls>>
  BY DEF Show
<1>2. PageInv'
  BY <1>1 DEF IInv, PageInv
<1>3. TruthInv'
  BY <1>1 DEF IInv, TruthInv, storage
<1>4. StoreInv'
  BY <1>1 DEF IInv, StoreInv, Held, storage
<1>5. Onward
  BY <1>1 DEF IInv, Onward, PageInv, Pages, storage
<1>6. CallInv'
  BY <1>1, <1>2, <1>5, NoCallMoves DEF IInv
<1> QED BY <1>2, <1>3, <1>4, <1>6 DEF IInv

\* Navigation, a change of the address or of the text, the end of a tab.
LEMMA ChromeInv ==
  ASSUME IInv, NEW t \in Tabs, Navigate(t) \/ PushState(t) \/ CloseTab(t)
  PROVE  IInv'
<1>1. page[t] # None /\ page[t] \in Pages
  BY DEF IInv, PageInv, Navigate, PushState, CloseTab
<1>2. ASSUME NEW url \in Urls, NEW text \in Texts, NEW doc \in {page[t].doc, page[t].doc + 1},
             Show(t, [url |-> url, doc |-> doc, text |-> text])
      PROVE  IInv'
  <2>1. [url |-> url, doc |-> doc, text |-> text] \in Pages /\ doc >= page[t].doc
    <3>1. text \in PageTexts
      BY DEF PageTexts
    <3> QED BY <1>1, <3>1 DEF Pages
  <2> QED BY <1>1, <1>2, <2>1, ShowInv
<1>3. CASE Navigate(t)
  BY <1>2, <1>3 DEF Navigate
<1>4. CASE PushState(t)
  BY <1>2, <1>4 DEF PushState
<1>5. CASE CloseTab(t)
  BY <1>1, <1>5, ShowInv DEF CloseTab
<1> QED BY <1>3, <1>4, <1>5

-----------------------------------------------------------------------------
(* The store and its copy. *)

\* A write of the revisions is carried out.
LEMMA StoredInv ==
  ASSUME IInv, Stored
  PROVE  IInv'
<1>1. /\ writes # <<>> /\ disk' = Head(writes) /\ writes' = Tail(writes)
      /\ UNCHANGED <<world, events, store, calls, truth, revoked>>
  BY DEF Stored
<1>2. PageInv' /\ TruthInv'
  BY <1>1 DEF IInv, PageInv, TruthInv, world
<1>3. StoreInv'
  <2> DEFINE stores == {held \in UNION {[S -> Identities] : S \in SUBSET Revisions} : Held(held)}
  <2>1. writes \in Seq(stores)
    BY DEF IInv, StoreInv
  <2>2. disk' \in stores /\ writes' \in Seq(stores)
    BY <1>1, <2>1
  <2>3. \A held : Held(held)' <=> Held(held)
    BY <1>1 DEF Held
  <2>4. store # None
    BY <1>1 DEF IInv, StoreInv
  <2> QED BY <1>1, <2>2, <2>3, <2>4 DEF IInv, StoreInv
<1>4. CallInv'
  BY <1>1, <1>2, NoCallMoves DEF IInv, Onward, PageInv, Pages, world
<1> QED BY <1>2, <1>3, <1>4 DEF IInv

\* A worker that begins reads what the storage holds.
LEMMA LoadInv ==
  ASSUME IInv, Load
  PROVE  IInv'
<1>1. store = None /\ store' = disk /\ UNCHANGED <<world, events, writes, disk, calls, truth, revoked>>
  BY DEF Load
<1>2. PageInv' /\ TruthInv'
  BY <1>1 DEF IInv, PageInv, TruthInv, world
<1>3. StoreInv'
  BY <1>1, HeldIsStore DEF IInv, StoreInv, Held
<1>4. CallInv'
  BY <1>1, <1>2, NoCallMoves DEF IInv, Onward, PageInv, Pages, world
<1> QED BY <1>2, <1>3, <1>4 DEF IInv

\* What an event removes was in the store, so that it is not any more.
LEMMA InvalidateInv ==
  ASSUME IInv, NEW t \in Tabs, Invalidate(t)
  PROVE  IInv'
<1> DEFINE gone == {r \in DOMAIN store : store[r].tab = t}
<1>1. /\ events[t] > 0 /\ store # None /\ events' = [events EXCEPT ![t] = @ - 1]
      /\ store' = [r \in DOMAIN store \ gone |-> store[r]]
      /\ IF gone # {} THEN writes' = Append(writes, store') ELSE UNCHANGED writes
      /\ revoked' = revoked \cup gone
      /\ UNCHANGED <<world, disk, calls, truth>>
  BY DEF Invalidate, Persist
<1>2. PageInv' /\ TruthInv'
  <2>1. events' \in [Tabs -> Nat]
    <3>1. events \in [Tabs -> Nat] /\ events[t] \in Nat /\ events[t] > 0 /\ events[t] - 1 \in Nat
      BY <1>1 DEF IInv, PageInv
    <3> QED BY <1>1, <3>1
  <2>2. page' = page /\ history' = history /\ truth' = truth
    BY <1>1 DEF world
  <2> QED BY <2>1, <2>2 DEF IInv, PageInv, TruthInv
<1>3. StoreInv'
  <2> DEFINE stores == {held \in UNION {[S -> Identities] : S \in SUBSET Revisions} : Held(held)}
  <2>1. Held(store) /\ DOMAIN store \cap revoked = {} /\ writes \in Seq(stores)
    BY <1>1 DEF IInv, StoreInv
  <2>2. Held(store')
    BY <1>1, <2>1 DEF Held
  <2>3. store' # None /\ store' \in stores
    BY <2>2, HeldIsStore DEF IInv
  <2>4. \A held : Held(held)' <=> Held(held)
    BY <1>1 DEF Held
  <2>5. writes' \in Seq(stores)
    BY <1>1, <2>1, <2>3
  <2>6. Held(store)'
    BY <1>1, <2>2 DEF Held
  <2>7. revoked' \subseteq DOMAIN truth /\ DOMAIN store' \cap revoked' = {}
    BY <1>1, <2>1 DEF IInv, StoreInv, Held
  <2> QED BY <1>1, <2>3, <2>4, <2>5, <2>6, <2>7 DEF IInv, StoreInv
<1>4. CallInv'
  BY <1>1, <1>2, NoCallMoves DEF IInv, Onward, PageInv, Pages, world
<1> QED BY <1>2, <1>3, <1>4 DEF IInv

\* Chrome stops the worker: the calls end, and some of the last writes are lost.
LEMMA StopWorkerInv ==
  ASSUME IInv, StopWorker
  PROVE  IInv'
<1>1. PICK n \in 0 .. Len(writes) : disk' = IF n = 0 THEN disk ELSE writes[n]
  BY DEF StopWorker
<1>2. /\ store # None /\ store' = None /\ writes' = <<>> /\ calls' = [c \in Clients |-> NoCall]
      /\ revoked' = revoked \ DOMAIN disk' /\ UNCHANGED <<world, events, truth>>
  BY DEF StopWorker
<1>3. PageInv' /\ TruthInv'
  BY <1>2 DEF IInv, PageInv, TruthInv, world
<1>4. StoreInv'
  <2>1. Held(disk')
    BY <1>1 DEF IInv, StoreInv
  <2>2. Held(disk)'
    BY <1>2, <2>1 DEF Held
  <2> QED BY <1>2, <2>2 DEF IInv, StoreInv
<1>5. CallInv'
  BY <1>2 DEF CallInv, CallOK
<1> QED BY <1>3, <1>4, <1>5 DEF IInv

-----------------------------------------------------------------------------
(* Requests for text. *)

\* A step of one call that touches neither pages nor revisions.
LEMMA RequestMoves ==
  ASSUME IInv, NEW c \in Clients, NEW next, CallOK(next), store # None,
         calls' = [calls EXCEPT ![c] = next], UNCHANGED <<world, events, storage>>
  PROVE  IInv'
<1>1. PageInv' /\ TruthInv' /\ Onward /\ StoreInv'
  BY RestKept
<1>2. CallOK(next)'
  BY <1>1, CallKept DEF IInv
<1>3. CallInv'
  BY <1>1, <1>2, OneCallMoves DEF IInv
<1> QED BY <1>1, <1>3 DEF IInv

\* A request arrives.
LEMMA RequestInv ==
  ASSUME IInv, NEW c \in Clients, Request(c)
  PROVE  IInv'
<1>1. ASSUME NEW call, CallOK(call), Start(c, call) PROVE IInv'
  BY <1>1, RequestMoves DEF Start
<1>2. ASSUME NEW t \in Tabs PROVE CallOK(TextCall("get", <<t>>, 0))
  <2>1. TextCall("get", <<t>>, 0) \in GetCalls
    BY DEF TextCall, GetCalls, Stages
  <2>2. TextCall("get", <<t>>, 0).at[1] = "access"
    BY DEF TextCall
  <2> QED BY <2>1, <2>2 DEF CallOK, GetOK
<1>3. ASSUME NEW pair \in Pairs, NEW op \in {"compare", "diff"}, NEW limit \in DiffLimits \cup {0}
      PROVE  CallOK(TextCall(op, pair, limit))
  <2>1. pair \in [1 .. 2 -> Tabs] /\ DOMAIN pair = 1 .. 2
    BY DEF Pairs
  <2>2. TextCall(op, pair, limit) \in PairCalls
    BY <2>1 DEF TextCall, PairCalls, Stages
  <2>3. \A k \in 1 .. 2 : TextCall(op, pair, limit).at[k] = "access"
    BY <2>1 DEF TextCall
  <2> QED BY <2>2, <2>3 DEF CallOK, PairOK, Captured
<1>4. CASE \E t \in Tabs : Start(c, TextCall("get", <<t>>, 0))
  BY <1>1, <1>2, <1>4
<1>5. CASE \E pair \in Pairs : Start(c, TextCall("compare", pair, 0))
  BY <1>1, <1>3, <1>5
<1>6. CASE \E pair \in Pairs, limit \in DiffLimits : Start(c, TextCall("diff", pair, limit))
  BY <1>1, <1>3, <1>6
<1> QED BY <1>4, <1>5, <1>6 DEF Request

\* A request that is refused says nothing.
LEMMA RefusedInv ==
  ASSUME IInv, NEW c \in Clients, calls[c] # NoCall, NEW code, code # "ok", Fail(c, code),
         UNCHANGED <<world, events>>
  PROVE  IInv'
<1> DEFINE next == [op |-> "answer", of |-> calls[c], code |-> code, result |-> None]
<1>1. AnswerOK(next)
  BY DEF AnswerOK
<1>2. store # None
  BY DEF IInv, StoreInv
<1>3. calls' = [calls EXCEPT ![c] = next] /\ UNCHANGED storage
  BY DEF Fail, Answer
<1> HIDE DEF next
<1> QED BY <1>1, <1>2, <1>3, RequestMoves DEF CallOK

\* What a request for text has in hand is well formed.
LEMMA TextCallOK ==
  ASSUME CallInv, NEW c \in Clients, calls[c].op \in {"get", "compare", "diff"}
  PROVE  /\ calls[c] # NoCall
         /\ calls[c].op = "get" => GetOK(calls[c])
         /\ calls[c].op # "get" => PairOK(calls[c])
<1>1. CallOK(calls[c])
  BY DEF CallInv
<1>2. calls[c] # NoCall
  BY DEF NoCall
<1>3. ~ValidateOK(calls[c]) /\ ~AnswerOK(calls[c])
  BY DEF ValidateOK, AnswerOK
<1>4. GetOK(calls[c]) => calls[c].op = "get"
  BY DEF GetOK, GetCalls
<1>5. PairOK(calls[c]) => calls[c].op \in {"compare", "diff"}
  BY DEF PairOK, PairCalls
<1> QED BY <1>1, <1>2, <1>3, <1>4, <1>5 DEF CallOK

\* What is delivered for a get was shown at the address delivered with it.
LEMMA DeliverGetInv ==
  ASSUME IInv, NEW c \in Clients, NEW call, call = calls[c], call.op = "get", call.at[1] = "latest",
         NEW revision, revision = NewRevision, Deliver(c), UNCHANGED <<world, events>>
  PROVE  IInv'
<1> DEFINE tab      == call.tabs[1]
           identity == Identity(tab, call.got[1])
           record   == [tab |-> tab, page |-> call.got[1]]
           text     == [text |-> Clip(call.got[1].text), revision |-> revision]
           next     == [op |-> "answer", of |-> call, code |-> "ok", result |-> text]
<1>1. /\ revision \in Revisions
      /\ calls' = [calls EXCEPT ![c] = next]
      /\ store' = With(store, revision, identity) /\ writes' = Append(writes, store')
      /\ UNCHANGED <<disk, revoked>>
      /\ truth' = With(truth, revision, record)
  BY DEF Deliver, Issue, Answer, Persist
<1>2. call # NoCall /\ GetOK(call)
  BY TextCallOK DEF IInv
<1>3. tab \in Tabs /\ call.got[1] \in Pages /\ Shown(call)
  BY <1>2 DEF GetOK, GetCalls
<1>4. store # None
  BY <1>2 DEF IInv, StoreInv
<1>5. PICK n \in Nat : DOMAIN truth = 1 .. n
  BY DEF IInv, TruthInv
<1>6. revision = n + 1 /\ revision \notin DOMAIN truth
  <2>1. Cardinality(1 .. n) = n
    BY <1>5, FS_Interval
  <2> QED BY <1>5, <2>1 DEF NewRevision
<1> HIDE DEF next, identity, record
<1>7. PageInv'
  BY DEF IInv, PageInv, world
<1>8. /\ DOMAIN truth' = DOMAIN truth \cup {revision} /\ truth'[revision] = record
      /\ \A r \in DOMAIN truth : truth'[r] = truth[r]
  BY <1>1, <1>6 DEF With
<1>9. TruthInv'
  <2>1. DOMAIN truth' = 1 .. (n + 1)
    BY <1>5, <1>6, <1>8
  <2>2. \E m \in Nat : DOMAIN truth' = 1 .. m
    BY <2>1
  <2>3. ASSUME NEW r \in DOMAIN truth' PROVE truth'[r].tab \in Tabs /\ truth'[r].page \in Pages
    BY <1>3, <1>8, <2>3 DEF IInv, TruthInv, record
  <2>4. DOMAIN truth' \subseteq Revisions
    BY <1>1, <1>8 DEF IInv, TruthInv
  <2> QED BY <2>2, <2>3, <2>4 DEF TruthInv
<1>10. Onward
  BY <1>8 DEF IInv, Onward, PageInv, Pages, world
<1>11. ASSUME NEW held, Held(held) PROVE Held(held)'
  BY <1>8, <1>11 DEF Held
<1>12. StoreInv'
  <2> DEFINE stores == {held \in UNION {[S -> Identities] : S \in SUBSET Revisions} : Held(held)}
  <2>1. Held(store) /\ DOMAIN store \cap revoked = {} /\ writes \in Seq(stores)
    BY <1>4 DEF IInv, StoreInv
  <2>2. Held(store)'
    <3>1. store' = [r \in DOMAIN store \cup {revision} |-> IF r = revision THEN identity ELSE store[r]]
      BY <1>1 DEF With
    <3>2. identity = Identity(truth'[revision].tab, truth'[revision].page)
      BY <1>8 DEF record, identity
    <3>3. \A r \in DOMAIN store : r # revision /\ store[r] = Identity(truth'[r].tab, truth'[r].page)
      BY <1>6, <1>8, <2>1 DEF Held
    <3> QED BY <1>8, <2>1, <3>1, <3>2, <3>3 DEF Held
  <2>3. ASSUME NEW held, Held(held)'
        PROVE  held # None /\ held \in UNION {[S -> Identities] : S \in SUBSET Revisions}
    <3>1. DOMAIN held \in SUBSET Revisions
      BY <1>9, <2>3 DEF Held, TruthInv
    <3>2. \A r \in DOMAIN held : Identity(truth'[r].tab, truth'[r].page) \in Identities
      BY <1>9, <2>3 DEF Held, TruthInv, Identity, Identities, Pages
    <3>3. held \in [DOMAIN held -> Identities]
      BY <2>3, <3>2 DEF Held
    <3> QED BY <3>1, <3>3, NoneAssumption
  <2> DEFINE after == {held \in UNION {[S -> Identities] : S \in SUBSET Revisions} : Held(held)'}
  <2>4. store' # None /\ store' \in after
    BY <2>2, <2>3 DEF Held
  <2>5. writes \in Seq(after)
    <3>1. stores \subseteq after
      BY <1>11
    <3> HIDE DEF stores, after
    <3> QED BY <2>1, <3>1
  <2>6. writes' \in Seq(after)
    BY <1>1, <2>4, <2>5
  <2>7. Held(disk)'
    BY <1>1, <1>11 DEF IInv, StoreInv, Held
  <2>8. revoked' \subseteq DOMAIN truth' /\ DOMAIN store' \cap revoked' = {}
    BY <1>1, <1>6, <1>8, <2>1 DEF IInv, StoreInv, With
  <2> QED BY <2>2, <2>4, <2>6, <2>7, <2>8 DEF StoreInv
<1>13. CallInv'
  <2>1. AnswerOK(next)'
    <3>1. Shown(call)'
      BY <1>3, <1>10 DEF Shown, Onward
    <3>2. next.op = "answer" /\ next.of = call
      BY DEF next
    <3> QED BY <3>1, <3>2 DEF AnswerOK
  <2> QED BY <1>1, <1>7, <1>10, <2>1, OneCallMoves DEF IInv, CallOK
<1> QED BY <1>7, <1>9, <1>12, <1>13 DEF IInv

\* A get, at each of its awaits.
LEMMA GetTextInv ==
  ASSUME IInv, NEW c \in Clients, NEW call, call = calls[c], call.op = "get", Text(c)
  PROVE  IInv'
<1>1. call # NoCall /\ GetOK(call) /\ call \in GetCalls
  BY TextCallOK DEF IInv, GetOK
<1>2. store # None
  BY <1>1 DEF IInv, StoreInv
<1> DEFINE t == call.tabs[1]
<1>3. t \in Tabs /\ DOMAIN call.tabs = {1} /\ DOMAIN call.at = {1} /\ DOMAIN call.got = {1}
  BY <1>1 DEF GetCalls
<1>4. UNCHANGED <<world, events>>
  BY DEF Text
<1>5. \/ RequireAccessible(c, 1, t) \/ Capture(c, 1, t) \/ Digested(c, 1, t)
      \/ Probe(c, 1, t) \/ Latest(c, 1, t)
  BY <1>3 DEF Text
<1>6. ASSUME NEW code, code # "ok", Fail(c, code) PROVE IInv'
  BY <1>1, <1>4, <1>6, RefusedInv
<1>7. ASSUME NEW stage \in Stages, Go(c, 1, stage), stage \in {"access", "capture"} \/
               (call.at[1] \notin {"access", "capture"} /\ stage # "digest")
      PROVE  IInv'
  <2> DEFINE next == [call EXCEPT !.at = [call.at EXCEPT ![1] = stage]]
  <2>1. calls' = [calls EXCEPT ![c] = next] /\ UNCHANGED storage
    BY <1>7 DEF Go
  <2>2. next \in GetCalls /\ next.at[1] = stage /\ next.tabs = call.tabs /\ next.got = call.got
    BY <1>1, <1>3 DEF GetCalls
  <2>3. GetOK(next)
    BY <1>1, <1>7, <2>2 DEF GetOK, Shown
  <2> HIDE DEF next
  <2> QED BY <1>2, <1>4, <2>1, <2>3, RequestMoves DEF CallOK
<1>8. CASE RequireAccessible(c, 1, t)
  BY <1>6, <1>7, <1>8 DEF RequireAccessible, Stages
<1>9. CASE Capture(c, 1, t)
  <2>1. CASE ~Scriptable(t)
    BY <1>6, <1>9, <2>1 DEF Capture
  <2>2. CASE Scriptable(t)
    <3> DEFINE next == [call EXCEPT !.got = [call.got EXCEPT ![1] = page[t]],
                                    !.at = [call.at EXCEPT ![1] = "probe"]]
    <3>1. calls' = [calls EXCEPT ![c] = next] /\ UNCHANGED storage
      <4>1. calls' = [calls EXCEPT ![c].got[1] = page[t], ![c].at[1] = "probe"]
        BY <1>9, <2>2 DEF Capture
      <4>2. c \in DOMAIN calls /\ calls = [x \in DOMAIN calls |-> calls[x]]
        BY DEF IInv, CallInv
      <4>3. calls' = [calls EXCEPT ![c] = next]
        BY <4>1, <4>2, ZenonT(40)
      <4> QED BY <1>9, <2>2, <4>3 DEF Capture
    <3>2. page[t] \in Pages /\ page \in history
      BY <1>3, <2>2 DEF IInv, PageInv, Scriptable
    <3>3. /\ next \in GetCalls /\ next.at[1] = "probe" /\ next.tabs = call.tabs
          /\ next.got[1] = page[t]
      BY <1>1, <1>3, <3>2 DEF GetCalls, Stages
    <3>4. GetOK(next)
      BY <3>2, <3>3 DEF GetOK, Shown
    <3> HIDE DEF next
    <3> QED BY <1>2, <1>4, <3>1, <3>4, RequestMoves DEF CallOK
  <2> QED BY <2>1, <2>2
<1>10. CASE Digested(c, 1, t)
  BY <1>1, <1>10 DEF Digested, GetOK
<1>11. CASE Probe(c, 1, t)
  BY <1>6, <1>7, <1>11 DEF Probe, Stages
<1>12. CASE Latest(c, 1, t)
  <2>1. call.at[1] = "latest"
    BY <1>12 DEF Latest
  <2>2. Fail(c, "CONTENT_STALE") \/ Go(c, 1, "done") \/ Deliver(c)
    BY <1>12 DEF Latest
  <2> QED BY <1>4, <1>6, <1>7, <2>1, <2>2, DeliverGetInv DEF Stages
<1> QED BY <1>5, <1>8, <1>9, <1>10, <1>11, <1>12

\* A compare or diff, at each of its awaits: what makes the two texts belong together
\* is that no probe begins before both are read.
LEMMA PairTextInv ==
  ASSUME IInv, NEW c \in Clients, NEW call, call = calls[c], call.op \in {"compare", "diff"}, Text(c)
  PROVE  IInv'
<1>1. call # NoCall /\ PairOK(call) /\ call \in PairCalls
  BY TextCallOK DEF IInv, PairOK
<1>2. store # None
  BY <1>1 DEF IInv, StoreInv
<1>3. /\ DOMAIN call.tabs = 1 .. 2 /\ DOMAIN call.at = 1 .. 2 /\ DOMAIN call.got = 1 .. 2
      /\ \A k \in 1 .. 2 : call.tabs[k] \in Tabs
  BY <1>1 DEF PairCalls
<1>4. UNCHANGED <<world, events>>
  BY DEF Text
<1>5. PICK k \in 1 .. 2 :
        LET t == call.tabs[k] IN
          \/ RequireAccessible(c, k, t) \/ Capture(c, k, t) \/ Digested(c, k, t)
          \/ Probe(c, k, t) \/ Latest(c, k, t)
  BY <1>3 DEF Text
<1> DEFINE t == call.tabs[k]
<1>6. ASSUME NEW code, code # "ok", Fail(c, code) PROVE IInv'
  BY <1>1, <1>4, <1>6, RefusedInv
<1>7. ASSUME NEW next, PairOK(next), calls' = [calls EXCEPT ![c] = next], UNCHANGED storage
      PROVE  IInv'
  BY <1>2, <1>4, <1>7, RequestMoves DEF CallOK
<1>8. ASSUME NEW stage \in Stages, Go(c, k, stage),
             PairOK([call EXCEPT !.at = [call.at EXCEPT ![k] = stage]])
      PROVE  IInv'
  BY <1>7, <1>8 DEF Go
<1>9. ASSUME NEW stage \in Stages
      PROVE  LET next == [call EXCEPT !.at = [call.at EXCEPT ![k] = stage]] IN
               /\ next \in PairCalls /\ next.at = [call.at EXCEPT ![k] = stage]
               /\ next.tabs = call.tabs /\ next.got = call.got
  BY <1>1, <1>3 DEF PairCalls
<1>10. CASE RequireAccessible(c, k, t)
  <2> DEFINE next == [call EXCEPT !.at = [call.at EXCEPT ![k] = "capture"]]
  <2>1. call.at[k] = "access"
    BY <1>10 DEF RequireAccessible
  <2>2. PairOK(next)
    BY <1>1, <1>3, <1>9, <2>1 DEF PairOK, Captured, Stages
  <2> HIDE DEF next
  <2>3. Go(c, k, "capture") => IInv'
    BY <1>8, <2>2 DEF next, Stages
  <2> QED BY <1>6, <1>10, <2>3 DEF RequireAccessible
<1>11. CASE Capture(c, k, t)
  <2>1. CASE ~Scriptable(t)
    BY <1>6, <1>11, <2>1 DEF Capture
  <2>2. CASE Scriptable(t)
    <3> DEFINE next == [call EXCEPT !.got = [call.got EXCEPT ![k] = page[t]],
                                    !.at = [call.at EXCEPT ![k] = "digest"]]
    <3>1. calls' = [calls EXCEPT ![c] = next] /\ UNCHANGED storage /\ call.at[k] = "capture"
      <4>1. calls' = [calls EXCEPT ![c].got[k] = page[t], ![c].at[k] = "digest"]
        BY <1>11, <2>2 DEF Capture
      <4>2. c \in DOMAIN calls /\ calls = [x \in DOMAIN calls |-> calls[x]]
        BY DEF IInv, CallInv
      <4>3. calls' = [calls EXCEPT ![c] = next]
        BY <4>1, <4>2, ZenonT(40)
      <4> QED BY <1>11, <2>2, <4>3 DEF Capture
    <3>2. page[t] \in Pages
      BY <1>3, <2>2 DEF IInv, PageInv, Scriptable
    <3>3. /\ next \in PairCalls /\ next.at = [call.at EXCEPT ![k] = "digest"]
          /\ next.tabs = call.tabs /\ next.got = [call.got EXCEPT ![k] = page[t]]
      BY <1>1, <1>3, <3>2 DEF PairCalls, Stages
    <3>4. NotBefore(t, page[t])
      BY <3>2 DEF NotBefore, Pages
    <3> HIDE DEF next
    <3>5. PairOK(next)
      BY <1>1, <1>3, <3>1, <3>2, <3>3, <3>4 DEF PairOK, Captured
    <3> QED BY <1>7, <3>1, <3>5
  <2> QED BY <2>1, <2>2
<1>12. CASE Digested(c, k, t)
  <2>1. CASE page[t] = None \/ page[t].doc # call.got[k].doc
    BY <1>6, <1>12, <2>1 DEF Digested
  <2>2. CASE ~(page[t] = None \/ page[t].doc # call.got[k].doc)
    <3> DEFINE read == [call.got[k] EXCEPT !.url = page[t].url]
               next == [call EXCEPT !.got = [call.got EXCEPT ![k] = read],
                                    !.at = [call.at EXCEPT ![k] = "probe"]]
    <3>1. calls' = [calls EXCEPT ![c] = next] /\ UNCHANGED storage /\ call.at[k] = "digest"
      <4>1. calls' = [calls EXCEPT ![c].got[k] = read, ![c].at[k] = "probe"]
        BY <1>12, <2>2 DEF Digested
      <4>2. c \in DOMAIN calls /\ calls = [x \in DOMAIN calls |-> calls[x]]
        BY DEF IInv, CallInv
      <4>3. calls' = [calls EXCEPT ![c] = next]
        BY <4>1, <4>2, ZenonT(40)
      <4> QED BY <1>12, <2>2, <4>3 DEF Digested
    <3>2. page[t] \in Pages /\ call.got[k] \in Pages
      BY <1>1, <1>3, <2>2, <3>1 DEF IInv, PageInv, PairOK
    <3>3. read \in Pages /\ read.doc = call.got[k].doc /\ read.doc = page[t].doc
      <4>1. page[t].url \in Urls
        BY <3>2 DEF Pages
      <4>2. read \in Pages /\ read.doc = call.got[k].doc
        BY <3>2, <4>1, OtherAddress
      <4> QED BY <2>2, <4>2
    <3> HIDE DEF read
    <3>4. /\ next \in PairCalls /\ next.at = [call.at EXCEPT ![k] = "probe"]
          /\ next.tabs = call.tabs /\ next.got = [call.got EXCEPT ![k] = read]
      BY <1>1, <1>3, <3>3 DEF PairCalls, Stages
    <3> HIDE DEF next
    <3>5. \A j \in 1 .. 2 : call.at[j] \notin {"latest", "done"}
      BY <1>1, <3>1 DEF PairOK, Captured
    <3>6. ASSUME NEW j \in 1 .. 2, next.at[j] \notin {"access", "capture"}
          PROVE  next.got[j] \in Pages /\ NotBefore(next.tabs[j], next.got[j])
      <4>1. CASE j = k
        <5>1. next.got[j] = read /\ next.tabs[j] = t
          BY <1>3, <3>4, <4>1
        <5>2. NotBefore(t, read)
          BY <3>2, <3>3 DEF NotBefore, Pages
        <5> QED BY <3>3, <5>1, <5>2
      <4>2. CASE j # k
        BY <1>1, <1>3, <3>4, <3>6, <4>2 DEF PairOK, PairCalls
      <4> QED BY <4>1, <4>2
    <3>7. ASSUME Captured(next), \A j \in 1 .. 2 : next.at[j] = "probe" => ~Past(next.tabs[j], next.got[j])
          PROVE  Together(next)
      <4>1. \A j \in 1 .. 2 : next.at[j] = "probe"
        BY <1>3, <3>4, <3>5, <3>7 DEF Captured
      <4>2. ASSUME NEW j \in 1 .. 2 PROVE page[next.tabs[j]] # None /\ page[next.tabs[j]].doc = next.got[j].doc
        <5>1. ~Past(next.tabs[j], next.got[j]) /\ NotBefore(next.tabs[j], next.got[j])
          BY <3>6, <3>7, <4>1
        <5>2. next.tabs[j] \in Tabs /\ next.got[j] \in Pages
          BY <1>3, <3>4, <3>6, <4>1
        <5> QED BY <5>1, <5>2 DEF Past, NotBefore, IInv, PageInv, Pages
      <4>3. page \in history
        BY DEF IInv, PageInv
      <4> QED BY <4>2, <4>3 DEF Together
    <3>8. \A j \in 1 .. 2 : next.at[j] \notin {"latest", "done"}
      BY <1>3, <3>4, <3>5
    <3>9. PairOK(next)
      BY <3>4, <3>6, <3>7, <3>8 DEF PairOK
    <3> QED BY <1>7, <3>1, <3>9
  <2> QED BY <2>1, <2>2
<1>13. CASE Probe(c, k, t)
  <2>1. call.at[k] = "probe" /\ Captured(call)
    BY <1>1, <1>3, <1>13 DEF Probe, AllCaptured, Captured, PairCalls, Stages
  <2>2. CASE Scriptable(t) /\ Identity(t, page[t]) = Identity(t, call.got[k])
    <3> DEFINE next == [call EXCEPT !.at = [call.at EXCEPT ![k] = "latest"]]
    <3>1. page[t] # None /\ page[t].doc = call.got[k].doc /\ page[t].doc \in Nat
      BY <1>3, <2>2 DEF Scriptable, Identity, IInv, PageInv, Pages
    <3>2. ~Past(t, call.got[k])
      BY <3>1 DEF Past
    <3>3. /\ next \in PairCalls /\ next.at = [call.at EXCEPT ![k] = "latest"]
          /\ next.tabs = call.tabs /\ next.got = call.got
      BY <1>9 DEF Stages
    <3> HIDE DEF next
    <3>4. Captured(next) /\ Together(call) => Together(next)
      BY <3>3, TogetherAsRead
    <3>5. Captured(next)
      BY <1>3, <2>1, <3>3 DEF Captured
    <3>6. PairOK(next)
      BY <1>1, <1>3, <2>1, <3>2, <3>3, <3>4, <3>5 DEF PairOK
    <3>7. Go(c, k, "latest")
      BY <1>13, <2>2 DEF Probe
    <3> QED BY <1>8, <3>6, <3>7 DEF next, Stages
  <2>3. CASE ~(Scriptable(t) /\ Identity(t, page[t]) = Identity(t, call.got[k]))
    BY <1>6, <1>13, <2>3 DEF Probe
  <2> QED BY <2>2, <2>3
<1>14. CASE Latest(c, k, t)
  <2>1. call.at[k] = "latest" /\ Captured(call)
    BY <1>1, <1>14 DEF Latest, PairOK
  <2>2. CASE Fail(c, "CONTENT_STALE")
    BY <1>6, <2>2
  <2>3. CASE Go(c, k, "done")
    <3> DEFINE next == [call EXCEPT !.at = [call.at EXCEPT ![k] = "done"]]
    <3>1. /\ next \in PairCalls /\ next.at = [call.at EXCEPT ![k] = "done"]
          /\ next.tabs = call.tabs /\ next.got = call.got
      BY <1>9 DEF Stages
    <3> HIDE DEF next
    <3>2. Together(call) => Together(next)
      BY <3>1, TogetherAsRead
    <3>3. PairOK(next)
      BY <1>1, <1>3, <2>1, <3>1, <3>2 DEF PairOK, Captured
    <3> QED BY <1>8, <2>3, <3>3 DEF next, Stages
  <2>4. CASE (\A j \in 1 .. 2 \ {k} : call.at[j] = "done") /\ Deliver(c)
    <3>1. Together(call)
      BY <1>1, <2>1, <2>4 DEF PairOK
    <3>2. PICK result :
            /\ calls' = [calls EXCEPT ![c] = [op |-> "answer", of |-> call, code |-> "ok", result |-> result]]
            /\ call.op = "diff" =>
                 /\ result.diff = CreateLineDiff(Clip(call.got[1].text), Clip(call.got[2].text), call.limit)
                 /\ result.cut = (\E j \in 1 .. 2 : call.got[j].text # Clip(call.got[j].text))
      <4>1. CASE call.op = "compare"
        <5> DEFINE result == [match |-> call.got[1].text = call.got[2].text]
        <5>1. calls' = [calls EXCEPT ![c] = [op |-> "answer", of |-> call, code |-> "ok", result |-> result]]
          BY <2>4, <4>1 DEF Deliver, Answer
        <5> QED BY <4>1, <5>1, Zenon
      <4>2. CASE call.op = "diff"
        <5> DEFINE result == [match |-> call.got[1].text = call.got[2].text,
                              cut   |-> \E j \in 1 .. 2 : call.got[j].text # Clip(call.got[j].text),
                              diff  |-> CreateLineDiff(Clip(call.got[1].text), Clip(call.got[2].text), call.limit)]
        <5>1. calls' = [calls EXCEPT ![c] = [op |-> "answer", of |-> call, code |-> "ok", result |-> result]]
          BY <2>4, <4>2 DEF Deliver, Answer
        <5>2. /\ result.diff = CreateLineDiff(Clip(call.got[1].text), Clip(call.got[2].text), call.limit)
              /\ result.cut = (\E j \in 1 .. 2 : call.got[j].text # Clip(call.got[j].text))
          OBVIOUS
        <5> QED BY <5>1, <5>2, Zenon
      <4> QED BY <1>1, <4>1, <4>2 DEF PairCalls
    <3>3. UNCHANGED storage
      BY <2>4 DEF Deliver
    <3> DEFINE next == [op |-> "answer", of |-> call, code |-> "ok", result |-> result]
    <3>4. AnswerOK(next)
      <4>1. call.limit \in DiffLimits \cup {0} /\ \A j \in 1 .. 2 : call.got[j] \in Pages
        BY <1>1, <2>1 DEF PairOK, PairCalls, Captured
      <4>2. next.op = "answer" /\ next.of = call /\ next.code = "ok" /\ next.result = result
        OBVIOUS
      <4> HIDE DEF next
      <4>3. call.op = "diff" => DifferenceOf(next, call.limit, call.got)
        BY <3>2, <4>1, <4>2 DEF DifferenceOf
      <4> QED BY <1>1, <3>1, <4>2, <4>3 DEF AnswerOK
    <3> HIDE DEF next
    <3> QED BY <1>2, <1>4, <3>2, <3>3, <3>4, RequestMoves DEF CallOK, next
  <2> QED BY <1>3, <1>14, <2>2, <2>3, <2>4 DEF Latest
<1> QED BY <1>5, <1>10, <1>11, <1>12, <1>13, <1>14

-----------------------------------------------------------------------------
(* content_revisions_validate. *)

\* The call goes on with what it has rightly found valid, or answers with that.
LEMMA ProceedOK ==
  ASSUME NEW call, NEW i, NEW valid,
         call = [op |-> "validate", refs |-> call.refs, next |-> call.next,
                 valid |-> call.valid, seen |-> call.seen],
         \A v \in valid : Right(v)
  PROVE  CallOK(Proceed(call, i, valid))
<1> DEFINE next == NextKnown(call.refs, i)
           on   == [call EXCEPT !.next = next, !.valid = valid, !.seen = None]
           ans  == [op |-> "answer", of |-> call, code |-> "ok", result |-> valid]
<1>1. Proceed(call, i, valid) = on \/ Proceed(call, i, valid) = ans
  BY DEF Proceed
<1> HIDE DEF next
<1>2. on = [op |-> "validate", refs |-> call.refs, next |-> next, valid |-> valid, seen |-> None]
  <2>1. DOMAIN call = {"op", "refs", "next", "valid", "seen"} /\ call = [f \in DOMAIN call |-> call[f]]
    OBVIOUS
  <2>2. DOMAIN on = {"op", "refs", "next", "valid", "seen"} /\ on = [f \in DOMAIN on |-> on[f]]
    BY <2>1
  <2>3. on.op = "validate" /\ on.refs = call.refs /\ on.next = next /\ on.valid = valid /\ on.seen = None
    BY <2>1
  <2> HIDE DEF on
  <2> QED BY <2>2, <2>3
<1>3. ValidateOK(on)
  BY <1>2 DEF ValidateOK
<1>4. AnswerOK(ans)
  <2>1. ans.op = "answer" /\ ans.of.op = "validate" /\ ans.result = valid
    OBVIOUS
  <2> QED BY <2>1 DEF AnswerOK
<1> QED BY <1>1, <1>3, <1>4 DEF CallOK

\* What a validation has in hand is well formed.
LEMMA ValidateCallOK ==
  ASSUME CallInv, NEW c \in Clients, calls[c].op = "validate"
  PROVE  calls[c] # NoCall /\ ValidateOK(calls[c])
<1>1. CallOK(calls[c])
  BY DEF CallInv
<1>2. calls[c] # NoCall
  BY DEF NoCall
<1>3. ~AnswerOK(calls[c]) /\ ~GetOK(calls[c]) /\ ~PairOK(calls[c])
  BY DEF AnswerOK, GetOK, PairOK, GetCalls, PairCalls
<1> QED BY <1>1, <1>2, <1>3 DEF CallOK

\* A validation begins, or goes on with its next reference.
LEMMA ValidateInv ==
  ASSUME IInv, NEW c \in Clients, Validate(c)
  PROVE  IInv'
<1>1. PICK refs : Start(c, Proceed([op |-> "validate", refs |-> refs, next |-> 1, valid |-> {}, seen |-> None], 1, {}))
  BY DEF Validate
<1> DEFINE call == [op |-> "validate", refs |-> refs, next |-> 1, valid |-> {}, seen |-> None]
           next == Proceed(call, 1, {})
<1>2. CallOK(next)
  <2>1. call = [op |-> "validate", refs |-> call.refs, next |-> call.next,
                valid |-> call.valid, seen |-> call.seen]
    OBVIOUS
  <2> HIDE DEF call
  <2> QED BY <2>1, ProceedOK
<1>3. store # None /\ calls' = [calls EXCEPT ![c] = next] /\ UNCHANGED <<world, events, storage>>
  BY <1>1 DEF Start
<1> HIDE DEF next
<1> QED BY <1>2, <1>3, RequestMoves

\* A validation looks at the document of a reference.
LEMMA ProbeReferenceInv ==
  ASSUME IInv, NEW c \in Clients, ProbeReference(c)
  PROVE  IInv'
<1> DEFINE call == calls[c]
           t    == call.refs[call.next].tab
           seen == [call EXCEPT !.seen = Identity(t, page[t])]
           on   == Proceed(call, call.next + 1, call.valid)
<1>1. /\ call.op = "validate" /\ UNCHANGED <<world, events, storage>>
      /\ calls' = [calls EXCEPT ![c] = IF Scriptable(t) THEN seen ELSE on]
  BY DEF ProbeReference
<1>2. call # NoCall /\ ValidateOK(call)
  BY <1>1, ValidateCallOK DEF IInv
<1>3. store # None
  BY <1>2 DEF IInv, StoreInv
<1>4. call = [op |-> "validate", refs |-> call.refs, next |-> call.next,
              valid |-> call.valid, seen |-> call.seen]
      /\ \A v \in call.valid : Right(v)
  BY <1>2 DEF ValidateOK
<1> HIDE DEF call
<1>5. CallOK(seen)
  <2>1. seen = [op |-> "validate", refs |-> call.refs, next |-> call.next,
                valid |-> call.valid, seen |-> Identity(t, page[t])]
    BY <1>4
  <2>2. Identity(t, page[t]).tab = t
    BY DEF Identity
  <2> HIDE DEF seen
  <2>3. ValidateOK(seen)
    BY <1>4, <2>1, <2>2 DEF ValidateOK
  <2> QED BY <2>3 DEF CallOK
<1>6. CallOK(on)
  BY <1>4, ProceedOK
<1> HIDE DEF seen, on
<1> QED BY <1>1, <1>3, <1>5, <1>6, RequestMoves

\* A revision is judged by the store of this moment, in which none is that an event
\* has removed.
LEMMA JudgeReferenceInv ==
  ASSUME IInv, NEW c \in Clients, JudgeReference(c)
  PROVE  IInv'
<1> DEFINE call  == calls[c]
           ref   == call.refs[call.next]
           found == [ref |-> ref, seen |-> call.seen, kept |-> ref.revision \notin revoked]
           valid == IF IsValid(ref.revision, call.seen) THEN call.valid \cup {found} ELSE call.valid
           on    == Proceed(call, call.next + 1, valid)
<1>1. /\ call.op = "validate" /\ call.seen # None /\ UNCHANGED <<world, events, storage>>
      /\ calls' = [calls EXCEPT ![c] = on]
  BY DEF JudgeReference
<1>2. call # NoCall /\ ValidateOK(call)
  BY <1>1, ValidateCallOK DEF IInv
<1>3. store # None
  BY <1>2 DEF IInv, StoreInv
<1>4. call = [op |-> "validate", refs |-> call.refs, next |-> call.next,
              valid |-> call.valid, seen |-> call.seen]
      /\ call.seen.tab = ref.tab /\ \A v \in call.valid : Right(v)
  BY <1>1, <1>2 DEF ValidateOK
<1> HIDE DEF call
<1>5. ASSUME IsValid(ref.revision, call.seen) PROVE Right(found)
  <2> DEFINE r == ref.revision
  <2>1. r \in DOMAIN store /\ store[r] = call.seen
    BY <1>5 DEF IsValid
  <2>2. Held(store) /\ r \notin revoked
    BY <1>3, <2>1 DEF IInv, StoreInv
  <2>3. r \in DOMAIN truth /\ call.seen = Identity(truth[r].tab, truth[r].page)
    BY <2>1, <2>2 DEF Held
  <2>4. truth[r].tab = ref.tab
    BY <1>4, <2>3 DEF Identity
  <2> QED BY <2>2, <2>3, <2>4 DEF Right
<1>6. \A v \in valid : Right(v)
  BY <1>4, <1>5
<1>7. CallOK(on)
  <2> HIDE DEF valid
  <2> QED BY <1>4, <1>6, ProceedOK
<1> HIDE DEF on
<1> QED BY <1>1, <1>3, <1>7, RequestMoves

-----------------------------------------------------------------------------
(* The theorems.                                                           *)

\* At first there are pages, and no call or revision.
LEMMA InitInv ==
  ASSUME Init
  PROVE  IInv
<1>1. PICK o \in Openings : page = o.pages
  BY DEF Init
<1>2. /\ history = {page} /\ events = [t \in Tabs |-> 0]
      /\ store = <<>> /\ writes = <<>> /\ disk = <<>> /\ truth = <<>> /\ revoked = {}
      /\ calls = [c \in Clients |-> NoCall]
  BY DEF Init
<1>3. PageInv
  BY <1>1, <1>2, PagesAssumption DEF PageInv
<1>4. DOMAIN truth = {} /\ DOMAIN truth = 1 .. 0
  BY <1>2
<1>5. TruthInv
  BY <1>4 DEF TruthInv
<1>6. Held(disk) /\ Held(store)
  BY <1>2 DEF Held
<1>7. StoreInv
  BY <1>2, <1>4, <1>5, <1>6, HeldIsStore DEF StoreInv
<1>8. CallInv
  BY <1>2 DEF CallInv, CallOK
<1> QED BY <1>3, <1>5, <1>7, <1>8 DEF IInv

\* No step, the stuttering one included, breaks the invariant.
LEMMA NextInv ==
  ASSUME IInv, [Next]_vars
  PROVE  IInv'
<1>1. CASE \E t \in Tabs : Navigate(t) \/ PushState(t) \/ CloseTab(t) \/ Invalidate(t)
  BY <1>1, ChromeInv, InvalidateInv
<1>2. CASE Stored \/ Load \/ StopWorker
  BY <1>2, StoredInv, LoadInv, StopWorkerInv
<1>3. ASSUME NEW c \in Clients, Text(c) PROVE IInv'
  BY <1>3, GetTextInv, PairTextInv DEF Text
<1>4. ASSUME NEW c \in Clients, Done(c) PROVE IInv'
  <2>1. calls[c] # NoCall
    BY <1>4 DEF Done, NoCall
  <2>2. store # None
    BY <2>1 DEF IInv, StoreInv
  <2>3. CallOK(NoCall)
    BY DEF CallOK
  <2> QED BY <1>4, <2>2, <2>3, RequestMoves DEF Done
<1>5. CASE \E c \in Clients :
             Request(c) \/ Text(c) \/ Validate(c) \/ ProbeReference(c) \/ JudgeReference(c) \/ Done(c)
  BY <1>3, <1>4, <1>5, RequestInv, ValidateInv, ProbeReferenceInv, JudgeReferenceInv
<1>6. CASE UNCHANGED vars
  <2>1. PageInv' /\ TruthInv' /\ Onward
    BY <1>6, RestKept DEF vars
  <2>2. CallInv'
    BY <1>6, <2>1, NoCallMoves DEF IInv, vars
  <2>3. StoreInv'
    BY <1>6 DEF IInv, StoreInv, Held, vars, storage
  <2> QED BY <2>1, <2>2, <2>3 DEF IInv
<1> QED BY <1>1, <1>2, <1>5, <1>6 DEF Next

\* The invariant holds of content-service.ts, the store of content.ts, Chrome and
\* its user.
THEOREM Invariance == Spec => []IInv
<1>1. Init => IInv
  BY InitInv
<1>2. IInv /\ [Next]_vars => IInv'
  BY NextInv
<1> QED BY <1>1, <1>2, PTL DEF Spec

\* Store, copy and writes between them hold identities of pages that revisions were
\* handed out for, and no request gets ahead of what it awaits.
THEOREM TypeCorrect == Spec => []TypeOK
<1>1. ASSUME IInv PROVE TypeOK
  <2>1. ASSUME NEW held, Held(held)
        PROVE  /\ DOMAIN held \subseteq DOMAIN truth
               /\ \A r \in DOMAIN held : held[r] = Identity(truth[r].tab, truth[r].page)
    BY <2>1 DEF Held
  <2>2. ASSUME NEW held \in {disk} \cup ToSet(writes) \cup ({store} \ {None}) PROVE Held(held)
    BY <1>1 DEF IInv, StoreInv, ToSet
  <2>3. ASSUME NEW c \in Clients, calls[c].op \in {"get", "compare", "diff"}, NEW k \in DOMAIN calls[c].at
        PROVE  /\ calls[c].at[k] \in Stages
               /\ calls[c].at[k] \in {"digest", "probe", "latest", "done"} => calls[c].got[k] # None
    <3>1. CASE calls[c].op = "get"
      BY <1>1, <2>3, <3>1, TextCallOK, NoneAssumption DEF IInv, GetOK, GetCalls
    <3>2. CASE calls[c].op # "get"
      BY <1>1, <2>3, <3>2, TextCallOK, NoneAssumption DEF IInv, PairOK, PairCalls
    <3> QED BY <3>1, <3>2
  <2>4. (\A t \in Tabs : page[t] = None \/ page[t].url \in Urls) /\ events \in [Tabs -> Nat]
    BY <1>1 DEF IInv, PageInv, Pages
  <2> QED BY <2>1, <2>2, <2>3, <2>4 DEF TypeOK
<1> QED BY <1>1, Invariance, PTL

\* An answered request is well formed.
LEMMA AnswerKnown ==
  ASSUME IInv, NEW c \in Clients, NEW op, Answered(c, op)
  PROVE  AnswerOK(calls[c])
<1>1. CallOK(calls[c]) /\ calls[c].op = "answer"
  BY DEF IInv, CallInv, Answered
<1>2. ~GetOK(calls[c]) /\ ~PairOK(calls[c]) /\ ~ValidateOK(calls[c]) /\ calls[c] # NoCall
  BY <1>1 DEF GetOK, PairOK, GetCalls, PairCalls, ValidateOK, NoCall
<1> QED BY <1>1, <1>2 DEF CallOK

\* What validateCapturedPage lets through was shown at one moment, for any number of
\* tabs and changes.
THEOREM ShownTogether == Spec => []OfOneMoment
<1>1. ASSUME IInv PROVE OfOneMoment
  <2> SUFFICES ASSUME NEW c \in Clients
               PROVE  \E shown \in history :
                        /\ Answered(c, "get") => shown[calls[c].of.tabs[1]] = calls[c].of.got[1]
                        /\ Answered(c, "compare") \/ Answered(c, "diff") =>
                             \A k \in 1 .. 2 : LET t == calls[c].of.tabs[k] IN
                               shown[t] # None /\ shown[t].doc = calls[c].of.got[k].doc
    BY DEF OfOneMoment
  <2>1. CASE Answered(c, "get")
    BY <1>1, <2>1, AnswerKnown DEF Answered, AnswerOK, Shown
  <2>2. CASE Answered(c, "compare") \/ Answered(c, "diff")
    BY <1>1, <2>2, AnswerKnown DEF Answered, AnswerOK, Together
  <2>3. CASE ~(Answered(c, "get") \/ Answered(c, "compare") \/ Answered(c, "diff"))
    BY <1>1, <2>3 DEF IInv, PageInv
  <2> QED BY <2>1, <2>2, <2>3
<1> QED BY <1>1, Invariance, PTL

\* validateCurrentContentRevisions finds a revision valid only for the document and
\* the address it was handed out for.
THEOREM ValidForItsPage == Spec => []ValidMeansSamePage
<1>1. ASSUME IInv PROVE ValidMeansSamePage
  <2>1. ASSUME NEW c \in Clients, Answered(c, "validate"), NEW v \in calls[c].result
        PROVE  Right(v)
    BY <1>1, <2>1, AnswerKnown DEF Answered, AnswerOK
  <2> QED BY <2>1 DEF ValidMeansSamePage, Right
<1> QED BY <1>1, Invariance, PTL

\* No revision that an event had revoked is found valid.
THEOREM RevokedForGood == Spec => []RevokedIsInvalid
<1>1. ASSUME IInv PROVE RevokedIsInvalid
  <2>1. ASSUME NEW c \in Clients, Answered(c, "validate"), NEW v \in calls[c].result
        PROVE  Right(v)
    BY <1>1, <2>1, AnswerKnown DEF Answered, AnswerOK
  <2> QED BY <2>1 DEF RevokedIsInvalid, Right
<1> QED BY <1>1, Invariance, PTL

-----------------------------------------------------------------------------
(* Induction and recursion on the cells of a table, from the last one on.  *)

\* What holds of a cell when it holds of the cells behind it holds of every cell.
LEMMA TableInduction ==
  ASSUME NEW m \in Nat, NEW n \in Nat, NEW good,
         \A i \in 1..(m + 1), j \in 1..(n + 1) :
           /\ i <= m => <<i + 1, j>> \in good
           /\ j <= n => <<i, j + 1>> \in good
           /\ i <= m /\ j <= n => <<i + 1, j + 1>> \in good
           => <<i, j>> \in good
  PROVE  \A i \in 1..(m + 1), j \in 1..(n + 1) : <<i, j>> \in good
<1> DEFINE done == {d \in 0..(m + n) :
                      \A i \in 1..(m + 1), j \in 1..(n + 1) : (m + 1 - i) + (n + 1 - j) <= d => <<i, j>> \in good}
<1>1. 0 \in done
  <2>1. ASSUME NEW i \in 1..(m + 1), NEW j \in 1..(n + 1), (m + 1 - i) + (n + 1 - j) <= 0
        PROVE  <<i, j>> \in good
    <3>1. ~(i <= m) /\ ~(j <= n)
      BY <2>1
    <3> QED
      BY <3>1
  <2> QED
    BY <2>1
<1>2. ASSUME NEW d \in 0..(m + n), d < m + n, d \in done
      PROVE  d + 1 \in done
  <2>1. ASSUME NEW i \in 1..(m + 1), NEW j \in 1..(n + 1), (m + 1 - i) + (n + 1 - j) <= d + 1
        PROVE  <<i, j>> \in good
    <3>1. ASSUME i <= m
          PROVE  <<i + 1, j>> \in good
      <4>1. i + 1 \in 1..(m + 1) /\ (m + 1 - (i + 1)) + (n + 1 - j) <= d
        BY <2>1, <3>1
      <4> QED
        BY <1>2, <4>1
    <3>2. ASSUME j <= n
          PROVE  <<i, j + 1>> \in good
      <4>1. j + 1 \in 1..(n + 1) /\ (m + 1 - i) + (n + 1 - (j + 1)) <= d
        BY <2>1, <3>2
      <4> QED
        BY <1>2, <4>1
    <3>3. ASSUME i <= m, j <= n
          PROVE  <<i + 1, j + 1>> \in good
      <4>1. i + 1 \in 1..(m + 1) /\ j + 1 \in 1..(n + 1) /\ (m + 1 - (i + 1)) + (n + 1 - (j + 1)) <= d
        BY <2>1, <3>3
      <4> QED
        BY <1>2, <4>1
    <3> QED
      BY <3>1, <3>2, <3>3
  <2>2. d + 1 \in 0..(m + n)
    BY <1>2
  <2> QED
    BY <2>1, <2>2
<1>3. m + n \in done
  <2> HIDE DEF done
  <2>1. 0..(m + n) \subseteq done
    BY <1>1, <1>2, UpTo
  <2> QED
    BY <2>1
<1>4. ASSUME NEW i \in 1..(m + 1), NEW j \in 1..(n + 1)
      PROVE  <<i, j>> \in good
  <2>1. (m + 1 - i) + (n + 1 - j) <= m + n
    OBVIOUS
  <2> QED
    BY <1>3, <2>1
<1> QED
  BY <1>4

\* Whatever follows from the cells behind it can be put into every cell.
Table(m, n) == (1..(m + 1)) \X (1..(n + 1))

\* What is behind a cell; there is nothing behind the last row and the last column.
Below(f, m, nothing, i, j)     == IF i <= m THEN f[<<i + 1, j>>] ELSE nothing
Beside(f, n, nothing, i, j)    == IF j <= n THEN f[<<i, j + 1>>] ELSE nothing
Across(f, m, n, nothing, i, j) == IF i <= m /\ j <= n THEN f[<<i + 1, j + 1>>] ELSE nothing

Fills(f, m, n, nothing, step, i, j) ==
  f[<<i, j>>] = step[<<i, j>>][<<Below(f, m, nothing, i, j), Beside(f, n, nothing, i, j), Across(f, m, n, nothing, i, j)>>]

\* A table that is filled from its end exists.
LEMMA TableRecursion ==
  ASSUME NEW m \in Nat, NEW n \in Nat, NEW S, NEW nothing \in S, NEW step \in [Table(m, n) -> [S \X S \X S -> S]]
  PROVE  \E f \in [Table(m, n) -> S] : \A i \in 1..(m + 1), j \in 1..(n + 1) : Fills(f, m, n, nothing, step, i, j)
<1> DEFINE Far(i, j) == (m + 1 - i) + (n + 1 - j)
           Is(f, d) == f \in [Table(m, n) -> S] /\ \A i \in 1..(m + 1), j \in 1..(n + 1) :
                         Far(i, j) < d => Fills(f, m, n, nothing, step, i, j)
           done == {d \in 0..(m + n + 1) : \E f : Is(f, d)}
<1>1. 0 \in done
  <2> DEFINE f == [cell \in Table(m, n) |-> nothing]
  <2>1. f \in [Table(m, n) -> S]
    OBVIOUS
  <2>2. \A i \in 1..(m + 1), j \in 1..(n + 1) : ~(Far(i, j) < 0)
    OBVIOUS
  <2> HIDE DEF f, Far
  <2>3. Is(f, 0)
    BY <2>1, <2>2
  <2> HIDE DEF Is
  <2> QED
    BY <2>3
<1>2. ASSUME NEW d \in 0..(m + n + 1), d < m + n + 1, d \in done
      PROVE  d + 1 \in done
  <2>1. PICK f : Is(f, d)
    BY <1>2
  <2> DEFINE Filled(i, j) == step[<<i, j>>][<<Below(f, m, nothing, i, j), Beside(f, n, nothing, i, j), Across(f, m, n, nothing, i, j)>>]
             g == [cell \in Table(m, n) |-> IF Far(cell[1], cell[2]) = d THEN Filled(cell[1], cell[2]) ELSE f[cell]]
  <2>2. ASSUME NEW i \in 1..(m + 1), NEW j \in 1..(n + 1)
        PROVE  /\ Below(f, m, nothing, i, j) \in S /\ Beside(f, n, nothing, i, j) \in S
               /\ Across(f, m, n, nothing, i, j) \in S
    <3>1. /\ i <= m => i + 1 \in 1..(m + 1)
          /\ j <= n => j + 1 \in 1..(n + 1)
      OBVIOUS
    <3>2. \A x \in 1..(m + 1), y \in 1..(n + 1) : f[<<x, y>>] \in S
      BY <2>1 DEF Table
    <3> QED
      BY <3>1, <3>2 DEF Below, Beside, Across
  <2>3. \A i \in 1..(m + 1), j \in 1..(n + 1) : Filled(i, j) \in S
    BY <2>2 DEF Table
  <2>4. \A cell \in Table(m, n) : cell[1] \in 1..(m + 1) /\ cell[2] \in 1..(n + 1)
    BY DEF Table
  <2> HIDE DEF Filled
  <2>5. g \in [Table(m, n) -> S]
    <3> HIDE DEF Far
    <3>1. \A cell \in Table(m, n) : f[cell] \in S
      BY <2>1
    <3> QED
      BY <2>3, <2>4, <3>1
  <2>6. \A i \in 1..(m + 1), j \in 1..(n + 1) : g[<<i, j>>] = IF Far(i, j) = d THEN Filled(i, j) ELSE f[<<i, j>>]
    <3> HIDE DEF Far
    <3> QED
      BY DEF Table
  <2> HIDE DEF g
  <2>7. ASSUME NEW i \in 1..(m + 1), NEW j \in 1..(n + 1), Far(i, j) < d + 1
        PROVE  Fills(g, m, n, nothing, step, i, j)
    <3>1. Below(g, m, nothing, i, j) = Below(f, m, nothing, i, j)
      <4>1. i <= m => i + 1 \in 1..(m + 1) /\ Far(i + 1, j) # d
        BY <2>7
      <4> HIDE DEF Far
      <4> QED
        BY <2>6, <4>1 DEF Below
    <3>2. Beside(g, n, nothing, i, j) = Beside(f, n, nothing, i, j)
      <4>1. j <= n => j + 1 \in 1..(n + 1) /\ Far(i, j + 1) # d
        BY <2>7
      <4> HIDE DEF Far
      <4> QED
        BY <2>6, <4>1 DEF Beside
    <3>3. Across(g, m, n, nothing, i, j) = Across(f, m, n, nothing, i, j)
      <4>1. i <= m /\ j <= n => i + 1 \in 1..(m + 1) /\ j + 1 \in 1..(n + 1) /\ Far(i + 1, j + 1) # d
        BY <2>7
      <4> HIDE DEF Far
      <4> QED
        BY <2>6, <4>1 DEF Across
    <3>4. CASE Far(i, j) = d
      <4> HIDE DEF Far
      <4>1. g[<<i, j>>] = Filled(i, j)
        BY <2>6, <3>4
      <4> QED
        BY <3>1, <3>2, <3>3, <4>1 DEF Filled, Fills
    <3>5. CASE Far(i, j) # d
      <4>1. Far(i, j) < d
        BY <2>7, <3>5
      <4> HIDE DEF Far
      <4>2. g[<<i, j>>] = f[<<i, j>>] /\ Fills(f, m, n, nothing, step, i, j)
        BY <2>1, <2>6, <3>5, <4>1
      <4> QED
        BY <3>1, <3>2, <3>3, <4>2 DEF Fills
    <3> QED
      BY <3>4, <3>5
  <2>8. Is(g, d + 1)
    BY <2>5, <2>7
  <2>9. d + 1 \in 0..(m + n + 1)
    BY <1>2
  <2> HIDE DEF Is
  <2> QED
    BY <2>8, <2>9
<1>3. m + n + 1 \in done
  <2> HIDE DEF done
  <2>1. m + n + 1 \in Nat /\ m + n + 1 \in 0..(m + n + 1)
    OBVIOUS
  <2>2. 0..(m + n + 1) \subseteq done
    BY <1>1, <1>2, <2>1, UpTo
  <2> QED
    BY <2>1, <2>2
<1>4. PICK f : Is(f, m + n + 1)
  BY <1>3
<1>5. \A i \in 1..(m + 1), j \in 1..(n + 1) : Far(i, j) < m + n + 1
  OBVIOUS
<1> HIDE DEF Far
<1> QED
  BY <1>4, <1>5

-----------------------------------------------------------------------------
(* The table of createMinimalChanges.                                      *)

\* The greater one of two numbers.
Greater(x, y) == Max({x, y})

\* It is one of the two, and at least as great as either.
LEMMA GreaterOne ==
  ASSUME NEW x \in Nat, NEW y \in Nat
  PROVE  /\ Greater(x, y) \in Nat /\ Greater(x, y) >= x /\ Greater(x, y) >= y
         /\ x >= y => Greater(x, y) = x
         /\ y >= x => Greater(x, y) = y
<1> DEFINE z == IF x >= y THEN x ELSE y
<1>1. z \in {x, y} /\ \A w \in {x, y} : z >= w
  OBVIOUS
<1>2. Max({x, y}) \in {x, y} /\ \A w \in {x, y} : Max({x, y}) >= w
  BY <1>1 DEF Max
<1> QED
  BY <1>2 DEF Greater

\* Each cell of the table follows from those behind it.
RowsAt(rows, a, b, i, j) ==
  rows[<<i, j>>] = IF i > Len(a) \/ j > Len(b) THEN 0
                   ELSE IF a[i] = b[j] THEN rows[<<i + 1, j + 1>>] + 1
                   ELSE Greater(rows[<<i + 1, j>>], rows[<<i, j + 1>>])

\* lineLongestCommonSubsequence fills every cell of its table from those behind it.
LEMMA RowsFill ==
  ASSUME NEW S, NEW a \in Seq(S), NEW b \in Seq(S)
  PROVE  \A i \in 1..(Len(a) + 1), j \in 1..(Len(b) + 1) :
           Rows(a, b)[<<i, j>>] \in Nat /\ RowsAt(Rows(a, b), a, b, i, j)
<1> DEFINE m == Len(a)
           n == Len(b)
           Value(i, j, down, right, across) ==
             IF i > m \/ j > n THEN 0 ELSE IF a[i] = b[j] THEN across + 1 ELSE Greater(down, right)
           step == [cell \in Table(m, n) |-> [behind \in Nat \X Nat \X Nat |->
                      Value(cell[1], cell[2], behind[1], behind[2], behind[3])]]
           Is(f) == f = [cell \in Cells(a, b) |->
                      LET i == cell[1]
                          j == cell[2]
                      IN IF i > Len(a) \/ j > Len(b) THEN 0
                         ELSE IF a[i] = b[j] THEN f[<<i + 1, j + 1>>] + 1
                         ELSE Max({f[<<i + 1, j>>], f[<<i, j + 1>>]})]
           rows == CHOOSE f : Is(f)
<1>1. m \in Nat /\ n \in Nat /\ Table(m, n) = Cells(a, b)
  BY LenProperties DEF Table, Cells
<1>2. \A down, right, across \in Nat : \A i, j : Value(i, j, down, right, across) \in Nat
  <2> SUFFICES ASSUME NEW down \in Nat, NEW right \in Nat, NEW across \in Nat, NEW i, NEW j
               PROVE  Value(i, j, down, right, across) \in Nat
    OBVIOUS
  <2>1. across + 1 \in Nat /\ 0 \in Nat
    OBVIOUS
  <2>2. Greater(down, right) \in Nat
    BY GreaterOne, Zenon
  <2> QED
    BY <2>1, <2>2, Zenon
<1>3. \A cell \in Table(m, n) : cell[1] \in 1..(m + 1) /\ cell[2] \in 1..(n + 1) /\ cell = <<cell[1], cell[2]>>
  BY DEF Table
<1>4. /\ step \in [Table(m, n) -> [Nat \X Nat \X Nat -> Nat]]
      /\ \A i \in 1..(m + 1), j \in 1..(n + 1), down, right, across \in Nat :
           step[<<i, j>>][<<down, right, across>>] = Value(i, j, down, right, across)
  <2> HIDE DEF Value, m, n
  <2>1. \A behind \in Nat \X Nat \X Nat : behind[1] \in Nat /\ behind[2] \in Nat /\ behind[3] \in Nat
    OBVIOUS
  <2>2. step \in [Table(m, n) -> [Nat \X Nat \X Nat -> Nat]]
    BY <1>2, <2>1
  <2>3. \A i \in 1..(m + 1), j \in 1..(n + 1) : <<i, j>> \in Table(m, n)
    BY DEF Table
  <2> QED
    BY <2>2, <2>3
<1> HIDE DEF step
<1>5. PICK f \in [Table(m, n) -> Nat] :
        \A i \in 1..(m + 1), j \in 1..(n + 1) : Fills(f, m, n, 0, step, i, j)
  <2> HIDE DEF m, n
  <2> QED
    BY <1>1, <1>4, TableRecursion
<1>6. \A i \in 1..(m + 1), j \in 1..(n + 1) : f[<<i, j>>] \in Nat
  BY DEF Table
<1>7. ASSUME NEW i \in 1..(m + 1), NEW j \in 1..(n + 1)
      PROVE  f[<<i, j>>] = IF i > m \/ j > n THEN 0
                           ELSE IF a[i] = b[j] THEN f[<<i + 1, j + 1>>] + 1
                           ELSE Greater(f[<<i + 1, j>>], f[<<i, j + 1>>])
  <2>1. (i <= m => i + 1 \in 1..(m + 1)) /\ (j <= n => j + 1 \in 1..(n + 1))
        /\ (i > m <=> ~(i <= m)) /\ (j > n <=> ~(j <= n))
    BY <1>1
  <2> DEFINE down   == Below(f, m, 0, i, j)
             right  == Beside(f, n, 0, i, j)
             across == Across(f, m, n, 0, i, j)
  <2> HIDE DEF m, n
  <2>2. down \in Nat /\ right \in Nat /\ across \in Nat
    BY <1>6, <2>1 DEF Below, Beside, Across
  <2>3. f[<<i, j>>] = step[<<i, j>>][<<down, right, across>>]
    BY <1>5 DEF Fills
  <2>4. f[<<i, j>>] = Value(i, j, down, right, across)
    <3> HIDE DEF Value, down, right, across
    <3> QED
      BY <1>4, <2>2, <2>3
  <2> QED
    BY <2>1, <2>4 DEF Below, Beside, Across
<1>8. Is(f)
  <2>1. \A cell \in Cells(a, b) :
          f[cell] = LET i == cell[1]
                        j == cell[2]
                    IN IF i > Len(a) \/ j > Len(b) THEN 0
                       ELSE IF a[i] = b[j] THEN f[<<i + 1, j + 1>>] + 1
                       ELSE Max({f[<<i + 1, j>>], f[<<i, j + 1>>]})
    <3> SUFFICES ASSUME NEW cell \in Cells(a, b)
                 PROVE  f[cell] = LET i == cell[1]
                                      j == cell[2]
                                  IN IF i > Len(a) \/ j > Len(b) THEN 0
                                     ELSE IF a[i] = b[j] THEN f[<<i + 1, j + 1>>] + 1
                                     ELSE Max({f[<<i + 1, j>>], f[<<i, j + 1>>]})
      OBVIOUS
    <3>1. cell[1] \in 1..(m + 1) /\ cell[2] \in 1..(n + 1) /\ cell = <<cell[1], cell[2]>>
      BY <1>1, <1>3
    <3> DEFINE i == cell[1]
               j == cell[2]
    <3>2. f[<<i, j>>] = IF i > m \/ j > n THEN 0
                        ELSE IF a[i] = b[j] THEN f[<<i + 1, j + 1>>] + 1
                        ELSE Greater(f[<<i + 1, j>>], f[<<i, j + 1>>])
      BY <1>7, <3>1
    <3> QED
      BY <3>1, <3>2 DEF Greater
  <2>2. DOMAIN f = Cells(a, b) /\ f = [cell \in DOMAIN f |-> f[cell]]
    BY <1>1
  <2> QED
    BY <2>1, <2>2, Zenon
<1>9. Is(rows)
  <2> HIDE DEF Is
  <2> QED
    BY <1>8
<1>10. Rows(a, b) = rows
  BY DEF Rows
<1> HIDE DEF rows
<1>11. ASSUME NEW i \in 1..(m + 1), NEW j \in 1..(n + 1)
       PROVE  RowsAt(rows, a, b, i, j)
  <2>1. <<i, j>> \in Cells(a, b)
    BY DEF Cells
  <2> QED
    BY <1>9, <2>1 DEF RowsAt, Greater
<1> DEFINE good == {cell \in Table(m, n) : rows[cell] \in Nat}
<1>12. ASSUME NEW i \in 1..(m + 1), NEW j \in 1..(n + 1),
              i <= m => <<i + 1, j>> \in good,
              j <= n => <<i, j + 1>> \in good,
              i <= m /\ j <= n => <<i + 1, j + 1>> \in good
       PROVE  <<i, j>> \in good
  <2>1. <<i, j>> \in Table(m, n)
    BY DEF Table
  <2>2. CASE i > m \/ j > n
    <3>1. rows[<<i, j>>] = 0
      BY <1>11, <2>2 DEF RowsAt
    <3> QED
      BY <2>1, <3>1
  <2>3. CASE i <= m /\ j <= n
    <3>1. /\ rows[<<i + 1, j>>] \in Nat /\ rows[<<i, j + 1>>] \in Nat /\ rows[<<i + 1, j + 1>>] \in Nat
          /\ ~(i > m) /\ ~(j > n)
      BY <1>1, <1>12, <2>3, SMTT(30)
    <3> DEFINE greater == Greater(rows[<<i + 1, j>>], rows[<<i, j + 1>>])
    <3>2. rows[<<i, j>>] = IF a[i] = b[j] THEN rows[<<i + 1, j + 1>>] + 1 ELSE greater
      BY <1>11, <3>1 DEF RowsAt
    <3>3. greater \in Nat
      BY <3>1, GreaterOne
    <3> HIDE DEF greater
    <3>4. rows[<<i, j>>] \in Nat
      BY <3>1, <3>2, <3>3
    <3> QED
      BY <2>1, <3>4
  <2> QED
    BY <1>1, <2>2, <2>3
<1>13. \A i \in 1..(m + 1), j \in 1..(n + 1) : <<i, j>> \in good
  <2> HIDE DEF good, m, n
  <2> QED
    BY <1>1, <1>12, TableInduction
<1> QED
  BY <1>10, <1>11, <1>13

-----------------------------------------------------------------------------
(* No two texts have more lines in common than the table says.             *)

\* Some of the places from one of them on.
From(a, x, P) == P \in SUBSET (x..Len(a))

\* Lists that are the same stay so without their first items.
LEMMA DropFirsts ==
  ASSUME NEW S, NEW a \in Seq(S), NEW b \in Seq(S), NEW x \in 1..(Len(a) + 1), NEW y \in 1..(Len(b) + 1),
         NEW P, NEW Q, From(a, x, P), From(b, y, Q),
         ItemsAt(a, P) = ItemsAt(b, Q), Len(ItemsAt(a, P)) # 0
  PROVE  /\ \E P1, Q1 :
              /\ From(a, x + 1, P1) /\ From(b, y + 1, Q1)
              /\ ItemsAt(a, P1) = ItemsAt(b, Q1)
              /\ Len(ItemsAt(a, P)) = 1 + Len(ItemsAt(a, P1))
         /\ x \in P /\ y \in Q => a[x] = b[y]
<1>1. P # {} /\ Q # {}
  <2>1. ItemsAt(a, {}) = <<>> /\ ItemsAt(b, {}) = <<>> /\ Len(<<>>) = 0
    BY NoPlaces, EmptySeq
  <2> QED
    BY <2>1
<1>2. PICK s \in P : /\ ItemsAt(a, P) = BeginningWith(a[s], ItemsAt(a, P \ {s}))
                     /\ P \ {s} \in SUBSET ((x + 1)..Len(a)) /\ (x \in P => s = x)
  BY <1>1, LosesFirst DEF From
<1>3. PICK t \in Q : /\ ItemsAt(b, Q) = BeginningWith(b[t], ItemsAt(b, Q \ {t}))
                     /\ Q \ {t} \in SUBSET ((y + 1)..Len(b)) /\ (y \in Q => t = y)
  BY <1>1, LosesFirst DEF From
<1> DEFINE P1 == P \ {s}
           Q1 == Q \ {t}
<1>4. a[s] \in S /\ b[t] \in S /\ ItemsAt(a, P1) \in Seq(S) /\ ItemsAt(b, Q1) \in Seq(S)
  BY LenProperties, ElementOfSeq, ItemsAreAList DEF From
<1> HIDE DEF P1, Q1
<1>5. ItemsAt(a, P) = BeginningWith(a[s], ItemsAt(a, P1)) /\ ItemsAt(b, Q) = BeginningWith(b[t], ItemsAt(b, Q1))
  BY <1>2, <1>3, Zenon DEF P1, Q1
<1>6. a[s] = b[t] /\ ItemsAt(a, P1) = ItemsAt(b, Q1)
  <2> DEFINE u == ItemsAt(a, P1)
             v == ItemsAt(b, Q1)
  <2>1. u \in Seq(S) /\ v \in Seq(S) /\ BeginningWith(a[s], u) = BeginningWith(b[t], v)
    BY <1>4, <1>5
  <2> HIDE DEF u, v
  <2>2. a[s] = b[t] /\ u = v
    BY <1>4, <2>1, SameBeginnings
  <2> QED
    BY <2>2 DEF u, v
<1>7. Len(ItemsAt(a, P)) = 1 + Len(ItemsAt(a, P1))
  <2> DEFINE u == ItemsAt(a, P1)
  <2>1. u \in Seq(S) /\ Len(ItemsAt(a, P)) = Len(BeginningWith(a[s], u))
    BY <1>4, <1>5
  <2> HIDE DEF u
  <2>2. Len(BeginningWith(a[s], u)) = 1 + Len(u)
    BY <1>4, <2>1, BeginningIsOneMore
  <2> QED
    BY <2>1, <2>2 DEF u
<1>8. From(a, x + 1, P1) /\ From(b, y + 1, Q1)
  BY <1>2, <1>3, Zenon DEF P1, Q1, From
<1>9. x \in P /\ y \in Q => a[x] = b[y]
  BY <1>2, <1>3, <1>6
<1> QED
  BY <1>6, <1>7, <1>8, <1>9

\* Two texts with a common beginning of p lines and a common end of q lines.
Middle(before, after, old, new, p, q) ==
  /\ p \in Nat /\ q \in Nat
  /\ Len(before) = p + Len(old) + q /\ Len(after) = p + Len(new) + q
  /\ \A i \in 1..Len(old) : old[i] = before[p + i]
  /\ \A j \in 1..Len(new) : new[j] = after[p + j]
  /\ \A k \in 1..p : before[k] = after[k]
  /\ \A k \in 1..q : before[p + Len(old) + k] = after[p + Len(new) + k]

\* The same one or the next one begins with another item.
LEMMA FromNext ==
  ASSUME NEW S, NEW a \in Seq(S), NEW x \in Nat, NEW P, From(a, x, P), x \notin P
  PROVE  From(a, x + 1, P)
BY LenProperties DEF From

\* There is not more in common than there is in one of them.
LEMMA FromLength ==
  ASSUME NEW S, NEW a \in Seq(S), NEW x \in 1..(Len(a) + 1), NEW P, From(a, x, P)
  PROVE  Len(ItemsAt(a, P)) \in 0..(Len(a) + 1 - x)
BY KeptLength DEF From

\* What follows a cell has no more lines in common than the cell and the end say.
RowBounds(before, after, old, new, p, q, i, j) ==
  \A P, Q : /\ From(before, p + i, P) /\ From(after, p + j, Q)
            /\ ItemsAt(before, P) = ItemsAt(after, Q)
            => Len(ItemsAt(before, P)) <= Rows(old, new)[<<i, j>>] + q

\* It is so for a cell if it is so for those behind it.
LEMMA AtMostRow ==
  ASSUME NEW S, NEW before \in Seq(S), NEW after \in Seq(S), NEW old \in Seq(S), NEW new \in Seq(S),
         NEW p, NEW q, NEW i \in 1..(Len(old) + 1), NEW j \in 1..(Len(new) + 1),
         Middle(before, after, old, new, p, q),
         i <= Len(old) => RowBounds(before, after, old, new, p, q, i + 1, j),
         j <= Len(new) => RowBounds(before, after, old, new, p, q, i, j + 1),
         i <= Len(old) /\ j <= Len(new) => RowBounds(before, after, old, new, p, q, i + 1, j + 1)
  PROVE  RowBounds(before, after, old, new, p, q, i, j)
<1> DEFINE m == Len(old)
           n == Len(new)
           M == Len(before)
           N == Len(after)
           rows == Rows(old, new)
           x == p + i
           y == p + j
<1>1. /\ m \in Nat /\ n \in Nat /\ M \in Nat /\ N \in Nat /\ p \in Nat /\ q \in Nat
      /\ M = p + m + q /\ N = p + n + q /\ i \in 1..(m + 1) /\ j \in 1..(n + 1)
  BY LenProperties DEF Middle
<1>2. /\ x \in 1..(M + 1) /\ y \in 1..(N + 1) /\ x + 1 = p + (i + 1) /\ y + 1 = p + (j + 1)
      /\ i > m => M + 1 - x <= q
      /\ j > n => N + 1 - y <= q
      /\ x \in Nat /\ y \in Nat
  <2> HIDE DEF m, n, M, N
  <2> QED
    BY <1>1
<1>3. \A k \in 1..(m + 1), l \in 1..(n + 1) : rows[<<k, l>>] \in Nat /\ RowsAt(rows, old, new, k, l)
  BY RowsFill
<1> SUFFICES ASSUME NEW P, NEW Q, From(before, x, P), From(after, y, Q), ItemsAt(before, P) = ItemsAt(after, Q)
             PROVE  Len(ItemsAt(before, P)) <= rows[<<i, j>>] + q
  BY DEF RowBounds
<1> DEFINE size == Len(ItemsAt(before, P))
           here == rows[<<i, j>>]
<1>4. size \in 0..(M + 1 - x) /\ size \in 0..(N + 1 - y) /\ here \in Nat
  <2> HIDE DEF x, y
  <2>1. size \in 0..(M + 1 - x) /\ Len(ItemsAt(after, Q)) \in 0..(N + 1 - y)
    BY <1>2, FromLength
  <2> QED
    BY <1>3, <2>1
<1>5. CASE i > m \/ j > n \/ size = 0
  <2> HIDE DEF m, n, M, N, x, y, size, here
  <2>1. size <= here + q
    BY <1>1, <1>2, <1>4, <1>5
  <2> QED
    BY <2>1 DEF size, here
<1>6. CASE i <= m /\ j <= n /\ size # 0
  <2> DEFINE down   == rows[<<i + 1, j>>]
             right  == rows[<<i, j + 1>>]
             across == rows[<<i + 1, j + 1>>]
  <2>1. /\ old[i] = before[x] /\ new[j] = after[y]
        /\ here = IF old[i] = new[j] THEN across + 1 ELSE Greater(down, right)
    <3>1. i \in 1..m /\ j \in 1..n /\ ~(i > m) /\ ~(j > n)
      BY <1>1, <1>6, SMTT(30)
    <3> QED
      BY <1>3, <3>1 DEF RowsAt, Middle
  <2>2. down \in Nat /\ right \in Nat /\ across \in Nat
    <3>1. i + 1 \in 1..(m + 1) /\ j + 1 \in 1..(n + 1)
      BY <1>1, <1>6
    <3> HIDE DEF rows, m, n
    <3> QED
      BY <1>1, <1>3, <3>1
  <2>3. /\ \A P1, Q1 : From(before, x + 1, P1) /\ From(after, y, Q1) /\ ItemsAt(before, P1) = ItemsAt(after, Q1)
             => Len(ItemsAt(before, P1)) <= down + q
        /\ \A P1, Q1 : From(before, x, P1) /\ From(after, y + 1, Q1) /\ ItemsAt(before, P1) = ItemsAt(after, Q1)
             => Len(ItemsAt(before, P1)) <= right + q
        /\ \A P1, Q1 : From(before, x + 1, P1) /\ From(after, y + 1, Q1) /\ ItemsAt(before, P1) = ItemsAt(after, Q1)
             => Len(ItemsAt(before, P1)) <= across + q
    <3>1. /\ \A P1, Q1 : From(before, p + (i + 1), P1) /\ From(after, y, Q1) /\ ItemsAt(before, P1) = ItemsAt(after, Q1)
               => Len(ItemsAt(before, P1)) <= down + q
          /\ \A P1, Q1 : From(before, x, P1) /\ From(after, p + (j + 1), Q1) /\ ItemsAt(before, P1) = ItemsAt(after, Q1)
               => Len(ItemsAt(before, P1)) <= right + q
          /\ \A P1, Q1 : From(before, p + (i + 1), P1) /\ From(after, p + (j + 1), Q1) /\ ItemsAt(before, P1) = ItemsAt(after, Q1)
               => Len(ItemsAt(before, P1)) <= across + q
      BY <1>6, Zenon DEF RowBounds
    <3> QED
      BY <1>2, <3>1, Zenon
  <2> HIDE DEF m, n, M, N, x, y, here, down, right, across, rows
  <2>4. CASE old[i] = new[j]
    <3>1. PICK P1, Q1 : /\ From(before, x + 1, P1) /\ From(after, y + 1, Q1)
                        /\ ItemsAt(before, P1) = ItemsAt(after, Q1)
                        /\ size = 1 + Len(ItemsAt(before, P1))
      <4>1. x \in 1..(Len(before) + 1) /\ y \in 1..(Len(after) + 1) /\ Len(ItemsAt(before, P)) # 0
        BY <1>2, <1>6 DEF M, N, size
      <4>2. \E P1, Q1 : /\ From(before, x + 1, P1) /\ From(after, y + 1, Q1)
                        /\ ItemsAt(before, P1) = ItemsAt(after, Q1)
                        /\ Len(ItemsAt(before, P)) = 1 + Len(ItemsAt(before, P1))
        BY <4>1, DropFirsts, SMTT(30)
      <4> QED
        BY <4>2 DEF size
    <3> DEFINE less == Len(ItemsAt(before, P1))
    <3>2. less <= across + q /\ size = 1 + less /\ here = across + 1 /\ less \in Nat
      BY <2>1, <2>3, <2>4, <3>1, ItemsAreAList, LenProperties
    <3> HIDE DEF less, size
    <3>3. size <= here + q
      BY <1>1, <2>2, <3>2
    <3> QED
      BY <3>3 DEF size, here, rows
  <2>5. CASE old[i] # new[j]
    <3>1. x \notin P \/ y \notin Q
      BY <1>2, <1>6, <2>1, <2>5, DropFirsts, SMTT(30) DEF M, N
    <3>2. From(before, x + 1, P) \/ From(after, y + 1, Q)
      BY <1>2, <3>1, FromNext
    <3>3. size <= down + q \/ size <= right + q
      BY <2>3, <3>2
    <3>4. here \in Nat /\ here >= down /\ here >= right
      BY <2>1, <2>2, <2>5, GreaterOne
    <3>5. size \in Nat
      BY <1>4
    <3> HIDE DEF size
    <3>6. size <= here + q
      BY <1>1, <2>2, <3>3, <3>4, <3>5
    <3> QED
      BY <3>6 DEF size, here, rows
  <2> QED
    BY <2>4, <2>5
<1>7. (i > m \/ i <= m) /\ (j > n \/ j <= n)
  BY <1>1
<1> QED
  BY <1>5, <1>6, <1>7

\* So it is so for every cell.
LEMMA AtMostRows ==
  ASSUME NEW S, NEW before \in Seq(S), NEW after \in Seq(S), NEW old \in Seq(S), NEW new \in Seq(S),
         NEW p, NEW q, Middle(before, after, old, new, p, q)
  PROVE  \A i \in 1..(Len(old) + 1), j \in 1..(Len(new) + 1) : RowBounds(before, after, old, new, p, q, i, j)
<1> DEFINE m == Len(old)
           n == Len(new)
           good == {cell \in Table(m, n) : RowBounds(before, after, old, new, p, q, cell[1], cell[2])}
<1>1. m \in Nat /\ n \in Nat
  BY LenProperties
<1>2. ASSUME NEW i \in 1..(m + 1), NEW j \in 1..(n + 1),
             i <= m => <<i + 1, j>> \in good,
             j <= n => <<i, j + 1>> \in good,
             i <= m /\ j <= n => <<i + 1, j + 1>> \in good
      PROVE  <<i, j>> \in good
  <2>1. /\ i <= m => RowBounds(before, after, old, new, p, q, i + 1, j)
        /\ j <= n => RowBounds(before, after, old, new, p, q, i, j + 1)
        /\ i <= m /\ j <= n => RowBounds(before, after, old, new, p, q, i + 1, j + 1)
    BY <1>2
  <2>2. RowBounds(before, after, old, new, p, q, i, j)
    BY <2>1, AtMostRow
  <2> QED
    BY <2>2 DEF Table
<1>3. \A i \in 1..(m + 1), j \in 1..(n + 1) : <<i, j>> \in good
  <2> HIDE DEF good, m, n
  <2> QED
    BY <1>1, <1>2, TableInduction
<1> QED
  BY <1>3

\* Nor have the whole texts more in common: each line of the common beginning
\* adds at most one.
LEMMA AtMostInCommon ==
  ASSUME NEW S, NEW before \in Seq(S), NEW after \in Seq(S), NEW old \in Seq(S), NEW new \in Seq(S),
         NEW p, NEW q, NEW P, NEW Q,
         Middle(before, after, old, new, p, q),
         From(before, 1, P), From(after, 1, Q), ItemsAt(before, P) = ItemsAt(after, Q)
  PROVE  Len(ItemsAt(before, P)) <= p + Rows(old, new)[<<1, 1>>] + q
<1> DEFINE most == Rows(old, new)[<<1, 1>>] + q
           Bounds(k) == \A A, B : /\ From(before, p + 1 - k, A) /\ From(after, p + 1 - k, B)
                                 /\ ItemsAt(before, A) = ItemsAt(after, B)
                                 => Len(ItemsAt(before, A)) <= k + most
           good == {k \in 0..p : Bounds(k)}
<1>1. /\ Len(before) \in Nat /\ Len(after) \in Nat /\ p \in Nat /\ q \in Nat
      /\ p <= Len(before) /\ p <= Len(after)
      /\ 1 \in 1..(Len(old) + 1) /\ 1 \in 1..(Len(new) + 1)
  BY LenProperties DEF Middle
<1>2. Rows(old, new)[<<1, 1>>] \in Nat
  BY <1>1, RowsFill
<1>3. most \in Nat
  BY <1>1, <1>2
<1>4. \A A : Len(ItemsAt(before, A)) \in Nat
  BY ItemsAreAList, LenProperties
<1>5. 0 \in good
  <2>1. RowBounds(before, after, old, new, p, q, 1, 1)
    BY <1>1, AtMostRows
  <2>2. \A A, B : From(before, p + 1, A) /\ From(after, p + 1, B) /\ ItemsAt(before, A) = ItemsAt(after, B)
          => Len(ItemsAt(before, A)) <= most
    BY <2>1, Zenon DEF RowBounds
  <2> HIDE DEF most
  <2>3. 0 + most = most /\ p + 1 - 0 = p + 1 /\ 0 \in 0..p
    BY <1>1, <1>3
  <2> QED
    BY <2>2, <2>3, Zenon
<1>6. ASSUME NEW k \in 0..p, k < p, k \in good
      PROVE  k + 1 \in good
  <2> DEFINE x == p - k
  <2>1. /\ k + 1 \in 0..p /\ x \in 1..(Len(before) + 1) /\ x \in 1..(Len(after) + 1)
        /\ p + 1 - (k + 1) = x /\ p + 1 - k = x + 1
    BY <1>1, <1>6
  <2> HIDE DEF most, x
  <2>2. \A A, B : From(before, x + 1, A) /\ From(after, x + 1, B) /\ ItemsAt(before, A) = ItemsAt(after, B)
          => Len(ItemsAt(before, A)) <= k + most
    <3>1. Bounds(k)
      BY <1>6
    <3> QED
      BY <2>1, <3>1, Zenon
  <2>3. ASSUME NEW A, NEW B, From(before, x, A), From(after, x, B), ItemsAt(before, A) = ItemsAt(after, B)
        PROVE  Len(ItemsAt(before, A)) <= (k + 1) + most
    <3>1. CASE Len(ItemsAt(before, A)) = 0
      BY <1>3, <1>6, <3>1
    <3>2. CASE Len(ItemsAt(before, A)) # 0
      <4>1. PICK A1, B1 : /\ From(before, x + 1, A1) /\ From(after, x + 1, B1)
                          /\ ItemsAt(before, A1) = ItemsAt(after, B1)
                          /\ Len(ItemsAt(before, A)) = 1 + Len(ItemsAt(before, A1))
        BY <2>1, <2>3, <3>2, DropFirsts, SMTT(30)
      <4>2. Len(ItemsAt(before, A1)) <= k + most
        BY <2>2, <4>1
      <4> QED
        BY <1>3, <1>4, <1>6, <4>1, <4>2
    <3> QED
      BY <3>1, <3>2
  <2>4. Bounds(k + 1)
    BY <2>1, <2>3, Zenon
  <2> QED
    BY <2>1, <2>4
<1>7. p \in good
  <2> HIDE DEF good
  <2>1. 0..p \subseteq good
    BY <1>1, <1>5, <1>6, UpTo
  <2> QED
    BY <1>1, <2>1
<1>8. p + 1 - p = 1
  BY <1>1
<1>9. Len(ItemsAt(before, P)) <= p + most
  <2>1. Bounds(p)
    BY <1>7
  <2> QED
    BY <1>8, <2>1, Zenon
<1> QED
  BY <1>1, <1>2, <1>4, <1>9

-----------------------------------------------------------------------------
(* What createMinimalChanges writes down on its way through the table.     *)

ChangesOf(S) == [kind : {"delete", "insert"}, line : Nat, text : S, cut : BOOLEAN]

\* The two kinds of changes are changes.
LEMMA AreChanges ==
  ASSUME NEW S, NEW line \in Nat, NEW text \in S
  PROVE  /\ Delete(line, text) \in ChangesOf(S) /\ Insert(line, text) \in ChangesOf(S)
         /\ Delete(line, text).kind = "delete" /\ Delete(line, text).line = line /\ Delete(line, text).text = text
         /\ Insert(line, text).kind = "insert" /\ Insert(line, text).line = line /\ Insert(line, text).text = text
BY DEF Delete, Insert, ChangesOf

\* Each cell's changes follow from those of the cells behind it.
Alike(a, b, i, j)         == i <= Len(a) /\ j <= Len(b) /\ a[i] = b[j]
Inserting(rows, a, b, i, j) == j <= Len(b) /\ (i > Len(a) \/ rows[<<i, j + 1>>] > rows[<<i + 1, j>>])

WalkAt(walk, a, b, offset, i, j) ==
  walk[<<i, j>>] =
    IF i > Len(a) /\ j > Len(b) THEN <<>>
    ELSE IF Alike(a, b, i, j) THEN walk[<<i + 1, j + 1>>]
    ELSE IF Inserting(Rows(a, b), a, b, i, j) THEN BeginningWith(Insert(offset + j, b[j]), walk[<<i, j + 1>>])
    ELSE BeginningWith(Delete(offset + i, a[i]), walk[<<i + 1, j>>])

IsWalk(walk, S, a, b, offset) ==
  \A i \in 1..(Len(a) + 1), j \in 1..(Len(b) + 1) :
    walk[<<i, j>>] \in Seq(ChangesOf(S)) /\ WalkAt(walk, a, b, offset, i, j)

\* diffLines: the changes of two texts are those of the first cell of a walk.
LEMMA Walking ==
  ASSUME NEW S, NEW a \in Seq(S), NEW b \in Seq(S), NEW offset \in Nat
  PROVE  \E walk : IsWalk(walk, S, a, b, offset) /\ MinimalChanges(a, b, offset) = walk[<<1, 1>>]
<1> DEFINE m == Len(a)
           n == Len(b)
           C == ChangesOf(S)
           rows == Rows(a, b)
           Value(i, j, down, right, across) ==
             IF i > m /\ j > n THEN <<>>
             ELSE IF Alike(a, b, i, j) THEN across
             ELSE IF Inserting(rows, a, b, i, j) THEN BeginningWith(Insert(offset + j, b[j]), right)
             ELSE BeginningWith(Delete(offset + i, a[i]), down)
           step == [cell \in Table(m, n) |-> [behind \in Seq(C) \X Seq(C) \X Seq(C) |->
                      Value(cell[1], cell[2], behind[1], behind[2], behind[3])]]
           Same(i, j)    == i <= Len(a) /\ j <= Len(b) /\ a[i] = b[j]
           Inserts(i, j) == j <= Len(b) /\ (i > Len(a) \/ rows[<<i, j + 1>>] > rows[<<i + 1, j>>])
           Is(f) == f = [cell \in Cells(a, b) |->
                      LET i == cell[1]
                          j == cell[2]
                      IN IF i > Len(a) /\ j > Len(b) THEN <<>>
                         ELSE IF Same(i, j)    THEN f[<<i + 1, j + 1>>]
                         ELSE IF Inserts(i, j) THEN <<Insert(offset + j, b[j])>> \o f[<<i, j + 1>>]
                         ELSE <<Delete(offset + i, a[i])>> \o f[<<i + 1, j>>]]
           walk == CHOOSE f : Is(f)
<1>1. m \in Nat /\ n \in Nat /\ Table(m, n) = Cells(a, b)
  BY LenProperties DEF Table, Cells
<1>2. ASSUME NEW i \in 1..(m + 1), NEW j \in 1..(n + 1), NEW down \in Seq(C), NEW right \in Seq(C), NEW across \in Seq(C)
      PROVE  Value(i, j, down, right, across) \in Seq(C)
  <2>1. <<>> \in Seq(C)
    BY EmptySeq
  <2>2. j <= n => BeginningWith(Insert(offset + j, b[j]), right) \in Seq(C)
    <3> SUFFICES ASSUME j <= n
                 PROVE  BeginningWith(Insert(offset + j, b[j]), right) \in Seq(C)
      OBVIOUS
    <3>1. offset + j \in Nat /\ b[j] \in S
      <4>1. j \in 1..n
        BY <1>1
      <4> QED
        BY <4>1, ElementOfSeq
    <3> QED
      BY <3>1, AreChanges, BeginningIsOneMore
  <2>3. i <= m => BeginningWith(Delete(offset + i, a[i]), down) \in Seq(C)
    <3> SUFFICES ASSUME i <= m
                 PROVE  BeginningWith(Delete(offset + i, a[i]), down) \in Seq(C)
      OBVIOUS
    <3>1. offset + i \in Nat /\ a[i] \in S
      <4>1. i \in 1..m
        BY <1>1
      <4> QED
        BY <4>1, ElementOfSeq
    <3> QED
      BY <3>1, AreChanges, BeginningIsOneMore
  <2>4. \/ i > m /\ j > n
        \/ j <= n /\ i > m /\ Inserting(rows, a, b, i, j)
        \/ i <= m
    BY <1>1 DEF Inserting
  <2>5. Inserting(rows, a, b, i, j) => j <= n
    BY DEF Inserting
  <2> QED
    BY <2>1, <2>2, <2>3, <2>4, <2>5, Zenon
<1>3. \A cell \in Table(m, n) : cell[1] \in 1..(m + 1) /\ cell[2] \in 1..(n + 1) /\ cell = <<cell[1], cell[2]>>
  BY DEF Table
<1>4. /\ step \in [Table(m, n) -> [Seq(C) \X Seq(C) \X Seq(C) -> Seq(C)]]
      /\ \A i \in 1..(m + 1), j \in 1..(n + 1), down, right, across \in Seq(C) :
           step[<<i, j>>][<<down, right, across>>] = Value(i, j, down, right, across)
  <2> HIDE DEF Value, m, n, C
  <2>1. \A behind \in Seq(C) \X Seq(C) \X Seq(C) : behind[1] \in Seq(C) /\ behind[2] \in Seq(C) /\ behind[3] \in Seq(C)
    OBVIOUS
  <2>2. step \in [Table(m, n) -> [Seq(C) \X Seq(C) \X Seq(C) -> Seq(C)]]
    BY <1>2, <1>3, <2>1
  <2>3. \A i \in 1..(m + 1), j \in 1..(n + 1) : <<i, j>> \in Table(m, n)
    BY DEF Table
  <2> QED
    BY <2>2, <2>3
<1> HIDE DEF step
<1>5. PICK f \in [Table(m, n) -> Seq(C)] :
        \A i \in 1..(m + 1), j \in 1..(n + 1) : Fills(f, m, n, <<>>, step, i, j)
  <2>1. <<>> \in Seq(C)
    BY EmptySeq
  <2> HIDE DEF m, n, C
  <2> QED
    BY <1>1, <1>4, <2>1, TableRecursion
<1>6. \A i \in 1..(m + 1), j \in 1..(n + 1) : f[<<i, j>>] \in Seq(C)
  <2> HIDE DEF C
  <2> QED
    BY DEF Table
<1>7. ASSUME NEW i \in 1..(m + 1), NEW j \in 1..(n + 1)
      PROVE  f[<<i, j>>] = IF i > m /\ j > n THEN <<>>
                           ELSE IF Alike(a, b, i, j) THEN f[<<i + 1, j + 1>>]
                           ELSE IF Inserting(rows, a, b, i, j)
                                THEN BeginningWith(Insert(offset + j, b[j]), f[<<i, j + 1>>])
                           ELSE BeginningWith(Delete(offset + i, a[i]), f[<<i + 1, j>>])
  <2>1. /\ i <= m => i + 1 \in 1..(m + 1)
        /\ j <= n => j + 1 \in 1..(n + 1)
        /\ i > m \/ i <= m
        /\ j > n \/ j <= n
        /\ i > m /\ j <= n => Inserting(rows, a, b, i, j)
        /\ Inserting(rows, a, b, i, j) => j <= n
        /\ Alike(a, b, i, j) => i <= m /\ j <= n
    BY <1>1 DEF Inserting, Alike
  <2> DEFINE down   == Below(f, m, <<>>, i, j)
             right  == Beside(f, n, <<>>, i, j)
             across == Across(f, m, n, <<>>, i, j)
  <2>2. <<>> \in Seq(C)
    BY EmptySeq
  <2> HIDE DEF m, n, C, rows
  <2>3. down \in Seq(C) /\ right \in Seq(C) /\ across \in Seq(C)
    BY <1>6, <2>1, <2>2 DEF Below, Beside, Across
  <2>4. f[<<i, j>>] = step[<<i, j>>][<<down, right, across>>]
    BY <1>5 DEF Fills
  <2>5. f[<<i, j>>] = Value(i, j, down, right, across)
    <3> HIDE DEF Value, down, right, across
    <3> QED
      BY <1>4, <2>3, <2>4
  <2>6. /\ i <= m => down = f[<<i + 1, j>>]
        /\ j <= n => right = f[<<i, j + 1>>]
        /\ i <= m /\ j <= n => across = f[<<i + 1, j + 1>>]
    BY DEF Below, Beside, Across
  <2> HIDE DEF down, right, across
  <2> QED
    BY <2>1, <2>5, <2>6, Zenon
<1>8. Is(f)
  <2>1. ASSUME NEW cell \in Cells(a, b)
        PROVE  f[cell] = LET i == cell[1]
                             j == cell[2]
                         IN IF i > Len(a) /\ j > Len(b) THEN <<>>
                            ELSE IF Same(i, j)    THEN f[<<i + 1, j + 1>>]
                            ELSE IF Inserts(i, j) THEN <<Insert(offset + j, b[j])>> \o f[<<i, j + 1>>]
                            ELSE <<Delete(offset + i, a[i])>> \o f[<<i + 1, j>>]
    <3> DEFINE i == cell[1]
               j == cell[2]
    <3>1. i \in 1..(m + 1) /\ j \in 1..(n + 1) /\ cell = <<i, j>>
      BY <1>1, <1>3
    <3> HIDE DEF i, j
    <3>2. f[<<i, j>>] = IF i > m /\ j > n THEN <<>>
                        ELSE IF Alike(a, b, i, j) THEN f[<<i + 1, j + 1>>]
                        ELSE IF Inserting(rows, a, b, i, j)
                             THEN BeginningWith(Insert(offset + j, b[j]), f[<<i, j + 1>>])
                        ELSE BeginningWith(Delete(offset + i, a[i]), f[<<i + 1, j>>])
      BY <1>7, <3>1, Zenon
    <3> QED
      BY <3>1, <3>2, Zenon DEF Alike, Inserting, BeginningWith, i, j
  <2>2. DOMAIN f = Cells(a, b) /\ f = [cell \in DOMAIN f |-> f[cell]]
    BY <1>1
  <2> QED
    BY <2>1, <2>2, Zenon
<1>9. Is(walk)
  <2> HIDE DEF Is
  <2> QED
    BY <1>8
<1>10. MinimalChanges(a, b, offset) = walk[<<1, 1>>]
  BY Zenon DEF MinimalChanges
<1> HIDE DEF walk
<1>11. ASSUME NEW i \in 1..(m + 1), NEW j \in 1..(n + 1)
       PROVE  WalkAt(walk, a, b, offset, i, j)
  <2> DEFINE cell == <<i, j>>
  <2>1. cell \in Cells(a, b) /\ cell[1] = i /\ cell[2] = j
    BY DEF Cells
  <2>2. walk[cell] = LET k == cell[1]
                         l == cell[2]
                     IN IF k > Len(a) /\ l > Len(b) THEN <<>>
                        ELSE IF Same(k, l)    THEN walk[<<k + 1, l + 1>>]
                        ELSE IF Inserts(k, l) THEN <<Insert(offset + l, b[l])>> \o walk[<<k, l + 1>>]
                        ELSE <<Delete(offset + k, a[k])>> \o walk[<<k + 1, l>>]
    <3> HIDE DEF cell
    <3>1. walk = [c \in Cells(a, b) |->
                      LET k == c[1]
                          l == c[2]
                      IN IF k > Len(a) /\ l > Len(b) THEN <<>>
                         ELSE IF Same(k, l)    THEN walk[<<k + 1, l + 1>>]
                         ELSE IF Inserts(k, l) THEN <<Insert(offset + l, b[l])>> \o walk[<<k, l + 1>>]
                         ELSE <<Delete(offset + k, a[k])>> \o walk[<<k + 1, l>>]]
      BY <1>9
    <3> QED
      BY <2>1, <3>1, Zenon
  <2> HIDE DEF cell
  <2>3. walk[<<i, j>>] = IF i > Len(a) /\ j > Len(b) THEN <<>>
                         ELSE IF Same(i, j)    THEN walk[<<i + 1, j + 1>>]
                         ELSE IF Inserts(i, j) THEN <<Insert(offset + j, b[j])>> \o walk[<<i, j + 1>>]
                         ELSE <<Delete(offset + i, a[i])>> \o walk[<<i + 1, j>>]
    BY <2>1, <2>2, Zenon DEF cell
  <2> QED
    BY <2>3, Zenon DEF WalkAt, Alike, Inserting, BeginningWith
<1> DEFINE good == {cell \in Table(m, n) : walk[cell] \in Seq(C)}
<1>12. ASSUME NEW i \in 1..(m + 1), NEW j \in 1..(n + 1),
              i <= m => <<i + 1, j>> \in good,
              j <= n => <<i, j + 1>> \in good,
              i <= m /\ j <= n => <<i + 1, j + 1>> \in good
       PROVE  <<i, j>> \in good
  <2>1. <<i, j>> \in Table(m, n)
    BY DEF Table
  <2>2. <<>> \in Seq(C)
    BY EmptySeq
  <2>3. /\ i > m \/ i <= m
        /\ j > n \/ j <= n
        /\ i > m /\ j <= n => Inserting(rows, a, b, i, j)
        /\ Inserting(rows, a, b, i, j) => j <= n
        /\ Alike(a, b, i, j) => i <= m /\ j <= n
    BY <1>1 DEF Inserting, Alike
  <2> DEFINE down   == IF i <= m THEN walk[<<i + 1, j>>] ELSE <<>>
             right  == IF j <= n THEN walk[<<i, j + 1>>] ELSE <<>>
             across == IF i <= m /\ j <= n THEN walk[<<i + 1, j + 1>>] ELSE <<>>
  <2>4. down \in Seq(C) /\ right \in Seq(C) /\ across \in Seq(C)
    BY <1>12, <2>2, Zenon
  <2>5. walk[<<i, j>>] = Value(i, j, down, right, across)
    BY <1>11, <2>3, Zenon DEF WalkAt
  <2>6. walk[<<i, j>>] \in Seq(C)
    <3> HIDE DEF Value, down, right, across
    <3> QED
      BY <1>2, <2>4, <2>5
  <2> QED
    BY <2>1, <2>6
<1>13. \A i \in 1..(m + 1), j \in 1..(n + 1) : <<i, j>> \in good
  <2> HIDE DEF good, m, n
  <2> QED
    BY <1>1, <1>12, TableInduction
<1>14. IsWalk(walk, S, a, b, offset)
  BY <1>11, <1>13 DEF IsWalk
<1> QED
  BY <1>10, <1>14

-----------------------------------------------------------------------------
(* A list of changes that leaves the same lines of both texts.             *)

\* The lines the changes of one kind are about, and the other ones from a line on.
Gone(changes, kind) == {changes[k].line : k \in {k \in DOMAIN changes : changes[k].kind = kind}}
Left(lines, x, changes, kind) == (x .. Len(lines)) \ Gone(changes, kind)

\* Each change is about a line behind the x-th, or y-th, and has its text.
Written(before, after, x, y, changes) ==
  \A k \in DOMAIN changes :
    /\ changes[k].kind = "delete" => /\ changes[k].line \in x .. Len(before)
                                     /\ changes[k].text = before[changes[k].line]
    /\ changes[k].kind = "insert" => /\ changes[k].line \in y .. Len(after)
                                     /\ changes[k].text = after[changes[k].line]

\* The changes turn what follows the one line into what follows the other, and leave
\* "size" lines as they are.
Tells(S, before, after, x, y, changes, size) ==
  /\ changes \in Seq(ChangesOf(S))
  /\ Written(before, after, x, y, changes)
  /\ ItemsAt(before, Left(before, x, changes, "delete")) = ItemsAt(after, Left(after, y, changes, "insert"))
  /\ Len(ItemsAt(before, Left(before, x, changes, "delete"))) = size
  /\ Len(changes) + 2 * size = (Len(before) + 1 - x) + (Len(after) + 1 - y)

\* The items of a list with one more before them.
LEMMA BeginningItems ==
  ASSUME NEW S, NEW e \in S, NEW seq \in Seq(S)
  PROVE  /\ DOMAIN BeginningWith(e, seq) = 1..(Len(seq) + 1) /\ DOMAIN seq = 1..Len(seq)
         /\ BeginningWith(e, seq)[1] = e
         /\ \A k \in 1..Len(seq) : BeginningWith(e, seq)[k + 1] = seq[k]
         /\ \A k \in 1..(Len(seq) + 1) : k # 1 => k - 1 \in 1..Len(seq) /\ BeginningWith(e, seq)[k] = seq[k - 1]
<1>1. Len(seq) \in Nat /\ DOMAIN seq = 1..Len(seq)
  BY LenProperties
<1> DEFINE u == <<e>> \o seq
<1>2. u \in Seq(S) /\ Len(u) = 1 + Len(seq) /\ u[1] = e /\ \A k \in 1..Len(seq) : u[k + 1] = seq[k]
  BY <1>1
<1> HIDE DEF u
<1>3. DOMAIN u = 1..(Len(seq) + 1)
  BY <1>1, <1>2, LenProperties
<1>4. \A k \in 1..(Len(seq) + 1) : k # 1 => k - 1 \in 1..Len(seq) /\ u[k] = seq[k - 1]
  <2> SUFFICES ASSUME NEW k \in 1..(Len(seq) + 1), k # 1
               PROVE  k - 1 \in 1..Len(seq) /\ u[k] = seq[k - 1]
    OBVIOUS
  <2>1. k - 1 \in 1..Len(seq) /\ (k - 1) + 1 = k
    BY <1>1
  <2> QED
    BY <1>2, <2>1
<1> QED
  BY <1>1, <1>2, <1>3, <1>4 DEF u, BeginningWith

\* One more change is about one more line.
LEMMA GoneBegins ==
  ASSUME NEW S, NEW change \in ChangesOf(S), NEW changes \in Seq(ChangesOf(S)), NEW kind
  PROVE  Gone(BeginningWith(change, changes), kind) =
           IF change.kind = kind THEN {change.line} \cup Gone(changes, kind) ELSE Gone(changes, kind)
<1> DEFINE all == BeginningWith(change, changes)
<1>1. /\ DOMAIN all = 1..(Len(changes) + 1) /\ DOMAIN changes = 1..Len(changes)
      /\ all[1] = change
      /\ \A k \in 1..Len(changes) : all[k + 1] = changes[k]
      /\ \A k \in 1..(Len(changes) + 1) : k # 1 => k - 1 \in 1..Len(changes) /\ all[k] = changes[k - 1]
  BY BeginningItems
<1>2. Len(changes) \in Nat
  BY LenProperties
<1> HIDE DEF all
<1>3. ASSUME NEW line
      PROVE  line \in Gone(all, kind) <=> (change.kind = kind /\ line = change.line) \/ line \in Gone(changes, kind)
  <2>1. ASSUME line \in Gone(all, kind)
        PROVE  (change.kind = kind /\ line = change.line) \/ line \in Gone(changes, kind)
    <3>1. PICK k \in DOMAIN all : all[k].kind = kind /\ line = all[k].line
      BY <2>1 DEF Gone
    <3>2. CASE k = 1
      BY <1>1, <3>1, <3>2
    <3>3. CASE k # 1
      <4>1. k - 1 \in DOMAIN changes /\ all[k] = changes[k - 1]
        BY <1>1, <3>1, <3>3
      <4> QED
        BY <3>1, <4>1 DEF Gone
    <3> QED
      BY <3>2, <3>3
  <2>2. ASSUME change.kind = kind, line = change.line
        PROVE  line \in Gone(all, kind)
    <3>1. 1 \in DOMAIN all
      BY <1>1, <1>2
    <3> QED
      BY <1>1, <2>2, <3>1 DEF Gone
  <2>3. ASSUME line \in Gone(changes, kind)
        PROVE  line \in Gone(all, kind)
    <3>1. PICK k \in DOMAIN changes : changes[k].kind = kind /\ line = changes[k].line
      BY <2>3 DEF Gone
    <3>2. k + 1 \in DOMAIN all /\ all[k + 1] = changes[k]
      BY <1>1, <1>2
    <3> QED
      BY <3>1, <3>2 DEF Gone
  <2> QED
    BY <2>1, <2>2, <2>3
<1>4. Gone(all, kind) = IF change.kind = kind THEN {change.line} \cup Gone(changes, kind) ELSE Gone(changes, kind)
  <2> DEFINE one == Gone(all, kind)
             other == Gone(changes, kind)
  <2>1. \A line : line \in one <=> (change.kind = kind /\ line = change.line) \/ line \in other
    BY <1>3
  <2> HIDE DEF one, other
  <2>2. one = IF change.kind = kind THEN {change.line} \cup other ELSE other
    BY <2>1
  <2> QED
    BY <2>2 DEF one, other
<1> QED
  BY <1>4 DEF all

\* A change that is written about a line behind does not concern the line before.
LEMMA BehindIsNotGone ==
  ASSUME NEW before, NEW after, NEW x \in Nat, NEW y \in Nat, NEW changes,
         Written(before, after, x + 1, y, changes), Len(before) \in Nat
  PROVE  x \notin Gone(changes, "delete")
BY DEF Written, Gone

\* Nor does an insertion from what is behind stand before it.
LEMMA BehindIsNotGoneEither ==
  ASSUME NEW before, NEW after, NEW x \in Nat, NEW y \in Nat, NEW changes,
         Written(before, after, x, y + 1, changes), Len(after) \in Nat
  PROVE  y \notin Gone(changes, "insert")
BY DEF Written, Gone

\* Written of what is behind is written of more.
LEMMA WrittenBefore ==
  ASSUME NEW S, NEW before \in Seq(S), NEW after \in Seq(S), NEW x \in Nat, NEW y \in Nat, NEW changes,
         NEW u \in x..(x + 1), NEW v \in y..(y + 1), Written(before, after, u, v, changes)
  PROVE  Written(before, after, x, y, changes)
<1>1. Len(before) \in Nat /\ Len(after) \in Nat
  BY LenProperties
<1>2. (u..Len(before)) \subseteq (x..Len(before)) /\ (v..Len(after)) \subseteq (y..Len(after))
  BY <1>1
<1> QED
  BY <1>2 DEF Written

\* The arithmetic of the two kinds of steps.
LEMMA OneMoreKept ==
  ASSUME NEW l \in Nat, NEW size \in Nat, NEW M \in Nat, NEW N \in Nat, NEW x \in Nat, NEW y \in Nat,
         l + 2 * size = (M + 1 - (x + 1)) + (N + 1 - (y + 1))
  PROVE  l + 2 * (1 + size) = (M + 1 - x) + (N + 1 - y)
OBVIOUS

\* One more change, and one line less that is in one text only.
LEMMA OneMoreChange ==
  ASSUME NEW l \in Nat, NEW size \in Nat, NEW M \in Nat, NEW N \in Nat, NEW x \in Nat, NEW y \in Nat,
         l + 2 * size = (M + 1 - x) + (N + 1 - (y + 1)) \/ l + 2 * size = (M + 1 - (x + 1)) + (N + 1 - y)
  PROVE  (1 + l) + 2 * size = (M + 1 - x) + (N + 1 - y)
OBVIOUS

\* One more line that is the same in both texts, left as it is.
LEMMA TellsAlike ==
  ASSUME NEW S, NEW before \in Seq(S), NEW after \in Seq(S), NEW x \in 1..Len(before), NEW y \in 1..Len(after),
         NEW changes, NEW size, before[x] = after[y],
         Tells(S, before, after, x + 1, y + 1, changes, size)
  PROVE  Tells(S, before, after, x, y, changes, 1 + size)
<1>1. /\ Len(before) \in Nat /\ Len(after) \in Nat /\ x \in Nat /\ y \in Nat /\ before[x] \in S
      /\ changes \in Seq(ChangesOf(S)) /\ Len(changes) \in Nat
  BY LenProperties, ElementOfSeq DEF Tells
<1>2. Written(before, after, x, y, changes)
  <2>1. x + 1 \in x..(x + 1) /\ y + 1 \in y..(y + 1)
    BY <1>1
  <2> QED
    BY <1>1, <2>1, WrittenBefore DEF Tells
<1>3. x \notin Gone(changes, "delete") /\ y \notin Gone(changes, "insert")
  <2>1. Written(before, after, x + 1, y, changes) /\ Written(before, after, x, y + 1, changes)
    <3>1. Written(before, after, x + 1, y + 1, changes)
      BY DEF Tells
    <3>2. (x + 1) \in Nat /\ (y + 1) \in Nat
      BY <1>1
    <3>3. ((x + 1)..Len(before)) \subseteq (x..Len(before)) /\ ((y + 1)..Len(after)) \subseteq (y..Len(after))
      BY <1>1
    <3> QED
      BY <3>1, <3>3 DEF Written
  <2> QED
    BY <1>1, <2>1, BehindIsNotGone, BehindIsNotGoneEither
<1> DEFINE P == Left(before, x, changes, "delete")
           Q == Left(after, y, changes, "insert")
           P1 == Left(before, x + 1, changes, "delete")
           Q1 == Left(after, y + 1, changes, "insert")
<1>4. P \in SUBSET (x..Len(before)) /\ x \in P /\ P1 = P \ {x}
  BY <1>1, <1>3 DEF Left
<1>5. Q \in SUBSET (y..Len(after)) /\ y \in Q /\ Q1 = Q \ {y}
  BY <1>1, <1>3 DEF Left
<1> DEFINE u == ItemsAt(before, P1)
           v == ItemsAt(after, Q1)
<1>6. u = v /\ Len(u) = size /\ Len(changes) + 2 * size = (Len(before) + 1 - (x + 1)) + (Len(after) + 1 - (y + 1))
  BY DEF Tells
<1> HIDE DEF P, Q, P1, Q1
<1>7. ItemsAt(before, P) = BeginningWith(before[x], u) /\ ItemsAt(after, Q) = BeginningWith(after[y], v)
  BY <1>4, <1>5, FirstOfPlaces
<1>8. u \in Seq(S) /\ Len(u) \in Nat
  BY ItemsAreAList, LenProperties
<1> HIDE DEF u, v
<1>9. Len(BeginningWith(before[x], u)) = 1 + Len(u)
  BY <1>1, <1>8, BeginningIsOneMore
<1>10. ItemsAt(before, P) = ItemsAt(after, Q) /\ Len(ItemsAt(before, P)) = 1 + size
  BY <1>6, <1>7, <1>9
<1>11. Len(changes) + 2 * (1 + size) = (Len(before) + 1 - x) + (Len(after) + 1 - y)
  <2> DEFINE l == Len(changes)
             M == Len(before)
             N == Len(after)
  <2>1. size \in Nat /\ l \in Nat /\ M \in Nat /\ N \in Nat
    BY <1>1, <1>6, <1>8
  <2>2. l + 2 * size = (M + 1 - (x + 1)) + (N + 1 - (y + 1))
    BY <1>6
  <2> HIDE DEF l, M, N
  <2>3. l + 2 * (1 + size) = (M + 1 - x) + (N + 1 - y)
    BY <1>1, <2>1, <2>2, OneMoreKept
  <2> QED
    BY <2>3 DEF l, M, N
<1> QED
  BY <1>1, <1>2, <1>10, <1>11 DEF Tells, P, Q

\* One more line of the second text, inserted.
LEMMA TellsInsert ==
  ASSUME NEW S, NEW before \in Seq(S), NEW after \in Seq(S), NEW x \in 1..(Len(before) + 1), NEW y \in 1..Len(after),
         NEW changes, NEW size,
         Tells(S, before, after, x, y + 1, changes, size)
  PROVE  Tells(S, before, after, x, y, BeginningWith(Insert(y, after[y]), changes), size)
<1> DEFINE change == Insert(y, after[y])
           all == BeginningWith(change, changes)
<1>1. /\ Len(before) \in Nat /\ Len(after) \in Nat /\ x \in Nat /\ y \in Nat
      /\ changes \in Seq(ChangesOf(S)) /\ Len(changes) \in Nat /\ after[y] \in S
  BY LenProperties, ElementOfSeq DEF Tells
<1>2. change \in ChangesOf(S) /\ change.kind = "insert" /\ change.line = y /\ change.text = after[y]
  BY <1>1, AreChanges
<1> HIDE DEF change
<1>3. Gone(all, "delete") = Gone(changes, "delete") /\ Gone(all, "insert") = {y} \cup Gone(changes, "insert")
  <2>1. \A kind : Gone(all, kind) = IF change.kind = kind THEN {change.line} \cup Gone(changes, kind) ELSE Gone(changes, kind)
    BY <1>1, <1>2, GoneBegins
  <2> QED
    BY <1>2, <2>1
<1>4. /\ all \in Seq(ChangesOf(S)) /\ Len(all) = 1 + Len(changes)
  BY <1>1, <1>2, BeginningIsOneMore
<1>5. Written(before, after, x, y, all)
  <2>1. Written(before, after, x, y, changes)
    <3>1. x \in x..(x + 1) /\ y + 1 \in y..(y + 1)
      BY <1>1
    <3> QED
      BY <1>1, <3>1, WrittenBefore DEF Tells
  <2>2. /\ DOMAIN all = 1..(Len(changes) + 1) /\ DOMAIN changes = 1..Len(changes) /\ all[1] = change
        /\ \A k \in 1..(Len(changes) + 1) : k # 1 => k - 1 \in 1..Len(changes) /\ all[k] = changes[k - 1]
    BY <1>1, <1>2, BeginningItems
  <2>3. y \in y..Len(after)
    BY <1>1
  <2> HIDE DEF all
  <2> SUFFICES ASSUME NEW k \in DOMAIN all
               PROVE  /\ all[k].kind = "delete" => all[k].line \in x..Len(before) /\ all[k].text = before[all[k].line]
                      /\ all[k].kind = "insert" => all[k].line \in y..Len(after) /\ all[k].text = after[all[k].line]
    BY DEF Written
  <2>4. CASE k = 1
    BY <1>2, <2>2, <2>3, <2>4
  <2>5. CASE k # 1
    <3>1. k - 1 \in DOMAIN changes /\ all[k] = changes[k - 1]
      BY <2>2, <2>5
    <3> QED
      BY <2>1, <3>1 DEF Written
  <2> QED
    BY <2>4, <2>5
<1>6. Left(before, x, all, "delete") = Left(before, x, changes, "delete")
  BY <1>3 DEF Left
<1>7. Left(after, y, all, "insert") = Left(after, y + 1, changes, "insert")
  <2>1. (y..Len(after)) \ ({y} \cup Gone(changes, "insert")) = ((y + 1)..Len(after)) \ Gone(changes, "insert")
    BY <1>1
  <2> QED
    BY <1>3, <2>1 DEF Left
<1>8. /\ ItemsAt(before, Left(before, x, all, "delete")) = ItemsAt(after, Left(after, y, all, "insert"))
      /\ Len(ItemsAt(before, Left(before, x, all, "delete"))) = size
      /\ Len(changes) + 2 * size = (Len(before) + 1 - x) + (Len(after) + 1 - (y + 1))
  BY <1>6, <1>7 DEF Tells
<1>9. size \in Nat
  BY <1>8, ItemsAreAList, LenProperties
<1>10. Len(all) + 2 * size = (Len(before) + 1 - x) + (Len(after) + 1 - y)
  <2> DEFINE l == Len(changes)
             M == Len(before)
             N == Len(after)
  <2>1. l \in Nat /\ M \in Nat /\ N \in Nat
    BY <1>1
  <2>2. l + 2 * size = (M + 1 - x) + (N + 1 - (y + 1))
    BY <1>8
  <2> HIDE DEF all, l, M, N
  <2>3. (1 + l) + 2 * size = (M + 1 - x) + (N + 1 - y)
    BY <1>1, <1>9, <2>1, <2>2, OneMoreChange
  <2> QED
    BY <1>4, <2>3 DEF l, M, N
<1> HIDE DEF all
<1>11. Tells(S, before, after, x, y, all, size)
  BY <1>4, <1>5, <1>8, <1>10 DEF Tells
<1> QED
  BY <1>11 DEF all, change

\* One more line of the first text, deleted.
LEMMA TellsDelete ==
  ASSUME NEW S, NEW before \in Seq(S), NEW after \in Seq(S), NEW x \in 1..Len(before), NEW y \in 1..(Len(after) + 1),
         NEW changes, NEW size,
         Tells(S, before, after, x + 1, y, changes, size)
  PROVE  Tells(S, before, after, x, y, BeginningWith(Delete(x, before[x]), changes), size)
<1> DEFINE change == Delete(x, before[x])
           all == BeginningWith(change, changes)
<1>1. /\ Len(before) \in Nat /\ Len(after) \in Nat /\ x \in Nat /\ y \in Nat
      /\ changes \in Seq(ChangesOf(S)) /\ Len(changes) \in Nat /\ before[x] \in S
  BY LenProperties, ElementOfSeq DEF Tells
<1>2. change \in ChangesOf(S) /\ change.kind = "delete" /\ change.line = x /\ change.text = before[x]
  BY <1>1, AreChanges
<1> HIDE DEF change
<1>3. Gone(all, "insert") = Gone(changes, "insert") /\ Gone(all, "delete") = {x} \cup Gone(changes, "delete")
  <2>1. \A kind : Gone(all, kind) = IF change.kind = kind THEN {change.line} \cup Gone(changes, kind) ELSE Gone(changes, kind)
    BY <1>1, <1>2, GoneBegins
  <2> QED
    BY <1>2, <2>1
<1>4. /\ all \in Seq(ChangesOf(S)) /\ Len(all) = 1 + Len(changes)
  BY <1>1, <1>2, BeginningIsOneMore
<1>5. Written(before, after, x, y, all)
  <2>1. Written(before, after, x, y, changes)
    <3>1. x + 1 \in x..(x + 1) /\ y \in y..(y + 1)
      BY <1>1
    <3> QED
      BY <1>1, <3>1, WrittenBefore DEF Tells
  <2>2. /\ DOMAIN all = 1..(Len(changes) + 1) /\ DOMAIN changes = 1..Len(changes) /\ all[1] = change
        /\ \A k \in 1..(Len(changes) + 1) : k # 1 => k - 1 \in 1..Len(changes) /\ all[k] = changes[k - 1]
    BY <1>1, <1>2, BeginningItems
  <2>3. x \in x..Len(before)
    BY <1>1
  <2> HIDE DEF all
  <2> SUFFICES ASSUME NEW k \in DOMAIN all
               PROVE  /\ all[k].kind = "delete" => all[k].line \in x..Len(before) /\ all[k].text = before[all[k].line]
                      /\ all[k].kind = "insert" => all[k].line \in y..Len(after) /\ all[k].text = after[all[k].line]
    BY DEF Written
  <2>4. CASE k = 1
    BY <1>2, <2>2, <2>3, <2>4
  <2>5. CASE k # 1
    <3>1. k - 1 \in DOMAIN changes /\ all[k] = changes[k - 1]
      BY <2>2, <2>5
    <3> QED
      BY <2>1, <3>1 DEF Written
  <2> QED
    BY <2>4, <2>5
<1>6. Left(after, y, all, "insert") = Left(after, y, changes, "insert")
  BY <1>3 DEF Left
<1>7. Left(before, x, all, "delete") = Left(before, x + 1, changes, "delete")
  <2>1. (x..Len(before)) \ ({x} \cup Gone(changes, "delete")) = ((x + 1)..Len(before)) \ Gone(changes, "delete")
    BY <1>1
  <2> QED
    BY <1>3, <2>1 DEF Left
<1>8. /\ ItemsAt(before, Left(before, x, all, "delete")) = ItemsAt(after, Left(after, y, all, "insert"))
      /\ Len(ItemsAt(before, Left(before, x, all, "delete"))) = size
      /\ Len(changes) + 2 * size = (Len(before) + 1 - (x + 1)) + (Len(after) + 1 - y)
  BY <1>6, <1>7 DEF Tells
<1>9. size \in Nat
  BY <1>8, ItemsAreAList, LenProperties
<1>10. Len(all) + 2 * size = (Len(before) + 1 - x) + (Len(after) + 1 - y)
  <2> DEFINE l == Len(changes)
             M == Len(before)
             N == Len(after)
  <2>1. l \in Nat /\ M \in Nat /\ N \in Nat
    BY <1>1
  <2>2. l + 2 * size = (M + 1 - (x + 1)) + (N + 1 - y)
    BY <1>8
  <2> HIDE DEF all, l, M, N
  <2>3. (1 + l) + 2 * size = (M + 1 - x) + (N + 1 - y)
    BY <1>1, <1>9, <2>1, <2>2, OneMoreChange
  <2> QED
    BY <1>4, <2>3 DEF l, M, N
<1> HIDE DEF all
<1>11. Tells(S, before, after, x, y, all, size)
  BY <1>4, <1>5, <1>8, <1>10 DEF Tells
<1> QED
  BY <1>11 DEF all, change

\* Several lines that are the same in both texts.
LEMMA TellsRun ==
  ASSUME NEW S, NEW before \in Seq(S), NEW after \in Seq(S), NEW k \in Nat, NEW x \in 1..(Len(before) + 1 - k),
         NEW y \in 1..(Len(after) + 1 - k), NEW changes, NEW size \in Nat,
         \A n \in 0..(k - 1) : before[x + n] = after[y + n],
         Tells(S, before, after, x + k, y + k, changes, size)
  PROVE  Tells(S, before, after, x, y, changes, k + size)
<1> DEFINE good == {n \in 0..k : Tells(S, before, after, x + (k - n), y + (k - n), changes, n + size)}
<1>1. Len(before) \in Nat /\ Len(after) \in Nat
  BY LenProperties
<1>2. 0 \in good
  <2>1. x + (k - 0) = x + k /\ y + (k - 0) = y + k /\ 0 + size = size /\ 0 \in 0..k
    OBVIOUS
  <2> QED
    BY <2>1, Zenon
<1>3. ASSUME NEW n \in 0..k, n < k, n \in good
      PROVE  n + 1 \in good
  <2> DEFINE i == x + (k - (n + 1))
             j == y + (k - (n + 1))
  <2>1. /\ i \in 1..Len(before) /\ j \in 1..Len(after) /\ n + 1 \in 0..k
        /\ x + (k - n) = i + 1 /\ y + (k - n) = j + 1 /\ 1 + (n + size) = (n + 1) + size
        /\ k - (n + 1) \in 0..(k - 1)
    BY <1>1, <1>3
  <2>2. before[i] = after[j]
    BY <2>1
  <2>3. Tells(S, before, after, x + (k - n), y + (k - n), changes, n + size)
    BY <1>3
  <2> DEFINE left == n + size
  <2> HIDE DEF i, j, left
  <2>4. Tells(S, before, after, i + 1, j + 1, changes, left)
    BY <2>1, <2>3, Zenon DEF left
  <2>5. Tells(S, before, after, i, j, changes, 1 + left)
    BY <2>1, <2>2, <2>4, TellsAlike
  <2>6. Tells(S, before, after, x + (k - (n + 1)), y + (k - (n + 1)), changes, (n + 1) + size)
    BY <2>1, <2>5, Zenon DEF i, j, left
  <2> QED
    BY <2>1, <2>6
<1>4. k \in good
  <2> HIDE DEF good
  <2>1. 0..k \subseteq good
    BY <1>2, <1>3, UpTo
  <2> QED
    BY <2>1
<1>5. x + (k - k) = x /\ y + (k - k) = y
  BY <1>1
<1>6. Tells(S, before, after, x + (k - k), y + (k - k), changes, k + size)
  BY <1>4
<1> QED
  BY <1>5, <1>6, Zenon

\* Without a change, the common end of the two texts.
LEMMA TellsEnd ==
  ASSUME NEW S, NEW before \in Seq(S), NEW after \in Seq(S), NEW old \in Seq(S), NEW new \in Seq(S),
         NEW p, NEW q, Middle(before, after, old, new, p, q)
  PROVE  Tells(S, before, after, p + (Len(old) + 1), p + (Len(new) + 1), <<>>, q)
<1> DEFINE m == Len(old)
           n == Len(new)
           x == p + (m + 1)
           y == p + (n + 1)
<1>1. /\ m \in Nat /\ n \in Nat /\ p \in Nat /\ q \in Nat /\ Len(before) \in Nat /\ Len(after) \in Nat
      /\ Len(before) = p + m + q /\ Len(after) = p + n + q
      /\ \A k \in 1..q : before[p + m + k] = after[p + n + k]
  BY LenProperties DEF Middle
<1>2. <<>> \in Seq(ChangesOf(S)) /\ Len(<<>>) = 0 /\ DOMAIN <<>> = {}
  BY EmptySeq
<1>3. Tells(S, before, after, Len(before) + 1, Len(after) + 1, <<>>, 0)
  <2>1. Gone(<<>>, "delete") = {} /\ Gone(<<>>, "insert") = {}
    BY <1>2 DEF Gone
  <2>2. /\ Left(before, Len(before) + 1, <<>>, "delete") = {}
        /\ Left(after, Len(after) + 1, <<>>, "insert") = {}
    BY <1>1, <2>1, SMTT(30) DEF Left
  <2>3. ItemsAt(before, {}) = <<>> /\ ItemsAt(after, {}) = <<>>
    BY NoPlaces
  <2>4. Written(before, after, Len(before) + 1, Len(after) + 1, <<>>)
    BY <1>2 DEF Written
  <2>5. 0 + 2 * 0 = (Len(before) + 1 - (Len(before) + 1)) + (Len(after) + 1 - (Len(after) + 1))
    BY <1>1
  <2> QED
    BY <1>2, <2>2, <2>3, <2>4, <2>5 DEF Tells
<1>4. /\ x \in 1..(Len(before) + 1 - q) /\ y \in 1..(Len(after) + 1 - q)
      /\ x + q = Len(before) + 1 /\ y + q = Len(after) + 1 /\ q + 0 = q
  <2> HIDE DEF m, n
  <2> QED
    BY <1>1
<1>5. \A k \in 0..(q - 1) : before[x + k] = after[y + k]
  <2> SUFFICES ASSUME NEW k \in 0..(q - 1)
               PROVE  before[x + k] = after[y + k]
    OBVIOUS
  <2>1. k + 1 \in 1..q /\ x + k = p + m + (k + 1) /\ y + k = p + n + (k + 1)
    <3> HIDE DEF m, n
    <3> QED
      BY <1>1
  <2> HIDE DEF x, y, m, n
  <2> QED
    BY <1>1, <2>1
<1> HIDE DEF x, y
<1>6. Tells(S, before, after, x + q, y + q, <<>>, 0)
  BY <1>3, <1>4, Zenon
<1>7. Tells(S, before, after, x, y, <<>>, q + 0)
  BY <1>1, <1>4, <1>5, <1>6, TellsRun
<1> QED
  BY <1>4, <1>7, Zenon DEF x, y

-----------------------------------------------------------------------------
(* The changes of createLineDiff before they are cut.                      *)

\* A cell's changes tell what they should if those of the cells behind it do.
WalkTells(S, before, after, old, new, walk, p, q, i, j) ==
  Tells(S, before, after, p + i, p + j, walk[<<i, j>>], Rows(old, new)[<<i, j>>] + q)

\* So each of the three steps of the walk keeps it.
LEMMA WalkTellsHere ==
  ASSUME NEW S, NEW before \in Seq(S), NEW after \in Seq(S), NEW old \in Seq(S), NEW new \in Seq(S),
         NEW p, NEW q, NEW walk, NEW i \in 1..(Len(old) + 1), NEW j \in 1..(Len(new) + 1),
         Middle(before, after, old, new, p, q), IsWalk(walk, S, old, new, p),
         i <= Len(old) => WalkTells(S, before, after, old, new, walk, p, q, i + 1, j),
         j <= Len(new) => WalkTells(S, before, after, old, new, walk, p, q, i, j + 1),
         i <= Len(old) /\ j <= Len(new) => WalkTells(S, before, after, old, new, walk, p, q, i + 1, j + 1)
  PROVE  WalkTells(S, before, after, old, new, walk, p, q, i, j)
<1> DEFINE m == Len(old)
           n == Len(new)
           rows == Rows(old, new)
           here == rows[<<i, j>>]
           down == rows[<<i + 1, j>>]
           right == rows[<<i, j + 1>>]
           across == rows[<<i + 1, j + 1>>]
           x == p + i
           y == p + j
           M == Len(before)
           N == Len(after)
<1>1. /\ m \in Nat /\ n \in Nat /\ M \in Nat /\ N \in Nat /\ p \in Nat /\ q \in Nat
      /\ M = p + m + q /\ N = p + n + q
  BY LenProperties DEF Middle
<1>2. /\ i \in 1..(m + 1) /\ j \in 1..(n + 1)
      /\ x \in 1..(M + 1) /\ y \in 1..(N + 1)
      /\ i <= m => x \in 1..M /\ i + 1 \in 1..(m + 1)
      /\ j <= n => y \in 1..N /\ j + 1 \in 1..(n + 1)
      /\ x + 1 = p + (i + 1) /\ y + 1 = p + (j + 1)
      /\ (i > m <=> ~(i <= m)) /\ (j > n <=> ~(j <= n))
      /\ (i > m => i = m + 1) /\ (j > n => j = n + 1)
  <2>1. i \in 1..(m + 1) /\ j \in 1..(n + 1)
    OBVIOUS
  <2> HIDE DEF m, n, M, N
  <2> QED
    BY <1>1, <2>1
<1>3. /\ i <= m => old[i] = before[x] /\ old[i] \in S
      /\ j <= n => new[j] = after[y] /\ new[j] \in S
  <2>1. (i <= m => i \in 1..m) /\ (j <= n => j \in 1..n)
    BY <1>1, <1>2
  <2> QED
    BY <2>1, ElementOfSeq DEF Middle
<1>4. /\ here \in Nat /\ RowsAt(rows, old, new, i, j)
      /\ i <= m => down \in Nat /\ RowsAt(rows, old, new, i + 1, j)
      /\ j <= n => right \in Nat /\ RowsAt(rows, old, new, i, j + 1)
      /\ i <= m /\ j <= n => across \in Nat
  <2>1. \A k \in 1..(m + 1), l \in 1..(n + 1) : rows[<<k, l>>] \in Nat /\ RowsAt(rows, old, new, k, l)
    BY RowsFill
  <2> HIDE DEF m, n, rows
  <2> QED
    BY <1>2, <2>1
<1>5. walk[<<i, j>>] = IF i > m /\ j > n THEN <<>>
        ELSE IF Alike(old, new, i, j) THEN walk[<<i + 1, j + 1>>]
        ELSE IF Inserting(rows, old, new, i, j) THEN BeginningWith(Insert(y, new[j]), walk[<<i, j + 1>>])
        ELSE BeginningWith(Delete(x, old[i]), walk[<<i + 1, j>>])
  <2>1. WalkAt(walk, old, new, p, i, j)
    BY DEF IsWalk
  <2> QED
    BY <2>1, Zenon DEF WalkAt
<1>6. /\ i <= m => Tells(S, before, after, x + 1, y, walk[<<i + 1, j>>], down + q)
      /\ j <= n => Tells(S, before, after, x, y + 1, walk[<<i, j + 1>>], right + q)
      /\ i <= m /\ j <= n => Tells(S, before, after, x + 1, y + 1, walk[<<i + 1, j + 1>>], across + q)
  BY <1>2, Zenon DEF WalkTells
<1>7. /\ i > m \/ j > n => here = 0
      /\ i > m /\ j <= n => right = 0
      /\ j > n /\ i <= m => down = 0
      /\ i <= m /\ j <= n => here = IF old[i] = new[j] THEN across + 1 ELSE Greater(down, right)
  BY <1>2, <1>4 DEF RowsAt
<1>8. /\ Alike(old, new, i, j) <=> i <= m /\ j <= n /\ old[i] = new[j]
      /\ Inserting(rows, old, new, i, j) <=> j <= n /\ (i > m \/ right > down)
  BY DEF Alike, Inserting
<1> HIDE DEF m, n, M, N, x, y, rows, here, down, right, across
<1>9. CASE i > m /\ j > n
  <2>1. Tells(S, before, after, p + (m + 1), p + (n + 1), <<>>, q)
    BY TellsEnd DEF m, n
  <2>2. here + q = q /\ x = p + (m + 1) /\ y = p + (n + 1) /\ walk[<<i, j>>] = <<>>
    BY <1>1, <1>2, <1>5, <1>7, <1>9 DEF x, y
  <2> QED
    BY <2>1, <2>2, Zenon DEF WalkTells, here, rows, x, y
<1>10. CASE ~(i > m /\ j > n) /\ Alike(old, new, i, j)
  <2> DEFINE size == across + q
  <2>1. /\ x \in 1..M /\ y \in 1..N /\ before[x] = after[y]
        /\ 1 + size = here + q /\ walk[<<i, j>>] = walk[<<i + 1, j + 1>>]
    <3>1. i <= m /\ j <= n /\ old[i] = new[j]
      BY <1>8, <1>10
    <3>2. x \in 1..M /\ y \in 1..N /\ before[x] = after[y]
      BY <1>2, <1>3, <3>1
    <3>3. here = across + 1 /\ across \in Nat
      BY <1>4, <1>7, <3>1
    <3>4. 1 + size = here + q
      BY <1>1, <3>3
    <3>5. walk[<<i, j>>] = walk[<<i + 1, j + 1>>]
      BY <1>5, <1>10, Zenon
    <3> QED
      BY <3>2, <3>4, <3>5
  <2>2. Tells(S, before, after, x + 1, y + 1, walk[<<i + 1, j + 1>>], size)
    BY <1>6, <1>8, <1>10
  <2> HIDE DEF size
  <2>3. Tells(S, before, after, x, y, walk[<<i + 1, j + 1>>], 1 + size)
    BY <2>1, <2>2, TellsAlike DEF M, N
  <2> QED
    BY <2>1, <2>3, Zenon DEF WalkTells, here, rows, x, y
<1>11. CASE ~(i > m /\ j > n) /\ ~Alike(old, new, i, j) /\ Inserting(rows, old, new, i, j)
  <2> DEFINE size == right + q
  <2>1. /\ x \in 1..(M + 1) /\ y \in 1..N /\ new[j] = after[y]
        /\ walk[<<i, j>>] = BeginningWith(Insert(y, new[j]), walk[<<i, j + 1>>])
    BY <1>2, <1>3, <1>5, <1>8, <1>11
  <2>2. here = right
    <3>1. CASE i > m
      BY <1>7, <1>8, <1>11, <3>1
    <3>2. CASE i <= m
      <4>1. right > down /\ here = Greater(down, right) /\ right \in Nat /\ down \in Nat
        BY <1>2, <1>4, <1>7, <1>8, <1>11, <3>2
      <4> QED
        BY <4>1, GreaterOne
    <3> QED
      BY <1>2, <3>1, <3>2
  <2>3. Tells(S, before, after, x, y + 1, walk[<<i, j + 1>>], size)
    BY <1>6, <1>8, <1>11
  <2>4. here + q = size
    BY <2>2
  <2> HIDE DEF size
  <2>5. Tells(S, before, after, x, y, BeginningWith(Insert(y, after[y]), walk[<<i, j + 1>>]), size)
    BY <2>1, <2>3, TellsInsert DEF M, N
  <2> QED
    BY <2>1, <2>4, <2>5, Zenon DEF WalkTells, here, rows, x, y
<1>12. CASE ~(i > m /\ j > n) /\ ~Alike(old, new, i, j) /\ ~Inserting(rows, old, new, i, j)
  <2> DEFINE size == down + q
  <2>1. i <= m /\ (j > n \/ (j <= n /\ ~(right > down) /\ old[i] # new[j]))
    BY <1>2, <1>8, <1>12
  <2>2. /\ x \in 1..M /\ y \in 1..(N + 1) /\ old[i] = before[x]
        /\ walk[<<i, j>>] = BeginningWith(Delete(x, old[i]), walk[<<i + 1, j>>])
    BY <1>2, <1>3, <1>5, <1>12, <2>1
  <2>3. here = down
    <3>1. CASE j > n
      BY <1>7, <2>1, <3>1
    <3>2. CASE j <= n /\ ~(right > down) /\ old[i] # new[j]
      <4>1. here = Greater(down, right) /\ right \in Nat /\ down \in Nat
        BY <1>4, <1>7, <2>1, <3>2
      <4>2. down >= right
        BY <3>2, <4>1
      <4> QED
        BY <4>1, <4>2, GreaterOne
    <3> QED
      BY <2>1, <3>1, <3>2
  <2>4. Tells(S, before, after, x + 1, y, walk[<<i + 1, j>>], size)
    BY <1>6, <2>1
  <2>5. here + q = size
    BY <2>3
  <2> HIDE DEF size
  <2>6. Tells(S, before, after, x, y, BeginningWith(Delete(x, before[x]), walk[<<i + 1, j>>]), size)
    BY <2>2, <2>4, TellsDelete DEF M, N
  <2> QED
    BY <2>2, <2>5, <2>6, Zenon DEF WalkTells, here, rows, x, y
<1> QED
  BY <1>9, <1>10, <1>11, <1>12

\* What is told of what is behind the common beginning is told of the whole texts.
LEMMA TellsAll ==
  ASSUME NEW S, NEW before \in Seq(S), NEW after \in Seq(S), NEW old \in Seq(S), NEW new \in Seq(S),
         NEW p, NEW q, NEW changes, NEW size \in Nat, Middle(before, after, old, new, p, q),
         Tells(S, before, after, p + 1, p + 1, changes, size)
  PROVE  Tells(S, before, after, 1, 1, changes, p + size)
<1>1. /\ p \in Nat /\ q \in Nat /\ Len(before) = p + Len(old) + q /\ Len(after) = p + Len(new) + q
      /\ \A k \in 1..p : before[k] = after[k]
      /\ Len(old) \in Nat /\ Len(new) \in Nat
  BY LenProperties DEF Middle
<1>2. 1 \in 1..(Len(before) + 1 - p) /\ 1 \in 1..(Len(after) + 1 - p) /\ 1 + p = p + 1
  BY <1>1
<1>3. \A n \in 0..(p - 1) : before[1 + n] = after[1 + n]
  <2>1. \A n \in 0..(p - 1) : 1 + n \in 1..p
    BY <1>1
  <2> QED
    BY <1>1, <2>1
<1>4. Tells(S, before, after, 1 + p, 1 + p, changes, size)
  BY <1>2, Zenon
<1> QED
  BY <1>1, <1>2, <1>3, <1>4, TellsRun

\* createMinimalChanges turns the one text into the other.
LEMMA MinimalTells ==
  ASSUME NEW S, NEW before \in Seq(S), NEW after \in Seq(S), NEW old \in Seq(S), NEW new \in Seq(S),
         NEW p, NEW q, Middle(before, after, old, new, p, q)
  PROVE  /\ Rows(old, new)[<<1, 1>>] \in Nat
         /\ Tells(S, before, after, 1, 1, MinimalChanges(old, new, p), p + (Rows(old, new)[<<1, 1>>] + q))
<1> DEFINE m == Len(old)
           n == Len(new)
<1>1. m \in Nat /\ n \in Nat /\ p \in Nat /\ q \in Nat
  BY LenProperties DEF Middle
<1>2. PICK walk : IsWalk(walk, S, old, new, p) /\ MinimalChanges(old, new, p) = walk[<<1, 1>>]
  BY <1>1, Walking
<1> DEFINE good == {cell \in Table(m, n) : WalkTells(S, before, after, old, new, walk, p, q, cell[1], cell[2])}
<1>3. ASSUME NEW i \in 1..(m + 1), NEW j \in 1..(n + 1),
             i <= m => <<i + 1, j>> \in good,
             j <= n => <<i, j + 1>> \in good,
             i <= m /\ j <= n => <<i + 1, j + 1>> \in good
      PROVE  <<i, j>> \in good
  <2>1. /\ i <= m => WalkTells(S, before, after, old, new, walk, p, q, i + 1, j)
        /\ j <= n => WalkTells(S, before, after, old, new, walk, p, q, i, j + 1)
        /\ i <= m /\ j <= n => WalkTells(S, before, after, old, new, walk, p, q, i + 1, j + 1)
    BY <1>3
  <2>2. WalkTells(S, before, after, old, new, walk, p, q, i, j)
    BY <1>2, <2>1, WalkTellsHere
  <2> QED
    BY <2>2 DEF Table
<1>4. \A i \in 1..(m + 1), j \in 1..(n + 1) : <<i, j>> \in good
  <2> HIDE DEF good, m, n
  <2> QED
    BY <1>1, <1>3, TableInduction
<1>5. 1 \in 1..(m + 1) /\ 1 \in 1..(n + 1)
  BY <1>1
<1>6. WalkTells(S, before, after, old, new, walk, p, q, 1, 1)
  BY <1>4, <1>5
<1> DEFINE rows == Rows(old, new)[<<1, 1>>]
           size == rows + q
<1>7. rows \in Nat
  BY <1>5, RowsFill
<1>8. size \in Nat
  BY <1>1, <1>7
<1>9. Tells(S, before, after, p + 1, p + 1, MinimalChanges(old, new, p), size)
  BY <1>2, <1>6, Zenon DEF WalkTells
<1> HIDE DEF size
<1>10. Tells(S, before, after, 1, 1, MinimalChanges(old, new, p), p + size)
  BY <1>8, <1>9, TellsAll
<1> QED
  BY <1>7, <1>10 DEF size

\* A function on the numbers up to n is a list.
LEMMA AList ==
  ASSUME NEW n \in Nat, NEW S, NEW f \in [1..n -> S]
  PROVE  f \in Seq(S) /\ Len(f) = n
BY SeqDef

\* So does createReplacementChanges, which leaves what the beginning and the end have in common.
LEMMA ReplacementTells ==
  ASSUME NEW S, NEW before \in Seq(S), NEW after \in Seq(S), NEW old \in Seq(S), NEW new \in Seq(S),
         NEW p, NEW q, Middle(before, after, old, new, p, q)
  PROVE  Tells(S, before, after, 1, 1, ReplacementChanges(old, new, p), p + q)
<1> DEFINE m == Len(old)
           n == Len(new)
           M == Len(before)
           N == Len(after)
           x == p + (m + 1)
           y == p + (n + 1)
           C == ChangesOf(S)
           deletes == [i \in DOMAIN old |-> Delete(p + i, old[i])]
           inserts == [j \in DOMAIN new |-> Insert(p + j, new[j])]
           all == ReplacementChanges(old, new, p)
<1>1. /\ m \in Nat /\ n \in Nat /\ p \in Nat /\ q \in Nat /\ M \in Nat /\ N \in Nat
      /\ M = p + m + q /\ N = p + n + q
      /\ \A i \in 1..m : old[i] = before[p + i] /\ old[i] \in S
      /\ \A j \in 1..n : new[j] = after[p + j] /\ new[j] \in S
      /\ DOMAIN old = 1..m /\ DOMAIN new = 1..n
  BY LenProperties, ElementOfSeq DEF Middle
<1>2. deletes \in Seq(C) /\ Len(deletes) = m /\ inserts \in Seq(C) /\ Len(inserts) = n
  <2>1. \A i \in 1..m : Delete(p + i, old[i]) \in C
    BY <1>1, AreChanges
  <2>2. \A j \in 1..n : Insert(p + j, new[j]) \in C
    BY <1>1, AreChanges
  <2>3. deletes \in [1..m -> C] /\ inserts \in [1..n -> C]
    <3> HIDE DEF C, m, n
    <3> QED
      BY <1>1, <2>1, <2>2
  <2> HIDE DEF C, m, n, deletes, inserts
  <2> QED
    BY <1>1, <2>3, AList
<1>3. /\ \A k \in 1..m : deletes[k] = Delete(p + k, before[p + k])
      /\ \A k \in 1..n : inserts[k] = Insert(p + k, after[p + k])
  BY <1>1
<1>4. all = deletes \o inserts
  BY DEF ReplacementChanges
<1> HIDE DEF deletes, inserts, all, C
<1>5. all \in Seq(C) /\ Len(all) = m + n
  <2>1. deletes \o inserts \in Seq(C) /\ Len(deletes \o inserts) = Len(deletes) + Len(inserts)
    BY <1>2, ConcatProperties, Zenon
  <2> QED
    BY <1>2, <1>4, <2>1, Zenon
<1>6. /\ \A k \in 1..m : all[k] = Delete(p + k, before[p + k])
      /\ \A k \in 1..n : all[m + k] = Insert(p + k, after[p + k])
  <2>1. \A k \in 1..(m + n) : all[k] = IF k <= m THEN deletes[k] ELSE inserts[k - m]
    BY <1>2, <1>4, ConcatProperties
  <2>2. \A k \in 1..m : k \in 1..(m + n) /\ k <= m
    BY <1>1
  <2>3. \A k \in 1..n : m + k \in 1..(m + n) /\ ~(m + k <= m) /\ (m + k) - m = k
    BY <1>1
  <2> QED
    BY <1>3, <2>1, <2>2, <2>3
<1>7. ASSUME NEW k \in DOMAIN all
      PROVE  \/ k \in 1..m \/ \E l \in 1..n : k = m + l
  <2>1. k \in 1..(m + n)
    BY <1>5, LenProperties
  <2>2. k \in 1..m \/ (k - m \in 1..n /\ k = m + (k - m))
    <3> HIDE DEF m, n
    <3> QED
      BY <1>1, <2>1
  <2> QED
    BY <2>2
<1>8. /\ \A k \in 1..m : k \in DOMAIN all
      /\ \A k \in 1..n : m + k \in DOMAIN all
  <2>1. DOMAIN all = 1..(m + n)
    BY <1>5, LenProperties
  <2>2. (\A k \in 1..m : k \in 1..(m + n)) /\ (\A k \in 1..n : m + k \in 1..(m + n))
    <3> HIDE DEF m, n
    <3> QED
      BY <1>1
  <2> QED
    BY <2>1, <2>2
<1>9. \A line, text : /\ Delete(line, text).kind = "delete" /\ Delete(line, text).line = line /\ Delete(line, text).text = text
                      /\ Insert(line, text).kind = "insert" /\ Insert(line, text).line = line /\ Insert(line, text).text = text
  BY DEF Delete, Insert
<1>10. Gone(all, "delete") = (p + 1)..(p + m) /\ Gone(all, "insert") = (p + 1)..(p + n)
  <2>1. ASSUME NEW line \in Gone(all, "delete")
        PROVE  line \in (p + 1)..(p + m)
    <3>1. PICK k \in DOMAIN all : all[k].kind = "delete" /\ line = all[k].line
      BY DEF Gone
    <3>2. k \in 1..m
      BY <1>6, <1>7, <1>9, <3>1
    <3>3. line = p + k
      BY <1>6, <1>9, <3>1, <3>2
    <3> QED
      BY <1>1, <3>2, <3>3
  <2>2. ASSUME NEW line \in (p + 1)..(p + m)
        PROVE  line \in Gone(all, "delete")
    <3>1. line - p \in 1..m /\ p + (line - p) = line
      BY <1>1
    <3>2. all[line - p].kind = "delete" /\ all[line - p].line = line /\ line - p \in DOMAIN all
      BY <1>6, <1>8, <1>9, <3>1
    <3> QED
      BY <3>2 DEF Gone
  <2>3. ASSUME NEW line \in Gone(all, "insert")
        PROVE  line \in (p + 1)..(p + n)
    <3>1. PICK k \in DOMAIN all : all[k].kind = "insert" /\ line = all[k].line
      BY DEF Gone
    <3>2. PICK l \in 1..n : k = m + l
      <4>1. CASE k \in 1..m
        <5>1. all[k].kind = "delete"
          BY <1>6, <1>9, <4>1
        <5> QED
          BY <3>1, <5>1
      <4> QED
        BY <1>7, <4>1
    <3>3. line = p + l
      BY <1>6, <1>9, <3>1, <3>2
    <3> QED
      BY <1>1, <3>2, <3>3
  <2>4. ASSUME NEW line \in (p + 1)..(p + n)
        PROVE  line \in Gone(all, "insert")
    <3>1. line - p \in 1..n /\ p + (line - p) = line
      BY <1>1
    <3>2. all[m + (line - p)].kind = "insert" /\ all[m + (line - p)].line = line /\ m + (line - p) \in DOMAIN all
      BY <1>6, <1>8, <1>9, <3>1
    <3> QED
      BY <3>2 DEF Gone
  <2> QED
    BY <2>1, <2>2, <2>3, <2>4
<1>11. Written(before, after, p + 1, p + 1, all)
  <2> SUFFICES ASSUME NEW k \in DOMAIN all
               PROVE  /\ all[k].kind = "delete" => all[k].line \in (p + 1)..Len(before) /\ all[k].text = before[all[k].line]
                      /\ all[k].kind = "insert" => all[k].line \in (p + 1)..Len(after) /\ all[k].text = after[all[k].line]
    BY DEF Written
  <2>1. CASE k \in 1..m
    <3>1. p + k \in (p + 1)..Len(before)
      BY <1>1, <2>1
    <3> QED
      BY <1>6, <1>9, <2>1, <3>1
  <2>2. CASE \E l \in 1..n : k = m + l
    <3>1. PICK l \in 1..n : k = m + l
      BY <2>2
    <3>2. p + l \in (p + 1)..Len(after)
      BY <1>1, <3>1, SMTT(30)
    <3> QED
      BY <1>6, <1>9, <3>1, <3>2
  <2> QED
    BY <1>7, <2>1, <2>2
<1>12. Tells(S, before, after, x, y, <<>>, q)
  BY TellsEnd
<1>13. /\ Left(before, p + 1, all, "delete") = Left(before, x, <<>>, "delete")
       /\ Left(after, p + 1, all, "insert") = Left(after, y, <<>>, "insert")
  <2>1. Gone(<<>>, "delete") = {} /\ Gone(<<>>, "insert") = {}
    BY EmptySeq DEF Gone
  <2>2. ((p + 1)..M) \ ((p + 1)..(p + m)) = (x..M) \ {} /\ ((p + 1)..N) \ ((p + 1)..(p + n)) = (y..N) \ {}
    <3> HIDE DEF m, n, M, N
    <3> QED
      BY <1>1
  <2> QED
    BY <1>10, <2>1, <2>2, Zenon DEF Left
<1>14. /\ ItemsAt(before, Left(before, p + 1, all, "delete")) = ItemsAt(after, Left(after, p + 1, all, "insert"))
       /\ Len(ItemsAt(before, Left(before, p + 1, all, "delete"))) = q
  BY <1>12, <1>13, Zenon DEF Tells
<1>15. Len(all) + 2 * q = (M + 1 - (p + 1)) + (N + 1 - (p + 1))
  <2>1. (m + n) + 2 * q = (M + 1 - (p + 1)) + (N + 1 - (p + 1))
    <3> HIDE DEF m, n, M, N
    <3>1. M + 1 - (p + 1) = m + q /\ N + 1 - (p + 1) = n + q /\ 2 * q = q + q
      BY <1>1
    <3> QED
      BY <1>1, <3>1
  <2> QED
    BY <1>5, <2>1
<1>16. Tells(S, before, after, p + 1, p + 1, all, q)
  <2> HIDE DEF x, y
  <2> QED
    BY <1>5, <1>11, <1>14, <1>15 DEF Tells, C
<1> QED
  BY <1>1, <1>16, TellsAll DEF all

\* Changes that tell so explain how the one text becomes the other.
LEMMA TellsExplains ==
  ASSUME NEW S, NEW before \in Seq(S), NEW after \in Seq(S), NEW changes, NEW size,
         Tells(S, before, after, 1, 1, changes, size)
  PROVE  Explains(changes, before, after)
<1>1. DOMAIN before = 1..Len(before) /\ DOMAIN after = 1..Len(after)
  BY LenProperties
<1>2. \A k \in DOMAIN changes : changes[k].kind \in {"delete", "insert"}
  <2>1. changes \in Seq(ChangesOf(S))
    BY DEF Tells
  <2>2. \A k \in DOMAIN changes : changes[k] \in ChangesOf(S)
    BY <2>1, LenProperties, ElementOfSeq
  <2> QED
    BY <2>2 DEF ChangesOf
<1>3. ASSUME NEW k \in DOMAIN changes
      PROVE  LET lines == IF changes[k].kind = "delete" THEN before ELSE after
             IN changes[k].line \in DOMAIN lines /\ changes[k].text = lines[changes[k].line]
  <2>1. Written(before, after, 1, 1, changes)
    BY DEF Tells
  <2> QED
    BY <1>1, <1>2, <2>1 DEF Written
<1>4. /\ Untouched(before, changes, "delete") = ItemsAt(before, Left(before, 1, changes, "delete"))
      /\ Untouched(after, changes, "insert") = ItemsAt(after, Left(after, 1, changes, "insert"))
  BY <1>1, Zenon DEF Untouched, Left, Gone
<1>5. Untouched(before, changes, "delete") = Untouched(after, changes, "insert")
  BY <1>4, Zenon DEF Tells
<1> QED
  BY <1>3, <1>5, Zenon DEF Explains

\* createMinimalChanges leaves as many lines as the texts have in common.
LEMMA MinimalLeavesMost ==
  ASSUME NEW S, NEW before \in Seq(S), NEW after \in Seq(S), NEW old \in Seq(S), NEW new \in Seq(S),
         NEW p, NEW q, Middle(before, after, old, new, p, q)
  PROVE  Len(MinimalChanges(old, new, p)) = Len(before) + Len(after) - 2 * MostInCommon(before, after)
<1> DEFINE changes == MinimalChanges(old, new, p)
           rows == Rows(old, new)[<<1, 1>>]
           size == p + (rows + q)
           Picks(lines) == {ItemsAt(lines, kept) : kept \in SUBSET DOMAIN lines}
           sizes == {Len(common) : common \in Picks(before) \cap Picks(after)}
<1>1. /\ DOMAIN before = 1..Len(before) /\ DOMAIN after = 1..Len(after)
      /\ p \in Nat /\ q \in Nat /\ rows \in Nat /\ size \in Nat /\ Len(before) \in Nat /\ Len(after) \in Nat
  <2>1. p \in Nat /\ q \in Nat
    BY DEF Middle
  <2>2. rows \in Nat
    BY MinimalTells
  <2> HIDE DEF rows
  <2> QED
    BY <2>1, <2>2, LenProperties
<1>2. Tells(S, before, after, 1, 1, changes, size)
  BY MinimalTells
<1> HIDE DEF changes, rows
<1>3. size \in sizes
  <2> DEFINE P == Left(before, 1, changes, "delete")
             Q == Left(after, 1, changes, "insert")
  <2>1. P \in SUBSET DOMAIN before /\ Q \in SUBSET DOMAIN after
    BY <1>1 DEF Left
  <2>2. ItemsAt(before, P) = ItemsAt(after, Q) /\ Len(ItemsAt(before, P)) = size
    BY <1>2, Zenon DEF Tells
  <2> HIDE DEF P, Q, size
  <2>3. ItemsAt(before, P) \in Picks(before) /\ ItemsAt(after, Q) \in Picks(after)
    BY <2>1
  <2> QED
    BY <2>2, <2>3
<1>4. ASSUME NEW s \in sizes
      PROVE  s <= size
  <2>1. PICK P \in SUBSET DOMAIN before, Q \in SUBSET DOMAIN after :
          ItemsAt(before, P) = ItemsAt(after, Q) /\ s = Len(ItemsAt(before, P))
    <3> HIDE DEF size
    <3> QED
      OBVIOUS
  <2>2. From(before, 1, P) /\ From(after, 1, Q)
    BY <1>1, <2>1 DEF From
  <2>3. s <= p + rows + q
    BY <2>1, <2>2, AtMostInCommon DEF rows
  <2>4. s \in Nat
    BY <2>1, ItemsAreAList, LenProperties
  <2> QED
    BY <1>1, <2>3, <2>4
<1>5. \A s \in sizes : s \in Nat
  <2> SUFFICES ASSUME NEW s \in sizes
               PROVE  s \in Nat
    OBVIOUS
  <2>1. PICK P \in SUBSET DOMAIN before : s = Len(ItemsAt(before, P))
    OBVIOUS
  <2> QED
    BY <2>1, ItemsAreAList, LenProperties
<1>6. MostInCommon(before, after) = Max(sizes)
  BY Zenon DEF MostInCommon
<1> HIDE DEF sizes, size
<1>7. Max(sizes) = size
  <2>1. Max(sizes) \in sizes /\ \A s \in sizes : Max(sizes) >= s
    <3>1. \A s \in sizes : size >= s
      BY <1>1, <1>4, <1>5
    <3> QED
      BY <1>3, <3>1 DEF Max
  <2> DEFINE max == Max(sizes)
  <2>2. max <= size /\ max >= size /\ max \in Nat
    BY <1>3, <1>4, <1>5, <2>1
  <2> HIDE DEF max
  <2>3. max = size
    BY <1>1, <2>2
  <2> QED
    BY <2>3 DEF max
<1>8. Len(changes) + 2 * size = (Len(before) + 1 - 1) + (Len(after) + 1 - 1) /\ Len(changes) \in Nat
  BY <1>2, LenProperties DEF Tells
<1>9. Len(changes) = Len(before) + Len(after) - 2 * size
  <2> DEFINE l == Len(changes)
             M == Len(before)
             N == Len(after)
  <2>1. l + 2 * size = (M + 1 - 1) + (N + 1 - 1) /\ l \in Nat /\ M \in Nat /\ N \in Nat
    BY <1>1, <1>8
  <2> HIDE DEF l, M, N
  <2>2. l = M + N - 2 * size
    BY <1>1, <2>1
  <2> QED
    BY <2>2 DEF l, M, N
<1> QED
  BY <1>6, <1>7, <1>9 DEF changes

-----------------------------------------------------------------------------
(* What the texts have in common at the beginning and at the end.          *)

\* Numbers up to a bound have a greatest one among them.
LEMMA Greatest ==
  ASSUME NEW N \in Nat, NEW numbers \in SUBSET (0..N), numbers # {}
  PROVE  Max(numbers) \in numbers /\ \A n \in numbers : Max(numbers) >= n
<1> DEFINE short == {N - n : n \in numbers}
<1>1. short \in SUBSET Nat /\ short # {}
  <2>1. \A n \in numbers : n \in 0..N /\ N - n \in Nat
    OBVIOUS
  <2>2. PICK n \in numbers : TRUE
    OBVIOUS
  <2>3. N - n \in short
    OBVIOUS
  <2>4. \A s \in short : s \in Nat
    BY <2>1
  <2> HIDE DEF short
  <2> QED
    BY <2>3, <2>4
<1>2. PICK least \in short : \A s \in short : least <= s
  <2> HIDE DEF short
  <2> QED
    BY <1>1, Least
<1>3. PICK greatest \in numbers : least = N - greatest
  OBVIOUS
<1>4. ASSUME NEW n \in numbers
      PROVE  greatest >= n
  <2>1. N - n \in short
    OBVIOUS
  <2>2. least <= N - n
    BY <1>2, <2>1
  <2>3. n \in 0..N /\ greatest \in 0..N
    OBVIOUS
  <2> QED
    BY <1>3, <2>2, <2>3
<1> QED
  BY <1>4 DEF Max

\* The lesser one of two numbers.
Lesser(x, y) == Min({x, y})

\* It is one of the two, and no greater than either.
LEMMA LesserOne ==
  ASSUME NEW x \in Nat, NEW y \in Nat
  PROVE  /\ Lesser(x, y) \in Nat /\ Lesser(x, y) <= x /\ Lesser(x, y) <= y
         /\ Lesser(x, y) = x \/ Lesser(x, y) = y
<1> DEFINE z == IF x <= y THEN x ELSE y
<1>1. z \in {x, y} /\ \A w \in {x, y} : z <= w
  OBVIOUS
<1>2. Min({x, y}) \in {x, y} /\ \A w \in {x, y} : Min({x, y}) <= w
  BY <1>1 DEF Min
<1> QED
  BY <1>2 DEF Lesser

\* The common beginning.
LEMMA Prefix ==
  ASSUME NEW S, NEW a \in Seq(S), NEW b \in Seq(S)
  PROVE  /\ CommonPrefix(a, b) \in 0..Lesser(Len(a), Len(b))
         /\ \A n \in 1..CommonPrefix(a, b) : a[n] = b[n]
<1> DEFINE N == Lesser(Len(a), Len(b))
           ks == {k \in 0..N : \A n \in 1..k : a[n] = b[n]}
<1>1. N \in Nat
  BY LenProperties, LesserOne
<1>2. CommonPrefix(a, b) = Max(ks)
  BY DEF CommonPrefix, Lesser
<1> HIDE DEF N
<1>3. 0 \in ks
  BY <1>1
<1>4. Max(ks) \in ks
  <2>1. ks \in SUBSET (0..N) /\ ks # {}
    BY <1>3
  <2> HIDE DEF ks
  <2> QED
    BY <1>1, <2>1, Greatest
<1> QED
  BY <1>2, <1>4 DEF N

\* The common end, which does not overlap with it.
LEMMA Suffix ==
  ASSUME NEW S, NEW a \in Seq(S), NEW b \in Seq(S), NEW p \in 0..Lesser(Len(a), Len(b))
  PROVE  /\ CommonSuffix(a, b, p) \in 0..(Lesser(Len(a), Len(b)) - p)
         /\ \A n \in 0..(CommonSuffix(a, b, p) - 1) : a[Len(a) - n] = b[Len(b) - n]
<1> DEFINE N == Lesser(Len(a), Len(b)) - p
           ks == {k \in 0..N : \A n \in 0..(k - 1) : a[Len(a) - n] = b[Len(b) - n]}
<1>1. N \in Nat
  <2>1. Lesser(Len(a), Len(b)) \in Nat
    BY LenProperties, LesserOne
  <2> QED
    BY <2>1
<1>2. CommonSuffix(a, b, p) = Max(ks)
  BY DEF CommonSuffix, Lesser
<1> HIDE DEF N
<1>3. 0 \in ks
  BY <1>1
<1>4. Max(ks) \in ks
  <2>1. ks \in SUBSET (0..N) /\ ks # {}
    BY <1>3
  <2> HIDE DEF ks
  <2> QED
    BY <1>1, <2>1, Greatest
<1> QED
  BY <1>2, <1>4 DEF N

\* What is between the first p and the last q lines.
IsBetween(sub, a, p, q) == sub = SubSeq(a, p + 1, Len(a) - q)

\* It is a list of lines, and each is found in the whole behind the first p.
LEMMA Between ==
  ASSUME NEW S, NEW a \in Seq(S), NEW p \in Nat, NEW q \in Nat, NEW sub,
         p + q <= Len(a), IsBetween(sub, a, p, q)
  PROVE  sub \in Seq(S) /\ Len(a) = p + Len(sub) + q /\ \A i \in 1..Len(sub) : sub[i] = a[p + i]
<1> DEFINE x == p + 1
           y == Len(a) - q
<1>1. Len(a) \in Nat /\ x \in Int /\ y \in Int /\ (x <= y \/ y - x + 1 = 0) /\ y - x + 1 >= 0
  BY LenProperties
<1>2. \A i \in x..y : a[i] \in S
  <2>1. \A i \in x..y : i \in 1..Len(a)
    BY <1>1
  <2> QED
    BY <2>1, ElementOfSeq
<1>7. sub = SubSeq(a, x, y)
  BY DEF IsBetween
<1> HIDE DEF x, y
<1>3. /\ sub \in Seq(S)
      /\ Len(sub) = IF x <= y THEN y - x + 1 ELSE 0
      /\ \A i \in 1..(y - x + 1) : sub[i] = a[x + i - 1]
  <2>1. /\ SubSeq(a, x, y) \in Seq(S)
        /\ Len(SubSeq(a, x, y)) = IF x <= y THEN y - x + 1 ELSE 0
        /\ \A i \in 1..(y - x + 1) : SubSeq(a, x, y)[i] = a[x + i - 1]
    BY <1>1, <1>2, SubSeqProperties
  <2> QED
    BY <1>7, <2>1, Zenon
<1>4. Len(sub) = y - x + 1
  BY <1>1, <1>3
<1>5. Len(a) = p + Len(sub) + q
  BY <1>1, <1>4 DEF x, y
<1>6. \A i \in 1..Len(sub) : sub[i] = a[p + i]
  <2> SUFFICES ASSUME NEW i \in 1..Len(sub)
               PROVE  sub[i] = a[p + i]
    OBVIOUS
  <2>1. sub[i] = a[x + i - 1]
    BY <1>3, <1>4
  <2>2. x + i - 1 = p + i
    BY <1>1, <1>4 DEF x
  <2> QED
    BY <2>1, <2>2
<1> QED
  BY <1>3, <1>5, <1>6

\* The parts that createLineDiff compares.
Compared(a, b, old, new, p, q) ==
  /\ p = CommonPrefix(a, b) /\ q = CommonSuffix(a, b, p)
  /\ IsBetween(old, a, p, q) /\ IsBetween(new, b, p, q)

\* They are the middle of the texts.
LEMMA ComparesMiddle ==
  ASSUME NEW S, NEW a \in Seq(S), NEW b \in Seq(S), NEW p, NEW q, NEW old, NEW new,
         Compared(a, b, old, new, p, q)
  PROVE  old \in Seq(S) /\ new \in Seq(S) /\ Middle(a, b, old, new, p, q)
<1> DEFINE M == Len(a)
           N == Len(b)
<1>1. M \in Nat /\ N \in Nat
  BY LenProperties
<1>2. p \in 0..Lesser(M, N) /\ \A n \in 1..p : a[n] = b[n]
  BY Prefix DEF Compared
<1>3. q \in 0..(Lesser(M, N) - p) /\ \A n \in 0..(q - 1) : a[M - n] = b[N - n]
  BY <1>2, Suffix DEF Compared
<1>4. p \in Nat /\ q \in Nat /\ p + q <= M /\ p + q <= N
  <2> DEFINE least == Lesser(M, N)
  <2>1. least \in Nat /\ least <= M /\ least <= N /\ p \in 0..least /\ q \in 0..(least - p)
    BY <1>1, <1>2, <1>3, LesserOne
  <2> HIDE DEF least, M, N
  <2>2. p \in Nat /\ p <= least /\ q \in Int /\ 0 <= q /\ q <= least - p
    BY <2>1
  <2>3. p + q <= least
    BY <2>1, <2>2
  <2> QED
    BY <1>1, <2>1, <2>2, <2>3
<1>5. /\ old \in Seq(S) /\ M = p + Len(old) + q /\ \A i \in 1..Len(old) : old[i] = a[p + i]
  <2>1. IsBetween(old, a, p, q)
    BY DEF Compared
  <2> QED
    BY <1>4, <2>1, Between
<1>6. /\ new \in Seq(S) /\ N = p + Len(new) + q /\ \A i \in 1..Len(new) : new[i] = b[p + i]
  <2>1. IsBetween(new, b, p, q)
    BY DEF Compared
  <2> QED
    BY <1>4, <2>1, Between
<1>7. Len(old) \in Nat /\ Len(new) \in Nat
  BY <1>5, <1>6, LenProperties
<1>8. ASSUME NEW k \in 1..q
      PROVE  a[p + Len(old) + k] = b[p + Len(new) + k]
  <2>1. q - k \in 0..(q - 1) /\ p + Len(old) + k = M - (q - k) /\ p + Len(new) + k = N - (q - k)
    <3> DEFINE m == Len(old)
               n == Len(new)
    <3> HIDE DEF m, n, M, N
    <3>1. M = p + m + q /\ N = p + n + q /\ m \in Nat /\ n \in Nat
      BY <1>5, <1>6, <1>7 DEF m, n
    <3>2. p \in Nat /\ q \in Nat /\ k \in 1..q
      BY <1>4
    <3>3. q - k \in 0..(q - 1) /\ p + m + k = M - (q - k) /\ p + n + k = N - (q - k)
      BY <3>1, <3>2
    <3> QED
      BY <3>3 DEF m, n
  <2> QED
    BY <1>3, <2>1
<1> QED
  BY <1>2, <1>4, <1>5, <1>6, <1>8 DEF Middle

-----------------------------------------------------------------------------
(* The limits of createLineDiff.                                           *)

\* Each change counts with its text.
LEMMA Counting ==
  ASSUME NEW L, NEW changes \in Seq(ChangesOf(Seq(L)))
  PROVE  /\ Counts(changes)[0] = 0
         /\ \A k \in 0..Len(changes) : Counts(changes)[k] \in Nat
         /\ \A k \in 1..Len(changes) : Counts(changes)[k] = Counts(changes)[k - 1] + Len(changes[k].text)
<1> DEFINE N == Len(changes)
           size(k) == Len(changes[k].text)
           Is(f) == f = [k \in 0..N |-> IF k = 0 THEN 0 ELSE f[k - 1] + Len(changes[k].text)]
           step == [k \in 1..N |-> [count \in Nat |-> count + size(k)]]
           counts == CHOOSE f : Is(f)
<1>1. N \in Nat /\ \A k \in 1..N : size(k) \in Nat
  <2>1. N \in Nat
    BY LenProperties
  <2>2. ASSUME NEW k \in 1..N
        PROVE  size(k) \in Nat
    <3>1. changes[k] \in ChangesOf(Seq(L))
      BY ElementOfSeq
    <3>2. changes[k].text \in Seq(L)
      BY <3>1 DEF ChangesOf
    <3> QED
      BY <3>2, LenProperties
  <2> QED
    BY <2>1, <2>2
<1>2. Counts(changes) = counts
  BY DEF Counts
<1> HIDE DEF N
<1>3. PICK f : Computes(f, N, Nat, 0, step)
  <2>1. step \in [1..N -> [Nat -> Nat]] /\ 0 \in Nat
    <3> HIDE DEF size
    <3> QED
      BY <1>1
  <2> HIDE DEF step
  <2> QED
    BY <1>1, <2>1, Recursion
<1>4. \A k \in 0..N : f[k] \in Nat
  BY <1>3 DEF Computes
<1>5. Is(f)
  <2>1. ASSUME NEW k \in 0..N
        PROVE  f[k] = IF k = 0 THEN 0 ELSE f[k - 1] + Len(changes[k].text)
    <3>1. CASE k = 0
      BY <1>3, <3>1 DEF Computes
    <3>2. CASE k # 0
      <4>1. k - 1 \in 0..N /\ k \in 1..N
        BY <1>1, <3>2
      <4>2. f[k] = step[k][f[k - 1]] /\ f[k - 1] \in Nat
        BY <1>3, <1>4, <4>1 DEF Computes
      <4>3. f[k] = f[k - 1] + size(k)
        <5> HIDE DEF size
        <5> QED
          BY <4>1, <4>2
      <4> QED
        BY <3>2, <4>3
    <3> QED
      BY <3>1, <3>2
  <2>2. f = [k \in 0..N |-> f[k]]
    BY <1>3 DEF Computes
  <2> QED
    BY <2>1, <2>2, Zenon
<1>6. Is(counts)
  <2> HIDE DEF Is
  <2> QED
    BY <1>5
<1> HIDE DEF counts
<1>7. ASSUME NEW k \in 0..N
      PROVE  counts[k] = IF k = 0 THEN 0 ELSE counts[k - 1] + size(k)
  BY <1>6
<1>8. counts[0] = 0
  BY <1>1, <1>7
<1>9. \A k \in 1..N : counts[k] = counts[k - 1] + size(k)
  <2>1. \A k \in 1..N : k \in 0..N /\ k # 0
    BY <1>1
  <2> QED
    BY <1>7, <2>1
<1> DEFINE good == {k \in 0..N : counts[k] \in Nat}
<1>10. 0 \in good
  BY <1>1, <1>8
<1>11. ASSUME NEW k \in 0..N, k < N, k \in good
       PROVE  k + 1 \in good
  <2>1. k + 1 \in 1..N /\ k + 1 \in 0..N /\ (k + 1) - 1 = k
    BY <1>1, <1>11
  <2>2. counts[k + 1] = counts[k] + size(k + 1) /\ counts[k] \in Nat /\ size(k + 1) \in Nat
    BY <1>1, <1>9, <1>11, <2>1
  <2> HIDE DEF size
  <2> QED
    BY <2>1, <2>2
<1>12. 0..N \subseteq good
  <2> HIDE DEF good
  <2> QED
    BY <1>1, <1>10, <1>11, UpTo
<1> QED
  BY <1>2, <1>8, <1>9, <1>12 DEF N

\* The same first changes count the same.
LEMMA CountsAgree ==
  ASSUME NEW L, NEW one \in Seq(ChangesOf(Seq(L))), NEW other \in Seq(ChangesOf(Seq(L))), NEW n \in Nat,
         n <= Len(one), n <= Len(other), \A k \in 1..n : one[k] = other[k]
  PROVE  Counts(one)[n] = Counts(other)[n]
<1>1. Len(one) \in Nat /\ Len(other) \in Nat
  BY LenProperties
<1>2. /\ Counts(one)[0] = 0
      /\ \A k \in 1..Len(one) : Counts(one)[k] = Counts(one)[k - 1] + Len(one[k].text)
  BY Counting
<1>3. /\ Counts(other)[0] = 0
      /\ \A k \in 1..Len(other) : Counts(other)[k] = Counts(other)[k - 1] + Len(other[k].text)
  BY Counting
<1> DEFINE good == {k \in 0..n : Counts(one)[k] = Counts(other)[k]}
<1>4. 0 \in good
  BY <1>2, <1>3
<1>5. ASSUME NEW k \in 0..n, k < n, k \in good
      PROVE  k + 1 \in good
  <2>1. k + 1 \in 1..n /\ k + 1 \in 1..Len(one) /\ k + 1 \in 1..Len(other) /\ k + 1 \in 0..n /\ (k + 1) - 1 = k
    BY <1>1, <1>5
  <2>2. Counts(one)[k + 1] = Counts(one)[k] + Len(one[k + 1].text)
    BY <1>2, <2>1
  <2>3. Counts(other)[k + 1] = Counts(other)[k] + Len(other[k + 1].text)
    BY <1>3, <2>1
  <2>4. one[k + 1] = other[k + 1]
    BY <2>1
  <2> QED
    BY <1>5, <2>1, <2>2, <2>3, <2>4
<1>6. n \in good
  <2> HIDE DEF good
  <2>1. 0..n \subseteq good
    BY <1>4, <1>5, UpTo
  <2> QED
    BY <2>1
<1> QED
  BY <1>6

\* A change whose text is cut is a change.
CutTo(change, rest) == [change EXCEPT !.text = SubSeq(@, 1, rest), !.cut = TRUE]

\* It has as much text as there was room for.
LEMMA CutChange ==
  ASSUME NEW L, NEW change \in ChangesOf(Seq(L)), NEW rest \in Nat, rest < Len(change.text)
  PROVE  CutTo(change, rest) \in ChangesOf(Seq(L)) /\ Len(CutTo(change, rest).text) = rest
<1>1. change.text \in Seq(L) /\ Len(change.text) \in Nat
  BY LenProperties DEF ChangesOf
<1> DEFINE text == change.text
           less == SubSeq(text, 1, rest)
           cut  == CutTo(change, rest)
<1>2. \A i \in 1..rest : text[i] \in L
  <2>1. \A i \in 1..rest : i \in 1..Len(text)
    BY <1>1
  <2> QED
    BY <1>1, <2>1, ElementOfSeq
<1>3. less \in Seq(L) /\ Len(less) = IF 1 <= rest THEN rest - 1 + 1 ELSE 0
  <2> HIDE DEF text
  <2> QED
    BY <1>2, SubSeqProperties
<1>4. Len(less) = rest
  BY <1>3
<1> HIDE DEF less
<1>5. cut = [change EXCEPT !.text = less, !.cut = TRUE]
  BY DEF less, CutTo
<1> HIDE DEF cut
<1>6. cut \in ChangesOf(Seq(L)) /\ cut.text = less
  BY <1>3, <1>5 DEF ChangesOf
<1> QED
  BY <1>4, <1>6 DEF cut

\* What is returned is within the limits, and all there is unless something is missing.
LEMMA Bounding ==
  ASSUME NEW L, NEW changes \in Seq(ChangesOf(Seq(L))), NEW maxChars \in Nat, NEW result,
         result = Bounded(changes, maxChars)
  PROVE  /\ Characters(result) <= maxChars /\ Len(result) <= MaxEntries
         /\ Len(result) = Len(changes) /\ Characters(result) = Characters(changes) => result = changes
<1> DEFINE C     == ChangesOf(Seq(L))
           N     == Len(changes)
           most  == Lesser(N, MaxEntries)
           fits  == {k \in 0..most : Counts(changes)[k] <= maxChars}
           whole == Max(fits)
           kept  == SubSeq(changes, 1, whole)
           rest  == maxChars - Characters(kept)
           cut   == [changes[whole + 1] EXCEPT !.text = SubSeq(@, 1, rest), !.cut = TRUE]
<1>1. N \in Nat /\ MaxEntries \in Nat
  BY LenProperties, LimitsAssumption
<1>2. most \in Nat /\ most <= N /\ most <= MaxEntries
  BY <1>1, LesserOne
<1>3. /\ Counts(changes)[0] = 0
      /\ \A k \in 0..N : Counts(changes)[k] \in Nat
      /\ \A k \in 1..N : Counts(changes)[k] = Counts(changes)[k - 1] + Len(changes[k].text)
  BY Counting
<1>4. result = IF whole < most /\ rest > 0 THEN Append(kept, cut) ELSE kept
  BY Zenon DEF Bounded, Lesser
<1> HIDE DEF most, N
<1>5. whole \in 0..most /\ Counts(changes)[whole] <= maxChars /\ \A k \in fits : whole >= k
  <2>1. 0 \in fits
    BY <1>2, <1>3
  <2>2. fits \in SUBSET (0..most) /\ fits # {}
    BY <2>1
  <2>3. whole \in fits /\ \A k \in fits : whole >= k
    <3> HIDE DEF fits
    <3> QED
      BY <1>2, <2>2, Greatest
  <2> HIDE DEF whole
  <2> QED
    BY <2>3
<1> HIDE DEF whole
<1>6. whole \in Nat /\ whole <= N /\ whole <= MaxEntries
  BY <1>1, <1>2, <1>5
<1>7. kept \in Seq(C) /\ Len(kept) = whole /\ \A k \in 1..whole : kept[k] = changes[k]
  <2>1. \A k \in 1..whole : k \in 1..N
    BY <1>1, <1>6
  <2>2. \A k \in 1..whole : changes[k] \in C
    BY <2>1, ElementOfSeq DEF N
  <2> HIDE DEF C
  <2>3. /\ kept \in Seq(C) /\ Len(kept) = IF 1 <= whole THEN whole - 1 + 1 ELSE 0
        /\ \A k \in 1..(whole - 1 + 1) : kept[k] = changes[1 + k - 1]
    BY <1>6, <2>2, SubSeqProperties
  <2> HIDE DEF kept
  <2>4. \A k \in 1..whole : k \in 1..(whole - 1 + 1) /\ 1 + k - 1 = k
    BY <1>6
  <2> QED
    BY <1>6, <2>3, <2>4
<1>8. Characters(kept) = Counts(changes)[whole]
  <2>1. Counts(kept)[whole] = Counts(changes)[whole]
    <3> HIDE DEF kept
    <3>1. whole <= Len(kept) /\ whole <= Len(changes)
      BY <1>6, <1>7 DEF N
    <3> QED
      BY <1>6, <1>7, <3>1, CountsAgree
  <2> QED
    BY <1>7, <2>1 DEF Characters
<1>9. CASE ~(whole < most /\ rest > 0)
  <2>1. result = kept
    BY <1>4, <1>9
  <2>2. Characters(result) <= maxChars /\ Len(result) <= MaxEntries
    BY <1>5, <1>6, <1>7, <1>8, <2>1
  <2>3. Len(result) = N => result = changes
    <3>1. ASSUME whole = N
          PROVE  kept = changes
      BY <3>1, SubSeqFull DEF N
    <3> QED
      BY <1>7, <2>1, <3>1
  <2> QED
    BY <2>2, <2>3 DEF N
<1>10. CASE whole < most /\ rest > 0
  <2>1. rest \in Nat /\ rest = maxChars - Counts(changes)[whole] /\ Counts(changes)[whole] \in Nat
    <3>1. Counts(changes)[whole] \in Nat
      BY <1>1, <1>3, <1>6
    <3> QED
      BY <1>5, <1>8, <3>1
  <2>2. whole + 1 \in 1..N /\ whole + 1 \in 0..most /\ (whole + 1) - 1 = whole
    BY <1>1, <1>2, <1>6, <1>10
  <2> DEFINE size == Len(changes[whole + 1].text)
  <2>3. changes[whole + 1] \in C
    BY <2>2, ElementOfSeq DEF N
  <2>4. size \in Nat
    <3>1. changes[whole + 1].text \in Seq(L)
      BY <2>3 DEF ChangesOf
    <3> QED
      BY <3>1, LenProperties
  <2>5. Counts(changes)[whole + 1] = Counts(changes)[whole] + size
    BY <1>3, <2>2
  <2>6. ~(Counts(changes)[whole + 1] <= maxChars)
    <3>1. ASSUME Counts(changes)[whole + 1] <= maxChars
          PROVE  FALSE
      <4>1. whole + 1 \in fits
        BY <2>2, <3>1
      <4>2. whole >= whole + 1
        BY <1>5, <4>1
      <4> QED
        BY <1>6, <4>2
    <3> QED
      BY <3>1
  <2>7. rest < size
    <3> DEFINE c == Counts(changes)[whole]
    <3>1. ~(c + size <= maxChars) /\ rest = maxChars - c /\ c \in Nat
      BY <2>1, <2>5, <2>6
    <3> HIDE DEF c, size, rest
    <3> QED
      BY <2>4, <3>1
  <2>8. cut \in C /\ Len(cut.text) = rest
    <3> DEFINE change == changes[whole + 1]
    <3> HIDE DEF rest
    <3>1. change \in ChangesOf(Seq(L)) /\ rest \in Nat /\ rest < Len(change.text)
      BY <2>1, <2>3, <2>7
    <3>2. cut = CutTo(change, rest)
      BY DEF cut, CutTo
    <3> HIDE DEF cut, change
    <3> QED
      BY <3>1, <3>2, CutChange
  <2> HIDE DEF kept, rest, cut, size
  <2>9. result = Append(kept, cut)
    BY <1>4, <1>10
  <2>10. /\ result \in Seq(C) /\ Len(result) = whole + 1 /\ result[whole + 1] = cut
         /\ \A k \in 1..whole : result[k] = changes[k]
    <3>1. \A k \in 1..whole : k \in 1..Len(kept)
      BY <1>7
    <3>2. /\ Append(kept, cut) \in Seq(C) /\ Len(Append(kept, cut)) = Len(kept) + 1
          /\ Append(kept, cut)[Len(kept) + 1] = cut
          /\ \A k \in 1..Len(kept) : Append(kept, cut)[k] = kept[k]
      <4> HIDE DEF C
      <4> QED
        BY <1>7, <2>8, AppendProperties
    <3> QED
      BY <1>7, <2>9, <3>1, <3>2
  <2>11. Counts(result)[whole] = Counts(changes)[whole]
    <3>1. whole <= Len(result) /\ whole <= Len(changes)
      BY <1>6, <2>10 DEF N
    <3> QED
      BY <1>6, <2>10, <3>1, CountsAgree
  <2>12. Characters(result) = maxChars
    <3>1. Counts(result)[whole + 1] = Counts(result)[(whole + 1) - 1] + Len(result[whole + 1].text)
      <4>1. whole + 1 \in 1..Len(result)
        BY <1>6, <2>10
      <4> QED
        BY <2>10, <4>1, Counting
    <3>2. Characters(result) = Counts(changes)[whole] + rest
      BY <2>2, <2>8, <2>10, <2>11, <3>1 DEF Characters
    <3> QED
      BY <2>1, <3>2
  <2>13. Len(result) <= MaxEntries
    BY <1>1, <1>2, <1>6, <1>10, <2>10
  <2>14. ~(Len(result) = N /\ Characters(result) = Characters(changes))
    <3>1. Len(result) = N => Characters(changes) = Counts(changes)[whole + 1]
      BY <2>10 DEF Characters, N
    <3> QED
      BY <2>6, <2>12, <3>1
  <2> QED
    BY <2>12, <2>13, <2>14 DEF N
<1> QED
  BY <1>9, <1>10

-----------------------------------------------------------------------------
(* The difference of two texts.                                            *)

\* The lines of a text are texts.
LEMMA LinesAreTexts ==
  ASSUME NEW L, NEW text \in Seq(L)
  PROVE  SplitLines(text) \in Seq(Seq(L))
<1> DEFINE N     == Len(text)
           ends  == {i \in 1..N : text[i] = NewLine}
           each  == [i \in 1..N |-> i]
           inner == ItemsAt(each, ends)
           marks == <<0>> \o inner \o <<N + 1>>
           Line(k) == SubSeq(text, marks[k] + 1, marks[k + 1] - 1)
           lines == [k \in 1..(Len(marks) - 1) |-> Line(k)]
<1>1. N \in Nat /\ \A i \in 1..N : text[i] \in L
  BY LenProperties, ElementOfSeq
<1>2. SplitLines(text) = IF text = <<>> THEN <<>> ELSE lines
  BY Zenon DEF SplitLines
<1> HIDE DEF N
<1>3. inner \in Seq(0..(N + 1))
  <2>1. each \in Seq(0..(N + 1))
    <3>1. each \in [1..N -> 0..(N + 1)]
      BY <1>1
    <3> HIDE DEF each
    <3> QED
      BY <1>1, <3>1, AList
  <2> HIDE DEF each, ends
  <2> QED
    BY <2>1, ItemsAreAList
<1>4. marks \in Seq(0..(N + 1)) /\ Len(marks) \in Nat /\ Len(marks) >= 1
  <2> HIDE DEF inner
  <2>1. <<0>> \in Seq(0..(N + 1)) /\ <<N + 1>> \in Seq(0..(N + 1)) /\ Len(<<0>>) = 1 /\ Len(<<N + 1>>) = 1
    BY <1>1
  <2>2. <<0>> \o inner \in Seq(0..(N + 1)) /\ Len(<<0>> \o inner) = 1 + Len(inner) /\ Len(inner) \in Nat
    BY <1>3, <2>1, ConcatProperties, LenProperties
  <2> DEFINE some == <<0>> \o inner
  <2>3. some \in Seq(0..(N + 1)) /\ Len(some) \in Nat
    BY <2>2
  <2> HIDE DEF some
  <2>4. some \o <<N + 1>> \in Seq(0..(N + 1)) /\ Len(some \o <<N + 1>>) = Len(some) + 1
    BY <2>1, <2>3, ConcatProperties
  <2>5. marks = some \o <<N + 1>>
    BY DEF some
  <2> HIDE DEF marks
  <2> QED
    BY <2>3, <2>4, <2>5, LenProperties
<1> HIDE DEF inner, marks
<1>5. ASSUME NEW k \in 1..(Len(marks) - 1)
      PROVE  Line(k) \in Seq(L)
  <2>1. k \in 1..Len(marks) /\ k + 1 \in 1..Len(marks)
    BY <1>4
  <2>2. marks[k] \in 0..(N + 1) /\ marks[k + 1] \in 0..(N + 1)
    BY <1>4, <2>1, ElementOfSeq
  <2> DEFINE x == marks[k] + 1
             y == marks[k + 1] - 1
  <2>3. x \in Int /\ y \in Int /\ \A i \in x..y : i \in 1..N
    BY <1>1, <2>2
  <2> HIDE DEF x, y
  <2>4. \A i \in x..y : text[i] \in L
    BY <1>1, <2>3
  <2>5. SubSeq(text, x, y) \in Seq(L)
    BY <2>3, <2>4, SubSeqProperties
  <2> QED
    BY <2>5 DEF x, y
<1>6. lines \in Seq(Seq(L))
  <2>1. Len(marks) - 1 \in Nat
    BY <1>4
  <2>2. lines \in [1..(Len(marks) - 1) -> Seq(L)]
    <3> HIDE DEF Line
    <3> QED
      BY <1>5
  <2> HIDE DEF lines
  <2> QED
    BY <2>1, <2>2, AList
<1> HIDE DEF lines
<1> QED
  BY <1>2, <1>6, EmptySeq

\* A difference is within its limits; if nothing is missing, it turns the first text
\* into the second; and if it is said to be minimal, it is (createLineDiff).
LEMMA DifferenceIsRight ==
  ASSUME NEW L, NEW beforeText \in Seq(L), NEW afterText \in Seq(L), NEW maxChars \in Nat, NEW diff,
         diff = CreateLineDiff(beforeText, afterText, maxChars)
  PROVE  /\ Characters(diff.changes) <= maxChars /\ Len(diff.changes) <= MaxEntries
         /\ ~diff.truncated => Explains(diff.changes, SplitLines(beforeText), SplitLines(afterText))
         /\ diff.minimal => diff.count = Len(SplitLines(beforeText)) + Len(SplitLines(afterText))
                                           - 2 * MostInCommon(SplitLines(beforeText), SplitLines(afterText))
<1> DEFINE S       == Seq(L)
           before  == SplitLines(beforeText)
           after   == SplitLines(afterText)
           p       == CommonPrefix(before, after)
           q       == CommonSuffix(before, after, p)
           old     == SubSeq(before, p + 1, Len(before) - q)
           new     == SubSeq(after, p + 1, Len(after) - q)
           minimal == Len(old) * Len(new) <= MaxCells
           changes == IF minimal THEN MinimalChanges(old, new, p) ELSE ReplacementChanges(old, new, p)
           result  == Bounded(changes, maxChars)
<1>1. before \in Seq(S) /\ after \in Seq(S)
  BY LinesAreTexts
<1>2. diff = [changes |-> result, minimal |-> minimal, count |-> Len(changes),
              truncated |-> Len(result) # Len(changes) \/ Characters(result) # Characters(changes)]
  BY Zenon DEF CreateLineDiff
<1> HIDE DEF before, after, minimal, result, S
<1>3. Compared(before, after, old, new, p, q)
  BY Zenon DEF Compared, IsBetween
<1> HIDE DEF old, new, p, q
<1>4. old \in Seq(S) /\ new \in Seq(S) /\ Middle(before, after, old, new, p, q)
  BY <1>1, <1>3, ComparesMiddle
<1>5. PICK size : Tells(S, before, after, 1, 1, changes, size)
  <2>1. CASE minimal
    <3>1. \E size : Tells(S, before, after, 1, 1, MinimalChanges(old, new, p), size)
      BY <1>1, <1>4, MinimalTells
    <3> QED
      BY <2>1, <3>1, Zenon
  <2>2. CASE ~minimal
    <3>1. \E size : Tells(S, before, after, 1, 1, ReplacementChanges(old, new, p), size)
      BY <1>1, <1>4, ReplacementTells
    <3> QED
      BY <2>2, <3>1, Zenon
  <2> QED
    BY <2>1, <2>2
<1>6. minimal => Len(changes) = Len(before) + Len(after) - 2 * MostInCommon(before, after)
  <2> SUFFICES ASSUME minimal
               PROVE  Len(changes) = Len(before) + Len(after) - 2 * MostInCommon(before, after)
    OBVIOUS
  <2>1. Len(MinimalChanges(old, new, p)) = Len(before) + Len(after) - 2 * MostInCommon(before, after)
    BY <1>1, <1>4, MinimalLeavesMost
  <2> QED
    BY <2>1, Zenon
<1> HIDE DEF changes
<1>7. changes \in Seq(ChangesOf(Seq(L)))
  BY <1>5 DEF Tells, S
<1>8. /\ Characters(result) <= maxChars /\ Len(result) <= MaxEntries
      /\ Len(result) = Len(changes) /\ Characters(result) = Characters(changes) => result = changes
  <2>1. result = Bounded(changes, maxChars)
    BY DEF result
  <2> QED
    BY <1>7, <2>1, Bounding
<1>9. Explains(changes, before, after)
  BY <1>1, <1>5, TellsExplains
<1>10. /\ diff.changes = result /\ diff.minimal = minimal /\ diff.count = Len(changes)
       /\ diff.truncated = (Len(result) # Len(changes) \/ Characters(result) # Characters(changes))
  BY <1>2
<1>11. ~diff.truncated => Explains(diff.changes, before, after)
  <2> SUFFICES ASSUME ~diff.truncated
               PROVE  Explains(diff.changes, before, after)
    OBVIOUS
  <2>1. Len(result) = Len(changes) /\ Characters(result) = Characters(changes)
    BY <1>10
  <2>2. diff.changes = changes
    BY <1>8, <1>10, <2>1
  <2> QED
    BY <1>9, <2>2
<1>12. diff.minimal => diff.count = Len(before) + Len(after) - 2 * MostInCommon(before, after)
  BY <1>6, <1>10, Zenon
<1>13. Characters(diff.changes) <= maxChars /\ Len(diff.changes) <= MaxEntries
  BY <1>8, <1>10, Zenon
<1> QED
  BY <1>11, <1>12, <1>13, Zenon DEF before, after

-----------------------------------------------------------------------------
(* The theorem about the difference.                                       *)

\* A text that is clipped is a text.
LEMMA ClippedText ==
  ASSUME NEW text \in Seq(Letters)
  PROVE  Clip(text) \in Seq(Letters)
<1> DEFINE n == Lesser(Len(text), SourceLimit)
<1>1. Len(text) \in Nat /\ SourceLimit \in Nat
  BY LenProperties, TextsAssumption
<1>2. n \in Nat /\ n <= Len(text)
  BY <1>1, LesserOne
<1>3. Clip(text) = SubSeq(text, 1, n)
  BY Zenon DEF Clip, Lesser
<1> HIDE DEF n
<1>4. \A i \in 1..n : text[i] \in Letters
  <2>1. \A i \in 1..n : i \in 1..Len(text)
    BY <1>1, <1>2
  <2> QED
    BY <2>1, ElementOfSeq
<1>5. SubSeq(text, 1, n) \in Seq(Letters)
  BY <1>2, <1>4, SubSeqProperties
<1> QED
  BY <1>3, <1>5

\* Whatever the two texts are, the difference that diffTabContent answers turns the
\* first into the second unless it says that something is missing, is minimal if it
\* says so, and keeps its limits.
THEOREM DifferencesAreRight == Spec => []DiffIsRight
<1>1. ASSUME IInv PROVE DiffIsRight
  <2> SUFFICES ASSUME NEW c \in Clients, Answered(c, "diff")
               PROVE  LET diff == calls[c].result.diff
                          got  == calls[c].of.got
                          lines(k) == SplitLines(Clip(got[k].text))
                      IN /\ Characters(diff.changes) <= calls[c].of.limit /\ Len(diff.changes) <= MaxEntries
                         /\ ~calls[c].result.cut /\ ~diff.truncated =>
                              Explains(diff.changes, SplitLines(got[1].text), SplitLines(got[2].text))
                         /\ diff.minimal =>
                              diff.count = Len(lines(1)) + Len(lines(2)) - 2 * MostInCommon(lines(1), lines(2))
    BY DEF DiffIsRight
  <2> DEFINE diff  == calls[c].result.diff
             got   == calls[c].of.got
             limit == calls[c].of.limit
             one   == Clip(got[1].text)
             other == Clip(got[2].text)
  <2>1. DifferenceOf(calls[c], limit, got)
    BY <1>1, AnswerKnown DEF Answered, AnswerOK
  <2>2. limit \in Nat /\ got[1].text \in Seq(Letters) /\ got[2].text \in Seq(Letters)
    <3>1. limit \in DiffLimits \cup {0} /\ got[1] \in Pages /\ got[2] \in Pages
      BY <2>1 DEF DifferenceOf
    <3>2. got[1].text \in PageTexts /\ got[2].text \in PageTexts
      BY <3>1 DEF Pages
    <3>3. DiffLimits \cup {0} \subseteq Nat /\ PageTexts \subseteq Seq(Letters)
      BY TextsAssumption
    <3> QED
      BY <3>1, <3>2, <3>3, Zenon
  <2>3. one \in Seq(Letters) /\ other \in Seq(Letters)
    BY <2>2, ClippedText
  <2>4. /\ diff = CreateLineDiff(one, other, limit)
        /\ calls[c].result.cut = (\E k \in 1 .. 2 : got[k].text # Clip(got[k].text))
    BY <2>1 DEF DifferenceOf
  <2> HIDE DEF diff, limit, one, other
  <2>5. /\ Characters(diff.changes) <= limit /\ Len(diff.changes) <= MaxEntries
        /\ ~diff.truncated => Explains(diff.changes, SplitLines(one), SplitLines(other))
        /\ diff.minimal => diff.count = Len(SplitLines(one)) + Len(SplitLines(other))
                                          - 2 * MostInCommon(SplitLines(one), SplitLines(other))
    BY <2>2, <2>3, <2>4, DifferenceIsRight
  <2>6. ~calls[c].result.cut => one = got[1].text /\ other = got[2].text
    <3>1. ~calls[c].result.cut => \A k \in 1 .. 2 : got[k].text = Clip(got[k].text)
      BY <2>4, Zenon
    <3>2. 1 \in 1 .. 2 /\ 2 \in 1 .. 2
      OBVIOUS
    <3> QED
      BY <3>1, <3>2, Zenon DEF one, other
  <2>7. ~calls[c].result.cut /\ ~diff.truncated =>
          Explains(diff.changes, SplitLines(got[1].text), SplitLines(got[2].text))
    BY <2>5, <2>6, Zenon
  <2> QED
    BY <2>5, <2>7, Zenon DEF diff, limit, one, other
<1> QED BY <1>1, Invariance, PTL
=============================================================================
