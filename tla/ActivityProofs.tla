---------------------------- MODULE ActivityProofs ----------------------------
(***************************************************************************)
(* What holds of Activity for any tabs, any sessions of the browser and    *)
(* any failures: what is remembered of a tab has happened to it, and once  *)
(* all is quiet nothing is missing.                                        *)
(***************************************************************************)
EXTENDS Activity, CommonLemmas

-----------------------------------------------------------------------------
(* The inductive invariant.  Its parts speak of a sequence p of events that *)
(* are still to be handled, of the tabs that are open (o) and have been     *)
(* known (k), and of what has happened to them (h).                         *)

Ev(type, t) == [type |-> type, tab |-> t]

Has(p, type, t) == \E i \in DOMAIN p : p[i] = Ev(type, t)
Activations(p, t) == {i \in DOMAIN p : p[i] = Ev("tab-activated", t)}
Number(p, t) == Cardinality(Activations(p, t))

\* A record says no more than has happened, even with the events in p; or just that.
Covered(r, p, t, h) ==
  /\ r.activationCount + Number(p, t) <= h[t].activationCount
  /\ r.created \/ Has(p, "tab-created", t) => h[t].created
  /\ r.moved \/ Has(p, "tab-moved", t) => h[t].moved
  /\ r.groupChanged \/ Has(p, "tab-updated", t) => h[t].groupChanged

Complete(r, p, t, h) ==
  /\ r.activationCount + Number(p, t) = h[t].activationCount
  /\ r.created \/ Has(p, "tab-created", t) <=> h[t].created
  /\ r.moved \/ Has(p, "tab-moved", t) <=> h[t].moved
  /\ r.groupChanged \/ Has(p, "tab-updated", t) <=> h[t].groupChanged

\* Events come in order: a tab's creation is its first and its removal its last,
\* and a tab that is not open any more has its removal behind what else there is.
Orderly(p, o, k, h) ==
  \A t \in Tabs :
    /\ \A i \in DOMAIN p : p[i].tab = t => t \in k
    /\ t \in o => ~Has(p, "tab-removed", t)
    /\ t \notin o => \A i \in DOMAIN p : p[i].tab = t =>
                       \E j \in DOMAIN p : i <= j /\ p[j] = Ev("tab-removed", t)
    /\ \A i, j \in DOMAIN p : i < j /\ p[i].tab = t /\ p[j].tab = t =>
         p[i] # Ev("tab-removed", t) /\ p[j] # Ev("tab-created", t)
    /\ Covered(Unseen, p, t, h)

\* What is remembered is right.
Right(s, p, k, h) ==
  \A t \in DOMAIN s.records :
    /\ t \in k
    /\ Covered(s.records[t], p, t, h)
    /\ Has(p, "tab-created", t) => s.records[t] = Unseen

\* The tabs in shown are those that are open, but for the events in p.
Shown(shown, p, o) ==
  \A t \in Tabs \ Incognito :
    /\ t \in o => t \in shown \/ Has(p, "tab-created", t)
    /\ t \in shown => t \in o \/ Has(p, "tab-removed", t)

RecordOf(records, t) == IF t \in DOMAIN records THEN records[t] ELSE Unseen

\* Nothing is missing, but for the events in p.
Full(records, p, o, h) == \A t \in o \ Incognito : Complete(RecordOf(records, t), p, t, h)

Pending == queued \o pipe

\* The state that is, or will be, in the storage, and what it says of this session.
Kept == IF writes # <<>> THEN writes[Len(writes)] ELSE local
KeptRecords == IF Kept # None /\ Kept.session = session THEN Kept.records ELSE <<>>

Stored     == ({local} \cup {writes[i] : i \in DOMAIN writes}) \ {None}
Remembered == ({state} \cup Stored) \ {None}

SessionInv ==
  /\ drawn <= spent.sessions /\ (session = None => drawn < spent.sessions)
  /\ session # None => session <= drawn
  /\ \A s \in Stored : s.session <= drawn
  /\ state # None => session # None /\ state.session = session
  /\ worker # "initializing" => read = NothingRead
  /\ read.session # None => read.session = session /\ read.local = local /\ writes = <<>>

PendingInv ==
  /\ Orderly(Pending, open, known, real)
  /\ worker = "stopped" => queued = <<>> /\ ~flushScheduled
  /\ \A t \in Tabs : real[t].activationCount <= spent.changes

RightInv == \A s \in Remembered : s.session = session => Right(s, Pending, known, real)

ShownInv ==
  /\ state # None => Shown(DOMAIN state.records, Pending, open)
  /\ read.tabs # {None} => Shown(read.tabs, Pending, open)

\* What is in the storage, or on its way there, is the state of now.
WrittenInv ==
  state # None /\ ~flushScheduled /\ (writes = <<>> => ~lastFailed) => Kept = state

FullInv ==
  ~lost => Full(IF state # None THEN state.records ELSE KeptRecords, Pending, open, real)

IInv == TypeOK /\ SessionInv /\ PendingInv /\ RightInv /\ ShownInv /\ WrittenInv /\ FullInv

-----------------------------------------------------------------------------
(* Sequences of events.                                                    *)

\* The activations of a tab in a sequence of events are finitely many, so they can be counted.
LEMMA Counted ==
  ASSUME NEW p \in Seq(Event), NEW t
  PROVE  /\ IsFiniteSet(Activations(p, t)) /\ Number(p, t) \in Nat
         /\ Len(p) \in Nat /\ DOMAIN p = 1..Len(p)
         /\ \A i \in DOMAIN p : p[i] \in Event
<1>1. Len(p) \in Nat /\ DOMAIN p = 1..Len(p) /\ \A i \in DOMAIN p : p[i] \in Event
  BY LenProperties, ElementOfSeq
<1>2. IsFiniteSet(Activations(p, t))
  <2>1. IsFiniteSet(1..Len(p))
    BY <1>1, FS_Interval
  <2>2. Activations(p, t) \in SUBSET (1..Len(p))
    BY <1>1 DEF Activations
  <2> QED
    BY <2>1, <2>2, FS_Subset
<1> QED
  BY <1>1, <1>2, FS_CardinalityType DEF Number

\* Nothing is pending.
LEMMA NoEvents ==
  ASSUME NEW t
  PROVE  <<>> \in Seq(Event) /\ Number(<<>>, t) = 0 /\ \A type : ~Has(<<>>, type, t)
<1>1. Activations(<<>>, t) = {}
  BY DEF Activations
<1> QED
  BY <1>1, FS_EmptySet, EmptySeq DEF Number, Has

\* One more event.
LEMMA OneMore ==
  ASSUME NEW p \in Seq(Event), NEW e \in Event, NEW t
  PROVE  LET q == Append(p, e) IN
         /\ q \in Seq(Event)
         /\ DOMAIN p = 1..Len(p) /\ DOMAIN q = 1..(Len(p) + 1) /\ Len(p) \in Nat
         /\ \A i \in DOMAIN p : q[i] = p[i]
         /\ q[Len(p) + 1] = e
         /\ \A type : Has(q, type, t) <=> Has(p, type, t) \/ e = Ev(type, t)
         /\ Number(q, t) = IF e = Ev("tab-activated", t) THEN Number(p, t) + 1 ELSE Number(p, t)
<1> DEFINE q == Append(p, e)
<1>1. /\ Len(p) \in Nat /\ DOMAIN p = 1..Len(p)
      /\ q \in Seq(Event) /\ DOMAIN q = 1..(Len(p) + 1)
      /\ \A i \in DOMAIN p : q[i] = p[i]
      /\ q[Len(p) + 1] = e
  BY Counted
<1> HIDE DEF q
<1>2. \A type : Has(q, type, t) <=> Has(p, type, t) \/ e = Ev(type, t)
  BY <1>1 DEF Has
<1>3. CASE e = Ev("tab-activated", t)
  <2>1. Activations(q, t) = Activations(p, t) \cup {Len(p) + 1} /\ Len(p) + 1 \notin Activations(p, t)
    BY <1>1, <1>3 DEF Activations
  <2>2. Number(q, t) = Number(p, t) + 1
    BY <2>1, Counted, FS_AddElement DEF Number
  <2> QED
    BY <1>1, <1>2, <1>3, <2>2 DEF q
<1>4. CASE e # Ev("tab-activated", t)
  <2>1. Activations(q, t) = Activations(p, t)
    BY <1>1, <1>4 DEF Activations
  <2> QED
    BY <1>1, <1>2, <1>4, <2>1 DEF q, Number
<1> QED
  BY <1>3, <1>4

\* What is left when the first m events are not to come any more.
LEMMA Later ==
  ASSUME NEW p \in Seq(Event), NEW m \in 0..Len(p), NEW t
  PROVE  LET q == SubSeq(p, m + 1, Len(p)) IN
         /\ q \in Seq(Event)
         /\ DOMAIN p = 1..Len(p) /\ DOMAIN q = 1..(Len(p) - m) /\ Len(p) \in Nat /\ Len(q) = Len(p) - m
         /\ \A i \in DOMAIN q : q[i] = p[i + m]
         /\ \A type : Has(q, type, t) => Has(p, type, t)
         /\ Number(q, t) <= Number(p, t)
<1> DEFINE q == SubSeq(p, m + 1, Len(p))
           f == [i \in Activations(q, t) |-> i + m]
<1>1. Len(p) \in Nat /\ DOMAIN p = 1..Len(p) /\ \A i \in DOMAIN p : p[i] \in Event
  BY Counted
<1>2. /\ q \in Seq(Event) /\ DOMAIN q = 1..(Len(p) - m) /\ Len(q) = Len(p) - m
      /\ \A i \in DOMAIN q : q[i] = p[i + m]
  <2>1. /\ q \in Seq(Event)
        /\ Len(q) = IF m + 1 <= Len(p) THEN Len(p) - (m + 1) + 1 ELSE 0
        /\ \A i \in 1..(Len(p) - (m + 1) + 1) : q[i] = p[m + 1 + i - 1]
    <3>1. m + 1 \in Int /\ Len(p) \in Int /\ \A i \in (m + 1)..Len(p) : p[i] \in Event
      BY <1>1
    <3> QED
      BY <3>1, SubSeqProperties
  <2>2. /\ (IF m + 1 <= Len(p) THEN Len(p) - (m + 1) + 1 ELSE 0) = Len(p) - m
        /\ Len(p) - (m + 1) + 1 = Len(p) - m
        /\ \A i \in 1..(Len(p) - m) : m + 1 + i - 1 = i + m
    <3>1. Len(p) \in Nat /\ m \in Nat /\ m <= Len(p)
      BY <1>1
    <3> DEFINE L == Len(p)
    <3> HIDE DEF L
    <3>2. L \in Nat /\ m <= L
      BY <3>1 DEF L
    <3>3. /\ (IF m + 1 <= L THEN L - (m + 1) + 1 ELSE 0) = L - m
          /\ L - (m + 1) + 1 = L - m
      BY <3>1, <3>2
    <3>4. \A i \in 1..(L - m) : m + 1 + i - 1 = i + m
      BY <3>1, <3>2
    <3> QED
      BY <3>3, <3>4 DEF L
  <2> HIDE DEF q
  <2>3. Len(q) = Len(p) - m
    BY <2>1, <2>2
  <2>4. DOMAIN q = 1..(Len(p) - m)
    BY <2>1, <2>3, LenProperties
  <2>5. \A i \in 1..(Len(p) - m) : q[i] = p[i + m]
    BY <2>1, <2>2
  <2> QED
    BY <2>1, <2>3, <2>4, <2>5
<1> HIDE DEF q
<1>3. \A type : Has(q, type, t) => Has(p, type, t)
  BY <1>1, <1>2 DEF Has
<1>4. Number(q, t) <= Number(p, t)
  <2>1. f \in Injection(Activations(q, t), Activations(p, t))
    <3>1. \A i \in Activations(q, t) : i \in Nat /\ i + m \in Activations(p, t)
      BY <1>1, <1>2 DEF Activations
    <3>2. f \in [Activations(q, t) -> Activations(p, t)]
      BY <3>1
    <3>3. IsInjective(f)
      BY <3>1 DEF IsInjective
    <3> QED
      BY <3>2, <3>3 DEF Injection
  <2> QED
    BY <2>1, Counted, FS_Injection DEF Number
<1> QED
  BY <1>1, <1>2, <1>3, <1>4 DEF q

\* What is left when the first event has been handled.
LEMMA OneLess ==
  ASSUME NEW p \in Seq(Event), p # <<>>, NEW t
  PROVE  LET q == Tail(p) IN
         /\ q \in Seq(Event)
         /\ Len(p) \in Nat \ {0} /\ DOMAIN p = 1..Len(p) /\ DOMAIN q = 1..(Len(p) - 1)
         /\ \A i \in DOMAIN q : q[i] = p[i + 1]
         /\ Head(p) = p[1] /\ p[1] \in Event
         /\ \A type : Has(p, type, t) <=> Has(q, type, t) \/ p[1] = Ev(type, t)
         /\ Number(p, t) = IF p[1] = Ev("tab-activated", t) THEN Number(q, t) + 1 ELSE Number(q, t)
<1> DEFINE q == Tail(p)
           f == [i \in Activations(q, t) |-> i + 1]
<1>1. /\ q \in Seq(Event)
      /\ Len(p) \in Nat \ {0} /\ DOMAIN p = 1..Len(p) /\ DOMAIN q = 1..(Len(p) - 1)
      /\ \A i \in DOMAIN q : q[i] = p[i + 1]
      /\ Head(p) = p[1] /\ p[1] \in Event
  BY HeadTailProperties, LenProperties, EmptySeq, ElementOfSeq
<1> HIDE DEF q
<1>2. \A type : Has(p, type, t) <=> Has(q, type, t) \/ p[1] = Ev(type, t)
  <2> SUFFICES ASSUME NEW type
               PROVE  Has(p, type, t) <=> Has(q, type, t) \/ p[1] = Ev(type, t)
    OBVIOUS
  <2>1. ASSUME NEW i \in DOMAIN p, p[i] = Ev(type, t), i # 1
        PROVE  i - 1 \in DOMAIN q /\ q[i - 1] = Ev(type, t)
    BY <1>1, <2>1
  <2>2. ASSUME NEW i \in DOMAIN q, q[i] = Ev(type, t)
        PROVE  i + 1 \in DOMAIN p /\ p[i + 1] = Ev(type, t)
    BY <1>1, <2>2
  <2> QED
    BY <1>1, <2>1, <2>2 DEF Has
<1>3. /\ IsFiniteSet(Activations(q, t)) /\ Number(q, t) \in Nat
      /\ IsFiniteSet(Activations(p, t)) /\ Number(p, t) \in Nat
  BY <1>1, Counted
<1>4. Cardinality(Activations(p, t) \ {1}) = Number(q, t)
  <2>1. ASSUME NEW i \in Activations(q, t)
        PROVE  i \in Nat /\ i + 1 \in Activations(p, t) \ {1}
    BY <1>1, <2>1 DEF Activations
  <2>2. ASSUME NEW j \in Activations(p, t) \ {1}
        PROVE  j - 1 \in Activations(q, t) /\ f[j - 1] = j
    <3>1. j - 1 \in DOMAIN q /\ q[j - 1] = p[j] /\ (j - 1) + 1 = j
      BY <1>1, <2>2 DEF Activations
    <3> QED
      BY <2>2, <3>1 DEF Activations
  <2>3. f \in [Activations(q, t) -> Activations(p, t) \ {1}]
    BY <2>1
  <2>4. IsInjective(f)
    BY <2>1 DEF IsInjective
  <2>5. f \in Bijection(Activations(q, t), Activations(p, t) \ {1})
    BY <2>2, <2>3, <2>4 DEF Bijection, Injection, Surjection
  <2> QED
    BY <1>3, <2>5, FS_Bijection DEF ExistsBijection, Number
<1>5. Cardinality(Activations(p, t) \ {1}) = IF 1 \in Activations(p, t) THEN Number(p, t) - 1 ELSE Number(p, t)
  BY <1>3, FS_RemoveElement DEF Number
<1>6. 1 \in Activations(p, t) <=> p[1] = Ev("tab-activated", t)
  BY <1>1 DEF Activations
<1>7. Number(p, t) = IF p[1] = Ev("tab-activated", t) THEN Number(q, t) + 1 ELSE Number(q, t)
  BY <1>3, <1>4, <1>5, <1>6
<1> QED
  BY <1>1, <1>2, <1>7 DEF q

-----------------------------------------------------------------------------
(* What handling one event does to what is remembered.                     *)

\* With fewer events to come, what has been said of the events is still true.
LEMMA LeftOrderly ==
  ASSUME NEW p \in Seq(Event), NEW m \in 0..Len(p), NEW o, NEW k, NEW h \in [Tabs -> Record], Orderly(p, o, k, h)
  PROVE  Orderly(SubSeq(p, m + 1, Len(p)), o, k, h)
<1> DEFINE q == SubSeq(p, m + 1, Len(p))
<1> SUFFICES ASSUME NEW t \in Tabs
             PROVE  /\ \A i \in DOMAIN q : q[i].tab = t => t \in k
                    /\ t \in o => ~Has(q, "tab-removed", t)
                    /\ t \notin o => \A i \in DOMAIN q : q[i].tab = t =>
                                       \E j \in DOMAIN q : i <= j /\ q[j] = Ev("tab-removed", t)
                    /\ \A i, j \in DOMAIN q : i < j /\ q[i].tab = t /\ q[j].tab = t =>
                         q[i] # Ev("tab-removed", t) /\ q[j] # Ev("tab-created", t)
                    /\ Covered(Unseen, q, t, h)
  BY DEF Orderly
<1>1. /\ q \in Seq(Event)
      /\ Len(p) \in Nat /\ DOMAIN p = 1..Len(p) /\ DOMAIN q = 1..(Len(p) - m)
      /\ \A i \in DOMAIN q : q[i] = p[i + m]
      /\ \A type : Has(q, type, t) => Has(p, type, t)
      /\ Number(q, t) <= Number(p, t)
  BY Later
<1> HIDE DEF q
<1>2. /\ \A i \in DOMAIN p : p[i].tab = t => t \in k
      /\ t \in o => ~Has(p, "tab-removed", t)
      /\ t \notin o => \A i \in DOMAIN p : p[i].tab = t =>
                         \E j \in DOMAIN p : i <= j /\ p[j] = Ev("tab-removed", t)
      /\ \A i, j \in DOMAIN p : i < j /\ p[i].tab = t /\ p[j].tab = t =>
           p[i] # Ev("tab-removed", t) /\ p[j] # Ev("tab-created", t)
      /\ Covered(Unseen, p, t, h)
  BY DEF Orderly
<1>3. \A i \in DOMAIN q : i + m \in DOMAIN p /\ i \in Nat
  BY <1>1
<1>4. \A i \in DOMAIN q : q[i].tab = t => t \in k
  BY <1>1, <1>2, <1>3
<1>5. t \in o => ~Has(q, "tab-removed", t)
  BY <1>1, <1>2
<1>6. ASSUME t \notin o, NEW i \in DOMAIN q, q[i].tab = t
      PROVE  \E j \in DOMAIN q : i <= j /\ q[j] = Ev("tab-removed", t)
  <2>1. PICK j \in DOMAIN p : i + m <= j /\ p[j] = Ev("tab-removed", t)
    BY <1>1, <1>2, <1>3, <1>6
  <2>2. j - m \in DOMAIN q /\ i <= j - m /\ (j - m) + m = j
    BY <1>1, <1>3, <2>1
  <2> QED
    BY <1>1, <2>1, <2>2
<1>7. ASSUME NEW i \in DOMAIN q, NEW j \in DOMAIN q, i < j, q[i].tab = t, q[j].tab = t
      PROVE  q[i] # Ev("tab-removed", t) /\ q[j] # Ev("tab-created", t)
  <2>1. i + m \in DOMAIN p /\ j + m \in DOMAIN p /\ i + m < j + m
    BY <1>3, <1>7
  <2> QED
    BY <1>1, <1>2, <1>7, <2>1
<1>8. Covered(Unseen, q, t, h)
  <2>1. Number(p, t) \in Nat /\ Number(q, t) \in Nat
    BY <1>1, Counted
  <2> QED
    BY <1>1, <1>2, <2>1, BoundAssumption DEF Covered, Unseen, Record
<1> QED
  BY <1>4, <1>5, <1>6, <1>7, <1>8

\* What is left of an orderly sequence after its first event is orderly.
LEMMA Handled ==
  ASSUME NEW p \in Seq(Event), p # <<>>, NEW o, NEW k, NEW h \in [Tabs -> Record], Orderly(p, o, k, h)
  PROVE  Orderly(Tail(p), o, k, h)
<1>1. Tail(p) = SubSeq(p, 2, Len(p)) /\ 1 + 1 = 2 /\ 1 \in 0..Len(p)
  <2>1. Len(p) \in Nat \ {0}
    BY EmptySeq
  <2> QED
    BY <2>1, TailIsSubSeq
<1>2. Orderly(SubSeq(p, 1 + 1, Len(p)), o, k, h)
  BY <1>1, LeftOrderly
<1> QED
  BY <1>1, <1>2

\* ... and so is what is remembered without it.
LEMMA StillRight ==
  ASSUME NEW p \in Seq(Event), NEW q \in Seq(Event), NEW k, NEW h \in [Tabs -> Record],
         \A t \in Tabs : /\ Number(q, t) <= Number(p, t)
                        /\ \A type : Has(q, type, t) => Has(p, type, t),
         NEW s \in States, Right(s, p, k, h)
  PROVE  Right(s, q, k, h)
<1> SUFFICES ASSUME NEW t \in DOMAIN s.records
             PROVE  /\ t \in k
                    /\ Covered(s.records[t], q, t, h)
                    /\ Has(q, "tab-created", t) => s.records[t] = Unseen
  BY DEF Right
<1>1. t \in Tabs /\ s.records[t] \in Record
  BY DEF States
<1>2. t \in k /\ Covered(s.records[t], p, t, h) /\ (Has(p, "tab-created", t) => s.records[t] = Unseen)
  BY DEF Right
<1>3. Number(p, t) \in Nat /\ Number(q, t) \in Nat
  BY Counted
<1> QED
  BY <1>1, <1>2, <1>3, BoundAssumption DEF Covered, Record

\* What the reducer does, by the event.
LEMMA Reduced ==
  ASSUME NEW s \in States, NEW e \in Event
  PROVE  LET u == Reduce(s, e)
             same == e.type = "group-changed" \/ (e.type = "tab-created" /\ e.tab \in Incognito)
             r == Updated(RecordOf(s.records, e.tab), e.type)
         IN /\ u = [session |-> s.session, records |-> u.records]
            /\ same => u.records = s.records
            /\ e.type = "tab-removed" =>
                 /\ DOMAIN u.records = DOMAIN s.records \ {e.tab}
                 /\ u.records = [t \in DOMAIN u.records |-> s.records[t]]
            /\ ~same /\ e.type # "tab-removed" =>
                 /\ e = Ev(e.type, e.tab) /\ e.tab \in Tabs /\ e.type \in {"tab-created"} \cup ChangeKinds
                 /\ DOMAIN u.records = DOMAIN s.records \cup {e.tab}
                 /\ u.records = [t \in DOMAIN u.records |-> IF t = e.tab THEN r ELSE s.records[t]]
<1> DEFINE u == Reduce(s, e)
           same == e.type = "group-changed" \/ (e.type = "tab-created" /\ e.tab \in Incognito)
           r == Updated(RecordOf(s.records, e.tab), e.type)
<1>1. s = [session |-> s.session, records |-> s.records]
  BY DEF States
<1>2. CASE same
  <2>1. u = s
    BY <1>2 DEF Reduce
  <2> QED
    BY <1>1, <1>2, <2>1
<1>3. CASE e.type = "tab-removed"
  <2>1. u = [s EXCEPT !.records = Restrict(@, DOMAIN @ \ {e.tab})]
    BY <1>3 DEF Reduce
  <2>2. u = [session |-> s.session, records |-> [t \in DOMAIN s.records \ {e.tab} |-> s.records[t]]]
    BY <1>1, <2>1 DEF Restrict
  <2> HIDE DEF u
  <2>3. /\ u = [session |-> s.session, records |-> u.records]
        /\ DOMAIN u.records = DOMAIN s.records \ {e.tab}
        /\ u.records = [t \in DOMAIN u.records |-> s.records[t]]
    BY <2>2
  <2> QED
    BY <1>3, <2>3 DEF u
<1>4. CASE ~same /\ e.type # "tab-removed"
  <2>1. u = UpdateRecord(s, e.tab, e.type)
    BY <1>4 DEF Reduce
  <2>2. u = [session |-> s.session,
             records |-> [t \in DOMAIN s.records \cup {e.tab} |-> IF t = e.tab THEN r ELSE s.records[t]]]
    BY <1>1, <2>1 DEF UpdateRecord, RecordOf
  <2> HIDE DEF u, r
  <2>3. /\ u = [session |-> s.session, records |-> u.records]
        /\ DOMAIN u.records = DOMAIN s.records \cup {e.tab}
        /\ u.records = [t \in DOMAIN u.records |-> IF t = e.tab THEN r ELSE s.records[t]]
    BY <2>2
  <2>4. e = Ev(e.type, e.tab) /\ e.tab \in Tabs /\ e.type \in {"tab-created"} \cup ChangeKinds
    BY <1>4 DEF Event, Ev
  <2> QED
    BY <1>4, <2>3, <2>4 DEF u, r
<1> HIDE DEF u, same, r
<1> QED
  BY <1>2, <1>3, <1>4 DEF u, same, r

\* The reducer keeps what is remembered right, shown and full.
LEMMA ReduceKeeps ==
  ASSUME NEW p \in Seq(Event), p # <<>>, NEW o \in SUBSET Tabs, NEW k, NEW h \in [Tabs -> Record],
         Orderly(p, o, k, h), NEW s \in States, Right(s, p, k, h)
  PROVE  LET u == Reduce(s, Head(p)) IN
         /\ u \in States /\ u.session = s.session
         /\ Right(u, Tail(p), k, h)
         /\ Shown(DOMAIN s.records, p, o) => Shown(DOMAIN u.records, Tail(p), o)
         /\ Full(s.records, p, o, h) => Full(u.records, Tail(p), o, h)
<1> DEFINE e == Head(p)
           q == Tail(p)
           u == Reduce(s, e)
           same == e.type = "group-changed" \/ (e.type = "tab-created" /\ e.tab \in Incognito)
           updated == ~same /\ e.type # "tab-removed"
           r == Updated(RecordOf(s.records, e.tab), e.type)
<1>1. e \in Event /\ q \in Seq(Event) /\ 1 \in DOMAIN p /\ e = p[1]
  BY OneLess
<1>2. /\ u = [session |-> s.session, records |-> u.records]
      /\ same => u.records = s.records
      /\ e.type = "tab-removed" =>
           /\ DOMAIN u.records = DOMAIN s.records \ {e.tab}
           /\ u.records = [t \in DOMAIN u.records |-> s.records[t]]
      /\ updated =>
           /\ e = Ev(e.type, e.tab) /\ e.tab \in Tabs /\ e.type \in {"tab-created"} \cup ChangeKinds
           /\ DOMAIN u.records = DOMAIN s.records \cup {e.tab}
           /\ u.records = [t \in DOMAIN u.records |-> IF t = e.tab THEN r ELSE s.records[t]]
  BY <1>1, Reduced
<1>3. /\ s.session \in SessionIDs /\ DOMAIN s.records \subseteq Tabs
      /\ s.records = [t \in DOMAIN s.records |-> s.records[t]]
      /\ \A t \in DOMAIN s.records : s.records[t] \in Record
  BY DEF States
<1>4. ASSUME NEW t
      PROVE  /\ \A type : Has(p, type, t) <=> Has(q, type, t) \/ e = Ev(type, t)
             /\ Number(p, t) = IF e = Ev("tab-activated", t) THEN Number(q, t) + 1 ELSE Number(q, t)
             /\ Number(p, t) \in Nat /\ Number(q, t) \in Nat
  BY <1>1, OneLess, Counted, ZenonT(40)
<1>5. ASSUME NEW t \in Tabs
      PROVE  /\ \A i \in DOMAIN p : p[i].tab = t => t \in k
             /\ t \in o => ~Has(p, "tab-removed", t)
             /\ t \notin o => \A i \in DOMAIN p : p[i].tab = t =>
                                \E j \in DOMAIN p : i <= j /\ p[j] = Ev("tab-removed", t)
             /\ Covered(Unseen, p, t, h)
  BY DEF Orderly
\* The first event is the only one of its tab, or a creation, or none is to come.
<1>6. ASSUME NEW t \in Tabs, e.tab = t
      PROVE  ~Has(q, "tab-created", t) /\ (e.type = "tab-removed" => ~Has(q, "tab-removed", t))
  <2>1. \A j \in DOMAIN q : j + 1 \in DOMAIN p /\ 1 < j + 1 /\ q[j] = p[j + 1]
    BY OneLess
  <2>2. \A j \in DOMAIN p : 1 < j /\ p[j].tab = t => p[1] # Ev("tab-removed", t) /\ p[j] # Ev("tab-created", t)
    BY <1>1, <1>6 DEF Orderly
  <2>3. ASSUME e.type = "tab-removed" PROVE e = Ev("tab-removed", t)
    BY <1>1, <1>6, <2>3 DEF Event, Ev
  <2>4. \A type : Ev(type, t).tab = t
    BY DEF Ev
  <2> QED
    BY <1>1, <2>1, <2>2, <2>3, <2>4 DEF Has
<1> HIDE DEF e, q, u, r
<1>7. ASSUME updated
      PROVE  /\ e.tab \in k /\ r \in Record /\ Covered(r, q, e.tab, h)
             /\ Complete(RecordOf(s.records, e.tab), p, e.tab, h) => Complete(r, q, e.tab, h)
  <2> DEFINE t == e.tab
             old == RecordOf(s.records, t)
  <2>1. t \in Tabs /\ e = Ev(e.type, t) /\ e.type \in {"tab-created"} \cup ChangeKinds
    BY <1>2, <1>7
  <2>2. t \in k
    BY <1>1, <1>5, <2>1
  <2>3. old \in Record /\ Covered(old, p, t, h) /\ (Has(p, "tab-created", t) => old = Unseen)
    <3>1. Unseen \in Record
      BY BoundAssumption DEF Unseen, Record
    <3> QED
      BY <1>3, <1>5, <2>1, <3>1 DEF Right, RecordOf
  <2>4. h[t] \in Record
    BY <2>1
  <2>5. /\ \A type : Has(p, type, t) <=> Has(q, type, t) \/ type = e.type
        /\ Number(p, t) = IF e.type = "tab-activated" THEN Number(q, t) + 1 ELSE Number(q, t)
        /\ Number(p, t) \in Nat /\ Number(q, t) \in Nat
    <3>1. \A type : e = Ev(type, t) <=> type = e.type
      BY <2>1 DEF Ev
    <3> QED
      BY <1>4, <3>1
  <2>6. ~Has(q, "tab-created", t)
    BY <1>6, <2>1
  <2>7. r = Updated(old, e.type)
    BY DEF r
  <2> HIDE DEF t, old
  <2>8. r \in Record /\ Covered(r, q, t, h) /\ (Complete(old, p, t, h) => Complete(r, q, t, h))
    <3>1. CASE e.type = "tab-created"
      <4>1. old = Unseen /\ r = [Unseen EXCEPT !.created = TRUE]
        BY <2>3, <2>5, <2>7, <3>1 DEF Updated
      <4> QED
        BY <2>3, <2>4, <2>5, <2>6, <3>1, <4>1, BoundAssumption DEF Covered, Complete, Unseen, Record
    <3>2. CASE e.type = "tab-activated"
      <4>1. r = [old EXCEPT !.activationCount = @ + 1]
        BY <2>7, <3>2 DEF Updated
      <4>2. /\ r = [created |-> old.created, activationCount |-> old.activationCount + 1,
                    moved |-> old.moved, groupChanged |-> old.groupChanged]
            /\ old.activationCount \in Nat /\ h[t].activationCount \in 0..MaxChanges
            /\ {old.created, old.moved, old.groupChanged} \subseteq BOOLEAN
        BY <2>3, <2>4, <4>1, BoundAssumption DEF Record
      <4>3. /\ \A type \in {"tab-created", "tab-moved", "tab-updated"} : Has(p, type, t) <=> Has(q, type, t)
            /\ Number(p, t) = Number(q, t) + 1
        BY <2>5, <3>2
      <4>4. old.activationCount + Number(p, t) <= h[t].activationCount /\ Number(q, t) \in Nat
        BY <2>3, <2>5 DEF Covered
      <4>5. old.activationCount + 1 \in 0..MaxChanges /\ r.activationCount + Number(q, t) <= h[t].activationCount
        BY <4>2, <4>3, <4>4, BoundAssumption, SMTT(30)
      <4>6. r.activationCount + Number(q, t) = old.activationCount + Number(p, t)
        BY <4>2, <4>3, <4>4, SMTT(30)
      <4>7. Covered(r, q, t, h)
        BY <2>3, <4>2, <4>3, <4>5 DEF Covered
      <4>8. Complete(old, p, t, h) => Complete(r, q, t, h)
        BY <4>2, <4>3, <4>6 DEF Complete
      <4> QED
        BY <4>2, <4>5, <4>7, <4>8 DEF Record
    <3>3. CASE e.type = "tab-updated"
      <4>1. r = [old EXCEPT !.groupChanged = TRUE]
        BY <2>7, <3>3 DEF Updated
      <4> QED
        BY <2>3, <2>4, <2>5, <3>3, <4>1, BoundAssumption DEF Covered, Complete, Record
    <3>4. CASE e.type = "tab-moved"
      <4>1. r = [old EXCEPT !.moved = TRUE]
        BY <2>7, <3>4 DEF Updated
      <4> QED
        BY <2>3, <2>4, <2>5, <3>4, <4>1, BoundAssumption DEF Covered, Complete, Record
    <3> QED
      BY <2>1, <3>1, <3>2, <3>3, <3>4 DEF ChangeKinds
  <2> QED
    BY <2>2, <2>8 DEF t, old
<1>8. u \in States
  <2>1. DOMAIN u.records \subseteq Tabs /\ u.records \in [DOMAIN u.records -> Record]
    <3>1. CASE same
      BY <1>2, <1>3, <3>1
    <3>2. CASE e.type = "tab-removed"
      BY <1>2, <1>3, <3>2
    <3>3. CASE updated
      BY <1>2, <1>3, <1>7, <3>3
    <3> QED
      BY <3>1, <3>2, <3>3
  <2> QED
    BY <1>2, <1>3, <2>1 DEF States
<1>9. Right(u, q, k, h)
  <2>1. Right(s, q, k, h)
    <3>1. \A t \in Tabs : /\ Number(q, t) <= Number(p, t)
                         /\ \A type : Has(q, type, t) => Has(p, type, t)
      BY <1>4
    <3> QED
      BY <1>1, <3>1, StillRight
  <2>2. CASE same
    BY <1>2, <2>1, <2>2 DEF Right
  <2>3. CASE e.type = "tab-removed"
    BY <1>2, <2>1, <2>3 DEF Right
  <2>4. CASE updated
    BY <1>2, <1>6, <1>7, <2>1, <2>4 DEF Right
  <2> QED
    BY <2>2, <2>3, <2>4
<1>10. ASSUME Shown(DOMAIN s.records, p, o)
       PROVE  Shown(DOMAIN u.records, q, o)
  <2> SUFFICES ASSUME NEW t \in Tabs \ Incognito
               PROVE  /\ t \in o => t \in DOMAIN u.records \/ Has(q, "tab-created", t)
                      /\ t \in DOMAIN u.records => t \in o \/ Has(q, "tab-removed", t)
    BY DEF Shown
  <2>1. /\ t \in o => t \in DOMAIN s.records \/ Has(p, "tab-created", t)
        /\ t \in DOMAIN s.records => t \in o \/ Has(p, "tab-removed", t)
    BY <1>10 DEF Shown
  <2>2. CASE e.tab # t \/ same
    <3>1. e # Ev("tab-created", t) /\ e # Ev("tab-removed", t)
      BY <2>2 DEF Ev
    <3>2. t \in DOMAIN u.records <=> t \in DOMAIN s.records
      BY <1>2, <2>2
    <3> QED
      BY <1>4, <2>1, <3>1, <3>2
  <2>3. CASE e.tab = t /\ e.type = "tab-removed"
    <3>1. e = Ev("tab-removed", t)
      BY <1>1, <2>3 DEF Event, Ev
    <3> QED
      BY <1>2, <1>4, <1>5, <2>3, <3>1
  <2>4. CASE e.tab = t /\ updated
    <3>1. t \in DOMAIN u.records
      BY <1>2, <2>4
    <3>2. ASSUME t \notin o PROVE Has(q, "tab-removed", t)
      <4>1. Has(p, "tab-removed", t)
        BY <1>1, <1>5, <2>4, <3>2 DEF Has
      <4>2. e # Ev("tab-removed", t)
        BY <2>4 DEF Ev
      <4> QED
        BY <1>4, <4>1, <4>2
    <3> QED
      BY <3>1, <3>2
  <2> QED
    BY <2>2, <2>3, <2>4
<1>11. ASSUME Full(s.records, p, o, h)
       PROVE  Full(u.records, q, o, h)
  <2> SUFFICES ASSUME NEW t \in o \ Incognito
               PROVE  Complete(RecordOf(u.records, t), q, t, h)
    BY DEF Full
  <2>1. t \in Tabs /\ Complete(RecordOf(s.records, t), p, t, h)
    BY <1>11 DEF Full
  <2>2. CASE e.tab # t \/ same
    <3>1. \A type : Ev(type, t).type = type /\ Ev(type, t).tab = t
      BY DEF Ev
    <3>2. ~(e.type = "tab-created" /\ e.tab = t)
      BY <1>11, <2>2
    <3>3. /\ e # Ev("tab-created", t) /\ e # Ev("tab-activated", t)
          /\ e # Ev("tab-moved", t) /\ e # Ev("tab-updated", t)
      BY <2>2, <3>1, <3>2
    <3>4. RecordOf(u.records, t) = RecordOf(s.records, t)
      BY <1>2, <2>2 DEF RecordOf
    <3> QED
      BY <1>4, <2>1, <3>3, <3>4 DEF Complete
  <2>3. CASE e.tab = t /\ e.type = "tab-removed"
    <3>1. e = Ev("tab-removed", t)
      BY <1>1, <2>3 DEF Event, Ev
    <3> QED
      BY <1>4, <1>5, <2>1, <2>3, <3>1
  <2>4. CASE e.tab = t /\ updated
    <3>1. RecordOf(u.records, t) = r
      BY <1>2, <2>4 DEF RecordOf
    <3> QED
      BY <1>7, <2>1, <2>4, <3>1
  <2> QED
    BY <2>2, <2>3, <2>4
<1> QED
  BY <1>2, <1>8, <1>9, <1>10, <1>11 DEF e, q, u

-----------------------------------------------------------------------------
(* What happens to the tabs, and is reported.                              *)

\* e happens: o2, k2 and h2 are what is open, known and has happened after it.
Creates(e, o, k, h, o2, k2, h2) ==
  /\ e = Ev("tab-created", e.tab) /\ e.tab \in Tabs \ k
  /\ o2 = o \cup {e.tab} /\ k2 = k \cup {e.tab}
  /\ h2 = [h EXCEPT ![e.tab] = Updated(@, "tab-created")]

Changes(e, o, k, h, o2, k2, h2) ==
  /\ e = Ev(e.type, e.tab) /\ e.type \in ChangeKinds /\ e.tab \in o
  /\ o2 = o /\ k2 = k
  /\ h2 = [h EXCEPT ![e.tab] = Updated(@, e.type)]

Removes(e, o, k, h, o2, k2, h2) ==
  e = Ev("tab-removed", e.tab) /\ e.tab \in o /\ o2 = o \ {e.tab} /\ k2 = k /\ h2 = h

Regroups(e, o, k, h, o2, k2, h2) ==
  e = Ev("group-changed", None) /\ o2 = o /\ k2 = k /\ h2 = h

\* One more change of a tab is one more event that reports it.
LEMMA ChangeCounts ==
  ASSUME NEW type \in ChangeKinds, NEW t \in Tabs, NEW e \in Event, e = Ev(type, t),
         NEW p \in Seq(Event), NEW h \in [Tabs -> Record], NEW r \in Record
  PROVE  LET q  == Append(p, e)
             h2 == [h EXCEPT ![t] = Updated(@, type)]
         IN /\ Covered(r, p, t, h) => Covered(r, q, t, h2)
            /\ Complete(r, p, t, h) => Complete(r, q, t, h2)
<1> DEFINE q  == Append(p, e)
           h2 == [h EXCEPT ![t] = Updated(@, type)]
<1>1. /\ \A x : Has(q, x, t) <=> Has(p, x, t) \/ x = type
      /\ Number(q, t) = IF type = "tab-activated" THEN Number(p, t) + 1 ELSE Number(p, t)
      /\ Number(p, t) \in Nat
  <2>1. \A x : e = Ev(x, t) <=> x = type
    BY DEF Ev
  <2>2. Number(p, t) \in Nat
    BY Counted
  <2>3. /\ \A x : Has(q, x, t) <=> Has(p, x, t) \/ e = Ev(x, t)
        /\ Number(q, t) = IF e = Ev("tab-activated", t) THEN Number(p, t) + 1 ELSE Number(p, t)
    BY OneMore
  <2> QED
    BY <2>1, <2>2, <2>3
<1>2. h2[t] = Updated(h[t], type) /\ h[t] \in Record
  OBVIOUS
<1>3. r.activationCount \in Nat /\ h[t].activationCount \in Nat
  BY <1>2, BoundAssumption DEF Record
<1> HIDE DEF q, h2
<1>4. CASE type = "tab-activated"
  <2>1. h2[t] = [h[t] EXCEPT !.activationCount = @ + 1]
    BY <1>2, <1>4 DEF Updated
  <2>2. /\ h2[t].activationCount = h[t].activationCount + 1
        /\ h2[t].created = h[t].created /\ h2[t].moved = h[t].moved /\ h2[t].groupChanged = h[t].groupChanged
    BY <1>2, <2>1 DEF Record
  <2>3. /\ \A x \in {"tab-created", "tab-moved", "tab-updated"} : Has(q, x, t) <=> Has(p, x, t)
        /\ Number(q, t) = Number(p, t) + 1
    BY <1>1, <1>4
  <2>4. /\ r.activationCount + Number(p, t) <= h[t].activationCount =>
             r.activationCount + Number(q, t) <= h2[t].activationCount
        /\ r.activationCount + Number(p, t) = h[t].activationCount =>
             r.activationCount + Number(q, t) = h2[t].activationCount
    <3>1. h2[t].activationCount = h[t].activationCount + 1 /\ Number(q, t) = Number(p, t) + 1
      BY <2>2, <2>3
    <3>2. /\ r.activationCount \in Nat /\ h[t].activationCount \in Nat /\ Number(p, t) \in Nat
      BY <1>1, <1>3
    <3> QED
      BY <3>1, <3>2, SMTT(30)
  <2> QED
    BY <2>2, <2>3, <2>4 DEF Covered, Complete, q, h2
<1>5. CASE type = "tab-updated"
  <2>1. h2[t] = [h[t] EXCEPT !.groupChanged = TRUE]
    BY <1>2, <1>5 DEF Updated
  <2> QED
    BY <1>1, <1>2, <1>5, <2>1 DEF Covered, Complete, Record, q, h2
<1>6. CASE type = "tab-moved"
  <2>1. h2[t] = [h[t] EXCEPT !.moved = TRUE]
    BY <1>2, <1>6 DEF Updated
  <2> QED
    BY <1>1, <1>2, <1>6, <2>1 DEF Covered, Complete, Record, q, h2
<1> QED
  BY <1>4, <1>5, <1>6 DEF ChangeKinds

\* What Chrome reports of the tabs is as it has to be.
LEMMA Reported ==
  ASSUME NEW p \in Seq(Event), NEW e \in Event,
         NEW o \in SUBSET Tabs, NEW k \in SUBSET Tabs, o \subseteq k, NEW h \in [Tabs -> Record],
         NEW o2, NEW k2, NEW h2, Orderly(p, o, k, h),
         \/ Creates(e, o, k, h, o2, k2, h2) \/ Changes(e, o, k, h, o2, k2, h2)
         \/ Removes(e, o, k, h, o2, k2, h2) \/ Regroups(e, o, k, h, o2, k2, h2)
  PROVE  LET q == Append(p, e) IN
         /\ Orderly(q, o2, k2, h2)
         /\ \A s \in States : Right(s, p, k, h) => Right(s, q, k2, h2)
         /\ \A shown : Shown(shown, p, o) => Shown(shown, q, o2)
         /\ \A records \in UNION {[D -> Record] : D \in SUBSET k} :
              Full(records, p, o, h) => Full(records, q, o2, h2)
<1> DEFINE q == Append(p, e)
           creates == Creates(e, o, k, h, o2, k2, h2)
           changes == Changes(e, o, k, h, o2, k2, h2)
           removes == Removes(e, o, k, h, o2, k2, h2)
           regroups == Regroups(e, o, k, h, o2, k2, h2)
<1>1. ASSUME NEW t
      PROVE  /\ \A type : Has(q, type, t) <=> Has(p, type, t) \/ e = Ev(type, t)
             /\ Number(q, t) = IF e = Ev("tab-activated", t) THEN Number(p, t) + 1 ELSE Number(p, t)
  <2>1. \A type : Has(q, type, t) <=> Has(p, type, t) \/ e = Ev(type, t)
    BY OneMore
  <2>2. Number(q, t) = IF e = Ev("tab-activated", t) THEN Number(p, t) + 1 ELSE Number(p, t)
    BY OneMore
  <2> QED
    BY <2>1, <2>2
<1>2. /\ q \in Seq(Event)
      /\ DOMAIN p = 1..Len(p) /\ DOMAIN q = 1..(Len(p) + 1) /\ Len(p) \in Nat
      /\ \A i \in DOMAIN p : q[i] = p[i] /\ p[i] \in Event
      /\ q[Len(p) + 1] = e
  BY OneMore, Counted
<1>3. ASSUME NEW t \in Tabs
      PROVE  /\ \A i \in DOMAIN p : p[i].tab = t => t \in k
             /\ t \in o => ~Has(p, "tab-removed", t)
             /\ t \notin o => \A i \in DOMAIN p : p[i].tab = t =>
                                \E j \in DOMAIN p : i <= j /\ p[j] = Ev("tab-removed", t)
             /\ \A i, j \in DOMAIN p : i < j /\ p[i].tab = t /\ p[j].tab = t =>
                  p[i] # Ev("tab-removed", t) /\ p[j] # Ev("tab-created", t)
             /\ Covered(Unseen, p, t, h)
  BY DEF Orderly
<1>4. \A type, t : Ev(type, t).type = type /\ Ev(type, t).tab = t
  BY DEF Ev
<1> HIDE DEF q
\* Nothing has been reported of a tab that is created.
<1>5. ASSUME creates
      PROVE  /\ \A i \in DOMAIN p : p[i].tab # e.tab
             /\ Covered(Unseen, q, e.tab, h2) /\ Complete(Unseen, q, e.tab, h2)
  <2>1. /\ e.tab \in Tabs \ k /\ e = Ev("tab-created", e.tab) /\ h2[e.tab] = [Unseen EXCEPT !.created = TRUE]
    BY <1>5 DEF Creates, Updated
  <2>2. \A i \in DOMAIN p : p[i].tab # e.tab
    BY <1>3, <2>1
  <2>3. \A type : ~Has(p, type, e.tab)
    BY <1>4, <2>2 DEF Has
  <2>4. Number(p, e.tab) = 0
    <3>1. Activations(p, e.tab) = {}
      BY <1>4, <2>2 DEF Activations
    <3> QED
      BY <3>1, FS_EmptySet DEF Number
  <2>5. Number(q, e.tab) = 0 /\ \A type : Has(q, type, e.tab) <=> type = "tab-created"
    BY <1>1, <1>4, <2>1, <2>3, <2>4
  <2> QED
    BY <2>1, <2>2, <2>5 DEF Covered, Complete, Unseen
<1>6. ASSUME NEW t \in Tabs, NEW r \in Record, ~(creates /\ t = e.tab)
      PROVE  /\ Covered(r, p, t, h) => Covered(r, q, t, h2)
             /\ Complete(r, p, t, h) => Complete(r, q, t, h2)
  <2>1. CASE changes /\ t = e.tab
    BY <1>6, <2>1, ChangeCounts DEF Changes, q
  <2>2. CASE ~(changes /\ t = e.tab)
    <3>1. h2[t] = h[t]
      BY <1>6, <2>2 DEF Creates, Changes, Removes, Regroups
    <3>2. /\ e # Ev("tab-created", t) /\ e # Ev("tab-activated", t)
          /\ e # Ev("tab-moved", t) /\ e # Ev("tab-updated", t)
      BY <1>4, <1>6, <2>2 DEF Creates, Changes, Removes, Regroups
    <3> QED
      BY <1>1, <3>1, <3>2 DEF Covered, Complete
  <2> QED
    BY <2>1, <2>2
<1>7. k \subseteq k2 /\ \A t \in Tabs : e.tab = t => t \in k2
  BY <1>4, NoneAssumption DEF Creates, Changes, Removes, Regroups
<1>8. Orderly(q, o2, k2, h2)
  <2> SUFFICES ASSUME NEW t \in Tabs
               PROVE  /\ \A i \in DOMAIN q : q[i].tab = t => t \in k2
                      /\ t \in o2 => ~Has(q, "tab-removed", t)
                      /\ t \notin o2 => \A i \in DOMAIN q : q[i].tab = t =>
                                         \E j \in DOMAIN q : i <= j /\ q[j] = Ev("tab-removed", t)
                      /\ \A i, j \in DOMAIN q : i < j /\ q[i].tab = t /\ q[j].tab = t =>
                           q[i] # Ev("tab-removed", t) /\ q[j] # Ev("tab-created", t)
                      /\ Covered(Unseen, q, t, h2)
    BY DEF Orderly
  <2>1. DOMAIN q = DOMAIN p \cup {Len(p) + 1} /\ \A i \in DOMAIN p : i < Len(p) + 1 /\ ~(Len(p) + 1 < i)
    BY <1>2
  <2>2. \A i \in DOMAIN q : q[i].tab = t => t \in k2
    BY <1>2, <1>3, <1>7, <2>1
  <2>3. ASSUME t \in o2 PROVE ~Has(q, "tab-removed", t)
    <3>1. CASE creates /\ t = e.tab
      <4>1. ~Has(p, "tab-removed", t)
        BY <1>4, <1>5, <3>1 DEF Has
      <4>2. e # Ev("tab-removed", t)
        BY <1>4, <3>1 DEF Creates
      <4> QED
        BY <1>1, <4>1, <4>2
    <3>2. CASE ~(creates /\ t = e.tab)
      <4>1. t \in o /\ e # Ev("tab-removed", t)
        BY <1>4, <2>3, <3>2 DEF Creates, Changes, Removes, Regroups, ChangeKinds
      <4> QED
        BY <1>1, <1>3, <4>1
    <3> QED
      BY <3>1, <3>2
  <2>4. ASSUME t \notin o2, NEW i \in DOMAIN q, q[i].tab = t
        PROVE  \E j \in DOMAIN q : i <= j /\ q[j] = Ev("tab-removed", t)
    <3>1. CASE removes /\ t = e.tab
      <4>1. Len(p) + 1 \in DOMAIN q /\ i <= Len(p) + 1
        BY <1>2
      <4> QED
        BY <1>2, <3>1, <4>1 DEF Removes
    <3>2. CASE ~(removes /\ t = e.tab)
      <4>1. t \notin o /\ e.tab # t
        BY <1>4, <2>4, <3>2, NoneAssumption DEF Creates, Changes, Removes, Regroups
      <4>2. i \in DOMAIN p /\ p[i].tab = t
        BY <1>2, <2>1, <2>4, <4>1
      <4> QED
        BY <1>2, <1>3, <2>1, <4>1, <4>2
    <3> QED
      BY <3>1, <3>2
  <2>5. ASSUME NEW i \in DOMAIN q, NEW j \in DOMAIN q, i < j, q[i].tab = t, q[j].tab = t
        PROVE  q[i] # Ev("tab-removed", t) /\ q[j] # Ev("tab-created", t)
    <3>1. i \in DOMAIN p /\ q[i] = p[i]
      BY <1>2, <2>1, <2>5
    <3>2. CASE j \in DOMAIN p
      BY <1>2, <1>3, <2>5, <3>1, <3>2
    <3>3. CASE j = Len(p) + 1
      <4>1. e.tab = t /\ q[j] = e
        BY <1>2, <2>5, <3>3
      <4>2. ~creates
        BY <1>5, <2>5, <3>1, <4>1
      <4>3. t \in o /\ e # Ev("tab-created", t)
        BY <1>4, <4>1, <4>2, NoneAssumption DEF Changes, Removes, Regroups, ChangeKinds
      <4> QED
        BY <1>3, <3>1, <4>1, <4>3 DEF Has
    <3> QED
      BY <2>1, <3>2, <3>3
  <2>6. Covered(Unseen, q, t, h2)
    <3>1. Unseen \in Record
      BY BoundAssumption DEF Unseen, Record
    <3> QED
      BY <1>3, <1>5, <1>6, <3>1
  <2> QED
    BY <2>2, <2>3, <2>4, <2>5, <2>6
<1>9. ASSUME NEW s \in States, Right(s, p, k, h)
      PROVE  Right(s, q, k2, h2)
  <2> SUFFICES ASSUME NEW t \in DOMAIN s.records
               PROVE  /\ t \in k2
                      /\ Covered(s.records[t], q, t, h2)
                      /\ Has(q, "tab-created", t) => s.records[t] = Unseen
    BY DEF Right
  <2>1. t \in Tabs /\ s.records[t] \in Record
    BY DEF States
  <2>2. t \in k /\ Covered(s.records[t], p, t, h) /\ (Has(p, "tab-created", t) => s.records[t] = Unseen)
    BY <1>9 DEF Right
  <2>3. ~(creates /\ t = e.tab)
    BY <2>2 DEF Creates
  <2>4. e # Ev("tab-created", t)
    BY <1>4, <2>3 DEF Changes, Removes, Regroups, ChangeKinds
  <2> QED
    BY <1>1, <1>6, <1>7, <2>1, <2>2, <2>3, <2>4
<1>10. ASSUME NEW shown, Shown(shown, p, o)
      PROVE  Shown(shown, q, o2)
  <2> SUFFICES ASSUME NEW t \in Tabs \ Incognito
               PROVE  /\ t \in o2 => t \in shown \/ Has(q, "tab-created", t)
                      /\ t \in shown => t \in o2 \/ Has(q, "tab-removed", t)
    BY DEF Shown
  <2>1. /\ t \in o => t \in shown \/ Has(p, "tab-created", t)
        /\ t \in shown => t \in o \/ Has(p, "tab-removed", t)
    BY <1>10 DEF Shown
  <2>2. t \in o2 => t \in o \/ e = Ev("tab-created", t)
    BY DEF Creates, Changes, Removes, Regroups
  <2>3. t \in o => t \in o2 \/ e = Ev("tab-removed", t)
    BY DEF Creates, Changes, Removes, Regroups
  <2> QED
    BY <1>1, <2>1, <2>2, <2>3
<1>11. ASSUME NEW records \in UNION {[D -> Record] : D \in SUBSET k}, Full(records, p, o, h)
       PROVE  Full(records, q, o2, h2)
  <2> SUFFICES ASSUME NEW t \in o2 \ Incognito
               PROVE  Complete(RecordOf(records, t), q, t, h2)
    BY DEF Full
  <2>1. CASE creates /\ t = e.tab
    BY <1>5, <2>1 DEF RecordOf, Creates
  <2>2. CASE ~(creates /\ t = e.tab)
    <3>1. t \in o
      BY <2>2 DEF Creates, Changes, Removes, Regroups
    <3>2. RecordOf(records, t) \in Record
      BY BoundAssumption DEF RecordOf, Unseen, Record
    <3> QED
      BY <1>6, <1>11, <2>2, <3>1, <3>2 DEF Full
  <2> QED
    BY <2>1, <2>2
<1> QED
  BY <1>8, <1>9, <1>10, <1>11 DEF q

-----------------------------------------------------------------------------
(* The replay of what has been queued: one event after the other.          *)

\* after[n] is the state after the first n of the events; Replayed(s) is the last.
ReplayOf(after, s) ==
  /\ after[0] = s
  /\ \A n \in 0..Len(queued) : n < Len(queued) => after[n + 1] = Reduce(after[n], queued[n + 1])
  /\ Replayed(s) = after[Len(queued)]

\* The replay is a fold: there is a sequence of states, each the reduction of the one before.
LEMMA ReplaySteps ==
  ASSUME queued \in Seq(Event), NEW s
  PROVE  \E after : ReplayOf(after, s)
<1> DEFINE N == Len(queued)
           Is(f, m) == f = [n \in 0..m |-> IF n = 0 THEN s ELSE Reduce(f[n - 1], queued[n])]
           good == {m \in 0..N : \E f : Is(f, m)}
           after == CHOOSE f : Is(f, N)
<1>1. N \in Nat
  BY LenProperties
<1>2. 0 \in good
  <2>1. Is([n \in 0..0 |-> s], 0)
    OBVIOUS
  <2>2. 0 \in 0..N
    BY <1>1
  <2> HIDE DEF Is
  <2> QED
    BY <2>1, <2>2
<1>3. ASSUME NEW m \in 0..N, m < N, m \in good
      PROVE  m + 1 \in good
  <2>1. PICK f : Is(f, m)
    BY <1>3
  <2> DEFINE g == [n \in 0..(m + 1) |-> IF n = m + 1 THEN Reduce(f[m], queued[m + 1]) ELSE f[n]]
  <2>2. ASSUME NEW n \in 0..(m + 1)
        PROVE  g[n] = IF n = 0 THEN s ELSE Reduce(g[n - 1], queued[n])
    <3>1. CASE n = m + 1
      <4>1. n - 1 = m /\ m \in 0..(m + 1) /\ m # m + 1 /\ n # 0
        BY <3>1
      <4>2. g[n - 1] = f[m]
        BY <4>1
      <4> QED
        BY <3>1, <4>1, <4>2
    <3>2. CASE n \in 0..m
      <4>1. f[n] = IF n = 0 THEN s ELSE Reduce(f[n - 1], queued[n])
        BY <2>1, <3>2
      <4>2. g[n] = f[n] /\ (n # 0 => g[n - 1] = f[n - 1])
        BY <3>2
      <4> QED
        BY <4>1, <4>2
    <3> QED
      BY <3>1, <3>2
  <2>3. Is(g, m + 1)
    <3> HIDE DEF g
    <3>1. g = [n \in 0..(m + 1) |-> g[n]]
      BY DEF g
    <3> QED
      BY <2>2, <3>1
  <2>4. m + 1 \in 0..N
    BY <1>1, <1>3
  <2> HIDE DEF Is
  <2> QED
    BY <2>3, <2>4
<1>4. \E f : Is(f, N)
  <2> HIDE DEF good
  <2>1. 0..N \subseteq good
    BY <1>1, <1>2, <1>3, UpTo
  <2> QED
    BY <1>1, <2>1 DEF good
<1>5. Is(after, N)
  <2> HIDE DEF Is
  <2> QED
    BY <1>4
<1>6. Replayed(s) = after[N]
  BY DEF Replayed
<1> HIDE DEF after
<1>7. after[0] = s
  BY <1>1, <1>5
<1>8. ASSUME NEW n \in 0..N, n < N
      PROVE  after[n + 1] = Reduce(after[n], queued[n + 1])
  <2>1. n + 1 \in 0..N /\ n + 1 # 0 /\ (n + 1) - 1 = n
    BY <1>1, <1>8
  <2> QED
    BY <1>5, <2>1
<1> QED
  BY <1>6, <1>7, <1>8 DEF ReplayOf

\* The replay keeps what is remembered right, shown and full.
LEMMA ReplayKeeps ==
  ASSUME queued \in Seq(Event), pipe \in Seq(Event), open \subseteq Tabs, real \in [Tabs -> Record],
         Orderly(Pending, open, known, real),
         NEW s \in States, Right(s, Pending, known, real),
         Shown(DOMAIN s.records, Pending, open)
  PROVE  LET u == Replayed(s) IN
         /\ u \in States /\ u.session = s.session
         /\ Orderly(pipe, open, known, real)
         /\ Right(u, pipe, known, real)
         /\ Shown(DOMAIN u.records, pipe, open)
         /\ Full(s.records, Pending, open, real) => Full(u.records, pipe, open, real)
<1> DEFINE N == Len(queued)
           Rest(n) == SubSeq(queued, n + 1, N) \o pipe
<1>1. /\ N \in Nat
      /\ \A n \in 0..N : SubSeq(queued, n + 1, N) \in Seq(Event) /\ Len(SubSeq(queued, n + 1, N)) = N - n
  <2>1. N \in Nat
    BY LenProperties
  <2>2. ASSUME NEW n \in 0..N
        PROVE  SubSeq(queued, n + 1, N) \in Seq(Event) /\ Len(SubSeq(queued, n + 1, N)) = N - n
    <3>1. n + 1 \in Int /\ N \in Int /\ \A i \in (n + 1)..N : queued[i] \in Event
      BY <2>1, ElementOfSeq
    <3>2. /\ SubSeq(queued, n + 1, N) \in Seq(Event)
          /\ Len(SubSeq(queued, n + 1, N)) = IF n + 1 <= N THEN N - (n + 1) + 1 ELSE 0
      BY <3>1, SubSeqProperties
    <3> QED
      BY <2>1, <3>2
  <2> QED
    BY <2>1, <2>2
<1>2. \A n \in 0..N : Rest(n) \in Seq(Event)
  BY <1>1, ConcatProperties
<1>3. Rest(0) = Pending
  <2>1. SubSeq(queued, 1, N) = queued /\ 0 + 1 = 1
    BY SubSeqFull
  <2> QED
    BY <2>1 DEF Pending
<1>4. Rest(N) = pipe
  <2>1. SubSeq(queued, N + 1, N) = <<>>
    BY <1>1, SubSeqEmpty
  <2> QED
    BY <2>1, ConcatEmptySeq
<1>5. ASSUME NEW n \in 0..N, n < N
      PROVE  Rest(n) # <<>> /\ Head(Rest(n)) = queued[n + 1] /\ Tail(Rest(n)) = Rest(n + 1)
  <2> DEFINE q == SubSeq(queued, n + 1, N)
  <2>1. n + 1 \in 1..N /\ N \in (n + 1)..N
    BY <1>1, <1>5
  <2>2. q \in Seq(Event) /\ q # <<>> /\ Head(q) = queued[n + 1] /\ Tail(q) = SubSeq(queued, n + 2, N)
    <3>1. Head(q) = queued[n + 1] /\ Tail(q) = SubSeq(queued, (n + 1) + 1, N)
      BY <2>1, HeadTailOfSubSeq
    <3>2. q \in Seq(Event) /\ Len(q) = N - n /\ N - n > 0
      BY <1>1, <1>5
    <3>3. (n + 1) + 1 = n + 2
      BY <1>1
    <3> HIDE DEF q
    <3>4. q # <<>>
      BY <3>2
    <3> QED
      BY <3>1, <3>2, <3>3, <3>4
  <2> HIDE DEF q
  <2>3. q \o pipe # <<>> /\ Head(q \o pipe) = Head(q) /\ Tail(q \o pipe) = Tail(q) \o pipe
    BY <2>2
  <2>4. (n + 1) + 1 = n + 2
    BY <1>1
  <2> QED
    BY <2>2, <2>3, <2>4 DEF q
<1>6. PICK after : ReplayOf(after, s)
  BY ReplaySteps
<1> DEFINE Good(n) == /\ after[n] \in States /\ after[n].session = s.session
                      /\ Orderly(Rest(n), open, known, real)
                      /\ Right(after[n], Rest(n), known, real)
                      /\ Shown(DOMAIN after[n].records, Rest(n), open)
                      /\ Full(s.records, Pending, open, real) => Full(after[n].records, Rest(n), open, real)
           good == {n \in 0..N : Good(n)}
<1> HIDE DEF N, Rest
<1>7. 0 \in good
  BY <1>1, <1>3, <1>6 DEF ReplayOf
<1>8. ASSUME NEW n \in 0..N, n < N, n \in good
      PROVE  n + 1 \in good
  <2>1. n + 1 \in 0..N
    BY <1>1, <1>8
  <2>2. after[n + 1] = Reduce(after[n], Head(Rest(n))) /\ Rest(n) # <<>> /\ Rest(n + 1) = Tail(Rest(n))
    BY <1>5, <1>6, <1>8 DEF N, ReplayOf
  <2>3. Rest(n) \in Seq(Event) /\ open \in SUBSET Tabs
    BY <1>2
  <2>4. Orderly(Tail(Rest(n)), open, known, real)
    BY <1>8, <2>2, <2>3, Handled
  <2> DEFINE u == Reduce(after[n], Head(Rest(n)))
  <2>5. /\ u \in States /\ u.session = after[n].session
        /\ Right(u, Tail(Rest(n)), known, real)
        /\ Shown(DOMAIN after[n].records, Rest(n), open) => Shown(DOMAIN u.records, Tail(Rest(n)), open)
        /\ Full(after[n].records, Rest(n), open, real) => Full(u.records, Tail(Rest(n)), open, real)
    BY <1>8, <2>2, <2>3, ReduceKeeps
  <2> HIDE DEF u
  <2>6. after[n + 1] = u
    BY <2>2 DEF u
  <2> QED
    BY <1>8, <2>1, <2>2, <2>4, <2>5, <2>6
<1>9. Good(N)
  <2> HIDE DEF good
  <2>1. 0..N \subseteq good
    BY <1>1, <1>7, <1>8, UpTo
  <2>2. N \in good
    BY <1>1, <2>1
  <2> QED
    BY <2>2 DEF good
<1> QED
  BY <1>4, <1>6, <1>9 DEF N, ReplayOf

-----------------------------------------------------------------------------
(* No step breaks the invariant.                                           *)

\* The parts of the type invariant that most steps need.
LEMMA Typed ==
  ASSUME TypeOK
  PROVE  /\ Pending \in Seq(Event)
         /\ Stored \subseteq States /\ Remembered \subseteq States
         /\ Kept # None => Kept \in Stored
         /\ Kept \in States \cup {None}
         /\ state # None => state \in Remembered
<1>1. queued \in Seq(Event) /\ pipe \in Seq(Event) /\ writes \in Seq(States)
      /\ local \in States \cup {None} /\ state \in States \cup {None}
  BY DEF TypeOK
<1>2. Pending \in Seq(Event)
  BY <1>1, ConcatProperties DEF Pending
<1>3. DOMAIN writes = 1..Len(writes) /\ Len(writes) \in Nat /\ \A i \in DOMAIN writes : writes[i] \in States
  BY <1>1, LenProperties, ElementOfSeq
<1>4. writes # <<>> => Len(writes) \in DOMAIN writes
  BY <1>1, <1>3, EmptySeq
<1>5. Stored \subseteq States /\ Remembered \subseteq States
  BY <1>1, <1>3 DEF Stored, Remembered
<1>6. Kept # None => Kept \in Stored
  BY <1>4 DEF Kept, Stored
<1>7. Kept \in States \cup {None}
  BY <1>5, <1>6
<1>8. state # None => state \in Remembered
  BY DEF Remembered
<1> QED
  BY <1>2, <1>5, <1>6, <1>7, <1>8

\* What the worker knows of this session, or will know when it has read it.
KnownRecords == IF state # None THEN state.records ELSE KeptRecords

\* The records of this session are of tabs that this session has known.
LEMMA KnownTabs ==
  ASSUME IInv
  PROVE  KnownRecords \in UNION {[D -> Record] : D \in SUBSET known}
<1>1. ASSUME NEW s \in Remembered, s.session = session
      PROVE  s.records \in UNION {[D -> Record] : D \in SUBSET known}
  <2>1. s \in States /\ Right(s, Pending, known, real)
    BY <1>1, Typed DEF IInv, RightInv
  <2>2. DOMAIN s.records \subseteq known
    BY <2>1 DEF Right
  <2>3. s.records \in [DOMAIN s.records -> Record]
    BY <2>1 DEF States
  <2> QED
    BY <2>2, <2>3
<1>2. CASE state # None
  BY <1>1, <1>2, Typed DEF IInv, SessionInv, KnownRecords
<1>3. CASE state = None /\ Kept # None /\ Kept.session = session
  <2>1. Kept \in Remembered
    BY <1>3, Typed DEF IInv, Remembered
  <2> QED
    BY <1>1, <1>3, <2>1 DEF KnownRecords, KeptRecords
<1>4. CASE state = None /\ ~(Kept # None /\ Kept.session = session)
  <2>1. KnownRecords = <<>>
    BY <1>4 DEF KnownRecords, KeptRecords
  <2>2. <<>> \in [{} -> Record] /\ {} \in SUBSET known
    OBVIOUS
  <2> QED
    BY <2>1, <2>2
<1> QED
  BY <1>2, <1>3, <1>4

\* A tab activated once more has not been activated more often than anything has changed.
LEMMA OneMoreIsCounted ==
  \A count, changes, max \in Nat :
    count <= changes /\ changes + 1 <= max => count + 1 \in 0..max /\ count + 1 <= changes + 1
  OBVIOUS

\* Something happens to the tabs, and Chrome reports it.
LEMMA HappeningKeeps ==
  ASSUME IInv, NEW e \in Event, pipe' = Append(pipe, e),
         UNCHANGED <<storage, runtime, history, drawn>>, Spend("changes", MaxChanges),
         \/ Creates(e, open, known, real, open', known', real') \/ Changes(e, open, known, real, open', known', real')
         \/ Removes(e, open, known, real, open', known', real') \/ Regroups(e, open, known, real, open', known', real')
  PROVE  IInv'
<1>1. TypeOK /\ UNCHANGED <<session, local, writes, worker, read, state, queued, flushScheduled, lost, lastFailed, drawn>>
  BY DEF IInv, storage, runtime, history
<1>2. /\ open \in SUBSET Tabs /\ known \in SUBSET Tabs /\ open \subseteq known
      /\ real \in [Tabs -> Record]
      /\ Orderly(Pending, open, known, real) /\ \A t \in Tabs : real[t].activationCount <= spent.changes
  BY DEF IInv, PendingInv, TypeOK
<1>3. /\ spent \in [sessions : 0..MaxSessions, changes : 0..MaxChanges, stops : 0..MaxStops, faults : 0..MaxFaults]
      /\ spent.changes < MaxChanges /\ spent' = [spent EXCEPT !["changes"] = @ + 1]
  BY <1>1 DEF Spend, TypeOK
<1>4. /\ spent'.sessions = spent.sessions /\ spent'.changes = spent.changes + 1
      /\ spent' \in [sessions : 0..MaxSessions, changes : 0..MaxChanges, stops : 0..MaxStops, faults : 0..MaxFaults]
      /\ spent.changes \in Nat /\ spent'.changes \in Nat /\ MaxChanges \in Nat /\ spent.changes + 1 <= MaxChanges
  BY <1>3, BoundAssumption
<1>5. real' \in [Tabs -> Record] /\ \A t \in Tabs : real'[t].activationCount <= spent'.changes
  <2>1. ASSUME NEW type \in {"tab-created"} \cup ChangeKinds, NEW t \in Tabs
        PROVE  Updated(real[t], type) \in Record /\ Updated(real[t], type).activationCount <= spent'.changes
    <3>1. real[t] \in Record /\ real[t].activationCount <= spent.changes
      BY <1>2
    <3>2. CASE type = "tab-created"
      <4>1. Updated(real[t], type) = [created |-> TRUE, activationCount |-> 0, moved |-> FALSE, groupChanged |-> FALSE]
        BY <3>2 DEF Updated, Unseen
      <4> QED
        BY <1>3, <1>4, <4>1, BoundAssumption DEF Record
    <3>3. CASE type = "tab-activated"
      <4>1. Updated(real[t], type) = [real[t] EXCEPT !.activationCount = @ + 1]
        BY <3>3 DEF Updated
      <4>2. Updated(real[t], type) = [created |-> real[t].created, activationCount |-> real[t].activationCount + 1,
                                      moved |-> real[t].moved, groupChanged |-> real[t].groupChanged]
        BY <3>1, <4>1 DEF Record
      <4>3. real[t].activationCount \in Nat /\ spent.changes \in Nat
        BY <1>4, <3>1 DEF Record
      <4>4. real[t].activationCount + 1 \in 0..MaxChanges /\ real[t].activationCount + 1 <= spent'.changes
        <5>1. /\ real[t].activationCount <= spent.changes /\ spent.changes + 1 <= MaxChanges
              /\ MaxChanges \in Nat /\ spent'.changes = spent.changes + 1
          BY <1>4, <3>1
        <5> QED
          BY <4>3, <5>1, OneMoreIsCounted
      <4> QED
        BY <3>1, <4>2, <4>4 DEF Record
    <3>4. CASE type = "tab-updated"
      <4>1. Updated(real[t], type) = [real[t] EXCEPT !.groupChanged = TRUE]
        BY <3>4 DEF Updated
      <4>2. Updated(real[t], type) \in Record /\ Updated(real[t], type).activationCount = real[t].activationCount
        BY <3>1, <4>1 DEF Record
      <4>3. real[t].activationCount \in Nat
        BY <1>4, <3>1 DEF Record
      <4> QED
        BY <1>4, <3>1, <4>2, <4>3
    <3>5. CASE type = "tab-moved"
      <4>1. Updated(real[t], type) = [real[t] EXCEPT !.moved = TRUE]
        BY <3>5 DEF Updated
      <4>2. Updated(real[t], type) \in Record /\ Updated(real[t], type).activationCount = real[t].activationCount
        BY <3>1, <4>1 DEF Record
      <4>3. real[t].activationCount \in Nat
        BY <1>4, <3>1 DEF Record
      <4> QED
        BY <1>4, <3>1, <4>2, <4>3
    <3> QED
      BY <3>2, <3>3, <3>4, <3>5 DEF ChangeKinds
  <2>2. CASE real' = real
    <3>1. ASSUME NEW t \in Tabs PROVE real[t].activationCount <= spent'.changes
      <4>1. real[t].activationCount \in Nat /\ real[t].activationCount <= spent.changes
        BY <1>2, BoundAssumption DEF Record
      <4>2. spent.changes \in Nat /\ spent'.changes = spent.changes + 1
        BY <1>4
      <4> QED
        BY <4>1, <4>2
    <3> QED
      BY <1>2, <2>2, <3>1
  <2>3. ASSUME NEW type \in {"tab-created"} \cup ChangeKinds, e.tab \in Tabs,
               real' = [real EXCEPT ![e.tab] = Updated(@, type)]
        PROVE  real' \in [Tabs -> Record] /\ \A t \in Tabs : real'[t].activationCount <= spent'.changes
    <3>1. real' = [t \in Tabs |-> IF t = e.tab THEN Updated(real[e.tab], type) ELSE real[t]]
      BY <1>2, <2>3
    <3>2. \A t \in Tabs : real[t] \in Record /\ real[t].activationCount <= spent'.changes
      BY <1>2, <1>4 DEF Record
    <3> DEFINE new == Updated(real[e.tab], type)
    <3>3. new \in Record /\ new.activationCount <= spent'.changes
      BY <2>1, <2>3
    <3> HIDE DEF new
    <3>4. \A t \in Tabs : real'[t] \in Record /\ real'[t].activationCount <= spent'.changes
      BY <3>1, <3>2, <3>3 DEF new
    <3> QED
      BY <3>1, <3>4
  <2> QED
    BY <1>2, <2>2, <2>3 DEF Creates, Changes, Removes, Regroups
<1>6. open' \subseteq known' /\ known' \subseteq Tabs
  BY <1>2 DEF Creates, Changes, Removes, Regroups
<1>7. TypeOK'
  <2>1. pipe' \in Seq(Event)
    BY OneMore DEF IInv, TypeOK
  <2> QED
    BY <1>1, <1>4, <1>5, <1>6, <2>1 DEF TypeOK
<1>8. Pending' = Append(Pending, e) /\ Pending \in Seq(Event)
  <2>1. queued \in Seq(Event) /\ pipe \in Seq(Event) /\ queued' = queued
    BY <1>1 DEF TypeOK
  <2> QED
    BY <2>1, <1>1, Typed DEF Pending
<1>9. /\ Orderly(Pending', open', known', real')
      /\ \A s \in States : Right(s, Pending, known, real) => Right(s, Pending', known', real')
      /\ \A shown : Shown(shown, Pending, open) => Shown(shown, Pending', open')
      /\ \A records \in UNION {[D -> Record] : D \in SUBSET known} :
           Full(records, Pending, open, real) => Full(records, Pending', open', real')
  BY <1>2, <1>8, Reported
<1>10. /\ UNCHANGED <<Kept, KeptRecords, Stored, Remembered, KnownRecords>>
  BY <1>1 DEF Kept, KeptRecords, Stored, Remembered, KnownRecords
<1>11. SessionInv'
  BY <1>1, <1>4, <1>10 DEF IInv, SessionInv
<1>12. PendingInv'
  BY <1>1, <1>5, <1>9 DEF IInv, PendingInv
<1>13. RightInv'
  BY <1>1, <1>9, <1>10, Typed DEF IInv, RightInv
<1>14. ShownInv'
  BY <1>1, <1>9 DEF IInv, ShownInv
<1>15. WrittenInv'
  BY <1>1, <1>10 DEF IInv, WrittenInv
<1>16. FullInv'
  BY <1>1, <1>9, <1>10, KnownTabs DEF IInv, FullInv, KnownRecords
<1> QED
  BY <1>7, <1>11, <1>12, <1>13, <1>14, <1>15, <1>16 DEF IInv

\* What is left of the bounds, and nothing read yet, have their types.
Bounds == [sessions : 0..MaxSessions, changes : 0..MaxChanges, stops : 0..MaxStops, faults : 0..MaxFaults]
Reads  == [session : SessionIDs \cup {None}, local : States \cup {None}, tabs : (SUBSET Tabs) \cup {{None}}]

\* Spending one bound leaves the others alone.
LEMMA Spent ==
  ASSUME TypeOK
  PROVE  /\ Spend("faults", MaxFaults) =>
              spent' \in Bounds /\ spent'.sessions = spent.sessions /\ spent'.changes = spent.changes
         /\ Spend("stops", MaxStops) =>
              spent' \in Bounds /\ spent'.sessions = spent.sessions /\ spent'.changes = spent.changes
         /\ Spend("sessions", MaxSessions) =>
              spent' \in Bounds /\ spent'.sessions = spent.sessions + 1 /\ spent'.changes = spent.changes
<1>1. spent \in Bounds
  BY DEF TypeOK, Bounds
<1>2. ASSUME Spend("faults", MaxFaults)
      PROVE  spent' \in Bounds /\ spent'.sessions = spent.sessions /\ spent'.changes = spent.changes
  <2>1. spent' = [spent EXCEPT !.faults = @ + 1] /\ spent.faults < MaxFaults
    BY <1>2 DEF Spend
  <2>2. spent.faults + 1 \in 0..MaxFaults
    BY <1>1, <2>1, BoundAssumption DEF Bounds
  <2> QED
    BY <1>1, <2>1, <2>2 DEF Bounds
<1>3. ASSUME Spend("stops", MaxStops)
      PROVE  spent' \in Bounds /\ spent'.sessions = spent.sessions /\ spent'.changes = spent.changes
  <2>1. spent' = [spent EXCEPT !.stops = @ + 1] /\ spent.stops < MaxStops
    BY <1>3 DEF Spend
  <2>2. spent.stops + 1 \in 0..MaxStops
    BY <1>1, <2>1, BoundAssumption DEF Bounds
  <2> QED
    BY <1>1, <2>1, <2>2 DEF Bounds
<1>4. ASSUME Spend("sessions", MaxSessions)
      PROVE  spent' \in Bounds /\ spent'.sessions = spent.sessions + 1 /\ spent'.changes = spent.changes
  <2>1. spent' = [spent EXCEPT !.sessions = @ + 1] /\ spent.sessions < MaxSessions
    BY <1>4 DEF Spend
  <2>2. spent.sessions + 1 \in 0..MaxSessions
    BY <1>1, <2>1, BoundAssumption DEF Bounds
  <2> QED
    BY <1>1, <2>1, <2>2 DEF Bounds
<1> QED
  BY <1>2, <1>3, <1>4

\* The locals of initialize before anything has been read.
LEMMA NothingIsRead == NothingRead \in Reads /\ NothingRead.session = None /\ NothingRead.tabs = {None}
<1>1. {None} \in (SUBSET Tabs) \cup {{None}} /\ None \in SessionIDs \cup {None} /\ None \in States \cup {None}
  OBVIOUS
<1> QED
  BY <1>1 DEF NothingRead, Reads

\* The worker starts, and asks Chrome for the tabs.
LEMMA StartWorkerKeeps ==
  ASSUME IInv, StartWorker
  PROVE  IInv'
<1>1. /\ UNCHANGED <<tabs, pipe, storage, read, state, queued, flushScheduled, history, drawn, spent>>
      /\ worker = "stopped" /\ worker' = "initializing"
  BY DEF StartWorker
<1>2. UNCHANGED <<open, known, real, pipe, session, local, writes, read, state, queued, flushScheduled,
                  lost, lastFailed, drawn, spent>>
  BY <1>1 DEF tabs, storage, history
<1>3. UNCHANGED <<Pending, Kept, KeptRecords, Stored, Remembered>>
  BY <1>2 DEF Pending, Kept, KeptRecords, Stored, Remembered
<1>4. TypeOK'
  BY <1>1, <1>2 DEF IInv, TypeOK
<1>5. SessionInv'
  BY <1>1, <1>2, <1>3 DEF IInv, SessionInv
<1>6. PendingInv' /\ RightInv' /\ ShownInv' /\ WrittenInv' /\ FullInv'
  BY <1>1, <1>2, <1>3 DEF IInv, PendingInv, RightInv, ShownInv, WrittenInv, FullInv
<1> QED
  BY <1>4, <1>5, <1>6 DEF IInv

\* initialize: what it reads of the tabs is what is open.
LEMMA QueryTabsKeeps ==
  ASSUME IInv, QueryTabs
  PROVE  IInv'
<1>1. /\ UNCHANGED <<tabs, pipe, storage, worker, state, queued, flushScheduled, history, drawn, spent>>
      /\ worker = "initializing" /\ read' = [read EXCEPT !.tabs = open]
  BY DEF QueryTabs
<1>2. UNCHANGED <<open, known, real, pipe, session, local, writes, worker, state, queued, flushScheduled,
                  lost, lastFailed, drawn, spent>>
  BY <1>1 DEF tabs, storage, history
<1>3. UNCHANGED <<Pending, Kept, KeptRecords, Stored, Remembered>>
  BY <1>2 DEF Pending, Kept, KeptRecords, Stored, Remembered
<1>4. /\ read'.session = read.session /\ read'.local = read.local /\ read'.tabs = open
      /\ read' \in Reads
  BY <1>1 DEF IInv, TypeOK, Reads
<1>5. TypeOK'
  BY <1>2, <1>4 DEF IInv, TypeOK, Reads
<1>6. SessionInv'
  BY <1>1, <1>2, <1>3, <1>4 DEF IInv, SessionInv
<1>7. ShownInv'
  BY <1>2, <1>3, <1>4 DEF IInv, ShownInv, Shown
<1>8. PendingInv' /\ RightInv' /\ WrittenInv' /\ FullInv'
  BY <1>2, <1>3 DEF IInv, PendingInv, RightInv, WrittenInv, FullInv
<1> QED
  BY <1>5, <1>6, <1>7, <1>8 DEF IInv

\* It asks Chrome for the session and for what is stored; a session that has no
\* identifier yet gets one that nothing stored has.
LEMMA ReadStorageKeeps ==
  ASSUME IInv, ReadStorage
  PROVE  IInv'
<1>1. /\ UNCHANGED <<tabs, pipe, local, writes, worker, state, queued, flushScheduled, history, spent>>
      /\ worker = "initializing" /\ writes = <<>> /\ state = None
      /\ read' = [read EXCEPT !.session = session', !.local = local]
      /\ IF session # None THEN session' = session /\ drawn' = drawn ELSE session' = drawn + 1 /\ drawn' = drawn + 1
  BY DEF ReadStorage, IInv, TypeOK
<1>2. UNCHANGED <<open, known, real, pipe, local, writes, worker, state, queued, flushScheduled, lost, lastFailed, spent>>
  BY <1>1 DEF tabs, history
<1>3. UNCHANGED <<Pending, Kept, Stored, Remembered>>
  BY <1>2 DEF Pending, Kept, Stored, Remembered
<1>4. /\ drawn' \in 0..MaxSessions /\ session' \in SessionIDs /\ session' <= drawn' /\ drawn' <= spent.sessions
      /\ drawn <= drawn' /\ drawn \in Nat
  BY <1>1, BoundAssumption DEF IInv, TypeOK, SessionInv, SessionIDs
<1>5. session' # None
  BY <1>4, NoneAssumption DEF SessionIDs
<1>6. /\ read'.session = session' /\ read'.local = local /\ read'.tabs = read.tabs
      /\ read' \in Reads
  BY <1>1, <1>4 DEF IInv, TypeOK, Reads
\* Nothing stored is of a session that has just been given its identifier.
<1>7. ASSUME NEW s \in Stored
      PROVE  s.session = session' <=> s.session = session
  <2>1. s.session \in SessionIDs /\ s.session <= drawn
    BY <1>7, Typed DEF IInv, SessionInv, States
  <2>2. CASE session = None
    BY <1>1, <1>4, <2>1, <2>2, NoneAssumption DEF SessionIDs
  <2>3. CASE session # None
    BY <1>1, <2>3
  <2> QED
    BY <2>2, <2>3
<1>8. UNCHANGED KeptRecords
  BY <1>3, <1>7, Typed DEF IInv, KeptRecords
<1>9. TypeOK'
  BY <1>2, <1>4, <1>6 DEF IInv, TypeOK, Reads
<1>10. SessionInv'
  <2>1. \A s \in Stored : s.session <= drawn'
    BY <1>4, Typed DEF IInv, SessionInv, States, SessionIDs
  <2> QED
    BY <1>1, <1>2, <1>3, <1>4, <1>5, <1>6, <2>1 DEF SessionInv
<1>11. RightInv'
  <2>1. Remembered = Stored
    BY <1>1 DEF Remembered, Stored
  <2> QED
    BY <1>2, <1>3, <1>7, <2>1 DEF IInv, RightInv
<1>12. PendingInv' /\ ShownInv' /\ WrittenInv' /\ FullInv'
  BY <1>1, <1>2, <1>3, <1>6, <1>8 DEF IInv, PendingInv, ShownInv, WrittenInv, FullInv
<1> QED
  BY <1>9, <1>10, <1>11, <1>12 DEF IInv

\* initialize: a reading that throws lets go of what was read.
LEMMA FailInitializeKeeps ==
  ASSUME IInv, FailInitialize
  PROVE  IInv'
<1>1. /\ UNCHANGED <<tabs, pipe, storage, state, queued, flushScheduled, history, drawn>>
      /\ worker = "initializing" /\ worker' = "failed" /\ read' = NothingRead
      /\ Spend("faults", MaxFaults)
  BY DEF FailInitialize
<1>2. UNCHANGED <<open, known, real, pipe, session, local, writes, state, queued, flushScheduled, lost, lastFailed, drawn>>
  BY <1>1 DEF tabs, storage, history
<1>3. UNCHANGED <<Pending, Kept, KeptRecords, Stored, Remembered>>
  BY <1>2 DEF Pending, Kept, KeptRecords, Stored, Remembered
<1>4. spent' \in Bounds /\ spent'.sessions = spent.sessions /\ spent'.changes = spent.changes
  BY <1>1, Spent DEF IInv
<1>5. NothingRead \in Reads /\ NothingRead.session = None /\ NothingRead.tabs = {None}
  BY NothingIsRead
<1>6. TypeOK'
  BY <1>1, <1>2, <1>4, <1>5 DEF IInv, TypeOK, Bounds, Reads
<1>7. SessionInv'
  BY <1>1, <1>2, <1>3, <1>4, <1>5 DEF IInv, SessionInv
<1>8. PendingInv' /\ RightInv' /\ ShownInv' /\ WrittenInv' /\ FullInv'
  BY <1>1, <1>2, <1>3, <1>4, <1>5 DEF IInv, PendingInv, RightInv, ShownInv, WrittenInv, FullInv
<1> QED
  BY <1>6, <1>7, <1>8 DEF IInv

\* What Chrome has sent is the end of what is pending.
LEMMA PipeIsLast ==
  ASSUME TypeOK, NEW i \in 0..Len(pipe)
  PROVE  /\ Len(queued) + i \in 0..Len(Pending)
         /\ SubSeq(pipe, i + 1, Len(pipe)) = SubSeq(Pending, (Len(queued) + i) + 1, Len(Pending))
<1>1. /\ queued \in Seq(Event) /\ pipe \in Seq(Event) /\ Pending \in Seq(Event)
      /\ Len(queued) \in Nat /\ Len(pipe) \in Nat
      /\ Len(Pending) = Len(queued) + Len(pipe)
      /\ \A j \in 1..(Len(queued) + Len(pipe)) :
           Pending[j] = IF j <= Len(queued) THEN queued[j] ELSE pipe[j - Len(queued)]
  <2>1. queued \in Seq(Event) /\ pipe \in Seq(Event)
    BY DEF TypeOK
  <2> QED
    BY <2>1, ConcatProperties, LenProperties DEF Pending
<1> DEFINE m == Len(queued) + i
           q == SubSeq(pipe, i + 1, Len(pipe))
           r == SubSeq(Pending, m + 1, Len(Pending))
<1>2. m \in 0..Len(Pending) /\ Len(Pending) - m = Len(pipe) - i
  BY <1>1
<1>3. q \in Seq(Event) /\ Len(q) = Len(pipe) - i /\ DOMAIN q = 1..(Len(pipe) - i) /\ \A j \in DOMAIN q : q[j] = pipe[j + i]
  BY <1>1, Later
<1>4. r \in Seq(Event) /\ Len(r) = Len(Pending) - m /\ DOMAIN r = 1..(Len(Pending) - m) /\ \A j \in DOMAIN r : r[j] = Pending[j + m]
  <2> HIDE DEF m
  <2> QED
    BY <1>1, <1>2, Later
<1> HIDE DEF q, r
<1>5. ASSUME NEW j \in 1..(Len(pipe) - i)
      PROVE  q[j] = r[j]
  <2>1. j + m \in 1..(Len(queued) + Len(pipe)) /\ ~(j + m <= Len(queued)) /\ (j + m) - Len(queued) = j + i
    BY <1>1
  <2>2. Pending[j + m] = pipe[j + i]
    BY <1>1, <2>1
  <2> QED
    BY <1>2, <1>3, <1>4, <2>2
<1>6. Len(q) = Len(pipe) - i /\ Len(r) = Len(pipe) - i
  BY <1>2, <1>3, <1>4
<1>7. q = r
  BY <1>3, <1>4, <1>5, <1>6, SeqEqual
<1> QED
  BY <1>2, <1>7 DEF q, r

\* With only what Chrome has sent to come, or some of it, what is remembered is right.
LEMMA RestKeeps ==
  ASSUME IInv, NEW i \in 0..Len(pipe)
  PROVE  LET q == SubSeq(pipe, i + 1, Len(pipe)) IN
         /\ q \in Seq(Event)
         /\ Orderly(q, open, known, real)
         /\ \A s \in Remembered : s.session = session => Right(s, q, known, real)
<1> DEFINE m == Len(queued) + i
           q == SubSeq(pipe, i + 1, Len(pipe))
<1>1. m \in 0..Len(Pending) /\ q = SubSeq(Pending, m + 1, Len(Pending))
  BY PipeIsLast DEF IInv
<1>2. /\ Pending \in Seq(Event) /\ real \in [Tabs -> Record] /\ Orderly(Pending, open, known, real)
      /\ Remembered \subseteq States
  BY Typed DEF IInv, TypeOK, PendingInv
<1> HIDE DEF m, q
<1>3. q \in Seq(Event) /\ Orderly(q, open, known, real)
  BY <1>1, <1>2, Later, LeftOrderly
<1>4. \A t \in Tabs : Number(q, t) <= Number(Pending, t) /\ \A type : Has(q, type, t) => Has(Pending, type, t)
  BY <1>1, <1>2, Later
<1>5. \A s \in Remembered : s.session = session => Right(s, q, known, real)
  BY <1>2, <1>3, <1>4, StillRight DEF IInv, RightInv
<1> QED
  BY <1>3, <1>5 DEF q

\* The three readings are in: what was stored is brought up to date.
LEMMA ReconcileKeeps ==
  ASSUME IInv, worker = "initializing", read.session # None, read.tabs # {None}
  PROVE  LET s == Reconcile(read.local, read.tabs, read.session) IN
         /\ s \in States /\ s.session = session
         /\ Right(s, Pending, known, real)
         /\ Shown(DOMAIN s.records, Pending, open)
         /\ ~lost => Full(s.records, Pending, open, real)
<1> DEFINE kept == IF read.local # None /\ read.local.session = read.session THEN read.local.records ELSE <<>>
           s == Reconcile(read.local, read.tabs, read.session)
           now == read.tabs \ Incognito
<1>1. /\ read.session = session /\ read.local = local /\ writes = <<>> /\ state = None
      /\ read.tabs \subseteq Tabs /\ session \in SessionIDs
      /\ open \subseteq known /\ known \subseteq Tabs /\ real \in [Tabs -> Record]
  BY DEF IInv, TypeOK, SessionInv
<1>2. kept = KeptRecords /\ kept = KnownRecords
  BY <1>1 DEF KeptRecords, Kept, KnownRecords
<1>3. s = [session |-> session, records |-> [t \in now |-> RecordOf(kept, t)]]
  BY <1>1 DEF Reconcile, RecordOf
<1> HIDE DEF kept, s
<1>4. s.session = session /\ s.records = [t \in now |-> RecordOf(kept, t)] /\ DOMAIN s.records = now
  BY <1>3
<1>5. kept \in UNION {[D -> Record] : D \in SUBSET known}
  BY <1>2, KnownTabs
<1>6. ASSUME NEW t
      PROVE  RecordOf(kept, t) \in Record
  BY <1>5, BoundAssumption DEF RecordOf, Unseen, Record
<1>7. s \in States
  <2>1. now \in SUBSET Tabs /\ s.records \in [now -> Record]
    BY <1>1, <1>4, <1>6
  <2>2. s.records \in UNION {[D -> Record] : D \in SUBSET Tabs}
    BY <2>1
  <2>3. s = [session |-> session, records |-> s.records]
    BY <1>3, <1>4
  <2> QED
    BY <1>1, <2>2, <2>3 DEF States
\* What is kept of this session is right.
<1>8. ASSUME NEW t \in DOMAIN kept
      PROVE  /\ Covered(kept[t], Pending, t, real)
             /\ Has(Pending, "tab-created", t) => kept[t] = Unseen
  <2>1. local \in Remembered /\ local.session = session /\ kept = local.records
    BY <1>1, <1>8 DEF kept, Remembered, Stored
  <2> QED
    BY <1>8, <2>1 DEF IInv, RightInv, Right
<1>9. /\ Orderly(Pending, open, known, real)
      /\ Shown(read.tabs, Pending, open)
  BY DEF IInv, PendingInv, ShownInv
<1>10. Right(s, Pending, known, real)
  <2> SUFFICES ASSUME NEW t \in now
               PROVE  /\ t \in known
                      /\ Covered(s.records[t], Pending, t, real)
                      /\ Has(Pending, "tab-created", t) => s.records[t] = Unseen
    BY <1>4 DEF Right
  <2>1. t \in Tabs \ Incognito /\ s.records[t] = RecordOf(kept, t)
    BY <1>1, <1>4
  <2>2. t \in open \/ Has(Pending, "tab-removed", t)
    BY <1>9, <2>1 DEF Shown
  <2>3. t \in known
    BY <1>1, <1>9, <2>1, <2>2 DEF Orderly, Has, Ev
  <2>4. Covered(Unseen, Pending, t, real)
    BY <1>9, <2>1 DEF Orderly
  <2> QED
    BY <1>8, <2>1, <2>3, <2>4 DEF RecordOf
<1>11. Shown(DOMAIN s.records, Pending, open)
  BY <1>4, <1>9 DEF Shown
<1>12. ASSUME ~lost
       PROVE  Full(s.records, Pending, open, real)
  <2> SUFFICES ASSUME NEW t \in open \ Incognito
               PROVE  Complete(RecordOf(s.records, t), Pending, t, real)
    BY DEF Full
  <2>1. Complete(RecordOf(kept, t), Pending, t, real)
    BY <1>2, <1>12 DEF IInv, FullInv, Full, KnownRecords
  <2>2. RecordOf(s.records, t) = RecordOf(kept, t)
    <3>1. CASE t \in read.tabs
      BY <1>4, <3>1 DEF RecordOf
    <3>2. CASE t \notin read.tabs
      <4>1. Has(Pending, "tab-created", t)
        BY <1>1, <1>9, <3>2 DEF Shown
      <4> QED
        BY <1>4, <1>8, <3>2, <4>1 DEF RecordOf
    <3> QED
      BY <3>1, <3>2
  <2> QED
    BY <2>1, <2>2
<1> QED
  BY <1>4, <1>7, <1>10, <1>11, <1>12 DEF s

\* initialize: the records are reconciled and what was queued is replayed, in one step.
LEMMA InitializeKeeps ==
  ASSUME IInv, Initialize
  PROVE  IInv'
<1> DEFINE s == Reconcile(read.local, read.tabs, read.session)
<1>1. /\ worker = "initializing" /\ read.session # None /\ read.tabs # {None}
      /\ worker' = "initialized" /\ state' = Replayed(s) /\ read' = NothingRead /\ queued' = <<>>
      /\ writes' = Append(writes, state')
      /\ UNCHANGED <<open, known, real, pipe, session, local, flushScheduled, lost, lastFailed, drawn, spent>>
  BY DEF Initialize, Emptied, tabs, history
<1>2. /\ s \in States /\ s.session = session
      /\ Right(s, Pending, known, real)
      /\ Shown(DOMAIN s.records, Pending, open)
      /\ ~lost => Full(s.records, Pending, open, real)
  BY <1>1, ReconcileKeeps
<1>3. /\ queued \in Seq(Event) /\ pipe \in Seq(Event) /\ open \subseteq Tabs /\ real \in [Tabs -> Record]
      /\ Orderly(Pending, open, known, real) /\ state = None /\ writes = <<>> /\ local \in States \cup {None}
      /\ session \in SessionIDs /\ session # None /\ session <= drawn
  BY <1>1 DEF IInv, TypeOK, PendingInv, SessionInv
<1> HIDE DEF s
<1>4. /\ state' \in States /\ state'.session = session
      /\ Orderly(pipe, open, known, real)
      /\ Right(state', pipe, known, real)
      /\ Shown(DOMAIN state'.records, pipe, open)
      /\ ~lost => Full(state'.records, pipe, open, real)
  BY <1>1, <1>2, <1>3, ReplayKeeps
<1>5. state' # None
  BY <1>4, NoneAssumption
<1>6. writes' = <<state'>> /\ writes' \in Seq(States) /\ Kept' = state' /\ writes' # <<>>
  BY <1>1, <1>3, <1>4 DEF Kept
<1>7. Stored' = Stored \cup {state'} /\ Remembered' = Remembered \cup {state'}
  <2>1. {writes'[i] : i \in DOMAIN writes'} = {state'} /\ {writes[i] : i \in DOMAIN writes} = {}
    BY <1>3, <1>6
  <2> QED
    BY <1>1, <1>3, <1>5, <2>1 DEF Stored, Remembered
<1>8. Pending' = pipe
  BY <1>1, <1>3, ConcatEmptySeq DEF Pending
<1>9. TypeOK'
  BY <1>1, <1>4, <1>5, <1>6, <1>3, EmptySeq, NothingIsRead DEF IInv, TypeOK, Reads
<1>10. SessionInv'
  BY <1>1, <1>3, <1>4, <1>7, NothingIsRead DEF IInv, SessionInv
<1>11. PendingInv'
  BY <1>1, <1>4, <1>8 DEF IInv, PendingInv
<1>12. RightInv'
  <2>1. SubSeq(pipe, 0 + 1, Len(pipe)) = pipe /\ 0 \in 0..Len(pipe)
    BY <1>3, SubSeqFull, LenProperties
  <2>2. \A u \in Remembered : u.session = session => Right(u, pipe, known, real)
    BY <2>1, RestKeeps
  <2> QED
    BY <1>1, <1>4, <1>7, <1>8, <2>2 DEF RightInv
<1>13. ShownInv'
  BY <1>1, <1>4, <1>8, NothingIsRead DEF ShownInv
<1>14. WrittenInv'
  BY <1>6 DEF WrittenInv
<1>15. FullInv'
  BY <1>1, <1>4, <1>5, <1>8 DEF FullInv
<1> QED
  BY <1>9, <1>10, <1>11, <1>12, <1>13, <1>14, <1>15 DEF IInv

\* The worker handles an event, or queues it until it has read what it needs.
LEMMA DispatchKeeps ==
  ASSUME IInv, Dispatch
  PROVE  IInv'
<1>1. /\ worker # "stopped" /\ pipe # <<>> /\ pipe' = Tail(pipe)
      /\ UNCHANGED <<open, known, real, session, local, writes, worker, read, lost, lastFailed, drawn, spent>>
  BY DEF Dispatch, tabs, storage, history
<1>2. /\ queued \in Seq(Event) /\ pipe \in Seq(Event) /\ Pending \in Seq(Event)
      /\ open \in SUBSET Tabs /\ real \in [Tabs -> Record] /\ Orderly(Pending, open, known, real)
      /\ Head(pipe) \in Event /\ Tail(pipe) \in Seq(Event)
  BY <1>1, Typed, HeadTailProperties DEF IInv, TypeOK, PendingInv
<1>3. CASE state = None
  <2>1. queued' = Append(queued, Head(pipe)) /\ UNCHANGED <<state, flushScheduled>>
    BY <1>3 DEF Dispatch
  <2>2. Pending' = Pending /\ queued' \in Seq(Event)
    BY <1>1, <1>2, <2>1 DEF Pending
  <2>3. UNCHANGED <<Kept, KeptRecords, Stored, Remembered>>
    BY <1>1, <2>1 DEF Kept, KeptRecords, Stored, Remembered
  <2>4. TypeOK'
    BY <1>1, <1>2, <1>3, <2>1, <2>2 DEF IInv, TypeOK
  <2>5. SessionInv'
    BY <1>1, <2>1, <2>3 DEF IInv, SessionInv
  <2>6. PendingInv' /\ RightInv' /\ ShownInv' /\ WrittenInv' /\ FullInv'
    BY <1>1, <2>1, <2>2, <2>3 DEF IInv, PendingInv, RightInv, ShownInv, WrittenInv, FullInv
  <2> QED
    BY <2>4, <2>5, <2>6 DEF IInv
<1>4. CASE state # None
  <2>1. state' = Reduce(state, Head(pipe)) /\ flushScheduled' = TRUE /\ queued' = queued
    BY <1>4 DEF Dispatch, Scheduled
  <2>2. queued = <<>> /\ worker = "initialized" /\ state \in States /\ state \in Remembered /\ state.session = session
        /\ session # None /\ read = NothingRead
    BY <1>4, Typed DEF IInv, TypeOK, SessionInv
  <2>3. Pending = pipe /\ Pending' = Tail(pipe)
    BY <1>1, <1>2, <2>1, <2>2, ConcatEmptySeq DEF Pending
  <2>4. Orderly(Tail(pipe), open, known, real)
    BY <1>1, <1>2, <2>3, Handled
  <2>5. /\ Right(state, pipe, known, real) /\ Shown(DOMAIN state.records, pipe, open)
        /\ ~lost => Full(state.records, pipe, open, real)
    BY <1>4, <2>2, <2>3 DEF IInv, RightInv, ShownInv, FullInv
  <2>6. /\ state' \in States /\ state'.session = session
        /\ Right(state', Tail(pipe), known, real)
        /\ Shown(DOMAIN state'.records, Tail(pipe), open)
        /\ ~lost => Full(state'.records, Tail(pipe), open, real)
    BY <1>1, <1>2, <2>1, <2>2, <2>3, <2>5, ReduceKeeps
  <2>7. state' # None
    BY <2>6, NoneAssumption
  <2>8. UNCHANGED Stored /\ Remembered' = Stored \cup {state'}
    BY <1>1, <2>7 DEF Stored, Remembered
  <2>9. TypeOK'
    BY <1>1, <1>2, <2>1, <2>2, <2>6, <2>7 DEF IInv, TypeOK
  <2>10. SessionInv'
    BY <1>1, <2>2, <2>6, <2>8 DEF IInv, SessionInv
  <2>11. PendingInv'
    BY <1>1, <2>3, <2>4 DEF IInv, PendingInv
  <2>12. RightInv'
    <3>1. Tail(pipe) = SubSeq(pipe, 1 + 1, Len(pipe)) /\ 1 \in 0..Len(pipe)
      <4>1. Len(pipe) \in Nat \ {0} /\ 1 + 1 = 2
        BY <1>1, <1>2, EmptySeq
      <4> QED
        BY <1>1, <1>2, <4>1, TailIsSubSeq
    <3>2. \A s \in Remembered : s.session = session => Right(s, Tail(pipe), known, real)
      BY <3>1, RestKeeps
    <3>3. Stored \subseteq Remembered
      BY DEF Stored, Remembered
    <3> QED
      BY <1>1, <2>3, <2>6, <2>8, <3>2, <3>3 DEF RightInv
  <2>13. ShownInv'
    BY <1>1, <2>2, <2>3, <2>6, NothingIsRead DEF ShownInv
  <2>14. WrittenInv'
    BY <2>1 DEF WrittenInv
  <2>15. FullInv'
    BY <1>1, <2>3, <2>6, <2>7 DEF FullInv
  <2> QED
    BY <2>9, <2>10, <2>11, <2>12, <2>13, <2>14, <2>15 DEF IInv
<1> QED
  BY <1>3, <1>4

\* The state of now is sent to the storage.
LEMMA FlushKeeps ==
  ASSUME IInv, Flush
  PROVE  IInv'
<1>1. /\ flushScheduled /\ writes' = Append(writes, state) /\ flushScheduled' = FALSE
      /\ UNCHANGED <<open, known, real, pipe, session, local, worker, read, state, queued, lost, lastFailed, drawn, spent>>
  BY DEF Flush, tabs, history
<1>2. /\ state # None /\ worker = "initialized" /\ state \in States /\ state \in Remembered
      /\ session # None /\ state.session = session /\ session <= drawn /\ read = NothingRead /\ writes \in Seq(States)
  BY <1>1, Typed DEF IInv, TypeOK, SessionInv
<1>3. /\ writes' \in Seq(States) /\ Len(writes') = Len(writes) + 1 /\ Len(writes) \in Nat
      /\ DOMAIN writes = 1..Len(writes) /\ DOMAIN writes' = 1..(Len(writes) + 1)
      /\ \A i \in 1..Len(writes) : writes'[i] = writes[i]
      /\ writes'[Len(writes) + 1] = state
  BY <1>1, <1>2, LenProperties
<1>4. writes' # <<>> /\ Kept' = state
  BY <1>3, EmptySeq DEF Kept
<1>5. Stored' = Stored \cup {state} /\ Remembered' = Remembered
  <2>1. {writes'[i] : i \in DOMAIN writes'} = {writes[i] : i \in DOMAIN writes} \cup {state}
    BY <1>3
  <2> QED
    BY <1>1, <1>2, <2>1 DEF Stored, Remembered
<1>6. UNCHANGED Pending
  BY <1>1 DEF Pending
<1>7. TypeOK'
  BY <1>1, <1>2, <1>3 DEF IInv, TypeOK
<1>8. SessionInv'
  BY <1>1, <1>2, <1>5, NothingIsRead DEF IInv, SessionInv
<1>9. PendingInv' /\ RightInv' /\ ShownInv'
  BY <1>1, <1>2, <1>5, <1>6 DEF IInv, PendingInv, RightInv, ShownInv
<1>10. WrittenInv' /\ FullInv'
  BY <1>1, <1>2, <1>4, <1>6 DEF IInv, WrittenInv, FullInv
<1> QED
  BY <1>7, <1>8, <1>9, <1>10 DEF IInv

\* Chrome stores the first of the states it has been sent, or fails to.
LEMMA StoreKeeps ==
  ASSUME IInv, Store
  PROVE  IInv'
<1>1. /\ writes # <<>> /\ writes' = Tail(writes)
      /\ \/ /\ local' = Head(writes) /\ lastFailed' = FALSE /\ lost' = lost /\ spent' = spent
         \/ /\ Spend("faults", MaxFaults) /\ lastFailed' = TRUE /\ lost' = (lost \/ state = None) /\ local' = local
      /\ UNCHANGED <<open, known, real, pipe, session, worker, read, state, queued, flushScheduled, drawn>>
  BY DEF Store, tabs, runtime
<1>2. /\ writes \in Seq(States) /\ Len(writes) \in Nat \ {0} /\ DOMAIN writes = 1..Len(writes)
      /\ \A i \in 1..Len(writes) : writes[i] \in States
      /\ Head(writes) = writes[1]
      /\ writes' \in Seq(States) /\ Len(writes') = Len(writes) - 1 /\ DOMAIN writes' = 1..(Len(writes) - 1)
      /\ \A i \in 1..(Len(writes) - 1) : writes'[i] = writes[i + 1]
  <2>1. writes \in Seq(States)
    BY DEF IInv, TypeOK
  <2> QED
    BY <1>1, <2>1, EmptySeq, HeadTailProperties, LenProperties, ElementOfSeq
<1>3. read.session = None
  BY <1>1 DEF IInv, SessionInv
<1>4. local' \in {local, writes[1]} /\ local' \in States \cup {None}
  BY <1>1, <1>2 DEF IInv, TypeOK
<1>5. Stored' \subseteq Stored /\ Remembered' \subseteq Remembered
  <2>1. \A i \in DOMAIN writes' : \E j \in DOMAIN writes : writes'[i] = writes[j]
    <3>1. \A i \in DOMAIN writes' : i + 1 \in DOMAIN writes
      BY <1>2
    <3> QED
      BY <1>2, <3>1
  <2>2. 1 \in DOMAIN writes
    BY <1>2
  <2>3. Stored' \subseteq Stored
    BY <1>4, <2>1, <2>2 DEF Stored
  <2> QED
    BY <1>1, <2>3 DEF Remembered
<1>6. writes' # <<>> => Kept' = Kept
  <2>1. ASSUME writes' # <<>>
        PROVE  writes'[Len(writes')] = writes[Len(writes)]
    <3>1. Len(writes) - 1 \in 1..(Len(writes) - 1)
      BY <1>2, <2>1, EmptySeq
    <3> QED
      BY <1>2, <3>1
  <2> QED
    BY <1>1, <2>1 DEF Kept
<1>7. writes' = <<>> => Kept = writes[1] /\ Kept' = local'
  <2>1. ASSUME writes' = <<>> PROVE Len(writes) = 1
    <3>1. Len(writes') = 0
      BY <2>1, EmptySeq
    <3>2. Len(writes) \in Nat /\ 0 = Len(writes) - 1
      BY <1>2, <3>1
    <3> QED
      BY <3>2
  <2> QED
    BY <1>1, <2>1 DEF Kept
<1>8. UNCHANGED Pending
  BY <1>1 DEF Pending
<1>9. spent' \in Bounds /\ spent'.sessions = spent.sessions /\ spent'.changes = spent.changes
  BY <1>1, Spent DEF IInv, TypeOK, Bounds
<1>10. TypeOK'
  BY <1>1, <1>2, <1>4, <1>9, ZenonT(40) DEF IInv, TypeOK, Bounds
<1>11. SessionInv'
  BY <1>1, <1>3, <1>5, <1>9 DEF IInv, SessionInv
<1>12. PendingInv' /\ RightInv' /\ ShownInv'
  BY <1>1, <1>5, <1>8, <1>9 DEF IInv, PendingInv, RightInv, ShownInv
<1>13. WrittenInv'
  BY <1>1, <1>2, <1>6, <1>7 DEF IInv, WrittenInv
\* A state that is lost for the next worker is noted as such.
<1>14. FullInv'
  <2>0. ASSUME ~lost' PROVE ~lost /\ (state = None => local' = Head(writes))
    <3>1. CASE local' = Head(writes) /\ lost' = lost
      BY <2>0, <3>1
    <3>2. CASE lost' = (lost \/ state = None)
      BY <2>0, <3>2
    <3> QED
      BY <1>1, <3>1, <3>2
  <2>1. CASE state # None
    BY <1>1, <1>8, <2>0, <2>1 DEF IInv, FullInv
  <2>2. CASE state = None /\ ~lost'
    <3>1. Kept' = Kept /\ ~lost
      BY <1>2, <1>6, <1>7, <2>0, <2>2
    <3> QED
      BY <1>1, <1>8, <2>2, <3>1 DEF IInv, FullInv, KeptRecords
  <2> QED
    BY <2>1, <2>2 DEF FullInv
<1> QED
  BY <1>10, <1>11, <1>12, <1>13, <1>14 DEF IInv

\* Chrome stops the worker: some of what was on its way may go with it.
LEMMA StopWorkerKeeps ==
  ASSUME IInv, StopWorker
  PROVE  IInv'
<1>1. /\ worker # "stopped" /\ worker' = "stopped" /\ read' = NothingRead /\ state' = None /\ queued' = <<>>
      /\ flushScheduled' = FALSE /\ Spend("stops", MaxStops)
      /\ UNCHANGED <<open, known, real, session, local, lastFailed, drawn>>
  BY DEF StopWorker, Stop, tabs
<1>2. PICK i \in 0..Len(pipe), n \in 0..Len(writes) :
        /\ pipe' = SubSeq(pipe, i + 1, Len(pipe))
        /\ writes' = SubSeq(writes, 1, n)
        /\ lost' = (\/ lost \/ lastFailed \/ flushScheduled
                    \/ queued # <<>> \/ i > 0 \/ n < Len(writes))
  BY DEF StopWorker
<1>3. /\ queued \in Seq(Event) /\ pipe \in Seq(Event) /\ writes \in Seq(States) /\ Len(writes) \in Nat
      /\ DOMAIN writes = 1..Len(writes) /\ \A j \in 1..Len(writes) : writes[j] \in States
  <2>1. queued \in Seq(Event) /\ pipe \in Seq(Event) /\ writes \in Seq(States)
    BY DEF IInv, TypeOK
  <2> QED
    BY <2>1, LenProperties, ElementOfSeq
<1>4. writes' \in Seq(States) /\ DOMAIN writes' = 1..n /\ \A j \in 1..n : writes'[j] = writes[j]
  <2>1. /\ writes' \in Seq(States) /\ Len(writes') = IF 1 <= n THEN n - 1 + 1 ELSE 0
        /\ \A j \in 1..(n - 1 + 1) : writes'[j] = writes[1 + j - 1]
    <3>1. 1 \in Int /\ n \in Int /\ \A j \in 1..n : writes[j] \in States
      BY <1>3
    <3> QED
      BY <1>2, <3>1, SubSeqProperties
  <2>2. Len(writes') = n
    BY <1>3, <2>1
  <2>3. DOMAIN writes' = 1..n
    BY <2>1, <2>2, LenProperties
  <2> QED
    BY <1>3, <2>1, <2>3
<1>5. Stored' \subseteq Stored /\ Remembered' = Stored' /\ Stored \subseteq Remembered
  <2>1. {writes'[j] : j \in DOMAIN writes'} \subseteq {writes[j] : j \in DOMAIN writes}
    BY <1>3, <1>4
  <2> QED
    BY <1>1, <2>1 DEF Stored, Remembered
<1>6. /\ pipe' \in Seq(Event)
      /\ Orderly(pipe', open, known, real)
      /\ \A s \in Remembered : s.session = session => Right(s, pipe', known, real)
  BY <1>2, RestKeeps
<1>7. Pending' = pipe'
  BY <1>1, <1>6, ConcatEmptySeq DEF Pending
<1>8. spent' \in Bounds /\ spent'.sessions = spent.sessions /\ spent'.changes = spent.changes
  BY <1>1, Spent DEF IInv
<1>9. TypeOK'
  <2>1. lost' \in BOOLEAN
    BY <1>2 DEF IInv, TypeOK
  <2> QED
    BY <1>1, <1>4, <1>6, <1>8, <2>1, EmptySeq, NothingIsRead DEF IInv, TypeOK, Bounds, Reads
<1>10. SessionInv'
  BY <1>1, <1>5, <1>8, NothingIsRead DEF IInv, SessionInv
<1>11. PendingInv'
  BY <1>1, <1>6, <1>7, <1>8 DEF IInv, PendingInv
<1>12. RightInv'
  BY <1>1, <1>5, <1>6, <1>7 DEF RightInv
<1>13. ShownInv' /\ WrittenInv'
  BY <1>1, NothingIsRead DEF ShownInv, WrittenInv
\* Nothing is lost: the next worker will read what this one knew.
<1>14. ASSUME ~lost'
       PROVE  Full(KnownRecords, Pending, open, real) /\ KnownRecords' = KnownRecords /\ Pending' = Pending
  <2>0. ~(\/ lost \/ lastFailed \/ flushScheduled
          \/ queued # <<>> \/ i > 0 \/ n < Len(writes))
    BY <1>2, <1>14
  <2>1. ~lost /\ ~lastFailed /\ ~flushScheduled /\ queued = <<>> /\ i = 0 /\ n = Len(writes)
    <3>1. ~lost /\ ~lastFailed /\ ~flushScheduled /\ queued = <<>> /\ ~(i > 0) /\ ~(n < Len(writes))
      BY <2>0
    <3>2. i \in Nat /\ n \in Nat /\ n <= Len(writes) /\ Len(writes) \in Nat
      BY <1>3
    <3>3. i = 0 /\ n = Len(writes)
      BY <3>1, <3>2
    <3> QED
      BY <3>1, <3>3
  <2>2. pipe' = pipe /\ writes' = writes
    BY <1>2, <1>3, <2>1, SubSeqFull
  <2>3. Kept' = Kept /\ KeptRecords' = KeptRecords /\ Pending' = Pending
    BY <1>1, <2>1, <2>2 DEF Kept, KeptRecords, Pending
  <2>4. state # None => Kept = state /\ state.session = session
    BY <2>1 DEF IInv, WrittenInv, SessionInv
  <2>5. KnownRecords' = KnownRecords
    BY <1>1, <2>3, <2>4 DEF KnownRecords, KeptRecords
  <2> QED
    BY <2>1, <2>3, <2>5 DEF IInv, FullInv, KnownRecords
<1>15. FullInv'
  BY <1>1, <1>14 DEF FullInv, KnownRecords
<1> QED
  BY <1>9, <1>10, <1>11, <1>12, <1>13, <1>15 DEF IInv

\* The browser starts anew: nothing is known of the tabs of the new session, and
\* nothing that is stored is of it.
LEMMA RestartBrowserKeeps ==
  ASSUME IInv, RestartBrowser
  PROVE  IInv'
<1>1. /\ worker' = "stopped" /\ read' = NothingRead /\ state' = None /\ queued' = <<>> /\ flushScheduled' = FALSE
      /\ Spend("sessions", MaxSessions)
      /\ open' \in SUBSET Tabs /\ known' = open' /\ real' = [t \in Tabs |-> Unseen]
      /\ pipe' = <<>> /\ session' = None /\ local' \in {local} \cup Range(writes) /\ writes' = <<>>
      /\ lost' = FALSE /\ lastFailed' = FALSE /\ drawn' = drawn
  <2>1. CASE Stop
    BY <2>1 DEF RestartBrowser, Stop
  <2>2. CASE worker = "stopped" /\ UNCHANGED runtime
    <3>1. read = NothingRead /\ state = None /\ queued = <<>> /\ flushScheduled = FALSE
      BY <2>2 DEF IInv, TypeOK, SessionInv, PendingInv
    <3> QED
      BY <2>2, <3>1 DEF RestartBrowser, runtime
  <2> QED
    BY <2>1, <2>2 DEF RestartBrowser
<1>2. Stored' \subseteq Stored /\ Remembered' = Stored' /\ Stored \subseteq States /\ local' \in States \cup {None}
  <2>1. Range(writes) = {writes[i] : i \in DOMAIN writes}
    BY DEF Range
  <2>2. local' \in Stored \cup {None}
    BY <1>1, <2>1 DEF Stored
  <2>3. Stored \subseteq States
    BY Typed DEF IInv
  <2>4. DOMAIN writes' = {}
    BY <1>1
  <2>5. Stored' = {local'} \ {None}
    BY <2>4 DEF Stored
  <2>6. Remembered' = Stored'
    BY <1>1, <2>5 DEF Remembered
  <2> QED
    BY <2>2, <2>3, <2>5, <2>6
<1>3. spent' \in Bounds /\ spent'.sessions = spent.sessions + 1
  BY <1>1, Spent DEF IInv
<1>4. Unseen \in Record /\ Unseen.activationCount = 0
  BY BoundAssumption DEF Unseen, Record
<1>5. real' \in [Tabs -> Record] /\ \A t \in Tabs : real'[t] = Unseen
  BY <1>1, <1>4
<1>6. Pending' = <<>>
  BY <1>1 DEF Pending
<1>7. \A s \in Stored : s.session \in SessionIDs /\ s.session # None
  BY <1>2, NoneAssumption DEF States, SessionIDs
<1>8. TypeOK'
  BY <1>1, <1>2, <1>3, <1>5, EmptySeq, NothingIsRead DEF IInv, TypeOK, Bounds, Reads
<1>9. SessionInv'
  <2>1. drawn <= spent.sessions /\ drawn \in Nat /\ spent.sessions \in Nat /\ \A s \in Stored : s.session <= drawn
    BY BoundAssumption DEF IInv, SessionInv, TypeOK
  <2>2. drawn < spent.sessions + 1
    BY <2>1
  <2>3. drawn' <= spent'.sessions /\ drawn' < spent'.sessions
    BY <1>1, <1>3, <2>1, <2>2
  <2> QED
    BY <1>1, <1>2, <2>1, <2>3, NothingIsRead DEF SessionInv
<1>10. PendingInv'
  <2>1. Orderly(<<>>, open', known', real')
    <3> SUFFICES ASSUME NEW t \in Tabs
                 PROVE  ~Has(<<>>, "tab-removed", t) /\ Covered(Unseen, <<>>, t, real')
      BY DEF Orderly
    <3> QED
      BY <1>4, <1>5, NoEvents DEF Covered
  <2>2. \A t \in Tabs : real'[t].activationCount <= spent'.changes
    <3>1. spent'.changes \in Nat
      BY <1>3, BoundAssumption DEF Bounds
    <3> QED
      BY <1>4, <1>5, <3>1
  <2> QED
    BY <1>1, <1>6, <2>1, <2>2 DEF PendingInv
<1>11. RightInv'
  BY <1>1, <1>2, <1>7 DEF RightInv
<1>12. ShownInv' /\ WrittenInv'
  BY <1>1, NothingIsRead DEF ShownInv, WrittenInv
<1>13. FullInv'
  <2>1. KeptRecords' = <<>>
    <3>1. Kept' = local'
      BY <1>1 DEF Kept
    <3>2. Kept' # None => Kept'.session # None
      <4>1. local' # None => local' \in Stored'
        BY DEF Stored
      <4> QED
        BY <1>2, <1>7, <3>1, <4>1
    <3> QED
      BY <1>1, <3>2 DEF KeptRecords
  <2>2. Full(<<>>, <<>>, open', real')
    <3> SUFFICES ASSUME NEW t \in open' \ Incognito
                 PROVE  Complete(Unseen, <<>>, t, real')
      BY DEF Full, RecordOf
    <3>1. Number(<<>>, t) = 0 /\ \A type : ~Has(<<>>, type, t)
      BY NoEvents
    <3>2. real'[t] = Unseen
      BY <1>1, <1>5
    <3> QED
      BY <1>4, <3>1, <3>2 DEF Complete, Unseen
  <2> QED
    BY <1>1, <1>6, <2>1, <2>2 DEF FullInv
<1> QED
  BY <1>8, <1>9, <1>10, <1>11, <1>12, <1>13 DEF IInv

\* A first worker knows nothing, and nothing has happened.
LEMMA InitKeeps == Init => IInv
<1> SUFFICES ASSUME Init PROVE IInv
  OBVIOUS
<1>1. /\ open \in SUBSET Tabs /\ known = open /\ pipe = <<>> /\ session = None /\ local = None /\ writes = <<>>
      /\ worker = "stopped" /\ read = NothingRead /\ state = None /\ queued = <<>> /\ flushScheduled = FALSE
      /\ real = [t \in Tabs |-> Unseen] /\ lost = FALSE /\ lastFailed = FALSE /\ drawn = 0
      /\ spent = [sessions |-> 1, changes |-> 0, stops |-> 0, faults |-> 0]
  BY DEF Init
<1>2. Unseen \in Record /\ Unseen.activationCount = 0
  BY BoundAssumption DEF Unseen, Record
<1>3. real \in [Tabs -> Record] /\ \A t \in Tabs : real[t] = Unseen
  BY <1>1, <1>2
<1>4. Pending = <<>> /\ Kept = None
  BY <1>1 DEF Pending, Kept
<1>5. Stored = {} /\ Remembered = {}
  BY <1>1 DEF Stored, Remembered
<1>6. TypeOK
  <2>1. spent \in Bounds /\ drawn \in 0..MaxSessions
    BY <1>1, BoundAssumption DEF Bounds
  <2> QED
    BY <1>1, <1>3, <2>1, EmptySeq, NothingIsRead DEF TypeOK, Bounds, Reads
<1>7. SessionInv
  BY <1>1, <1>5, NothingIsRead DEF SessionInv
<1>8. PendingInv
  <2>1. Orderly(<<>>, open, known, real)
    <3> SUFFICES ASSUME NEW t \in Tabs
                 PROVE  ~Has(<<>>, "tab-removed", t) /\ Covered(Unseen, <<>>, t, real)
      BY DEF Orderly
    <3>1. Number(<<>>, t) = 0 /\ \A type : ~Has(<<>>, type, t)
      BY NoEvents
    <3>2. real[t] = Unseen
      BY <1>3
    <3> QED
      BY <1>2, <3>1, <3>2 DEF Covered
  <2> QED
    BY <1>1, <1>2, <1>3, <1>4, <2>1 DEF PendingInv
<1>9. RightInv /\ ShownInv /\ WrittenInv
  BY <1>1, <1>5, NothingIsRead DEF RightInv, ShownInv, WrittenInv
<1>10. FullInv
  <2>1. Full(<<>>, <<>>, open, real)
    <3> SUFFICES ASSUME NEW t \in open \ Incognito
                 PROVE  Complete(Unseen, <<>>, t, real)
      BY DEF Full, RecordOf
    <3>1. Number(<<>>, t) = 0 /\ \A type : ~Has(<<>>, type, t)
      BY NoEvents
    <3>2. real[t] = Unseen
      BY <1>1, <1>3
    <3> QED
      BY <1>2, <3>1, <3>2 DEF Complete, Unseen
  <2> QED
    BY <1>1, <1>4, <2>1 DEF FullInv, KeptRecords
<1> QED
  BY <1>6, <1>7, <1>8, <1>9, <1>10 DEF IInv

\* No step, the stuttering one included, breaks the invariant.
LEMMA NextKeeps == IInv /\ [Next]_vars => IInv'
<1> SUFFICES ASSUME IInv, [Next]_vars PROVE IInv'
  OBVIOUS
<1>1. ASSUME NEW t \in Tabs, TabCreated(t)
      PROVE  IInv'
  <2> DEFINE e == Ev("tab-created", t)
  <2>1. e \in Event /\ e.tab = t /\ e.type = "tab-created"
    BY DEF Ev, Event
  <2>2. /\ pipe' = Append(pipe, e) /\ UNCHANGED <<storage, runtime, history, drawn>> /\ Spend("changes", MaxChanges)
        /\ t \notin known /\ open' = open \cup {t} /\ known' = known \cup {t}
        /\ real' = [real EXCEPT ![t] = Updated(@, "tab-created")]
    BY <1>1 DEF TabCreated, Happens, Ev
  <2> HIDE DEF e
  <2>3. Creates(e, open, known, real, open', known', real')
    BY <2>1, <2>2 DEF Creates, e
  <2> QED
    BY <2>1, <2>2, <2>3, HappeningKeeps
<1>2. ASSUME NEW t \in Tabs, NEW kind \in Kinds, TabChanged(t, kind)
      PROVE  IInv'
  <2> DEFINE e == Ev(kind, t)
  <2>1. e \in Event /\ e.tab = t /\ e.type = kind /\ kind \in ChangeKinds
    BY KindAssumption DEF Ev, Event
  <2>2. /\ pipe' = Append(pipe, e) /\ UNCHANGED <<storage, runtime, history, drawn>> /\ Spend("changes", MaxChanges)
        /\ t \in open /\ open' = open /\ known' = known
        /\ real' = [real EXCEPT ![t] = Updated(@, kind)]
    BY <1>2 DEF TabChanged, Happens, Ev
  <2> HIDE DEF e
  <2>3. Changes(e, open, known, real, open', known', real')
    BY <2>1, <2>2 DEF Changes, e
  <2> QED
    BY <2>1, <2>2, <2>3, HappeningKeeps
<1>3. ASSUME NEW t \in Tabs, TabRemoved(t)
      PROVE  IInv'
  <2> DEFINE e == Ev("tab-removed", t)
  <2>1. e \in Event /\ e.tab = t
    BY DEF Ev, Event
  <2>2. /\ pipe' = Append(pipe, e) /\ UNCHANGED <<storage, runtime, history, drawn>> /\ Spend("changes", MaxChanges)
        /\ t \in open /\ open' = open \ {t} /\ known' = known /\ real' = real
    BY <1>3 DEF TabRemoved, Happens, Ev
  <2> HIDE DEF e
  <2>3. Removes(e, open, known, real, open', known', real')
    BY <2>1, <2>2 DEF Removes, e
  <2> QED
    BY <2>1, <2>2, <2>3, HappeningKeeps
<1>4. CASE GroupChanged
  <2> DEFINE e == Ev("group-changed", None)
  <2>1. e \in Event
    BY DEF Ev, Event
  <2>2. /\ pipe' = Append(pipe, e) /\ UNCHANGED <<storage, runtime, history, drawn>> /\ Spend("changes", MaxChanges)
        /\ open' = open /\ known' = known /\ real' = real
    BY <1>4 DEF GroupChanged, Happens, Ev, tabs
  <2> HIDE DEF e
  <2>3. Regroups(e, open, known, real, open', known', real')
    BY <2>2 DEF Regroups, e
  <2> QED
    BY <2>1, <2>2, <2>3, HappeningKeeps
<1>5. CASE UNCHANGED vars
  <2>1. UNCHANGED <<open, known, real, pipe, session, local, writes, worker, read, state, queued, flushScheduled,
                    lost, lastFailed, drawn, spent>>
    BY <1>5 DEF vars, tabs, storage, runtime, history
  <2>2. UNCHANGED <<Pending, Kept, KeptRecords, Stored, Remembered>>
    BY <2>1 DEF Pending, Kept, KeptRecords, Stored, Remembered
  <2>3. TypeOK' /\ SessionInv' /\ PendingInv'
    BY <2>1, <2>2 DEF IInv, TypeOK, SessionInv, PendingInv
  <2>4. RightInv' /\ ShownInv' /\ WrittenInv' /\ FullInv'
    BY <2>1, <2>2 DEF IInv, RightInv, ShownInv, WrittenInv, FullInv
  <2> QED
    BY <2>3, <2>4 DEF IInv
<1>6. CASE StartWorker
  BY <1>6, StartWorkerKeeps
<1>7. CASE ReadStorage
  BY <1>7, ReadStorageKeeps
<1>8. CASE QueryTabs
  BY <1>8, QueryTabsKeeps
<1>9. CASE Initialize
  BY <1>9, InitializeKeeps
<1>10. CASE FailInitialize
  BY <1>10, FailInitializeKeeps
<1>11. CASE Dispatch
  BY <1>11, DispatchKeeps
<1>12. CASE Flush
  BY <1>12, FlushKeeps
<1>13. CASE Store
  BY <1>13, StoreKeeps
<1>14. CASE StopWorker
  BY <1>14, StopWorkerKeeps
<1>15. CASE RestartBrowser
  BY <1>15, RestartBrowserKeeps
<1> QED
  BY <1>1, <1>2, <1>3, <1>4, <1>5, <1>6, <1>7, <1>8, <1>9, <1>10, <1>11, <1>12, <1>13, <1>14, <1>15 DEF Next

\* What is remembered of tabs, in the worker, in the storage and on its way there,
\* differs from what has happened by the events that are still to come, and by
\* what ends of the worker and failures have taken.
THEOREM Invariance == Spec => []IInv
<1> QED
  BY InitKeeps, NextKeeps, PTL DEF Spec

\* The variables have their types: an event is queued only before the worker is
\* initialized, and a write is scheduled only after it.
THEOREM TypeCorrect == Spec => []TypeOK
<1>1. IInv => TypeOK
  BY DEF IInv
<1> QED
  BY <1>1, Invariance, PTL

\* Nothing is remembered of a tab that has not happened to it in this session of
\* the browser, whatever had the same identifier before.
THEOREM HistoryIsReal == Spec => []OnlyWhatHappened
<1>1. IInv => OnlyWhatHappened
  <2> SUFFICES ASSUME IInv, NEW s \in {state, local} \ {None}, s.session = session,
                      NEW t \in DOMAIN s.records \ Incognito
               PROVE  LET r == s.records[t] IN
                      /\ t \in known
                      /\ r.activationCount <= real[t].activationCount
                      /\ r.created => real[t].created
                      /\ r.moved => real[t].moved
                      /\ r.groupChanged => real[t].groupChanged
    BY DEF OnlyWhatHappened
  <2>1. s \in Remembered
    BY DEF Remembered, Stored
  <2>2. Pending \in Seq(Event) /\ s \in States
    BY <2>1, Typed DEF IInv
  <2>3. t \in known /\ Covered(s.records[t], Pending, t, real)
    BY <2>1 DEF IInv, RightInv, Right
  <2>4. s.records[t] \in Record /\ t \in Tabs
    BY <2>2 DEF States
  <2>5. /\ s.records[t].activationCount \in Nat /\ real[t].activationCount \in Nat
        /\ Number(Pending, t) \in Nat
        /\ s.records[t].activationCount + Number(Pending, t) <= real[t].activationCount
    <3>1. Number(Pending, t) \in Nat
      BY <2>2, Counted
    <3>2. real[t] \in Record
      BY <2>4 DEF IInv, TypeOK
    <3> QED
      BY <2>3, <2>4, <3>1, <3>2, BoundAssumption DEF Covered, Record
  <2>6. s.records[t].activationCount <= real[t].activationCount
    BY <2>5
  <2> QED
    BY <2>3, <2>6 DEF Covered
<1> QED
  BY <1>1, Invariance, PTL

\* Once all is quiet the records are those of the open tabs, they are what the
\* storage holds, and if no end of a worker took anything they are complete.
THEOREM NothingForgotten == Spec => []CaughtUp
<1>1. IInv => CaughtUp
  <2> SUFFICES ASSUME IInv, worker = "initialized", pipe = <<>>, ~flushScheduled, writes = <<>>
               PROVE  /\ DOMAIN state.records \ Incognito = open \ Incognito
                      /\ state.session = session
                      /\ ~lastFailed => local = state
                      /\ ~lost => \A t \in open \ Incognito : state.records[t] = real[t]
    BY DEF CaughtUp, Quiet
  <2>1. state \in States /\ state # None /\ queued = <<>> /\ open \subseteq Tabs /\ real \in [Tabs -> Record]
    BY NoneAssumption DEF IInv, TypeOK
  <2>2. Pending = <<>>
    BY <2>1 DEF Pending
  <2>3. DOMAIN state.records \ Incognito = open \ Incognito
    <3>1. Shown(DOMAIN state.records, <<>>, open)
      BY <2>1, <2>2 DEF IInv, ShownInv
    <3>2. DOMAIN state.records \subseteq Tabs
      BY <2>1 DEF States
    <3>3. ASSUME NEW t \in Tabs \ Incognito
          PROVE  t \in open <=> t \in DOMAIN state.records
      BY <3>1, NoEvents DEF Shown
    <3> QED
      BY <2>1, <3>2, <3>3
  <2>4. state.session = session
    BY <2>1 DEF IInv, SessionInv
  <2>5. ~lastFailed => local = state
    BY <2>1 DEF IInv, WrittenInv, Kept
  <2>6. ASSUME ~lost, NEW t \in open \ Incognito
        PROVE  state.records[t] = real[t]
    <3>1. t \in DOMAIN state.records /\ state.records[t] \in Record /\ real[t] \in Record
      BY <2>1, <2>3 DEF States
    <3>2. Complete(state.records[t], <<>>, t, real)
      BY <2>1, <2>2, <2>6, <3>1 DEF IInv, FullInv, Full, RecordOf
    <3>3. Number(<<>>, t) = 0 /\ \A type : ~Has(<<>>, type, t)
      BY NoEvents
    <3> DEFINE r == state.records[t]
               x == real[t]
    <3> HIDE DEF r, x
    <3>4. /\ r.activationCount + 0 = x.activationCount
          /\ r.created <=> x.created
          /\ r.moved <=> x.moved
          /\ r.groupChanged <=> x.groupChanged
      BY <3>2, <3>3 DEF Complete, r, x
    <3>5. r \in Record /\ x \in Record
      BY <3>1 DEF r, x
    <3>6. r.activationCount = x.activationCount
      BY <3>4, <3>5, BoundAssumption DEF Record
    <3>7. r.created = x.created /\ r.moved = x.moved /\ r.groupChanged = x.groupChanged
      BY <3>4, <3>5 DEF Record
    <3>8. r = x
      BY <3>5, <3>6, <3>7 DEF Record
    <3> QED
      BY <3>8 DEF r, x
  <2> QED
    BY <2>3, <2>4, <2>5, <2>6
<1> QED
  BY <1>1, Invariance, PTL
=============================================================================
