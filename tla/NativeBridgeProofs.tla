-------------------------- MODULE NativeBridgeProofs --------------------------
(***************************************************************************)
(* That the bridge and the service worker implement RemoteCalls, that Run  *)
(* is never stuck and never ends for want of order, proved for any number  *)
(* of calls, cancellations and failures.  The argument: what is under way  *)
(* for a call is in one place at a time, and each answer has its room.     *)
(***************************************************************************)
EXTENDS NativeBridge, TLAPS

Outgoing == {Request(c) : c \in Calls} \cup {Reply(TRUE), Reply(FALSE)}
Incoming == {Response(c) : c \in Calls} \cup {Oversized(c) : c \in Calls} \cup {Greeting, Refusal}

Carries(s, c) == \E i \in 1..Len(s) : s[i].id = c
Once(s)       == \A i, j \in 1..Len(s) : s[i].id = s[j].id /\ s[i].id \in Calls => i = j

Asked(c)  == Carries(toExtension, c)
Back(c)   == Carries(toHost, c)
InHand(c) == run = Response(c)
InBox(c)  == channel[c] # <<>>

Frames ==
  /\ toExtension \in Seq(Outgoing) /\ Once(toExtension)
  /\ toHost \in Seq(Incoming) /\ Once(toHost)
  /\ run = None \/ \E c \in Calls : InHand(c)

\* Where the request of a call, or its answer, can be.
OnePlace(c) ==
  /\ carriedOut[c] \in {0, 1}
  /\ Asked(c) => c \notin handling
  /\ Asked(c) \/ c \in handling => carriedOut[c] = 0
  /\ Back(c) \/ InHand(c) \/ InBox(c) => carriedOut[c] = 1
  /\ Back(c) => ~InHand(c) /\ ~InBox(c)
  /\ InHand(c) => ~InBox(c)
  /\ InBox(c) => channel[c] = <<Response(c)>>

\* What that has to do with where the call is.
CallMatches(c) ==
  /\ call[c] \in {"ready", "registered"} => ~Asked(c) /\ c \notin handling /\ carriedOut[c] = 0
  /\ IF call[c] \in {"answered", "done_answered"}
     THEN carriedOut[c] = 1 /\ answer[c] = c /\ ~Back(c) /\ ~InHand(c) /\ ~InBox(c)
     ELSE answer[c] = None
  /\ host # "gone" /\ call[c] \in {"registered", "waiting"} => c \in pending
  /\ host # "gone" /\ spent.cancels = 0 /\ (Asked(c) \/ c \in handling \/ Back(c) \/ InHand(c) \/ InBox(c))
       => call[c] = "waiting"

IInv == TypeOK /\ Frames /\ (\A c \in Calls : OnePlace(c) /\ CallMatches(c)) /\ EndsOnlyAfterCancel

-----------------------------------------------------------------------------
(* Envelopes and sequences of them.                                        *)

\* Envelopes are what they are, and those of a call carry its id.
LEMMA Envelopes ==
  /\ \A c \in Calls : Request(c) \in Envelope /\ Response(c) \in Envelope /\ Oversized(c) \in Envelope
  /\ Greeting \in Envelope /\ Refusal \in Envelope
  /\ \A b \in BOOLEAN : Reply(b) \in Envelope /\ Reply(b).id = Handshake /\ Reply(b).operation = "handshake"
  /\ \A c \in Calls : Request(c).id = c /\ Response(c).id = c /\ Oversized(c).id = c
  /\ \A c \in Calls : /\ Request(c).operation = "request" /\ Response(c).operation = "request"
                      /\ Oversized(c).operation = "oversized" /\ Response(c).answers = c
  /\ Greeting.id = Handshake /\ Refusal.id = Handshake
  /\ Greeting.operation = "handshake" /\ Refusal.operation = "handshake"
  /\ Handshake \notin Calls /\ None \notin Calls
<1>1. Handshake \notin Calls /\ None \notin Calls /\ Handshake \in Ids /\ Calls \subseteq Ids
  BY IdAssumption DEF Ids
<1>2. \A c \in Calls : Request(c) \in Envelope /\ Response(c) \in Envelope
  BY <1>1 DEF Request, Response, Envelope
<1>3. \A c \in Calls : Oversized(c) \in Envelope /\ Oversized(c).id = c /\ Oversized(c).operation = "oversized"
  <2> TAKE c \in Calls
  <2>1. Response(c) \in Envelope /\ Response(c).id = c
    BY <1>2 DEF Response
  <2> QED
    BY <2>1 DEF Oversized, Envelope
<1>4. Greeting \in Envelope /\ Refusal \in Envelope
  BY <1>1 DEF Greeting, Refusal, Envelope
<1>5. \A b \in BOOLEAN : Reply(b) \in Envelope /\ Reply(b).id = Handshake /\ Reply(b).operation = "handshake"
  <2> TAKE b \in BOOLEAN
  <2>1. Refusal.id = Handshake /\ Refusal.operation = "handshake"
    BY DEF Refusal
  <2>2. (HostAccepts /\ b) \in BOOLEAN
    BY AcceptAssumption
  <2> QED
    BY <1>4, <2>1, <2>2 DEF Reply, Envelope
<1> QED
  BY <1>1, <1>2, <1>3, <1>4, <1>5 DEF Request, Response, Greeting, Refusal

\* What a sequence carries when an envelope is appended.
LEMMA AppendCarries ==
  ASSUME NEW S, NEW s \in Seq(S), NEW e \in S
  PROVE  /\ Append(s, e) \in Seq(S)
         /\ \A c : Carries(Append(s, e), c) <=> Carries(s, c) \/ e.id = c
         /\ Once(s) /\ (e.id \in Calls => ~Carries(s, e.id)) => Once(Append(s, e))
<1>1. /\ Append(s, e) \in Seq(S) /\ Len(s) \in Nat /\ Len(Append(s, e)) = Len(s) + 1
      /\ \A i \in 1..Len(s) : Append(s, e)[i] = s[i]
      /\ Append(s, e)[Len(s) + 1] = e
  OBVIOUS
<1> DEFINE t == Append(s, e)
           n == Len(s)
<1>2. t \in Seq(S) /\ n \in Nat /\ Len(t) = n + 1 /\ (\A i \in 1..n : t[i] = s[i]) /\ t[n + 1] = e
  BY <1>1
<1>3. 1..(n + 1) = 1..n \cup {n + 1} /\ n + 1 \notin 1..n
  BY <1>2
<1> HIDE DEF t
<1>4. ASSUME NEW c PROVE Carries(t, c) <=> Carries(s, c) \/ e.id = c
  BY <1>2, <1>3 DEF Carries
<1>5. ASSUME Once(s), e.id \in Calls => ~Carries(s, e.id) PROVE Once(t)
  <2> SUFFICES ASSUME NEW i \in 1..(n + 1), NEW j \in 1..(n + 1), t[i].id = t[j].id, t[i].id \in Calls
               PROVE  i = j
    BY <1>2 DEF Once
  <2>1. CASE i \in 1..n /\ j \in 1..n
    BY <1>2, <1>5, <2>1 DEF Once
  <2>2. CASE i = n + 1 /\ j \in 1..n
    BY <1>2, <1>5, <2>2 DEF Carries
  <2>3. CASE i \in 1..n /\ j = n + 1
    BY <1>2, <1>5, <2>3 DEF Carries
  <2> QED
    BY <1>3, <2>1, <2>2, <2>3
<1> QED
  BY <1>2, <1>4, <1>5 DEF t

\* What it carries when the first one is taken.
LEMMA TailCarries ==
  ASSUME NEW S, NEW s \in Seq(S), s # <<>>
  PROVE  /\ Head(s) \in S /\ Tail(s) \in Seq(S)
         /\ \A c : Carries(s, c) <=> Carries(Tail(s), c) \/ Head(s).id = c
         /\ Once(s) => Once(Tail(s)) /\ (Head(s).id \in Calls => ~Carries(Tail(s), Head(s).id))
<1> DEFINE t == Tail(s)
           n == Len(t)
<1>1. /\ t \in Seq(S) /\ n \in Nat /\ Len(s) = n + 1
      /\ \A i \in 1..n : t[i] = s[i + 1]
      /\ Head(s) = s[1] /\ s[1] \in S
  OBVIOUS
<1>2. \A i \in 1..(n + 1) : i = 1 \/ (i - 1 \in 1..n /\ (i - 1) + 1 = i)
  BY <1>1
<1>3. \A i \in 1..n : i + 1 \in 1..(n + 1) /\ i + 1 # 1
  BY <1>1
<1>4. 1 \in 1..(n + 1)
  BY <1>1
<1> HIDE DEF t
<1>5. ASSUME NEW c PROVE Carries(s, c) <=> Carries(t, c) \/ Head(s).id = c
  <2>1. ASSUME Carries(s, c) PROVE Carries(t, c) \/ Head(s).id = c
    <3>1. PICK i \in 1..(n + 1) : s[i].id = c
      BY <1>1, <2>1 DEF Carries
    <3>2. CASE i = 1
      BY <1>1, <3>1, <3>2
    <3>3. CASE i - 1 \in 1..n /\ (i - 1) + 1 = i
      BY <1>1, <3>1, <3>3 DEF Carries
    <3> QED
      BY <1>2, <3>2, <3>3
  <2>2. ASSUME Carries(t, c) PROVE Carries(s, c)
    BY <1>1, <1>3, <2>2 DEF Carries
  <2>3. ASSUME Head(s).id = c PROVE Carries(s, c)
    BY <1>1, <1>4, <2>3 DEF Carries
  <2> QED
    BY <2>1, <2>2, <2>3
<1>6. ASSUME Once(s) PROVE Once(t) /\ (Head(s).id \in Calls => ~Carries(t, Head(s).id))
  <2>1. Once(t)
    <3> SUFFICES ASSUME NEW i \in 1..n, NEW j \in 1..n, t[i].id = t[j].id, t[i].id \in Calls
                 PROVE  i = j
      BY DEF Once
    <3>1. i + 1 = j + 1
      BY <1>1, <1>3, <1>6, SMTT(30) DEF Once
    <3> QED
      BY <1>1, <3>1
  <2>2. ASSUME Head(s).id \in Calls, NEW i \in 1..n, t[i].id = Head(s).id PROVE FALSE
    BY <1>1, <1>3, <1>4, <1>6, <2>2 DEF Once
  <2> QED
    BY <2>1, <2>2 DEF Carries
<1> QED
  BY <1>1, <1>5, <1>6 DEF t

\* Nothing is carried by nothing.
LEMMA EmptyCarries ==
  ASSUME NEW S
  PROVE  <<>> \in Seq(S) /\ Once(<<>>) /\ \A c : ~Carries(<<>>, c)
<1>1. Len(<<>>) = 0
  OBVIOUS
<1> QED
  BY <1>1 DEF Once, Carries
-----------------------------------------------------------------------------
(* Each action keeps the invariant.                                        *)

Spent == [cancels : 0..MaxCancels, oversized : 0..MaxOversized, stops : 0..MaxStops]

\* A count that is below its bound goes up by one; the others stay.
LEMMA Counted ==
  ASSUME TypeOK
  PROVE  /\ spent.cancels \in Nat
         /\ spent.cancels < MaxCancels =>
              [spent EXCEPT !.cancels = @ + 1] \in Spent /\ [spent EXCEPT !.cancels = @ + 1].cancels # 0
         /\ spent.oversized < MaxOversized =>
              [spent EXCEPT !.oversized = @ + 1] \in Spent /\ [spent EXCEPT !.oversized = @ + 1].cancels = spent.cancels
         /\ spent.stops < MaxStops =>
              [spent EXCEPT !.stops = @ + 1] \in Spent /\ [spent EXCEPT !.stops = @ + 1].cancels = spent.cancels
<1>1. spent \in Spent /\ MaxCancels \in Nat /\ MaxOversized \in Nat /\ MaxStops \in Nat
  BY BoundAssumption DEF TypeOK, Spent
<1>2. spent.cancels \in Nat /\ spent.oversized \in Nat /\ spent.stops \in Nat
  BY <1>1 DEF Spent
<1>3. spent.cancels < MaxCancels => spent.cancels + 1 \in 0..MaxCancels /\ spent.cancels + 1 # 0
  BY <1>1, <1>2
<1>4. spent.oversized < MaxOversized => spent.oversized + 1 \in 0..MaxOversized
  BY <1>1, <1>2
<1>5. spent.stops < MaxStops => spent.stops + 1 \in 0..MaxStops
  BY <1>1, <1>2
<1> QED
  BY <1>1, <1>2, <1>3, <1>4, <1>5 DEF Spent

\* A call that a step does not concern, unless something on its way is lost, stays
\* as it is.
LEMMA Untouched ==
  ASSUME NEW d \in Calls, OnePlace(d), CallMatches(d),
         Asked(d)' => Asked(d), d \in handling' => d \in handling, carriedOut'[d] = carriedOut[d],
         Back(d)' => Back(d), InHand(d)' => InHand(d), channel'[d] = channel[d],
         call'[d] = call[d], answer'[d] = answer[d], d \in pending => d \in pending',
         host' # "gone" => host # "gone", spent'.cancels = 0 => spent.cancels = 0
  PROVE  OnePlace(d)' /\ CallMatches(d)'
BY DEF OnePlace, CallMatches, InBox

\* A call is entered in pending before anything of it is sent.
LEMMA RegisterKeeps ==
  ASSUME IInv, NEW c \in Calls, Register(c)
  PROVE  IInv'
<1>1. /\ call[c] = "ready" /\ pending' = pending \cup {c} /\ call' = [call EXCEPT ![c] = "registered"]
      /\ UNCHANGED <<host, run, channel, ended, toExtension, toHost, extension, answer, spent>>
  BY DEF Register
<1>2. TypeOK' /\ EndsOnlyAfterCancel'
  BY <1>1 DEF IInv, TypeOK, Stages, EndsOnlyAfterCancel, extension
<1>3. Frames' /\ \A d \in Calls : (Asked(d)' <=> Asked(d)) /\ (Back(d)' <=> Back(d)) /\ (InHand(d)' <=> InHand(d))
  BY <1>1 DEF IInv, Frames, Asked, Back, InHand
<1>4. ASSUME NEW d \in Calls PROVE OnePlace(d)' /\ CallMatches(d)'
  <2>1. CASE d = c
    BY <1>1, <1>3, <2>1 DEF IInv, TypeOK, OnePlace, CallMatches, InBox, extension
  <2>2. CASE d # c
    BY <1>1, <1>3, <2>2, Untouched DEF IInv, TypeOK, extension
  <2> QED
    BY <2>1, <2>2
<1> QED
  BY <1>2, <1>3, <1>4 DEF IInv

\* A request is written once, or not at all.
LEMMA WriteKeeps ==
  ASSUME IInv, NEW c \in Calls, Write(c)
  PROVE  IInv'
<1>0. TypeOK /\ Frames /\ OnePlace(c) /\ CallMatches(c) /\ call[c] = "registered" /\ host # "gone"
  BY DEF IInv, Write
<1>a. UNCHANGED <<host, bridge, toHost, extension, answer>>
  BY DEF Write
<1>1. CASE toExtension' = Append(toExtension, Request(c)) /\ call' = [call EXCEPT ![c] = "waiting"] /\ UNCHANGED spent
  <2>1. Request(c) \in Envelope /\ Request(c) \in Outgoing /\ Request(c).id = c /\ ~Asked(c)
    BY <1>0, Envelopes DEF Outgoing, CallMatches
  <2>2. /\ toExtension' \in Seq(Envelope) /\ toExtension' \in Seq(Outgoing) /\ Once(toExtension)'
        /\ \A d : Carries(toExtension, d)' <=> Carries(toExtension, d) \/ d = c
    BY <1>0, <1>1, <2>1, AppendCarries DEF TypeOK, Frames, Asked
  <2>3. TypeOK' /\ EndsOnlyAfterCancel'
    BY <1>0, <1>a, <1>1, <2>2 DEF IInv, TypeOK, Stages, EndsOnlyAfterCancel, bridge, extension
  <2>4. Frames' /\ \A d \in Calls : (Back(d)' <=> Back(d)) /\ (InHand(d)' <=> InHand(d)) /\ (Asked(d)' <=> Asked(d) \/ d = c)
    BY <1>0, <1>a, <2>2 DEF Frames, Asked, Back, InHand, bridge
  <2>5. ASSUME NEW d \in Calls PROVE OnePlace(d)' /\ CallMatches(d)'
    <3>1. CASE d = c
      BY <1>0, <1>a, <1>1, <2>4, <3>1 DEF TypeOK, OnePlace, CallMatches, InBox, extension, bridge
    <3>2. CASE d # c
      BY <1>0, <1>a, <1>1, <2>4, <3>2, Untouched DEF IInv, TypeOK, extension, bridge
    <3> QED
      BY <3>1, <3>2
  <2> QED
    BY <2>3, <2>4, <2>5 DEF IInv
<1>2. CASE call' = [call EXCEPT ![c] = "given_up"] /\ UNCHANGED toExtension /\ spent' \in Spent /\ spent'.cancels = spent.cancels
  <2>3. TypeOK' /\ EndsOnlyAfterCancel'
    BY <1>0, <1>a, <1>2 DEF IInv, TypeOK, Stages, EndsOnlyAfterCancel, bridge, extension, Spent
  <2>4. Frames' /\ \A d \in Calls : (Back(d)' <=> Back(d)) /\ (InHand(d)' <=> InHand(d)) /\ (Asked(d)' <=> Asked(d))
    BY <1>0, <1>a, <1>2 DEF Frames, Asked, Back, InHand, bridge
  <2>5. ASSUME NEW d \in Calls PROVE OnePlace(d)' /\ CallMatches(d)'
    <3>1. CASE d = c
      BY <1>0, <1>a, <1>2, <2>4, <3>1 DEF TypeOK, OnePlace, CallMatches, InBox, extension, bridge
    <3>2. CASE d # c
      BY <1>0, <1>a, <1>2, <2>4, <3>2, Untouched DEF IInv, TypeOK, extension, bridge
    <3> QED
      BY <3>1, <3>2
  <2> QED
    BY <2>3, <2>4, <2>5 DEF IInv
<1>3. spent' = spent \/ (spent' \in Spent /\ spent'.cancels = spent.cancels)
  BY <1>0, Counted DEF Write
<1>4. spent \in Spent
  BY <1>0 DEF TypeOK, Spent
<1> QED
  BY <1>1, <1>2, <1>3, <1>4 DEF Write

\* The answer that a call takes is its own, and there is no other.
LEMMA TakeResponseKeeps ==
  ASSUME IInv, NEW c \in Calls, TakeResponse(c)
  PROVE  IInv'
<1>0. TypeOK /\ Frames /\ OnePlace(c) /\ CallMatches(c) /\ call[c] = "waiting" /\ channel[c] # <<>>
  BY DEF IInv, TakeResponse
<1>1. /\ channel' = [channel EXCEPT ![c] = Tail(channel[c])] /\ answer' = [answer EXCEPT ![c] = Head(channel[c]).answers]
      /\ call' = [call EXCEPT ![c] = "answered"]
      /\ UNCHANGED <<host, run, pending, ended, toExtension, toHost, extension, spent>>
  BY DEF TakeResponse
<1>2. channel[c] = <<Response(c)>> /\ Tail(channel[c]) = <<>> /\ Head(channel[c]).answers = c
  <2>1. channel[c] = <<Response(c)>> /\ Response(c).answers = c
    BY <1>0, Envelopes DEF OnePlace, InBox
  <2>2. ASSUME NEW r PROVE Head(<<r>>) = r /\ Tail(<<r>>) = <<>>
    OBVIOUS
  <2> QED
    BY <2>1, <2>2
<1>3. TypeOK' /\ EndsOnlyAfterCancel'
  <2>1. <<>> \in Seq(Envelope) /\ c \in Ids
    BY DEF Ids
  <2> QED
    BY <1>0, <1>1, <1>2, <2>1 DEF IInv, TypeOK, Stages, EndsOnlyAfterCancel, extension
<1>4. Frames' /\ \A d \in Calls : (Asked(d)' <=> Asked(d)) /\ (Back(d)' <=> Back(d)) /\ (InHand(d)' <=> InHand(d))
  BY <1>0, <1>1 DEF Frames, Asked, Back, InHand
<1>5. ASSUME NEW d \in Calls PROVE OnePlace(d)' /\ CallMatches(d)'
  <2>1. CASE d = c
    <3>1. channel'[c] = <<>> /\ answer'[c] = c /\ call'[c] = "answered"
      BY <1>0, <1>1, <1>2 DEF TypeOK
    <3> QED
      BY <1>0, <1>1, <1>4, <2>1, <3>1 DEF OnePlace, CallMatches, InBox, extension
  <2>2. CASE d # c
    BY <1>0, <1>1, <1>4, <2>2, Untouched DEF IInv, TypeOK, extension
  <2> QED
    BY <2>1, <2>2
<1> QED
  BY <1>3, <1>4, <1>5 DEF IInv

\* A cancelled call waits no longer.
LEMMA CancelKeeps ==
  ASSUME IInv, NEW c \in Calls, Cancel(c)
  PROVE  IInv'
<1>0. TypeOK /\ Frames /\ OnePlace(c) /\ CallMatches(c) /\ call[c] = "waiting"
  BY DEF IInv, Cancel
<1>1. /\ call' = [call EXCEPT ![c] = "given_up"] /\ UNCHANGED <<host, bridge, toExtension, toHost, extension, answer>>
      /\ spent' \in Spent /\ spent'.cancels # 0
  BY <1>0, Counted DEF Cancel
<1>2. TypeOK'
  BY <1>0, <1>1 DEF TypeOK, Stages, Spent, bridge, extension
<1>3. EndsOnlyAfterCancel'
  BY <1>1, BoundAssumption DEF EndsOnlyAfterCancel, Spent
<1>4. Frames' /\ \A d \in Calls : (Asked(d)' <=> Asked(d)) /\ (Back(d)' <=> Back(d)) /\ (InHand(d)' <=> InHand(d))
  BY <1>0, <1>1 DEF Frames, Asked, Back, InHand, bridge
<1>5. ASSUME NEW d \in Calls PROVE OnePlace(d)' /\ CallMatches(d)'
  <2>1. CASE d = c
    BY <1>0, <1>1, <1>4, <2>1 DEF TypeOK, OnePlace, CallMatches, InBox, extension, bridge
  <2>2. CASE d # c
    BY <1>0, <1>1, <1>4, <2>2, Untouched DEF IInv, TypeOK, extension, bridge
  <2> QED
    BY <2>1, <2>2
<1> QED
  BY <1>2, <1>3, <1>4, <1>5 DEF IInv

\* Only a call that waits no longer leaves pending.
LEMMA ForgetKeeps ==
  ASSUME IInv, NEW c \in Calls, Forget(c)
  PROVE  IInv'
<1>0. TypeOK /\ Frames /\ OnePlace(c) /\ CallMatches(c) /\ call[c] \in {"answered", "given_up"}
  BY DEF IInv, Forget
<1>1. /\ pending' = pending \ {c}
      /\ call' = [call EXCEPT ![c] = IF call[c] = "answered" THEN "done_answered" ELSE "done_given_up"]
      /\ UNCHANGED <<host, run, channel, ended, toExtension, toHost, extension, answer, spent>>
  BY DEF Forget
<1>2. TypeOK' /\ EndsOnlyAfterCancel'
  BY <1>0, <1>1 DEF IInv, TypeOK, Stages, EndsOnlyAfterCancel, extension
<1>4. Frames' /\ \A d \in Calls : (Asked(d)' <=> Asked(d)) /\ (Back(d)' <=> Back(d)) /\ (InHand(d)' <=> InHand(d))
  BY <1>0, <1>1 DEF Frames, Asked, Back, InHand
<1>5. ASSUME NEW d \in Calls PROVE OnePlace(d)' /\ CallMatches(d)'
  <2>1. CASE d = c
    <3>1. /\ call[c] = "answered" => call'[c] = "done_answered"
          /\ call[c] = "given_up" => call'[c] = "done_given_up"
      BY <1>0, <1>1 DEF TypeOK
    <3> QED
      BY <1>0, <1>1, <1>4, <2>1, <3>1 DEF OnePlace, CallMatches, InBox, extension
  <2>2. CASE d # c
    BY <1>0, <1>1, <1>4, <2>2, Untouched DEF IInv, TypeOK, extension
  <2> QED
    BY <2>1, <2>2
<1> QED
  BY <1>2, <1>4, <1>5 DEF IInv
\* What may come back from the extension.
LEMMA Answers ==
  ASSUME NEW e \in Incoming
  PROVE  /\ e \in Envelope
         /\ e.operation = "handshake" => e.id \notin Calls
         /\ e.operation = "request" => \E c \in Calls : e = Response(c)
         /\ e.operation # "oversized" /\ e.id \in Calls => e = Response(e.id)
BY Envelopes DEF Incoming

\* The answer that Run takes in hand is that of a pending call.
LEMMA ReadResponseKeeps ==
  ASSUME IInv, ReadResponse
  PROVE  IInv'
<1>0. TypeOK /\ Frames /\ run = None /\ toHost # <<>>
  BY DEF IInv, ReadResponse, Reading
<1> DEFINE e == Head(toHost)
<1>1. PICK c \in WaitingFor(e) : run' = [e EXCEPT !.id = c]
  BY DEF ReadResponse
<1>2. /\ toHost' = Tail(toHost) /\ e.operation # "oversized"
      /\ UNCHANGED <<host, pending, channel, ended, call, toExtension, extension, answer, spent>>
  BY DEF ReadResponse
<1>3. c \in Calls /\ e.id = c
  BY <1>0, <1>1 DEF WaitingFor, TypeOK
<1>4. /\ e \in Incoming /\ toHost' \in Seq(Incoming) /\ Once(toHost)' /\ ~Back(c)' /\ Back(c)
      /\ \A d : Back(d)' => Back(d)
  BY <1>0, <1>2, <1>3, TailCarries DEF Frames, Back
<1>5. run' = Response(c) /\ run' \in Envelope
  <2>1. e = Response(c)
    BY <1>2, <1>3, <1>4, Answers
  <2>2. [Response(c) EXCEPT !.id = c] = Response(c)
    <3>1. ASSUME NEW r \in Envelope PROVE [r EXCEPT !.id = r.id] = r
      BY DEF Envelope
    <3> QED
      BY <1>3, <3>1, Envelopes
  <2> HIDE DEF e
  <2> QED
    BY <1>1, <1>3, <2>1, <2>2, Envelopes
<1>6. toHost' \in Seq(Envelope)
  BY <1>0, <1>2, TailCarries DEF TypeOK
<1> HIDE DEF e
<1>7. TypeOK' /\ EndsOnlyAfterCancel'
  BY <1>0, <1>2, <1>5, <1>6 DEF IInv, TypeOK, EndsOnlyAfterCancel, extension
<1>8. Frames' /\ \A d \in Calls : (Asked(d)' <=> Asked(d)) /\ (InHand(d)' <=> d = c)
  BY <1>0, <1>2, <1>3, <1>4, <1>5, Envelopes DEF Frames, Asked, InHand
<1>9. ASSUME NEW d \in Calls PROVE OnePlace(d)' /\ CallMatches(d)'
  <2>0. OnePlace(d) /\ CallMatches(d)
    BY DEF IInv
  <2>1. CASE d = c
    BY <1>2, <1>4, <1>8, <2>0, <2>1 DEF OnePlace, CallMatches, InBox, extension
  <2>2. CASE d # c
    BY <1>2, <1>4, <1>8, <2>0, <2>2, Untouched DEF extension
  <2> QED
    BY <2>1, <2>2
<1> QED
  BY <1>7, <1>8, <1>9 DEF IInv

\* It goes into a channel that is empty.
LEMMA DeliverKeeps ==
  ASSUME IInv, Deliver
  PROVE  IInv'
<1>0. TypeOK /\ Frames /\ run # None
  BY DEF IInv, Deliver
<1>1. PICK c \in Calls : run = Response(c)
  BY <1>0 DEF Frames, InHand
<1>2. /\ channel' = [channel EXCEPT ![c] = Append(channel[c], run)] /\ run' = None
      /\ UNCHANGED <<host, pending, ended, call, toExtension, toHost, extension, answer, spent>>
  BY <1>1, Envelopes DEF Deliver
<1>3. OnePlace(c) /\ CallMatches(c) /\ InHand(c)
  BY <1>1 DEF IInv, InHand
<1>4. channel'[c] = <<Response(c)>> /\ channel' \in [Calls -> Seq(Envelope)]
  <2>1. channel[c] = <<>> /\ Response(c) \in Envelope
    BY <1>3, Envelopes DEF OnePlace, InBox
  <2>2. Append(<<>>, Response(c)) = <<Response(c)>> /\ <<Response(c)>> \in Seq(Envelope)
    BY <2>1
  <2> QED
    BY <1>0, <1>1, <1>2, <2>1, <2>2 DEF TypeOK
<1>5. TypeOK' /\ EndsOnlyAfterCancel'
  BY <1>0, <1>2, <1>4 DEF IInv, TypeOK, EndsOnlyAfterCancel, extension
<1>6. None # Response(c) /\ \A d \in Calls : (InHand(d) <=> d = c) /\ None # Response(d)
  <2>1. ASSUME NEW d \in Calls PROVE None # Response(d)
    BY NoneAssumption, Envelopes
  <2> QED
    BY <1>1, <2>1, Envelopes DEF InHand
<1>7. Frames' /\ \A d \in Calls : (Asked(d)' <=> Asked(d)) /\ (Back(d)' <=> Back(d)) /\ ~InHand(d)'
  BY <1>0, <1>2, <1>6 DEF Frames, Asked, Back, InHand
<1>8. ASSUME NEW d \in Calls PROVE OnePlace(d)' /\ CallMatches(d)'
  <2>0. OnePlace(d) /\ CallMatches(d)
    BY DEF IInv
  <2>1. CASE d = c
    BY <1>2, <1>3, <1>4, <1>7, <2>0, <2>1 DEF OnePlace, CallMatches, InBox, extension
  <2>2. CASE d # c
    BY <1>0, <1>2, <1>7, <2>0, <2>2, Untouched DEF TypeOK, extension
  <2> QED
    BY <2>1, <2>2
<1> QED
  BY <1>5, <1>7, <1>8 DEF IInv


\* A handshake is nobody's answer.
LEMMA AnswerHandshakeKeeps ==
  ASSUME IInv, AnswerHandshake
  PROVE  IInv'
<1>0. TypeOK /\ Frames /\ toHost # <<>> /\ host = "running" /\ Head(toHost).operation = "handshake"
  BY DEF IInv, AnswerHandshake, Reading
<1>1. /\ toHost' = Tail(toHost) /\ UNCHANGED <<run, pending, channel, call, extension, answer, spent>>
      /\ host' \in {"running", "ending"} /\ ended' \in {ended, "write"}
  BY <1>0 DEF AnswerHandshake
<1>2. PICK b \in BOOLEAN : toExtension' = toExtension \/ toExtension' = Append(toExtension, Reply(b))
  BY DEF AnswerHandshake
<1>3. Head(toHost) \in Incoming /\ Head(toHost).id \notin Calls
  BY <1>0, TailCarries, Answers DEF Frames
<1>4. /\ toHost' \in Seq(Incoming) /\ toHost' \in Seq(Envelope) /\ Once(toHost)'
      /\ \A d \in Calls : Back(d)' <=> Back(d)
  BY <1>0, <1>1, <1>3, TailCarries DEF TypeOK, Frames, Back
<1>5. /\ toExtension' \in Seq(Outgoing) /\ toExtension' \in Seq(Envelope) /\ Once(toExtension)'
      /\ \A d \in Calls : Asked(d)' <=> Asked(d)
  <2>1. CASE toExtension' = toExtension
    BY <1>0, <2>1 DEF TypeOK, Frames, Asked
  <2>2. CASE toExtension' = Append(toExtension, Reply(b))
    <3>1. Reply(b) \in Outgoing /\ Reply(b) \in Envelope /\ Reply(b).id \notin Calls
      BY Envelopes DEF Outgoing
    <3> QED
      BY <1>0, <2>2, <3>1, AppendCarries DEF TypeOK, Frames, Asked
  <2> QED
    BY <1>2, <2>1, <2>2
<1>6. TypeOK' /\ EndsOnlyAfterCancel' /\ Frames'
  BY <1>0, <1>1, <1>4, <1>5 DEF IInv, TypeOK, EndsOnlyAfterCancel, Frames, InHand, extension, Reasons
<1>7. ASSUME NEW d \in Calls PROVE OnePlace(d)' /\ CallMatches(d)'
  BY <1>0, <1>1, <1>4, <1>5, Untouched DEF IInv, InHand, extension
<1> QED
  BY <1>6, <1>7 DEF IInv

\* Run ends for an answer that nobody waits for only if a call was cancelled.
LEMMA StopRunKeeps ==
  ASSUME IInv, StopRun
  PROVE  IInv'
<1>0. TypeOK /\ Frames /\ host = "running"
  BY DEF IInv, StopRun, Reading
<1>1. host' = "ending" /\ UNCHANGED <<run, pending, channel, call, toExtension, extension, answer, spent>>
  BY DEF StopRun
<1>2. /\ toHost' \in Seq(Incoming) /\ toHost' \in Seq(Envelope) /\ Once(toHost)'
      /\ \A d : Back(d)' => Back(d)
  <2>1. toHost' = toHost \/ (toHost # <<>> /\ toHost' = Tail(toHost))
    BY DEF StopRun
  <2>2. toHost \in Seq(Incoming) /\ toHost \in Seq(Envelope) /\ Once(toHost)
    BY <1>0 DEF TypeOK, Frames
  <2>3. CASE toHost' = toHost
    BY <2>2, <2>3 DEF Back
  <2>4. CASE toHost # <<>> /\ toHost' = Tail(toHost)
    <3>1. /\ Tail(toHost) \in Seq(Incoming) /\ Once(Tail(toHost))
          /\ \A d : Carries(Tail(toHost), d) => Carries(toHost, d)
      BY <2>2, <2>4, TailCarries
    <3>2. Tail(toHost) \in Seq(Envelope)
      BY <2>2, <2>4, TailCarries
    <3> QED
      BY <2>4, <3>1, <3>2 DEF Back
  <2> QED
    BY <2>1, <2>3, <2>4
<1>3. ended' \in Reasons
  BY DEF StopRun, Reasons
<1>4. ASSUME ended' = "unexpected" PROVE spent.cancels > 0
  <2>1. toHost # <<>> /\ WaitingFor(Head(toHost)) = {} /\ Head(toHost).operation = "request"
    BY <1>4 DEF StopRun
  <2>2. PICK c \in Calls : Head(toHost) = Response(c)
    BY <1>0, <2>1, TailCarries, Answers DEF Frames
  <2>3. Back(c) /\ c \notin pending
    BY <1>0, <2>1, <2>2, TailCarries, Envelopes DEF Frames, Back, WaitingFor
  <2>4. spent.cancels # 0
    BY <1>0, <2>3 DEF IInv, CallMatches
  <2> QED
    BY <1>0, <2>4, Counted
<1>5. TypeOK' /\ EndsOnlyAfterCancel' /\ Frames'
  BY <1>0, <1>1, <1>2, <1>3, <1>4 DEF TypeOK, EndsOnlyAfterCancel, Frames, InHand, extension
<1>6. ASSUME NEW d \in Calls PROVE OnePlace(d)' /\ CallMatches(d)'
  BY <1>0, <1>1, <1>2, Untouched DEF IInv, InHand, Asked, extension
<1> QED
  BY <1>5, <1>6 DEF IInv

\* With the process every call ends.
LEMMA ExitKeeps ==
  ASSUME IInv, Exit
  PROVE  IInv'
<1>0. TypeOK /\ Frames /\ UNCHANGED <<bridge, toExtension, toHost, extension, answer, spent>> /\ host' = "gone"
  BY DEF IInv, Exit
<1>1. \A d \in Calls : /\ call[d] = "answered" => call'[d] = "done_answered"
                       /\ call[d] \in {"registered", "waiting", "given_up"} => call'[d] = "done_given_up"
                       /\ call[d] \in {"ready", "done_answered", "done_given_up"} => call'[d] = call[d]
  BY DEF Exit
<1>2. call' \in [Calls -> Stages]
  BY <1>0 DEF Exit, TypeOK, Stages
<1>3. TypeOK' /\ EndsOnlyAfterCancel' /\ Frames'
  BY <1>0, <1>2 DEF IInv, TypeOK, EndsOnlyAfterCancel, Frames, InHand, bridge, extension
<1>4. ASSUME NEW d \in Calls PROVE OnePlace(d)' /\ CallMatches(d)'
  <2>1. OnePlace(d) /\ CallMatches(d) /\ call[d] \in Stages
    BY <1>0 DEF IInv, TypeOK
  <2>2. (Asked(d)' <=> Asked(d)) /\ (Back(d)' <=> Back(d)) /\ (InHand(d)' <=> InHand(d)) /\ (InBox(d)' <=> InBox(d))
    BY <1>0 DEF Asked, Back, InHand, InBox, bridge
  <2>3. OnePlace(d)'
    BY <1>0, <2>1, <2>2 DEF OnePlace, bridge, extension
  <2>4. CallMatches(d)'
    BY <1>0, <1>1, <2>1, <2>2 DEF CallMatches, Stages, extension
  <2> QED
    BY <2>3, <2>4
<1> QED
  BY <1>3, <1>4 DEF IInv

\* A request that is taken is worked on.
LEMMA ReceiveKeeps ==
  ASSUME IInv, Receive
  PROVE  IInv'
<1>0. TypeOK /\ Frames /\ toExtension # <<>>
  BY DEF IInv, Receive
<1>i. PICK id : id = Head(toExtension).id
  OBVIOUS
<1>1. /\ toExtension' = Tail(toExtension) /\ handling' = handling \cup ({id} \cap Calls)
      /\ toHost' = toHost \/ toHost' = Append(toHost, Refusal)
      /\ UNCHANGED <<host, bridge, call, port, carriedOut, answer, spent>>
  BY <1>i DEF Receive, Started
<1>2. /\ toExtension' \in Seq(Outgoing) /\ toExtension' \in Seq(Envelope) /\ Once(toExtension)'
      /\ \A d : Asked(d) <=> Asked(d)' \/ id = d
      /\ id \in Calls => ~Asked(id)'
  <2>1. toExtension \in Seq(Outgoing) /\ toExtension \in Seq(Envelope) /\ Once(toExtension)
    BY <1>0 DEF TypeOK, Frames
  <2>2. /\ Tail(toExtension) \in Seq(Outgoing) /\ Once(Tail(toExtension))
        /\ \A d : Carries(toExtension, d) <=> Carries(Tail(toExtension), d) \/ id = d
        /\ id \in Calls => ~Carries(Tail(toExtension), id)
    BY <1>0, <1>i, <2>1, TailCarries
  <2>3. Tail(toExtension) \in Seq(Envelope)
    BY <1>0, <2>1, TailCarries
  <2> QED
    BY <1>1, <2>2, <2>3 DEF Asked
<1>3. /\ toHost' \in Seq(Incoming) /\ toHost' \in Seq(Envelope) /\ Once(toHost)'
      /\ \A d \in Calls : Back(d)' <=> Back(d)
  <2>1. Refusal \in Incoming /\ Refusal \in Envelope /\ Refusal.id \notin Calls
    BY Envelopes DEF Incoming
  <2>2. toHost \in Seq(Incoming) /\ toHost \in Seq(Envelope) /\ Once(toHost)
    BY <1>0 DEF TypeOK, Frames
  <2>3. /\ Append(toHost, Refusal) \in Seq(Incoming) /\ Once(Append(toHost, Refusal))
        /\ \A d : Carries(Append(toHost, Refusal), d) <=> Carries(toHost, d) \/ Refusal.id = d
    BY <2>1, <2>2, AppendCarries
  <2>4. Append(toHost, Refusal) \in Seq(Envelope)
    BY <2>1, <2>2, AppendCarries
  <2> QED
    BY <1>1, <2>1, <2>2, <2>3, <2>4 DEF Back
<1>4. TypeOK' /\ EndsOnlyAfterCancel' /\ Frames'
  BY <1>0, <1>1, <1>2, <1>3 DEF IInv, TypeOK, EndsOnlyAfterCancel, Frames, InHand, bridge
<1>5. ASSUME NEW d \in Calls PROVE OnePlace(d)' /\ CallMatches(d)'
  <2>0. OnePlace(d) /\ CallMatches(d) /\ (InHand(d)' <=> InHand(d)) /\ (InBox(d)' <=> InBox(d))
    BY <1>1 DEF IInv, InHand, InBox, bridge
  <2>1. CASE d = id
    <3>1. Asked(d) /\ ~Asked(d)' /\ d \in handling' /\ carriedOut'[d] = carriedOut[d] /\ call'[d] = call[d]
          /\ answer'[d] = answer[d] /\ pending' = pending /\ host' = host /\ spent' = spent /\ channel' = channel
      BY <1>1, <1>2, <2>1 DEF bridge
    <3> QED
      BY <1>3, <2>0, <3>1 DEF OnePlace, CallMatches
  <2>2. CASE d # id
    BY <1>1, <1>2, <1>3, <2>0, <2>2, Untouched DEF bridge
  <2> QED
    BY <2>1, <2>2
<1> QED
  BY <1>4, <1>5 DEF IInv

\* What is worked on has not been carried out, and is answered once.
LEMMA AnswerKeeps ==
  ASSUME IInv, NEW c \in Calls, Answer(c)
  PROVE  IInv'
<1>0. TypeOK /\ Frames /\ OnePlace(c) /\ CallMatches(c) /\ c \in handling
  BY DEF IInv, Answer
<1>a. carriedOut[c] = 0 /\ ~Asked(c) /\ ~Back(c) /\ ~InHand(c) /\ ~InBox(c)
  BY <1>0 DEF OnePlace
<1>1. /\ handling' = handling \ {c} /\ carriedOut' = [carriedOut EXCEPT ![c] = carriedOut[c] + 1]
      /\ UNCHANGED <<host, bridge, call, toExtension, port, answer>>
      /\ spent' \in Spent /\ spent'.cancels = spent.cancels
  <2>1. spent \in Spent
    BY <1>0 DEF TypeOK, Spent
  <2> QED
    BY <1>0, <2>1, Counted DEF Answer
<1>2. PICK e \in {Response(c), Oversized(c)} : toHost' = toHost \/ toHost' = Append(toHost, e)
  BY DEF Answer, Posted
<1>3. e \in Incoming /\ e \in Envelope /\ e.id = c
  BY <1>2, Envelopes DEF Incoming
<1>4. /\ toHost' \in Seq(Incoming) /\ toHost' \in Seq(Envelope) /\ Once(toHost)'
      /\ \A d : d # c => (Back(d)' <=> Back(d))
  <2>1. toHost \in Seq(Incoming) /\ toHost \in Seq(Envelope) /\ Once(toHost) /\ ~Carries(toHost, c)
    BY <1>0, <1>a DEF TypeOK, Frames, Back
  <2>2. /\ Append(toHost, e) \in Seq(Incoming) /\ Once(Append(toHost, e))
        /\ \A d : Carries(Append(toHost, e), d) <=> Carries(toHost, d) \/ c = d
    BY <1>3, <2>1, AppendCarries
  <2>3. Append(toHost, e) \in Seq(Envelope)
    BY <1>3, <2>1, AppendCarries
  <2> QED
    BY <1>2, <2>1, <2>2, <2>3 DEF Back
<1>5. carriedOut'[c] = 1 /\ carriedOut' \in [Calls -> Nat]
  BY <1>0, <1>a, <1>1 DEF TypeOK
<1>6. TypeOK' /\ EndsOnlyAfterCancel' /\ Frames'
  BY <1>0, <1>1, <1>4, <1>5 DEF IInv, TypeOK, EndsOnlyAfterCancel, Frames, InHand, bridge, Spent
<1>7. ASSUME NEW d \in Calls PROVE OnePlace(d)' /\ CallMatches(d)'
  <2>0. /\ OnePlace(d) /\ CallMatches(d)
        /\ (InHand(d)' <=> InHand(d)) /\ (InBox(d)' <=> InBox(d)) /\ (Asked(d)' <=> Asked(d))
    BY <1>1 DEF IInv, InHand, InBox, Asked, bridge
  <2>1. CASE d = c
    BY <1>0, <1>a, <1>1, <1>5, <2>0, <2>1 DEF OnePlace, CallMatches, bridge
  <2>2. CASE d # c
    BY <1>0, <1>1, <1>4, <2>0, <2>2, Untouched DEF TypeOK, bridge
  <2> QED
    BY <2>1, <2>2
<1> QED
  BY <1>6, <1>7 DEF IInv

\* What Chrome closes, or stops, is lost.
LEMMA ClosingKeeps ==
  ASSUME IInv, Disconnect \/ StopWorker
  PROVE  IInv'
<1>0. TypeOK /\ Frames
  BY DEF IInv
<1>1. /\ port' = "closed" /\ toExtension' = <<>> /\ handling' \subseteq handling
      /\ UNCHANGED <<host, bridge, call, toHost, carriedOut, answer>>
      /\ spent' \in Spent /\ spent'.cancels = spent.cancels
  <2>1. spent \in Spent
    BY <1>0 DEF TypeOK, Spent
  <2> QED
    BY <1>0, <2>1, Counted DEF Disconnect, StopWorker
<1>2. /\ toExtension' \in Seq(Outgoing) /\ toExtension' \in Seq(Envelope) /\ Once(toExtension)'
      /\ \A d : ~Asked(d)'
  BY <1>1, EmptyCarries DEF Asked
<1>3. TypeOK' /\ EndsOnlyAfterCancel' /\ Frames'
  BY <1>0, <1>1, <1>2 DEF IInv, TypeOK, EndsOnlyAfterCancel, Frames, InHand, bridge, Spent
<1>4. ASSUME NEW d \in Calls PROVE OnePlace(d)' /\ CallMatches(d)'
  <2>1. (Back(d)' <=> Back(d)) /\ (InHand(d)' <=> InHand(d))
    BY <1>1 DEF Back, InHand, bridge
  <2> QED
    BY <1>1, <1>2, <2>1, Untouched DEF IInv, bridge
<1> QED
  BY <1>3, <1>4 DEF IInv

\* It holds to begin with.
LEMMA InitInvariant == Init => IInv
<1> SUFFICES ASSUME Init PROVE IInv
  OBVIOUS
<1>1. spent \in Spent
  BY BoundAssumption DEF Init, Spent
<1>2. toExtension = <<>> /\ toHost = <<Greeting>>
  BY DEF Init
<1>3. Greeting \in Incoming /\ Greeting \in Envelope /\ Greeting.id \notin Calls
  BY Envelopes DEF Incoming
<1>4. Append(<<>>, Greeting) = <<Greeting>>
  OBVIOUS
<1>5. /\ toHost \in Seq(Incoming) /\ toHost \in Seq(Envelope) /\ Once(toHost)
      /\ toExtension \in Seq(Outgoing) /\ toExtension \in Seq(Envelope) /\ Once(toExtension)
      /\ \A d \in Calls : ~Back(d) /\ ~Asked(d)
  <2>1. /\ <<Greeting>> \in Seq(Incoming) /\ Once(<<Greeting>>)
        /\ \A d \in Calls : ~Carries(<<Greeting>>, d)
    <3>1. <<>> \in Seq(Incoming) /\ Once(<<>>) /\ \A d : ~Carries(<<>>, d)
      BY EmptyCarries
    <3>2. /\ Append(<<>>, Greeting) \in Seq(Incoming) /\ Once(Append(<<>>, Greeting))
          /\ \A d : Carries(Append(<<>>, Greeting), d) <=> Carries(<<>>, d) \/ Greeting.id = d
      BY <1>3, <3>1, AppendCarries
    <3> QED
      BY <1>3, <1>4, <3>1, <3>2
  <2>2. <<Greeting>> \in Seq(Envelope)
    BY <1>3
  <2>3. <<>> \in Seq(Outgoing) /\ <<>> \in Seq(Envelope) /\ Once(<<>>) /\ \A d : ~Carries(<<>>, d)
    BY EmptyCarries
  <2> QED
    BY <1>2, <2>1, <2>2, <2>3 DEF Back, Asked
<1>6. \A d \in Calls : None # Response(d)
  BY NoneAssumption, Envelopes
<1>7. TypeOK
  BY <1>1, <1>5, EmptyCarries DEF Init, TypeOK, Stages, Reasons, Spent
<1> QED
  BY <1>5, <1>6, <1>7 DEF Init, IInv, Frames, OnePlace, CallMatches, EndsOnlyAfterCancel, InHand, InBox

\* It holds throughout.
LEMMA Invariant == Spec => []IInv
<1>1. IInv /\ [Next]_vars => IInv'
  <2> SUFFICES ASSUME IInv, [Next]_vars PROVE IInv'
    OBVIOUS
  <2>1. CASE UNCHANGED vars
    <3>1. TypeOK' /\ EndsOnlyAfterCancel' /\ Frames'
      BY <2>1 DEF vars, bridge, extension, IInv, TypeOK, Frames, InHand, EndsOnlyAfterCancel
    <3>2. ASSUME NEW d \in Calls PROVE OnePlace(d)' /\ CallMatches(d)'
      BY <2>1, Untouched DEF vars, bridge, extension, IInv, Asked, Back, InHand
    <3> QED
      BY <3>1, <3>2 DEF IInv
  <2>2. ASSUME NEW c \in Calls, Register(c) \/ Cancel(c) \/ StepOfCall(c) \/ Answer(c) PROVE IInv'
    BY <2>2, RegisterKeeps, CancelKeeps, WriteKeeps, TakeResponseKeeps, ForgetKeeps, AnswerKeeps DEF StepOfCall
  <2>3. CASE StepOfRun \/ Receive \/ Disconnect \/ StopWorker
    BY <2>3, ReadResponseKeeps, DeliverKeeps, AnswerHandshakeKeeps, StopRunKeeps, ExitKeeps, ReceiveKeeps,
       ClosingKeeps DEF StepOfRun
  <2> QED
    BY <2>1, <2>2, <2>3 DEF Next, StepOfWorker, Over
<1> QED
  BY <1>1, InitInvariant, PTL DEF Spec

-----------------------------------------------------------------------------
(* The theorems.                                                           *)

\* Every value keeps its type.
THEOREM TypeCorrect == Spec => []TypeOK
<1>1. IInv => TypeOK
  BY DEF IInv
<1> QED
  BY <1>1, Invariant, PTL

\* Run is never stuck in a delivery, whatever becomes of the call (Bridge.Run).
THEOREM NeverBlocked == Spec => []RunNeverBlocks
<1>1. IInv => RunNeverBlocks
  <2> SUFFICES ASSUME IInv, run # None PROVE Room(run.id)
    BY DEF RunNeverBlocks
  <2>1. PICK c \in Calls : run = Response(c)
    BY DEF IInv, Frames, InHand
  <2>2. run.id = c /\ channel[c] = <<>>
    BY <2>1, Envelopes DEF IInv, OnePlace, InHand, InBox
  <2> QED
    BY <2>2 DEF Room
<1> QED
  BY <1>1, Invariant, PTL

\* Only after a cancelled call is an answer unexpected (Bridge.Run, Bridge.Call).
THEOREM EndedByCancelOnly == Spec => []EndsOnlyAfterCancel
<1>1. IInv => EndsOnlyAfterCancel
  BY DEF IInv
<1> QED
  BY <1>1, Invariant, PTL

\* How the outcome of a call follows from where it is.
LEMMA Outcomes ==
  ASSUME NEW c \in Calls, call[c] \in Stages
  PROVE  /\ call[c] \in {"answered", "done_answered"} => Outcome(c) = "answered"
         /\ call[c] \in {"given_up", "done_given_up"} => Outcome(c) = "given_up"
         /\ call[c] \in {"ready", "registered", "waiting"} => Outcome(c) = "none"
BY DEF Outcome, Stages

\* The same one step later.
LEMMA OutcomesNext ==
  ASSUME NEW c \in Calls, call'[c] \in Stages
  PROVE  /\ call'[c] \in {"answered", "done_answered"} => Outcome(c)' = "answered"
         /\ call'[c] \in {"given_up", "done_given_up"} => Outcome(c)' = "given_up"
         /\ call'[c] \in {"ready", "registered", "waiting"} => Outcome(c)' = "none"
BY DEF Outcome, Stages

\* A step after which no outcome, no count and no answer is another is no step of
\* RemoteCalls.
LEMMA Stutters ==
  ASSUME UNCHANGED <<carriedOut, answer>>, \A c \in Calls : Outcome(c)' = Outcome(c)
  PROVE  UNCHANGED Abstract!rpc
<1>1. [c \in Calls |-> Outcome(c)]' = [c \in Calls |-> Outcome(c)]
  OBVIOUS
<1> QED
  BY <1>1 DEF Abstract!rpc

\* A step in which one call moves, and neither returns nor is given up.
LEMMA MovesOn ==
  ASSUME TypeOK, TypeOK', NEW c \in Calls, NEW s \in Stages, call' = [call EXCEPT ![c] = s],
         UNCHANGED <<carriedOut, answer>>,
         \/ call[c] \in {"ready", "registered", "waiting"} /\ s \in {"ready", "registered", "waiting"}
         \/ call[c] = "answered" /\ s = "done_answered"
         \/ call[c] = "given_up" /\ s = "done_given_up"
  PROVE  UNCHANGED Abstract!rpc
<1>1. call \in [Calls -> Stages] /\ call' \in [Calls -> Stages] /\ call'[c] = s /\ \A d \in Calls \ {c} : call'[d] = call[d]
  BY DEF TypeOK
<1>2. ASSUME NEW d \in Calls PROVE Outcome(d)' = Outcome(d)
  <2>1. CASE d = c
    BY <1>1, <2>1, Outcomes, OutcomesNext
  <2>2. CASE d # c
    BY <1>1, <2>2 DEF Outcome
  <2> QED
    BY <2>1, <2>2
<1> QED
  BY <1>2, Stutters

\* A step in which some calls are given up.
LEMMA GivesUp ==
  ASSUME TypeOK, TypeOK', UNCHANGED <<carriedOut, answer>>,
         NEW S \in SUBSET Calls, \A c \in S : Outcome(c) = "none" /\ Outcome(c)' = "given_up",
         \A c \in Calls \ S : Outcome(c)' = Outcome(c)
  PROVE  Abstract!GiveUp(S)
<1> DEFINE out == [c \in Calls |-> Outcome(c)]
<1>1. \A c \in S : out[c] = "none"
  OBVIOUS
<1>2. out' = [c \in Calls |-> IF c \in S THEN "given_up" ELSE out[c]]
  OBVIOUS
<1> QED
  BY <1>1, <1>2 DEF Abstract!GiveUp

\* bridge.go and service-worker.ts implement what chrome_bridge.go is used for:
\* every step is one of RemoteCalls, or changes nothing that its callers see.
THEOREM Refinement == Spec => ImplementsRemoteCalls
<1>1. Init => Abstract!Init
  <2> SUFFICES ASSUME Init PROVE Abstract!Init
    OBVIOUS
  <2>1. ASSUME NEW c \in Calls PROVE Outcome(c) = "none"
    BY Outcomes DEF Init, Stages
  <2>2. [c \in Calls |-> Outcome(c)] = [c \in Calls |-> "none"]
    BY <2>1
  <2> QED
    BY <2>2 DEF Init, Abstract!Init
<1>2. ASSUME IInv, IInv', [Next]_vars
      PROVE  [Abstract!Next]_(Abstract!rpc)
  <2>0. TypeOK /\ TypeOK' /\ call \in [Calls -> Stages] /\ call' \in [Calls -> Stages]
    BY <1>2 DEF IInv, TypeOK
  <2>1. CASE UNCHANGED <<call, carriedOut, answer>>
    <3>1. \A c \in Calls : Outcome(c)' = Outcome(c)
      BY <2>1 DEF Outcome
    <3> QED
      BY <2>1, <3>1, Stutters
  <2>2. ASSUME NEW c \in Calls, Register(c) \/ Forget(c) \/ (Write(c) /\ call'[c] = "waiting")
        PROVE  UNCHANGED Abstract!rpc
    <3>1. PICK s \in Stages : call' = [call EXCEPT ![c] = s]
      BY <2>2 DEF Register, Forget, Write, Stages
    <3>2. call'[c] = s
      BY <2>0, <3>1
    <3>3. UNCHANGED <<carriedOut, answer>>
      BY <2>2 DEF Register, Forget, Write, extension
    <3>4. \/ call[c] \in {"ready", "registered", "waiting"} /\ s \in {"ready", "registered", "waiting"}
          \/ call[c] = "answered" /\ s = "done_answered"
          \/ call[c] = "given_up" /\ s = "done_given_up"
      BY <2>0, <2>2, <3>2 DEF Register, Forget, Write
    <3> QED
      BY <2>0, <3>1, <3>3, <3>4, MovesOn
  <2>3. ASSUME NEW c \in Calls, Cancel(c) \/ (Write(c) /\ call'[c] = "given_up")
        PROVE  Abstract!GiveUp({c})
    <3>1. call' = [call EXCEPT ![c] = "given_up"] /\ call[c] \in {"registered", "waiting"}
          /\ UNCHANGED <<carriedOut, answer>>
      BY <2>0, <2>3 DEF Cancel, Write, extension
    <3>2. Outcome(c) = "none" /\ Outcome(c)' = "given_up"
      BY <2>0, <3>1, Outcomes, OutcomesNext
    <3>3. \A d \in Calls \ {c} : Outcome(d)' = Outcome(d)
      BY <2>0, <3>1 DEF Outcome
    <3> QED
      BY <2>0, <3>1, <3>2, <3>3, GivesUp
  <2>4. ASSUME NEW c \in Calls, TakeResponse(c)
        PROVE  Abstract!Return(c)
    <3>1. /\ call' = [call EXCEPT ![c] = "answered"] /\ call[c] = "waiting" /\ channel[c] # <<>>
          /\ answer' = [answer EXCEPT ![c] = Head(channel[c]).answers] /\ UNCHANGED carriedOut
      BY <2>4 DEF TakeResponse, extension
    <3>2. carriedOut[c] = 1 /\ call'[c] = "answered"
      BY <1>2, <2>0, <3>1 DEF IInv, OnePlace, InBox
    <3>3. answer' = [answer EXCEPT ![c] = c]
      <4>1. answer'[c] = c
        BY <1>2, <3>2 DEF IInv, CallMatches
      <4>2. answer'[c] = Head(channel[c]).answers
        BY <2>0, <3>1 DEF TypeOK
      <4> QED
        BY <3>1, <4>1, <4>2
    <3>4. Outcome(c) = "none" /\ Outcome(c)' = "answered"
      BY <2>0, <3>1, <3>2, Outcomes, OutcomesNext
    <3>5. \A d \in Calls \ {c} : Outcome(d)' = Outcome(d)
      BY <2>0, <3>1 DEF Outcome
    <3> DEFINE out == [d \in Calls |-> Outcome(d)]
    <3>6. out[c] = "none" /\ out' = [out EXCEPT ![c] = "answered"]
      BY <3>4, <3>5
    <3> QED
      BY <3>1, <3>2, <3>3, <3>6 DEF Abstract!Return
  <2>5. ASSUME NEW c \in Calls, Answer(c)
        PROVE  Abstract!CarryOut(c)
    <3>1. carriedOut[c] = 0 /\ c \in handling
      BY <1>2, <2>5 DEF IInv, OnePlace, Answer
    <3>2. carriedOut' = [carriedOut EXCEPT ![c] = 1] /\ UNCHANGED <<call, answer>>
      BY <2>5, <3>1 DEF Answer
    <3>3. [d \in Calls |-> Outcome(d)]' = [d \in Calls |-> Outcome(d)]
      BY <3>2 DEF Outcome
    <3> QED
      BY <3>1, <3>2, <3>3 DEF Abstract!CarryOut
  <2>6. ASSUME Exit
        PROVE  \E S \in SUBSET Calls : Abstract!GiveUp(S)
    <3> DEFINE S == {c \in Calls : call[c] \in {"registered", "waiting"}}
    <3>1. UNCHANGED <<carriedOut, answer>> /\
          \A c \in Calls : call'[c] = IF call[c] = "answered" THEN "done_answered"
                                      ELSE IF call[c] \in {"registered", "waiting", "given_up"}
                                      THEN "done_given_up" ELSE call[c]
      BY <2>6 DEF Exit, extension
    <3>2. \A c \in S : Outcome(c) = "none" /\ Outcome(c)' = "given_up"
      BY <2>0, <3>1, Outcomes, OutcomesNext
    <3>3. ASSUME NEW c \in Calls \ S PROVE Outcome(c)' = Outcome(c)
      <4>1. call[c] \in {"ready", "answered", "given_up", "done_answered", "done_given_up"}
        BY <2>0 DEF Stages
      <4> QED
        BY <2>0, <3>1, <4>1, Outcomes, OutcomesNext
    <3>4. S \in SUBSET Calls
      OBVIOUS
    <3> HIDE DEF S
    <3>5. PICK T : T = S
      OBVIOUS
    <3> QED
      BY <2>0, <3>1, <3>2, <3>3, <3>4, <3>5, GivesUp
  <2>7. CASE ReadResponse \/ Deliver \/ AnswerHandshake \/ StopRun \/ Receive \/ Disconnect \/ StopWorker \/ Over \/ UNCHANGED vars
    BY <2>1, <2>7 DEF ReadResponse, Deliver, AnswerHandshake, StopRun, Receive, Disconnect, StopWorker, Over, vars, extension
  <2>8. ASSUME NEW c \in Calls, Write(c) PROVE call'[c] \in {"waiting", "given_up"}
    BY <2>0, <2>8 DEF Write
  <2>9. \/ ReadResponse \/ Deliver \/ AnswerHandshake \/ StopRun \/ Receive \/ Disconnect \/ StopWorker \/ Over
        \/ UNCHANGED vars \/ Exit
        \/ \E c \in Calls : Register(c) \/ Cancel(c) \/ Write(c) \/ TakeResponse(c) \/ Forget(c) \/ Answer(c)
    BY <1>2 DEF Next, StepOfCall, StepOfRun, StepOfWorker
  <2>10. CASE \E c \in Calls : Register(c) \/ Cancel(c) \/ Write(c) \/ TakeResponse(c) \/ Forget(c) \/ Answer(c)
    <3>1. PICK c \in Calls : Register(c) \/ Cancel(c) \/ Write(c) \/ TakeResponse(c) \/ Forget(c) \/ Answer(c)
      BY <2>10
    <3>2. UNCHANGED Abstract!rpc \/ Abstract!GiveUp({c}) \/ Abstract!Return(c) \/ Abstract!CarryOut(c)
      BY <2>2, <2>3, <2>4, <2>5, <2>8, <3>1
    <3>3. {c} \in SUBSET Calls
      OBVIOUS
    <3> QED
      BY <3>2, <3>3 DEF Abstract!Next
  <2> QED
    BY <2>6, <2>7, <2>9, <2>10 DEF Abstract!Next
<1> QED
  BY <1>1, <1>2, Invariant, PTL DEF Spec, ImplementsRemoteCalls, Abstract!Spec
=============================================================================
