----------------------------- MODULE NativeBridge -----------------------------
(***************************************************************************)
(* One connection between the native host and the extension: the host's    *)
(* Bridge (src/internal/nativemsg/bridge.go), whose Run reads answers      *)
(* while any number of Calls wait for theirs, and the extension's          *)
(* handleNativeMessage (src/extension/src/service-worker.ts), which works  *)
(* on several requests at once and answers them in any order.              *)
(*                                                                         *)
(* An envelope is its id and its operation: the handshake or a request.    *)
(* The random ids are the calls themselves, since none is drawn twice.     *)
(***************************************************************************)
EXTENDS Naturals, Sequences

CONSTANTS
  Calls,       (* calls of this host process                            *)
  Handshake,   (* the id of the extension's handshake                   *)
  None,        (* no call, no answer                                    *)
  HostAccepts, (* whether HandshakeResponse accepts the extension       *)
  MaxCancels,  (* bound: calls whose context is cancelled               *)
  MaxOversized,(* bound: messages longer than MaxMessageSize            *)
  MaxStops     (* bound: ends of the service worker, 0 or 1             *)

ASSUME IdAssumption     == Handshake \notin Calls /\ None \notin Calls \cup {Handshake}
ASSUME AcceptAssumption == HostAccepts \in BOOLEAN
ASSUME BoundAssumption  == {MaxCancels, MaxOversized, MaxStops} \subseteq Nat

Ids == Calls \cup {Handshake}

\* What an envelope answers is part of its payload.
Envelope == [id : Ids, operation : {"handshake", "request", "oversized"}, answers : Ids \cup {None},
             accepted : BOOLEAN]

ASSUME NoneAssumption == None \notin Envelope

VARIABLES
  host,        (* the process: running, Run has returned, gone             *)
  run,         (* where Bridge.Run is: the envelope it has to deliver      *)
  pending,     (* Bridge.pending: the calls that have a response channel   *)
  channel,     (* what is in the response channel of each call             *)
  call,        (* where each Call is                                       *)
  toExtension, (* frames the host has written                              *)
  toHost,      (* frames the extension has posted                          *)
  port,        (* whether the extension's port is connected                *)
  handling,    (* requests the extension is working on                     *)
  carriedOut,  (* history: how often each request has been carried out     *)
  answer,      (* history: whose answer each call returned                 *)
  ended,       (* history: why Run returned                                *)
  spent        (* how much of each bound is used up                        *)

bridge    == <<run, pending, channel, ended>>
extension == <<port, handling, carriedOut>>
vars      == <<host, bridge, call, toExtension, toHost, extension, answer, spent>>

Stages == {"ready", "registered", "waiting", "answered", "given_up", "done_answered",
           "done_given_up"}
Reasons == {"none", "eof", "unexpected", "write", "frame"}

TypeOK ==
  /\ host \in {"running", "ending", "gone"}
  /\ run \in Envelope \cup {None}
  /\ pending \subseteq Calls
  /\ channel \in [Calls -> Seq(Envelope)]
  /\ call \in [Calls -> Stages]
  /\ toExtension \in Seq(Envelope) /\ toHost \in Seq(Envelope)
  /\ port \in {"open", "closed"}
  /\ handling \subseteq Calls
  /\ carriedOut \in [Calls -> Nat]
  /\ answer \in [Calls -> Ids \cup {None}]
  /\ ended \in Reasons
  /\ spent \in [cancels : 0..MaxCancels, oversized : 0..MaxOversized, stops : 0..MaxStops]

Request(c)   == [id |-> c, operation |-> "request", answers |-> None, accepted |-> FALSE]
Response(c)  == [id |-> c, operation |-> "request", answers |-> c, accepted |-> FALSE]
\* An answer whose frame is longer than ReadFrame takes.
Oversized(c) == [Response(c) EXCEPT !.operation = "oversized"]
Greeting     == [id |-> Handshake, operation |-> "handshake", answers |-> None, accepted |-> FALSE]
\* HandshakeResponse: an envelope without an extension version is not accepted.
Refusal      == [id |-> Handshake, operation |-> "handshake", answers |-> Handshake,
                 accepted |-> FALSE]
Reply(first) == [Refusal EXCEPT !.accepted = HostAccepts /\ first]

-----------------------------------------------------------------------------
(* Bridge.Call                                                             *)

\* Variant: the call is not in pending when its request is written.
RegisterNowhere(c) ==
  /\ call[c] = "ready"
  /\ host = "running"
  /\ call' = [call EXCEPT ![c] = "registered"]
  /\ UNCHANGED <<host, bridge, toExtension, toHost, extension, answer, spent>>

\* A tool handler calls the bridge: the response channel is put in pending.
Register(c) ==
  /\ call[c] = "ready"
  /\ host = "running"
  /\ pending' = pending \cup {c}
  /\ call' = [call EXCEPT ![c] = "registered"]
  /\ UNCHANGED <<host, run, channel, ended, toExtension, toHost, extension, answer, spent>>

\* writeEnvelope, under writeMu; it fails once Chrome has closed the pipe, and
\* WriteFrame refuses what is longer than MaxMessageSize.
Write(c) ==
  /\ call[c] = "registered"
  /\ host # "gone"
  /\ \/ /\ port = "open"
        /\ toExtension' = Append(toExtension, Request(c))
        /\ call' = [call EXCEPT ![c] = "waiting"]
        /\ UNCHANGED spent
     \/ /\ port = "closed"
        /\ call' = [call EXCEPT ![c] = "given_up"]
        /\ UNCHANGED <<toExtension, spent>>
     \/ /\ spent.oversized < MaxOversized
        /\ spent' = [spent EXCEPT !.oversized = @ + 1]
        /\ call' = [call EXCEPT ![c] = "given_up"]
        /\ UNCHANGED toExtension
  /\ UNCHANGED <<host, bridge, toHost, extension, answer>>

\* response := <-responseChannel
TakeResponse(c) ==
  /\ call[c] = "waiting"
  /\ host # "gone"
  /\ channel[c] # <<>>
  /\ channel' = [channel EXCEPT ![c] = Tail(@)]
  /\ answer' = [answer EXCEPT ![c] = Head(channel[c]).answers]
  /\ call' = [call EXCEPT ![c] = "answered"]
  /\ UNCHANGED <<host, run, pending, ended, toExtension, toHost, extension, spent>>

\* <-ctx.Done(): the client has cancelled the tool call.
Cancel(c) ==
  /\ call[c] = "waiting"
  /\ host # "gone"
  /\ spent.cancels < MaxCancels
  /\ spent' = [spent EXCEPT !.cancels = @ + 1]
  /\ call' = [call EXCEPT ![c] = "given_up"]
  /\ UNCHANGED <<host, bridge, toExtension, toHost, extension, answer>>

\* The deferred delete(bridge.pending, id), and the return to the tool handler.
Forget(c) ==
  /\ call[c] \in {"answered", "given_up"}
  /\ host # "gone"
  /\ pending' = pending \ {c}
  /\ call' = [call EXCEPT ![c] = IF @ = "answered" THEN "done_answered" ELSE "done_given_up"]
  /\ UNCHANGED <<host, run, channel, ended, toExtension, toHost, extension, answer, spent>>

-----------------------------------------------------------------------------
(* Bridge.Run                                                              *)

\* Variant: an answer goes to whichever call is waiting.
WaitingForAny(e) == IF e.operation = "request" THEN pending ELSE {}

\* pending[envelope.ID]
WaitingFor(e) == pending \cap {e.id}

Reading == host = "running" /\ run = None

\* An envelope for a call that is pending: it is put into the call's channel in
\* a step of its own, after pendingMu has been released.
ReadResponse ==
  /\ Reading
  /\ toHost # <<>>
  /\ Head(toHost).operation # "oversized"
  /\ \E c \in WaitingFor(Head(toHost)) : run' = [Head(toHost) EXCEPT !.id = c]
  /\ toHost' = Tail(toHost)
  /\ UNCHANGED <<host, pending, channel, ended, call, toExtension, extension, answer, spent>>

\* Variant: an unbuffered channel.
RoomWithoutBuffer(c) == call[c] = "waiting"

\* make(chan Envelope, 1)
Room(c) == Len(channel[c]) < 1

Deliver ==
  /\ host = "running"
  /\ run # None
  /\ Room(run.id)
  /\ channel' = [channel EXCEPT ![run.id] = Append(@, run)]
  /\ run' = None
  /\ UNCHANGED <<host, pending, ended, call, toExtension, toHost, extension, answer, spent>>

\* A handshake of the extension is answered, whenever it comes.
AnswerHandshake ==
  /\ Reading
  /\ toHost # <<>>
  /\ WaitingFor(Head(toHost)) = {}
  /\ Head(toHost).operation = "handshake"
  /\ toHost' = Tail(toHost)
  /\ IF port = "open"
     THEN /\ toExtension' = Append(toExtension, Reply(Head(toHost).answers = None))
          /\ UNCHANGED <<host, ended>>
     ELSE /\ host' = "ending"
          /\ ended' = "write"
          /\ UNCHANGED toExtension
  /\ UNCHANGED <<run, pending, channel, call, extension, answer, spent>>

\* Anything else that nobody waits for, a frame that is too long, whoever waits for
\* it, and the end of stdin end the loop, and with it the host.
StopRun ==
  /\ Reading
  /\ \/ /\ toHost # <<>>
        /\ WaitingFor(Head(toHost)) = {}
        /\ Head(toHost).operation = "request"
        /\ toHost' = Tail(toHost)
        /\ ended' = "unexpected"
     \/ /\ toHost # <<>>
        /\ Head(toHost).operation = "oversized"
        /\ toHost' = Tail(toHost)
        /\ ended' = "frame"
     \/ /\ toHost = <<>>
        /\ port = "closed"
        /\ ended' = "eof"
        /\ UNCHANGED toHost
  /\ host' = "ending"
  /\ UNCHANGED <<run, pending, channel, call, toExtension, extension, answer, spent>>

\* RunNativeHost returns, after at most three seconds: the process ends, and
\* with it every call that has not returned.
Exit ==
  /\ host = "ending"
  /\ host' = "gone"
  /\ call' = [c \in Calls |-> IF call[c] = "answered" THEN "done_answered"
                              ELSE IF call[c] \in {"registered", "waiting", "given_up"}
                              THEN "done_given_up" ELSE call[c]]
  /\ UNCHANGED <<bridge, toExtension, toHost, extension, answer, spent>>

-----------------------------------------------------------------------------
(* handleNativeMessage                                                     *)

\* Variant: a handshake is worked on like a request.
StartAny(e) == {e.id}

\* The handlers that a frame starts.
Started(e) == {e.id} \cap Calls

\* The extension takes the next frame: a request starts a handler of its own.
\* A handshake that is not accepted is answered like a request that fails, with
\* an error under the handshake's id and operation.
Receive ==
  LET e == Head(toExtension) IN
  /\ port = "open"
  /\ toExtension # <<>>
  /\ toExtension' = Tail(toExtension)
  /\ handling' = handling \cup Started(e)
  /\ toHost' = IF e.operation = "handshake" /\ ~e.accepted /\ host # "gone"
               THEN Append(toHost, Refusal) ELSE toHost
  /\ UNCHANGED <<host, bridge, call, port, carriedOut, answer, spent>>

\* Variant: a handler that fails does not say so.
PostNothing(e) == toHost

\* respond, or the catch: what a handler posts is lost once the host is gone.
Posted(e) == IF port = "open" /\ host # "gone" THEN Append(toHost, e) ELSE toHost

\* A handler ends: its work is done, or has failed, and it posts its answer.  No
\* handler asks how long the answer is.
Answer(c) ==
  /\ c \in handling
  /\ handling' = handling \ {c}
  /\ carriedOut' = [carriedOut EXCEPT ![c] = @ + 1]
  /\ \/ /\ toHost' = Posted(Response(c))
        /\ UNCHANGED spent
     \/ /\ spent.oversized < MaxOversized
        /\ spent' = [spent EXCEPT !.oversized = @ + 1]
        /\ toHost' = Posted(Oversized(c))
  /\ UNCHANGED <<host, bridge, call, toExtension, port, answer>>

\* Chrome sees that the host is gone, once it has taken some of what the host
\* had still written.  The handlers go on.
Disconnect ==
  /\ host = "gone"
  /\ port = "open"
  /\ port' = "closed"
  /\ toExtension' = <<>>
  /\ UNCHANGED <<host, bridge, call, toHost, handling, carriedOut, answer, spent>>

\* Chrome ends, or stops the service worker: its handlers stop where they are.
StopWorker ==
  /\ port = "open"
  /\ spent.stops < MaxStops
  /\ spent' = [spent EXCEPT !.stops = @ + 1]
  /\ port' = "closed"
  /\ toExtension' = <<>>
  /\ handling' = {}
  /\ UNCHANGED <<host, bridge, call, toHost, carriedOut, answer>>

-----------------------------------------------------------------------------
\* The extension has connected and posted its handshake.
Init ==
  /\ host = "running"
  /\ run = None
  /\ pending = {}
  /\ channel = [c \in Calls |-> <<>>]
  /\ call = [c \in Calls |-> "ready"]
  /\ toExtension = <<>>
  /\ toHost = <<Greeting>>
  /\ port = "open"
  /\ handling = {}
  /\ carriedOut = [c \in Calls |-> 0]
  /\ answer = [c \in Calls |-> None]
  /\ ended = "none"
  /\ spent = [cancels |-> 0, oversized |-> 0, stops |-> 0]

StepOfCall(c) == Write(c) \/ TakeResponse(c) \/ Forget(c)
StepOfRun     == ReadResponse \/ Deliver \/ AnswerHandshake \/ StopRun \/ Exit
StepOfWorker  == Receive \/ Disconnect \/ \E c \in Calls : Answer(c)

\* The port is closed and nobody is left to use it.
Over == host = "gone" /\ port = "closed" /\ handling = {} /\ UNCHANGED vars

Next ==
  \/ \E c \in Calls : Register(c) \/ Cancel(c) \/ StepOfCall(c)
  \/ StepOfRun \/ StepOfWorker \/ StopWorker
  \/ Over

Spec == Init /\ [][Next]_vars

\* Goroutines are scheduled, Chrome passes frames on, and handlers end.
Fairness ==
  /\ \A c \in Calls : WF_vars(StepOfCall(c)) /\ WF_vars(Answer(c))
  /\ WF_vars(StepOfRun)
  /\ WF_vars(Receive)
  /\ WF_vars(Disconnect)

FairSpec == Spec /\ Fairness

-----------------------------------------------------------------------------
(* Properties.                                                             *)

\* What the plan service and the tools rely on: own answers only, each after
\* its request was carried out, which happens at most once (bridge.go keeps a
\* channel per random id).
Outcome(c) ==
  CASE call[c] \in {"answered", "done_answered"} -> "answered"
    [] call[c] \in {"given_up", "done_given_up"} -> "given_up"
    [] OTHER -> "none"

Abstract == INSTANCE RemoteCalls WITH outcome <- [c \in Calls |-> Outcome(c)]
ImplementsRemoteCalls == Abstract!Spec

\* Run never waits for a call: when it has an envelope in hand, the channel has
\* room, even if the call has been cancelled since Run looked it up.
RunNeverBlocks == run # None /\ host = "running" => Room(run.id)

\* The host is not brought down by the order of things: only the answer to a
\* call that was cancelled can be unexpected, and none can overtake its call's
\* entry in pending.
EndsOnlyAfterCancel == ended = "unexpected" => spent.cancels > 0

\* Every call returns: with its answer, with an error when the connection is
\* lost, or with the end of the process.
CallsEnd ==
  \A c \in Calls : call[c] = "registered" ~> call[c] \in {"done_answered", "done_given_up"}

\* NFR-004, docs/requirements.md:607: the host consumes no processor time while
\* it is idle.  The two sides come to an end of their handshake.
HandshakeEnds == <>[](\A i \in 1..Len(toHost) : toHost[i].operation # "handshake")
=============================================================================
