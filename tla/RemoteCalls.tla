----------------------------- MODULE RemoteCalls -----------------------------
(***************************************************************************)
(* What the rest of the host may rely on when it calls the extension:      *)
(* ChromeBridge (src/internal/nativemsg/chrome_bridge.go) in one page.     *)
(* A request is carried out at most once.  A call that is answered has its *)
(* own answer, and its request has been carried out.  A call that is given *)
(* up says nothing about its request, which may even be carried out later. *)
(***************************************************************************)
CONSTANTS
  Calls,  (* calls of one host process *)
  None    (* no answer                 *)

VARIABLES
  carriedOut,  (* how often the extension has done what each call asks *)
  outcome,     (* what each call has returned                          *)
  answer       (* the call whose answer it returned                    *)

rpc == <<carriedOut, outcome, answer>>

Outcomes == {"none", "answered", "given_up"}

Init ==
  /\ carriedOut = [c \in Calls |-> 0]
  /\ outcome = [c \in Calls |-> "none"]
  /\ answer = [c \in Calls |-> None]

CarryOut(c) ==
  /\ carriedOut[c] = 0
  /\ carriedOut' = [carriedOut EXCEPT ![c] = 1]
  /\ UNCHANGED <<outcome, answer>>

Return(c) ==
  /\ outcome[c] = "none"
  /\ carriedOut[c] = 1
  /\ outcome' = [outcome EXCEPT ![c] = "answered"]
  /\ answer' = [answer EXCEPT ![c] = c]
  /\ UNCHANGED carriedOut

\* Some calls are given up together: the host ends with all it was waiting for.
GiveUp(S) ==
  /\ \A c \in S : outcome[c] = "none"
  /\ outcome' = [c \in Calls |-> IF c \in S THEN "given_up" ELSE outcome[c]]
  /\ UNCHANGED <<carriedOut, answer>>

Next ==
  \/ \E c \in Calls : CarryOut(c) \/ Return(c)
  \/ \E S \in SUBSET Calls : GiveUp(S)

Spec == Init /\ [][Next]_rpc
=============================================================================
