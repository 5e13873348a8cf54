----------------------------- MODULE Selections -----------------------------
(***************************************************************************)
(* What a loop keeps that goes through a list once and appends some of its *)
(* items to another.                                                       *)
(***************************************************************************)
EXTENDS Integers, Sequences

\* The items of a sequence at some places, in their order.
ItemsAt(s, places) ==
  LET kept[i \in 0 .. Len(s)] ==
        IF i = 0 THEN <<>>
        ELSE IF i \in places THEN Append(kept[i - 1], s[i])
        ELSE kept[i - 1]
  IN kept[Len(s)]

\* Those that pass a test.
Chosen(s, Passes(_)) == ItemsAt(s, {i \in DOMAIN s : Passes(s[i])})
=============================================================================
