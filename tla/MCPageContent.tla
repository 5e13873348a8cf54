--------------------------- MODULE MCPageContent ---------------------------
(***************************************************************************)
(* Two tabs.  In one family of behaviours their pages change and requests  *)
(* of every kind follow each other; in the other nothing changes and the   *)
(* tabs show any two of many texts, for the line difference.               *)
(***************************************************************************)
EXTENDS PageContent

CONSTANTS t1, t2, c1

NL == "n"

\* All texts of up to three characters, and all of three one-letter lines.
ShortTexts == UNION {[1 .. n -> {"a", "b", NL}] : n \in 0 .. 3}
LongTexts  == {<<x, NL, y, NL, z>> : x, y, z \in {"a", "b"}}

Opening(x, y, changes, asked) ==
  [pages |-> (t1 :> [url |-> "here", doc |-> 1, text |-> x]) @@ (t2 :> [url |-> "here", doc |-> 1, text |-> y]),
   edits |-> changes, requests |-> asked]

PagesThatChange == {Opening(<<"a">>, <<"a">>, 2, 2)}
PagesThatStay   == {Opening(x, y, 0, 1) : x, y \in ShortTexts} \cup {Opening(x, y, 0, 1) : x, y \in LongTexts}
MCOpenings == PagesThatChange \cup PagesThatStay
MCTexts    == {<<"b">>}

Symmetry == Permutations({t1, t2})
=============================================================================
