---------------------------- MODULE MCNativeBridge ----------------------------
(* Small instances of NativeBridge. *)
EXTENDS NativeBridge, TLC

CONSTANTS c1, c2, c3

TwoCalls   == {c1, c2}
ThreeCalls == {c1, c2, c3}
Symmetry   == Permutations(ThreeCalls)
=============================================================================
