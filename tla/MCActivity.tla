------------------------------ MODULE MCActivity ------------------------------
(***************************************************************************)
(* A tab and an incognito one.                                             *)
(***************************************************************************)
EXTENDS Activity

CONSTANTS t1, i1
=============================================================================
