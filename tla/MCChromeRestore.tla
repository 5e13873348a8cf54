--------------------------- MODULE MCChromeRestore ---------------------------
(***************************************************************************)
(* Three tabs that may start in two groups.                                *)
(***************************************************************************)
EXTENDS ChromeRestore

ThreeTabs == {1, 2, 3}
MCKeys    == {1, 2}

\* The identifiers left for new groups are more than any run below uses.
MCGroupIDs == 11..24
TwoGroups  == {11, 12}

PlanFor(dest) == [policy |-> "rebuild_selected", dest |-> dest, refs |-> {}]

\* New groups, one of them of a single tab; tabs exchanging their groups; a tab
\* following another out of its group.
MCPlans == {PlanFor(<<1, Unassigned, 2>>), PlanFor(<<12, 11, Unassigned>>),
            PlanFor(<<12, Ungrouped, Unassigned>>)}

\* Two tabs that are in no group get one.
NewGroup == {PlanFor(<<1, 1, Unassigned>>)}
=============================================================================
