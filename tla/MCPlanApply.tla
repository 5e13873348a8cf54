----------------------------- MODULE MCPlanApply -----------------------------
(***************************************************************************)
(* Small instances of PlanApply.  Two clients work on two tabs, which may  *)
(* start in one group; one client alone works on three tabs and two groups. *)
(***************************************************************************)
EXTENDS PlanApply, TLC

CONSTANTS c1, c2, p1, p2

TwoTabs   == {1, 2}
ThreeTabs == {1, 2, 3}
MCKeys    == {1, 2}

\* The identifiers left for new groups are more than any run below uses.
MCGroupIDs == 11..24
OneGroup   == {11}
TwoGroups  == {11, 12}

PlanFor(policy, dest, refs) == [policy |-> policy, dest |-> dest, refs |-> refs]

\* Both tabs into a new group; one out of its group and one into an old group,
\* the latter because of what its page says.
PlansForTwo == {
  PlanFor("preserve_existing", <<1, 1>>, {}),
  PlanFor("rebuild_selected", <<Ungrouped, 11>>, {2})}

\* Two tabs into a new group, those only that are in none; two new groups; a
\* rotation that empties groups on the way; a plan that empties nothing.
PlansForThree == {
  PlanFor("ungrouped_only", <<1, 1, Unassigned>>, {}),
  PlanFor("rebuild_selected", <<2, 1, 2>>, {}),
  PlanFor("rebuild_selected", <<12, Ungrouped, 11>>, {}),
  PlanFor("existing_groups_only", <<Unassigned, 11, 12>>, {1})}

Symmetry == Permutations({c1, c2}) \cup Permutations({p1, p2})
=============================================================================
