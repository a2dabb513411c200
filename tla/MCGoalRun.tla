----------------------------- MODULE MCGoalRun -----------------------------
(***************************************************************************)
(* Two goals, two runs; what breaks for good.                              *)
(***************************************************************************)
EXTENDS GoalRun

MCGoal == {1, 2}

\* Without a budget, the disk breaks together with GitHub; with one, either
\* may break alone.
MCSettings ==
  {[ceiling |-> 0, outages |-> {{"disk", "github"}}],
   [ceiling |-> 2, outages |-> {{"disk"}, {"github"}}]}

\* A token that cannot write, and no budget.
MCReadOnly == {[ceiling |-> 0, outages |-> {{"github"}}]}

=============================================================================
