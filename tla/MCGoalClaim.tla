---------------------------- MODULE MCGoalClaim ----------------------------
(* Instances of GoalClaim for TLC.                                         *)
EXTENDS GoalClaim, TLC

\* Sessions are interchangeable where all of them can flock, and so are pids;
\* goals are not, next_pending serves them in order.
Symmetry == Permutations(Session) \cup Permutations(Pid)

=============================================================================
