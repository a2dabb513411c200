----------------------------- MODULE MCWorkMerge -----------------------------
(* Instances of WorkMerge for TLC. *)
EXTENDS WorkMerge

MCConfigs ==
  {[policy |-> "protected", review |-> "approval", enforced |-> TRUE],
   [policy |-> "protected", review |-> "changes", enforced |-> FALSE],
   [policy |-> "always", review |-> "changes", enforced |-> FALSE],
   [policy |-> "off", review |-> "off", enforced |-> FALSE]}
=============================================================================
