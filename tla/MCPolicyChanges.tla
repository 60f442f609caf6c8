--------------------------- MODULE MCPolicyChanges --------------------------
(* Instances of PolicyChanges for TLC. *)
EXTENDS PolicyChanges, TLC

Asked ==
  {[mode |-> "enforcing", shape |-> FALSE, schedule |-> "manual"],
   [mode |-> "monitor_only", shape |-> FALSE, schedule |-> "daily"],
   [mode |-> "monitor_only", shape |-> TRUE, schedule |-> "manual"]}

Symmetric == Permutations(Edits) \cup Permutations(Requests) \cup Permutations(Users)
=============================================================================
