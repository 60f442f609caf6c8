---------------------------- MODULE MCAgentTasks ----------------------------
(***************************************************************************)
(* Instances of AgentTasks for TLC.  The tasks of the instance are two     *)
(* repairs of the same target, which share a cooldown, and a port traffic  *)
(* task, which the cooldown does not concern.                              *)
(***************************************************************************)
EXTENDS AgentTasks

CONSTANTS repair1, repair2, port, target, chain

RepairKeys == [t \in Tasks |-> IF t = port THEN chain ELSE target]
=============================================================================
