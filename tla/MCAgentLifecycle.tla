--------------------------- MODULE MCAgentLifecycle --------------------------
(* Instances of AgentLifecycle for TLC. *)
EXTENDS AgentLifecycle

\* Any maintenance first, then a replacement.
ThenReinstall == <<AllKinds, {"reinstall"}>>

OnlyRotation == <<{"rotate_identity"}>>
=============================================================================
