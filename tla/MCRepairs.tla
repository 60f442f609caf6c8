------------------------------ MODULE MCRepairs -----------------------------
(* Instances of Repairs for TLC. *)
EXTENDS Repairs
=============================================================================
