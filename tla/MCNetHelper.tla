---------------------------- MODULE MCNetHelper ----------------------------
(* Instances of NetHelper for TLC. *)
EXTENDS NetHelper

CONSTANTS create, remove, reset, dry

Operations ==
  [r \in Requests |-> CASE r = create -> "apply"
                        [] r = remove -> "remove"
                        [] r = reset  -> "reset"
                        [] r = dry    -> "apply"]

Generations == [r \in Requests |-> 1]
=============================================================================
