------------------------- MODULE MCBridgeLifecycle -------------------------
(* Instances of BridgeLifecycle for TLC. *)
EXTENDS BridgeLifecycle, TLC

CONSTANTS c1, c2

\* One command is of a newer release, or all are of the same.
TwoVersions == [c \in Commands |-> IF c = c2 THEN "v2" ELSE "v1"]
OneVersion  == [c \in Commands |-> "v1"]
=============================================================================
