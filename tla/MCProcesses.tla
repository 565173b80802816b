---------------------------- MODULE MCProcesses ----------------------------
(* Two parts of CodexLink that handle other processes, each explored alone. *)
EXTENDS InstallSecret, Tunnel

VARIABLE part  \* the part that is explored

Init ==
  /\ part \in {"secret", "tunnel"} /\ SecretInit /\ TunnelInit
  /\ part = "tunnel" => removable

Next ==
  /\ UNCHANGED part
  /\ \/ part = "secret" /\ SecretNext /\ UNCHANGED tunnelVars
     \/ part = "tunnel" /\ TunnelNext /\ UNCHANGED secretVars

Spec == Init /\ [][Next]_<<part, secretVars, tunnelVars>> /\ SecretFairness /\ TunnelFairness
=============================================================================
