---------------------------- MODULE MCEdgeAuthz ----------------------------
(* Instances of EdgeAuthz: r1 and r2 have the same port, so a cached key does *)
(* not tell them apart; "console" is an infra route, LAN only.                *)
EXTENDS EdgeAuthz, TLC

MCPort == [r \in Resource |-> 1]
MCStatic == "console" :> [backend |-> "infra", port |-> 2, auth |-> FALSE, lan |-> TRUE,
                          gate |-> FALSE, tunnel |-> TRUE]
MCStartHost == [r \in Resource |-> IF r \in Public THEN None ELSE "app"]
MCStartRule == [c \in Cookie |-> [r \in Resource |-> "host"]]
MCLan == {"home"}
=============================================================================
