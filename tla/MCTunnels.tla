------------------------------ MODULE MCTunnels ------------------------------
(* Tunnels for TLC: every user's gateway session was opened at one address.   *)
EXTENDS Tunnels

CONSTANTS a1

MCHome == [u \in TunnelUser |-> a1]
=============================================================================
