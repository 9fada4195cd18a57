------------------------------ MODULE SlotPool ------------------------------
(***************************************************************************)
(* What the RTSP bridge's stream limit promises: a pool of slots, `Limit`   *)
(* for each user.  A connection takes a slot only while one is free and     *)
(* gives back exactly the slot it took.  The bridge keeps a counter per     *)
(* user (`_active`); Tunnels shows that its counter implements this pool.   *)
(***************************************************************************)
EXTENDS Naturals, FiniteSets

CONSTANTS Holder, Member, Limit

VARIABLE held    \* held[u]: the connections that hold one of u's slots

PoolInit == held = [u \in Member |-> {}]

Take(h, u) ==
    /\ \A m \in Member : h \notin held[m]
    /\ Cardinality(held[u]) < Limit
    /\ held' = [held EXCEPT ![u] = @ \cup {h}]

GiveBack(h, u) ==
    /\ h \in held[u]
    /\ held' = [held EXCEPT ![u] = @ \ {h}]

PoolNext == \E h \in Holder, u \in Member : Take(h, u) \/ GiveBack(h, u)

PoolSpec == PoolInit /\ [][PoolNext]_held
=============================================================================
