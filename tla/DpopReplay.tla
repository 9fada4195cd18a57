----------------------------- MODULE DpopReplay -----------------------------
(***************************************************************************)
(* The freshness of a DPoP proof and its replay cache (idp/oidc/dpop.py,    *)
(* idp/oidc/replay.py), with the gc command that empties the cache.  A      *)
(* proof is a model value with the time its client says it was made; the    *)
(* checks of its structure, key, method, address and binding do not depend  *)
(* on time or on other requests and are left out.                           *)
(***************************************************************************)
EXTENDS Naturals, Sequences

CONSTANTS
    Proof,        \* proofs, each with its own jti
    IatWindow,    \* settings.dpop_iat_window
    FutureSkew,   \* settings.dpop_iat_future_skew
    MaxNow        \* bound: time

ASSUME DpopAssumption == {IatWindow, FutureSkew} \subseteq Nat /\ MaxNow \in Nat \ {0}

VARIABLES
    now,
    iat,        \* iat[p]: the proof's issue time
    jti,        \* jti[p]: expires_at of its dpop_jti_seen row, 0 for no row
    accepted    \* accepted[p]: the times at which it was accepted (history)

dpopVars == <<now, iat, jti, accepted>>

Time == 1 .. MaxNow

DpopInit ==
    /\ now = 1
    /\ iat \in [Proof -> Time]
    /\ jti = [p \in Proof |-> 0]
    /\ accepted = [p \in Proof |-> <<>>]

\* verify_proof_offline, as far as time goes.
Fresh(p) == now <= iat[p] + IatWindow /\ iat[p] <= now + FutureSkew

\* The row's lifetime.
Remember_short(p) == now + FutureSkew
Remember(p) == now + IatWindow

\* verify_proof: check_and_store inserts the jti in one statement, which waits for
\* another request's uncommitted insert and finds the row afterwards.
VerifyProof(p) ==
    /\ Fresh(p) /\ jti[p] = 0
    /\ jti' = [jti EXCEPT ![p] = Remember(p)]
    /\ accepted' = [accepted EXCEPT ![p] = Append(@, now)]
    /\ UNCHANGED <<now, iat>>

\* The gc command.
GcJtis ==
    /\ \E p \in Proof : jti[p] # 0 /\ jti[p] <= now
    /\ jti' = [p \in Proof |-> IF jti[p] <= now THEN 0 ELSE jti[p]]
    /\ UNCHANGED <<now, iat, accepted>>

DpopTick == now < MaxNow /\ now' = now + 1 /\ UNCHANGED <<iat, jti, accepted>>

DpopNext == (\E p \in Proof : VerifyProof(p)) \/ GcJtis \/ DpopTick

DpopSpec == DpopInit /\ [][DpopNext]_dpopVars

-----------------------------------------------------------------------------
(* Properties *)

DpopTypeOK ==
    /\ now \in Time
    /\ iat \in [Proof -> Time]
    /\ jti \in [Proof -> Nat]
    /\ accepted \in [Proof -> Seq(Time)]

\* Whenever the gc command runs, a proof that was accepted is refused for the rest
\* of the window.  It can be accepted again only by outliving its row, and only if
\* its issue time had not passed yet when it was first accepted.
ReplayOnlyPastWindow ==
    \A p \in Proof : \A i, j \in 1 .. Len(accepted[p]) :
        i < j => /\ accepted[p][j] >= accepted[p][i] + IatWindow
                 /\ iat[p] >= accepted[p][i]

=============================================================================
