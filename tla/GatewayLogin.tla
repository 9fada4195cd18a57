---------------------------- MODULE GatewayLogin ----------------------------
(***************************************************************************)
(* The gateway as relying party (authz/gateway.py): start parks a login     *)
(* state, the browser fetches authorization codes from the IdP for it, and  *)
(* callback trades a code for a gateway session.  The IdP's side (authorize *)
(* and token) is external here; OidcTokens has its detail.  A step is one   *)
(* statement, the back-channel request or the commit.                       *)
(***************************************************************************)
EXTENDS Naturals, FiniteSets

CONSTANTS
    LoginState,   \* login states start can create; each has its own verifier and nonce
    AuthCode,     \* authorization codes
    IdpSession,   \* IdP sessions codes are issued for
    GwAddr,       \* client addresses
    Callback,     \* callback requests that can run at once
    NoCallback,   \* no lock holder
    MaxCallbacks  \* bound: callback requests made

ASSUME GatewayAssumption ==
    /\ MaxCallbacks \in Nat /\ NoCallback \notin Callback
    /\ IsFiniteSet(AuthCode)

VARIABLES
    states,      \* committed gateway_login_states: state -> address, on its domain
    stateLock,   \* stateLock[s]: the callback that has deleted s and not yet ended
    parked,      \* states start has created
    codes,       \* codes issued: code -> the state and the session it is bound to
    redeemed,    \* codes the IdP has exchanged
    gateway,     \* committed gateway sessions: the code, the state, the IdP session
    callback,    \* callback[h] is the request h is serving
    called,      \* callbacks made
    burned       \* states of which a callback has ended (history)

gatewayVars == <<states, stateLock, parked, codes, redeemed, gateway, callback, called, burned>>

NoCall == [pc |-> "none"]

GatewayInit ==
    /\ states = [s \in {} |-> 0] /\ parked = {}
    /\ stateLock = [s \in LoginState |-> NoCallback]
    /\ codes = [c \in {} |-> 0] /\ redeemed = {}
    /\ gateway = {}
    /\ callback = [h \in Callback |-> NoCall]
    /\ called = 0
    /\ burned = {}

\* start, for a valid return URL.
start(s, a) ==
    /\ s \notin parked
    /\ parked' = parked \cup {s}
    /\ states' = [t \in DOMAIN states \cup {s} |-> IF t = s THEN a ELSE states[t]]
    /\ UNCHANGED <<stateLock, codes, redeemed, gateway, callback, called, burned>>

\* The IdP issues a code for the PKCE challenge and the nonce of s; the authorize
\* URL can be visited again, by the same browser or by one with another session.
Authorize(c, s, i) ==
    /\ c \notin DOMAIN codes /\ s \in parked
    /\ codes' = [d \in DOMAIN codes \cup {c} |->
                    IF d = c THEN [state |-> s, session |-> i] ELSE codes[d]]
    /\ UNCHANGED <<states, stateLock, parked, redeemed, gateway, callback, called, burned>>

\* callback reads the state's row, without a lock; another address is refused.
LoadState(h, c, s, a) ==
    /\ callback[h].pc = "none" /\ called < MaxCallbacks
    /\ c \in DOMAIN codes /\ s \in DOMAIN states /\ states[s] = a
    /\ called' = called + 1
    /\ callback' = [callback EXCEPT ![h] = [pc |-> "loaded", code |-> c, state |-> s]]
    /\ UNCHANGED <<states, stateLock, parked, codes, redeemed, gateway, burned>>

\* The DELETE waits for another callback's; a row already gone is only a warning.
DeleteState(h) ==
    /\ callback[h].pc = "loaded"
    /\ \/ /\ callback[h].state \in DOMAIN states /\ stateLock[callback[h].state] = NoCallback
          /\ stateLock' = [stateLock EXCEPT ![callback[h].state] = h]
       \/ callback[h].state \notin DOMAIN states /\ UNCHANGED stateLock
    /\ callback' = [callback EXCEPT ![h].pc = "exchange"]
    /\ UNCHANGED <<states, parked, codes, redeemed, gateway, called, burned>>

\* The IdP's token endpoint redeems a code once, for the verifier it was issued for.
Redeems(h) ==
    /\ codes[callback[h].code].state = callback[h].state
    /\ callback[h].code \notin redeemed

\* The back-channel request: refused, answered, or lost (with or without effect).
Exchange(h) ==
    /\ callback[h].pc = "exchange"
    /\ \/ /\ Redeems(h)
          /\ redeemed' = redeemed \cup {callback[h].code}
          /\ callback' \in {[callback EXCEPT ![h].pc = "answered"], [callback EXCEPT ![h].pc = "failed"]}
       \/ /\ callback' = [callback EXCEPT ![h].pc = "failed"]
          /\ UNCHANGED redeemed
    /\ UNCHANGED <<states, stateLock, parked, codes, gateway, called, burned>>

\* The rows once a callback that used s ends.
Without(s) == [t \in DOMAIN states \ {s} |-> states[t]]
AfterFailed_kept(s) == states
AfterFailed(s) == Without(s)

EndCallback(h) ==
    /\ callback' = [callback EXCEPT ![h] = NoCall]
    /\ stateLock' = [s \in LoginState |-> IF stateLock[s] = h THEN NoCallback ELSE stateLock[s]]
    /\ burned' = burned \cup {callback[h].state}

\* A refused or lost exchange answers 400 or 502 and commits the deletion.
FailCallback(h) ==
    /\ callback[h].pc = "failed"
    /\ states' = AfterFailed(callback[h].state)
    /\ EndCallback(h)
    /\ UNCHANGED <<parked, codes, redeemed, gateway, called>>

\* The nonce of the ID token is the state's; the session is created and committed.
CommitCallback(h) ==
    LET c == callback[h].code
    IN  /\ callback[h].pc = "answered"
        /\ codes[c].state = callback[h].state
        /\ gateway' = gateway \cup {[id |-> Cardinality(gateway), code |-> c, state |-> callback[h].state,
                                     session |-> codes[c].session, rev |-> FALSE]}
        /\ states' = Without(callback[h].state)
        /\ EndCallback(h)
        /\ UNCHANGED <<parked, codes, redeemed, called>>

\* logout revokes the cookie's session.
logout(g) ==
    /\ ~g.rev
    /\ gateway' = (gateway \ {g}) \cup {[g EXCEPT !.rev = TRUE]}
    /\ UNCHANGED <<states, stateLock, parked, codes, redeemed, callback, called, burned>>

\* gc deletes a state that has expired (when is left open); it waits for its lock.
gc_login_states(s) ==
    /\ s \in DOMAIN states /\ stateLock[s] = NoCallback
    /\ states' = Without(s)
    /\ UNCHANGED <<stateLock, parked, codes, redeemed, gateway, callback, called, burned>>

GatewayNext ==
    \/ \E s \in LoginState, a \in GwAddr : start(s, a)
    \/ \E c \in AuthCode, s \in LoginState, i \in IdpSession : Authorize(c, s, i)
    \/ \E h \in Callback :
          \/ \E c \in AuthCode, s \in LoginState, a \in GwAddr : LoadState(h, c, s, a)
          \/ DeleteState(h) \/ Exchange(h) \/ FailCallback(h) \/ CommitCallback(h)
    \/ \E g \in gateway : logout(g)
    \/ \E s \in LoginState : gc_login_states(s)

GatewaySpec == GatewayInit /\ [][GatewayNext]_gatewayVars

-----------------------------------------------------------------------------
(* Properties *)

GatewayTypeOK ==
    /\ parked \subseteq LoginState /\ DOMAIN states \subseteq parked
    /\ \A s \in DOMAIN states : states[s] \in GwAddr
    /\ stateLock \in [LoginState -> Callback \cup {NoCallback}]
    /\ DOMAIN codes \subseteq AuthCode /\ redeemed \subseteq DOMAIN codes
    /\ \A h \in Callback : callback[h].pc \in {"none", "loaded", "exchange", "answered", "failed"}
    /\ called \in 0 .. MaxCallbacks /\ burned \subseteq parked

\* A login state is used up by the first callback that ends, whether its exchange
\* succeeded, was refused or was lost: only callbacks that had read it before, without
\* a lock, can go on with it.  And however those overlap, a code gives at most one
\* gateway session, for the IdP session and the login state it was issued for.
LoginStateOnce ==
    /\ burned \cap DOMAIN states = {}
    /\ \A g \in gateway :
          /\ codes[g.code].state = g.state /\ codes[g.code].session = g.session
          /\ \A f \in gateway : f.code = g.code => f = g
=============================================================================
