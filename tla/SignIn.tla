------------------------------- MODULE SignIn -------------------------------
(***************************************************************************)
(* What signing in promises, without row locks, flow stages and statements: *)
(* a request takes effect in one step or not at all.  Only the check of an  *)
(* authenticator's code is a step of its own: totp_submit and               *)
(* enroll_totp_submit read the TOTP row without a lock, so the authenticator *)
(* may be replaced or given up before their session exists.  LoginFlow      *)
(* shows that the handlers, however they interleave, implement this.        *)
(***************************************************************************)
CONSTANTS User, Flow, Secret, Code, Batch, Challenge, Session, None, StartTotp, StartCodes

VARIABLES
    accepted,   \* pairs <<flow, user>>: the flow has had the user's password
    device,     \* device[u]: the authenticator of u, or None
    shown,      \* codes that were right when they were checked, not yet used or given up
    codes,      \* codes[u]: the recovery codes of u
    redeemed,   \* recovery codes that were used
    asked,      \* asked[f]: the passkey challenge of the flow, or None
    answered,   \* challenges that were answered, rightly or wrongly
    sessions    \* sessions[s]: a session, or None

signInVars == <<accepted, device, shown, codes, redeemed, asked, answered, sessions>>

SignInInit ==
    /\ accepted = {} /\ shown = {} /\ redeemed = {} /\ answered = {}
    /\ device = [u \in User |-> IF StartTotp[u] = None THEN None
                                ELSE [secret |-> StartTotp[u], confirmed |-> TRUE]]
    /\ codes = StartCodes
    /\ asked = [f \in Flow |-> None]
    /\ sessions = [s \in Session |-> None]

Shown(f, u, x, by) == [flow |-> f, user |-> u, proof |-> x, by |-> by]

\* Requests that end take the codes they have checked with them.
Forgets == shown' \in SUBSET shown

\* A session is new, and both factors of its user precede it in its flow.
Opens(s, f, u, x, by) ==
    /\ <<f, u>> \in accepted /\ sessions[s] = None
    /\ \E tier \in {"standard", "admin"} :
         sessions' = [sessions EXCEPT ![s] =
             [user |-> u, tier |-> tier, flow |-> f, proof |-> x, by |-> by]]

\* A flow is completed once by a code or an assertion.
Completes(s, f, u, x, by) ==
    /\ \A v \in Session : sessions[v] = None \/ sessions[v].flow # f
                          \/ sessions[v].by \notin {"totp", "verify"}
    /\ Opens(s, f, u, x, by)

AcceptPassword(f, u) ==
    /\ accepted' = accepted \cup {<<f, u>>}
    /\ Forgets /\ UNCHANGED <<device, codes, redeemed, asked, answered, sessions>>

\* A code of the user's confirmed authenticator, or of the pending one in an enrollment.
Show(f, u, by) ==
    /\ <<f, u>> \in accepted /\ device[u] # None
    /\ device[u].confirmed <=> by = "totp"
    /\ shown' = shown \cup {Shown(f, u, device[u].secret, by)}
    /\ UNCHANGED <<accepted, device, codes, redeemed, asked, answered, sessions>>

LogIn(s, f, u, x) ==
    /\ Shown(f, u, x, "totp") \in shown
    /\ Completes(s, f, u, x, "totp")
    /\ Forgets /\ UNCHANGED <<accepted, device, codes, redeemed, asked, answered>>

\* A fresh challenge, and its only answer.
Ask(f, u, x) ==
    /\ <<f, u>> \in accepted
    /\ x \notin answered /\ \A g \in Flow : asked[g] # x
    /\ asked' = [asked EXCEPT ![f] = x]
    /\ Forgets /\ UNCHANGED <<accepted, device, codes, redeemed, answered, sessions>>

Answer(f) ==
    /\ asked[f] # None /\ asked[f] \notin answered
    /\ asked' = [asked EXCEPT ![f] = None]
    /\ answered' = answered \cup {asked[f]}
    /\ \/ UNCHANGED sessions
       \/ \E s \in Session, u \in User : Completes(s, f, u, asked[f], "verify")
    /\ Forgets /\ UNCHANGED <<accepted, device, codes, redeemed>>

\* A flow is abandoned for a new one.
Abandon(f) ==
    /\ asked' = [asked EXCEPT ![f] = None]
    /\ Forgets /\ UNCHANGED <<accepted, device, codes, redeemed, answered, sessions>>

\* A new authenticator, pending until a code of it is shown.
Offer(f, u, x) ==
    /\ <<f, u>> \in accepted
    /\ \A v \in User : device[v] # None => device[v].secret # x
    /\ device' = [device EXCEPT ![u] = [secret |-> x, confirmed |-> FALSE]]
    /\ Forgets /\ UNCHANGED <<accepted, codes, redeemed, asked, answered, sessions>>

\* It is confirmed, all recovery codes are replaced, and the flow ends in a session.
Enroll(s, f, u, x, B) ==
    /\ Shown(f, u, x, "enroll") \in shown /\ device[u] # None
    /\ B \cap redeemed = {} /\ \A v \in User : B \cap codes[v] = {}
    /\ device' = [device EXCEPT ![u].confirmed = TRUE]
    /\ codes' = [codes EXCEPT ![u] = B]
    /\ asked' = [asked EXCEPT ![f] = None]
    /\ Opens(s, f, u, x, "enroll")
    /\ Forgets /\ UNCHANGED <<accepted, redeemed, answered>>

\* A recovery code is used up and the authenticator, if it was there, given up.
Recover(f, u, c) ==
    /\ <<f, u>> \in accepted /\ c \in codes[u] \ redeemed
    /\ codes' = [codes EXCEPT ![u] = @ \ {c}]
    /\ redeemed' = redeemed \cup {c}
    /\ device' \in {device, [device EXCEPT ![u] = None]}
    /\ Forgets /\ UNCHANGED <<accepted, asked, answered, sessions>>

\* An administrator resets the second factor.
Reset(u) ==
    /\ device' = [device EXCEPT ![u] = None]
    /\ codes' = [codes EXCEPT ![u] = {}]
    /\ UNCHANGED <<accepted, shown, redeemed, asked, answered, sessions>>

Forget == Forgets /\ UNCHANGED <<accepted, device, codes, redeemed, asked, answered, sessions>>

SignInNext ==
    \/ Forget
    \/ \E u \in User : Reset(u)
    \/ \E f \in Flow : Answer(f) \/ Abandon(f)
    \/ \E f \in Flow, u \in User :
         \/ AcceptPassword(f, u)
         \/ \E by \in {"totp", "enroll"} : Show(f, u, by)
         \/ \E s \in Session, x \in Secret : LogIn(s, f, u, x)
         \/ \E s \in Session, x \in Secret, B \in Batch : Enroll(s, f, u, x, B)
         \/ \E x \in Challenge : Ask(f, u, x)
         \/ \E x \in Secret : Offer(f, u, x)
         \/ \E c \in Code : Recover(f, u, c)

SignInSpec == SignInInit /\ [][SignInNext]_signInVars
=============================================================================
