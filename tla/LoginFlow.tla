----------------------------- MODULE LoginFlow -----------------------------
(***************************************************************************)
(* The login flow of the identity provider (server/src/hyproxy/idp/        *)
(* flows.py, idp/web/routes.py and the login part of webauthn_routes.py):  *)
(* password, then a TOTP code for a standard user or a passkey assertion   *)
(* for an admin, TOTP enrollment, and recovery codes.                      *)
(*                                                                         *)
(* As in OidcTokens a step is one SQL statement with the Python up to the  *)
(* next one, at READ COMMITTED: wr[p] holds what request p has written and *)
(* not committed, and the rows it wrote or selected FOR UPDATE stay locked *)
(* until it ends.  Only totp_submit and the passkey endpoints lock the     *)
(* flow row when they read it.  A request arrives with its first statement; *)
(* one whose flow cookie or CSRF token does not match, or whose flow is    *)
(* gone, writes nothing and is left out.  The throttle's verdict and the   *)
(* client's address are inputs.                                            *)
(*                                                                         *)
(* A definition Op_variant that precedes Op is Op with a plausible slip:   *)
(* PROJECT.json names the property that must catch it.                     *)
(***************************************************************************)
EXTENDS Integers

CONSTANTS
    User,       \* accounts
    Flow,       \* identifiers of rows of table login_flows
    Secret,     \* TOTP secrets
    Code,       \* recovery codes
    Batch,      \* the sets of codes that issue_batch draws
    Challenge,  \* passkey challenges
    Session,    \* identifiers of rows of table sessions
    Req,        \* request slots
    None,       \* SQL NULL
    Admins,     \* users of tier "admin" when the run starts
    Keyed,      \* users with two strong passkeys
    Protected,  \* the bootstrap admin (is_protected)
    StartTotp,  \* StartTotp[u]: the confirmed secret of u when the run starts
    StartCodes, \* StartCodes[u]: the unused recovery codes of u when the run starts
    MaxChanges, \* bound on the administrators' changes and the expiries
    Serve       \* the kinds of request an instance receives

ASSUME NoneAssumption == None \notin User \cup Flow \cup Secret \cup Code \cup Challenge \cup Session

ASSUME StartAssumption ==
    /\ StartTotp \in [User -> Secret \cup {None}]
    /\ \A u, v \in User : StartTotp[u] = StartTotp[v] /\ StartTotp[u] # None => u = v
    /\ Batch \subseteq SUBSET Code
    /\ \A B, C \in Batch : B = C \/ B \cap C = {}
    /\ StartCodes \in [User -> Batch \cup {{}}]
    /\ \A u, v \in User : u # v => StartCodes[u] \cap StartCodes[v] = {}
    /\ Admins \cup Keyed \cup Protected \subseteq User
    /\ MaxChanges \in Nat

\* A base32 TOTP secret is not mistaken for the random bytes of a challenge.
ASSUME KindAssumption == Secret \cap Challenge = {}

VARIABLES
    active,   \* users with status "active"
    admin,    \* users with auth_tier "admin"
    flow,     \* table login_flows: a row or None
    expired,  \* flows past expires_at
    totp,     \* table user_totp: a row or None
    unused,   \* table recovery_codes: each user's codes with used_at NULL
    sess,     \* table sessions: a row or None
    dead,     \* sessions that are revoked or stale
    issued,   \* identifiers already drawn (uuid4, random_base32, challenge)
    changes,  \* how many changes administrators made
    pc, req,  \* the next statement, arguments and locals of each request
    wr,       \* uncommitted writes and row locks of each request
    dropped,  \* history: secrets given up by a recovery or a reset
    proved,   \* history: pairs <<flow, user>> whose password was accepted
    spent,    \* history: how often each recovery code was redeemed
    met       \* history: challenges a committed request has compared

tables == <<active, admin, flow, expired, totp, unused, sess, dead>>
hist == <<dropped, proved, spent, met>>
vars == <<tables, issued, changes, pc, req, wr, hist>>

-----------------------------------------------------------------------------
(* Rows, writes and locks.                                                 *)

\* csrf_token_hash, source_ip and oidc_request are left out.
NewFlow == [stage |-> "password", user |-> None, chal |-> None, recovery |-> FALSE,
            done |-> None]

\* set: columns of the flow row written; delF: the flow row deleted; newF: a flow
\* inserted; t: what happens to the user's TOTP row; used, del, new: recovery
\* codes; s: the session inserted.
NoWrites == [lockF |-> {}, lockT |-> {}, lockC |-> {}, set |-> [c \in {} |-> None],
             delF |-> FALSE, newF |-> None, t |-> "keep", secret |-> None,
             used |-> {}, del |-> {}, new |-> {}, s |-> None, row |-> None]

NoReq == [kind |-> "none", flow |-> None, user |-> None, code |-> None, good |-> TRUE,
          tier |-> "standard", exist |-> FALSE, proof |-> None, res |-> "none",
          gone |-> {}]

\* Column updates `upd' over `row': the ORM writes only the changed columns.
Patch(row, upd) == [c \in DOMAIN row |-> IF c \in DOMAIN upd THEN upd[c] ELSE row[c]]

FreeFlow(p, f) == \A q \in Req \ {p} : f \notin wr[q].lockF
FreeTotp(p, u) == \A q \in Req \ {p} : u \notin wr[q].lockT
FreeCodes(p, C) == \A q \in Req \ {p} : C \cap wr[q].lockC = {}

Init ==
    /\ active = User /\ admin = Admins
    /\ flow = [f \in Flow |-> None] /\ expired = {}
    /\ totp = [u \in User |-> IF StartTotp[u] = None THEN None
                              ELSE [secret |-> StartTotp[u], confirmed |-> TRUE]]
    /\ unused = StartCodes
    /\ sess = [s \in Session |-> None] /\ dead = {}
    /\ issued = {StartTotp[u] : u \in User} \cup UNION {StartCodes[u] : u \in User}
    /\ changes = 0
    /\ pc = [p \in Req |-> "free"]
    /\ req = [p \in Req |-> NoReq]
    /\ wr = [p \in Req |-> NoWrites]
    /\ dropped = {} /\ proved = {} /\ spent = [c \in Code |-> 0] /\ met = {}

Goto(p, label, r) ==
    /\ pc' = [pc EXCEPT ![p] = label]
    /\ req' = [req EXCEPT ![p] = r]
Write(p, w) == wr' = [wr EXCEPT ![p] = w]
Draw(x) == x \notin issued /\ issued' = issued \cup {x}
Frame == UNCHANGED <<tables, changes, hist>>
Read == UNCHANGED <<issued, wr>> /\ Frame

End(p) ==
    /\ Goto(p, "free", NoReq)
    /\ Write(p, NoWrites)

\* An error page, a redirect or a page view: nothing is written (the rotation of
\* the CSRF token is left out), the transaction ends and its locks with it.
Refuse(p) == End(p) /\ UNCHANGED issued /\ Frame

-----------------------------------------------------------------------------
(* End of a request.                                                       *)

TotpAfter(old, w) ==
    CASE w.t = "keep"    -> old
      [] w.t = "insert"  -> [secret |-> w.secret, confirmed |-> FALSE]
      [] w.t = "confirm" -> [old EXCEPT !.confirmed = TRUE]
      [] w.t = "delete"  -> None

Commit(p) ==
    LET w == wr[p]
        f == req[p].flow
        u == req[p].user
    IN  /\ pc[p] = "commit"
        /\ flow' = [x \in Flow |->
                      IF x = w.newF THEN NewFlow
                      ELSE IF x = f /\ w.delF THEN None
                      ELSE IF x = f /\ flow[x] # None THEN Patch(flow[x], w.set)
                      ELSE flow[x]]
        /\ totp' = IF w.t = "keep" THEN totp ELSE [totp EXCEPT ![u] = TotpAfter(@, w)]
        /\ unused' = IF u = None THEN unused
                     ELSE [unused EXCEPT ![u] = (@ \ (w.used \cup w.del)) \cup w.new]
        /\ sess' = IF w.s = None THEN sess ELSE [sess EXCEPT ![w.s] = w.row]
        /\ dropped' = IF "recovery" \in DOMAIN w.set /\ req[p].proof # None
                      THEN dropped \cup {req[p].proof} ELSE dropped
        /\ proved' = IF "stage" \in DOMAIN w.set /\ req[p].good THEN proved \cup {<<f, u>>} ELSE proved
        /\ spent' = [c \in Code |-> IF c \in w.used THEN spent[c] + 1 ELSE spent[c]]
        /\ met' = met \cup ({req[p].proof} \cap Challenge)
        /\ End(p)
        /\ UNCHANGED <<active, admin, expired, dead, issued, changes>>

\* A StaleDataError or an IntegrityError, a crash, a deadlock victim: ROLLBACK.
Abort(p) == pc[p] # "free" /\ Refuse(p)

-----------------------------------------------------------------------------
(* Requests and their flow (idp/flows.py, get_stage_flow).                *)

StageOf(kind) ==
    CASE kind = "login"                                            -> "password"
      [] kind \in {"totp", "enrollForm", "enroll", "recovery"}     -> "totp"
      [] kind \in {"options", "verify"}                            -> "webauthn"

ForUpdate_never(kind) == FALSE
ForUpdate(kind) == kind \in {"totp", "options", "verify"}

\* get_valid_flow
Valid(f) == f # None /\ flow[f] # None /\ f \notin expired

get_stage_flow(p, kind, f, args) ==
    /\ pc[p] = "free" /\ kind \in Serve
    /\ Valid(f) /\ flow[f].stage = StageOf(kind)
    /\ ForUpdate(kind) => FreeFlow(p, f)
    /\ Write(p, IF ForUpdate(kind) THEN [NoWrites EXCEPT !.lockF = {f}] ELSE NoWrites)
    /\ Goto(p, "user", [args EXCEPT !.kind = kind, !.flow = f, !.gone = dropped,
                                    !.user = IF kind = "login" THEN @ ELSE flow[f].user])
    /\ UNCHANGED issued /\ Frame

\* GET /auth/login, with or without the identifier of a flow: a live one past the
\* password stage, pinned to the client's address, is deleted; a new one is
\* created.  (A live password-stage flow is rendered again.)
login_form(p, f) ==
    /\ pc[p] = "free" /\ "form" \in Serve
    /\ \/ /\ Valid(f) /\ flow[f].user # None
          /\ Goto(p, "newFlow", [NoReq EXCEPT !.kind = "form", !.flow = f, !.exist = TRUE])
       \/ /\ Valid(f) => flow[f].user # None
          /\ Goto(p, "newFlow", [NoReq EXCEPT !.kind = "form"])
    /\ Read

create_flow(p) ==
    LET f == req[p].flow
    IN  /\ pc[p] = "newFlow"
        /\ req[p].exist => FreeFlow(p, f)
        /\ \E n \in Flow :
            /\ Draw(n)
            /\ Write(p, [wr[p] EXCEPT !.newF = n, !.delF = req[p].exist,
                                      !.lockF = IF req[p].exist THEN {f} ELSE {}])
        /\ Goto(p, "commit", req[p])
        /\ Frame

\* POST /auth/login with the password of u, right or wrong.
login_submit(p, f, u, good) ==
    get_stage_flow(p, "login", f, [NoReq EXCEPT !.user = u, !.good = good])

\* POST /auth/totp, GET and POST /auth/enroll/totp, POST /auth/recovery.
totp_submit(p, f, x) == get_stage_flow(p, "totp", f, [NoReq EXCEPT !.code = x])
enroll_totp_form(p, f) == get_stage_flow(p, "enrollForm", f, NoReq)
enroll_totp_submit(p, f, x) == get_stage_flow(p, "enroll", f, [NoReq EXCEPT !.code = x])
recovery_submit(p, f, c) == get_stage_flow(p, "recovery", f, [NoReq EXCEPT !.code = c])

\* POST /auth/webauthn/options and /auth/webauthn/verify; good: the assertion is
\* by a passkey of the flow's user, over challenge x.
webauthn_options(p, f) == get_stage_flow(p, "options", f, NoReq)
webauthn_verify(p, f, x, good) ==
    get_stage_flow(p, "verify", f, [NoReq EXCEPT !.code = x, !.good = good])

-----------------------------------------------------------------------------
(* The user, the tier and the session (login_submit, flow_user,            *)
(* resume_completed_login, finalize_login).                                *)

Tier(u) == IF u \in admin THEN "admin" ELSE "standard"

\* verify_password
Accepted_any(r) == TRUE
Accepted(r) == r.good

\* A second factor completed the flow: the submit is a duplicate.
Completed(f) == flow[f] # None /\ flow[f].done # None

\* The user row (flow_user; login_submit verifies the password here) and the
\* throttle, which may refuse anything but a page view and a replay.
flow_user(p) ==
    LET r == [req[p] EXCEPT !.tier = Tier(req[p].user)]
        done == Completed(r.flow)
        Then(label) == Goto(p, label, r) /\ Read
    IN  /\ pc[p] = "user"
        /\ \/ /\ r.user \in active
              /\ \/ r.kind = "login" /\ Accepted(r) /\ Then("advance")
                 \/ r.kind \in {"totp", "verify"} /\ done /\ Then("resume")
                 \/ r.kind = "totp" /\ ~done /\ Then("code")
                 \/ r.kind = "verify" /\ ~done /\ Then("assert")
                 \/ r.kind = "options" /\ Then("challenge")
                 \/ r.kind = "enrollForm" /\ r.tier # "admin" /\ Then("peek")
                 \/ r.kind = "enroll" /\ r.tier # "admin" /\ Then("pending")
                 \/ r.kind = "recovery" /\ Then("redeem")
           \/ Refuse(p)

\* login_submit: the flow gets its user, and the factor of the user's tier.
required_second_factor_done(tier) == IF tier = "admin" THEN "webauthn" ELSE "done"
required_second_factor(tier) == IF tier = "admin" THEN "webauthn" ELSE "totp"
advance(p) ==
    LET f == req[p].flow
    IN  /\ pc[p] = "advance" /\ FreeFlow(p, f) /\ flow[f] # None
        /\ Write(p, [wr[p] EXCEPT
                       !.lockF = {f},
                       !.set = [c \in {"user", "stage"} |->
                                  IF c = "user" THEN req[p].user
                                  ELSE required_second_factor(req[p].tier)]])
        /\ Goto(p, "commit", req[p])
        /\ UNCHANGED issued /\ Frame

\* resume_completed_login: a new cookie for the session the flow completed with,
\* if check_liveness finds it live; an idle session is revoked, one used from
\* another address marked stale.
resume_completed_login(p) ==
    LET s == flow[req[p].flow].done
    IN  /\ pc[p] = "resume"
        /\ \/ UNCHANGED dead
           \/ dead' = dead \cup {s}
        /\ End(p)
        /\ UNCHANGED <<active, admin, flow, expired, totp, unused, sess, issued, changes, hist>>

\* create_session with the user and tier read earlier; finalize_login pins the
\* flow to the session.
Row(r) == [user |-> r.user, tier |-> r.tier, flow |-> r.flow, proof |-> r.proof,
           by |-> r.kind]
Columns(upd, c, v) == [x \in DOMAIN upd \cup {c} |-> IF x = c THEN v ELSE upd[x]]
finalize_login(p) ==
    /\ pc[p] = "create"
    /\ \E s \in Session :
        /\ Draw(s)
        /\ Write(p, [wr[p] EXCEPT !.s = s, !.row = Row(req[p]),
                                  !.set = Columns(wr[p].set, "done", s)])
    /\ Goto(p, "commit", [req[p] EXCEPT !.res = "session"])
    /\ Frame

-----------------------------------------------------------------------------
(* TOTP (totp_submit, enroll_totp_form, enroll_totp_submit).               *)

verify_code(p) ==
    LET t == totp[req[p].user]
    IN  /\ pc[p] = "code"
        /\ IF t # None /\ t.confirmed /\ t.secret = req[p].code
           THEN Goto(p, "create", [req[p] EXCEPT !.proof = t.secret]) /\ Read
           ELSE Refuse(p)

\* enroll_totp_form asks the database up to three times: the ORM's identity map
\* keeps neither a missing row nor one that the caller dropped.  A confirmed row
\* redirects, a pending one is shown again.
peek(p) ==
    LET t == totp[req[p].user]
        next == IF pc[p] = "peek" THEN "peek2" ELSE "store"
    IN  /\ pc[p] \in {"peek", "peek2"}
        /\ IF t # None /\ (pc[p] = "peek2" \/ t.confirmed)
           THEN Refuse(p) ELSE Goto(p, next, req[p]) /\ Read

store_pending_secret(p) ==
    /\ pc[p] = "store"
    /\ Goto(p, "insert", [req[p] EXCEPT !.exist = totp[req[p].user] # None])
    /\ Read

\* DELETE what was found, INSERT the new secret.
insert_secret(p) ==
    LET u == req[p].user
    IN  /\ pc[p] = "insert" /\ FreeTotp(p, u)
        /\ ~req[p].exist => totp[u] = None
        /\ \E x \in Secret :
            /\ Draw(x)
            /\ Write(p, [wr[p] EXCEPT !.lockT = {u}, !.t = "insert", !.secret = x])
        /\ Goto(p, "commit", req[p])
        /\ Frame

check_pending(p) ==
    LET t == totp[req[p].user]
    IN  /\ pc[p] = "pending"
        /\ IF t # None /\ ~t.confirmed /\ t.secret = req[p].code
           THEN Goto(p, "confirm", [req[p] EXCEPT !.proof = t.secret]) /\ Read
           ELSE Refuse(p)

\* UPDATE by primary key: it confirms the row that is there now.
confirm(p) ==
    LET u == req[p].user
    IN  /\ pc[p] = "confirm" /\ FreeTotp(p, u) /\ totp[u] # None
        /\ Write(p, [wr[p] EXCEPT !.lockT = {u}, !.t = "confirm"])
        /\ Goto(p, "batch", req[p])
        /\ UNCHANGED issued /\ Frame

\* The codes issue_batch deletes.
Replaced_none(u) == {}
Replaced(u) == unused[u]

issue_batch(p) ==
    LET u == req[p].user
    IN  /\ pc[p] = "batch" /\ FreeCodes(p, Replaced(u))
        /\ \E B \in Batch :
            /\ B \cap issued = {} /\ issued' = issued \cup B
            /\ Write(p, [wr[p] EXCEPT !.lockC = Replaced(u), !.del = Replaced(u), !.new = B])
        /\ Goto(p, "finish", req[p])
        /\ Frame

\* create_session and delete_flow.
finish_enroll(p) ==
    /\ pc[p] = "finish" /\ FreeFlow(p, req[p].flow)
    /\ \E s \in Session :
        /\ Draw(s)
        /\ Write(p, [wr[p] EXCEPT !.s = s, !.row = Row(req[p]), !.delF = TRUE,
                                  !.lockF = {req[p].flow}])
    /\ Goto(p, "commit", [req[p] EXCEPT !.res = "session"])
    /\ Frame

-----------------------------------------------------------------------------
(* Recovery codes (recovery_submit, recovery.consume).                     *)

\* SELECT ... FOR UPDATE of the unused codes: a row that another transaction
\* used or deleted meanwhile is not returned.
CodesForUpdate_none(u) == {}
CodesForUpdate(u) == unused[u]
consume(p) ==
    LET u == req[p].user
        c == req[p].code
    IN  /\ pc[p] = "redeem" /\ FreeCodes(p, CodesForUpdate(u))
        /\ IF c \in unused[u]
           THEN /\ Write(p, [wr[p] EXCEPT !.lockC = CodesForUpdate(u), !.used = {c}])
                /\ Goto(p, "old", req[p])
                /\ UNCHANGED issued /\ Frame
           ELSE Refuse(p)

find_old(p) ==
    LET t == totp[req[p].user]
    IN  /\ pc[p] = "old"
        /\ Goto(p, "lost", [req[p] EXCEPT !.exist = t # None,
                                          !.proof = IF t = None THEN None ELSE t.secret])
        /\ Read

\* The authenticator is presumed lost: what was found is deleted, the flow marked.
Lost_kept(p) == FALSE
Lost(p) == req[p].exist
drop_secret(p) ==
    LET f == req[p].flow
        u == req[p].user
    IN  /\ pc[p] = "lost" /\ FreeFlow(p, f) /\ flow[f] # None
        /\ Lost(p) => FreeTotp(p, u)
        /\ Write(p, [wr[p] EXCEPT !.lockF = {f}, !.set = [c \in {"recovery"} |-> TRUE],
                                  !.lockT = IF Lost(p) THEN {u} ELSE {},
                                  !.t = IF Lost(p) THEN "delete" ELSE "keep"])
        /\ Goto(p, "commit", req[p])
        /\ UNCHANGED issued /\ Frame

-----------------------------------------------------------------------------
(* Passkeys (webauthn_options, webauthn_verify).                           *)

set_challenge(p) ==
    /\ pc[p] = "challenge"
    /\ \E x \in Challenge :
        /\ Draw(x)
        /\ Write(p, [wr[p] EXCEPT !.set = [c \in {"chal"} |-> x]])
    /\ Goto(p, "commit", req[p])
    /\ Frame

\* The challenge is cleared whatever the assertion is worth.
AfterVerify_kept(x) == x
AfterVerify(x) == None
verify_assertion(p) ==
    LET x == flow[req[p].flow].chal
        label == IF x # None /\ req[p].code = x /\ req[p].good THEN "create" ELSE "commit"
    IN  /\ pc[p] = "assert"
        /\ Write(p, [wr[p] EXCEPT !.set = [c \in {"chal"} |-> AfterVerify(x)]])
        /\ Goto(p, label, [req[p] EXCEPT !.proof = x])
        /\ UNCHANGED issued /\ Frame

-----------------------------------------------------------------------------
(* Administrators, one transaction at a time, and the clock.               *)

Change == changes < MaxChanges /\ changes' = changes + 1 /\ UNCHANGED <<issued, pc, req, wr>>

\* patch_user: promotion needs two strong passkeys.
patch_tier(u) ==
    /\ Change
    /\ IF u \in admin THEN u \notin Protected ELSE u \in Keyed
    /\ admin' = IF u \in admin THEN admin \ {u} ELSE admin \cup {u}
    /\ UNCHANGED <<active, flow, expired, totp, unused, sess, dead, hist>>

Of(u) == {s \in Session : sess[s] # None /\ sess[s].user = u}

\* patch_user: a disabled user's sessions are revoked.
patch_status(u) ==
    /\ Change /\ u \notin Protected
    /\ active' = IF u \in active THEN active \ {u} ELSE active \cup {u}
    /\ dead' = IF u \in active THEN dead \cup Of(u) ELSE dead
    /\ UNCHANGED <<admin, flow, expired, totp, unused, sess, hist>>

reset_totp(u) ==
    /\ Change /\ u \notin admin
    /\ \A q \in Req : /\ totp[u] # None => u \notin wr[q].lockT
                      /\ unused[u] \cap wr[q].lockC = {}
    /\ totp' = [totp EXCEPT ![u] = None]
    /\ unused' = [unused EXCEPT ![u] = {}]
    /\ dead' = dead \cup Of(u)
    /\ dropped' = IF totp[u] = None THEN dropped ELSE dropped \cup {totp[u].secret}
    /\ UNCHANGED <<active, admin, flow, expired, sess, proved, spent, met>>

expire_flow(f) ==
    /\ Change /\ flow[f] # None /\ f \notin expired
    /\ expired' = expired \cup {f}
    /\ UNCHANGED <<active, admin, flow, totp, unused, sess, dead, hist>>

-----------------------------------------------------------------------------
Arrive(p) ==
    \/ \E f \in Flow \cup {None} : login_form(p, f)
    \/ \E f \in Flow, u \in User, good \in BOOLEAN : login_submit(p, f, u, good)
    \/ \E f \in Flow, x \in Secret : totp_submit(p, f, x) \/ enroll_totp_submit(p, f, x)
    \/ \E f \in Flow : enroll_totp_form(p, f) \/ webauthn_options(p, f)
    \/ \E f \in Flow, c \in Code : recovery_submit(p, f, c)
    \/ \E f \in Flow, x \in Challenge, good \in BOOLEAN : webauthn_verify(p, f, x, good)

Step(p) ==
    \/ create_flow(p) \/ flow_user(p)
    \/ advance(p) \/ resume_completed_login(p) \/ finalize_login(p)
    \/ verify_code(p) \/ peek(p) \/ store_pending_secret(p) \/ insert_secret(p)
    \/ check_pending(p) \/ confirm(p) \/ issue_batch(p) \/ finish_enroll(p)
    \/ consume(p) \/ find_old(p) \/ drop_secret(p)
    \/ set_challenge(p) \/ verify_assertion(p) \/ Commit(p) \/ Abort(p)

Environment ==
    \/ \E u \in User : patch_tier(u) \/ patch_status(u) \/ reset_totp(u)
    \/ \E f \in Flow : expire_flow(f)

Next == Environment \/ \E p \in Req : Arrive(p) \/ Step(p)

Spec == Init /\ [][Next]_vars

-----------------------------------------------------------------------------
(* Properties.                                                             *)

Ids == Flow \cup Secret \cup Code \cup Challenge \cup Session \cup {None}
FlowRow == [stage : {"password", "totp", "webauthn"}, user : User \cup {None},
            chal : Challenge \cup {None}, recovery : BOOLEAN, done : Session \cup {None}]
TotpRow == [secret : Secret, confirmed : BOOLEAN]
SessionRow == [user : User, tier : {"standard", "admin"}, flow : Flow,
               proof : Secret \cup Challenge, by : {"totp", "enroll", "verify"}]

\* No row is NULL.
ASSUME RowAssumption == None \notin FlowRow

TypeOK ==
    /\ active \in SUBSET User /\ admin \in SUBSET User
    /\ flow \in [Flow -> FlowRow \cup {None}] /\ expired \in SUBSET Flow
    /\ totp \in [User -> TotpRow \cup {None}]
    /\ unused \in [User -> SUBSET Code]
    /\ sess \in [Session -> SessionRow \cup {None}] /\ dead \in SUBSET Session
    /\ issued \subseteq Ids
    /\ dropped \in SUBSET Secret /\ met \in SUBSET Challenge
    /\ proved \in SUBSET (Flow \X User) /\ spent \in [Code -> Nat]

Rows == {s \in Session : sess[s] # None}

\* A flow that is completed by a code or an assertion creates one session, however
\* many submits race (get_stage_flow's FOR UPDATE; a later submit replays).
OneSessionPerSubmit ==
    \A s, v \in Rows :
        sess[s].flow = sess[v].flow /\ {sess[s].by, sess[v].by} \subseteq {"totp", "verify"}
        => s = v

\* A session is for a user whose password its own flow accepted, even when another
\* submit gives the flow another user in between (login_submit, flow_user).
PasswordFirst == \A s \in Rows : <<sess[s].flow, sess[s].user>> \in proved

\* Once a secret was dropped by a recovery or a reset, no request that begins later
\* completes a login with it (recovery_submit, reset_totp, totp_submit).
LostAuthenticatorDead ==
    \A p \in Req : req[p].res = "session" => req[p].proof \notin req[p].gone

\* A recovery code is redeemed at most once (recovery.consume).
RecoveryCodeOnce == \A c \in Code : spent[c] <= 1

\* "A new batch invalidates all previous unused codes", also when two enrollments
\* confirm at once (recovery.issue_batch behind the lock of the TOTP row).
OneLiveBatch ==
    \A u \in User : unused[u] = {} \/ \E B \in Batch : unused[u] \subseteq B

\* A challenge that a verify has compared, successfully or not, completes no later
\* login (webauthn_verify clears it under the flow's row lock).
ChallengeOnce ==
    \A p \in Req : req[p].kind = "verify" /\ req[p].res = "session" => req[p].proof \notin met

\* webauthn_routes.py: "The assertion is the ONLY way an admin completes login; there
\* is no TOTP fallback for admin-tier users anywhere".
AdminsUsePasskeys == \A s \in Rows : sess[s].tier = "admin" => sess[s].by = "verify"

\* The factor checks of requests that can still open a session with them.
Checked ==
    LET Past(p) == \/ req[p].kind = "totp" /\ pc[p] \in {"create", "commit"}
                   \/ req[p].kind = "enroll" /\ pc[p] \in {"confirm", "batch", "finish", "commit"}
    IN  {[flow |-> req[p].flow, user |-> req[p].user, proof |-> req[p].proof,
          by |-> req[p].kind] : p \in {q \in Req : Past(q)}}

Asked(f) == IF flow[f] = None THEN None ELSE flow[f].chal

SignInTables ==
    INSTANCE SignIn
      WITH accepted <- proved, device <- totp, shown <- Checked, codes <- unused,
           redeemed <- {c \in Code : spent[c] # 0}, asked <- [f \in Flow |-> Asked(f)],
           answered <- met, sessions <- sess

\* However logins, enrollments, recoveries, resets and aborts interleave, they have
\* the effect of requests that each take one step: a session is new and follows both
\* factors, a flow completes once, a new batch replaces all codes, a code is used up
\* with its redemption and a challenge with its first answer, and a request that does
\* not commit leaves nothing (the transactions of idp/web/routes.py and
\* webauthn_routes.py).
ImplementsSignIn == SignInTables!SignInSpec
=============================================================================
