----------------------------- MODULE OidcTokens -----------------------------
(***************************************************************************)
(* The identity provider's credential core: IdP sessions, authorization    *)
(* codes and refresh-token families, and every HTTP handler that reads or  *)
(* writes them (server/src/hyproxy/idp/sessions.py, idp/oidc/*.py, the     *)
(* session revocations of admin/routes/users.py and portal.py).            *)
(*                                                                         *)
(* Each handler runs in one PostgreSQL transaction (db/engine.py) at READ  *)
(* COMMITTED, one SQL statement at a time.  A step below is one statement  *)
(* together with the Python up to the next one, so other requests run      *)
(* between a handler's read and its write.  A table column that only goes  *)
(* from NULL to a value (revoked_at, used_at, consumed_at, ...) is the set *)
(* of the rows where it is set.  wr[p] is what request p has written and   *)
(* not yet committed; an updated row stays locked until p ends.            *)
(*                                                                         *)
(* A definition Op_variant that precedes Op is Op with a plausible slip:   *)
(* PROJECT.json names the property that must catch it.                     *)
(***************************************************************************)
EXTENDS Integers

CONSTANTS
    User,           \* accounts
    Session,        \* identifiers of rows of table sessions
    Code,           \* identifiers of rows of table auth_codes
    Token,          \* identifiers of rows of table refresh_tokens
    Req,            \* request slots: HTTP requests served concurrently
    None,           \* SQL NULL / no argument
    AbsTTL,         \* settings.refresh_abs_ttl
    IdleTTL,        \* settings.idle_ttl
    TouchInterval,  \* settings.session_touch_interval
    CodeTTL,        \* settings.auth_code_ttl
    AccessTTL,      \* settings.access_ttl
    MaxTime,        \* bound on the clock
    MayCrash,       \* whether requests may be cut off
    Serve           \* the kinds of request an instance receives

ASSUME NoneAssumption == None \notin User \cup Session \cup Code \cup Token

ASSUME TimeAssumption ==
    /\ AbsTTL \in Nat /\ IdleTTL \in Nat /\ TouchInterval \in Nat
    /\ CodeTTL \in Nat /\ AccessTTL \in Nat /\ MaxTime \in Nat
    /\ MayCrash \in BOOLEAN

VARIABLES
    now,       \* wall clock
    active,    \* users with status "active"
    sRow,      \* committed sessions
    sRevoked,  \* sessions with revoked_at set
    sStale,    \* sessions with stale = TRUE
    sUser,     \* sessions.user_id
    sAbs,      \* sessions.absolute_expires_at
    sSeen,     \* sessions.last_seen_at
    cRow,      \* committed authorization codes
    cConsumed, \* codes with consumed_at set
    cInfo,     \* session_id and expires_at of each code
    tRow,      \* committed refresh tokens
    tUsed,     \* refresh tokens with used_at set
    tRevoked,  \* refresh tokens with revoked_at set
    tInfo,     \* session_id, family_id, parent_id, expires_at of each token
    access,    \* latest expiry of an access token (JWT) sent out, per session
    pc,        \* the next statement of each request
    req,       \* arguments and local variables of each request
    wr,        \* uncommitted writes of each request
    dead,      \* history: families whose reuse or revocation was committed
    born       \* history: committed state each request found when it began

dbVars == <<active, sRow, sRevoked, sStale, sUser, sAbs, sSeen, cRow, cConsumed,
            cInfo, tRow, tUsed, tRevoked, tInfo>>
vars == <<now, dbVars, access, pc, req, wr, dead, born>>
sessVars == <<sRow, sRevoked, sStale, sUser, sAbs, sSeen>>
codeVars == <<cRow, cConsumed, cInfo>>
tokVars == <<tRow, tUsed, tRevoked, tInfo>>

-----------------------------------------------------------------------------
(* Transactions.                                                           *)

NoWrites == [newS |-> {}, newC |-> {}, newT |-> {}, cons |-> {}, used |-> {},
             revT |-> {}, revS |-> {}, stale |-> {}, seen |-> {},
             off |-> {}, on |-> {}]

NoReq == [kind |-> "none", at |-> 0, user |-> None, sess |-> None,
          code |-> None, tok |-> None, keep |-> None, match |-> TRUE,
          key |-> TRUE, ip |-> TRUE, todoS |-> {}, todoT |-> {},
          res |-> "none"]

NoCode == [sess |-> None, exp |-> 0]
NoToken == [sess |-> None, fam |-> None, parent |-> None, code |-> None, exp |-> 0]

NoBirth == [gone |-> {}, used |-> {}, dead |-> {}, rows |-> {}]

\* The rows request p has updated and not yet committed.
SessLocks(p) == wr[p].revS \cup wr[p].stale \cup wr[p].seen
TokLocks(p)  == wr[p].used \cup wr[p].revT
UserLocks(p) == wr[p].off \cup wr[p].on

\* The rows the next statement of request p updates.
WantedSess(p) ==
    IF pc[p] \in {"touch", "idle", "stale"}
       \/ (pc[p] = "revS" /\ req[p].sess \notin sRevoked)
    THEN {req[p].sess} ELSE {}
WantedTok(p) ==
    CASE pc[p] = "rotate" -> {req[p].tok}
      [] pc[p] = "revT"   -> req[p].todoT
      [] OTHER            -> {}
WantedCode(p) == IF pc[p] = "consume" THEN {req[p].code} ELSE {}
WantedUser(p) == IF pc[p] = "status" THEN {req[p].user} ELSE {}

\* p's next statement waits for a row lock that q holds.
WaitsFor(p, q) ==
    /\ p # q
    /\ \/ WantedSess(p) \cap SessLocks(q) # {}
       \/ WantedTok(p) \cap TokLocks(q) # {}
       \/ WantedCode(p) \cap wr[q].cons # {}
       \/ WantedUser(p) \cap UserLocks(q) # {}
Waits(p) == \E q \in Req : WaitsFor(p, q)

\* A set of requests each of which waits for another one of the set.
InDeadlock(p) ==
    \E S \in SUBSET Req : p \in S /\ \A x \in S : \E y \in S : WaitsFor(x, y)

FreshSession(s) == s \notin sRow /\ \A q \in Req : s \notin wr[q].newS
FreshCode(c)    == c \notin cRow /\ \A q \in Req : c \notin wr[q].newC
FreshToken(t)   == t \notin tRow /\ \A q \in Req : t \notin wr[q].newT

Init ==
    /\ now = 0
    /\ active = User
    /\ sRow = {} /\ sRevoked = {} /\ sStale = {}
    /\ sUser = [s \in Session |-> None]
    /\ sAbs = [s \in Session |-> 0]
    /\ sSeen = [s \in Session |-> 0]
    /\ cRow = {} /\ cConsumed = {}
    /\ cInfo = [c \in Code |-> NoCode]
    /\ tRow = {} /\ tUsed = {} /\ tRevoked = {}
    /\ tInfo = [t \in Token |-> NoToken]
    /\ access = [s \in Session |-> 0]
    /\ pc = [p \in Req |-> "free"]
    /\ req = [p \in Req |-> NoReq]
    /\ wr = [p \in Req |-> NoWrites]
    /\ dead = {}
    /\ born = [p \in Req |-> NoBirth]

\* A request arrives: a transaction is opened and the handler takes `now'.
Begin(p, kind, label, args) ==
    /\ pc[p] = "free" /\ kind \in Serve
    /\ pc' = [pc EXCEPT ![p] = label]
    /\ req' = [req EXCEPT ![p] = [args EXCEPT !.kind = kind, !.at = now]]
    /\ born' = [born EXCEPT ![p] = [gone |-> sRevoked \cup sStale, used |-> tUsed,
                                    dead |-> dead, rows |-> sRow]]
    /\ UNCHANGED <<now, dbVars, access, wr, dead>>

\* Close p's transaction, keeping or dropping its writes, and free its slot.
End(p) ==
    /\ pc' = [pc EXCEPT ![p] = "free"]
    /\ req' = [req EXCEPT ![p] = NoReq]
    /\ wr' = [wr EXCEPT ![p] = NoWrites]
    /\ born' = [born EXCEPT ![p] = NoBirth]

\* The handler returned a response: db.commit() (session.begin() exits).
Commit(p) ==
    /\ pc[p] = "commit"
    /\ active' = (active \ wr[p].off) \cup wr[p].on
    /\ sRow' = sRow \cup wr[p].newS
    /\ sRevoked' = sRevoked \cup wr[p].revS
    /\ sStale' = sStale \cup wr[p].stale
    /\ sSeen' = [s \in Session |-> IF s \in wr[p].seen THEN req[p].at ELSE sSeen[s]]
    /\ cRow' = cRow \cup wr[p].newC
    /\ cConsumed' = cConsumed \cup wr[p].cons
    /\ tRow' = tRow \cup wr[p].newT
    /\ tUsed' = tUsed \cup wr[p].used
    /\ tRevoked' = tRevoked \cup wr[p].revT
    /\ dead' = IF req[p].res = "killed" /\ req[p].tok # None
               THEN dead \cup {tInfo[req[p].tok].fam} ELSE dead
    /\ End(p)
    /\ UNCHANGED <<now, sUser, sAbs, cInfo, tInfo, access>>

\* The database forgets p's writes: updates are not applied and the rows it
\* inserted never existed.
Undo(p) ==
    /\ sUser' = [s \in Session |-> IF s \in wr[p].newS THEN None ELSE sUser[s]]
    /\ sAbs' = [s \in Session |-> IF s \in wr[p].newS THEN 0 ELSE sAbs[s]]
    /\ sSeen' = [s \in Session |-> IF s \in wr[p].newS THEN 0 ELSE sSeen[s]]
    /\ cInfo' = [c \in Code |-> IF c \in wr[p].newC THEN NoCode ELSE cInfo[c]]
    /\ tInfo' = [t \in Token |-> IF t \in wr[p].newT THEN NoToken ELSE tInfo[t]]
    /\ End(p)
    /\ UNCHANGED <<now, active, sRow, sRevoked, sStale, cRow, cConsumed,
                   tRow, tUsed, tRevoked, access, dead>>

\* The handler raised an HTTPException: db.rollback().
Rollback(p) == pc[p] = "rollback" /\ Undo(p)

\* No free identifier is left for a request that must insert a row: a bound of
\* the model, not of the code.
Exhausted(p) ==
    \/ pc[p] = "create" /\ \A s \in Session : ~FreshSession(s)
    \/ pc[p] = "issue" /\ req[p].kind = "authorize" /\ \A c \in Code : ~FreshCode(c)
    \/ /\ pc[p] = "rotate" \/ (pc[p] = "issue" /\ req[p].kind = "code")
       /\ \A t \in Token : ~FreshToken(t)

\* A crash, a lost database connection or a failed commit ends the request.
Crash(p) == MayCrash /\ pc[p] # "free" /\ Undo(p)

\* Bound: a request for which no identifier is left is dropped.
OutOfIds(p) == Exhausted(p) /\ Undo(p)

\* PostgreSQL's deadlock detector cancels a transaction of a wait cycle.
DeadlockVictim(p) == InDeadlock(p) /\ Undo(p)

\* Time passes.
Tick ==
    /\ now < MaxTime
    /\ now' = now + 1
    /\ UNCHANGED <<dbVars, access, pc, req, wr, dead, born>>

\* Control moves to `label'; the request's locals become `r'.
Goto(p, label, r) ==
    /\ pc' = [pc EXCEPT ![p] = label]
    /\ req' = [req EXCEPT ![p] = r]
Write(p, w) == wr' = [wr EXCEPT ![p] = w]
Frame == UNCHANGED <<now, access, dead, born>>
Local == UNCHANGED <<dbVars, wr>> /\ Frame

\* The response of a refused request.  The OIDC endpoints return it and the
\* transaction commits; admin/deps.py raises and the transaction rolls back.
Refuse(r) == IF r.kind = "api" THEN "rollback" ELSE "commit"
Refused(p) == Goto(p, Refuse(req[p]), [req[p] EXCEPT !.res = "refused"])

-----------------------------------------------------------------------------
(* Requests.  The guards on the arguments describe what a caller can hold; *)
(* a code or refresh token may be any identifier, known or not.            *)

\* Last step of a login: a session is created for an active user.
Login(p, u) ==
    u \in active /\ Begin(p, "login", "create", [NoReq EXCEPT !.user = u])

\* GET /oidc/authorize and GET /oidc/logout with the cookie of session s.
authorize(p, s) == Begin(p, "authorize", "session", [NoReq EXCEPT !.sess = s])
logout(p, s) == Begin(p, "logout", "session", [NoReq EXCEPT !.sess = s])

\* POST /oidc/token, authorization_code grant.  match: client_id, redirect_uri
\* and the PKCE verifier are the ones the code was issued for.
TokenByCode(p, c, match) ==
    Begin(p, "code", "consume", [NoReq EXCEPT !.code = c, !.match = match])

\* POST /oidc/token, refresh_token grant.  match: same client_id; key: the
\* DPoP proof is by the key the token is bound to.
TokenByRefresh(p, t, match, key) ==
    Begin(p, "refresh", "find", [NoReq EXCEPT !.tok = t, !.match = match, !.key = key])

\* POST /oidc/revoke.
revoke_endpoint(p, t, key) ==
    Begin(p, "revoke", "find", [NoReq EXCEPT !.tok = t, !.key = key])

\* GET /oidc/userinfo ("userinfo") or an admin/portal API call ("api") with an
\* unexpired access token of session s; ip: from the session's source address.
Resource(p, s, kind, ip) ==
    /\ now < access[s]
    /\ Begin(p, kind, "session", [NoReq EXCEPT !.sess = s, !.ip = ip])

\* POST users/{u}/sessions/revoke, reset-password, reset-totp (keep = None)
\* and POST me/password (keep = the caller's session).
RevokeAll(p, u, keep) ==
    Begin(p, "revokeAll", "select", [NoReq EXCEPT !.user = u, !.keep = keep])

\* PATCH users/{u}: status := "active" (match) or "disabled".
PatchStatus(p, u, enable) ==
    Begin(p, "patch", "patch", [NoReq EXCEPT !.user = u, !.match = enable])

-----------------------------------------------------------------------------
(* Sessions (idp/sessions.py).                                             *)

\* sessions.absolute_expires_at of a session created at `at'.
AbsoluteExpiry_past(at) == at - AbsTTL
AbsoluteExpiry(at) == at + AbsTTL

create_session(p) ==
    /\ pc[p] = "create"
    /\ \E s \in Session :
        /\ FreshSession(s)
        /\ Write(p, [wr[p] EXCEPT !.newS = {s}])
        /\ sUser' = [sUser EXCEPT ![s] = req[p].user]
        /\ sAbs' = [sAbs EXCEPT ![s] = AbsoluteExpiry(req[p].at)]
        /\ sSeen' = [sSeen EXCEPT ![s] = req[p].at]
        /\ Goto(p, "commit", [req[p] EXCEPT !.sess = s, !.res = "session"])
    /\ UNCHANGED <<active, sRow, sRevoked, sStale, codeVars, tokVars>> /\ Frame

\* Where a handler goes on when its session is live.
AfterLive(r) ==
    CASE r.kind = "authorize" -> "issue"
      [] r.kind = "logout"    -> "revS"
      [] OTHER                -> "user"

SessionDead_unrevoked(s, at) == s \notin sRow \/ s \in sStale \/ at >= sAbs[s]
SessionDead_unbounded(s, at) == s \notin sRow \/ s \in sRevoked \cup sStale
SessionDead(s, at) == s \notin sRow \/ s \in sRevoked \cup sStale \/ at >= sAbs[s]
SessionIdle(s, at) == at - sSeen[s] > IdleTTL

\* Only check_request binds the session to its source address.
WrongAddress(r) == r.kind \in {"userinfo", "api"} /\ ~r.ip

\* The SELECT of the session row and the tests of check_liveness.
check_liveness(p) ==
    LET s == req[p].sess
        at == req[p].at
    IN  /\ pc[p] = "session"
        /\ \/ SessionDead(s, at) /\ Refused(p)
           \/ /\ ~SessionDead(s, at) /\ SessionIdle(s, at)
              /\ Goto(p, "idle", req[p])
           \/ /\ ~SessionDead(s, at) /\ ~SessionIdle(s, at) /\ WrongAddress(req[p])
              /\ Goto(p, "stale", req[p])
           \/ /\ ~SessionDead(s, at) /\ ~SessionIdle(s, at) /\ ~WrongAddress(req[p])
              /\ Goto(p, IF at - sSeen[s] >= TouchInterval THEN "touch"
                         ELSE AfterLive(req[p]), req[p])
        /\ Local

\* check_liveness's UPDATE on an idle trip: sessions.revoke, then refuse.
idle_timeout(p) ==
    /\ pc[p] = "idle" /\ ~Waits(p)
    /\ Write(p, [wr[p] EXCEPT !.revS = @ \cup {req[p].sess}])
    /\ Refused(p)
    /\ UNCHANGED dbVars /\ Frame

\* check_liveness's UPDATE on a source-address change, then refuse.
mark_stale(p) ==
    /\ pc[p] = "stale" /\ ~Waits(p)
    /\ Write(p, [wr[p] EXCEPT !.stale = @ \cup {req[p].sess}])
    /\ Refused(p)
    /\ UNCHANGED dbVars /\ Frame

touch_reread(p) ==
    /\ pc[p] = "touch" /\ ~Waits(p)
    /\ Write(p, [wr[p] EXCEPT !.seen = @ \cup {req[p].sess}])
    /\ Goto(p, "session", req[p])
    /\ UNCHANGED dbVars /\ Frame
touch(p) ==
    /\ pc[p] = "touch" /\ ~Waits(p)
    /\ Write(p, [wr[p] EXCEPT !.seen = @ \cup {req[p].sess}])
    /\ Goto(p, AfterLive(req[p]), req[p])
    /\ UNCHANGED dbVars /\ Frame

\* sessions.revoke: no write when the row is already revoked.  The loop of
\* _revoke_user_sessions goes on with its next session.
revoke(p) ==
    LET s == req[p].sess
    IN  /\ pc[p] = "revS" /\ ~Waits(p)
        /\ Write(p, IF s \in sRow \ sRevoked
                    THEN [wr[p] EXCEPT !.revS = @ \cup {s}] ELSE wr[p])
        /\ IF req[p].kind \in {"revokeAll", "patch"}
           THEN Goto(p, "next", req[p])
           ELSE Goto(p, "commit", [req[p] EXCEPT !.res = "killed"])
        /\ UNCHANGED dbVars /\ Frame

\* The handlers' read of the user row after a live session.
check_user(p) ==
    /\ pc[p] = "user"
    /\ \/ sUser[req[p].sess] \notin active /\ Refused(p)
       \/ /\ sUser[req[p].sess] \in active
          /\ \/ req[p].kind = "code" /\ Goto(p, "issue", req[p])
             \/ req[p].kind = "refresh" /\ Goto(p, "rotate", req[p])
             \/ /\ req[p].kind \in {"userinfo", "api"}
                /\ Goto(p, "commit", [req[p] EXCEPT !.res = "served"])
    /\ Local

-----------------------------------------------------------------------------
(* Authorization codes (idp/oidc/codes.py).                                *)

issue_code(p) ==
    /\ pc[p] = "issue" /\ req[p].kind = "authorize"
    /\ \E c \in Code :
        /\ FreshCode(c)
        /\ Write(p, [wr[p] EXCEPT !.newC = {c}])
        /\ cInfo' = [cInfo EXCEPT ![c] = [sess |-> req[p].sess,
                                          exp  |-> req[p].at + CodeTTL]]
        /\ Goto(p, "commit", [req[p] EXCEPT !.code = c, !.res = "code"])
    /\ UNCHANGED <<active, sessVars, cRow, cConsumed, tokVars>> /\ Frame

\* The condition of the UPDATE: an unconsumed, unexpired code.
Unconsumed_any(c, at) == c \in cRow /\ cInfo[c].exp > at
Unconsumed(c, at) == c \in cRow \ cConsumed /\ cInfo[c].exp > at

\* One conditional UPDATE.  The client, redirect_uri and PKCE tests come after
\* it, on the consumed code.
consume_code(p) ==
    LET c == req[p].code
        hit == Unconsumed(c, req[p].at)
    IN  /\ pc[p] = "consume" /\ ~Waits(p)
        /\ Write(p, IF hit THEN [wr[p] EXCEPT !.cons = {c}] ELSE wr[p])
        /\ \/ ~hit /\ Goto(p, "replay", req[p])
           \/ hit /\ ~req[p].match /\ Refused(p)
           \/ /\ hit /\ req[p].match
              /\ Goto(p, "session", [req[p] EXCEPT !.sess = cInfo[c].sess])
        /\ UNCHANGED dbVars /\ Frame

\* A code that was already consumed is a replay: revoke its session.
find_consumed(p) ==
    LET c == req[p].code
    IN  /\ pc[p] = "replay"
        /\ IF c \in cRow \cap cConsumed
           THEN Goto(p, "bysess", [req[p] EXCEPT !.sess = cInfo[c].sess])
           ELSE Refused(p)
        /\ Local

-----------------------------------------------------------------------------
(* Refresh-token families (idp/oidc/refresh.py).  A family is named after  *)
(* its first token.                                                        *)

InsertToken(p, t, info) ==
    /\ FreshToken(t)
    /\ tInfo' = [tInfo EXCEPT ![t] = info]
    /\ UNCHANGED <<active, sessVars, codeVars, tRow, tUsed, tRevoked>> /\ Frame

issue_family(p) ==
    /\ pc[p] = "issue" /\ req[p].kind = "code"
    /\ \E t \in Token :
        /\ InsertToken(p, t, [sess |-> req[p].sess, fam |-> t, parent |-> None,
                              code |-> req[p].code, exp |-> sAbs[req[p].sess]])
        /\ Write(p, [wr[p] EXCEPT !.newT = {t}])
    /\ Goto(p, "respond", [req[p] EXCEPT !.res = "tokens"])

\* row.used_at is not None.
IsUsed_never(t) == FALSE
IsUsed(t) == t \in tUsed

\* refresh.find and the tests of _refresh_grant / revoke_endpoint on the row.
find(p) ==
    LET t == req[p].tok
        r == req[p]
        found == t \in tRow /\ r.match
    IN  /\ pc[p] = "find"
        /\ \/ /\ r.kind = "refresh" /\ found /\ IsUsed(t)
              /\ Goto(p, "family", [r EXCEPT !.sess = tInfo[t].sess])
           \/ /\ r.kind = "refresh" /\ found /\ ~IsUsed(t) /\ t \notin tRevoked
              /\ tInfo[t].exp > r.at /\ r.key
              /\ Goto(p, "session", [r EXCEPT !.sess = tInfo[t].sess])
           \/ /\ r.kind = "revoke" /\ t \in tRow /\ r.key
              /\ Goto(p, "family", [r EXCEPT !.sess = tInfo[t].sess])
           \/ /\ r.kind = "refresh"
              /\ \/ ~found
                 \/ ~IsUsed(t) /\ (t \in tRevoked \/ tInfo[t].exp <= r.at \/ ~r.key)
              /\ Refused(p)
           \/ r.kind = "revoke" /\ ~(t \in tRow /\ r.key) /\ Refused(p)
        /\ Local

\* The row rotate inserts: the parent's session, family and expiry.
Child_newFamily(t, child) == [tInfo[t] EXCEPT !.parent = t, !.fam = child]
Child(t, child) == [tInfo[t] EXCEPT !.parent = t]

\* Mark the presented token used and insert its child.  The UPDATE is by
\* primary key: it does not test used_at again.
rotate(p) ==
    LET t == req[p].tok
    IN  /\ pc[p] = "rotate" /\ ~Waits(p)
        /\ \E child \in Token :
            /\ InsertToken(p, child, Child(t, child))
            /\ Write(p, [wr[p] EXCEPT !.used = {t}, !.newT = {child}])
        /\ Goto(p, "respond", [req[p] EXCEPT !.res = "tokens"])

\* The access token leaves with the response, before the commit.
Respond(p) ==
    /\ pc[p] = "respond"
    /\ access' = [access EXCEPT ![req[p].sess] =
                     IF @ < req[p].at + AccessTTL THEN req[p].at + AccessTTL ELSE @]
    /\ Goto(p, "commit", req[p])
    /\ UNCHANGED <<now, dbVars, wr, dead, born>>

\* The UPDATE statements of revoke_family and revoke_for_session see the rows
\* committed when they start ...
revoke_family(p) ==
    /\ pc[p] = "family"
    /\ Goto(p, "revT", [req[p] EXCEPT !.todoT =
            {t \in tRow \ tRevoked : tInfo[t].fam = tInfo[req[p].tok].fam}])
    /\ Local

revoke_for_session(p) ==
    /\ pc[p] = "bysess"
    /\ Goto(p, "revT", [req[p] EXCEPT !.todoT =
            {t \in tRow \ tRevoked : tInfo[t].sess = req[p].sess}])
    /\ Local

\* ... and write them once no other transaction has them locked.
UpdateRevoked_tokensOnly(p) ==
    /\ pc[p] = "revT" /\ ~Waits(p)
    /\ Write(p, [wr[p] EXCEPT !.revT = @ \cup req[p].todoT])
    /\ Goto(p, "commit", [req[p] EXCEPT !.todoT = {}, !.res = "killed"])
    /\ UNCHANGED dbVars /\ Frame
UpdateRevoked(p) ==
    /\ pc[p] = "revT" /\ ~Waits(p)
    /\ Write(p, [wr[p] EXCEPT !.revT = @ \cup req[p].todoT])
    /\ Goto(p, "revS", [req[p] EXCEPT !.todoT = {}])
    /\ UNCHANGED dbVars /\ Frame

-----------------------------------------------------------------------------
(* Revocation of a user's sessions (admin/routes/users.py).                *)

\* patch_user reads the row; an unchanged status is not written.
patch_user(p) ==
    LET same == (req[p].user \in active) = req[p].match
    IN  /\ pc[p] = "patch"
        /\ Goto(p, IF same THEN "commit" ELSE "status", req[p])
        /\ Local

set_status(p) ==
    LET u == req[p].user
    IN  /\ pc[p] = "status" /\ ~Waits(p)
        /\ Write(p, IF req[p].match THEN [wr[p] EXCEPT !.on = {u}]
                                    ELSE [wr[p] EXCEPT !.off = {u}])
        /\ Goto(p, IF req[p].match THEN "commit" ELSE "select", req[p])
        /\ UNCHANGED dbVars /\ Frame

\* The rows _revoke_user_sessions selects.
ToRevoke_onlyKept(u, keep) == {s \in sRow \ sRevoked : sUser[s] = u /\ s = keep}
ToRevoke(u, keep) == {s \in sRow \ sRevoked : sUser[s] = u /\ s # keep}

\* _revoke_user_sessions: the SELECT ...
select_sessions(p) ==
    /\ pc[p] = "select"
    /\ Goto(p, "next", [req[p] EXCEPT !.todoS = ToRevoke(req[p].user, req[p].keep)])
    /\ Local

\* ... and its loop over the rows.
next_session(p) ==
    /\ pc[p] = "next"
    /\ \/ \E s \in req[p].todoS :
            Goto(p, "bysess", [req[p] EXCEPT !.sess = s, !.todoS = @ \ {s}])
       \/ req[p].todoS = {} /\ Goto(p, "commit", [req[p] EXCEPT !.res = "revokedAll"])
    /\ Local

-----------------------------------------------------------------------------
Arrive(p) ==
    \/ \E u \in User : Login(p, u)
    \/ \E s \in Session : authorize(p, s) \/ logout(p, s)
    \/ \E c \in Code, match \in BOOLEAN : TokenByCode(p, c, match)
    \/ \E t \in Token, match, key \in BOOLEAN : TokenByRefresh(p, t, match, key)
    \/ \E t \in Token, key \in BOOLEAN : revoke_endpoint(p, t, key)
    \/ \E s \in Session, k \in {"userinfo", "api"}, ip \in BOOLEAN : Resource(p, s, k, ip)
    \/ \E u \in User, keep \in Session \cup {None} : RevokeAll(p, u, keep)
    \/ \E u \in User, enable \in BOOLEAN : PatchStatus(p, u, enable)

Step(p) ==
    \/ create_session(p) \/ check_liveness(p) \/ idle_timeout(p) \/ mark_stale(p)
    \/ touch(p) \/ revoke(p) \/ check_user(p)
    \/ issue_code(p) \/ consume_code(p) \/ find_consumed(p)
    \/ issue_family(p) \/ find(p) \/ rotate(p) \/ Respond(p)
    \/ revoke_family(p) \/ revoke_for_session(p) \/ UpdateRevoked(p)
    \/ patch_user(p) \/ set_status(p) \/ select_sessions(p) \/ next_session(p)
    \/ Commit(p) \/ Rollback(p) \/ DeadlockVictim(p) \/ OutOfIds(p)

Next == Tick \/ \E p \in Req : Arrive(p) \/ Step(p) \/ Crash(p)

Spec == Init /\ [][Next]_vars

\* An opened request is served: its statements run (or the deadlock detector
\* ends it).  Arrivals, crashes and the clock are under no obligation.
FairSpec == Spec /\ \A p \in Req : SF_vars(Step(p))

-----------------------------------------------------------------------------
(* Properties.                                                             *)

Labels == {"free", "create", "session", "idle", "stale", "touch", "revS", "user",
           "issue", "consume", "replay", "find", "rotate", "respond", "family",
           "bysess", "revT", "patch", "status", "select", "next", "commit",
           "rollback"}
Kinds == {"none", "login", "authorize", "logout", "code", "refresh", "revoke",
          "userinfo", "api", "revokeAll", "patch"}
Results == {"none", "session", "refused", "killed", "served", "code", "tokens",
            "revokedAll"}

Request == [kind : Kinds, at : Nat, user : User \cup {None},
            sess : Session \cup {None}, code : Code \cup {None},
            tok : Token \cup {None}, keep : Session \cup {None},
            match : BOOLEAN, key : BOOLEAN, ip : BOOLEAN,
            todoS : SUBSET Session, todoT : SUBSET Token, res : Results]
Writes == [newS : SUBSET Session, newC : SUBSET Code, newT : SUBSET Token,
           cons : SUBSET Code, used : SUBSET Token, revT : SUBSET Token,
           revS : SUBSET Session, stale : SUBSET Session, seen : SUBSET Session,
           off : SUBSET User, on : SUBSET User]
Birth == [gone : SUBSET Session, used : SUBSET Token, dead : SUBSET Token,
          rows : SUBSET Session]
TokenInfo == [sess : Session \cup {None}, fam : Token \cup {None},
              parent : Token \cup {None}, code : Code \cup {None}, exp : Nat]

TypeOK ==
    /\ now \in Nat
    /\ active \in SUBSET User
    /\ sRow \in SUBSET Session /\ sRevoked \in SUBSET Session /\ sStale \in SUBSET Session
    /\ sUser \in [Session -> User \cup {None}]
    /\ sAbs \in [Session -> Nat] /\ sSeen \in [Session -> Nat]
    /\ cRow \in SUBSET Code /\ cConsumed \in SUBSET Code
    /\ cInfo \in [Code -> [sess : Session \cup {None}, exp : Nat]]
    /\ tRow \in SUBSET Token /\ tUsed \in SUBSET Token /\ tRevoked \in SUBSET Token
    /\ tInfo \in [Token -> TokenInfo]
    /\ access \in [Session -> Nat]
    /\ pc \in [Req -> Labels]
    /\ req \in [Req -> Request]
    /\ wr \in [Req -> Writes]
    /\ dead \in SUBSET Token
    /\ born \in [Req -> Birth]

\* A token row, committed or still private to the request inserting it.
Exists(t) == t \in tRow \/ \E p \in Req : t \in wr[p].newT

\* An authorization code yields at most one refresh-token family, whatever
\* requests present it at the same time (codes.consume_code is one conditional
\* UPDATE; token.py issues a family only after it matched).
OneFamilyPerCode ==
    \A t, v \in Token :
        /\ Exists(t) /\ tInfo[t].parent = None
        /\ Exists(v) /\ tInfo[v].parent = None
        /\ tInfo[t].code = tInfo[v].code
        => t = v

\* What a handler hands out: tokens, a code, or access to a resource.
Grants == {"tokens", "code", "served"}

\* A request that begins after a session was revoked or marked stale gets
\* nothing from it, through any endpoint and with any code, refresh token,
\* cookie or unexpired access token of the session (sessions.check_liveness).
NoGrantAfterRevocation ==
    \A p \in Req : req[p].res \in Grants => req[p].sess \notin born[p].gone

\* Nothing is handed out at or after the session's absolute bound, however often
\* it was touched and its tokens rotated (sessions.check_liveness).
NoGrantPastAbsoluteExpiry ==
    \A p \in Req : req[p].res \in Grants => req[p].at < sAbs[req[p].sess]

\* A refresh token whose use was committed before a request began is never
\* rotated by that request (token.py, used_at test of _refresh_grant).
NoRotationOfUsedToken ==
    \A p \in Req :
        req[p].kind = "refresh" /\ req[p].res = "tokens" => req[p].tok \notin born[p].used

\* Once a reuse or a client's revocation is committed, no token of the family is
\* ever redeemed by a later request: not even a child a concurrent rotation
\* inserted too late for revoke_family to see (token.py revokes the session too).
NoGrantInDeadFamily ==
    \A p \in Req :
        req[p].kind = "refresh" /\ req[p].res = "tokens"
        => tInfo[req[p].tok].fam \notin born[p].dead

\* A committed child's parent is marked used, and a family never leaves the
\* session it was issued for nor outlives that session's absolute bound
\* (refresh.issue_family and refresh.rotate).
FamilyCoherent ==
    \A t \in tRow :
        /\ tInfo[t].exp = sAbs[tInfo[t].sess]
        /\ tInfo[t].parent # None =>
              /\ tInfo[t].parent \in tRow \cap tUsed
              /\ tInfo[t].sess = tInfo[tInfo[t].parent].sess
              /\ tInfo[t].fam = tInfo[tInfo[t].parent].fam

\* When a revoke-all commits, every session of the user that was committed when
\* it began is revoked, but the one a password change keeps
\* (users._revoke_user_sessions).
RevokeAllComplete ==
    \A p \in Req :
        req[p].res = "revokedAll" =>
            \A s \in born[p].rows :
                sUser[s] = req[p].user /\ s # req[p].keep => s \in sRevoked \cup wr[p].revS

\* Every request ends: row locks taken in opposite orders by a refresh (session,
\* then token) and by a reuse or a revocation (token, then session) never leave
\* two requests waiting for each other for ever.
EveryRequestEnds ==
    \A p \in Req : pc[p] # "free" ~> pc[p] = "free"

\* refresh.py: "Every refresh token is single-use; using one mints a child in the
\* same family": no token has two committed children.
RefreshTokenSingleUse ==
    \A t, v \in tRow : tInfo[t].parent # None /\ tInfo[t].parent = tInfo[v].parent => t = v

\* sessions.check_liveness: "source-IP binding (marks stale on change, forcing full
\* re-auth)": a request that found a changed address leaves the session stale.
AddressChangeMarksStale ==
    [][\A p \in Req :
         pc[p] # "free" /\ pc'[p] = "free" /\ req[p].sess \in wr[p].stale
         => req[p].sess \in sStale']_vars

-----------------------------------------------------------------------------
(* The inductive invariant behind the safety properties.                   *)

\* The labels at which a request has fixed the session it works on.
SessLabels == {"session", "idle", "stale", "touch", "user", "issue", "rotate",
               "respond", "family", "bysess", "revT", "revS"}

\* The arguments a request has at the statements that use them: l is the
\* request's next statement, r its arguments and locals.
ArgsFor(l, r) ==
    /\ l \in SessLabels \/ r.res \in Grants => r.sess \in Session
    /\ l \in {"find", "family"} => r.kind \in {"refresh", "revoke"}
    /\ l = "rotate" => r.kind = "refresh"
    /\ l \in {"patch", "status", "select", "next"} => r.kind \in {"revokeAll", "patch"}
    /\ r.kind \in {"refresh", "revoke"} => r.tok \in Token
    /\ r.kind \notin {"refresh", "revoke"} => r.tok = None
    /\ l \in {"consume", "replay"} => r.code \in Code /\ r.kind = "code"
    /\ l \in {"create", "patch", "status"} => r.user \in User
    /\ l \notin {"respond", "commit", "rollback"} => r.res = "none"
    /\ l = "free" => r.kind = "none"
ArgsOK == \A p \in Req : ArgsFor(pc[p], req[p])

\* A refresh or revoke request past its lookup works on a committed token and
\* on that token's session.
FoundFor(l, r) ==
    r.kind \in {"refresh", "revoke"} /\ (l \in SessLabels \/ r.res \in {"tokens", "killed"})
    => r.tok \in tRow /\ r.sess = tInfo[r.tok].sess
FoundOK == \A p \in Req : FoundFor(pc[p], req[p])

\* Rows, committed or not, refer to sessions and families that exist.
RowsOK ==
    /\ \A c \in Code : c \in cRow \/ (\E p \in Req : c \in wr[p].newC) => cInfo[c].sess \in Session
    /\ \A t \in Token : Exists(t) => tInfo[t].sess \in Session /\ tInfo[t].fam \in Token

\* An inserted row is private to the request that inserted it until it commits.
InsertsPrivate ==
    /\ \A p \in Req : wr[p].newS \cap sRow = {} /\ wr[p].newC \cap cRow = {}
                      /\ wr[p].newT \cap tRow = {}
    /\ \A p, q \in Req : p # q => /\ wr[p].newS \cap wr[q].newS = {}
                                   /\ wr[p].newC \cap wr[q].newC = {}
                                   /\ wr[p].newT \cap wr[q].newT = {}

\* What a request found when it began is still so: these columns never revert.
BornOK ==
    \A p \in Req : /\ born[p].gone \subseteq sRevoked \cup sStale
                   /\ born[p].used \subseteq tUsed
                   /\ born[p].dead \subseteq dead

\* The statements reached only with a session that was live when it was read.
LiveLabels == {"touch", "user", "issue", "rotate", "respond"}
LiveFor(l, r, b) == l \in LiveLabels \/ r.res \in Grants => r.sess \notin b.gone
LiveOK == \A p \in Req : LiveFor(pc[p], req[p], born[p])

\* The statements a refresh reaches only with a token it found unused.
UnusedLabels == {"session", "idle", "stale", "touch", "user", "rotate", "respond"}
UnusedFor(l, r, b) ==
    r.kind = "refresh" /\ (l \in UnusedLabels \/ r.res = "tokens") => r.tok \notin b.used
UnusedOK == \A p \in Req : UnusedFor(pc[p], req[p], born[p])
=============================================================================
