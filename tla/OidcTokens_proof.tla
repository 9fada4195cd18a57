-------------------------- MODULE OidcTokens_proof --------------------------
(* Theorems about OidcTokens, for any number of requests, sessions, codes  *)
(* and tokens and any values of the time-outs.                             *)
EXTENDS OidcTokens, TLAPS

USE NoneAssumption, TimeAssumption

\* The literal records and labels are of their types.
LEMMA Literals ==
    /\ NoReq \in Request /\ NoWrites \in Writes /\ NoBirth \in Birth
    /\ NoToken \in TokenInfo /\ NoCode \in [sess : Session \cup {None}, exp : Nat]
  BY DEF NoReq, Request, Kinds, Results, NoWrites, Writes, NoBirth, Birth,
         NoToken, TokenInfo, NoCode

\* Control and request locals stay in their types when a step moves to a label.
LEMMA GotoType ==
    ASSUME TypeOK, NEW p \in Req, NEW l \in Labels, NEW r \in Request, Goto(p, l, r)
    PROVE  pc' \in [Req -> Labels] /\ req' \in [Req -> Request]
  BY DEF TypeOK, Goto

\* Uncommitted writes stay in their type.
LEMMA WriteType ==
    ASSUME TypeOK, NEW p \in Req, NEW w \in Writes, Write(p, w)
    PROVE  wr' \in [Req -> Writes]
  BY DEF TypeOK, Write

\* A refusal keeps control and locals in their types.
LEMMA RefusedType ==
    ASSUME TypeOK, NEW p \in Req, Refused(p)
    PROVE  pc' \in [Req -> Labels] /\ req' \in [Req -> Request]
<1>1. Refuse(req[p]) \in Labels
  BY DEF Refuse, Labels
<1>a. req[p] \in Request  BY DEF TypeOK
<1>2. [req[p] EXCEPT !.res = "refused"] \in Request
  BY <1>a DEF Request, Results
<1>3. QED BY <1>1, <1>2, GotoType DEF Refused

\* A transaction that is rolled back leaves every variable in its type.
LEMMA UndoType ==
    ASSUME TypeOK, NEW p \in Req, Undo(p)
    PROVE  TypeOK'
<1>1. "free" \in Labels BY DEF Labels
<1>2. QED BY <1>1, Literals DEF TypeOK, Undo, End

\* So does a request that arrives.
LEMMA BeginType ==
    ASSUME TypeOK, NEW p \in Req, NEW kind \in Kinds, NEW label \in Labels,
           NEW args \in Request, Begin(p, kind, label, args)
    PROVE  TypeOK'
<1>1. [args EXCEPT !.kind = kind, !.at = now] \in Request
  BY DEF TypeOK, Request
<1>2. [gone |-> sRevoked \cup sStale, used |-> tUsed, dead |-> dead, rows |-> sRow] \in Birth
  BY DEF TypeOK, Birth
<1>3. QED BY <1>1, <1>2 DEF TypeOK, Begin, dbVars

\* Every step that only moves control keeps the types.
LEMMA LocalType ==
    ASSUME TypeOK, pc' \in [Req -> Labels], req' \in [Req -> Request], Local
    PROVE  TypeOK'
  BY DEF TypeOK, Local, Frame, dbVars

\* So does every step that only adds to its own uncommitted writes.
LEMMA UpdateType ==
    ASSUME TypeOK, pc' \in [Req -> Labels], req' \in [Req -> Request],
           wr' \in [Req -> Writes], UNCHANGED dbVars, Frame
    PROVE  TypeOK'
  BY DEF TypeOK, Frame, dbVars

\* Every arrival keeps the types.
LEMMA ArriveType == ASSUME TypeOK, NEW p \in Req, Arrive(p) PROVE TypeOK'
<1> USE DEF Kinds, Labels
<1>1. ASSUME NEW u \in User, Login(p, u) PROVE TypeOK'
  <2>1. [NoReq EXCEPT !.user = u] \in Request
    BY Literals DEF Request
  <2>2. QED BY <1>1, <2>1, BeginType DEF Login
<1>2. ASSUME NEW s \in Session, authorize(p, s) \/ logout(p, s) PROVE TypeOK'
  <2>1. [NoReq EXCEPT !.sess = s] \in Request
    BY Literals DEF Request
  <2>2. QED BY <1>2, <2>1, BeginType DEF authorize, logout
<1>3. ASSUME NEW c \in Code, NEW match \in BOOLEAN, TokenByCode(p, c, match) PROVE TypeOK'
  <2>1. [NoReq EXCEPT !.code = c, !.match = match] \in Request
    BY Literals DEF Request
  <2>2. QED BY <1>3, <2>1, BeginType DEF TokenByCode
<1>4. ASSUME NEW t \in Token, NEW match \in BOOLEAN, NEW key \in BOOLEAN,
             TokenByRefresh(p, t, match, key)
      PROVE TypeOK'
  <2>1. [NoReq EXCEPT !.tok = t, !.match = match, !.key = key] \in Request
    BY Literals DEF Request
  <2>2. QED BY <1>4, <2>1, BeginType DEF TokenByRefresh
<1>5. ASSUME NEW t \in Token, NEW key \in BOOLEAN, revoke_endpoint(p, t, key) PROVE TypeOK'
  <2>1. [NoReq EXCEPT !.tok = t, !.key = key] \in Request
    BY Literals DEF Request
  <2>2. QED BY <1>5, <2>1, BeginType DEF revoke_endpoint
<1>6. ASSUME NEW s \in Session, NEW k \in {"userinfo", "api"}, NEW ip \in BOOLEAN,
             Resource(p, s, k, ip)
      PROVE TypeOK'
  <2>1. [NoReq EXCEPT !.sess = s, !.ip = ip] \in Request
    BY Literals DEF Request
  <2>2. QED BY <1>6, <2>1, BeginType DEF Resource
<1>7. ASSUME NEW u \in User, NEW keep \in Session \cup {None}, RevokeAll(p, u, keep)
      PROVE TypeOK'
  <2>1. [NoReq EXCEPT !.user = u, !.keep = keep] \in Request
    BY Literals DEF Request
  <2>2. QED BY <1>7, <2>1, BeginType DEF RevokeAll
<1>8. ASSUME NEW u \in User, NEW enable \in BOOLEAN, PatchStatus(p, u, enable)
      PROVE TypeOK'
  <2>1. [NoReq EXCEPT !.user = u, !.match = enable] \in Request
    BY Literals DEF Request
  <2>2. QED BY <1>8, <2>1, BeginType DEF PatchStatus
<1>9. QED
  BY <1>1, <1>2, <1>3, <1>4, <1>5, <1>6, <1>7, <1>8 DEF Arrive

\* Every statement of every handler keeps the types.
LEMMA StepType ==
    ASSUME TypeOK, ArgsOK, FoundOK, RowsOK, NEW p \in Req, Step(p)
    PROVE  TypeOK'
<1> DEFINE r == req[p]
<1> USE DEF Labels
<1>r. r \in Request /\ wr[p] \in Writes
  BY DEF TypeOK
<1>n. r.at \in Nat /\ r.user \in User \cup {None} /\ r.sess \in Session \cup {None}
      /\ r.code \in Code \cup {None} /\ r.todoS \in SUBSET Session /\ r.todoT \in SUBSET Token
  BY <1>r DEF Request
<1>live. AfterLive(r) \in Labels
  BY DEF AfterLive
<1>1. CASE create_session(p)
  <2>1. PICK s \in Session :
           /\ Write(p, [wr[p] EXCEPT !.newS = {s}])
           /\ sUser' = [sUser EXCEPT ![s] = req[p].user]
           /\ sAbs' = [sAbs EXCEPT ![s] = AbsoluteExpiry(req[p].at)]
           /\ sSeen' = [sSeen EXCEPT ![s] = req[p].at]
           /\ Goto(p, "commit", [req[p] EXCEPT !.sess = s, !.res = "session"])
    BY <1>1 DEF create_session
  <2>2. [r EXCEPT !.sess = s, !.res = "session"] \in Request
    BY <1>r DEF Request, Results
  <2>3. [wr[p] EXCEPT !.newS = {s}] \in Writes
    BY <1>r DEF Writes
  <2>5. AbsoluteExpiry(r.at) \in Nat
    BY <1>n DEF AbsoluteExpiry
  <2>6. pc' \in [Req -> Labels] /\ req' \in [Req -> Request] /\ wr' \in [Req -> Writes]
    BY <2>1, <2>2, <2>3, GotoType, WriteType
  <2>7. QED
    BY <1>1, <2>1, <1>n, <2>5, <2>6
       DEF create_session, TypeOK, Frame, codeVars, tokVars
<1>2. CASE check_liveness(p)
  <2>1. pc' \in [Req -> Labels] /\ req' \in [Req -> Request]
    BY <1>2, <1>r, <1>live, GotoType, RefusedType DEF check_liveness
  <2>2. QED BY <1>2, <2>1, LocalType DEF check_liveness
<1>3. CASE idle_timeout(p)
  <2>1. [wr[p] EXCEPT !.revS = @ \cup {r.sess}] \in Writes
    BY <1>3, <1>r DEF idle_timeout, ArgsOK, ArgsFor, SessLabels, Writes
  <2>2. QED BY <1>3, <2>1, RefusedType, WriteType, UpdateType DEF idle_timeout
<1>4. CASE mark_stale(p)
  <2>1. [wr[p] EXCEPT !.stale = @ \cup {r.sess}] \in Writes
    BY <1>4, <1>r DEF mark_stale, ArgsOK, ArgsFor, SessLabels, Writes
  <2>2. QED BY <1>4, <2>1, RefusedType, WriteType, UpdateType DEF mark_stale
<1>5. CASE touch(p)
  <2>1. [wr[p] EXCEPT !.seen = @ \cup {r.sess}] \in Writes
    BY <1>5, <1>r DEF touch, ArgsOK, ArgsFor, SessLabels, Writes
  <2>2. QED BY <1>5, <1>r, <1>live, <2>1, GotoType, WriteType, UpdateType DEF touch
<1>6. CASE revoke(p)
  <2>1. [wr[p] EXCEPT !.revS = @ \cup {r.sess}] \in Writes
    BY <1>6, <1>r DEF revoke, ArgsOK, ArgsFor, SessLabels, Writes
  <2>2. [r EXCEPT !.res = "killed"] \in Request
    BY <1>r DEF Request, Results
  <2>3. wr' \in [Req -> Writes]
    BY <1>6, <1>r, <2>1, WriteType DEF revoke
  <2>4. pc' \in [Req -> Labels] /\ req' \in [Req -> Request]
    BY <1>6, <1>r, <2>2, GotoType DEF revoke
  <2>5. QED BY <1>6, <2>3, <2>4, UpdateType DEF revoke
<1>7. CASE check_user(p)
  <2>1. [r EXCEPT !.res = "served"] \in Request
    BY <1>r DEF Request, Results
  <2>2. pc' \in [Req -> Labels] /\ req' \in [Req -> Request]
    BY <1>7, <1>r, <2>1, GotoType, RefusedType DEF check_user
  <2>3. QED BY <1>7, <2>2, LocalType DEF check_user
<1>8. CASE issue_code(p)
  <2>1. PICK c \in Code :
           /\ Write(p, [wr[p] EXCEPT !.newC = {c}])
           /\ cInfo' = [cInfo EXCEPT ![c] = [sess |-> req[p].sess, exp |-> req[p].at + CodeTTL]]
           /\ Goto(p, "commit", [req[p] EXCEPT !.code = c, !.res = "code"])
    BY <1>8 DEF issue_code
  <2>2. [r EXCEPT !.code = c, !.res = "code"] \in Request
    BY <1>r DEF Request, Results
  <2>3. [wr[p] EXCEPT !.newC = {c}] \in Writes
    BY <1>r DEF Writes
  <2>4. [sess |-> r.sess, exp |-> r.at + CodeTTL] \in [sess : Session \cup {None}, exp : Nat]
    BY <1>n
  <2>5. pc' \in [Req -> Labels] /\ req' \in [Req -> Request] /\ wr' \in [Req -> Writes]
    BY <2>1, <2>2, <2>3, GotoType, WriteType
  <2>6. cInfo' \in [Code -> [sess : Session \cup {None}, exp : Nat]]
    BY <2>1, <2>4 DEF TypeOK
  <2>7. QED
    BY <1>8, <2>5, <2>6 DEF issue_code, TypeOK, Frame, sessVars, tokVars
<1>9. CASE consume_code(p)
  <2>1. r.code \in Code
    BY <1>9 DEF consume_code, ArgsOK, ArgsFor
  <2>2. [wr[p] EXCEPT !.cons = {r.code}] \in Writes
    BY <1>r, <2>1 DEF Writes
  <2>3. [r EXCEPT !.sess = cInfo[r.code].sess] \in Request
    BY <1>r, <2>1 DEF Request, TypeOK
  <2>4. wr' \in [Req -> Writes]
    BY <1>9, <1>r, <2>2, WriteType DEF consume_code
  <2>5. pc' \in [Req -> Labels] /\ req' \in [Req -> Request]
    BY <1>9, <1>r, <2>3, GotoType, RefusedType DEF consume_code
  <2>6. QED BY <1>9, <2>4, <2>5, UpdateType DEF consume_code
<1>10. CASE find_consumed(p)
  <2>1. r.code \in Code
    BY <1>10 DEF find_consumed, ArgsOK, ArgsFor
  <2>2. [r EXCEPT !.sess = cInfo[r.code].sess] \in Request
    BY <1>r, <2>1 DEF Request, TypeOK
  <2>3. pc' \in [Req -> Labels] /\ req' \in [Req -> Request]
    BY <1>10, <1>r, <2>2, GotoType, RefusedType DEF find_consumed
  <2>4. QED BY <1>10, <2>3, LocalType DEF find_consumed
<1>11. CASE issue_family(p)
  <2>0. r.sess \in Session
    BY <1>11 DEF issue_family, ArgsOK, ArgsFor, SessLabels
  <2>1. PICK t \in Token :
           /\ tInfo' = [tInfo EXCEPT ![t] = [sess |-> req[p].sess, fam |-> t, parent |-> None,
                                  code |-> req[p].code, exp |-> sAbs[req[p].sess]]]
           /\ Write(p, [wr[p] EXCEPT !.newT = {t}])
           /\ UNCHANGED <<active, sessVars, codeVars, tRow, tUsed, tRevoked>> /\ Frame
    BY <1>11 DEF issue_family, InsertToken
  <2>2. [r EXCEPT !.res = "tokens"] \in Request
    BY <1>r DEF Request, Results
  <2>3. [wr[p] EXCEPT !.newT = {t}] \in Writes
    BY <1>r DEF Writes
  <2>4. [sess |-> r.sess, fam |-> t, parent |-> None, code |-> r.code,
         exp |-> sAbs[r.sess]] \in TokenInfo
    BY <1>n, <2>0 DEF TokenInfo, TypeOK
  <2>5. pc' \in [Req -> Labels] /\ req' \in [Req -> Request] /\ wr' \in [Req -> Writes]
    BY <1>11, <2>1, <2>2, <2>3, GotoType, WriteType DEF issue_family
  <2>6. tInfo' \in [Token -> TokenInfo]
    BY <2>1, <2>4 DEF TypeOK
  <2>7. QED
    BY <2>1, <2>5, <2>6 DEF TypeOK, Frame, sessVars, codeVars
<1>12. CASE find(p)
  <2>1. r.tok \in Token
    BY <1>12 DEF find, ArgsOK, ArgsFor
  <2>2. [r EXCEPT !.sess = tInfo[r.tok].sess] \in Request
    BY <1>r, <2>1 DEF Request, TypeOK, TokenInfo
  <2>3. pc' \in [Req -> Labels] /\ req' \in [Req -> Request]
    BY <1>12, <1>r, <2>2, GotoType, RefusedType DEF find
  <2>4. QED BY <1>12, <2>3, LocalType DEF find
<1>13. CASE rotate(p)
  <2>0. r.tok \in Token
    BY <1>13 DEF rotate, ArgsOK, ArgsFor
  <2>1. PICK t \in Token :
           /\ tInfo' = [tInfo EXCEPT ![t] = Child(req[p].tok, t)]
           /\ Write(p, [wr[p] EXCEPT !.used = {req[p].tok}, !.newT = {t}])
           /\ UNCHANGED <<active, sessVars, codeVars, tRow, tUsed, tRevoked>> /\ Frame
    BY <1>13 DEF rotate, InsertToken
  <2>2. [r EXCEPT !.res = "tokens"] \in Request
    BY <1>r DEF Request, Results
  <2>3. [wr[p] EXCEPT !.used = {r.tok}, !.newT = {t}] \in Writes
    BY <1>r, <2>0 DEF Writes
  <2>4. tInfo[r.tok] \in TokenInfo
    BY <2>0 DEF TypeOK
  <2>5. Child(r.tok, t) \in TokenInfo
    BY <2>0, <2>4 DEF Child, TokenInfo
  <2>6. pc' \in [Req -> Labels] /\ req' \in [Req -> Request] /\ wr' \in [Req -> Writes]
    BY <1>13, <2>1, <2>2, <2>3, GotoType, WriteType DEF rotate
  <2>7. tInfo' \in [Token -> TokenInfo]
    BY <2>1, <2>5 DEF TypeOK
  <2>8. QED
    BY <2>1, <2>6, <2>7 DEF TypeOK, Frame, sessVars, codeVars
<1>14. CASE Respond(p)
  <2>1. r.at + AccessTTL \in Nat
    BY <1>n
  <2>2. access' \in [Session -> Nat]
    BY <1>14, <2>1 DEF Respond, TypeOK
  <2>3. pc' \in [Req -> Labels] /\ req' \in [Req -> Request]
    BY <1>14, <1>r, GotoType DEF Respond
  <2>4. QED BY <1>14, <2>2, <2>3 DEF Respond, TypeOK, dbVars
<1>15. CASE revoke_family(p)
  <2>1. [r EXCEPT !.todoT = {t \in tRow \ tRevoked : tInfo[t].fam = tInfo[r.tok].fam}] \in Request
    BY <1>r DEF Request, TypeOK
  <2>2. QED BY <1>15, <2>1, GotoType, LocalType DEF revoke_family
<1>16. CASE revoke_for_session(p)
  <2>1. [r EXCEPT !.todoT = {t \in tRow \ tRevoked : tInfo[t].sess = r.sess}] \in Request
    BY <1>r DEF Request, TypeOK
  <2>2. QED BY <1>16, <2>1, GotoType, LocalType DEF revoke_for_session
<1>17. CASE UpdateRevoked(p)
  <2>1. [wr[p] EXCEPT !.revT = @ \cup r.todoT] \in Writes
    BY <1>r, <1>n DEF Writes
  <2>2. [r EXCEPT !.todoT = {}] \in Request
    BY <1>r DEF Request
  <2>3. QED BY <1>17, <2>1, <2>2, GotoType, WriteType, UpdateType DEF UpdateRevoked
<1>18. CASE patch_user(p)
  BY <1>18, <1>r, GotoType, LocalType DEF patch_user
<1>19. CASE set_status(p)
  <2>1. /\ [wr[p] EXCEPT !.on = {r.user}] \in Writes
        /\ [wr[p] EXCEPT !.off = {r.user}] \in Writes
    BY <1>19, <1>r DEF set_status, ArgsOK, ArgsFor, Writes
  <2>2. wr' \in [Req -> Writes]
    BY <1>19, <2>1, WriteType DEF set_status
  <2>3. QED BY <1>19, <1>r, <2>2, GotoType, UpdateType DEF set_status
<1>20. CASE select_sessions(p)
  <2>1. [r EXCEPT !.todoS = ToRevoke(r.user, r.keep)] \in Request
    BY <1>r DEF ToRevoke, Request, TypeOK
  <2>2. QED BY <1>20, <2>1, GotoType, LocalType DEF select_sessions
<1>21. CASE next_session(p)
  <2>1. ASSUME NEW s \in r.todoS
        PROVE  [r EXCEPT !.sess = s, !.todoS = @ \ {s}] \in Request
    BY <1>r, <1>n DEF Request
  <2>2. [r EXCEPT !.res = "revokedAll"] \in Request
    BY <1>r DEF Request, Results
  <2>3. QED BY <1>21, <2>1, <2>2, GotoType, LocalType DEF next_session
<1>22. CASE Commit(p)
  <2>1. dead' \in SUBSET Token
    <3>1. CASE req[p].res = "killed" /\ req[p].tok # None
      <4>1. req[p].tok \in tRow
        BY <3>1 DEF ArgsOK, ArgsFor, FoundOK, FoundFor
      <4>2. tInfo[req[p].tok].fam \in Token
        BY <4>1 DEF RowsOK, Exists, TypeOK
      <4>3. QED BY <1>22, <3>1, <4>2 DEF Commit, TypeOK
    <3>2. QED BY <1>22, <3>1 DEF Commit, TypeOK
  <2>2. wr[p] \in [newS : SUBSET Session, newC : SUBSET Code, newT : SUBSET Token,
           cons : SUBSET Code, used : SUBSET Token, revT : SUBSET Token,
           revS : SUBSET Session, stale : SUBSET Session, seen : SUBSET Session,
           off : SUBSET User, on : SUBSET User]
    BY <1>r DEF Writes
  <2>3. pc' \in [Req -> Labels] /\ req' \in [Req -> Request] /\ wr' \in [Req -> Writes]
        /\ born' \in [Req -> Birth]
    BY <1>22, Literals DEF Commit, End, TypeOK
  <2>4. /\ active' \in SUBSET User /\ sRow' \in SUBSET Session /\ sRevoked' \in SUBSET Session
        /\ sStale' \in SUBSET Session /\ cRow' \in SUBSET Code /\ cConsumed' \in SUBSET Code
        /\ tRow' \in SUBSET Token /\ tUsed' \in SUBSET Token /\ tRevoked' \in SUBSET Token
    BY <1>22, <2>2 DEF Commit, TypeOK
  <2>5. sSeen' \in [Session -> Nat]
    BY <1>22, <1>n DEF Commit, TypeOK
  <2>6. QED BY <1>22, <2>1, <2>3, <2>4, <2>5 DEF Commit, TypeOK
<1>23. CASE Rollback(p) \/ DeadlockVictim(p) \/ OutOfIds(p)
  BY <1>23, UndoType DEF Rollback, DeadlockVictim, OutOfIds
<1>24. QED
  BY <1>1, <1>2, <1>3, <1>4, <1>5, <1>6, <1>7, <1>8, <1>9, <1>10, <1>11, <1>12, <1>13,
     <1>14, <1>15, <1>16, <1>17, <1>18, <1>19, <1>20, <1>21, <1>22, <1>23 DEF Step

-----------------------------------------------------------------------------
(* Control: where a request goes and with which arguments.                 *)

Ctl(l, r, b) == ArgsFor(l, r) /\ FoundFor(l, r) /\ LiveFor(l, r, b) /\ UnusedFor(l, r, b)

\* The control part of the inductive invariant.
CtlOK == ArgsOK /\ FoundOK /\ LiveOK /\ UnusedOK

\* Request p moves to a statement and arguments that satisfy it.
Moves(p) == \E l \in Labels, r \in Request : Goto(p, l, r) /\ Ctl(l, r, born[p])

\* A refusal moves the request to a label and locals that satisfy Ctl.
LEMMA RefusedMoves ==
    ASSUME TypeOK, ArgsOK, NEW p \in Req, Refused(p)
    PROVE  Moves(p)
<1> DEFINE l == Refuse(req[p])
           r == [req[p] EXCEPT !.res = "refused"]
<1>1. req[p] \in Request /\ ArgsFor(pc[p], req[p])
  BY DEF TypeOK, ArgsOK
<1>2. r \in Request /\ r.res = "refused" /\ r.kind = req[p].kind /\ r.tok = req[p].tok
  BY <1>1 DEF Request, Results
<1>3. l \in {"commit", "rollback"} /\ l \in Labels
  BY DEF Refuse, Labels
<1>4. Ctl(l, r, born[p])
  BY <1>1, <1>2, <1>3
     DEF Ctl, ArgsFor, FoundFor, LiveFor, UnusedFor, SessLabels, LiveLabels, UnusedLabels, Grants
<1>5. QED BY <1>2, <1>3, <1>4 DEF Moves, Refused

\* Every statement of a handler moves the request in this way.
LEMMA StepMoves ==
    ASSUME TypeOK, CtlOK, RowsOK, BornOK, NEW p \in Req, Step(p)
    PROVE  Moves(p) \/ Commit(p) \/ Undo(p)
<1> DEFINE r == req[p]
           b == born[p]
<1> USE DEF Labels
<1>r. r \in Request
  BY DEF TypeOK
<1>c. ArgsFor(pc[p], r) /\ FoundFor(pc[p], r) /\ LiveFor(pc[p], r, b) /\ UnusedFor(pc[p], r, b)
  BY DEF CtlOK, ArgsOK, FoundOK, LiveOK, UnusedOK
<1>b. b.gone \subseteq sRevoked \cup sStale /\ b.used \subseteq tUsed
  BY DEF BornOK
<1>m. ASSUME NEW l \in Labels, NEW x \in Request, Goto(p, l, x), Ctl(l, x, b) PROVE Moves(p)
  BY <1>m DEF Moves
<1>x. ArgsOK
  BY DEF CtlOK
<1> USE DEF Ctl, ArgsFor, FoundFor, LiveFor, UnusedFor, SessLabels, LiveLabels, UnusedLabels, Grants
<1>1. CASE create_session(p)
  <2>1. PICK s \in Session : Goto(p, "commit", [r EXCEPT !.sess = s, !.res = "session"])
    BY <1>1 DEF create_session
  <2>2. [r EXCEPT !.sess = s, !.res = "session"] \in Request
    BY <1>r DEF Request, Results
  <2>3. Ctl("commit", [r EXCEPT !.sess = s, !.res = "session"], b)
    BY <1>r, <1>c DEF Request
  <2>4. QED BY <2>1, <2>2, <2>3, <1>m
<1>2. CASE check_liveness(p)
  <2> USE DEF check_liveness
  <2>1. CASE Refused(p)
    BY <1>x, <2>1, RefusedMoves
  <2>2. CASE ~Refused(p)
    <3>1. r.sess \notin b.gone
      BY <1>2, <2>2, <1>b DEF SessionDead
    <3>2. PICK l \in {"idle", "stale", "touch", AfterLive(r)} : Goto(p, l, r)
      BY <1>2, <2>2
    <3>3. Ctl(l, r, b) /\ l \in Labels
      BY <1>2, <1>c, <3>1 DEF AfterLive
    <3>4. QED BY <1>r, <1>m, <3>2, <3>3
  <2>3. QED BY <2>1, <2>2
<1>3. CASE idle_timeout(p) \/ mark_stale(p)
  BY <1>3, <1>x, RefusedMoves DEF idle_timeout, mark_stale
<1>5. CASE touch(p)
  <2>1. Ctl(AfterLive(r), r, b) /\ AfterLive(r) \in Labels
    BY <1>5, <1>c DEF touch, AfterLive
  <2>2. QED BY <1>5, <1>r, <2>1, <1>m DEF touch
<1>6. CASE revoke(p)
  <2>1. [r EXCEPT !.res = "killed"] \in Request
    BY <1>r DEF Request, Results
  <2>2. pc[p] = "revS"
    BY <1>6 DEF revoke
  <2>3. r.kind \in {"revokeAll", "patch"} => Ctl("next", r, b)
    BY <1>r, <1>c, <2>2 DEF Request
  <2>4. Ctl("commit", [r EXCEPT !.res = "killed"], b)
    BY <1>r, <1>c, <2>2 DEF Request
  <2>5. QED BY <1>6, <1>r, <1>m, <2>1, <2>3, <2>4 DEF revoke
<1>7. CASE check_user(p)
  <2>1. CASE Refused(p)
    BY <1>x, <2>1, RefusedMoves
  <2>2. CASE r.kind = "code" /\ Goto(p, "issue", r)
    BY <1>7, <2>2, <1>r, <1>c, <1>m DEF check_user
  <2>3. CASE r.kind = "refresh" /\ Goto(p, "rotate", r)
    BY <1>7, <2>3, <1>r, <1>c, <1>m DEF check_user
  <2>4. CASE r.kind \in {"userinfo", "api"} /\ Goto(p, "commit", [r EXCEPT !.res = "served"])
    <3>1. [r EXCEPT !.res = "served"] \in Request
      BY <1>r DEF Request, Results
    <3>2. Ctl("commit", [r EXCEPT !.res = "served"], b)
      BY <1>7, <2>4, <1>r, <1>c DEF check_user, Request
    <3>3. QED BY <2>4, <3>1, <3>2, <1>m
  <2>5. QED BY <1>7, <2>1, <2>2, <2>3, <2>4 DEF check_user
<1>8. CASE issue_code(p)
  <2>1. PICK c \in Code : Goto(p, "commit", [r EXCEPT !.code = c, !.res = "code"])
    BY <1>8 DEF issue_code
  <2>2. [r EXCEPT !.code = c, !.res = "code"] \in Request
    BY <1>r DEF Request, Results
  <2>3. Ctl("commit", [r EXCEPT !.code = c, !.res = "code"], b)
    BY <1>8, <1>r, <1>c DEF issue_code, Request
  <2>4. QED BY <2>1, <2>2, <2>3, <1>m
<1>9. CASE consume_code(p)
  <2>1. CASE Refused(p)
    BY <1>x, <2>1, RefusedMoves
  <2>2. CASE Goto(p, "replay", r)
    BY <1>9, <2>2, <1>r, <1>c, <1>m DEF consume_code
  <2>3. CASE r.code \in cRow /\ Goto(p, "session", [r EXCEPT !.sess = cInfo[r.code].sess])
    <3>1. cInfo[r.code].sess \in Session
      BY <2>3 DEF RowsOK, TypeOK
    <3>2. [r EXCEPT !.sess = cInfo[r.code].sess] \in Request
      BY <3>1, <1>r DEF Request
    <3>3. r.kind = "code" /\ r.res = "none" /\ r.tok = None
      BY <1>9, <1>c DEF consume_code
    <3>4. Ctl("session", [r EXCEPT !.sess = cInfo[r.code].sess], b)
      BY <3>1, <3>3, <1>r DEF Request
    <3>5. QED BY <2>3, <3>2, <3>4, <1>m
  <2>4. QED BY <1>9, <2>1, <2>2, <2>3 DEF consume_code, Unconsumed
<1>10. CASE find_consumed(p)
  <2>1. CASE Refused(p)
    BY <1>x, <2>1, RefusedMoves
  <2>2. CASE r.code \in cRow /\ Goto(p, "bysess", [r EXCEPT !.sess = cInfo[r.code].sess])
    <3>1. cInfo[r.code].sess \in Session
      BY <2>2 DEF RowsOK, TypeOK
    <3>2. [r EXCEPT !.sess = cInfo[r.code].sess] \in Request
      BY <3>1, <1>r DEF Request
    <3>3. r.kind = "code" /\ r.res = "none" /\ r.tok = None
      BY <1>10, <1>c DEF find_consumed
    <3>4. Ctl("bysess", [r EXCEPT !.sess = cInfo[r.code].sess], b)
      BY <3>1, <3>3, <1>r DEF Request
    <3>5. QED BY <2>2, <3>2, <3>4, <1>m
  <2>3. QED BY <1>10, <2>1, <2>2 DEF find_consumed
<1>11. CASE issue_family(p) \/ rotate(p)
  <2>1. Goto(p, "respond", [r EXCEPT !.res = "tokens"]) /\ pc[p] \in {"issue", "rotate"}
    BY <1>11 DEF issue_family, rotate
  <2>2. [r EXCEPT !.res = "tokens"] \in Request
    BY <1>r DEF Request, Results
  <2>3. Ctl("respond", [r EXCEPT !.res = "tokens"], b)
    BY <1>11, <2>1, <1>r, <1>c DEF Request, issue_family, rotate
  <2>4. QED BY <2>1, <2>2, <2>3, <1>m
<1>12. CASE find(p)
  <2> DEFINE x == [r EXCEPT !.sess = tInfo[r.tok].sess]
  <2>1. CASE Refused(p)
    BY <1>x, <2>1, RefusedMoves
  <2>2. CASE r.tok \in tRow /\ (Goto(p, "family", x) \/ (Goto(p, "session", x) /\ r.tok \notin tUsed))
    <3>1. tInfo[r.tok].sess \in Session
      BY <2>2 DEF RowsOK, TypeOK, Exists
    <3>2. x \in Request /\ x.kind = r.kind /\ x.tok = r.tok /\ x.res = r.res /\ x.sess = tInfo[r.tok].sess
      BY <3>1, <1>r DEF Request
    <3>3. r.res = "none" /\ r.kind \in {"refresh", "revoke"}
      BY <1>12, <1>c DEF find
    <3>4. Ctl("family", x, b)
      BY <2>2, <3>1, <3>2, <3>3, <1>c
    <3>5. CASE Goto(p, "session", x) /\ r.tok \notin tUsed
      <4>1. Ctl("session", x, b)
        BY <2>2, <3>1, <3>2, <3>3, <3>5, <1>b, <1>c
      <4>2. QED BY <3>2, <3>5, <4>1, <1>m
    <3>6. QED BY <2>2, <3>2, <3>4, <3>5, <1>m
  <2>3. QED BY <1>12, <2>1, <2>2 DEF find, IsUsed
<1>14. CASE Respond(p)
  <2>1. Ctl("commit", r, b)
    BY <1>14, <1>r, <1>c DEF Respond, Request
  <2>2. QED BY <1>14, <2>1, <1>r, <1>m DEF Respond
<1>15. CASE revoke_family(p) \/ revoke_for_session(p)
  <2>1. PICK T \in SUBSET Token : Goto(p, "revT", [r EXCEPT !.todoT = T])
    <3>1. /\ {t \in tRow \ tRevoked : tInfo[t].fam = tInfo[r.tok].fam} \in SUBSET Token
          /\ {t \in tRow \ tRevoked : tInfo[t].sess = r.sess} \in SUBSET Token
      BY DEF TypeOK
    <3>2. QED BY <1>15, <3>1 DEF revoke_family, revoke_for_session
  <2>2. [r EXCEPT !.todoT = T] \in Request
    BY <1>r DEF Request
  <2>3. Ctl("revT", [r EXCEPT !.todoT = T], b)
    BY <1>15, <1>r, <1>c DEF revoke_family, revoke_for_session, Request
  <2>4. QED BY <2>1, <2>2, <2>3, <1>m
<1>17. CASE UpdateRevoked(p)
  <2>1. [r EXCEPT !.todoT = {}] \in Request
    BY <1>r DEF Request
  <2>2. Ctl("revS", [r EXCEPT !.todoT = {}], b)
    BY <1>17, <1>r, <1>c DEF UpdateRevoked, Request
  <2>3. QED BY <1>17, <2>1, <2>2, <1>m DEF UpdateRevoked
<1>18. CASE patch_user(p) \/ set_status(p)
  <2>1. PICK l \in {"commit", "status", "select"} : Goto(p, l, r)
    BY <1>18 DEF patch_user, set_status
  <2>2. Ctl(l, r, b)
    BY <1>18, <1>r, <1>c DEF patch_user, set_status, Request
  <2>3. QED BY <1>r, <2>1, <2>2, <1>m
<1>20. CASE select_sessions(p)
  <2>1. PICK S \in SUBSET Session : Goto(p, "next", [r EXCEPT !.todoS = S])
    <3>1. ToRevoke(r.user, r.keep) \in SUBSET Session
      BY DEF ToRevoke, TypeOK
    <3>2. QED BY <1>20, <3>1 DEF select_sessions
  <2>2. [r EXCEPT !.todoS = S] \in Request
    BY <1>r DEF Request
  <2>3. Ctl("next", [r EXCEPT !.todoS = S], b)
    BY <1>20, <1>r, <1>c DEF select_sessions, Request
  <2>4. QED BY <2>1, <2>2, <2>3, <1>m
<1>21. CASE next_session(p)
  <2>1. ASSUME NEW s \in r.todoS,
               Goto(p, "bysess", [r EXCEPT !.sess = s, !.todoS = @ \ {s}])
        PROVE  Moves(p)
    <3>1. s \in Session /\ [r EXCEPT !.sess = s, !.todoS = @ \ {s}] \in Request
      BY <1>r DEF Request
    <3>2. Ctl("bysess", [r EXCEPT !.sess = s, !.todoS = @ \ {s}], b)
      BY <1>21, <1>r, <1>c, <3>1 DEF next_session, Request
    <3>3. QED BY <2>1, <3>1, <3>2, <1>m
  <2>2. CASE Goto(p, "commit", [r EXCEPT !.res = "revokedAll"])
    <3>1. [r EXCEPT !.res = "revokedAll"] \in Request
      BY <1>r DEF Request, Results
    <3>2. Ctl("commit", [r EXCEPT !.res = "revokedAll"], b)
      BY <1>21, <1>r, <1>c DEF next_session, Request
    <3>3. QED BY <2>2, <3>1, <3>2, <1>m
  <2>3. QED BY <1>21, <2>1, <2>2 DEF next_session
<1>23. CASE Commit(p) \/ Rollback(p) \/ DeadlockVictim(p) \/ OutOfIds(p)
  BY <1>23 DEF Rollback, DeadlockVictim, OutOfIds
<1>24. QED
  BY <1>1, <1>2, <1>3, <1>5, <1>6, <1>7, <1>8, <1>9, <1>10, <1>11, <1>12, <1>14, <1>15,
     <1>17, <1>18, <1>20, <1>21, <1>23 DEF Step
-----------------------------------------------------------------------------
(* Rows: what is committed, and what is still private to a request.        *)

Rows == RowsOK /\ InsertsPrivate /\ BornOK

\* A statement that inserts nothing.
Quiet == /\ UNCHANGED <<dbVars, dead, born>>
         /\ \A q \in Req : /\ wr'[q].newS = wr[q].newS /\ wr'[q].newC = wr[q].newC
                           /\ wr'[q].newT = wr[q].newT

\* Every statement but the inserts, the commit and the rollbacks is Quiet.
LEMMA StepQuiet ==
    ASSUME TypeOK, NEW p \in Req, Step(p)
    PROVE  \/ Quiet
           \/ create_session(p) \/ issue_code(p) \/ issue_family(p) \/ rotate(p)
           \/ Commit(p) \/ Undo(p)
<1>w. wr[p] \in Writes /\ wr \in [Req -> Writes]
  BY DEF TypeOK
<1>1. CASE \/ check_liveness(p) \/ check_user(p) \/ find_consumed(p) \/ find(p) \/ Respond(p)
           \/ revoke_family(p) \/ revoke_for_session(p) \/ patch_user(p)
           \/ select_sessions(p) \/ next_session(p)
  BY <1>1 DEF check_liveness, check_user, find_consumed, find, Respond, revoke_family,
              revoke_for_session, patch_user, select_sessions, next_session, Local, Frame, Quiet
<1>2. CASE \/ idle_timeout(p) \/ mark_stale(p) \/ touch(p) \/ revoke(p) \/ consume_code(p)
           \/ UpdateRevoked(p) \/ set_status(p)
  <2>1. UNCHANGED <<dbVars, dead, born>>
    BY <1>2 DEF idle_timeout, mark_stale, touch, revoke, consume_code, UpdateRevoked,
                set_status, Frame
  <2>2. \A q \in Req : /\ wr'[q].newS = wr[q].newS /\ wr'[q].newC = wr[q].newC
                       /\ wr'[q].newT = wr[q].newT
    <3>1. CASE idle_timeout(p)  BY <3>1, <1>w DEF idle_timeout, Write, Writes
    <3>2. CASE mark_stale(p)    BY <3>2, <1>w DEF mark_stale, Write, Writes
    <3>3. CASE touch(p)         BY <3>3, <1>w DEF touch, Write, Writes
    <3>4. CASE revoke(p)        BY <3>4, <1>w DEF revoke, Write, Writes
    <3>5. CASE consume_code(p)  BY <3>5, <1>w DEF consume_code, Write, Writes
    <3>6. CASE UpdateRevoked(p) BY <3>6, <1>w DEF UpdateRevoked, Write, Writes
    <3>7. CASE set_status(p)    BY <3>7, <1>w DEF set_status, Write, Writes
    <3>8. QED BY <1>2, <3>1, <3>2, <3>3, <3>4, <3>5, <3>6, <3>7
  <2>3. QED BY <2>1, <2>2 DEF Quiet
<1>3. CASE Rollback(p) \/ DeadlockVictim(p) \/ OutOfIds(p)
  BY <1>3 DEF Rollback, DeadlockVictim, OutOfIds
<1>4. QED BY <1>1, <1>2, <1>3 DEF Step

\* A quiet step keeps the facts about rows.
LEMMA QuietRows == ASSUME Rows, Quiet PROVE Rows'
  BY DEF Rows, Quiet, RowsOK, Exists, InsertsPrivate, BornOK, dbVars

\* So does an insert: the fresh identifier is private to its request.
LEMMA InsertRows ==
    ASSUME TypeOK, CtlOK, Rows, NEW p \in Req,
           create_session(p) \/ issue_code(p) \/ issue_family(p) \/ rotate(p)
    PROVE  Rows'
<1>w. wr[p] \in Writes /\ wr \in [Req -> Writes]
  BY DEF TypeOK
<1>c. ArgsFor(pc[p], req[p]) /\ FoundFor(pc[p], req[p])
  BY DEF CtlOK, ArgsOK, FoundOK
<1> USE DEF Rows
<1>1. CASE create_session(p)
  <2>1. PICK s \in Session : FreshSession(s) /\ wr' = [wr EXCEPT ![p] = [wr[p] EXCEPT !.newS = {s}]]
    BY <1>1 DEF create_session, Write
  <2>2. /\ wr'[p].newS = {s} /\ wr'[p].newC = wr[p].newC /\ wr'[p].newT = wr[p].newT
        /\ \A q \in Req \ {p} : wr'[q] = wr[q]
    BY <1>w, <2>1 DEF Writes
  <2>3. UNCHANGED <<sRow, sRevoked, sStale, cRow, cConsumed, cInfo, tRow, tUsed, tRevoked, tInfo,
                    dead, born>>
    BY <1>1 DEF create_session, codeVars, tokVars, Frame
  <2>4. InsertsPrivate'
    BY <2>1, <2>2, <2>3 DEF InsertsPrivate, FreshSession
  <2>5. RowsOK' /\ BornOK'
    BY <2>2, <2>3 DEF RowsOK, Exists, BornOK
  <2>6. QED BY <2>4, <2>5
<1>2. CASE issue_code(p)
  <2>1. PICK c \in Code :
           /\ FreshCode(c) /\ wr' = [wr EXCEPT ![p] = [wr[p] EXCEPT !.newC = {c}]]
           /\ cInfo' = [cInfo EXCEPT ![c] = [sess |-> req[p].sess, exp |-> req[p].at + CodeTTL]]
    BY <1>2 DEF issue_code, Write
  <2>2. /\ wr'[p].newC = {c} /\ wr'[p].newS = wr[p].newS /\ wr'[p].newT = wr[p].newT
        /\ \A q \in Req \ {p} : wr'[q] = wr[q]
    BY <1>w, <2>1 DEF Writes
  <2>3. UNCHANGED <<sRow, sRevoked, sStale, cRow, cConsumed, tRow, tUsed, tRevoked, tInfo, dead, born>>
    BY <1>2 DEF issue_code, sessVars, tokVars, Frame
  <2>4. InsertsPrivate' /\ BornOK'
    BY <2>1, <2>2, <2>3 DEF InsertsPrivate, FreshCode, BornOK
  <2>5. req[p].sess \in Session
    BY <1>2, <1>c DEF issue_code, ArgsFor, SessLabels
  <2>6. cInfo'[c].sess \in Session /\ \A d \in Code \ {c} : cInfo'[d] = cInfo[d]
    BY <2>1, <2>5 DEF TypeOK
  <2>7. RowsOK'
    BY <2>2, <2>3, <2>6 DEF RowsOK, Exists
  <2>8. QED BY <2>4, <2>7
<1>3. CASE issue_family(p) \/ rotate(p)
  <2>1. PICK t \in Token, i \in TokenInfo, w \in Writes :
           /\ FreshToken(t) /\ tInfo' = [tInfo EXCEPT ![t] = i] /\ wr' = [wr EXCEPT ![p] = w]
           /\ i.sess \in Session /\ i.fam \in Token
           /\ w.newT = {t} /\ w.newS = wr[p].newS /\ w.newC = wr[p].newC
           /\ UNCHANGED <<active, sessVars, codeVars, tRow, tUsed, tRevoked>> /\ Frame
    <3>1. CASE issue_family(p)
      <4>1. req[p] \in Request /\ req[p].sess \in Session /\ sAbs[req[p].sess] \in Nat
        BY <3>1, <1>c DEF issue_family, ArgsFor, SessLabels, TypeOK
      <4>2. PICK t \in Token :
               /\ InsertToken(p, t, [sess |-> req[p].sess, fam |-> t, parent |-> None,
                                     code |-> req[p].code, exp |-> sAbs[req[p].sess]])
               /\ Write(p, [wr[p] EXCEPT !.newT = {t}])
        BY <3>1 DEF issue_family
      <4>3. [sess |-> req[p].sess, fam |-> t, parent |-> None,
             code |-> req[p].code, exp |-> sAbs[req[p].sess]] \in TokenInfo
        BY <4>1 DEF TokenInfo, Request
      <4>4. /\ [wr[p] EXCEPT !.newT = {t}] \in Writes
            /\ [wr[p] EXCEPT !.newT = {t}].newT = {t}
            /\ [wr[p] EXCEPT !.newT = {t}].newS = wr[p].newS
            /\ [wr[p] EXCEPT !.newT = {t}].newC = wr[p].newC
        BY <1>w DEF Writes
      <4>5. QED BY <4>1, <4>2, <4>3, <4>4 DEF InsertToken, Write
    <3>2. CASE rotate(p)
      <4> DEFINE o == req[p].tok
      <4>1. o \in tRow /\ o \in Token
        BY <3>2, <1>c DEF rotate, ArgsFor, FoundFor, SessLabels
      <4>2. tInfo[o] \in TokenInfo /\ tInfo[o].sess \in Session /\ tInfo[o].fam \in Token
        BY <4>1 DEF TypeOK, RowsOK, Exists
      <4>3. PICK t \in Token :
               /\ InsertToken(p, t, Child(o, t))
               /\ Write(p, [wr[p] EXCEPT !.used = {o}, !.newT = {t}])
        BY <3>2 DEF rotate
      <4>4. /\ Child(o, t) \in TokenInfo
            /\ Child(o, t).sess \in Session
            /\ Child(o, t).fam \in Token
        BY <4>1, <4>2 DEF Child, TokenInfo
      <4>5. /\ [wr[p] EXCEPT !.used = {o}, !.newT = {t}] \in Writes
            /\ [wr[p] EXCEPT !.used = {o}, !.newT = {t}].newT = {t}
            /\ [wr[p] EXCEPT !.used = {o}, !.newT = {t}].newS = wr[p].newS
            /\ [wr[p] EXCEPT !.used = {o}, !.newT = {t}].newC = wr[p].newC
        BY <1>w, <4>1 DEF Writes
      <4>6. QED BY <4>3, <4>4, <4>5 DEF InsertToken, Write
    <3>3. QED BY <1>3, <3>1, <3>2
  <2>2. /\ wr'[p].newT = {t} /\ wr'[p].newS = wr[p].newS /\ wr'[p].newC = wr[p].newC
        /\ \A q \in Req \ {p} : wr'[q] = wr[q]
    BY <1>w, <2>1
  <2>3. UNCHANGED <<sRow, sRevoked, sStale, cRow, cConsumed, cInfo, tRow, tUsed, tRevoked, dead, born>>
    BY <2>1 DEF sessVars, codeVars, Frame
  <2>4. InsertsPrivate' /\ BornOK'
    BY <2>1, <2>2, <2>3 DEF InsertsPrivate, FreshToken, BornOK
  <2>5. /\ tInfo'[t].sess \in Session /\ tInfo'[t].fam \in Token
        /\ \A v \in Token \ {t} : tInfo'[v] = tInfo[v]
    BY <2>1 DEF TypeOK
  <2>6. RowsOK'
    BY <2>2, <2>3, <2>5 DEF RowsOK, Exists
  <2>7. QED BY <2>4, <2>6
<1>4. QED BY <1>1, <1>2, <1>3

\* So does the end of a transaction, committed or not.
LEMMA EndRows ==
    ASSUME TypeOK, Rows, NEW p \in Req, Commit(p) \/ Undo(p)
    PROVE  Rows'
<1>w. /\ \A q \in Req \ {p} : wr'[q] = wr[q] /\ born'[q] = born[q]
      /\ wr'[p] = NoWrites /\ born'[p] = NoBirth
  BY DEF Commit, Undo, End, TypeOK
<1>n. NoWrites.newS = {} /\ NoWrites.newC = {} /\ NoWrites.newT = {}
      /\ NoBirth.gone = {} /\ NoBirth.used = {} /\ NoBirth.dead = {}
  BY DEF NoWrites, NoBirth
<1> USE DEF Rows
<1>1. CASE Commit(p)
  <2>1. /\ sRow' = sRow \cup wr[p].newS /\ cRow' = cRow \cup wr[p].newC
        /\ tRow' = tRow \cup wr[p].newT /\ cInfo' = cInfo /\ tInfo' = tInfo
        /\ sRevoked \subseteq sRevoked' /\ sStale \subseteq sStale' /\ tUsed \subseteq tUsed'
        /\ dead \subseteq dead'
    BY <1>1 DEF Commit
  <2>2. RowsOK'
    BY <2>1, <1>w, <1>n DEF RowsOK, Exists
  <2>3. InsertsPrivate'
    BY <2>1, <1>w, <1>n DEF InsertsPrivate
  <2>4. BornOK'
    BY <2>1, <1>w, <1>n DEF BornOK
  <2>5. QED BY <2>2, <2>3, <2>4
<1>2. CASE Undo(p)
  <2>1. /\ cInfo' = [c \in Code |-> IF c \in wr[p].newC THEN NoCode ELSE cInfo[c]]
        /\ tInfo' = [t \in Token |-> IF t \in wr[p].newT THEN NoToken ELSE tInfo[t]]
        /\ UNCHANGED <<sRow, sRevoked, sStale, cRow, tRow, tUsed, dead>>
    BY <1>2 DEF Undo
  <2>2. InsertsPrivate' /\ BornOK'
    BY <2>1, <1>w, <1>n DEF InsertsPrivate, BornOK
  <2>3. ASSUME NEW c \in Code, c \in cRow' \/ \E q \in Req : c \in wr'[q].newC
        PROVE  cInfo'[c].sess \in Session
    <3>1. c \notin wr[p].newC /\ (c \in cRow \/ \E q \in Req : c \in wr[q].newC)
      BY <2>1, <2>3, <1>w, <1>n DEF InsertsPrivate
    <3>2. QED BY <2>1, <3>1 DEF RowsOK
  <2>4. ASSUME NEW t \in Token, Exists(t)'
        PROVE  tInfo'[t].sess \in Session /\ tInfo'[t].fam \in Token
    <3>1. t \notin wr[p].newT /\ Exists(t)
      BY <2>1, <2>4, <1>w, <1>n DEF InsertsPrivate, Exists
    <3>2. QED BY <2>1, <3>1 DEF RowsOK
  <2>5. RowsOK'
    BY <2>3, <2>4 DEF RowsOK
  <2>6. QED BY <2>2, <2>5
<1>3. QED BY <1>1, <1>2
-----------------------------------------------------------------------------
(* The inductive invariant.                                                *)

IInv == TypeOK /\ CtlOK /\ Rows

\* Every other request keeps its control, its birth record and its token.
LEMMA OthersKeep ==
    ASSUME TypeOK, CtlOK, NEW p \in Req,
           \A q \in Req \ {p} : pc'[q] = pc[q] /\ req'[q] = req[q] /\ born'[q] = born[q],
           tRow \subseteq tRow', \A t \in tRow : tInfo'[t] = tInfo[t],
           Ctl(pc[p], req[p], born[p])'
    PROVE  CtlOK'
<1>1. ASSUME NEW q \in Req, q # p PROVE Ctl(pc[q], req[q], born[q])'
  <2>1. Ctl(pc[q], req[q], born[q])
    BY DEF CtlOK, ArgsOK, FoundOK, LiveOK, UnusedOK, Ctl
  <2>2. QED BY <1>1, <2>1 DEF Ctl, ArgsFor, FoundFor, LiveFor, UnusedFor
<1>2. \A q \in Req : Ctl(pc[q], req[q], born[q])'
  BY <1>1
<1>3. QED BY <1>2 DEF Ctl, CtlOK, ArgsOK, FoundOK, LiveOK, UnusedOK

\* A freed slot holds nothing.
LEMMA FreeCtl == Ctl("free", NoReq, NoBirth) /\ Ctl("free", NoReq, NoBirth)'
  BY DEF Ctl, ArgsFor, FoundFor, LiveFor, UnusedFor, NoReq, NoBirth, SessLabels, LiveLabels,
         UnusedLabels, Grants

\* A step of p keeps the facts about what its own control and locals imply.
LEMMA StepCtl ==
    ASSUME IInv, NEW p \in Req, Step(p) \/ Crash(p)
    PROVE  CtlOK'
<1> USE DEF IInv
<1>1. CASE Commit(p) \/ Undo(p)
  <2>1. /\ pc'[p] = "free" /\ req'[p] = NoReq /\ born'[p] = NoBirth
        /\ \A q \in Req \ {p} : pc'[q] = pc[q] /\ req'[q] = req[q] /\ born'[q] = born[q]
    BY <1>1 DEF Commit, Undo, End, TypeOK
  <2>2. tRow \subseteq tRow' /\ \A t \in tRow : tInfo'[t] = tInfo[t]
    BY <1>1 DEF Commit, Undo, TypeOK, Rows, InsertsPrivate
  <2>3. QED BY <2>1, <2>2, FreeCtl, OthersKeep
<1>2. CASE Moves(p) /\ Step(p) /\ ~(Commit(p) \/ Undo(p))
  <2>1. born' = born /\ tRow' = tRow /\ \A t \in tRow : tInfo'[t] = tInfo[t]
    <3>1. CASE Quiet
      BY <3>1 DEF Quiet, dbVars
    <3>2. CASE create_session(p) \/ issue_code(p)
      BY <3>2 DEF create_session, issue_code, tokVars, Frame
    <3>3. CASE issue_family(p) \/ rotate(p)
      <4>1. PICK t \in Token : /\ FreshToken(t) /\ tRow' = tRow /\ born' = born
                              /\ \A v \in Token \ {t} : tInfo'[v] = tInfo[v]
        BY <3>3 DEF issue_family, rotate, InsertToken, Frame, TypeOK
      <4>2. QED BY <4>1 DEF FreshToken, TypeOK
    <3>4. QED BY <1>2, <3>1, <3>2, <3>3, StepQuiet
  <2>2. PICK l \in Labels, r \in Request : Goto(p, l, r) /\ Ctl(l, r, born[p])
    BY <1>2 DEF Moves
  <2>3. /\ pc'[p] = l /\ req'[p] = r
        /\ \A q \in Req \ {p} : pc'[q] = pc[q] /\ req'[q] = req[q]
    BY <2>2 DEF Goto, TypeOK
  <2>4. Ctl(pc[p], req[p], born[p])'
    BY <2>1, <2>2, <2>3 DEF Ctl, ArgsFor, FoundFor, LiveFor, UnusedFor
  <2>5. QED BY <2>1, <2>3, <2>4, OthersKeep
<1>3. QED BY <1>1, <1>2, StepMoves DEF Rows, Crash

\* So does an arrival.
LEMMA ArriveCtl ==
    ASSUME IInv, NEW p \in Req, Arrive(p)
    PROVE  CtlOK' /\ Rows'
<1> USE DEF IInv
<1>1. ASSUME NEW kind \in Kinds, NEW l \in Labels, NEW a \in Request, Begin(p, kind, l, a),
             \A b \in Birth : Ctl(l, [a EXCEPT !.kind = kind, !.at = now], b)
      PROVE  CtlOK' /\ Rows'
  <2> DEFINE r == [a EXCEPT !.kind = kind, !.at = now]
             b == [gone |-> sRevoked \cup sStale, used |-> tUsed, dead |-> dead, rows |-> sRow]
  <2>1. /\ pc'[p] = l /\ req'[p] = r /\ born'[p] = b
        /\ \A q \in Req \ {p} : pc'[q] = pc[q] /\ req'[q] = req[q] /\ born'[q] = born[q]
        /\ UNCHANGED <<dbVars, wr, dead>>
    BY <1>1 DEF Begin, TypeOK
  <2>2. b \in Birth
    BY DEF TypeOK, Birth
  <2>3. Ctl(l, r, b)
    BY <1>1, <2>2
  <2>4. Ctl(pc[p], req[p], born[p])'
    BY <2>1, <2>3 DEF Ctl, ArgsFor, FoundFor, LiveFor, UnusedFor, dbVars
  <2>5. CtlOK'
    BY <2>1, <2>4, OthersKeep DEF dbVars
  <2>6. RowsOK' /\ InsertsPrivate'
    BY <2>1 DEF Rows, RowsOK, Exists, InsertsPrivate, dbVars
  <2>7. BornOK'
    BY <2>1 DEF Rows, BornOK, dbVars
  <2>8. QED BY <2>5, <2>6, <2>7 DEF Rows
<1> USE DEF Kinds, Labels
<1>d. \A l \in {"create", "session", "consume", "find", "select", "patch"}, r \in Request, b \in Birth :
         /\ r.res = "none" /\ r.kind # "none" /\ ArgsFor(l, r)
         /\ l = "session" => r.kind \notin {"refresh", "revoke"}
         => Ctl(l, r, b)
  BY DEF Ctl, FoundFor, LiveFor, UnusedFor, SessLabels, LiveLabels, UnusedLabels, Grants
<1>2. ASSUME NEW u \in User, Login(p, u) PROVE CtlOK' /\ Rows'
  <2> DEFINE a == [NoReq EXCEPT !.user = u]
             r == [a EXCEPT !.kind = "login", !.at = now]
  <2>1. a \in Request /\ r \in Request
    BY Literals DEF Request, TypeOK
  <2>2. r.res = "none" /\ r.kind = "login" /\ ArgsFor("create", r)
    BY DEF NoReq, ArgsFor, SessLabels, Grants
  <2>3. \A b \in Birth : Ctl("create", r, b)
    BY <2>1, <2>2, <1>d
  <2>4. Begin(p, "login", "create", a)
    BY <1>2 DEF Login
  <2>5. QED BY <2>1, <2>3, <2>4, <1>1
<1>3. ASSUME NEW kind \in {"authorize", "logout", "userinfo", "api"}, NEW a \in Request,
             a.sess \in Session, a.tok = None, a.res = "none", Begin(p, kind, "session", a)
      PROVE  CtlOK' /\ Rows'
  <2> DEFINE r == [a EXCEPT !.kind = kind, !.at = now]
  <2>1. r \in Request /\ r.sess \in Session /\ r.tok = None /\ r.res = "none" /\ r.kind = kind
    BY <1>3 DEF Request, TypeOK
  <2>2. ArgsFor("session", r)
    BY <2>1 DEF ArgsFor, SessLabels, Grants
  <2>3. \A b \in Birth : Ctl("session", r, b)
    BY <2>1, <2>2, <1>d
  <2>4. kind \in Kinds /\ "session" \in Labels
    OBVIOUS
  <2> HIDE DEF Kinds, Labels
  <2>5. QED BY <1>3, <2>3, <2>4, <1>1
<1>4. ASSUME NEW s \in Session, authorize(p, s) \/ logout(p, s) PROVE CtlOK' /\ Rows'
  <2> DEFINE a == [NoReq EXCEPT !.sess = s]
  <2>1. a \in Request /\ a.sess \in Session /\ a.tok = None /\ a.res = "none"
    BY Literals DEF NoReq, Request
  <2>2. Begin(p, "authorize", "session", a) \/ Begin(p, "logout", "session", a)
    BY <1>4 DEF authorize, logout
  <2>3. QED BY <1>3, <2>1, <2>2
<1>5. ASSUME NEW s \in Session, NEW k \in {"userinfo", "api"}, NEW ip \in BOOLEAN,
             Resource(p, s, k, ip)
      PROVE CtlOK' /\ Rows'
  <2> DEFINE a == [NoReq EXCEPT !.sess = s, !.ip = ip]
  <2>1. a \in Request /\ a.sess \in Session /\ a.tok = None /\ a.res = "none"
    BY Literals DEF NoReq, Request
  <2>2. Begin(p, k, "session", a)
    BY <1>5 DEF Resource
  <2>3. QED BY <1>3, <2>1, <2>2
<1>6. ASSUME NEW c \in Code, NEW match \in BOOLEAN, TokenByCode(p, c, match)
      PROVE  CtlOK' /\ Rows'
  <2> DEFINE a == [NoReq EXCEPT !.code = c, !.match = match]
             r == [a EXCEPT !.kind = "code", !.at = now]
  <2>1. a \in Request /\ r \in Request
    BY Literals DEF Request, TypeOK
  <2>2. r.res = "none" /\ r.kind = "code" /\ ArgsFor("consume", r)
    BY DEF NoReq, ArgsFor, SessLabels, Grants
  <2>3. \A b \in Birth : Ctl("consume", r, b)
    BY <2>1, <2>2, <1>d
  <2>4. Begin(p, "code", "consume", a)
    BY <1>6 DEF TokenByCode
  <2>5. QED BY <2>1, <2>3, <2>4, <1>1
<1>7. ASSUME NEW t \in Token, NEW match \in BOOLEAN, NEW key \in BOOLEAN,
             TokenByRefresh(p, t, match, key)
      PROVE CtlOK' /\ Rows'
  <2> DEFINE a == [NoReq EXCEPT !.tok = t, !.match = match, !.key = key]
             r == [a EXCEPT !.kind = "refresh", !.at = now]
  <2>1. a \in Request /\ r \in Request
    BY Literals DEF Request, TypeOK
  <2>2. r.res = "none" /\ r.kind = "refresh" /\ ArgsFor("find", r)
    BY DEF NoReq, ArgsFor, SessLabels, Grants
  <2>3. \A b \in Birth : Ctl("find", r, b)
    BY <2>1, <2>2, <1>d
  <2>4. Begin(p, "refresh", "find", a)
    BY <1>7 DEF TokenByRefresh
  <2>5. QED BY <2>1, <2>3, <2>4, <1>1
<1>8. ASSUME NEW t \in Token, NEW key \in BOOLEAN, revoke_endpoint(p, t, key)
      PROVE CtlOK' /\ Rows'
  <2> DEFINE a == [NoReq EXCEPT !.tok = t, !.key = key]
             r == [a EXCEPT !.kind = "revoke", !.at = now]
  <2>1. a \in Request /\ r \in Request
    BY Literals DEF Request, TypeOK
  <2>2. r.res = "none" /\ r.kind = "revoke" /\ ArgsFor("find", r)
    BY DEF NoReq, ArgsFor, SessLabels, Grants
  <2>3. \A b \in Birth : Ctl("find", r, b)
    BY <2>1, <2>2, <1>d
  <2>4. Begin(p, "revoke", "find", a)
    BY <1>8 DEF revoke_endpoint
  <2>5. QED BY <2>1, <2>3, <2>4, <1>1
<1>9. ASSUME NEW u \in User, NEW keep \in Session \cup {None}, RevokeAll(p, u, keep)
      PROVE CtlOK' /\ Rows'
  <2> DEFINE a == [NoReq EXCEPT !.user = u, !.keep = keep]
             r == [a EXCEPT !.kind = "revokeAll", !.at = now]
  <2>1. a \in Request /\ r \in Request
    BY Literals DEF Request, TypeOK
  <2>2. r.res = "none" /\ r.kind = "revokeAll" /\ ArgsFor("select", r)
    BY DEF NoReq, ArgsFor, SessLabels, Grants
  <2>3. \A b \in Birth : Ctl("select", r, b)
    BY <2>1, <2>2, <1>d
  <2>4. Begin(p, "revokeAll", "select", a)
    BY <1>9 DEF RevokeAll
  <2>5. QED BY <2>1, <2>3, <2>4, <1>1
<1>10. ASSUME NEW u \in User, NEW enable \in BOOLEAN, PatchStatus(p, u, enable)
       PROVE CtlOK' /\ Rows'
  <2> DEFINE a == [NoReq EXCEPT !.user = u, !.match = enable]
             r == [a EXCEPT !.kind = "patch", !.at = now]
  <2>1. a \in Request /\ r \in Request
    BY Literals DEF Request, TypeOK
  <2>2. r.res = "none" /\ r.kind = "patch" /\ ArgsFor("patch", r)
    BY DEF NoReq, ArgsFor, SessLabels, Grants
  <2>3. \A b \in Birth : Ctl("patch", r, b)
    BY <2>1, <2>2, <1>d
  <2>4. Begin(p, "patch", "patch", a)
    BY <1>10 DEF PatchStatus
  <2>5. QED BY <2>1, <2>3, <2>4, <1>1
<1>11. QED
  BY <1>2, <1>4, <1>5, <1>6, <1>7, <1>8, <1>9, <1>10 DEF Arrive

\* The invariant is inductive.
THEOREM InvInductive == Spec => []IInv
<1>1. Init => IInv
  <2> SUFFICES ASSUME Init PROVE IInv
    OBVIOUS
  <2>1. TypeOK
    <3>1. "free" \in Labels BY DEF Labels
    <3>2. QED BY <3>1, Literals DEF Init, TypeOK
  <2>2. CtlOK
    BY FreeCtl DEF Init, CtlOK, ArgsOK, FoundOK, LiveOK, UnusedOK, Ctl
  <2>3. Rows
    BY DEF Init, Rows, RowsOK, Exists, InsertsPrivate, BornOK, NoWrites, NoBirth
  <2>4. QED BY <2>1, <2>2, <2>3 DEF IInv
<1>2. IInv /\ [Next]_vars => IInv'
  <2> SUFFICES ASSUME IInv, [Next]_vars PROVE IInv'
    OBVIOUS
  <2>i. TypeOK /\ CtlOK /\ Rows /\ ArgsOK /\ FoundOK /\ RowsOK
    BY DEF IInv, CtlOK, Rows
  <2>1. CASE Tick \/ UNCHANGED vars
    <3>1. UNCHANGED <<dbVars, access, pc, req, wr, dead, born>> /\ now' \in Nat
      BY <2>i, <2>1 DEF Tick, vars, TypeOK
    <3>2. TypeOK'
      BY <2>i, <3>1 DEF TypeOK, dbVars
    <3>3. CtlOK'
      BY <2>i, <3>1 DEF CtlOK, ArgsOK, FoundOK, LiveOK, UnusedOK, ArgsFor, FoundFor, LiveFor,
                        UnusedFor, dbVars
    <3>4. Rows'
      BY <2>i, <3>1, QuietRows DEF Quiet
    <3>5. QED BY <3>2, <3>3, <3>4 DEF IInv
  <2>2. ASSUME NEW p \in Req, Arrive(p) PROVE IInv'
    BY <2>i, <2>2, ArriveType, ArriveCtl DEF IInv
  <2>3. ASSUME NEW p \in Req, Step(p) PROVE IInv'
    <3>1. TypeOK'
      BY <2>i, <2>3, StepType
    <3>2. CtlOK'
      BY <2>3, StepCtl
    <3>3. Rows'
      BY <2>i, <2>3, StepQuiet, QuietRows, InsertRows, EndRows
    <3>4. QED BY <3>1, <3>2, <3>3 DEF IInv
  <2>4. ASSUME NEW p \in Req, Crash(p) PROVE IInv'
    BY <2>i, <2>4, UndoType, StepCtl, EndRows DEF IInv, Crash
  <2>5. QED BY <2>1, <2>2, <2>3, <2>4 DEF Next
<1>3. QED BY <1>1, <1>2, PTL DEF Spec

\* Every table column, lock set and request variable keeps its type, whatever
\* requests run concurrently (the foreign keys of db/models.py included: a
\* session id that a step dereferences is always a row's).
THEOREM TypeCorrect == Spec => []TypeOK
<1>1. IInv => TypeOK
  BY DEF IInv
<1>2. QED BY <1>1, InvInductive, PTL

\* A request that begins after a session was revoked or marked stale gets no
\* code, no token and no resource from it: for any number of concurrent
\* requests, crashes and deadlock victims.
THEOREM RevocationIsFinal == Spec => []NoGrantAfterRevocation
<1>1. IInv => NoGrantAfterRevocation
  BY DEF IInv, CtlOK, LiveOK, LiveFor, NoGrantAfterRevocation
<1>2. QED BY <1>1, InvInductive, PTL

\* A refresh token whose use is committed is never rotated by a later request.
THEOREM UsedTokenIsFinal == Spec => []NoRotationOfUsedToken
<1>1. IInv => NoRotationOfUsedToken
  BY DEF IInv, CtlOK, UnusedOK, UnusedFor, NoRotationOfUsedToken
<1>2. QED BY <1>1, InvInductive, PTL

-----------------------------------------------------------------------------
(* Second invariant: codes, families and the sessions behind them.         *)

\* A request past check_liveness works on a committed session within its bound.
AliveFor(l, r) ==
    l \in LiveLabels \/ r.res \in Grants => r.sess \in sRow /\ r.at < sAbs[r.sess]
AliveOK == \A p \in Req : AliveFor(pc[p], req[p])

\* A code grant past its UPDATE has consumed the code and issued nothing yet.
CodeLabels == {"session", "idle", "stale", "touch", "user", "issue"}
CodeFor(l, r, w) ==
    /\ l \in {"free", "consume"} => w.newT = {}
    /\ r.kind = "code" /\ l \in CodeLabels => w.newT = {} /\ r.code \in w.cons
CodeOK == \A p \in Req : CodeFor(pc[p], req[p], wr[p])

\* A reuse or revocation that is done has its session revoked.
KilledFor(r, w) ==
    r.kind \in {"refresh", "revoke"} /\ r.res = "killed" => r.sess \in sRevoked \cup w.revS
KilledOK == \A p \in Req : KilledFor(req[p], wr[p])

\* A revoke-all has still to do, is doing or has done every session it owes.
Owed(r, b) == {s \in b.rows : sUser[s] = r.user /\ s # r.keep}
LoopLabels == {"bysess", "revT", "revS"}
LoopFor(l, r, w, b) ==
    /\ l = "next" => Owed(r, b) \subseteq r.todoS \cup sRevoked \cup w.revS
    /\ r.kind \in {"revokeAll", "patch"} /\ l \in LoopLabels
         => Owed(r, b) \subseteq {r.sess} \cup r.todoS \cup sRevoked \cup w.revS
    /\ r.res = "revokedAll" => Owed(r, b) \subseteq sRevoked \cup w.revS
LoopOK == \A p \in Req : LoopFor(pc[p], req[p], wr[p], born[p])

\* A code is consumed once.
ConsOK ==
    /\ \A p \in Req : wr[p].cons \cap cConsumed = {}
    /\ \A p, q \in Req : p # q => wr[p].cons \cap wr[q].cons = {}

\* A token and its parent, its family and its session.
Linked(t) ==
    /\ tInfo[t].sess \in sRow /\ tInfo[t].exp = sAbs[tInfo[t].sess]
    /\ tInfo[t].fam = t \/ tInfo[t].fam \in tRow
    /\ tInfo[tInfo[t].fam].sess = tInfo[t].sess
    /\ tInfo[t].parent # None =>
          /\ tInfo[t].parent \in tRow
          /\ tInfo[t].sess = tInfo[tInfo[t].parent].sess
          /\ tInfo[t].fam = tInfo[tInfo[t].parent].fam

\* What marks a token's origin: its code is consumed, or its parent used.
Marked(t, cons, used) ==
    /\ tInfo[t].parent = None => tInfo[t].code \in cons
    /\ tInfo[t].parent # None => tInfo[t].parent \in used
TokensOK ==
    /\ \A t \in tRow : Linked(t) /\ Marked(t, cConsumed, tUsed)
    /\ \A p \in Req : \A t \in wr[p].newT : Linked(t) /\ Marked(t, wr[p].cons, wr[p].used)

\* The session of a dead family is revoked, and was when a request found it so.
DeadOK ==
    /\ \A f \in dead : f \in tRow /\ tInfo[f].sess \in sRevoked
    /\ \A p \in Req : /\ \A f \in born[p].dead : f \in tRow /\ tInfo[f].sess \in born[p].gone
                      /\ born[p].rows \subseteq sRow

ReqsOK == AliveOK /\ CodeOK /\ KilledOK /\ LoopOK
FamiliesOK == ConsOK /\ TokensOK /\ DeadOK /\ OneFamilyPerCode
JInv == ReqsOK /\ FamiliesOK

\* Nothing is stored and nobody is served in the initial state.
LEMMA InitJ == Init => JInv
<1> SUFFICES ASSUME Init PROVE JInv
  OBVIOUS
<1>1. /\ NoReq.kind = "none" /\ NoReq.res = "none" /\ NoWrites.newT = {} /\ NoWrites.cons = {}
      /\ NoBirth.dead = {} /\ NoBirth.rows = {}
  BY DEF NoReq, NoWrites, NoBirth
<1>2. ReqsOK
  BY <1>1 DEF Init, ReqsOK, AliveOK, AliveFor, LiveLabels, Grants, CodeOK, CodeFor, CodeLabels,
              KilledOK, KilledFor, LoopOK, LoopFor, LoopLabels
<1>3. FamiliesOK
  BY <1>1 DEF Init, FamiliesOK, ConsOK, TokensOK, DeadOK, OneFamilyPerCode, Exists
<1>4. QED BY <1>2, <1>3 DEF JInv

\* A step of p leaves the other requests alone.
Apart(p) ==
    \A q \in Req \ {p} :
        pc'[q] = pc[q] /\ req'[q] = req[q] /\ wr'[q] = wr[q] /\ born'[q] = born[q]

\* Goto moves p alone.
LEMMA GotoApart ==
    ASSUME TypeOK, NEW p \in Req, NEW l, NEW r, Goto(p, l, r)
    PROVE  /\ pc'[p] = l /\ req'[p] = r
           /\ \A q \in Req \ {p} : pc'[q] = pc[q] /\ req'[q] = req[q]
  BY DEF TypeOK, Goto

\* Write is p's own.
LEMMA WriteApart ==
    ASSUME TypeOK, NEW p \in Req, NEW w, Write(p, w)
    PROVE  wr'[p] = w /\ \A q \in Req \ {p} : wr'[q] = wr[q]
  BY DEF TypeOK, Write

\* Every statement of a handler, its commit and its rollback are p's own.
LEMMA StepApart ==
    ASSUME IInv, NEW p \in Req, Step(p) \/ Crash(p)
    PROVE  Apart(p)
<1>t. TypeOK /\ CtlOK /\ RowsOK /\ BornOK
  BY DEF IInv, Rows
<1>1. CASE Commit(p) \/ Undo(p)
  BY <1>1, <1>t DEF Commit, Undo, End, TypeOK, Apart
<1>2. CASE Step(p) /\ ~(Commit(p) \/ Undo(p))
  <2>1. \A q \in Req \ {p} : pc'[q] = pc[q] /\ req'[q] = req[q]
    BY <1>2, <1>t, StepMoves, GotoApart DEF Moves
  <2>2. born' = born /\ (wr' = wr \/ \E w : Write(p, w))
    <3>1. CASE \/ check_liveness(p) \/ check_user(p) \/ find_consumed(p) \/ find(p) \/ Respond(p)
               \/ revoke_family(p) \/ revoke_for_session(p) \/ patch_user(p)
               \/ select_sessions(p) \/ next_session(p)
      BY <3>1 DEF check_liveness, check_user, find_consumed, find, Respond, revoke_family,
                  revoke_for_session, patch_user, select_sessions, next_session, Local, Frame
    <3>2. CASE \/ idle_timeout(p) \/ mark_stale(p) \/ touch(p) \/ revoke(p) \/ consume_code(p)
               \/ UpdateRevoked(p) \/ set_status(p)
      BY <3>2 DEF idle_timeout, mark_stale, touch, revoke, consume_code, UpdateRevoked,
                  set_status, Frame
    <3>3. CASE create_session(p) \/ issue_code(p) \/ issue_family(p) \/ rotate(p)
      BY <3>3 DEF create_session, issue_code, issue_family, rotate, InsertToken, Frame
    <3>4. QED
      BY <1>2, <3>1, <3>2, <3>3 DEF Step, Rollback, DeadlockVictim, OutOfIds
  <2>3. \A q \in Req \ {p} : wr'[q] = wr[q]
    BY <2>2, <1>t, WriteApart
  <2>4. QED BY <2>1, <2>2, <2>3 DEF Apart
<1>3. QED BY <1>1, <1>2 DEF Crash

\* Committed rows stay, and a request's own rows are touched by nobody else.
Stored(p) ==
    /\ sRow \subseteq sRow' /\ sRevoked \subseteq sRevoked' /\ tRow \subseteq tRow'
    /\ \A s \in sRow : sAbs'[s] = sAbs[s] /\ sUser'[s] = sUser[s]
    /\ \A t \in tRow : tInfo'[t] = tInfo[t]
    /\ \A q \in Req \ {p} : \A t \in wr[q].newT : tInfo'[t] = tInfo[t]

\* No statement, commit or rollback changes a row another request relies on.
LEMMA StepStored ==
    ASSUME IInv, NEW p \in Req, Step(p) \/ Crash(p)
    PROVE  Stored(p)
<1>t. TypeOK /\ InsertsPrivate
  BY DEF IInv, Rows
<1>1. CASE Commit(p)
  BY <1>1 DEF Commit, Stored
<1>2. CASE Undo(p)
  <2>1. UNCHANGED <<sRow, sRevoked, tRow>>
    BY <1>2 DEF Undo
  <2>2. \A s \in sRow : sAbs'[s] = sAbs[s] /\ sUser'[s] = sUser[s]
    BY <1>2, <1>t DEF Undo, InsertsPrivate, TypeOK
  <2>3. \A t \in Token : t \notin wr[p].newT => tInfo'[t] = tInfo[t]
    BY <1>2 DEF Undo
  <2>4. \A q \in Req : wr[q].newT \subseteq Token
    BY <1>t DEF TypeOK, Writes
  <2>5. \A q \in Req \ {p} : \A t \in wr[q].newT : t \notin wr[p].newT
    BY <1>t DEF InsertsPrivate
  <2>6. \A t \in tRow : t \in Token /\ t \notin wr[p].newT
    BY <1>t DEF InsertsPrivate, TypeOK
  <2>7. QED BY <2>1, <2>2, <2>3, <2>4, <2>5, <2>6 DEF Stored
<1>3. CASE Quiet
  BY <1>3 DEF Quiet, dbVars, Stored
<1>4. CASE create_session(p)
  <2>1. PICK s \in Session : /\ FreshSession(s) /\ UNCHANGED <<sRow, sRevoked, tRow, tInfo>>
                             /\ \A v \in Session \ {s} : sAbs'[v] = sAbs[v] /\ sUser'[v] = sUser[v]
    BY <1>4, <1>t DEF create_session, tokVars, TypeOK
  <2>2. QED BY <2>1, <1>t DEF FreshSession, Stored, TypeOK
<1>5. CASE issue_code(p)
  BY <1>5 DEF issue_code, sessVars, tokVars, Stored
<1>6. CASE issue_family(p) \/ rotate(p)
  <2>1. PICK t \in Token : /\ FreshToken(t) /\ UNCHANGED <<sRow, sRevoked, sAbs, sUser, tRow>>
                           /\ \A v \in Token \ {t} : tInfo'[v] = tInfo[v]
    BY <1>6, <1>t DEF issue_family, rotate, InsertToken, sessVars, TypeOK
  <2>2. \A q \in Req : wr[q].newT \subseteq Token
    BY <1>t DEF TypeOK, Writes
  <2>3. QED BY <2>1, <2>2, <1>t DEF FreshToken, Stored, TypeOK
<1>7. QED BY <1>1, <1>2, <1>3, <1>4, <1>5, <1>6, <1>t, StepQuiet DEF Crash

\* What the invariant says of the other requests stays so.
LEMMA OthersJ ==
    ASSUME IInv, JInv, NEW p \in Req, Apart(p), Stored(p), NEW q \in Req, q # p
    PROVE  /\ AliveFor(pc[q], req[q])' /\ CodeFor(pc[q], req[q], wr[q])'
           /\ KilledFor(req[q], wr[q])' /\ LoopFor(pc[q], req[q], wr[q], born[q])'
<1>s. pc'[q] = pc[q] /\ req'[q] = req[q] /\ wr'[q] = wr[q] /\ born'[q] = born[q]
  BY DEF Apart
<1>1. AliveFor(pc[q], req[q])'
  BY <1>s DEF JInv, ReqsOK, AliveOK, AliveFor, Stored
<1>2. CodeFor(pc[q], req[q], wr[q])'
  BY <1>s DEF JInv, ReqsOK, CodeOK, CodeFor
<1>3. KilledFor(req[q], wr[q])'
  BY <1>s DEF JInv, ReqsOK, KilledOK, KilledFor, Stored
<1>4. LoopFor(pc[q], req[q], wr[q], born[q])'
  <2>1. born[q].rows \subseteq sRow
    BY DEF JInv, FamiliesOK, DeadOK
  <2>2. \A s \in born[q].rows : sUser'[s] = sUser[s]
    BY <2>1 DEF Stored
  <2>3. LoopFor(pc[q], req[q], wr[q], born[q]) /\ sRevoked \subseteq sRevoked'
    BY DEF JInv, ReqsOK, LoopOK, Stored
  <2>4. QED BY <1>s, <2>2, <2>3 DEF LoopFor, Owed
<1>5. QED BY <1>1, <1>2, <1>3, <1>4

\* So a step has to account for its own request only.
LEMMA ReqsStep ==
    ASSUME IInv, JInv, NEW p \in Req, Apart(p), Stored(p),
           AliveFor(pc[p], req[p])', CodeFor(pc[p], req[p], wr[p])',
           KilledFor(req[p], wr[p])', LoopFor(pc[p], req[p], wr[p], born[p])'
    PROVE  ReqsOK'
<1>1. \A q \in Req : /\ AliveFor(pc[q], req[q])' /\ CodeFor(pc[q], req[q], wr[q])'
                     /\ KilledFor(req[q], wr[q])' /\ LoopFor(pc[q], req[q], wr[q], born[q])'
  BY OthersJ
<1>2. QED BY <1>1 DEF ReqsOK, AliveOK, CodeOK, KilledOK, LoopOK

-----------------------------------------------------------------------------
(* Codes and families, one kind of step at a time.                         *)

\* A step that touches no token and no consumed code keeps the families; a request
\* that begins finds the sessions of the dead ones revoked.
LEMMA SameFamilies ==
    ASSUME IInv, FamiliesOK,
           UNCHANGED <<sRow, sRevoked, cConsumed, tRow, tUsed, tInfo, dead>>,
           \A s \in sRow : sAbs'[s] = sAbs[s],
           \A q \in Req : /\ wr'[q].newT = wr[q].newT /\ wr'[q].cons = wr[q].cons
                          /\ wr'[q].used = wr[q].used,
           \A q \in Req : \/ born'[q] = born[q]
                          \/ /\ born'[q].dead = dead /\ sRevoked \subseteq born'[q].gone
                             /\ born'[q].rows \subseteq sRow
    PROVE  FamiliesOK'
<1> USE DEF FamiliesOK
<1>1. ConsOK'
  BY DEF ConsOK
<1>2. \A t \in Token : Linked(t) => Linked(t)'
  BY DEF Linked
<1>3. tRow \subseteq Token /\ \A q \in Req : wr[q].newT \subseteq Token
  BY DEF IInv, TypeOK, Writes
<1>4. TokensOK'
  BY <1>2, <1>3 DEF TokensOK, Marked
<1>5. DeadOK'
  BY DEF DeadOK
<1>6. OneFamilyPerCode'
  BY DEF OneFamilyPerCode, Exists
<1>7. QED BY <1>1, <1>4, <1>5, <1>6

\* The conditional UPDATE takes a code nobody has consumed or is consuming, and its
\* request has issued nothing yet.
LEMMA ConsumeFamilies ==
    ASSUME IInv, JInv, NEW p \in Req, consume_code(p)
    PROVE  FamiliesOK'
<1>t. TypeOK /\ wr[p] \in Writes /\ Apart(p)
  BY StepApart DEF IInv, TypeOK, Step
<1>1. pc[p] = "consume" /\ ~Waits(p) /\ UNCHANGED <<dbVars, dead, born>>
  BY DEF consume_code, Frame
<1>2. wr[p].newT = {}
  BY <1>1 DEF JInv, ReqsOK, CodeOK, CodeFor
<1>3. CASE Unconsumed(req[p].code, req[p].at)
  <2>1. Write(p, [wr[p] EXCEPT !.cons = {req[p].code}])
    BY <1>3 DEF consume_code
  <2>2. wr'[p].cons = {req[p].code} /\ wr'[p].newT = {} /\ wr'[p].used = wr[p].used
    BY <1>t, <1>2, <2>1, WriteApart DEF Writes
  <2>3. req[p].code \notin cConsumed
    BY <1>3 DEF Unconsumed
  <2>4. \A q \in Req \ {p} : req[p].code \notin wr[q].cons
    BY <1>1 DEF Waits, WaitsFor, WantedCode
  <2>5. \A q \in Req \ {p} : wr'[q] = wr[q]
    BY <1>t DEF Apart
  <2>6. ConsOK'
    <3>1. \A q \in Req : wr'[q].cons \cap cConsumed' = {}
      BY <1>1, <2>2, <2>3, <2>5 DEF JInv, FamiliesOK, ConsOK, dbVars
    <3>2. \A q, v \in Req : q # v => wr'[q].cons \cap wr'[v].cons = {}
      BY <2>2, <2>4, <2>5 DEF JInv, FamiliesOK, ConsOK
    <3>3. QED BY <3>1, <3>2 DEF ConsOK
  <2>7. \A q \in Req : wr'[q].newT = wr[q].newT
    BY <1>2, <2>2, <2>5
  <2>8. \A t : Linked(t) => Linked(t)'
    BY <1>1 DEF Linked, dbVars
  <2>9. TokensOK'
    BY <1>1, <2>2, <2>5, <2>8 DEF JInv, FamiliesOK, TokensOK, Marked, dbVars
  <2>10. DeadOK' /\ OneFamilyPerCode'
    BY <1>1, <2>7 DEF JInv, FamiliesOK, DeadOK, OneFamilyPerCode, Exists, dbVars
  <2>11. QED BY <2>6, <2>9, <2>10 DEF FamiliesOK
<1>4. CASE ~Unconsumed(req[p].code, req[p].at)
  <2>1. \A q \in Req : wr'[q] = wr[q]
    BY <1>t, <1>4, WriteApart DEF consume_code
  <2>2. QED BY <1>1, <2>1, SameFamilies DEF JInv, dbVars
<1>5. QED BY <1>3, <1>4

\* A first token: its code is the one its request consumed, so no other token is the
\* first of a family of that code.
LEMMA IssueFamilies ==
    ASSUME IInv, JInv, NEW p \in Req, issue_family(p)
    PROVE  FamiliesOK'
<1>t. /\ TypeOK /\ wr[p] \in Writes /\ Apart(p) /\ Stored(p) /\ req[p] \in Request
      /\ InsertsPrivate
  BY StepApart, StepStored DEF IInv, Rows, TypeOK, Step
<1>1. PICK t \in Token :
         /\ FreshToken(t)
         /\ tInfo' = [tInfo EXCEPT ![t] = [sess |-> req[p].sess, fam |-> t, parent |-> None,
                                           code |-> req[p].code, exp |-> sAbs[req[p].sess]]]
         /\ Write(p, [wr[p] EXCEPT !.newT = {t}])
  BY DEF issue_family, InsertToken
<1>2. UNCHANGED <<sRow, sRevoked, sAbs, cConsumed, tRow, tUsed, dead, born>>
      /\ pc[p] = "issue" /\ req[p].kind = "code"
  BY DEF issue_family, InsertToken, sessVars, codeVars, Frame
<1>3. /\ tInfo'[t].sess = req[p].sess /\ tInfo'[t].fam = t /\ tInfo'[t].parent = None
      /\ tInfo'[t].code = req[p].code /\ tInfo'[t].exp = sAbs[req[p].sess]
      /\ \A v \in Token \ {t} : tInfo'[v] = tInfo[v]
  BY <1>t, <1>1 DEF TypeOK
<1>4. wr'[p].newT = {t} /\ wr'[p].cons = wr[p].cons /\ wr'[p].used = wr[p].used
  BY <1>t, <1>1, WriteApart DEF Writes
<1>5. \A q \in Req \ {p} : wr'[q] = wr[q]
  BY <1>t DEF Apart
<1>6. req[p].sess \in sRow /\ req[p].code \in wr[p].cons /\ wr[p].newT = {}
  BY <1>2 DEF JInv, ReqsOK, AliveOK, AliveFor, LiveLabels, CodeOK, CodeFor, CodeLabels
<1>7. /\ tRow \subseteq Token /\ t \notin tRow
      /\ \A q \in Req : wr[q].newT \subseteq Token /\ t \notin wr[q].newT
  BY <1>t, <1>1 DEF TypeOK, Writes, FreshToken
<1>8. ConsOK'
  BY <1>2, <1>4, <1>5 DEF JInv, FamiliesOK, ConsOK
<1>9. \A v \in Token \ {t} : Linked(v) => Linked(v)'
  <2> SUFFICES ASSUME NEW v \in Token, v # t, Linked(v) PROVE Linked(v)'
    OBVIOUS
  <2>1. tInfo'[v] = tInfo[v] /\ (tInfo[v].fam = v \/ tInfo[v].fam \in tRow)
    BY <1>3 DEF Linked
  <2>2. tInfo'[tInfo[v].fam] = tInfo[tInfo[v].fam]
    BY <1>3, <1>7, <2>1
  <2>3. tInfo[v].parent # None => tInfo'[tInfo[v].parent] = tInfo[tInfo[v].parent]
    BY <1>3, <1>7 DEF Linked
  <2>4. QED BY <1>2, <2>1, <2>2, <2>3 DEF Linked
<1>10. Linked(t)'
  BY <1>2, <1>3, <1>6 DEF Linked
<1>11. TokensOK'
  <2>1. \A v \in tRow' : Linked(v)' /\ Marked(v, cConsumed, tUsed)'
    BY <1>2, <1>3, <1>7, <1>9 DEF JInv, FamiliesOK, TokensOK, Marked
  <2>2. \A q \in Req \ {p} : \A v \in wr'[q].newT : Linked(v)' /\ Marked(v, wr[q].cons, wr[q].used)'
    BY <1>2, <1>3, <1>5, <1>7, <1>9 DEF JInv, FamiliesOK, TokensOK, Marked
  <2>3. \A v \in wr'[p].newT : Linked(v)' /\ Marked(v, wr[p].cons, wr[p].used)'
    BY <1>3, <1>4, <1>6, <1>10 DEF Marked
  <2>4. QED BY <2>1, <2>2, <2>3 DEF TokensOK
<1>12. DeadOK'
  BY <1>2, <1>3, <1>7 DEF JInv, FamiliesOK, DeadOK
<1>13. OneFamilyPerCode'
  <2>1. \A v \in Token : Exists(v)' => v = t \/ Exists(v)
    BY <1>2, <1>4, <1>5 DEF Exists
  <2>2. ASSUME NEW v \in Token, v # t, Exists(v), tInfo[v].parent = None PROVE tInfo[v].code # req[p].code
    <3>1. CASE v \in tRow
      <4>1. tInfo[v].code \in cConsumed
        BY <2>2, <3>1 DEF JInv, FamiliesOK, TokensOK, Marked
      <4>2. QED BY <1>6, <4>1 DEF JInv, FamiliesOK, ConsOK
    <3>2. CASE v \notin tRow
      <4>1. PICK q \in Req : v \in wr[q].newT
        BY <2>2, <3>2 DEF Exists
      <4>2. q # p /\ tInfo[v].code \in wr[q].cons
        BY <1>6, <2>2, <4>1 DEF JInv, FamiliesOK, TokensOK, Marked
      <4>3. QED BY <1>6, <4>2 DEF JInv, FamiliesOK, ConsOK
    <3>3. QED BY <3>1, <3>2
  <2>3. ASSUME NEW u \in Token, NEW v \in Token, Exists(u)', tInfo'[u].parent = None,
               Exists(v)', tInfo'[v].parent = None, tInfo'[u].code = tInfo'[v].code
        PROVE  u = v
    <3>1. CASE u # t /\ v # t
      BY <1>3, <2>1, <2>3, <3>1 DEF JInv, FamiliesOK, OneFamilyPerCode
    <3>2. CASE u = t /\ v # t
      BY <1>3, <2>1, <2>2, <2>3, <3>2
    <3>3. CASE u # t /\ v = t
      BY <1>3, <2>1, <2>2, <2>3, <3>3
    <3>4. QED BY <3>1, <3>2, <3>3
  <2>4. QED BY <2>3 DEF OneFamilyPerCode
<1>14. QED BY <1>8, <1>11, <1>12, <1>13 DEF FamiliesOK

\* A rotation: the child has the session, family and bound of the committed parent
\* its request marks used.
LEMMA RotateFamilies ==
    ASSUME IInv, JInv, NEW p \in Req, rotate(p)
    PROVE  FamiliesOK'
<1>t. /\ TypeOK /\ wr[p] \in Writes /\ Apart(p) /\ req[p] \in Request /\ InsertsPrivate
      /\ ArgsFor(pc[p], req[p]) /\ FoundFor(pc[p], req[p])
  BY StepApart DEF IInv, Rows, CtlOK, ArgsOK, FoundOK, TypeOK, Step
<1>0. PICK o \in Token : o = req[p].tok /\ o \in tRow
  BY <1>t DEF rotate, ArgsFor, FoundFor, SessLabels
<1>1. PICK t \in Token :
         /\ FreshToken(t) /\ tInfo' = [tInfo EXCEPT ![t] = Child(o, t)]
         /\ Write(p, [wr[p] EXCEPT !.used = {o}, !.newT = {t}])
         /\ UNCHANGED <<sRow, sRevoked, sAbs, cConsumed, tRow, tUsed, dead, born>>
  BY <1>0 DEF rotate, InsertToken, sessVars, codeVars, Frame
<1>2. tInfo[o] \in TokenInfo /\ o # None
  BY <1>t DEF TypeOK
<1>3. /\ tInfo'[t].sess = tInfo[o].sess /\ tInfo'[t].fam = tInfo[o].fam /\ tInfo'[t].parent = o
      /\ tInfo'[t].exp = tInfo[o].exp
      /\ \A v \in Token \ {t} : tInfo'[v] = tInfo[v]
  BY <1>t, <1>1, <1>2 DEF TypeOK, TokenInfo, Child
<1>4. wr'[p].newT = {t} /\ wr'[p].cons = wr[p].cons /\ wr'[p].used = {o}
  <2>1. wr'[p] = [wr[p] EXCEPT !.used = {o}, !.newT = {t}]
    BY <1>t, <1>1 DEF TypeOK, Write
  <2>2. QED BY <1>t, <2>1 DEF Writes
<1>5. \A q \in Req \ {p} : wr'[q] = wr[q]
  BY <1>t DEF Apart
<1>6. /\ tRow \subseteq Token /\ t \notin tRow /\ t # o
      /\ \A q \in Req : wr[q].newT \subseteq Token /\ t \notin wr[q].newT
  BY <1>t, <1>0, <1>1 DEF TypeOK, Writes, FreshToken
<1>7. Linked(o)
  BY <1>0 DEF JInv, FamiliesOK, TokensOK
<1>8. tInfo[o].fam \in tRow
  BY <1>0, <1>7 DEF Linked
<1>9. ConsOK'
  BY <1>1, <1>4, <1>5 DEF JInv, FamiliesOK, ConsOK
<1>10. \A v \in Token \ {t} : Linked(v) => Linked(v)'
  <2> SUFFICES ASSUME NEW v \in Token, v # t, Linked(v) PROVE Linked(v)'
    OBVIOUS
  <2>1. tInfo'[v] = tInfo[v] /\ (tInfo[v].fam = v \/ tInfo[v].fam \in tRow)
    BY <1>3 DEF Linked
  <2>2. tInfo'[tInfo[v].fam] = tInfo[tInfo[v].fam]
    BY <1>3, <1>6, <2>1
  <2>3. tInfo[v].parent # None => tInfo'[tInfo[v].parent] = tInfo[tInfo[v].parent]
    BY <1>3, <1>6 DEF Linked
  <2>4. QED BY <1>1, <2>1, <2>2, <2>3 DEF Linked
<1>11. Linked(t)'
  <2>1. tInfo'[o] = tInfo[o] /\ tInfo'[tInfo[o].fam] = tInfo[tInfo[o].fam]
    BY <1>3, <1>6, <1>8
  <2>2. QED BY <1>0, <1>1, <1>3, <1>7, <1>8, <2>1 DEF Linked
<1>12. TokensOK'
  <2>1. \A v \in tRow' : Linked(v)' /\ Marked(v, cConsumed, tUsed)'
    BY <1>1, <1>3, <1>6, <1>10 DEF JInv, FamiliesOK, TokensOK, Marked
  <2>2. \A q \in Req \ {p} : \A v \in wr'[q].newT : Linked(v)' /\ Marked(v, wr[q].cons, wr[q].used)'
    BY <1>1, <1>3, <1>5, <1>6, <1>10 DEF JInv, FamiliesOK, TokensOK, Marked
  <2>3. \A v \in wr'[p].newT : Linked(v)' /\ Marked(v, wr[p].cons, wr[p].used)'
    BY <1>2, <1>3, <1>4, <1>11 DEF Marked
  <2>4. QED BY <2>1, <2>2, <2>3 DEF TokensOK
<1>13. DeadOK'
  BY <1>1, <1>3, <1>6 DEF JInv, FamiliesOK, DeadOK
<1>14. OneFamilyPerCode'
  <2>1. \A v \in Token : Exists(v)' => v = t \/ Exists(v)
    BY <1>1, <1>4, <1>5 DEF Exists
  <2>2. QED BY <1>2, <1>3, <2>1 DEF JInv, FamiliesOK, OneFamilyPerCode
<1>15. QED BY <1>9, <1>12, <1>13, <1>14 DEF FamiliesOK

\* A commit: what its request consumed, used and inserted is so for everybody, and a
\* family it declares dead has its session revoked with it.
LEMMA CommitFamilies ==
    ASSUME IInv, JInv, NEW p \in Req, Commit(p)
    PROVE  FamiliesOK'
<1>t. /\ TypeOK /\ Apart(p) /\ ArgsFor(pc[p], req[p]) /\ FoundFor(pc[p], req[p])
      /\ req[p] \in Request
  BY StepApart DEF IInv, CtlOK, ArgsOK, FoundOK, TypeOK, Step
<1>1. /\ sRow \subseteq sRow' /\ sRevoked' = sRevoked \cup wr[p].revS
      /\ cConsumed' = cConsumed \cup wr[p].cons /\ tRow' = tRow \cup wr[p].newT
      /\ tUsed' = tUsed \cup wr[p].used /\ UNCHANGED <<sAbs, tInfo>> /\ pc[p] = "commit"
      /\ dead' = IF req[p].res = "killed" /\ req[p].tok # None
                 THEN dead \cup {tInfo[req[p].tok].fam} ELSE dead
  BY DEF Commit
<1>2. /\ wr'[p].newT = {} /\ wr'[p].cons = {} /\ wr'[p].used = {}
      /\ born'[p].dead = {} /\ born'[p].rows = {}
  BY <1>t DEF Commit, End, NoWrites, NoBirth, TypeOK
<1>3. \A q \in Req \ {p} : wr'[q] = wr[q] /\ born'[q] = born[q]
  BY <1>t DEF Apart
<1>4. ConsOK'
  <2>1. \A q \in Req : wr'[q].cons \cap cConsumed' = {}
    BY <1>1, <1>2, <1>3 DEF JInv, FamiliesOK, ConsOK
  <2>2. \A q, v \in Req : q # v => wr'[q].cons \cap wr'[v].cons = {}
    BY <1>2, <1>3 DEF JInv, FamiliesOK, ConsOK
  <2>3. QED BY <2>1, <2>2 DEF ConsOK
<1>5. \A t : Linked(t) => Linked(t)'
  BY <1>1 DEF Linked
<1>6. TokensOK'
  <2>1. \A v \in tRow' : Linked(v)' /\ Marked(v, cConsumed, tUsed)'
    BY <1>1, <1>5 DEF JInv, FamiliesOK, TokensOK, Marked
  <2>2. \A q \in Req : \A v \in wr'[q].newT : Linked(v)' /\ Marked(v, wr[q].cons, wr[q].used)'
    BY <1>1, <1>2, <1>3, <1>5 DEF JInv, FamiliesOK, TokensOK, Marked
  <2>3. QED BY <2>1, <2>2 DEF TokensOK
<1>7. DeadOK'
  <2>1. \A f \in dead : f \in tRow' /\ tInfo'[f].sess \in sRevoked'
    BY <1>1 DEF JInv, FamiliesOK, DeadOK
  <2>2. ASSUME req[p].res = "killed", req[p].tok # None
        PROVE  /\ tInfo[req[p].tok].fam \in tRow'
               /\ tInfo'[tInfo[req[p].tok].fam].sess \in sRevoked'
    <3>1. req[p].kind \in {"refresh", "revoke"}
      BY <1>t, <2>2 DEF ArgsFor
    <3>2. req[p].tok \in tRow /\ req[p].sess = tInfo[req[p].tok].sess
      BY <1>t, <2>2, <3>1 DEF FoundFor
    <3>3. req[p].sess \in sRevoked'
      BY <1>1, <2>2, <3>1 DEF JInv, ReqsOK, KilledOK, KilledFor
    <3>4. Linked(req[p].tok)
      BY <3>2 DEF JInv, FamiliesOK, TokensOK
    <3>5. QED BY <1>1, <3>2, <3>3, <3>4 DEF Linked
  <2>3. \A f \in dead' : f \in tRow' /\ tInfo'[f].sess \in sRevoked'
    BY <1>1, <2>1, <2>2
  <2>4. \A q \in Req : /\ \A f \in born'[q].dead : f \in tRow' /\ tInfo'[f].sess \in born'[q].gone
                       /\ born'[q].rows \subseteq sRow'
    BY <1>1, <1>2, <1>3 DEF JInv, FamiliesOK, DeadOK
  <2>5. QED BY <2>3, <2>4 DEF DeadOK
<1>8. OneFamilyPerCode'
  <2>1. \A v \in Token : Exists(v)' => Exists(v)
    BY <1>1, <1>2, <1>3 DEF Exists
  <2>2. QED BY <1>1, <2>1 DEF JInv, FamiliesOK, OneFamilyPerCode
<1>9. QED BY <1>4, <1>6, <1>7, <1>8 DEF FamiliesOK

\* A rollback takes back rows nobody else has seen.
LEMMA UndoFamilies ==
    ASSUME IInv, JInv, NEW p \in Req, Undo(p), Apart(p), Stored(p)
    PROVE  FamiliesOK'
<1>t. TypeOK /\ InsertsPrivate
  BY DEF IInv, Rows
<1>1. UNCHANGED <<sRow, sRevoked, cConsumed, tRow, tUsed, dead>>
  BY DEF Undo
<1>2. /\ wr'[p].newT = {} /\ wr'[p].cons = {} /\ wr'[p].used = {}
      /\ born'[p].dead = {} /\ born'[p].rows = {}
  BY <1>t DEF Undo, End, NoWrites, NoBirth, TypeOK
<1>3. \A q \in Req \ {p} : wr'[q] = wr[q] /\ born'[q] = born[q]
  BY DEF Apart
<1>4. /\ \A s \in sRow : sAbs'[s] = sAbs[s]
      /\ \A t \in tRow : tInfo'[t] = tInfo[t]
      /\ \A q \in Req \ {p} : \A t \in wr[q].newT : tInfo'[t] = tInfo[t]
  BY DEF Stored
<1>5. ConsOK'
  BY <1>1, <1>2, <1>3 DEF JInv, FamiliesOK, ConsOK
<1>6. ASSUME NEW t, tInfo'[t] = tInfo[t], Linked(t) PROVE Linked(t)'
  <2>1. tInfo'[tInfo[t].fam] = tInfo[tInfo[t].fam]
    BY <1>4, <1>6 DEF Linked
  <2>2. tInfo[t].parent # None => tInfo'[tInfo[t].parent] = tInfo[tInfo[t].parent]
    BY <1>4, <1>6 DEF Linked
  <2>3. QED BY <1>1, <1>4, <1>6, <2>1, <2>2 DEF Linked
<1>7. TokensOK'
  <2>1. \A v \in tRow' : Linked(v)' /\ Marked(v, cConsumed, tUsed)'
    BY <1>1, <1>4, <1>6 DEF JInv, FamiliesOK, TokensOK, Marked
  <2>2. \A q \in Req : \A v \in wr'[q].newT : Linked(v)' /\ Marked(v, wr[q].cons, wr[q].used)'
    BY <1>2, <1>3, <1>4, <1>6 DEF JInv, FamiliesOK, TokensOK, Marked
  <2>3. QED BY <2>1, <2>2 DEF TokensOK
<1>8. DeadOK'
  <2>1. \A f \in dead' : f \in tRow' /\ tInfo'[f].sess \in sRevoked'
    BY <1>1, <1>4 DEF JInv, FamiliesOK, DeadOK
  <2>2. \A q \in Req : /\ \A f \in born'[q].dead : f \in tRow' /\ tInfo'[f].sess \in born'[q].gone
                       /\ born'[q].rows \subseteq sRow'
    BY <1>1, <1>2, <1>3, <1>4 DEF JInv, FamiliesOK, DeadOK
  <2>3. QED BY <2>1, <2>2 DEF DeadOK
<1>9. OneFamilyPerCode'
  <2>1. \A v \in Token : Exists(v)' => Exists(v) /\ tInfo'[v] = tInfo[v]
    BY <1>1, <1>2, <1>3, <1>4 DEF Exists
  <2>2. QED BY <2>1 DEF JInv, FamiliesOK, OneFamilyPerCode
<1>10. QED BY <1>5, <1>7, <1>8, <1>9 DEF FamiliesOK

\* Every step of a request keeps the families.
LEMMA StepFamilies ==
    ASSUME IInv, JInv, NEW p \in Req, Step(p) \/ Crash(p)
    PROVE  FamiliesOK'
<1>t. /\ TypeOK /\ Apart(p) /\ Stored(p) /\ wr[p] \in Writes
  BY StepApart, StepStored DEF IInv, TypeOK
<1>1. CASE consume_code(p)
  BY <1>1, ConsumeFamilies
<1>2. CASE issue_family(p)
  BY <1>2, IssueFamilies
<1>3. CASE rotate(p)
  BY <1>3, RotateFamilies
<1>4. CASE Commit(p)
  BY <1>4, CommitFamilies
<1>5. CASE Undo(p)
  BY <1>5, <1>t, UndoFamilies
<1>6. CASE /\ UNCHANGED <<sRow, sRevoked, cConsumed, tRow, tUsed, tInfo, dead, born>>
           /\ \A q \in Req : /\ wr'[q].newT = wr[q].newT /\ wr'[q].cons = wr[q].cons
                             /\ wr'[q].used = wr[q].used
  BY <1>6, <1>t, SameFamilies DEF JInv, Stored
<1>7. CASE \/ check_liveness(p) \/ check_user(p) \/ find_consumed(p) \/ find(p) \/ Respond(p)
           \/ revoke_family(p) \/ revoke_for_session(p) \/ patch_user(p)
           \/ select_sessions(p) \/ next_session(p)
  BY <1>6, <1>7 DEF check_liveness, check_user, find_consumed, find, Respond, revoke_family,
              revoke_for_session, patch_user, select_sessions, next_session, Local, Frame, dbVars
<1>8. CASE \/ idle_timeout(p) \/ mark_stale(p) \/ touch(p) \/ revoke(p)
           \/ UpdateRevoked(p) \/ set_status(p) \/ create_session(p) \/ issue_code(p)
  <2>1. UNCHANGED <<sRow, sRevoked, cConsumed, tRow, tUsed, tInfo, dead, born>>
    BY <1>8 DEF idle_timeout, mark_stale, touch, revoke, UpdateRevoked, set_status,
                create_session, issue_code, Frame, dbVars, codeVars, tokVars, sessVars
  <2>2. wr'[p].newT = wr[p].newT /\ wr'[p].cons = wr[p].cons /\ wr'[p].used = wr[p].used
    <3> USE <1>t DEF Writes
    <3>1. CASE idle_timeout(p)    BY <3>1, WriteApart DEF idle_timeout
    <3>2. CASE mark_stale(p)      BY <3>2, WriteApart DEF mark_stale
    <3>3. CASE touch(p)           BY <3>3, WriteApart DEF touch
    <3>4. CASE revoke(p)          BY <3>4, WriteApart DEF revoke
    <3>5. CASE UpdateRevoked(p)   BY <3>5, WriteApart DEF UpdateRevoked
    <3>6. CASE set_status(p)      BY <3>6, WriteApart DEF set_status
    <3>7. CASE create_session(p)  BY <3>7, WriteApart DEF create_session
    <3>8. CASE issue_code(p)      BY <3>8, WriteApart DEF issue_code
    <3>9. QED BY <1>8, <3>1, <3>2, <3>3, <3>4, <3>5, <3>6, <3>7, <3>8
  <2>3. QED BY <1>6, <1>t, <2>1, <2>2 DEF Apart
<1>9. QED
  BY <1>1, <1>2, <1>3, <1>4, <1>5, <1>7, <1>8
     DEF Step, Rollback, DeadlockVictim, OutOfIds, Crash

-----------------------------------------------------------------------------
(* A request's own statements.                                             *)

\* What the second invariant says of a request at statement l with locals r, writes w
\* and birth record b.
Fine(l, r, w, b) == AliveFor(l, r) /\ CodeFor(l, r, w) /\ KilledFor(r, w) /\ LoopFor(l, r, w, b)

\* It outlives the step that brought the request there.
LEMMA FineAfter ==
    ASSUME IInv, JInv, NEW p \in Req, Stored(p), NEW l, NEW r, NEW w, NEW b,
           pc'[p] = l, req'[p] = r, wr'[p] = w, born'[p] = b, b.rows \subseteq sRow,
           Fine(l, r, w, b)
    PROVE  /\ AliveFor(pc[p], req[p])' /\ CodeFor(pc[p], req[p], wr[p])'
           /\ KilledFor(req[p], wr[p])' /\ LoopFor(pc[p], req[p], wr[p], born[p])'
<1>1. AliveFor(pc[p], req[p])'
  BY DEF Fine, AliveFor, Stored
<1>2. CodeFor(pc[p], req[p], wr[p])'
  BY DEF Fine, CodeFor
<1>3. KilledFor(req[p], wr[p])'
  BY DEF Fine, KilledFor, Stored
<1>4. LoopFor(pc[p], req[p], wr[p], born[p])'
  <2>1. \A s \in b.rows : sUser'[s] = sUser[s]
    BY DEF Stored
  <2>2. LoopFor(l, r, w, b) /\ sRevoked \subseteq sRevoked'
    BY DEF Fine, Stored
  <2>3. QED BY <2>1, <2>2 DEF LoopFor, Owed
<1>5. QED BY <1>1, <1>2, <1>3, <1>4

\* Request p has moved on to such a statement.
OwnFine(p) ==
    \E l, r, w : pc'[p] = l /\ req'[p] = r /\ wr'[p] = w /\ Fine(l, r, w, born[p])

\* A refused request owes nothing.
LEMMA RefusedFine ==
    ASSUME IInv, NEW p \in Req, Refused(p)
    PROVE  OwnFine(p)
<1> DEFINE l == Refuse(req[p])
           r == [req[p] EXCEPT !.res = "refused"]
<1>1. TypeOK /\ req[p] \in Request
  BY DEF IInv, TypeOK
<1>2. r.res = "refused" /\ l \in {"commit", "rollback"}
  BY <1>1 DEF Request, Refuse
<1>3. pc'[p] = l /\ req'[p] = r
  BY <1>1, GotoApart DEF Refused
<1> HIDE DEF l, r
<1>4. Fine(l, r, wr'[p], born[p])
  BY <1>2 DEF Fine, AliveFor, CodeFor, KilledFor, LoopFor, LiveLabels, Grants, CodeLabels, LoopLabels
<1>5. QED BY <1>3, <1>4 DEF OwnFine

\* Every statement brings its request to such a statement.
LEMMA StepFine ==
    ASSUME IInv, JInv, NEW p \in Req, Step(p)
    PROVE  OwnFine(p) \/ Commit(p) \/ Undo(p)
<1>t. TypeOK /\ born[p].rows \subseteq sRow
  BY DEF IInv, JInv, FamiliesOK, DeadOK
<1>p. PICK r \in Request, w \in Writes, b \in Birth : r = req[p] /\ w = wr[p] /\ b = born[p]
  BY <1>t DEF TypeOK
<1>c. ArgsFor(pc[p], r) /\ FoundFor(pc[p], r) /\ Fine(pc[p], r, w, b) /\ b.rows \subseteq sRow
  BY <1>t, <1>p DEF IInv, CtlOK, ArgsOK, FoundOK, JInv, ReqsOK, AliveOK, CodeOK, KilledOK, LoopOK, Fine
<1>m. ASSUME NEW l, NEW x, NEW v, Goto(p, l, x), Write(p, v) \/ (wr' = wr /\ v = w), Fine(l, x, v, b)
      PROVE  OwnFine(p)
  BY <1>m, <1>p, <1>t, GotoApart, WriteApart DEF OwnFine
<1>x. ASSUME Refused(p) PROVE OwnFine(p)
  BY <1>x, RefusedFine
<1> USE DEF Fine, AliveFor, CodeFor, KilledFor, LoopFor, Owed, LiveLabels, Grants, CodeLabels, LoopLabels
<1>1. CASE create_session(p)
  <2>1. PICK s \in Session : /\ Goto(p, "commit", [r EXCEPT !.sess = s, !.res = "session"])
                             /\ Write(p, [w EXCEPT !.newS = {s}])
    BY <1>1, <1>p DEF create_session
  <2>2. [r EXCEPT !.sess = s, !.res = "session"].res = "session"
    BY DEF Request
  <2>3. Fine("commit", [r EXCEPT !.sess = s, !.res = "session"], [w EXCEPT !.newS = {s}], b)
    BY <2>2
  <2>4. QED BY <2>1, <2>3, <1>m
<1>2. CASE check_liveness(p)
  <2>1. CASE Refused(p)
    BY <2>1, <1>x
  <2>2. CASE ~Refused(p)
    <3>1. pc[p] = "session" /\ ~SessionDead(r.sess, r.at) /\ wr' = wr
      BY <1>2, <1>p, <2>2 DEF check_liveness, Local
    <3>2. r.sess \in sRow /\ ~(r.at >= sAbs[r.sess]) /\ r.at \in Nat
      BY <3>1 DEF SessionDead, Request
    <3>3. sAbs[r.sess] \in Nat
      BY <1>t, <3>2 DEF TypeOK
    <3>4. r.at < sAbs[r.sess]
      BY <3>2, <3>3
    <3>5. PICK l \in {"idle", "stale", "touch", AfterLive(r)} : Goto(p, l, r)
      BY <1>2, <1>p, <2>2 DEF check_liveness
    <3>6. r.res = "none" /\ (r.kind = "code" => w.newT = {} /\ r.code \in w.cons)
      BY <1>c, <3>1 DEF ArgsFor
    <3>7. Fine(l, r, w, b)
      BY <3>2, <3>4, <3>6 DEF AfterLive
    <3>8. QED BY <1>m, <3>1, <3>5, <3>7
  <2>3. QED BY <2>1, <2>2
<1>3. CASE idle_timeout(p) \/ mark_stale(p)
  BY <1>3, <1>x DEF idle_timeout, mark_stale
<1>4. CASE touch(p)
  <2> DEFINE v == [w EXCEPT !.seen = @ \cup {r.sess}]
  <2>1. pc[p] = "touch" /\ Goto(p, AfterLive(r), r) /\ Write(p, v)
    BY <1>4, <1>p DEF touch
  <2>2. v.newT = w.newT /\ v.cons = w.cons
    BY DEF Writes
  <2> HIDE DEF v
  <2>3. Fine(AfterLive(r), r, v, b)
    BY <1>c, <2>1, <2>2 DEF AfterLive, ArgsFor
  <2>4. QED BY <1>m, <2>1, <2>3
<1>5. CASE revoke(p)
  <2>1. PICK v \in Writes :
           /\ Write(p, v)
           /\ v.revS = IF r.sess \in sRow \ sRevoked THEN w.revS \cup {r.sess} ELSE w.revS
    <3>1. pc[p] = "revS" /\ r.sess \in Session
      BY <1>5, <1>c DEF revoke, ArgsFor, SessLabels
    <3>2. /\ [w EXCEPT !.revS = @ \cup {r.sess}] \in Writes
          /\ [w EXCEPT !.revS = @ \cup {r.sess}].revS = w.revS \cup {r.sess}
      BY <3>1 DEF Writes
    <3>3. Write(p, IF r.sess \in sRow \ sRevoked THEN [w EXCEPT !.revS = @ \cup {r.sess}] ELSE w)
      BY <1>5, <1>p DEF revoke
    <3>4. QED BY <3>2, <3>3
  <2>2. pc[p] = "revS" /\ r.res = "none"
    BY <1>5, <1>c DEF revoke, ArgsFor
  <2>3. CASE r.kind \in {"revokeAll", "patch"}
    <3>1. Goto(p, "next", r)
      BY <1>5, <1>p, <2>3 DEF revoke
    <3>2. Fine("next", r, v, b)
      BY <1>c, <2>1, <2>2, <2>3
    <3>3. QED BY <1>m, <2>1, <3>1, <3>2
  <2>4. CASE r.kind \notin {"revokeAll", "patch"}
    <3> DEFINE x == [r EXCEPT !.res = "killed"]
    <3>1. Goto(p, "commit", x)
      BY <1>5, <1>p, <2>4 DEF revoke
    <3>2. x.res = "killed" /\ x.kind = r.kind /\ x.sess = r.sess
      BY DEF Request
    <3> HIDE DEF x
    <3>3. r.kind \in {"refresh", "revoke"} => r.sess \in sRow
      <4>1. SUFFICES ASSUME r.kind \in {"refresh", "revoke"} PROVE r.sess \in sRow
        OBVIOUS
      <4>2. r.tok \in tRow /\ r.sess = tInfo[r.tok].sess
        BY <1>c, <2>2, <4>1 DEF FoundFor, SessLabels
      <4>3. QED BY <4>2 DEF JInv, FamiliesOK, TokensOK, Linked
    <3>4. Fine("commit", x, v, b)
      BY <2>1, <3>2, <3>3
    <3>5. QED BY <1>m, <2>1, <3>1, <3>4
  <2>5. QED BY <2>3, <2>4
<1>6. CASE check_user(p)
  <2>1. CASE Refused(p)
    BY <2>1, <1>x
  <2>2. CASE ~Refused(p)
    <3>1. pc[p] = "user" /\ r.res = "none" /\ wr' = wr
      BY <1>6, <1>c DEF check_user, Local, ArgsFor
    <3>2. CASE Goto(p, "issue", r) /\ r.kind = "code"
      <4>1. Fine("issue", r, w, b)
        BY <1>c, <3>1, <3>2
      <4>2. QED BY <1>m, <3>1, <3>2, <4>1
    <3>3. CASE Goto(p, "rotate", r) /\ r.kind = "refresh"
      <4>1. Fine("rotate", r, w, b)
        BY <1>c, <3>1, <3>3
      <4>2. QED BY <1>m, <3>1, <3>3, <4>1
    <3>4. CASE Goto(p, "commit", [r EXCEPT !.res = "served"])
      <4> DEFINE x == [r EXCEPT !.res = "served"]
      <4>1. x.res = "served" /\ x.sess = r.sess /\ x.at = r.at
        BY DEF Request
      <4>2. Goto(p, "commit", x)
        BY <3>4
      <4> HIDE DEF x
      <4>3. Fine("commit", x, w, b)
        BY <1>c, <3>1, <4>1
      <4>4. QED BY <1>m, <3>1, <4>2, <4>3
    <3>5. QED BY <1>6, <1>p, <2>2, <3>2, <3>3, <3>4 DEF check_user
  <2>3. QED BY <2>1, <2>2
<1>7. CASE issue_code(p)
  <2>1. PICK c \in Code : /\ Goto(p, "commit", [r EXCEPT !.code = c, !.res = "code"])
                          /\ Write(p, [w EXCEPT !.newC = {c}]) /\ pc[p] = "issue"
    BY <1>7, <1>p DEF issue_code
  <2> DEFINE x == [r EXCEPT !.code = c, !.res = "code"]
  <2>2. x.res = "code" /\ x.sess = r.sess /\ x.at = r.at
    BY DEF Request
  <2>3. Goto(p, "commit", x)
    BY <2>1
  <2> HIDE DEF x
  <2>4. Fine("commit", x, [w EXCEPT !.newC = {c}], b)
    BY <1>c, <2>1, <2>2
  <2>5. QED BY <1>m, <2>1, <2>3, <2>4
<1>8. CASE consume_code(p)
  <2>1. pc[p] = "consume" /\ r.res = "none" /\ r.kind = "code"
    BY <1>8, <1>c DEF consume_code, ArgsFor
  <2>2. CASE Refused(p)
    BY <2>2, <1>x
  <2>3. CASE ~Refused(p) /\ ~Unconsumed(r.code, r.at)
    <3>1. Goto(p, "replay", r) /\ Write(p, w)
      BY <1>8, <1>p, <2>3 DEF consume_code
    <3>2. Fine("replay", r, w, b)
      BY <2>1
    <3>3. QED BY <1>m, <3>1, <3>2
  <2>4. CASE ~Refused(p) /\ Unconsumed(r.code, r.at)
    <3> DEFINE x == [r EXCEPT !.sess = cInfo[r.code].sess]
               v == [w EXCEPT !.cons = {r.code}]
    <3>1. Goto(p, "session", x) /\ Write(p, v)
      BY <1>8, <1>p, <2>4 DEF consume_code
    <3>2. x.res = "none" /\ x.code = r.code /\ x.kind = "code"
      BY <2>1 DEF Request
    <3>3. v.newT = w.newT /\ v.cons = {r.code}
      BY DEF Writes
    <3> HIDE DEF x, v
    <3>4. Fine("session", x, v, b)
      BY <1>c, <2>1, <3>2, <3>3
    <3>5. QED BY <1>m, <3>1, <3>4
  <2>5. QED BY <2>2, <2>3, <2>4
<1>9. CASE find_consumed(p)
  <2>1. pc[p] = "replay" /\ r.res = "none" /\ r.kind = "code" /\ wr' = wr
    BY <1>9, <1>c DEF find_consumed, ArgsFor, Local
  <2>2. CASE Refused(p)
    BY <2>2, <1>x
  <2>3. CASE ~Refused(p)
    <3> DEFINE x == [r EXCEPT !.sess = cInfo[r.code].sess]
    <3>1. Goto(p, "bysess", x)
      BY <1>9, <1>p, <2>3 DEF find_consumed
    <3>2. x.res = "none" /\ x.kind = "code"
      BY <2>1 DEF Request
    <3> HIDE DEF x
    <3>3. Fine("bysess", x, w, b)
      BY <3>2
    <3>4. QED BY <1>m, <2>1, <3>1, <3>3
  <2>4. QED BY <2>2, <2>3
<1>10. CASE issue_family(p) \/ rotate(p)
  <2> DEFINE x == [r EXCEPT !.res = "tokens"]
  <2>1. Goto(p, "respond", x) /\ pc[p] \in {"issue", "rotate"}
    BY <1>10, <1>p DEF issue_family, rotate
  <2>2. PICK v : Write(p, v)
    BY <1>10 DEF issue_family, rotate
  <2>3. x.res = "tokens" /\ x.sess = r.sess /\ x.at = r.at /\ x.kind = r.kind
    BY DEF Request
  <2> HIDE DEF x
  <2>4. Fine("respond", x, v, b)
    BY <1>c, <2>1, <2>3
  <2>5. QED BY <1>m, <2>1, <2>2, <2>4
<1>11. CASE find(p)
  <2>1. pc[p] = "find" /\ r.res = "none" /\ r.kind \in {"refresh", "revoke"} /\ wr' = wr
    BY <1>11, <1>c DEF find, ArgsFor, Local
  <2>2. CASE Refused(p)
    BY <2>2, <1>x
  <2>3. CASE ~Refused(p)
    <3> DEFINE x == [r EXCEPT !.sess = tInfo[r.tok].sess]
    <3>1. PICK l \in {"family", "session"} : Goto(p, l, x)
      BY <1>11, <1>p, <2>3 DEF find
    <3>2. x.res = "none" /\ x.kind = r.kind
      BY <2>1 DEF Request
    <3> HIDE DEF x
    <3>3. Fine(l, x, w, b)
      BY <2>1, <3>2
    <3>4. QED BY <1>m, <2>1, <3>1, <3>3
  <2>4. QED BY <2>2, <2>3
<1>12. CASE Respond(p)
  <2>1. pc[p] = "respond" /\ Goto(p, "commit", r) /\ wr' = wr
    BY <1>12, <1>p DEF Respond
  <2>2. Fine("commit", r, w, b)
    BY <1>c, <2>1
  <2>3. QED BY <1>m, <2>1, <2>2
<1>13. CASE revoke_family(p) \/ revoke_for_session(p)
  <2>1. PICK T : Goto(p, "revT", [r EXCEPT !.todoT = T])
    BY <1>13, <1>p DEF revoke_family, revoke_for_session
  <2>2. wr' = wr /\ pc[p] \in {"family", "bysess"} /\ r.res = "none"
    BY <1>13, <1>c DEF revoke_family, revoke_for_session, Local, ArgsFor
  <2> DEFINE x == [r EXCEPT !.todoT = T]
  <2>3. /\ x.res = "none" /\ x.kind = r.kind /\ x.sess = r.sess /\ x.todoS = r.todoS
        /\ x.user = r.user /\ x.keep = r.keep /\ Goto(p, "revT", x)
    BY <2>1, <2>2 DEF Request
  <2> HIDE DEF x
  <2>4. Fine("revT", x, w, b)
    BY <1>c, <2>2, <2>3 DEF ArgsFor
  <2>5. QED BY <1>m, <2>2, <2>3, <2>4
<1>14. CASE UpdateRevoked(p)
  <2> DEFINE x == [r EXCEPT !.todoT = {}]
             v == [w EXCEPT !.revT = @ \cup r.todoT]
  <2>1. Goto(p, "revS", x) /\ Write(p, v) /\ pc[p] = "revT" /\ r.res = "none"
    BY <1>14, <1>p, <1>c DEF UpdateRevoked, ArgsFor
  <2>2. /\ x.res = "none" /\ x.kind = r.kind /\ x.sess = r.sess /\ x.todoS = r.todoS
        /\ x.user = r.user /\ x.keep = r.keep
    BY <2>1 DEF Request
  <2>3. v.revS = w.revS
    BY DEF Writes
  <2> HIDE DEF x, v
  <2>4. Fine("revS", x, v, b)
    BY <1>c, <2>1, <2>2, <2>3
  <2>5. QED BY <1>m, <2>1, <2>4
<1>15. CASE patch_user(p) \/ set_status(p)
  <2>1. PICK l \in {"commit", "status", "select"} : Goto(p, l, r)
    BY <1>15, <1>p DEF patch_user, set_status
  <2>2. r.res = "none"
    BY <1>15, <1>c DEF patch_user, set_status, ArgsFor
  <2>3. PICK v : Write(p, v) \/ (wr' = wr /\ v = w)
    BY <1>15 DEF patch_user, set_status, Local
  <2>4. Fine(l, r, v, b)
    BY <2>2
  <2>5. QED BY <1>m, <2>1, <2>3, <2>4
<1>16. CASE select_sessions(p)
  <2> DEFINE x == [r EXCEPT !.todoS = ToRevoke(r.user, r.keep)]
  <2>1. Goto(p, "next", x) /\ wr' = wr /\ pc[p] = "select" /\ r.res = "none"
    BY <1>16, <1>p, <1>c DEF select_sessions, Local, ArgsFor
  <2>2. /\ x.res = "none" /\ x.user = r.user /\ x.keep = r.keep
        /\ x.todoS = ToRevoke(r.user, r.keep)
    BY <2>1 DEF Request
  <2> HIDE DEF x
  <2>3. Owed(x, b) \subseteq x.todoS \cup sRevoked
    BY <1>c, <2>2 DEF ToRevoke
  <2>4. Fine("next", x, w, b)
    BY <2>2, <2>3
  <2>5. QED BY <1>m, <2>1, <2>4
<1>17. CASE next_session(p)
  <2>1. pc[p] = "next" /\ wr' = wr /\ r.res = "none"
    BY <1>17, <1>c DEF next_session, Local, ArgsFor
  <2>2. Owed(r, b) \subseteq r.todoS \cup sRevoked \cup w.revS
    BY <1>c, <2>1
  <2>3. ASSUME NEW s \in r.todoS, Goto(p, "bysess", [r EXCEPT !.sess = s, !.todoS = @ \ {s}])
        PROVE  OwnFine(p)
    <3> DEFINE x == [r EXCEPT !.sess = s, !.todoS = @ \ {s}]
    <3>1. /\ x.res = "none" /\ x.user = r.user /\ x.keep = r.keep /\ x.sess = s
          /\ x.todoS = r.todoS \ {s}
      BY <2>1 DEF Request
    <3>2. Goto(p, "bysess", x)
      BY <2>3
    <3> HIDE DEF x
    <3>3. Fine("bysess", x, w, b)
      BY <2>2, <3>1
    <3>4. QED BY <1>m, <2>1, <3>2, <3>3
  <2>4. ASSUME r.todoS = {}, Goto(p, "commit", [r EXCEPT !.res = "revokedAll"])
        PROVE  OwnFine(p)
    <3> DEFINE x == [r EXCEPT !.res = "revokedAll"]
    <3>1. x.res = "revokedAll" /\ x.user = r.user /\ x.keep = r.keep
      BY DEF Request
    <3>2. Goto(p, "commit", x)
      BY <2>4
    <3> HIDE DEF x
    <3>3. Fine("commit", x, w, b)
      BY <2>2, <2>4, <3>1
    <3>4. QED BY <1>m, <2>1, <3>2, <3>3
  <2>5. QED BY <1>17, <1>p, <2>3, <2>4 DEF next_session
<1>18. CASE Rollback(p) \/ DeadlockVictim(p) \/ OutOfIds(p)
  BY <1>18 DEF Rollback, DeadlockVictim, OutOfIds
<1>19. QED
  BY <1>1, <1>2, <1>3, <1>4, <1>5, <1>6, <1>7, <1>8, <1>9, <1>10, <1>11, <1>12, <1>13, <1>14,
     <1>15, <1>16, <1>17, <1>18 DEF Step

-----------------------------------------------------------------------------
(* The second invariant and what follows from both.                        *)

\* A request arrives with nothing written and finds the dead families' sessions revoked.
LEMMA BeginJ ==
    ASSUME IInv, JInv, NEW p \in Req, NEW kind \in Kinds, NEW l \in Labels, NEW a \in Request,
           Begin(p, kind, l, a), a.res = "none",
           l \in {"create", "session", "consume", "find", "select", "patch"},
           kind = "code" => l = "consume"
    PROVE  JInv'
<1>1. PICK r : r = [a EXCEPT !.kind = kind, !.at = now]
  OBVIOUS
<1>2. r.res = "none" /\ r.kind = kind
  BY <1>1 DEF Request
<1>3. /\ pc[p] = "free" /\ pc'[p] = l /\ req'[p] = r /\ wr'[p] = wr[p]
      /\ UNCHANGED <<dbVars, wr, dead>> /\ Apart(p)
  BY <1>1 DEF Begin, IInv, TypeOK, Apart
<1>4. /\ born'[p].rows = sRow /\ born'[p].dead = dead /\ born'[p].gone = sRevoked \cup sStale
      /\ \A q \in Req \ {p} : born'[q] = born[q]
  BY <1>3 DEF Begin, IInv, TypeOK, Apart
<1>5. Stored(p)
  BY <1>3 DEF Stored, dbVars
<1>6. wr[p].newT = {}
  BY <1>3 DEF JInv, ReqsOK, CodeOK, CodeFor
<1>7. Fine(l, r, wr[p], born'[p])
  BY <1>2, <1>6 DEF Fine, AliveFor, CodeFor, KilledFor, LoopFor, LiveLabels, Grants, CodeLabels,
                    LoopLabels
<1>8. /\ AliveFor(pc[p], req[p])' /\ CodeFor(pc[p], req[p], wr[p])'
      /\ KilledFor(req[p], wr[p])' /\ LoopFor(pc[p], req[p], wr[p], born[p])'
  BY <1>3, <1>4, <1>5, <1>7, FineAfter
<1>9. ReqsOK'
  BY <1>3, <1>5, <1>8, ReqsStep
<1>10. FamiliesOK'
  BY <1>3, <1>4, SameFamilies DEF JInv, dbVars
<1>11. QED BY <1>9, <1>10 DEF JInv

\* Every arrival is of this kind.
LEMMA ArriveJ == ASSUME IInv, JInv, NEW p \in Req, Arrive(p) PROVE JInv'
<1> USE Literals DEF Kinds, Labels
<1>1. ASSUME NEW u \in User, Login(p, u) PROVE JInv'
  <2>1. [NoReq EXCEPT !.user = u] \in Request /\ [NoReq EXCEPT !.user = u].res = "none"
    BY DEF Request, NoReq
  <2>2. QED BY <1>1, <2>1, BeginJ DEF Login
<1>2. ASSUME NEW s \in Session, authorize(p, s) \/ logout(p, s) PROVE JInv'
  <2>1. [NoReq EXCEPT !.sess = s] \in Request /\ [NoReq EXCEPT !.sess = s].res = "none"
    BY DEF Request, NoReq
  <2>2. QED BY <1>2, <2>1, BeginJ DEF authorize, logout
<1>3. ASSUME NEW c \in Code, NEW match \in BOOLEAN, TokenByCode(p, c, match) PROVE JInv'
  <2> DEFINE a == [NoReq EXCEPT !.code = c, !.match = match]
  <2>1. a \in Request /\ a.res = "none"
    BY DEF Request, NoReq
  <2>2. QED BY <1>3, <2>1, BeginJ DEF TokenByCode
<1>4. ASSUME NEW t \in Token, NEW match \in BOOLEAN, NEW key \in BOOLEAN,
             TokenByRefresh(p, t, match, key)
      PROVE  JInv'
  <2> DEFINE a == [NoReq EXCEPT !.tok = t, !.match = match, !.key = key]
  <2>1. a \in Request /\ a.res = "none"
    BY DEF Request, NoReq
  <2>2. QED BY <1>4, <2>1, BeginJ DEF TokenByRefresh
<1>5. ASSUME NEW t \in Token, NEW key \in BOOLEAN, revoke_endpoint(p, t, key) PROVE JInv'
  <2> DEFINE a == [NoReq EXCEPT !.tok = t, !.key = key]
  <2>1. a \in Request /\ a.res = "none"
    BY DEF Request, NoReq
  <2>2. QED BY <1>5, <2>1, BeginJ DEF revoke_endpoint
<1>6. ASSUME NEW s \in Session, NEW k \in {"userinfo", "api"}, NEW ip \in BOOLEAN,
             Resource(p, s, k, ip)
      PROVE  JInv'
  <2> DEFINE a == [NoReq EXCEPT !.sess = s, !.ip = ip]
  <2>1. a \in Request /\ a.res = "none"
    BY DEF Request, NoReq
  <2>2. Begin(p, k, "session", a)
    BY <1>6 DEF Resource
  <2>3. k \in Kinds /\ "session" \in Labels /\ k # "code"
    OBVIOUS
  <2> HIDE DEF a, Kinds, Labels
  <2>4. QED BY <2>1, <2>2, <2>3, BeginJ
<1>7. ASSUME NEW u \in User, NEW keep \in Session \cup {None}, RevokeAll(p, u, keep) PROVE JInv'
  <2> DEFINE a == [NoReq EXCEPT !.user = u, !.keep = keep]
  <2>1. a \in Request /\ a.res = "none"
    BY DEF Request, NoReq
  <2>2. QED BY <1>7, <2>1, BeginJ DEF RevokeAll
<1>8. ASSUME NEW u \in User, NEW enable \in BOOLEAN, PatchStatus(p, u, enable) PROVE JInv'
  <2> DEFINE a == [NoReq EXCEPT !.user = u, !.match = enable]
  <2>1. a \in Request /\ a.res = "none"
    BY DEF Request, NoReq
  <2>2. QED BY <1>8, <2>1, BeginJ DEF PatchStatus
<1>9. QED
  BY <1>1, <1>2, <1>3, <1>4, <1>5, <1>6, <1>7, <1>8 DEF Arrive

\* Every step of a request keeps the second invariant.
LEMMA StepJ ==
    ASSUME IInv, JInv, NEW p \in Req, Step(p) \/ Crash(p)
    PROVE  JInv'
<1>t. Apart(p) /\ Stored(p) /\ FamiliesOK' /\ TypeOK /\ born[p].rows \subseteq sRow
  BY StepApart, StepStored, StepFamilies DEF IInv, JInv, FamiliesOK, DeadOK
<1>1. CASE Commit(p) \/ Undo(p)
  <2>1. pc'[p] = "free" /\ req'[p] = NoReq /\ wr'[p] = NoWrites /\ born'[p] = NoBirth
    BY <1>1, <1>t DEF Commit, Undo, End, TypeOK
  <2>2. Fine("free", NoReq, NoWrites, NoBirth) /\ NoBirth.rows \subseteq sRow
    BY DEF Fine, AliveFor, CodeFor, KilledFor, LoopFor, LiveLabels, Grants, CodeLabels, LoopLabels,
           NoReq, NoWrites, NoBirth
  <2>3. /\ AliveFor(pc[p], req[p])' /\ CodeFor(pc[p], req[p], wr[p])'
        /\ KilledFor(req[p], wr[p])' /\ LoopFor(pc[p], req[p], wr[p], born[p])'
    BY <1>t, <2>1, <2>2, FineAfter
  <2>4. QED BY <1>t, <2>3, ReqsStep DEF JInv
<1>2. CASE Step(p) /\ ~(Commit(p) \/ Undo(p))
  <2>1. PICK l, r, w : pc'[p] = l /\ req'[p] = r /\ wr'[p] = w /\ Fine(l, r, w, born[p])
    BY <1>2, StepFine DEF OwnFine
  <2>2. born' = born
    <3>1. CASE Quiet
      BY <3>1 DEF Quiet
    <3>2. CASE create_session(p) \/ issue_code(p) \/ issue_family(p) \/ rotate(p)
      BY <3>2 DEF create_session, issue_code, issue_family, rotate, InsertToken, Frame
    <3>3. QED BY <1>2, <1>t, <3>1, <3>2, StepQuiet
  <2>3. /\ AliveFor(pc[p], req[p])' /\ CodeFor(pc[p], req[p], wr[p])'
        /\ KilledFor(req[p], wr[p])' /\ LoopFor(pc[p], req[p], wr[p], born[p])'
    BY <1>t, <2>1, <2>2, FineAfter
  <2>4. QED BY <1>t, <2>3, ReqsStep DEF JInv
<1>3. QED BY <1>1, <1>2 DEF Crash

\* Both invariants hold.
THEOREM FamiliesInductive == Spec => [](IInv /\ JInv)
<1>1. IInv /\ JInv /\ [Next]_vars => JInv'
  <2> SUFFICES ASSUME IInv, JInv, [Next]_vars PROVE JInv'
    OBVIOUS
  <2>1. CASE Tick \/ UNCHANGED vars
    <3>1. UNCHANGED <<dbVars, pc, req, wr, dead, born>>
      BY <2>1 DEF Tick, vars
    <3>2. ReqsOK'
      BY <3>1 DEF JInv, ReqsOK, AliveOK, AliveFor, CodeOK, CodeFor, KilledOK, KilledFor, LoopOK,
                  LoopFor, Owed, dbVars
    <3>3. FamiliesOK'
      BY <3>1, SameFamilies DEF JInv, dbVars
    <3>4. QED BY <3>2, <3>3 DEF JInv
  <2>2. QED BY <2>1, ArriveJ, StepJ DEF Next
<1>2. QED BY <1>1, InitJ, InvInductive, PTL DEF Spec

\* However many requests present a code at once, it becomes one family at most
\* (codes.consume_code, one conditional UPDATE).
THEOREM CodesAreSingleUse == Spec => []OneFamilyPerCode
<1>1. JInv => OneFamilyPerCode
  BY DEF JInv, FamiliesOK
<1>2. QED BY <1>1, FamiliesInductive, PTL

\* Families stay in their session, under its bound, on used parents, through any
\* overlap of rotations, reuse and rollbacks (refresh.issue_family, refresh.rotate).
THEOREM FamiliesAreCoherent == Spec => []FamilyCoherent
<1>1. JInv => FamilyCoherent
  BY DEF JInv, FamiliesOK, TokensOK, Linked, Marked, FamilyCoherent
<1>2. QED BY <1>1, FamiliesInductive, PTL

\* Once reuse or revocation of a family is committed no later request redeems a token
\* of it, not even the child of a rotation revoke_family could not see: the session
\* is revoked with the family (token.py _refresh_grant, revoke_endpoint).
THEOREM DeadFamiliesStayDead == Spec => []NoGrantInDeadFamily
<1>1. IInv /\ JInv => NoGrantInDeadFamily
  <2> SUFFICES ASSUME IInv, JInv, NEW p \in Req, req[p].kind = "refresh", req[p].res = "tokens",
                      tInfo[req[p].tok].fam \in born[p].dead
               PROVE  FALSE
    BY DEF NoGrantInDeadFamily
  <2>1. req[p].tok \in tRow /\ req[p].sess = tInfo[req[p].tok].sess
    BY DEF IInv, CtlOK, FoundOK, FoundFor
  <2>2. tInfo[tInfo[req[p].tok].fam].sess = req[p].sess
    BY <2>1 DEF JInv, FamiliesOK, TokensOK, Linked
  <2>3. req[p].sess \in born[p].gone
    BY <2>2 DEF JInv, FamiliesOK, DeadOK
  <2>4. QED BY <2>3 DEF IInv, CtlOK, LiveOK, LiveFor, Grants
<1>2. QED BY <1>1, FamiliesInductive, PTL

\* Nothing is handed out at or past the absolute bound of a session, however often it
\* is touched and its tokens rotated (sessions.check_liveness).
THEOREM AbsoluteBoundHolds == Spec => []NoGrantPastAbsoluteExpiry
<1>1. JInv => NoGrantPastAbsoluteExpiry
  BY DEF JInv, ReqsOK, AliveOK, AliveFor, NoGrantPastAbsoluteExpiry
<1>2. QED BY <1>1, FamiliesInductive, PTL

\* A revoke-all leaves no session of the user that was committed when it began, but
\* the one it keeps, whatever the requests that overlap it do
\* (users._revoke_user_sessions).
THEOREM RevokeAllIsComplete == Spec => []RevokeAllComplete
<1>1. JInv => RevokeAllComplete
  BY DEF JInv, ReqsOK, LoopOK, LoopFor, Owed, RevokeAllComplete
<1>2. QED BY <1>1, FamiliesInductive, PTL
=============================================================================
