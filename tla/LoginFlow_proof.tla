-------------------------- MODULE LoginFlow_proof --------------------------
(***************************************************************************)
(* Proofs about LoginFlow, for any number of users, flows, secrets, codes, *)
(* challenges, sessions and concurrent requests.                           *)
(*                                                                         *)
(* The invariant has three parts.  Stored relates the committed tables to  *)
(* the histories.  Alone says of one request what its point in the code    *)
(* lets it have written and which committed facts its locks protect until  *)
(* it ends.  Apart says that two requests lock and draw different things.  *)
(* The last part proves that LoginFlow implements SignIn: a request's      *)
(* commit is its one step there, but for the check of a code.              *)
(***************************************************************************)
EXTENDS LoginFlow, TLAPS

-----------------------------------------------------------------------------
(* The committed tables and the histories.                                 *)

(* Flows: one past the password stage has a user whose password it accepted,  *)
(* and the pending challenges are fresh and all different.                    *)
FlowsStored ==
    /\ \A f \in Flow : flow[f] # None =>
        /\ f \in issued
        /\ flow[f].stage # "password" => flow[f].user \in User /\ <<f, flow[f].user>> \in proved
        /\ flow[f].chal # None => flow[f].chal \in issued \ met
    /\ \A f, g \in Flow : flow[f] # None /\ flow[g] # None /\ flow[f].chal = flow[g].chal
                          => f = g \/ flow[f].chal = None
    /\ met \subseteq issued

(* Authenticators: no two accounts share a secret and none was given up.      *)
TotpStored ==
    /\ \A u \in User : totp[u] # None => totp[u].secret \in issued \ dropped
    /\ \A u, v \in User : totp[u] # None /\ totp[v] # None /\ totp[u].secret = totp[v].secret
                          => u = v
    /\ dropped \subseteq issued

(* Recovery codes: the unused ones are unspent, of one account and one batch. *)
CodesStored ==
    /\ \A u \in User : unused[u] \subseteq issued /\ \A c \in unused[u] : spent[c] = 0
    /\ \A u, v \in User : u # v => unused[u] \cap unused[v] = {}
    /\ \A c \in Code : spent[c] # 0 => c \in issued
    /\ RecoveryCodeOnce
    /\ OneLiveBatch

(* Sessions: the flow of a completed login is pinned to its session or gone.  *)
SessionsStored ==
    /\ PasswordFirst
    /\ OneSessionPerSubmit
    /\ \A s \in Rows :
        /\ sess[s].flow \in issued
        /\ sess[s].by \in {"totp", "verify"} =>
             flow[sess[s].flow] = None \/ flow[sess[s].flow].done = s

Stored == TypeOK /\ FlowsStored /\ TotpStored /\ CodesStored /\ SessionsStored

-----------------------------------------------------------------------------
(* One request at label l with arguments and locals r and writes w.        *)

Kinds == {"none", "form", "login", "totp", "enrollForm", "enroll", "recovery", "options",
          "verify"}
Labels == {"free", "newFlow", "user", "advance", "resume", "create", "code", "peek", "peek2",
           "store", "insert", "pending", "confirm", "batch", "finish", "redeem", "old",
           "lost", "challenge", "assert", "commit"}
Cols == {"stage", "user", "chal", "recovery", "done"}
Request ==
    [kind : Kinds, flow : Flow \cup {None}, user : User \cup {None},
     code : Secret \cup Code \cup Challenge \cup {None}, good : BOOLEAN,
     tier : {"standard", "admin"}, exist : BOOLEAN,
     proof : Secret \cup Challenge \cup {None}, res : {"none", "session"},
     gone : SUBSET Secret]

(* `set' and `row' depend on the kind of request: see Pending.                 *)
Typed(l, r, w) ==
    /\ l \in Labels
    /\ r \in Request
    /\ w \in [lockF : SUBSET Flow, lockT : SUBSET User, lockC : SUBSET Code,
              set : {w.set}, delF : BOOLEAN, newF : Flow \cup {None},
              t : {"keep", "insert", "confirm", "delete"}, secret : Secret \cup {None},
              used : SUBSET Code, del : SUBSET Code, new : SUBSET Code,
              s : Session \cup {None}, row : {w.row}]
    /\ DOMAIN w.set \subseteq Cols

(* Which kind of request is at which label, and what it carries there.        *)
Path(l, r) ==
    /\ l = "free" => r = NoReq
    /\ l # "free" => r.kind # "none"
    /\ l = "newFlow" => r.kind = "form"
    /\ l = "user" => r.kind \notin {"none", "form"}
    /\ l = "advance" => r.kind = "login"
    /\ l \in {"resume", "create"} => r.kind \in {"totp", "verify"}
    /\ l = "code" => r.kind = "totp"
    /\ l = "assert" => r.kind = "verify"
    /\ l \in {"peek", "peek2", "store", "insert"} => r.kind = "enrollForm"
    /\ l \in {"pending", "confirm", "batch", "finish"} => r.kind = "enroll"
    /\ l \in {"redeem", "old", "lost"} => r.kind = "recovery"
    /\ l = "challenge" => r.kind = "options"
    /\ r.kind \notin {"none", "form"} => r.flow \in Flow /\ r.user \in User
    /\ r.kind = "form" => r.user = None
    /\ r.exist /\ r.kind = "form" => r.flow \in Flow
    /\ r.kind = "login" /\ l \in {"advance", "commit"} => r.good
    /\ r.res = "session" => l = "commit" /\ r.kind \in {"totp", "verify", "enroll"}

(* What it has written, and the row locks that go with it.                    *)
SetOK(l, r, w) ==
    /\ DOMAIN w.set # {} => w.lockF = {r.flow}
    /\ "stage" \in DOMAIN w.set <=> "user" \in DOMAIN w.set
    /\ "stage" \in DOMAIN w.set =>
         /\ r.kind = "login" /\ l = "commit"
         /\ w.set["stage"] \in {"totp", "webauthn"} /\ w.set["user"] = r.user
    /\ "chal" \in DOMAIN w.set => r.kind \in {"options", "verify"}
    /\ "chal" \in DOMAIN w.set /\ r.kind = "options" => l = "commit"
    /\ "chal" \in DOMAIN w.set /\ r.kind = "verify" => w.set["chal"] = None
    /\ "recovery" \in DOMAIN w.set =>
         r.kind = "recovery" /\ l = "commit" /\ w.set["recovery"] = TRUE
    /\ "done" \in DOMAIN w.set =>
         r.kind \in {"totp", "verify"} /\ w.s # None /\ w.set["done"] = w.s
    /\ w.s # None /\ r.kind \in {"totp", "verify"} => "done" \in DOMAIN w.set
    /\ r.kind = "verify" /\ l \in {"create", "commit"} => "chal" \in DOMAIN w.set

Pending(l, r, w) ==
    /\ l = "free" => w = NoWrites
    /\ w.lockF \subseteq {r.flow} /\ w.lockT \subseteq {r.user}
    /\ r.kind \in {"totp", "options", "verify"} => w.lockF = {r.flow}
    /\ SetOK(l, r, w)
    /\ w.newF # None => r.kind = "form" /\ l = "commit"
    /\ w.delF => w.lockF = {r.flow} /\ r.kind \in {"form", "enroll"} /\ l = "commit"
    /\ w.t # "keep" => w.lockT = {r.user}
    /\ w.t = "insert" => r.kind = "enrollForm" /\ l = "commit" /\ w.secret # None
    /\ w.t = "confirm" => r.kind = "enroll"
    /\ w.t = "delete" => r.kind = "recovery" /\ l = "commit"
    /\ r.kind = "enroll" /\ l \in {"batch", "finish", "commit"} => w.t = "confirm"
    /\ r.kind = "recovery" /\ l = "commit" /\ r.proof # None => w.t = "delete"
    /\ w.used # {} => r.kind = "recovery" /\ w.used \subseteq w.lockC
    /\ w.del \cup w.new # {} => r.kind = "enroll" /\ l \in {"finish", "commit"}
    /\ w.del \subseteq w.lockC
    /\ w.s # None => l = "commit" /\ r.res = "session" /\ w.row = Row(r)

(* The flow it works on: pinned by its row lock, and not completed before.    *)
FlowHeld(l, r, w) ==
    /\ r.flow # None => r.flow \in issued
    /\ r.kind \notin {"none", "form", "login"} => <<r.flow, r.user>> \in proved
    /\ w.lockF # {} /\ r.kind \notin {"form", "enroll"} => flow[r.flow] # None
    /\ l = "resume" => flow[r.flow].done # None
    /\ l \in {"code", "assert", "create"} \/ (l = "commit" /\ r.kind \in {"totp", "verify"})
         => flow[r.flow].done = None
    /\ w.newF # None =>
        /\ w.newF \in issued /\ flow[w.newF] = None
        /\ \A s \in Rows : sess[s].flow # w.newF

(* The proof it presents: a challenge still in its flow, or a secret that was *)
(* not given up before it began.                                              *)
ProofHeld(l, r, w) ==
    /\ r.gone \subseteq dropped
    /\ r.kind \in {"none", "form", "login", "enrollForm", "options"} => r.proof = None
    /\ r.kind \in {"totp", "enroll", "recovery"} => r.proof \in Secret \cup {None}
    /\ r.kind = "verify" /\ l \in {"create", "commit"} => r.proof = flow[r.flow].chal
    /\ r.kind = "verify" /\ l \notin {"create", "commit"} => r.proof = None
    /\ l \in {"create", "confirm", "batch", "finish"} \/ r.res = "session"
         => r.proof # None /\ r.proof \notin r.gone
    /\ r.kind = "options" /\ "chal" \in DOMAIN w.set =>
        /\ w.set["chal"] \in Challenge
        /\ w.set["chal"] \in issued \ met
        /\ \A f \in Flow : flow[f] # None => flow[f].chal # w.set["chal"]

(* The authenticator it replaces, confirms or gives up.                       *)
TotpHeld(l, r, w) ==
    /\ w.t = "insert" =>
        /\ w.secret \in issued \ dropped
        /\ \A u \in User : totp[u] # None => totp[u].secret # w.secret
    /\ w.t = "confirm" => totp[r.user] # None
    /\ r.kind = "recovery" /\ r.proof # None =>
        /\ r.exist /\ l \in {"lost", "commit"} /\ r.proof \in issued
        /\ \A u \in User : totp[u] # None /\ totp[u].secret = r.proof => u = r.user

(* The codes it redeems or replaces.                                          *)
CodesHeld(l, r, w) ==
    /\ w.used # {} => w.used \subseteq unused[r.user]
    /\ r.kind = "enroll" /\ l \in {"finish", "commit"} => unused[r.user] \subseteq w.del
    /\ w.new # {} => w.new \in Batch
    /\ \A c \in w.new : c \in issued /\ spent[c] = 0 /\ \A u \in User : c \notin unused[u]

Alone(l, r, w) ==
    /\ Typed(l, r, w) /\ Path(l, r) /\ Pending(l, r, w)
    /\ FlowHeld(l, r, w) /\ ProofHeld(l, r, w) /\ TotpHeld(l, r, w) /\ CodesHeld(l, r, w)

-----------------------------------------------------------------------------
(* Two requests: their locks are disjoint, and what one draws the other does  *)
(* not know.                                                                  *)
Apart(r, w, y, z) ==
    /\ w.lockF \cap z.lockF = {} /\ w.lockT \cap z.lockT = {} /\ w.lockC \cap z.lockC = {}
    /\ w.newF # None => w.newF # z.newF /\ w.newF # y.flow
    /\ w.t = "insert" => /\ z.t = "insert" => w.secret # z.secret
                         /\ y.kind = "recovery" => y.proof # w.secret
    /\ w.new \cap z.new = {}
    /\ r.kind = "options" /\ y.kind = "options" /\ "chal" \in DOMAIN w.set \cap DOMAIN z.set
         => w.set["chal"] # z.set["chal"]

LInv ==
    /\ Stored
    /\ \A p \in Req : Alone(pc[p], req[p], wr[p])
    /\ \A p, q \in Req : p # q => Apart(req[p], wr[p], req[q], wr[q])
    /\ pc \in [Req -> Labels]
    /\ DOMAIN req = Req /\ DOMAIN wr = Req
    /\ req = [p \in Req |-> req[p]] /\ wr = [p \in Req |-> wr[p]]

-----------------------------------------------------------------------------
(* Steps of one request that touch no table.                               *)

(* What an operator of the tables was before is what it is now: identifiers   *)
(* are only ever added.                                                       *)
LEMMA AloneFrame ==
    ASSUME Frame, issued \subseteq issued', NEW l, NEW r, NEW w, Alone(l, r, w)
    PROVE  Alone(l, r, w)'
<1> USE DEF Frame, tables, hist
<1>1. Typed(l, r, w)' /\ Path(l, r)' /\ Pending(l, r, w)'
  BY DEF Alone, Typed, Path, Pending, SetOK, Request
<1>2. FlowHeld(l, r, w)'
  BY DEF Alone, FlowHeld, Rows
<1>3. ProofHeld(l, r, w)'
  BY DEF Alone, ProofHeld
<1>4. TotpHeld(l, r, w)'
  BY DEF Alone, TotpHeld
<1>5. CodesHeld(l, r, w)'
  BY DEF Alone, CodesHeld
<1> QED
  BY <1>1, <1>2, <1>3, <1>4, <1>5 DEF Alone

(* The committed tables are as they were when only identifiers are drawn.     *)
LEMMA StoredFrame ==
    ASSUME Frame, issued \subseteq issued', issued' \subseteq Ids, Stored
    PROVE  Stored'
<1> USE DEF Frame, tables, hist
<1>1. TypeOK'
  BY DEF Stored, TypeOK, Ids
<1>2. FlowsStored'
  BY DEF Stored, FlowsStored
<1>3. TotpStored'
  BY DEF Stored, TotpStored
<1>4. CodesStored'
  BY DEF Stored, CodesStored, RecoveryCodeOnce, OneLiveBatch
<1>5. SessionsStored'
  BY DEF Stored, SessionsStored, Rows, PasswordFirst, OneSessionPerSubmit
<1> QED
  BY <1>1, <1>2, <1>3, <1>4, <1>5 DEF Stored

(* A request that moves on its own keeps the invariant if its new point is    *)
(* right and it stays apart from the others.                                  *)
LEMMA LocalKeeps ==
    ASSUME LInv, NEW p \in Req, NEW l, NEW r, NEW w,
           Goto(p, l, r), Write(p, w), Frame, issued \subseteq issued', issued' \subseteq Ids,
           Alone(l, r, w)',
           \A q \in Req \ {p} : Apart(r, w, req[q], wr[q]) /\ Apart(req[q], wr[q], r, w)
    PROVE  LInv'
<1>1. Stored'
  BY StoredFrame DEF LInv
<1>2. /\ pc' = [pc EXCEPT ![p] = l] /\ req' = [req EXCEPT ![p] = r] /\ wr' = [wr EXCEPT ![p] = w]
  BY DEF Goto, Write
<1>3. /\ pc'[p] = l /\ req'[p] = r /\ wr'[p] = w
      /\ \A q \in Req \ {p} : pc'[q] = pc[q] /\ req'[q] = req[q] /\ wr'[q] = wr[q]
  BY <1>2 DEF LInv
<1>4. ASSUME NEW q \in Req PROVE Alone(pc[q], req[q], wr[q])'
  <2>1. CASE q = p
    BY <2>1, <1>3
  <2>2. CASE q # p
    <3>1. PICK a, b, c : a = pc[q] /\ b = req[q] /\ c = wr[q]
      OBVIOUS
    <3>2. Alone(a, b, c)
      BY <3>1 DEF LInv
    <3>3. Alone(a, b, c)'
      BY <3>2, AloneFrame
    <3>4. a = pc'[q] /\ b = req'[q] /\ c = wr'[q]
      BY <3>1, <2>2, <1>3
    <3> QED
      BY <3>3, <3>4
  <2> QED
    BY <2>1, <2>2
<1>5. ASSUME NEW q \in Req, NEW x \in Req, q # x
      PROVE  Apart(req[q], wr[q], req[x], wr[x])'
  <2>1. CASE q = p
    <3>1. Apart(r, w, req[x], wr[x]) /\ req'[x] = req[x] /\ wr'[x] = wr[x]
      BY <2>1, <1>5, <1>3
    <3> QED
      BY <3>1, <2>1, <1>3 DEF Apart
  <2>2. CASE x = p
    <3>1. Apart(req[q], wr[q], r, w) /\ req'[q] = req[q] /\ wr'[q] = wr[q]
      BY <2>2, <1>5, <1>3
    <3> QED
      BY <3>1, <2>2, <1>3 DEF Apart
  <2>3. CASE q # p /\ x # p
    <3>1. Apart(req[q], wr[q], req[x], wr[x]) /\ req'[q] = req[q] /\ wr'[q] = wr[q]
          /\ req'[x] = req[x] /\ wr'[x] = wr[x]
      BY <2>3, <1>5, <1>3 DEF LInv
    <3> QED
      BY <3>1 DEF Apart
  <2> QED
    BY <2>1, <2>2, <2>3
<1>6. l \in Labels
  BY DEF Alone, Typed, Labels
<1>7. /\ pc' \in [Req -> Labels] /\ DOMAIN req' = Req /\ DOMAIN wr' = Req
      /\ req' = [q \in Req |-> req'[q]] /\ wr' = [q \in Req |-> wr'[q]]
  BY <1>2, <1>6 DEF LInv
<1> QED
  BY <1>1, <1>4, <1>5, <1>7 DEF LInv

(* The same for a step that draws nothing.                                    *)
LEMMA QuietKeeps ==
    ASSUME LInv, NEW p \in Req, NEW l, NEW r, NEW w,
           Goto(p, l, r), Write(p, w), Frame, UNCHANGED issued, Alone(l, r, w),
           \A q \in Req \ {p} : Apart(r, w, req[q], wr[q]) /\ Apart(req[q], wr[q], r, w)
    PROVE  LInv'
<1>1. Alone(l, r, w)'
  BY AloneFrame
<1>2. issued' \subseteq Ids
  BY DEF LInv, Stored, TypeOK
<1> QED
  BY <1>1, <1>2, LocalKeeps

(* An idle slot is right and apart from everyone.                             *)
LEMMA FreeAlone == Alone("free", NoReq, NoWrites)
<1>1. Typed("free", NoReq, NoWrites)
  BY DEF Typed, Labels, Request, NoReq, NoWrites, Kinds, Cols
<1>2. Path("free", NoReq)
  BY DEF Path, NoReq
<1>3. Pending("free", NoReq, NoWrites)
  BY DEF Pending, SetOK, NoReq, NoWrites
<1>4. FlowHeld("free", NoReq, NoWrites) /\ ProofHeld("free", NoReq, NoWrites)
  BY DEF FlowHeld, ProofHeld, NoReq, NoWrites
<1>5. TotpHeld("free", NoReq, NoWrites) /\ CodesHeld("free", NoReq, NoWrites)
  BY DEF TotpHeld, CodesHeld, NoReq, NoWrites
<1> QED
  BY <1>1, <1>2, <1>3, <1>4, <1>5 DEF Alone

(* It locks nothing and has drawn nothing.                                    *)
LEMMA FreeApart ==
    ASSUME NEW l, NEW y, NEW z, Typed(l, y, z)
    PROVE  Apart(NoReq, NoWrites, y, z) /\ Apart(y, z, NoReq, NoWrites)
BY DEF Apart, NoReq, NoWrites, Typed

(* A request that is refused leaves nothing behind.                           *)
LEMMA RefuseKeeps == ASSUME LInv, NEW p \in Req, Refuse(p) PROVE LInv'
<1>1. \A q \in Req : Typed(pc[q], req[q], wr[q])
  BY DEF LInv, Alone
<1>2. \A q \in Req \ {p} : /\ Apart(NoReq, NoWrites, req[q], wr[q])
                           /\ Apart(req[q], wr[q], NoReq, NoWrites)
  BY <1>1, FreeApart
<1> QED
  BY <1>2, FreeAlone, QuietKeeps DEF Refuse, End

(* A request that moves with the writes it has, its flow and its kind stays   *)
(* apart from the others, unless it is a recovery that reads a new secret.    *)
LEMMA MoveApart ==
    ASSUME LInv, NEW p \in Req, NEW r, r.kind = req[p].kind, r.flow = req[p].flow,
           r.kind = "recovery" => r.proof = req[p].proof,
           NEW q \in Req \ {p}
    PROVE  Apart(r, wr[p], req[q], wr[q]) /\ Apart(req[q], wr[q], r, wr[p])
<1>1. Apart(req[p], wr[p], req[q], wr[q]) /\ Apart(req[q], wr[q], req[p], wr[p])
  BY DEF LInv
<1> QED
  BY <1>1 DEF Apart

(* A step that reads and moves on.                                            *)
LEMMA MoveKeeps ==
    ASSUME LInv, NEW p \in Req, NEW l, NEW r, NEW w, w = wr[p],
           Goto(p, l, r), Read, Alone(l, r, w), r.kind = req[p].kind, r.flow = req[p].flow,
           r.kind = "recovery" => r.proof = req[p].proof
    PROVE  LInv'
<1>1. wr' = [wr EXCEPT ![p] = w]
  BY DEF LInv, Read
<1>2. \A q \in Req \ {p} : Apart(r, w, req[q], wr[q]) /\ Apart(req[q], wr[q], r, w)
  BY MoveApart
<1> QED
  BY <1>1, <1>2, QuietKeeps DEF Read, Write

-----------------------------------------------------------------------------
(* The initial state and the arrivals.                                     *)

(* The tables hold the authenticators and codes the run starts with.          *)
LEMMA InitHolds == Init => LInv
<1> SUFFICES ASSUME Init PROVE LInv
  OBVIOUS
<1>1. TypeOK
  <2>1. totp \in [User -> TotpRow \cup {None}]
    BY StartAssumption DEF Init, TotpRow
  <2>2. unused \in [User -> SUBSET Code]
    BY StartAssumption DEF Init
  <2>3. issued \subseteq Ids
    BY StartAssumption DEF Init, Ids
  <2>4. spent \in [Code -> Nat]
    BY DEF Init
  <2> QED
    BY <2>1, <2>2, <2>3, <2>4, StartAssumption DEF Init, TypeOK
<1>2. FlowsStored
  BY DEF Init, FlowsStored
<1>3. TotpStored
  <2>1. \A u \in User : totp[u] # None =>
           StartTotp[u] # None /\ totp[u].secret = StartTotp[u] /\ StartTotp[u] \in issued
    BY DEF Init
  <2> QED
    BY <2>1, StartAssumption DEF Init, TotpStored
<1>4. CodesStored
  <2>1. \A u \in User : unused[u] \subseteq issued /\ unused[u] \subseteq Code
                        /\ (unused[u] = {} \/ unused[u] \in Batch)
    <3>1. unused = StartCodes
      BY DEF Init
    <3>2. \A u \in User : StartCodes[u] \in Batch \cup {{}} /\ StartCodes[u] \subseteq Code
      BY StartAssumption
    <3>3. UNION {StartCodes[u] : u \in User} \subseteq issued
      BY DEF Init
    <3>4. \A u \in User : StartCodes[u] \subseteq UNION {StartCodes[v] : v \in User}
      OBVIOUS
    <3> QED
      BY <3>1, <3>2, <3>3, <3>4
  <2>2. RecoveryCodeOnce /\ \A c \in Code : spent[c] = 0
    BY DEF Init, RecoveryCodeOnce
  <2>3. OneLiveBatch
    BY <2>1 DEF OneLiveBatch
  <2> QED
    BY <2>1, <2>2, <2>3, StartAssumption DEF Init, CodesStored
<1>5. SessionsStored
  BY DEF Init, SessionsStored, PasswordFirst, OneSessionPerSubmit, Rows
<1>6. \A p \in Req : pc[p] = "free" /\ req[p] = NoReq /\ wr[p] = NoWrites
  BY DEF Init
<1>7. \A p \in Req : Alone(pc[p], req[p], wr[p])
  BY <1>6, FreeAlone
<1>8. \A p, q \in Req : Apart(req[p], wr[p], req[q], wr[q])
  <2>1. Typed("free", NoReq, NoWrites)
    BY FreeAlone DEF Alone
  <2> QED
    BY <1>6, <2>1, FreeApart
<1> QED
  BY <1>1, <1>2, <1>3, <1>4, <1>5, <1>7, <1>8 DEF Init, LInv, Stored, Labels

(* A request that finds its flow has the user the flow's password is of.      *)
LEMMA StageFlowKeeps ==
    ASSUME LInv, NEW p \in Req, NEW f \in Flow, NEW args \in Request,
           NEW kind \in Kinds \ {"none", "form"},
           args.proof = None, args.res = "none", kind = "login" => args.user \in User,
           get_stage_flow(p, kind, f, args)
    PROVE  LInv'
<1>1. PICK r : r = [args EXCEPT !.kind = kind, !.flow = f, !.gone = dropped,
                                !.user = IF kind = "login" THEN @ ELSE flow[f].user]
  OBVIOUS
<1>2. PICK w : w = IF ForUpdate(kind) THEN [NoWrites EXCEPT !.lockF = {f}] ELSE NoWrites
  OBVIOUS
<1>3. /\ flow[f] # None /\ flow[f].stage = StageOf(kind) /\ flow[f] \in FlowRow
      /\ dropped \subseteq Secret /\ f \in issued /\ f # None
  BY NoneAssumption DEF get_stage_flow, Valid, LInv, Stored, TypeOK, FlowsStored
<1>4. kind # "login" => flow[f].user \in User /\ <<f, flow[f].user>> \in proved
  <2>1. kind # "login" => StageOf(kind) # "password"
    BY DEF StageOf, Kinds
  <2> QED
    BY <2>1, <1>3 DEF LInv, Stored, FlowsStored
<1>5. /\ r.kind = kind /\ r.flow = f /\ r.gone = dropped /\ r.proof = None /\ r.res = "none"
      /\ r.user = IF kind = "login" THEN args.user ELSE flow[f].user
      /\ r.code = args.code /\ r.good = args.good /\ r.tier = args.tier /\ r.exist = args.exist
      /\ r = [kind |-> r.kind, flow |-> r.flow, user |-> r.user, code |-> r.code,
              good |-> r.good, tier |-> r.tier, exist |-> r.exist, proof |-> r.proof,
              res |-> r.res, gone |-> r.gone]
  BY <1>1 DEF Request
<1>6. r \in Request
  BY <1>3, <1>4, <1>5 DEF Request
<1>7. /\ w.lockF = (IF ForUpdate(kind) THEN {f} ELSE {}) /\ w.lockT = {} /\ w.lockC = {}
      /\ DOMAIN w.set = {} /\ w.delF = FALSE /\ w.newF = None /\ w.t = "keep"
      /\ w.secret = None /\ w.used = {} /\ w.del = {} /\ w.new = {} /\ w.s = None
      /\ w \in [lockF : SUBSET Flow, lockT : SUBSET User, lockC : SUBSET Code,
                set : {w.set}, delF : BOOLEAN, newF : Flow \cup {None},
                t : {"keep", "insert", "confirm", "delete"}, secret : Secret \cup {None},
                used : SUBSET Code, del : SUBSET Code, new : SUBSET Code,
                s : Session \cup {None}, row : {w.row}]
  BY <1>2 DEF NoWrites
<1>8. Typed("user", r, w)
  BY <1>6, <1>7 DEF Typed, Labels
<1>9. Path("user", r)
  BY <1>4, <1>5 DEF Path
<1>10. Pending("user", r, w)
  BY <1>5, <1>7 DEF Pending, SetOK, ForUpdate
<1>11. FlowHeld("user", r, w)
  BY <1>3, <1>4, <1>5, <1>7 DEF FlowHeld
<1>12. ProofHeld("user", r, w) /\ TotpHeld("user", r, w) /\ CodesHeld("user", r, w)
  BY <1>5, <1>7 DEF ProofHeld, TotpHeld, CodesHeld
<1>13. Alone("user", r, w)
  BY <1>8, <1>9, <1>10, <1>11, <1>12 DEF Alone
<1>14. ASSUME NEW q \in Req \ {p}
       PROVE  Apart(r, w, req[q], wr[q]) /\ Apart(req[q], wr[q], r, w)
  <2>1. ForUpdate(kind) => f \notin wr[q].lockF
    BY DEF get_stage_flow, FreeFlow
  <2>2. wr[q].newF # None => flow[wr[q].newF] = None
    BY DEF LInv, Alone, FlowHeld
  <2>3. wr[q].t = "insert" => wr[q].secret # None
    BY DEF LInv, Alone, Pending
  <2> QED
    BY <1>3, <1>5, <1>7, <2>1, <2>2, <2>3 DEF Apart
<1>15. Goto(p, "user", r) /\ Write(p, w) /\ Frame /\ UNCHANGED issued
  BY <1>1, <1>2 DEF get_stage_flow
<1> QED
  BY <1>13, <1>14, <1>15, QuietKeeps

(* login_form notes the flow it will replace, if it found one.                *)
LEMMA LoginFormKeeps ==
    ASSUME LInv, NEW p \in Req, NEW f \in Flow \cup {None}, login_form(p, f)
    PROVE  LInv'
<1>1. PICK r : /\ Goto(p, "newFlow", r)
               /\ \/ r = [NoReq EXCEPT !.kind = "form", !.flow = f, !.exist = TRUE] /\ Valid(f)
                  \/ r = [NoReq EXCEPT !.kind = "form"]
  BY DEF login_form
<1>2. pc[p] = "free" /\ Read
  BY DEF login_form
<1>3. /\ r.kind = "form" /\ r.user = None /\ r.proof = None /\ r.res = "none" /\ r.gone = {}
      /\ r.flow = None \/ r.flow = f
      /\ r.exist \/ r.flow # None => r.flow = f /\ f \in Flow /\ Valid(f)
  BY <1>1 DEF NoReq, Valid
<1>4. r \in Request
  <2>1. CASE r = [NoReq EXCEPT !.kind = "form"]
    BY <2>1 DEF NoReq, Request, Kinds
  <2>2. CASE r = [NoReq EXCEPT !.kind = "form", !.flow = f, !.exist = TRUE]
    BY <2>2 DEF NoReq, Request, Kinds
  <2> QED
    BY <1>1, <2>1, <2>2
<1>5. PICK w : w = NoWrites
  OBVIOUS
<1>6. wr[p] = w /\ Alone("free", NoReq, w)
  BY <1>2, <1>5, FreeAlone DEF LInv, Alone, Pending
<1>7. Typed("newFlow", r, w) /\ Path("newFlow", r)
  BY <1>3, <1>4, <1>6 DEF Typed, Path, Labels, Alone
<1>8. Pending("newFlow", r, w)
  BY <1>3, <1>5 DEF Pending, SetOK, NoWrites
<1>9. r.flow # None => r.flow \in issued /\ flow[r.flow] # None
  BY <1>3 DEF LInv, Stored, FlowsStored, Valid
<1>10. FlowHeld("newFlow", r, w) /\ ProofHeld("newFlow", r, w)
  BY <1>3, <1>5, <1>9 DEF FlowHeld, ProofHeld, NoWrites
<1>11. TotpHeld("newFlow", r, w) /\ CodesHeld("newFlow", r, w)
  BY <1>3, <1>5 DEF TotpHeld, CodesHeld, NoWrites
<1>12. Alone("newFlow", r, w)
  BY <1>7, <1>8, <1>10, <1>11 DEF Alone
<1>13. ASSUME NEW q \in Req \ {p}
       PROVE  Apart(r, w, req[q], wr[q]) /\ Apart(req[q], wr[q], r, w)
  <2>1. wr[q].newF # None => flow[wr[q].newF] = None
    BY DEF LInv, Alone, FlowHeld
  <2>2. r.flow # wr[q].newF \/ wr[q].newF = None
    BY <2>1, <1>9
  <2>3. w.lockF = {} /\ w.lockT = {} /\ w.lockC = {} /\ w.newF = None /\ w.t = "keep"
        /\ w.new = {} /\ DOMAIN w.set = {}
    BY <1>5 DEF NoWrites
  <2> QED
    BY <1>3, <2>2, <2>3 DEF Apart
<1>14. wr' = [wr EXCEPT ![p] = w]
  BY <1>2, <1>6 DEF Read, LInv
<1> QED
  BY <1>1, <1>2, <1>12, <1>13, <1>14, QuietKeeps DEF Read, Write

(* Every arrival keeps the invariant.                                         *)
LEMMA ArriveKeeps == ASSUME LInv, NEW p \in Req, Arrive(p) PROVE LInv'
<1> USE DEF Kinds
<1>1. ASSUME NEW f \in Flow, NEW u \in User, NEW good \in BOOLEAN, login_submit(p, f, u, good)
      PROVE  LInv'
  <2>1. PICK a : a = [NoReq EXCEPT !.user = u, !.good = good]
    OBVIOUS
  <2>2. a \in Request /\ a.proof = None /\ a.res = "none" /\ a.user \in User
    BY <2>1 DEF NoReq, Request
  <2> QED
    BY <1>1, <2>1, <2>2, StageFlowKeeps DEF login_submit
<1>2. ASSUME NEW f \in Flow, NEW x \in Secret \cup Code \cup Challenge, NEW good \in BOOLEAN,
             \/ totp_submit(p, f, x) \/ enroll_totp_submit(p, f, x) \/ recovery_submit(p, f, x)
             \/ webauthn_verify(p, f, x, good)
      PROVE  LInv'
  <2>1. PICK a : a = [NoReq EXCEPT !.code = x]
    OBVIOUS
  <2>2. PICK b : b = [NoReq EXCEPT !.code = x, !.good = good]
    OBVIOUS
  <2>3. a \in Request /\ a.proof = None /\ a.res = "none"
    BY <2>1 DEF NoReq, Request
  <2>4. b \in Request /\ b.proof = None /\ b.res = "none"
    BY <2>2 DEF NoReq, Request
  <2>5. \/ get_stage_flow(p, "totp", f, a) \/ get_stage_flow(p, "enroll", f, a)
        \/ get_stage_flow(p, "recovery", f, a) \/ get_stage_flow(p, "verify", f, b)
    BY <1>2, <2>1, <2>2 DEF totp_submit, enroll_totp_submit, recovery_submit, webauthn_verify
  <2>6. CASE get_stage_flow(p, "totp", f, a) \/ get_stage_flow(p, "enroll", f, a)
    BY <2>6, <2>3, StageFlowKeeps
  <2>7. CASE get_stage_flow(p, "recovery", f, a)
    BY <2>7, <2>3, StageFlowKeeps
  <2>8. CASE get_stage_flow(p, "verify", f, b)
    BY <2>8, <2>4, StageFlowKeeps
  <2> QED
    BY <2>5, <2>6, <2>7, <2>8
<1>3. ASSUME NEW f \in Flow, enroll_totp_form(p, f) \/ webauthn_options(p, f)
      PROVE  LInv'
  <2>1. PICK a : a = NoReq
    OBVIOUS
  <2>2. a \in Request /\ a.proof = None /\ a.res = "none"
    BY <2>1 DEF NoReq, Request
  <2>3. get_stage_flow(p, "enrollForm", f, a) \/ get_stage_flow(p, "options", f, a)
    BY <1>3, <2>1 DEF enroll_totp_form, webauthn_options
  <2> QED
    BY <2>2, <2>3, StageFlowKeeps
<1>4. ASSUME NEW f \in Flow, NEW x \in Secret, totp_submit(p, f, x) \/ enroll_totp_submit(p, f, x)
      PROVE  LInv'
  BY <1>2, <1>4
<1>5. ASSUME NEW f \in Flow, NEW c \in Code, recovery_submit(p, f, c) PROVE LInv'
  BY <1>2, <1>5
<1>6. ASSUME NEW f \in Flow, NEW x \in Challenge, NEW good \in BOOLEAN,
             webauthn_verify(p, f, x, good)
      PROVE  LInv'
  BY <1>2, <1>6
<1> QED
  BY <1>1, <1>3, <1>4, <1>5, <1>6, LoginFormKeeps DEF Arrive

-----------------------------------------------------------------------------
(* Steps that only read.                                                   *)

(* The facts about one request.                                               *)
LEMMA AloneNow ==
    ASSUME LInv, NEW p \in Req
    PROVE  /\ Typed(pc[p], req[p], wr[p]) /\ Path(pc[p], req[p]) /\ Pending(pc[p], req[p], wr[p])
           /\ FlowHeld(pc[p], req[p], wr[p]) /\ ProofHeld(pc[p], req[p], wr[p])
           /\ TotpHeld(pc[p], req[p], wr[p]) /\ CodesHeld(pc[p], req[p], wr[p])
BY DEF LInv, Alone

(* flow_user sends each kind of request on its path: only a flow that is not  *)
(* completed yet goes on to a second factor.                                  *)
LEMMA UserKeeps == ASSUME LInv, NEW p \in Req, flow_user(p) PROVE LInv'
<1>1. CASE Refuse(p)
  BY <1>1, RefuseKeeps
<1>2. CASE ~Refuse(p)
  <2>1. PICK r : r = [req[p] EXCEPT !.tier = Tier(req[p].user)]
    OBVIOUS
  <2>2. PICK w : w = wr[p]
    OBVIOUS
  <2>3. PICK l : /\ Goto(p, l, r) /\ Read
                 /\ \/ l = "advance" /\ r.kind = "login" /\ r.good
                    \/ l = "resume" /\ r.kind \in {"totp", "verify"} /\ Completed(r.flow)
                    \/ l = "code" /\ r.kind = "totp" /\ ~Completed(r.flow)
                    \/ l = "assert" /\ r.kind = "verify" /\ ~Completed(r.flow)
                    \/ l = "challenge" /\ r.kind = "options"
                    \/ l = "peek" /\ r.kind = "enrollForm"
                    \/ l = "pending" /\ r.kind = "enroll"
                    \/ l = "redeem" /\ r.kind = "recovery"
    BY <1>2, <2>1 DEF flow_user, Accepted
  <2>4. pc[p] = "user"
    BY DEF flow_user
  <2>5. PICK b : b = req[p]
    OBVIOUS
  <2>6. /\ Typed("user", b, w) /\ Path("user", b) /\ Pending("user", b, w)
        /\ FlowHeld("user", b, w) /\ ProofHeld("user", b, w) /\ TotpHeld("user", b, w)
        /\ CodesHeld("user", b, w)
    BY <2>2, <2>4, <2>5, AloneNow
  <2>7. /\ r.kind = b.kind /\ r.flow = b.flow /\ r.user = b.user /\ r.code = b.code
        /\ r.good = b.good /\ r.exist = b.exist /\ r.proof = b.proof /\ r.res = b.res
        /\ r.gone = b.gone /\ r \in Request
    BY <2>1, <2>5, <2>6 DEF Typed, Request, Tier
  <2>8. Typed(l, r, w) /\ Path(l, r)
    BY <2>3, <2>6, <2>7 DEF Typed, Path, Labels
  <2>9. Pending(l, r, w)
    BY <2>3, <2>6, <2>7 DEF Pending, SetOK, Path
  <2>10. FlowHeld(l, r, w)
    <3>1. r.kind \in {"totp", "verify"} => w.lockF = {r.flow} /\ flow[r.flow] # None
      BY <2>6, <2>7 DEF Pending, FlowHeld
    <3> QED
      BY <3>1, <2>3, <2>6, <2>7 DEF FlowHeld, Completed, Pending
  <2>11. ProofHeld(l, r, w)
    BY <2>3, <2>6, <2>7 DEF ProofHeld, Pending, SetOK, Path
  <2>12. TotpHeld(l, r, w) /\ CodesHeld(l, r, w)
    BY <2>3, <2>6, <2>7 DEF TotpHeld, CodesHeld
  <2>13. Alone(l, r, w)
    BY <2>8, <2>9, <2>10, <2>11, <2>12 DEF Alone
  <2> QED
    BY <2>2, <2>3, <2>5, <2>7, <2>13, MoveKeeps
<1> QED
  BY <1>1, <1>2

(* A secret that is in the table was not given up, so no request that began   *)
(* before the one that reads it knows it as lost.                             *)
LEMMA CodeKeeps == ASSUME LInv, NEW p \in Req, verify_code(p) \/ check_pending(p) PROVE LInv'
<1>1. CASE Refuse(p)
  BY <1>1, RefuseKeeps
<1>2. CASE ~Refuse(p)
  <2>1. PICK b, w, a : b = req[p] /\ w = wr[p] /\ a = pc[p]
    OBVIOUS
  <2>2. PICK r : r = [b EXCEPT !.proof = totp[b.user].secret]
    OBVIOUS
  <2>3. PICK l : /\ Goto(p, l, r) /\ Read /\ totp[b.user] # None
                 /\ (a = "code" /\ l = "create") \/ (a = "pending" /\ l = "confirm")
    <3>1. CASE verify_code(p)
      <4>1. Goto(p, "create", r) /\ Read /\ totp[b.user] # None /\ a = "code"
        BY <3>1, <1>2, <2>1, <2>2 DEF verify_code
      <4> QED
        BY <4>1
    <3>2. CASE check_pending(p)
      <4>1. Goto(p, "confirm", r) /\ Read /\ totp[b.user] # None /\ a = "pending"
        BY <3>2, <1>2, <2>1, <2>2 DEF check_pending
      <4> QED
        BY <4>1
    <3> QED
      BY <3>1, <3>2
  <2>4. /\ Typed(a, b, w) /\ Path(a, b) /\ Pending(a, b, w)
        /\ FlowHeld(a, b, w) /\ ProofHeld(a, b, w) /\ TotpHeld(a, b, w) /\ CodesHeld(a, b, w)
    BY <2>1, AloneNow
  <2>5. b.kind = (IF l = "create" THEN "totp" ELSE "enroll") /\ b.user \in User /\ b \in Request
    BY <2>3, <2>4 DEF Path, Typed
  <2>6. /\ totp[b.user].secret \in Secret /\ totp[b.user].secret \notin dropped
        /\ totp[b.user].secret # None
    BY <2>3, <2>5, NoneAssumption DEF LInv, Stored, TypeOK, TotpRow, TotpStored
  <2>7. /\ r.kind = b.kind /\ r.flow = b.flow /\ r.user = b.user /\ r.code = b.code
        /\ r.good = b.good /\ r.tier = b.tier /\ r.exist = b.exist /\ r.res = b.res
        /\ r.gone = b.gone /\ r.proof = totp[b.user].secret /\ r \in Request
    BY <2>2, <2>5, <2>6 DEF Request
  <2>8. Typed(l, r, w) /\ Path(l, r)
    BY <2>3, <2>4, <2>5, <2>7 DEF Typed, Path, Labels
  <2>9. Pending(l, r, w)
    BY <2>3, <2>4, <2>5, <2>7 DEF Pending, SetOK
  <2>10. FlowHeld(l, r, w)
    BY <2>3, <2>4, <2>5, <2>7 DEF FlowHeld
  <2>11. ProofHeld(l, r, w)
    BY <2>3, <2>4, <2>5, <2>6, <2>7 DEF ProofHeld
  <2>12. TotpHeld(l, r, w) /\ CodesHeld(l, r, w)
    BY <2>3, <2>4, <2>5, <2>7 DEF TotpHeld, CodesHeld
  <2>13. Alone(l, r, w)
    BY <2>8, <2>9, <2>10, <2>11, <2>12 DEF Alone
  <2> QED
    BY <2>1, <2>3, <2>5, <2>7, <2>13, MoveKeeps
<1> QED
  BY <1>1, <1>2

(* The page of an enrollment looks for the row up to three times.             *)
LEMMA PeekKeeps == ASSUME LInv, NEW p \in Req, peek(p) \/ store_pending_secret(p) PROVE LInv'
<1>1. CASE Refuse(p)
  BY <1>1, RefuseKeeps
<1>2. CASE ~Refuse(p)
  <2>1. PICK b, w, a : b = req[p] /\ w = wr[p] /\ a = pc[p]
    OBVIOUS
  <2>2. PICK l, r : /\ Goto(p, l, r) /\ Read
                    /\ a \in {"peek", "peek2", "store"} /\ l \in {"peek2", "store", "insert"}
                    /\ r = b \/ r = [b EXCEPT !.exist = totp[b.user] # None]
    BY <1>2, <2>1 DEF peek, store_pending_secret
  <2>3. /\ Typed(a, b, w) /\ Path(a, b) /\ Pending(a, b, w)
        /\ FlowHeld(a, b, w) /\ ProofHeld(a, b, w) /\ TotpHeld(a, b, w) /\ CodesHeld(a, b, w)
    BY <2>1, AloneNow
  <2>4. b.kind = "enrollForm" /\ b \in Request
    BY <2>2, <2>3 DEF Path, Typed
  <2>5. /\ r.kind = b.kind /\ r.flow = b.flow /\ r.user = b.user /\ r.code = b.code
        /\ r.good = b.good /\ r.tier = b.tier /\ r.proof = b.proof /\ r.res = b.res
        /\ r.gone = b.gone /\ r \in Request
    BY <2>2, <2>4 DEF Request
  <2>6. Typed(l, r, w) /\ Path(l, r)
    BY <2>2, <2>3, <2>4, <2>5 DEF Typed, Path, Labels
  <2>7. Pending(l, r, w)
    BY <2>2, <2>3, <2>4, <2>5 DEF Pending, SetOK
  <2>8. FlowHeld(l, r, w) /\ ProofHeld(l, r, w)
    BY <2>2, <2>3, <2>4, <2>5 DEF FlowHeld, ProofHeld, Path
  <2>9. TotpHeld(l, r, w) /\ CodesHeld(l, r, w)
    BY <2>2, <2>3, <2>4, <2>5 DEF TotpHeld, CodesHeld
  <2>10. Alone(l, r, w)
    BY <2>6, <2>7, <2>8, <2>9 DEF Alone
  <2> QED
    BY <2>1, <2>2, <2>4, <2>5, <2>10, MoveKeeps
<1> QED
  BY <1>1, <1>2

(* A recovery notes the secret it finds, which is nobody else's and not one   *)
(* that is being inserted.                                                    *)
LEMMA FindOldKeeps == ASSUME LInv, NEW p \in Req, find_old(p) PROVE LInv'
<1>1. PICK b, w : b = req[p] /\ w = wr[p]
  OBVIOUS
<1>2. PICK x : x = IF totp[b.user] = None THEN None ELSE totp[b.user].secret
  OBVIOUS
<1>3. PICK r : r = [b EXCEPT !.exist = totp[b.user] # None, !.proof = x]
  OBVIOUS
<1>4. Goto(p, "lost", r) /\ Read /\ pc[p] = "old"
  BY <1>1, <1>2, <1>3 DEF find_old
<1>5. /\ Typed("old", b, w) /\ Path("old", b) /\ Pending("old", b, w) /\ FlowHeld("old", b, w)
      /\ ProofHeld("old", b, w) /\ TotpHeld("old", b, w) /\ CodesHeld("old", b, w)
  BY <1>1, <1>4, AloneNow
<1>6. b.kind = "recovery" /\ b.user \in User /\ b \in Request
  BY <1>5 DEF Path, Typed
<1>7. x # None => /\ totp[b.user] # None /\ x = totp[b.user].secret /\ x \in Secret /\ x \in issued
                  /\ \A u \in User : totp[u] # None /\ totp[u].secret = x => u = b.user
  BY <1>2, <1>6 DEF LInv, Stored, TypeOK, TotpRow, TotpStored
<1>8. /\ r.kind = b.kind /\ r.flow = b.flow /\ r.user = b.user /\ r.code = b.code
      /\ r.good = b.good /\ r.tier = b.tier /\ r.res = b.res /\ r.gone = b.gone
      /\ r.proof = x /\ (x # None => r.exist) /\ r \in Request
  <2>1. (totp[b.user] # None) \in BOOLEAN /\ x \in Secret \cup {None}
    BY <1>7
  <2> QED
    BY <2>1, <1>3, <1>6, <1>7 DEF Request
<1>9. Typed("lost", r, w) /\ Path("lost", r)
  BY <1>5, <1>6, <1>8 DEF Typed, Path, Labels
<1>10. Pending("lost", r, w)
  BY <1>5, <1>6, <1>8 DEF Pending, SetOK
<1>11. FlowHeld("lost", r, w)
  BY <1>5, <1>6, <1>8 DEF FlowHeld
<1>12. ProofHeld("lost", r, w)
  BY <1>5, <1>6, <1>7, <1>8 DEF ProofHeld, Path
<1>13. TotpHeld("lost", r, w) /\ CodesHeld("lost", r, w)
  BY <1>5, <1>6, <1>7, <1>8 DEF TotpHeld, CodesHeld, Pending
<1>14. Alone("lost", r, w)
  BY <1>9, <1>10, <1>11, <1>12, <1>13 DEF Alone
<1>15. ASSUME NEW q \in Req \ {p}
       PROVE  Apart(r, w, req[q], wr[q]) /\ Apart(req[q], wr[q], r, w)
  <2>1. Apart(b, w, req[q], wr[q]) /\ Apart(req[q], wr[q], b, w)
    BY <1>1 DEF LInv
  <2>2. wr[q].t = "insert" => /\ wr[q].secret # None
                              /\ \A u \in User : totp[u] # None => totp[u].secret # wr[q].secret
    BY AloneNow DEF Pending, TotpHeld
  <2>3. wr[q].t = "insert" => r.proof # wr[q].secret
    BY <2>2, <1>6, <1>7, <1>8
  <2> QED
    BY <2>1, <2>3, <1>8 DEF Apart
<1>16. wr' = [wr EXCEPT ![p] = w]
  BY <1>1, <1>4 DEF Read, LInv
<1> QED
  BY <1>4, <1>14, <1>15, <1>16, QuietKeeps DEF Read, Write

-----------------------------------------------------------------------------
(* Steps that write.                                                       *)

(* The fields of a write record.                                              *)
Fields(w) ==
    w \in [lockF : SUBSET Flow, lockT : SUBSET User, lockC : SUBSET Code,
           set : {w.set}, delF : BOOLEAN, newF : Flow \cup {None},
           t : {"keep", "insert", "confirm", "delete"}, secret : Secret \cup {None},
           used : SUBSET Code, del : SUBSET Code, new : SUBSET Code,
           s : Session \cup {None}, row : {w.row}]

(* What every other request knows was drawn before.                           *)
LEMMA KnownIssued ==
    ASSUME LInv, NEW q \in Req
    PROVE  /\ req[q].flow # None => req[q].flow \in issued
           /\ wr[q].newF # None => wr[q].newF \in issued
           /\ wr[q].t = "insert" => wr[q].secret \in issued
           /\ req[q].kind = "recovery" => req[q].proof \in issued \cup {None}
           /\ wr[q].new \subseteq issued
           /\ req[q].kind = "options" /\ "chal" \in DOMAIN wr[q].set =>
                wr[q].set["chal"] \in issued
BY AloneNow DEF FlowHeld, TotpHeld, ProofHeld, CodesHeld

(* login_form deletes the flow it found and inserts a new one.                *)
LEMMA CreateFlowKeeps == ASSUME LInv, NEW p \in Req, create_flow(p) PROVE LInv'
<1>1. PICK r, b : r = req[p] /\ b = wr[p]
  OBVIOUS
<1>2. PICK n \in Flow :
         /\ Draw(n)
         /\ Write(p, [b EXCEPT !.newF = n, !.delF = r.exist,
                               !.lockF = IF r.exist THEN {r.flow} ELSE {}])
  BY <1>1 DEF create_flow
<1>3. PICK w : w = [b EXCEPT !.newF = n, !.delF = r.exist,
                             !.lockF = IF r.exist THEN {r.flow} ELSE {}]
  OBVIOUS
<1>4. /\ pc[p] = "newFlow" /\ (r.exist => FreeFlow(p, r.flow))
      /\ Goto(p, "commit", r) /\ Frame /\ n \notin issued /\ issued' = issued \cup {n}
  BY <1>1, <1>2 DEF create_flow, Draw
<1>5. /\ Typed("newFlow", r, b) /\ Path("newFlow", r) /\ Pending("newFlow", r, b)
      /\ FlowHeld("newFlow", r, b) /\ ProofHeld("newFlow", r, b)
  BY <1>1, <1>4, AloneNow
<1>6. /\ r.kind = "form" /\ r \in Request /\ (r.exist => r.flow \in Flow) /\ Fields(b)
      /\ r.exist \in BOOLEAN
  BY <1>5 DEF Typed, Path, Request, Fields
<1>7. DOMAIN b.set = {}
  BY <1>5, <1>6 DEF Typed, Cols, Pending, SetOK
<1>8. b.t = "keep" /\ b.used = {} /\ b.del = {} /\ b.new = {} /\ b.s = None
  BY <1>5, <1>6 DEF Typed, Pending
<1>9. /\ w.lockF = (IF r.exist THEN {r.flow} ELSE {}) /\ w.lockT = b.lockT /\ w.lockC = b.lockC
      /\ w.set = b.set /\ w.delF = r.exist /\ w.newF = n /\ w.t = "keep" /\ w.used = {}
      /\ w.del = {} /\ w.new = {} /\ w.s = None /\ Fields(w)
  BY <1>3, <1>6, <1>8 DEF Fields
<1>10. Typed("commit", r, w) /\ Path("commit", r)
  BY <1>5, <1>6, <1>7, <1>9 DEF Typed, Path, Labels, Fields
<1>11. Pending("commit", r, w)
  BY <1>5, <1>6, <1>7, <1>9 DEF Pending, SetOK
<1>12. FlowHeld("commit", r, w)'
  <2>1. flow[n] = None /\ \A s \in Rows : sess[s].flow # n
    BY <1>4 DEF LInv, Stored, FlowsStored, SessionsStored
  <2> QED
    BY <2>1, <1>4, <1>5, <1>6, <1>9 DEF FlowHeld, Frame, tables, hist, Rows
<1>13. ProofHeld("commit", r, w)' /\ TotpHeld("commit", r, w)' /\ CodesHeld("commit", r, w)'
  BY <1>4, <1>5, <1>6, <1>7, <1>9 DEF ProofHeld, TotpHeld, CodesHeld, Frame, tables, hist, Path
<1>14. Alone("commit", r, w)'
  BY <1>10, <1>11, <1>12, <1>13 DEF Alone, Typed, Path, Pending, SetOK, Request
<1>15. ASSUME NEW q \in Req \ {p}
       PROVE  Apart(r, w, req[q], wr[q]) /\ Apart(req[q], wr[q], r, w)
  <2>1. Apart(r, b, req[q], wr[q]) /\ Apart(req[q], wr[q], r, b)
    BY <1>1 DEF LInv
  <2>2. n # wr[q].newF /\ n # req[q].flow
    BY <1>4, KnownIssued, NoneAssumption
  <2>3. w.lockF \cap wr[q].lockF = {}
    BY <1>4, <1>9 DEF FreeFlow
  <2> QED
    BY <2>1, <2>2, <2>3, <1>6, <1>7, <1>9 DEF Apart
<1>16. issued' \subseteq Ids
  BY <1>4 DEF LInv, Stored, TypeOK, Ids
<1> QED
  BY <1>2, <1>3, <1>4, <1>14, <1>15, <1>16, LocalKeeps

(* login_submit writes the user whose password was right, and the stage.      *)
LEMMA AdvanceKeeps == ASSUME LInv, NEW p \in Req, advance(p) PROVE LInv'
<1>1. PICK r, b : r = req[p] /\ b = wr[p]
  OBVIOUS
<1>2. PICK S : S = [c \in {"user", "stage"} |->
                      IF c = "user" THEN r.user ELSE required_second_factor(r.tier)]
  OBVIOUS
<1>3. PICK w : w = [b EXCEPT !.lockF = {r.flow}, !.set = S]
  OBVIOUS
<1>4. /\ pc[p] = "advance" /\ FreeFlow(p, r.flow) /\ flow[r.flow] # None
      /\ Goto(p, "commit", r) /\ Write(p, w) /\ UNCHANGED issued /\ Frame
  BY <1>1, <1>2, <1>3 DEF advance
<1>5. /\ Typed("advance", r, b) /\ Path("advance", r) /\ Pending("advance", r, b)
      /\ FlowHeld("advance", r, b) /\ ProofHeld("advance", r, b)
  BY <1>1, <1>4, AloneNow
<1>6. r.kind = "login" /\ r \in Request /\ r.flow \in Flow /\ Fields(b)
  BY <1>5 DEF Typed, Path, Fields
<1>7. /\ DOMAIN S = {"user", "stage"} /\ S["user"] = r.user
      /\ S["stage"] \in {"totp", "webauthn"}
  BY <1>2 DEF required_second_factor
<1>8. /\ b.t = "keep" /\ b.used = {} /\ b.del = {} /\ b.new = {} /\ b.s = None /\ b.newF = None
      /\ ~b.delF
  BY <1>5, <1>6 DEF Typed, Pending
<1>9. /\ w.lockF = {r.flow} /\ w.lockT = b.lockT /\ w.lockC = b.lockC /\ w.set = S
      /\ w.delF = b.delF /\ w.newF = None /\ w.t = "keep" /\ w.used = {} /\ w.del = {}
      /\ w.new = {} /\ w.s = None /\ Fields(w)
  BY <1>3, <1>6, <1>8 DEF Fields
<1>10. Typed("commit", r, w) /\ Path("commit", r)
  BY <1>5, <1>6, <1>7, <1>9 DEF Typed, Path, Labels, Fields, Cols
<1>11. Pending("commit", r, w)
  BY <1>5, <1>6, <1>7, <1>8, <1>9 DEF Pending, SetOK
<1>12. FlowHeld("commit", r, w) /\ ProofHeld("commit", r, w)
  BY <1>4, <1>5, <1>6, <1>9 DEF FlowHeld, ProofHeld, Path
<1>13. TotpHeld("commit", r, w) /\ CodesHeld("commit", r, w)
  BY <1>6, <1>9 DEF TotpHeld, CodesHeld
<1>14. Alone("commit", r, w)
  BY <1>10, <1>11, <1>12, <1>13 DEF Alone
<1>15. ASSUME NEW q \in Req \ {p}
       PROVE  Apart(r, w, req[q], wr[q]) /\ Apart(req[q], wr[q], r, w)
  <2>1. Apart(r, b, req[q], wr[q]) /\ Apart(req[q], wr[q], r, b)
    BY <1>1 DEF LInv
  <2>2. w.lockF \cap wr[q].lockF = {}
    BY <1>4, <1>9 DEF FreeFlow
  <2> QED
    BY <2>1, <2>2, <1>6, <1>9 DEF Apart
<1> QED
  BY <1>4, <1>14, <1>15, QuietKeeps

(* A second factor that was right: the session is pinned to its flow.         *)
LEMMA FinalizeKeeps == ASSUME LInv, NEW p \in Req, finalize_login(p) PROVE LInv'
<1>1. PICK a, b : a = req[p] /\ b = wr[p]
  OBVIOUS
<1>2. PICK s \in Session :
         /\ Draw(s)
         /\ Write(p, [b EXCEPT !.s = s, !.row = Row(a), !.set = Columns(b.set, "done", s)])
  BY <1>1 DEF finalize_login
<1>3. PICK S, w, r : /\ S = Columns(b.set, "done", s)
                     /\ w = [b EXCEPT !.s = s, !.row = Row(a), !.set = S]
                     /\ r = [a EXCEPT !.res = "session"]
  OBVIOUS
<1>4. /\ pc[p] = "create" /\ Goto(p, "commit", r) /\ Frame /\ Write(p, w)
      /\ s \notin issued /\ issued' = issued \cup {s} /\ s # None
  BY <1>1, <1>2, <1>3, NoneAssumption DEF finalize_login, Draw
<1>5. /\ Typed("create", a, b) /\ Path("create", a) /\ Pending("create", a, b)
      /\ FlowHeld("create", a, b) /\ ProofHeld("create", a, b)
  BY <1>1, <1>4, AloneNow
<1>6. /\ a.kind \in {"totp", "verify"} /\ a \in Request /\ Fields(b) /\ a.flow \in Flow
      /\ a.user \in User /\ b.lockF = {a.flow} /\ DOMAIN b.set \subseteq Cols
  BY <1>5 DEF Typed, Path, Request, Fields, Pending
<1>7. /\ "stage" \notin DOMAIN b.set /\ "user" \notin DOMAIN b.set
      /\ "recovery" \notin DOMAIN b.set
      /\ ("chal" \in DOMAIN b.set => a.kind = "verify" /\ b.set["chal"] = None)
      /\ (a.kind = "verify" => "chal" \in DOMAIN b.set)
  BY <1>5, <1>6 DEF Pending, SetOK
<1>8. /\ b.t = "keep" /\ b.used = {} /\ b.del = {} /\ b.new = {} /\ b.newF = None /\ ~b.delF
  BY <1>5, <1>6 DEF Typed, Pending
<1>9. /\ DOMAIN S = DOMAIN b.set \cup {"done"} /\ S["done"] = s
      /\ ("chal" \in DOMAIN b.set => S["chal"] = b.set["chal"])
  BY <1>3 DEF Columns
<1>10. /\ w.lockF = b.lockF /\ w.lockT = b.lockT /\ w.lockC = b.lockC /\ w.set = S
       /\ w.delF = b.delF /\ w.newF = None /\ w.t = "keep" /\ w.used = {} /\ w.del = {}
       /\ w.new = {} /\ w.s = s /\ w.row = Row(a) /\ Fields(w)
  BY <1>3, <1>6, <1>8 DEF Fields
<1>11. /\ r.kind = a.kind /\ r.flow = a.flow /\ r.user = a.user /\ r.good = a.good
       /\ r.tier = a.tier /\ r.exist = a.exist /\ r.proof = a.proof /\ r.res = "session"
       /\ r.gone = a.gone /\ r \in Request /\ Row(r) = Row(a)
  BY <1>3, <1>6 DEF Request, Row
<1>12. Typed("commit", r, w) /\ Path("commit", r)
  BY <1>5, <1>6, <1>9, <1>10, <1>11 DEF Typed, Path, Labels, Fields, Cols
<1>13. Pending("commit", r, w)
  <2>1. SetOK("commit", r, w)
    BY <1>4, <1>6, <1>7, <1>9, <1>10, <1>11 DEF SetOK
  <2> QED
    BY <2>1, <1>5, <1>6, <1>8, <1>10, <1>11 DEF Pending
<1>14. FlowHeld("commit", r, w)'
  BY <1>4, <1>5, <1>6, <1>10, <1>11 DEF FlowHeld, Frame, tables, hist
<1>15. ProofHeld("commit", r, w)'
  BY <1>4, <1>5, <1>6, <1>11 DEF ProofHeld, Frame, tables, hist
<1>16. TotpHeld("commit", r, w)' /\ CodesHeld("commit", r, w)'
  BY <1>6, <1>10, <1>11 DEF TotpHeld, CodesHeld
<1>17. Alone("commit", r, w)'
  BY <1>12, <1>13, <1>14, <1>15, <1>16 DEF Alone, Typed, Path, Pending, SetOK, Request
<1>18. ASSUME NEW q \in Req \ {p}
       PROVE  Apart(r, w, req[q], wr[q]) /\ Apart(req[q], wr[q], r, w)
  <2>1. Apart(a, b, req[q], wr[q]) /\ Apart(req[q], wr[q], a, b)
    BY <1>1 DEF LInv
  <2> QED
    BY <2>1, <1>6, <1>10, <1>11 DEF Apart
<1>19. issued' \subseteq Ids
  BY <1>4 DEF LInv, Stored, TypeOK, Ids
<1> QED
  BY <1>4, <1>17, <1>18, <1>19, LocalKeeps

(* A verify clears the challenge it compares, under the flow's row lock.      *)
LEMMA AssertionKeeps == ASSUME LInv, NEW p \in Req, verify_assertion(p) PROVE LInv'
<1>1. PICK a, b, x : a = req[p] /\ b = wr[p] /\ x = flow[a.flow].chal
  OBVIOUS
<1>2. PICK S, w, r : /\ S = [c \in {"chal"} |-> None]
                     /\ w = [b EXCEPT !.set = S]
                     /\ r = [a EXCEPT !.proof = x]
  OBVIOUS
<1>3. PICK l : l = IF x # None /\ a.code = x /\ a.good THEN "create" ELSE "commit"
  OBVIOUS
<1>4. pc[p] = "assert" /\ Goto(p, l, r) /\ Frame /\ Write(p, w) /\ UNCHANGED issued
  BY <1>1, <1>2, <1>3 DEF verify_assertion, AfterVerify
<1>5. /\ Typed("assert", a, b) /\ Path("assert", a) /\ Pending("assert", a, b)
      /\ FlowHeld("assert", a, b) /\ ProofHeld("assert", a, b)
  BY <1>1, <1>4, AloneNow
<1>6. /\ a.kind = "verify" /\ a \in Request /\ Fields(b) /\ a.flow \in Flow
      /\ a.user \in User /\ b.lockF = {a.flow} /\ flow[a.flow] # None
  BY <1>5 DEF Typed, Path, Request, Fields, Pending, FlowHeld
<1>7. x \in Challenge \cup {None}
  BY <1>1, <1>6 DEF LInv, Stored, TypeOK, FlowRow
<1>8. /\ b.t = "keep" /\ b.used = {} /\ b.del = {} /\ b.new = {} /\ b.newF = None /\ ~b.delF
      /\ b.s = None
  BY <1>5, <1>6 DEF Typed, Pending
<1>9. DOMAIN S = {"chal"} /\ S["chal"] = None
  BY <1>2
<1>10. /\ w.lockF = b.lockF /\ w.lockT = b.lockT /\ w.lockC = b.lockC /\ w.set = S
       /\ w.delF = b.delF /\ w.newF = None /\ w.t = "keep" /\ w.used = {} /\ w.del = {}
       /\ w.new = {} /\ w.s = None /\ Fields(w)
  BY <1>2, <1>6, <1>8 DEF Fields
<1>11. /\ r.kind = a.kind /\ r.flow = a.flow /\ r.user = a.user /\ r.good = a.good
       /\ r.tier = a.tier /\ r.exist = a.exist /\ r.proof = x /\ r.res = a.res
       /\ r.gone = a.gone /\ r \in Request
  BY <1>2, <1>6, <1>7 DEF Request
<1>12. l \in {"create", "commit"} /\ (l = "create" => x # None /\ x \in Challenge)
  BY <1>3, <1>7
<1>13. Typed(l, r, w) /\ Path(l, r)
  BY <1>5, <1>6, <1>9, <1>10, <1>11, <1>12 DEF Typed, Path, Labels, Fields, Cols
<1>14. Pending(l, r, w)
  <2>1. SetOK(l, r, w)
    BY <1>6, <1>9, <1>10, <1>11 DEF SetOK
  <2> QED
    BY <2>1, <1>5, <1>6, <1>8, <1>10, <1>11, <1>12 DEF Pending
<1>15. FlowHeld(l, r, w)
  BY <1>5, <1>6, <1>10, <1>11, <1>12 DEF FlowHeld
<1>16. ProofHeld(l, r, w)
  <2>1. l = "create" => x \notin r.gone
    BY <1>11, <1>12, KindAssumption DEF Request
  <2> QED
    BY <2>1, <1>1, <1>5, <1>6, <1>11, <1>12 DEF ProofHeld, Path
<1>17. TotpHeld(l, r, w) /\ CodesHeld(l, r, w)
  BY <1>6, <1>10, <1>11 DEF TotpHeld, CodesHeld
<1>18. Alone(l, r, w)
  BY <1>13, <1>14, <1>15, <1>16, <1>17 DEF Alone
<1>19. ASSUME NEW q \in Req \ {p}
       PROVE  Apart(r, w, req[q], wr[q]) /\ Apart(req[q], wr[q], r, w)
  <2>1. Apart(a, b, req[q], wr[q]) /\ Apart(req[q], wr[q], a, b)
    BY <1>1 DEF LInv
  <2> QED
    BY <2>1, <1>6, <1>10, <1>11 DEF Apart
<1> QED
  BY <1>4, <1>18, <1>19, QuietKeeps

(* A fresh challenge is in no flow and was never compared.                    *)
LEMMA ChallengeKeeps == ASSUME LInv, NEW p \in Req, set_challenge(p) PROVE LInv'
<1>1. PICK r, b : r = req[p] /\ b = wr[p]
  OBVIOUS
<1>2. PICK x \in Challenge : Draw(x) /\ Write(p, [b EXCEPT !.set = [c \in {"chal"} |-> x]])
  BY <1>1 DEF set_challenge
<1>3. PICK S, w : S = [c \in {"chal"} |-> x] /\ w = [b EXCEPT !.set = S]
  OBVIOUS
<1>4. /\ pc[p] = "challenge" /\ Goto(p, "commit", r) /\ Frame /\ Write(p, w)
      /\ x \notin issued /\ issued' = issued \cup {x}
  BY <1>1, <1>2, <1>3 DEF set_challenge, Draw
<1>5. /\ Typed("challenge", r, b) /\ Path("challenge", r) /\ Pending("challenge", r, b)
      /\ FlowHeld("challenge", r, b) /\ ProofHeld("challenge", r, b)
  BY <1>1, <1>4, AloneNow
<1>6. /\ r.kind = "options" /\ r \in Request /\ Fields(b) /\ r.flow \in Flow
      /\ r.user \in User /\ b.lockF = {r.flow}
  BY <1>5 DEF Typed, Path, Request, Fields, Pending
<1>7. /\ b.t = "keep" /\ b.used = {} /\ b.del = {} /\ b.new = {} /\ b.newF = None /\ ~b.delF
      /\ b.s = None
  BY <1>5, <1>6 DEF Typed, Pending
<1>8. DOMAIN S = {"chal"} /\ S["chal"] = x
  BY <1>3
<1>9. /\ w.lockF = b.lockF /\ w.lockT = b.lockT /\ w.lockC = b.lockC /\ w.set = S
      /\ w.delF = b.delF /\ w.newF = None /\ w.t = "keep" /\ w.used = {} /\ w.del = {}
      /\ w.new = {} /\ w.s = None /\ Fields(w)
  BY <1>3, <1>6, <1>7 DEF Fields
<1>10. Typed("commit", r, w) /\ Path("commit", r)
  BY <1>5, <1>6, <1>8, <1>9 DEF Typed, Path, Labels, Fields, Cols
<1>11. Pending("commit", r, w)
  <2>1. SetOK("commit", r, w)
    BY <1>6, <1>8, <1>9 DEF SetOK
  <2> QED
    BY <2>1, <1>5, <1>6, <1>7, <1>9 DEF Pending
<1>12. FlowHeld("commit", r, w)'
  BY <1>4, <1>5, <1>6, <1>9 DEF FlowHeld, Frame, tables, hist
<1>13. ProofHeld("commit", r, w)'
  <2>1. x \notin met /\ \A f \in Flow : flow[f] # None => flow[f].chal # x
    BY <1>4, NoneAssumption DEF LInv, Stored, FlowsStored
  <2>2. x \in issued'
    BY <1>4
  <2> QED
    BY <2>1, <2>2, <1>4, <1>5, <1>6, <1>8, <1>9 DEF ProofHeld, Frame, tables, hist, Path
<1>14. TotpHeld("commit", r, w)' /\ CodesHeld("commit", r, w)'
  BY <1>6, <1>9 DEF TotpHeld, CodesHeld
<1>15. Alone("commit", r, w)'
  BY <1>10, <1>11, <1>12, <1>13, <1>14 DEF Alone, Typed, Path, Pending, SetOK, Request
<1>16. ASSUME NEW q \in Req \ {p}
       PROVE  Apart(r, w, req[q], wr[q]) /\ Apart(req[q], wr[q], r, w)
  <2>1. Apart(r, b, req[q], wr[q]) /\ Apart(req[q], wr[q], r, b)
    BY <1>1 DEF LInv
  <2>2. req[q].kind = "options" /\ "chal" \in DOMAIN wr[q].set => wr[q].set["chal"] # x
    BY <1>4, KnownIssued
  <2> QED
    BY <2>1, <2>2, <1>6, <1>8, <1>9 DEF Apart
<1>17. issued' \subseteq Ids
  BY <1>4 DEF LInv, Stored, TypeOK, Ids
<1> QED
  BY <1>4, <1>15, <1>16, <1>17, LocalKeeps

(* A new secret is fresh: in no account, not given up, not being inserted.    *)
LEMMA InsertKeeps == ASSUME LInv, NEW p \in Req, insert_secret(p) PROVE LInv'
<1>1. PICK r, b : r = req[p] /\ b = wr[p]
  OBVIOUS
<1>2. PICK x \in Secret :
         Draw(x) /\ Write(p, [b EXCEPT !.lockT = {r.user}, !.t = "insert", !.secret = x])
  BY <1>1 DEF insert_secret
<1>3. PICK w : w = [b EXCEPT !.lockT = {r.user}, !.t = "insert", !.secret = x]
  OBVIOUS
<1>4. /\ pc[p] = "insert" /\ Goto(p, "commit", r) /\ Frame /\ Write(p, w) /\ FreeTotp(p, r.user)
      /\ x \notin issued /\ issued' = issued \cup {x} /\ x # None
  BY <1>1, <1>2, <1>3, NoneAssumption DEF insert_secret, Draw
<1>5. /\ Typed("insert", r, b) /\ Path("insert", r) /\ Pending("insert", r, b)
      /\ FlowHeld("insert", r, b) /\ ProofHeld("insert", r, b)
  BY <1>1, <1>4, AloneNow
<1>6. /\ r.kind = "enrollForm" /\ r \in Request /\ Fields(b) /\ r.flow \in Flow
      /\ r.user \in User /\ DOMAIN b.set \subseteq Cols
  BY <1>5 DEF Typed, Path, Request, Fields, Pending
<1>7. DOMAIN b.set = {}
  BY <1>5, <1>6 DEF Cols, Pending, SetOK
<1>8. b.used = {} /\ b.del = {} /\ b.new = {} /\ b.newF = None /\ ~b.delF /\ b.s = None
  BY <1>5, <1>6 DEF Typed, Pending
<1>9. /\ w.lockF = b.lockF /\ w.lockT = {r.user} /\ w.lockC = b.lockC /\ w.set = b.set
      /\ w.delF = b.delF /\ w.newF = None /\ w.t = "insert" /\ w.secret = x /\ w.used = {}
      /\ w.del = {} /\ w.new = {} /\ w.s = None /\ Fields(w)
  BY <1>3, <1>6, <1>8 DEF Fields
<1>10. Typed("commit", r, w) /\ Path("commit", r)
  BY <1>5, <1>6, <1>7, <1>9 DEF Typed, Path, Labels, Fields
<1>11. Pending("commit", r, w)
  BY <1>4, <1>5, <1>6, <1>7, <1>8, <1>9 DEF Pending, SetOK
<1>12. FlowHeld("commit", r, w)' /\ ProofHeld("commit", r, w)'
  BY <1>4, <1>5, <1>6, <1>7, <1>9 DEF FlowHeld, ProofHeld, Frame, tables, hist, Path
<1>13. TotpHeld("commit", r, w)'
  <2>1. x \notin dropped /\ \A u \in User : totp[u] # None => totp[u].secret # x
    BY <1>4 DEF LInv, Stored, TotpStored
  <2>2. x \in issued'
    BY <1>4
  <2> QED
    BY <2>1, <2>2, <1>4, <1>6, <1>9 DEF TotpHeld, Frame, tables, hist
<1>14. CodesHeld("commit", r, w)'
  BY <1>6, <1>9 DEF CodesHeld
<1>15. Alone("commit", r, w)'
  BY <1>10, <1>11, <1>12, <1>13, <1>14 DEF Alone, Typed, Path, Pending, SetOK, Request
<1>16. ASSUME NEW q \in Req \ {p}
       PROVE  Apart(r, w, req[q], wr[q]) /\ Apart(req[q], wr[q], r, w)
  <2>1. Apart(r, b, req[q], wr[q]) /\ Apart(req[q], wr[q], r, b)
    BY <1>1 DEF LInv
  <2>2. /\ wr[q].t = "insert" => wr[q].secret # x
        /\ req[q].kind = "recovery" => req[q].proof # x
    BY <1>4, KnownIssued
  <2>3. r.user \notin wr[q].lockT
    BY <1>4 DEF FreeTotp
  <2> QED
    BY <2>1, <2>2, <2>3, <1>6, <1>7, <1>9 DEF Apart
<1>17. issued' \subseteq Ids
  BY <1>4 DEF LInv, Stored, TypeOK, Ids
<1> QED
  BY <1>4, <1>15, <1>16, <1>17, LocalKeeps

(* An enrollment confirms the row that is there and holds it from here on.    *)
LEMMA ConfirmKeeps == ASSUME LInv, NEW p \in Req, confirm(p) PROVE LInv'
<1>1. PICK r, b : r = req[p] /\ b = wr[p]
  OBVIOUS
<1>2. PICK w : w = [b EXCEPT !.lockT = {r.user}, !.t = "confirm"]
  OBVIOUS
<1>3. /\ pc[p] = "confirm" /\ Goto(p, "batch", r) /\ Frame /\ Write(p, w) /\ FreeTotp(p, r.user)
      /\ UNCHANGED issued /\ totp[r.user] # None
  BY <1>1, <1>2 DEF confirm
<1>4. /\ Typed("confirm", r, b) /\ Path("confirm", r) /\ Pending("confirm", r, b)
      /\ FlowHeld("confirm", r, b) /\ ProofHeld("confirm", r, b) /\ CodesHeld("confirm", r, b)
  BY <1>1, <1>3, AloneNow
<1>5. /\ r.kind = "enroll" /\ r \in Request /\ Fields(b) /\ r.flow \in Flow
      /\ r.user \in User /\ DOMAIN b.set \subseteq Cols
  BY <1>4 DEF Typed, Path, Request, Fields, Pending
<1>6. DOMAIN b.set = {}
  BY <1>4, <1>5 DEF Cols, Pending, SetOK
<1>7. b.used = {} /\ b.del = {} /\ b.new = {} /\ b.newF = None /\ ~b.delF /\ b.s = None
  BY <1>4, <1>5 DEF Typed, Pending
<1>8. /\ w.lockF = b.lockF /\ w.lockT = {r.user} /\ w.lockC = b.lockC /\ w.set = b.set
      /\ w.delF = b.delF /\ w.newF = None /\ w.t = "confirm" /\ w.used = {}
      /\ w.del = {} /\ w.new = {} /\ w.s = None /\ Fields(w)
  BY <1>2, <1>5, <1>7 DEF Fields
<1>9. Typed("batch", r, w) /\ Path("batch", r)
  BY <1>4, <1>5, <1>6, <1>8 DEF Typed, Path, Labels, Fields
<1>10. Pending("batch", r, w)
  BY <1>4, <1>5, <1>6, <1>7, <1>8 DEF Pending, SetOK
<1>11. FlowHeld("batch", r, w) /\ ProofHeld("batch", r, w)
  BY <1>4, <1>5, <1>6, <1>8 DEF FlowHeld, ProofHeld
<1>12. TotpHeld("batch", r, w) /\ CodesHeld("batch", r, w)
  BY <1>3, <1>5, <1>8 DEF TotpHeld, CodesHeld
<1>13. Alone("batch", r, w)
  BY <1>9, <1>10, <1>11, <1>12 DEF Alone
<1>14. ASSUME NEW q \in Req \ {p}
       PROVE  Apart(r, w, req[q], wr[q]) /\ Apart(req[q], wr[q], r, w)
  <2>1. Apart(r, b, req[q], wr[q]) /\ Apart(req[q], wr[q], r, b)
    BY <1>1 DEF LInv
  <2>2. r.user \notin wr[q].lockT
    BY <1>3 DEF FreeTotp
  <2> QED
    BY <2>1, <2>2, <1>5, <1>8 DEF Apart
<1> QED
  BY <1>3, <1>13, <1>14, QuietKeeps

(* The new batch replaces all that the account has, and nobody draws it again. *)
LEMMA BatchKeeps == ASSUME LInv, NEW p \in Req, issue_batch(p) PROVE LInv'
<1>1. PICK r, b, K : r = req[p] /\ b = wr[p] /\ K = unused[r.user]
  OBVIOUS
<1>2. PICK B \in Batch : /\ B \cap issued = {} /\ issued' = issued \cup B
                         /\ Write(p, [b EXCEPT !.lockC = K, !.del = K, !.new = B])
  BY <1>1 DEF issue_batch, Replaced
<1>3. PICK w : w = [b EXCEPT !.lockC = K, !.del = K, !.new = B]
  OBVIOUS
<1>4. pc[p] = "batch" /\ Goto(p, "finish", r) /\ Frame /\ Write(p, w) /\ FreeCodes(p, K)
  BY <1>1, <1>2, <1>3 DEF issue_batch, Replaced
<1>5. /\ Typed("batch", r, b) /\ Path("batch", r) /\ Pending("batch", r, b)
      /\ FlowHeld("batch", r, b) /\ ProofHeld("batch", r, b) /\ TotpHeld("batch", r, b)
  BY <1>1, <1>4, AloneNow
<1>6. /\ r.kind = "enroll" /\ r \in Request /\ Fields(b) /\ r.flow \in Flow
      /\ r.user \in User /\ DOMAIN b.set \subseteq Cols
  BY <1>5 DEF Typed, Path, Request, Fields, Pending
<1>7. DOMAIN b.set = {}
  BY <1>5, <1>6 DEF Cols, Pending, SetOK
<1>8. b.used = {} /\ b.newF = None /\ ~b.delF /\ b.s = None /\ b.t = "confirm"
  BY <1>5, <1>6 DEF Typed, Pending
<1>9. K \subseteq Code /\ B \subseteq Code
  BY <1>1, <1>6, StartAssumption DEF LInv, Stored, TypeOK
<1>10. /\ w.lockF = b.lockF /\ w.lockT = b.lockT /\ w.lockC = K /\ w.set = b.set
       /\ w.delF = b.delF /\ w.newF = None /\ w.t = "confirm" /\ w.used = {}
       /\ w.del = K /\ w.new = B /\ w.s = None /\ Fields(w)
  BY <1>3, <1>6, <1>8, <1>9 DEF Fields
<1>11. Typed("finish", r, w) /\ Path("finish", r)
  BY <1>5, <1>6, <1>7, <1>10 DEF Typed, Path, Labels, Fields
<1>12. Pending("finish", r, w)
  BY <1>5, <1>6, <1>7, <1>8, <1>10 DEF Pending, SetOK
<1>13. FlowHeld("finish", r, w)' /\ ProofHeld("finish", r, w)' /\ TotpHeld("finish", r, w)'
  <2>1. issued \subseteq issued'
    BY <1>2
  <2>2. FlowHeld("finish", r, w)'
    BY <2>1, <1>4, <1>5, <1>6, <1>10 DEF FlowHeld, Frame, tables, hist
  <2>3. ProofHeld("finish", r, w)'
    BY <2>1, <1>4, <1>5, <1>6, <1>10 DEF ProofHeld, Frame, tables, hist
  <2>4. TotpHeld("finish", r, w)'
    BY <1>4, <1>5, <1>6, <1>8, <1>10 DEF TotpHeld, Frame, tables
  <2> QED
    BY <2>2, <2>3, <2>4
<1>14. CodesHeld("finish", r, w)'
  <2>1. \A c \in B : spent[c] = 0 /\ \A u \in User : c \notin unused[u]
    BY <1>2, <1>9 DEF LInv, Stored, CodesStored
  <2>2. unused' = unused /\ spent' = spent /\ B \subseteq issued'
    BY <1>2, <1>4 DEF Frame, tables, hist
  <2> QED
    BY <2>1, <2>2, <1>1, <1>6, <1>10 DEF CodesHeld
<1>15. Alone("finish", r, w)'
  BY <1>11, <1>12, <1>13, <1>14 DEF Alone, Typed, Path, Pending, SetOK, Request
<1>16. ASSUME NEW q \in Req \ {p}
       PROVE  Apart(r, w, req[q], wr[q]) /\ Apart(req[q], wr[q], r, w)
  <2>1. Apart(r, b, req[q], wr[q]) /\ Apart(req[q], wr[q], r, b)
    BY <1>1 DEF LInv
  <2>2. K \cap wr[q].lockC = {}
    BY <1>4 DEF FreeCodes
  <2>3. B \cap wr[q].new = {}
    BY <1>2, KnownIssued
  <2> QED
    BY <2>1, <2>2, <2>3, <1>6, <1>10 DEF Apart
<1>17. issued' \subseteq Ids /\ issued \subseteq issued'
  BY <1>2, <1>9 DEF LInv, Stored, TypeOK, Ids
<1> QED
  BY <1>4, <1>15, <1>16, <1>17, LocalKeeps

(* The enrollment ends with a session and without its flow.                   *)
LEMMA FinishKeeps == ASSUME LInv, NEW p \in Req, finish_enroll(p) PROVE LInv'
<1>1. PICK a, b : a = req[p] /\ b = wr[p]
  OBVIOUS
<1>2. PICK s \in Session :
         /\ Draw(s)
         /\ Write(p, [b EXCEPT !.s = s, !.row = Row(a), !.delF = TRUE, !.lockF = {a.flow}])
  BY <1>1 DEF finish_enroll
<1>3. PICK w, r : /\ w = [b EXCEPT !.s = s, !.row = Row(a), !.delF = TRUE, !.lockF = {a.flow}]
                  /\ r = [a EXCEPT !.res = "session"]
  OBVIOUS
<1>4. /\ pc[p] = "finish" /\ Goto(p, "commit", r) /\ Frame /\ Write(p, w)
      /\ FreeFlow(p, a.flow) /\ s \notin issued /\ issued' = issued \cup {s} /\ s # None
  BY <1>1, <1>2, <1>3, NoneAssumption DEF finish_enroll, Draw
<1>5. /\ Typed("finish", a, b) /\ Path("finish", a) /\ Pending("finish", a, b)
      /\ FlowHeld("finish", a, b) /\ ProofHeld("finish", a, b) /\ TotpHeld("finish", a, b)
      /\ CodesHeld("finish", a, b)
  BY <1>1, <1>4, AloneNow
<1>6. /\ a.kind = "enroll" /\ a \in Request /\ Fields(b) /\ a.flow \in Flow
      /\ a.user \in User /\ DOMAIN b.set \subseteq Cols
  BY <1>5 DEF Typed, Path, Request, Fields
<1>7. DOMAIN b.set = {}
  BY <1>5, <1>6 DEF Cols, Pending, SetOK
<1>8. b.used = {} /\ b.newF = None /\ b.t = "confirm"
  BY <1>5, <1>6 DEF Typed, Pending
<1>9. /\ w.lockF = {a.flow} /\ w.lockT = b.lockT /\ w.lockC = b.lockC /\ w.set = b.set
      /\ w.delF = TRUE /\ w.newF = None /\ w.t = "confirm" /\ w.used = {} /\ w.del = b.del
      /\ w.new = b.new /\ w.s = s /\ w.row = Row(a) /\ Fields(w)
  BY <1>3, <1>6, <1>8 DEF Fields
<1>10. /\ r.kind = a.kind /\ r.flow = a.flow /\ r.user = a.user /\ r.good = a.good
       /\ r.tier = a.tier /\ r.exist = a.exist /\ r.proof = a.proof /\ r.res = "session"
       /\ r.gone = a.gone /\ r \in Request /\ Row(r) = Row(a)
  BY <1>3, <1>6 DEF Request, Row
<1>11. Typed("commit", r, w) /\ Path("commit", r)
  BY <1>5, <1>6, <1>7, <1>9, <1>10 DEF Typed, Path, Labels, Fields
<1>12. Pending("commit", r, w)
  BY <1>4, <1>5, <1>6, <1>7, <1>8, <1>9, <1>10 DEF Pending, SetOK
<1>13. FlowHeld("commit", r, w)'
  BY <1>4, <1>5, <1>6, <1>9, <1>10 DEF FlowHeld, Frame, tables, hist
<1>14. ProofHeld("commit", r, w)' /\ TotpHeld("commit", r, w)'
  <2>1. ProofHeld("commit", r, w)'
    BY <1>4, <1>5, <1>6, <1>9, <1>10 DEF ProofHeld, Frame, tables, hist
  <2>2. TotpHeld("commit", r, w)'
    BY <1>4, <1>5, <1>6, <1>8, <1>9, <1>10 DEF TotpHeld, Frame, tables
  <2> QED
    BY <2>1, <2>2
<1>15. CodesHeld("commit", r, w)'
  BY <1>4, <1>5, <1>6, <1>9, <1>10 DEF CodesHeld, Frame, tables, hist
<1>16. Alone("commit", r, w)'
  BY <1>11, <1>12, <1>13, <1>14, <1>15 DEF Alone, Typed, Path, Pending, SetOK, Request
<1>17. ASSUME NEW q \in Req \ {p}
       PROVE  Apart(r, w, req[q], wr[q]) /\ Apart(req[q], wr[q], r, w)
  <2>1. Apart(a, b, req[q], wr[q]) /\ Apart(req[q], wr[q], a, b)
    BY <1>1 DEF LInv
  <2>2. a.flow \notin wr[q].lockF
    BY <1>4 DEF FreeFlow
  <2> QED
    BY <2>1, <2>2, <1>6, <1>9, <1>10 DEF Apart
<1>18. issued' \subseteq Ids
  BY <1>4 DEF LInv, Stored, TypeOK, Ids
<1> QED
  BY <1>4, <1>16, <1>17, <1>18, LocalKeeps

(* A recovery locks the unused codes and uses one of them.                    *)
LEMMA ConsumeKeeps == ASSUME LInv, NEW p \in Req, consume(p) PROVE LInv'
<1>1. CASE Refuse(p)
  BY <1>1, RefuseKeeps
<1>2. CASE ~Refuse(p)
  <2>1. PICK r, b, K : r = req[p] /\ b = wr[p] /\ K = unused[r.user]
    OBVIOUS
  <2>2. PICK w : w = [b EXCEPT !.lockC = K, !.used = {r.code}]
    OBVIOUS
  <2>3. /\ pc[p] = "redeem" /\ Goto(p, "old", r) /\ Frame /\ Write(p, w) /\ FreeCodes(p, K)
        /\ UNCHANGED issued /\ r.code \in K
    BY <1>2, <2>1, <2>2 DEF consume, CodesForUpdate
  <2>4. /\ Typed("redeem", r, b) /\ Path("redeem", r) /\ Pending("redeem", r, b)
        /\ FlowHeld("redeem", r, b) /\ ProofHeld("redeem", r, b) /\ TotpHeld("redeem", r, b)
    BY <2>1, <2>3, AloneNow
  <2>5. /\ r.kind = "recovery" /\ r \in Request /\ Fields(b) /\ r.flow \in Flow
        /\ r.user \in User /\ DOMAIN b.set \subseteq Cols
    BY <2>4 DEF Typed, Path, Request, Fields
  <2>6. DOMAIN b.set = {}
    BY <2>4, <2>5 DEF Cols, Pending, SetOK
  <2>7. b.newF = None /\ ~b.delF /\ b.s = None /\ b.t = "keep" /\ b.del = {} /\ b.new = {}
    BY <2>4, <2>5 DEF Typed, Pending
  <2>8. K \subseteq Code
    BY <2>1, <2>5 DEF LInv, Stored, TypeOK
  <2>9. /\ w.lockF = b.lockF /\ w.lockT = b.lockT /\ w.lockC = K /\ w.set = b.set
        /\ w.delF = b.delF /\ w.newF = None /\ w.t = "keep" /\ w.used = {r.code}
        /\ w.del = {} /\ w.new = {} /\ w.s = None /\ Fields(w)
    BY <2>2, <2>3, <2>5, <2>7, <2>8 DEF Fields
  <2>10. Typed("old", r, w) /\ Path("old", r)
    BY <2>4, <2>5, <2>6, <2>9 DEF Typed, Path, Labels, Fields
  <2>11. Pending("old", r, w)
    BY <2>3, <2>4, <2>5, <2>6, <2>7, <2>9 DEF Pending, SetOK
  <2>12. FlowHeld("old", r, w) /\ ProofHeld("old", r, w)
    BY <2>4, <2>5, <2>9 DEF FlowHeld, ProofHeld
  <2>13. TotpHeld("old", r, w) /\ CodesHeld("old", r, w)
    BY <2>1, <2>3, <2>4, <2>5, <2>9 DEF TotpHeld, CodesHeld
  <2>14. Alone("old", r, w)
    BY <2>10, <2>11, <2>12, <2>13 DEF Alone
  <2>15. ASSUME NEW q \in Req \ {p}
         PROVE  Apart(r, w, req[q], wr[q]) /\ Apart(req[q], wr[q], r, w)
    <3>1. Apart(r, b, req[q], wr[q]) /\ Apart(req[q], wr[q], r, b)
      BY <2>1 DEF LInv
    <3>2. K \cap wr[q].lockC = {}
      BY <2>3 DEF FreeCodes
    <3> QED
      BY <3>1, <3>2, <2>5, <2>9 DEF Apart
  <2> QED
    BY <2>3, <2>14, <2>15, QuietKeeps
<1> QED
  BY <1>1, <1>2

(* A recovery deletes what it found under the row's lock.                     *)
LEMMA DropKeeps == ASSUME LInv, NEW p \in Req, drop_secret(p) PROVE LInv'
<1>1. PICK r, b : r = req[p] /\ b = wr[p]
  OBVIOUS
<1>2. PICK S, w : /\ S = [c \in {"recovery"} |-> TRUE]
                  /\ w = [b EXCEPT !.lockF = {r.flow}, !.set = S,
                                   !.lockT = IF r.exist THEN {r.user} ELSE {},
                                   !.t = IF r.exist THEN "delete" ELSE "keep"]
  OBVIOUS
<1>3. /\ pc[p] = "lost" /\ Goto(p, "commit", r) /\ Frame /\ Write(p, w) /\ UNCHANGED issued
      /\ FreeFlow(p, r.flow) /\ flow[r.flow] # None /\ (r.exist => FreeTotp(p, r.user))
  BY <1>1, <1>2 DEF drop_secret, Lost
<1>4. /\ Typed("lost", r, b) /\ Path("lost", r) /\ Pending("lost", r, b)
      /\ FlowHeld("lost", r, b) /\ ProofHeld("lost", r, b) /\ TotpHeld("lost", r, b)
      /\ CodesHeld("lost", r, b)
  BY <1>1, <1>3, AloneNow
<1>5. /\ r.kind = "recovery" /\ r \in Request /\ Fields(b) /\ r.flow \in Flow
      /\ r.user \in User /\ r.exist \in BOOLEAN
  BY <1>4 DEF Typed, Path, Request, Fields
<1>6. DOMAIN S = {"recovery"} /\ S["recovery"] = TRUE
  BY <1>2
<1>7. b.newF = None /\ ~b.delF /\ b.s = None /\ b.del = {} /\ b.new = {}
  BY <1>4, <1>5 DEF Typed, Pending
<1>8. /\ w.lockF = {r.flow} /\ w.lockT = (IF r.exist THEN {r.user} ELSE {})
      /\ w.lockC = b.lockC /\ w.set = S /\ w.delF = b.delF /\ w.newF = None
      /\ w.t = (IF r.exist THEN "delete" ELSE "keep") /\ w.used = b.used
      /\ w.del = {} /\ w.new = {} /\ w.s = None /\ Fields(w)
  BY <1>2, <1>5, <1>7 DEF Fields
<1>9. Typed("commit", r, w) /\ Path("commit", r)
  BY <1>4, <1>5, <1>6, <1>8 DEF Typed, Path, Labels, Fields, Cols
<1>10. Pending("commit", r, w)
  <2>1. SetOK("commit", r, w)
    BY <1>5, <1>6, <1>8 DEF SetOK
  <2> QED
    BY <2>1, <1>4, <1>5, <1>7, <1>8 DEF Pending, TotpHeld
<1>11. FlowHeld("commit", r, w) /\ ProofHeld("commit", r, w)
  BY <1>3, <1>4, <1>5, <1>8 DEF FlowHeld, ProofHeld
<1>12. TotpHeld("commit", r, w) /\ CodesHeld("commit", r, w)
  BY <1>4, <1>5, <1>8 DEF TotpHeld, CodesHeld
<1>13. Alone("commit", r, w)
  BY <1>9, <1>10, <1>11, <1>12 DEF Alone
<1>14. ASSUME NEW q \in Req \ {p}
       PROVE  Apart(r, w, req[q], wr[q]) /\ Apart(req[q], wr[q], r, w)
  <2>1. Apart(r, b, req[q], wr[q]) /\ Apart(req[q], wr[q], r, b)
    BY <1>1 DEF LInv
  <2>2. r.flow \notin wr[q].lockF /\ w.lockT \cap wr[q].lockT = {}
    BY <1>3, <1>8 DEF FreeFlow, FreeTotp
  <2> QED
    BY <2>1, <2>2, <1>5, <1>8 DEF Apart
<1> QED
  BY <1>3, <1>13, <1>14, QuietKeeps

-----------------------------------------------------------------------------
(* What a commit makes of the tables.                                      *)

(* A row with some columns rewritten.                                         *)
LEMMA PatchRow ==
    ASSUME NEW row \in FlowRow, NEW upd, DOMAIN upd \subseteq Cols,
           "stage" \in DOMAIN upd => upd["stage"] \in {"totp", "webauthn"},
           "user" \in DOMAIN upd => upd["user"] \in User,
           "chal" \in DOMAIN upd => upd["chal"] \in Challenge \cup {None},
           "done" \in DOMAIN upd => upd["done"] \in Session,
           "recovery" \in DOMAIN upd => upd["recovery"] = TRUE
    PROVE  /\ Patch(row, upd) \in FlowRow
           /\ Patch(row, upd).stage = IF "stage" \in DOMAIN upd THEN upd["stage"] ELSE row.stage
           /\ Patch(row, upd).user = IF "user" \in DOMAIN upd THEN upd["user"] ELSE row.user
           /\ Patch(row, upd).chal = IF "chal" \in DOMAIN upd THEN upd["chal"] ELSE row.chal
           /\ Patch(row, upd).done = IF "done" \in DOMAIN upd THEN upd["done"] ELSE row.done
           /\ DOMAIN upd = {} => Patch(row, upd) = row
<1>1. DOMAIN row = Cols
  BY DEF FlowRow, Cols
<1>2. PICK z : z = Patch(row, upd)
  OBVIOUS
<1>3. /\ z["stage"] = IF "stage" \in DOMAIN upd THEN upd["stage"] ELSE row["stage"]
      /\ z["user"] = IF "user" \in DOMAIN upd THEN upd["user"] ELSE row["user"]
      /\ z["chal"] = IF "chal" \in DOMAIN upd THEN upd["chal"] ELSE row["chal"]
      /\ z["done"] = IF "done" \in DOMAIN upd THEN upd["done"] ELSE row["done"]
      /\ z["recovery"] = IF "recovery" \in DOMAIN upd THEN upd["recovery"] ELSE row["recovery"]
      /\ z = [c \in Cols |-> z[c]]
  BY <1>1, <1>2 DEF Patch, Cols
<1>4. /\ row["stage"] \in {"password", "totp", "webauthn"} /\ row["user"] \in User \cup {None}
      /\ row["chal"] \in Challenge \cup {None} /\ row["done"] \in Session \cup {None}
      /\ row["recovery"] \in BOOLEAN
  BY DEF FlowRow
<1>5. /\ z["stage"] \in {"password", "totp", "webauthn"} /\ z["user"] \in User \cup {None}
      /\ z["chal"] \in Challenge \cup {None} /\ z["done"] \in Session \cup {None}
  BY <1>3, <1>4
<1>6. z["recovery"] \in BOOLEAN
  BY <1>3, <1>4
<1>7. z \in FlowRow
  BY <1>3, <1>5, <1>6 DEF FlowRow, Cols
<1>8. DOMAIN upd = {} => z = row
  BY <1>1, <1>2 DEF Patch, FlowRow, Cols
<1> QED
  BY <1>2, <1>3, <1>7, <1>8

(* A committing request, as the invariant knows it.                           *)
LEMMA CommitNow ==
    ASSUME LInv, NEW p \in Req, Commit(p), NEW r, NEW w, r = req[p], w = wr[p]
    PROVE  /\ Typed("commit", r, w) /\ Path("commit", r) /\ Pending("commit", r, w)
           /\ SetOK("commit", r, w)
           /\ FlowHeld("commit", r, w) /\ ProofHeld("commit", r, w)
           /\ TotpHeld("commit", r, w) /\ CodesHeld("commit", r, w)
BY AloneNow DEF Commit, Pending

(* The flow row: replaced, deleted, patched column by column, or as it was.   *)
LEMMA CommitFlow ==
    ASSUME LInv, NEW p \in Req, Commit(p), NEW r, NEW w, r = req[p], w = wr[p], NEW x \in Flow
    PROVE  \/ x = w.newF /\ flow'[x] = NewFlow /\ r.kind = "form"
           \/ flow'[x] = None /\ x # w.newF
           \/ flow'[x] = flow[x] /\ x # w.newF /\ (x # r.flow \/ DOMAIN w.set = {})
           \/ /\ x # w.newF /\ x = r.flow /\ flow[x] # None /\ flow[x] \in FlowRow
              /\ w.lockF = {x}
              /\ flow'[x] \in FlowRow
              /\ flow'[x].stage = IF "stage" \in DOMAIN w.set THEN w.set["stage"] ELSE flow[x].stage
              /\ flow'[x].user = IF "stage" \in DOMAIN w.set THEN r.user ELSE flow[x].user
              /\ flow'[x].chal = IF "chal" \in DOMAIN w.set THEN w.set["chal"] ELSE flow[x].chal
              /\ flow'[x].done = IF "done" \in DOMAIN w.set THEN w.s ELSE flow[x].done
<1>1. /\ Typed("commit", r, w) /\ Path("commit", r) /\ Pending("commit", r, w)
      /\ SetOK("commit", r, w) /\ ProofHeld("commit", r, w)
  BY CommitNow
<1>2. flow'[x] = IF x = w.newF THEN NewFlow
                 ELSE IF x = r.flow /\ w.delF THEN None
                 ELSE IF x = r.flow /\ flow[x] # None THEN Patch(flow[x], w.set)
                 ELSE flow[x]
  BY DEF Commit
<1>3. CASE x = w.newF
  <2>1. r.kind = "form"
    BY <1>1, <1>3, NoneAssumption DEF Pending
  <2> QED
    BY <1>2, <1>3, <2>1
<1>4. CASE x # w.newF /\ x = r.flow /\ w.delF
  BY <1>2, <1>4
<1>5. CASE x # w.newF /\ (x # r.flow \/ flow[x] = None) /\ ~(x = r.flow /\ w.delF)
  BY <1>2, <1>5
<1>6. CASE x # w.newF /\ x = r.flow /\ ~w.delF /\ flow[x] # None
  <2>1. flow'[x] = Patch(flow[x], w.set) /\ flow[x] \in FlowRow
    BY <1>2, <1>6 DEF LInv, Stored, TypeOK
  <2>2. /\ DOMAIN w.set \subseteq Cols
        /\ "stage" \in DOMAIN w.set => w.set["stage"] \in {"totp", "webauthn"}
        /\ "user" \in DOMAIN w.set => w.set["user"] \in User /\ w.set["user"] = r.user
        /\ "stage" \in DOMAIN w.set <=> "user" \in DOMAIN w.set
        /\ "chal" \in DOMAIN w.set => w.set["chal"] \in Challenge \cup {None}
        /\ "done" \in DOMAIN w.set => w.set["done"] \in Session /\ w.set["done"] = w.s
        /\ "recovery" \in DOMAIN w.set => w.set["recovery"] = TRUE
    BY <1>1 DEF Typed, Path, SetOK, ProofHeld
  <2>3. CASE DOMAIN w.set = {}
    BY <2>1, <2>2, <2>3, <1>6, PatchRow
  <2>4. CASE DOMAIN w.set # {}
    <3>1. w.lockF = {x}
      BY <2>4, <1>1, <1>6 DEF SetOK
    <3>2. PICK z : z = Patch(flow[x], w.set)
      OBVIOUS
    <3>3. /\ z \in FlowRow
          /\ z.stage = IF "stage" \in DOMAIN w.set THEN w.set["stage"] ELSE flow[x].stage
          /\ z.user = IF "user" \in DOMAIN w.set THEN w.set["user"] ELSE flow[x].user
          /\ z.chal = IF "chal" \in DOMAIN w.set THEN w.set["chal"] ELSE flow[x].chal
          /\ z.done = IF "done" \in DOMAIN w.set THEN w.set["done"] ELSE flow[x].done
      BY <2>1, <2>2, <3>2, PatchRow
    <3> QED
      BY <2>1, <2>2, <3>1, <3>2, <3>3, <1>6
  <2> QED
    BY <2>3, <2>4
<1> QED
  BY <1>3, <1>4, <1>5, <1>6

(* A flow row that another request has locked is as it was.                   *)
LEMMA CommitSameFlow ==
    ASSUME LInv, NEW p \in Req, Commit(p), NEW q \in Req \ {p}, NEW x \in Flow,
           x \in wr[q].lockF \/ x = wr[q].newF
    PROVE  flow'[x] = flow[x]
<1>1. PICK r, w : r = req[p] /\ w = wr[p]
  OBVIOUS
<1>2. Apart(r, w, req[q], wr[q]) /\ Apart(req[q], wr[q], r, w)
  BY <1>1 DEF LInv
<1>3. /\ Pending("commit", r, w) /\ SetOK("commit", r, w)
  BY <1>1, CommitNow
<1>4. wr[q].lockF \subseteq {req[q].flow}
  BY AloneNow DEF Pending
<1>5. x # w.newF
  BY <1>2, <1>4, NoneAssumption DEF Apart
<1>6. flow'[x] = IF x = w.newF THEN NewFlow
                 ELSE IF x = r.flow /\ w.delF THEN None
                 ELSE IF x = r.flow /\ flow[x] # None THEN Patch(flow[x], w.set)
                 ELSE flow[x]
  BY <1>1 DEF Commit
<1>7. CASE x # r.flow
  BY <1>5, <1>6, <1>7
<1>8. CASE x = r.flow
  <2>1. x \in wr[q].lockF
    BY <1>2, <1>8, NoneAssumption DEF Apart
  <2>2. DOMAIN w.set = {} /\ ~w.delF
    BY <2>1, <1>2, <1>3, <1>8 DEF Apart, Pending, SetOK
  <2>3. flow[x] # None => Patch(flow[x], w.set) = flow[x]
    <3>1. flow[x] # None => flow[x] \in FlowRow
      BY DEF LInv, Stored, TypeOK
    <3> QED
      BY <3>1, <2>2, PatchRow
  <2> QED
    BY <2>2, <2>3, <1>5, <1>6
<1> QED
  BY <1>7, <1>8

(* What is compared: nothing, or the challenge of the request's own flow.     *)
LEMMA CommitMet ==
    ASSUME LInv, NEW p \in Req, Commit(p), NEW r, NEW w, r = req[p], w = wr[p]
    PROVE  \/ met' = met
           \/ /\ r.kind = "verify" /\ r.flow \in Flow /\ flow[r.flow] # None
              /\ flow[r.flow].chal \in Challenge
              /\ met' = met \cup {flow[r.flow].chal}
              /\ "chal" \in DOMAIN w.set /\ w.set["chal"] = None
              /\ w.newF = None /\ ~w.delF
<1>1. /\ Typed("commit", r, w) /\ Path("commit", r) /\ Pending("commit", r, w)
      /\ SetOK("commit", r, w) /\ ProofHeld("commit", r, w) /\ FlowHeld("commit", r, w)
  BY CommitNow
<1>2. met' = met \cup ({r.proof} \cap Challenge)
  BY DEF Commit
<1>3. CASE r.proof \notin Challenge
  BY <1>2, <1>3
<1>4. CASE r.proof \in Challenge
  <2>1. r.kind = "verify"
    BY <1>1, <1>4, NoneAssumption, KindAssumption DEF Typed, Path, ProofHeld, Request, Kinds
  <2> QED
    BY <2>1, <1>1, <1>2, <1>4 DEF Path, Pending, SetOK, ProofHeld, FlowHeld
<1> QED
  BY <1>3, <1>4

(* What is given up: nothing, or the secret of a recovery, whose row goes.    *)
LEMMA CommitDropped ==
    ASSUME LInv, NEW p \in Req, Commit(p), NEW r, NEW w, r = req[p], w = wr[p]
    PROVE  \/ dropped' = dropped
           \/ /\ r.kind = "recovery" /\ r.proof \in Secret /\ r.proof \in issued
              /\ dropped' = dropped \cup {r.proof}
              /\ r.user \in User /\ w.t = "delete"
              /\ \A u \in User : totp[u] # None /\ totp[u].secret = r.proof => u = r.user
<1>1. /\ Path("commit", r) /\ Pending("commit", r, w)
      /\ SetOK("commit", r, w) /\ ProofHeld("commit", r, w) /\ TotpHeld("commit", r, w)
  BY CommitNow
<1>2. dropped' = IF "recovery" \in DOMAIN w.set /\ r.proof # None THEN dropped \cup {r.proof}
                 ELSE dropped
  BY DEF Commit
<1> QED
  BY <1>1, <1>2 DEF Path, Pending, SetOK, ProofHeld, TotpHeld

(* The authenticator's row: inserted, confirmed, deleted or as it was.        *)
LEMMA CommitTotp ==
    ASSUME LInv, NEW p \in Req, Commit(p), NEW r, NEW w, r = req[p], w = wr[p], NEW u \in User
    PROVE  \/ totp'[u] = totp[u] /\ (w.t = "keep" \/ u # r.user)
           \/ u = r.user /\ w.t = "delete" /\ totp'[u] = None
           \/ /\ u = r.user /\ w.t = "insert" /\ totp'[u] \in TotpRow
              /\ totp'[u].secret = w.secret
           \/ /\ u = r.user /\ w.t = "confirm" /\ totp[u] # None /\ totp'[u] \in TotpRow
              /\ totp'[u].secret = totp[u].secret
<1>1. Typed("commit", r, w) /\ Pending("commit", r, w) /\ TotpHeld("commit", r, w)
  BY CommitNow
<1>2. totp \in [User -> TotpRow \cup {None}]
  BY DEF LInv, Stored, TypeOK
<1>3. totp' = IF w.t = "keep" THEN totp ELSE [totp EXCEPT ![r.user] = TotpAfter(totp[r.user], w)]
  BY DEF Commit
<1>4. w.t \in {"keep", "insert", "confirm", "delete"} /\ w.secret \in Secret \cup {None}
  BY <1>1 DEF Typed
<1>5. CASE w.t = "keep" \/ u # r.user
  BY <1>2, <1>3, <1>5
<1>6. CASE w.t # "keep" /\ u = r.user
  <2>1. totp'[u] = TotpAfter(totp[u], w)
    BY <1>2, <1>3, <1>6
  <2>2. CASE w.t = "insert"
    <3>1. totp'[u] = [secret |-> w.secret, confirmed |-> FALSE] /\ w.secret \in Secret
      BY <2>1, <2>2, <1>1, <1>4 DEF TotpAfter, Pending
    <3> QED
      BY <3>1, <2>2, <1>6 DEF TotpRow
  <2>3. CASE w.t = "confirm"
    <3>1. totp'[u] = [totp[u] EXCEPT !.confirmed = TRUE] /\ totp[u] # None
      BY <2>1, <2>3, <1>1, <1>6 DEF TotpAfter, TotpHeld
    <3>2. totp[u] \in TotpRow
      BY <3>1, <1>2
    <3> QED
      BY <3>1, <3>2, <2>3, <1>6 DEF TotpRow
  <2>4. CASE w.t = "delete"
    BY <2>1, <2>4, <1>6 DEF TotpAfter
  <2> QED
    BY <2>2, <2>3, <2>4, <1>4, <1>6
<1> QED
  BY <1>5, <1>6

(* The recovery codes: some used, or all replaced by a new batch, or as they  *)
(* were.                                                                      *)
LEMMA CommitCodes ==
    ASSUME LInv, NEW p \in Req, Commit(p), NEW r, NEW w, r = req[p], w = wr[p]
    PROVE  /\ \A u \in User : u # r.user => unused'[u] = unused[u]
           /\ r.user \in User =>
                unused'[r.user] = (unused[r.user] \ (w.used \cup w.del)) \cup w.new
           /\ w.used # {} => r.user \in User /\ w.used \subseteq unused[r.user] /\ w.new = {}
           /\ w.new # {} => r.user \in User /\ unused'[r.user] = w.new /\ w.new \in Batch
           /\ unused' \in [User -> SUBSET Code]
           /\ \A c \in Code : spent'[c] = IF c \in w.used THEN spent[c] + 1 ELSE spent[c]
           /\ spent' = [c \in Code |-> spent'[c]]
<1>1. /\ Typed("commit", r, w) /\ Path("commit", r) /\ Pending("commit", r, w)
      /\ CodesHeld("commit", r, w)
  BY CommitNow
<1>2. unused \in [User -> SUBSET Code] /\ None \notin User
  BY NoneAssumption DEF LInv, Stored, TypeOK
<1>3. unused' = IF r.user = None THEN unused
                ELSE [unused EXCEPT ![r.user] = (unused[r.user] \ (w.used \cup w.del)) \cup w.new]
  BY DEF Commit
<1>4. spent' = [c \in Code |-> IF c \in w.used THEN spent[c] + 1 ELSE spent[c]]
  BY DEF Commit
<1>5. w.new \subseteq Code /\ r.user \in User \cup {None}
  BY <1>1 DEF Typed, Request
<1>6. /\ \A u \in User : u # r.user => unused'[u] = unused[u]
      /\ r.user \in User => unused'[r.user] = (unused[r.user] \ (w.used \cup w.del)) \cup w.new
  BY <1>2, <1>3
<1>7. unused' \in [User -> SUBSET Code]
  BY <1>2, <1>3, <1>5
<1>8. w.used # {} => r.user \in User /\ w.used \subseteq unused[r.user] /\ w.new = {}
  BY <1>1 DEF Path, Pending, CodesHeld
<1>9. w.new # {} => r.user \in User /\ unused[r.user] \subseteq w.del /\ w.new \in Batch
  BY <1>1 DEF Path, Pending, CodesHeld
<1>10. w.new # {} => unused'[r.user] = w.new
  BY <1>6, <1>9
<1> QED
  BY <1>4, <1>6, <1>7, <1>8, <1>9, <1>10

-----------------------------------------------------------------------------
(* A commit keeps the tables right.                                        *)

(* The tables keep their types.                                               *)
LEMMA CommitTypes == ASSUME LInv, NEW p \in Req, Commit(p) PROVE TypeOK'
<1>1. PICK r, w : r = req[p] /\ w = wr[p]
  OBVIOUS
<1>2. /\ Typed("commit", r, w) /\ Path("commit", r) /\ Pending("commit", r, w)
      /\ SetOK("commit", r, w) /\ ProofHeld("commit", r, w) /\ FlowHeld("commit", r, w)
  BY <1>1, CommitNow
<1>3. TypeOK
  BY DEF LInv, Stored
<1>4. flow' \in [Flow -> FlowRow \cup {None}]
  <2>1. NewFlow \in FlowRow
    BY DEF NewFlow, FlowRow
  <2>2. \A x \in Flow : flow'[x] \in FlowRow \cup {None}
    <3> TAKE x \in Flow
    <3>1. flow[x] \in FlowRow \cup {None}
      BY <1>3 DEF TypeOK
    <3> QED
      BY <3>1, <2>1, <1>1, CommitFlow
  <2>3. flow' = [x \in Flow |-> flow'[x]]
    BY DEF Commit
  <2> QED
    BY <2>2, <2>3
<1>5. totp' \in [User -> TotpRow \cup {None}]
  <2>1. \A u \in User : totp'[u] \in TotpRow \cup {None}
    <3> TAKE u \in User
    <3>1. totp[u] \in TotpRow \cup {None}
      BY <1>3 DEF TypeOK
    <3> QED
      BY <3>1, <1>1, CommitTotp
  <2>2. totp' = [u \in User |-> totp'[u]]
    BY <1>3 DEF Commit, TypeOK
  <2> QED
    BY <2>1, <2>2
<1>6. sess' \in [Session -> SessionRow \cup {None}]
  <2>1. w.s # None => w.row \in SessionRow /\ w.s \in Session
    <3>1. w.s # None => /\ w.row = Row(r) /\ r.kind \in {"totp", "verify", "enroll"}
                        /\ r.proof # None
      BY <1>2 DEF Pending, Path, ProofHeld
    <3> QED
      BY <3>1, <1>2 DEF Path, Typed, Request, Row, SessionRow
  <2>2. sess' = IF w.s = None THEN sess ELSE [sess EXCEPT ![w.s] = w.row]
    BY <1>1 DEF Commit
  <2> QED
    BY <2>1, <2>2, <1>3 DEF TypeOK
<1>7. unused' \in [User -> SUBSET Code] /\ spent' \in [Code -> Nat]
  <2>1. /\ unused' \in [User -> SUBSET Code] /\ spent' = [c \in Code |-> spent'[c]]
        /\ \A c \in Code : spent'[c] = IF c \in w.used THEN spent[c] + 1 ELSE spent[c]
    BY <1>1, CommitCodes
  <2>2. \A c \in Code : spent'[c] \in Nat
    BY <2>1, <1>3 DEF TypeOK
  <2> QED
    BY <2>1, <2>2
<1>8. dropped' \in SUBSET Secret
  BY <1>1, <1>3, CommitDropped DEF TypeOK
<1>9. met' \in SUBSET Challenge
  BY <1>1, <1>3, CommitMet DEF TypeOK
<1>10. proved' \in SUBSET (Flow \X User)
  <2>1. proved' = IF "stage" \in DOMAIN w.set /\ r.good THEN proved \cup {<<r.flow, r.user>>}
                  ELSE proved
    BY <1>1 DEF Commit
  <2>2. "stage" \in DOMAIN w.set => r.flow \in Flow /\ r.user \in User
    BY <1>2 DEF SetOK, Path
  <2> QED
    BY <2>1, <2>2, <1>3 DEF TypeOK
<1>11. UNCHANGED <<active, admin, expired, dead, issued>>
  BY DEF Commit
<1> QED
  BY <1>3, <1>4, <1>5, <1>6, <1>7, <1>8, <1>9, <1>10, <1>11
     DEF TypeOK, Ids, FlowRow, TotpRow, SessionRow

(* A verify takes its challenge out of the flow as it becomes a compared one, *)
(* an options request puts a fresh one in.                                    *)
LEMMA CommitFlows == ASSUME LInv, NEW p \in Req, Commit(p) PROVE FlowsStored'
<1>1. PICK r, w : r = req[p] /\ w = wr[p]
  OBVIOUS
<1>2. /\ Typed("commit", r, w) /\ Path("commit", r) /\ Pending("commit", r, w)
      /\ SetOK("commit", r, w) /\ ProofHeld("commit", r, w) /\ FlowHeld("commit", r, w)
  BY <1>1, CommitNow
<1>3. FlowsStored /\ TypeOK /\ issued' = issued
  BY DEF LInv, Stored, Commit
<1>4. proved \subseteq proved' /\ ("stage" \in DOMAIN w.set => <<r.flow, r.user>> \in proved')
  <2>1. proved' = IF "stage" \in DOMAIN w.set /\ r.good THEN proved \cup {<<r.flow, r.user>>}
                  ELSE proved
    BY <1>1 DEF Commit
  <2>2. "stage" \in DOMAIN w.set => r.good
    BY <1>2 DEF SetOK, Path
  <2> QED
    BY <2>1, <2>2
<1>5. ASSUME NEW x \in Flow, flow'[x] # None
      PROVE  /\ x \in issued'
             /\ flow'[x].stage # "password" =>
                  flow'[x].user \in User /\ <<x, flow'[x].user>> \in proved'
  <2>1. CASE x = w.newF /\ flow'[x] = NewFlow
    BY <2>1, <1>2, <1>3, NoneAssumption DEF FlowHeld, NewFlow
  <2>2. CASE flow'[x] = flow[x]
    BY <2>2, <1>3, <1>4, <1>5 DEF FlowsStored
  <2>3. CASE /\ x = r.flow /\ flow[x] # None
             /\ flow'[x].stage = IF "stage" \in DOMAIN w.set THEN w.set["stage"] ELSE flow[x].stage
             /\ flow'[x].user = IF "stage" \in DOMAIN w.set THEN r.user ELSE flow[x].user
    <3>1. "stage" \in DOMAIN w.set => r.user \in User
      BY <1>2 DEF SetOK, Path
    <3> QED
      BY <3>1, <2>3, <1>3, <1>4 DEF FlowsStored
  <2> QED
    BY <2>1, <2>2, <2>3, <1>1, <1>5, CommitFlow
<1>6. ASSUME NEW x \in Flow, flow'[x] # None, flow'[x].chal # None
      PROVE  \/ /\ flow[x] # None /\ flow'[x].chal = flow[x].chal
                /\ x = r.flow => r.kind # "verify" \/ met' = met
             \/ /\ x = r.flow /\ r.kind = "options" /\ "chal" \in DOMAIN w.set
                /\ flow'[x].chal = w.set["chal"]
  <2>1. CASE flow'[x] = NewFlow
    BY <2>1, <1>6 DEF NewFlow
  <2>2. CASE flow'[x] = flow[x] /\ (x # r.flow \/ DOMAIN w.set = {})
    BY <2>2, <1>1, <1>6, CommitMet
  <2>3. CASE /\ x = r.flow /\ flow[x] # None
             /\ flow'[x].chal = IF "chal" \in DOMAIN w.set THEN w.set["chal"] ELSE flow[x].chal
    <3>1. CASE "chal" \in DOMAIN w.set
      BY <3>1, <2>3, <1>2, <1>6 DEF SetOK
    <3>2. CASE "chal" \notin DOMAIN w.set
      BY <3>2, <2>3, <1>1, CommitMet
    <3> QED
      BY <3>1, <3>2
  <2> QED
    BY <2>1, <2>2, <2>3, <1>1, <1>6, CommitFlow
<1>7. r.kind = "options" /\ "chal" \in DOMAIN w.set =>
        /\ w.set["chal"] \in issued \ met /\ met' = met
        /\ \A f \in Flow : flow[f] # None => flow[f].chal # w.set["chal"]
  BY <1>1, <1>2, CommitMet DEF ProofHeld
<1>8. ASSUME NEW x \in Flow, flow'[x] # None, flow'[x].chal # None
      PROVE  flow'[x].chal \in issued' \ met'
  <2>1. CASE /\ flow[x] # None /\ flow'[x].chal = flow[x].chal
             /\ x = r.flow => r.kind # "verify" \/ met' = met
    <3>1. flow[x].chal \in issued \ met
      BY <2>1, <1>3, <1>8 DEF FlowsStored
    <3>2. CASE met' = met
      BY <3>1, <3>2, <2>1, <1>3
    <3>3. CASE met' # met
      <4>1. /\ r.kind = "verify" /\ r.flow \in Flow /\ flow[r.flow] # None
            /\ met' = met \cup {flow[r.flow].chal}
        BY <3>3, <1>1, CommitMet
      <4>2. x # r.flow
        BY <4>1, <3>3, <2>1
      <4>3. flow[x].chal # flow[r.flow].chal
        BY <4>1, <4>2, <2>1, <1>3, <1>8 DEF FlowsStored
      <4> QED
        BY <3>1, <4>1, <4>3, <2>1, <1>3
    <3> QED
      BY <3>2, <3>3
  <2>2. CASE /\ x = r.flow /\ r.kind = "options" /\ "chal" \in DOMAIN w.set
             /\ flow'[x].chal = w.set["chal"]
    BY <2>2, <1>3, <1>7
  <2> QED
    BY <2>1, <2>2, <1>6, <1>8
<1>9. ASSUME NEW x \in Flow, NEW y \in Flow, flow'[x] # None, flow'[y] # None,
             flow'[x].chal = flow'[y].chal, flow'[x].chal # None
      PROVE  x = y
  <2>1. \/ flow[x] # None /\ flow'[x].chal = flow[x].chal
        \/ x = r.flow /\ r.kind = "options" /\ "chal" \in DOMAIN w.set /\ flow'[x].chal = w.set["chal"]
    BY <1>6, <1>9
  <2>2. \/ flow[y] # None /\ flow'[y].chal = flow[y].chal
        \/ y = r.flow /\ r.kind = "options" /\ "chal" \in DOMAIN w.set /\ flow'[y].chal = w.set["chal"]
    BY <1>6, <1>9
  <2> QED
    BY <2>1, <2>2, <1>3, <1>7, <1>9 DEF FlowsStored
<1>10. met' \subseteq issued'
  <2>1. CASE met' = met
    BY <2>1, <1>3 DEF FlowsStored
  <2>2. CASE met' # met
    <3>1. /\ r.flow \in Flow /\ flow[r.flow] # None /\ flow[r.flow].chal \in Challenge
          /\ met' = met \cup {flow[r.flow].chal}
      BY <2>2, <1>1, CommitMet
    <3>2. flow[r.flow].chal \in issued
      BY <3>1, <1>3, NoneAssumption DEF FlowsStored
    <3> QED
      BY <3>1, <3>2, <1>3 DEF FlowsStored
  <2> QED
    BY <2>1, <2>2
<1> QED
  BY <1>5, <1>8, <1>9, <1>10 DEF FlowsStored

(* A recovery gives up the secret whose row it deletes; an insert brings a    *)
(* fresh one.                                                                 *)
LEMMA CommitAuthenticators == ASSUME LInv, NEW p \in Req, Commit(p) PROVE TotpStored'
<1>1. PICK r, w : r = req[p] /\ w = wr[p]
  OBVIOUS
<1>2. TotpHeld("commit", r, w) /\ Pending("commit", r, w)
  BY <1>1, CommitNow
<1>3. TotpStored /\ issued' = issued
  BY DEF LInv, Stored, Commit
<1>4. ASSUME NEW u \in User, totp'[u] # None
      PROVE  \/ totp[u] # None /\ totp'[u].secret = totp[u].secret /\ (w.t # "delete" \/ u # r.user)
             \/ u = r.user /\ w.t = "insert" /\ totp'[u].secret = w.secret
  BY <1>1, <1>4, CommitTotp
<1>5. w.t = "insert" => /\ w.secret \in issued \ dropped' /\ dropped' = dropped
                        /\ \A u \in User : totp[u] # None => totp[u].secret # w.secret
  BY <1>1, <1>2, CommitDropped DEF TotpHeld
<1>6. ASSUME NEW u \in User, totp'[u] # None PROVE totp'[u].secret \in issued' \ dropped'
  <2>1. CASE totp[u] # None /\ totp'[u].secret = totp[u].secret /\ (w.t # "delete" \/ u # r.user)
    <3>1. totp[u].secret \in issued \ dropped
      BY <2>1, <1>3 DEF TotpStored
    <3>2. totp[u].secret \notin dropped'
      BY <3>1, <2>1, <1>1, CommitDropped
    <3> QED
      BY <3>1, <3>2, <2>1, <1>3
  <2>2. CASE w.t = "insert" /\ totp'[u].secret = w.secret
    BY <2>2, <1>3, <1>5
  <2> QED
    BY <2>1, <2>2, <1>4, <1>6
<1>7. ASSUME NEW u \in User, NEW v \in User, totp'[u] # None, totp'[v] # None,
             totp'[u].secret = totp'[v].secret
      PROVE  u = v
  <2>1. \/ totp[u] # None /\ totp'[u].secret = totp[u].secret
        \/ u = r.user /\ w.t = "insert" /\ totp'[u].secret = w.secret
    BY <1>4, <1>7
  <2>2. \/ totp[v] # None /\ totp'[v].secret = totp[v].secret
        \/ v = r.user /\ w.t = "insert" /\ totp'[v].secret = w.secret
    BY <1>4, <1>7
  <2> QED
    BY <2>1, <2>2, <1>3, <1>5, <1>7 DEF TotpStored
<1>8. dropped' \subseteq issued'
  BY <1>1, <1>3, CommitDropped DEF TotpStored
<1> QED
  BY <1>6, <1>7, <1>8 DEF TotpStored

(* A redeemed code leaves the unused ones, a batch replaces them.             *)
LEMMA CommitRecovery == ASSUME LInv, NEW p \in Req, Commit(p) PROVE CodesStored'
<1>1. PICK r, w : r = req[p] /\ w = wr[p]
  OBVIOUS
<1>2. CodesHeld("commit", r, w) /\ Typed("commit", r, w)
  BY <1>1, CommitNow
<1>3. CodesStored /\ TypeOK /\ issued' = issued
  BY DEF LInv, Stored, Commit
<1>4. /\ \A u \in User : u # r.user => unused'[u] = unused[u]
      /\ r.user \in User => unused'[r.user] = (unused[r.user] \ (w.used \cup w.del)) \cup w.new
      /\ w.used # {} => r.user \in User /\ w.used \subseteq unused[r.user] /\ w.new = {}
      /\ w.new # {} => r.user \in User /\ unused'[r.user] = w.new /\ w.new \in Batch
      /\ unused' \in [User -> SUBSET Code]
      /\ \A c \in Code : spent'[c] = IF c \in w.used THEN spent[c] + 1 ELSE spent[c]
  BY <1>1, CommitCodes
<1>5. \A c \in w.new : c \in issued /\ spent[c] = 0 /\ \A u \in User : c \notin unused[u]
  BY <1>2 DEF CodesHeld
<1>6. \A c \in Code : spent[c] \in Nat /\ (c \in w.used => spent[c] = 0 /\ c \in issued)
  BY <1>3, <1>4 DEF TypeOK, CodesStored
<1>7. ASSUME NEW u \in User, NEW c \in unused'[u]
      PROVE  /\ c \in Code /\ c \in issued /\ c \notin w.used /\ spent[c] = 0
             /\ (c \in unused[u] \/ (c \in w.new /\ u = r.user))
  <2>1. c \in unused[u] \/ (c \in w.new /\ u = r.user)
    BY <1>4, <1>7
  <2>2. c \in Code
    BY <1>4, <1>7
  <2>3. c \notin w.used
    BY <2>1, <1>3, <1>4, <1>7 DEF CodesStored
  <2>4. c \in issued /\ spent[c] = 0
    BY <2>1, <1>3, <1>5 DEF CodesStored
  <2> QED
    BY <2>1, <2>2, <2>3, <2>4
<1>8. \A u \in User : unused'[u] \subseteq issued' /\ \A c \in unused'[u] : spent'[c] = 0
  BY <1>3, <1>4, <1>7
<1>9. \A u, v \in User : u # v => unused'[u] \cap unused'[v] = {}
  BY <1>3, <1>5, <1>7 DEF CodesStored
<1>10. \A c \in Code : (spent'[c] # 0 => c \in issued') /\ spent'[c] <= 1
  BY <1>3, <1>4, <1>6 DEF CodesStored, RecoveryCodeOnce
<1>11. OneLiveBatch'
  <2> SUFFICES ASSUME NEW u \in User PROVE unused'[u] = {} \/ \E B \in Batch : unused'[u] \subseteq B
    BY DEF OneLiveBatch
  <2>1. CASE w.new # {} /\ u = r.user
    BY <2>1, <1>4
  <2>2. CASE w.new = {} \/ u # r.user
    <3>1. unused'[u] \subseteq unused[u]
      BY <2>2, <1>4
    <3> QED
      BY <3>1, <1>3 DEF CodesStored, OneLiveBatch
  <2> QED
    BY <2>1, <2>2
<1> QED
  BY <1>8, <1>9, <1>10, <1>11 DEF CodesStored, RecoveryCodeOnce

(* A second factor pins the flow, which no session completed before.          *)
LEMMA CommitSessions == ASSUME LInv, NEW p \in Req, Commit(p) PROVE SessionsStored'
<1>1. PICK r, w : r = req[p] /\ w = wr[p]
  OBVIOUS
<1>2. /\ Typed("commit", r, w) /\ Path("commit", r) /\ Pending("commit", r, w)
      /\ SetOK("commit", r, w) /\ ProofHeld("commit", r, w) /\ FlowHeld("commit", r, w)
  BY <1>1, CommitNow
<1>3. SessionsStored /\ TypeOK /\ issued' = issued
  BY DEF LInv, Stored, Commit
<1>4. sess' = IF w.s = None THEN sess ELSE [sess EXCEPT ![w.s] = w.row]
  BY <1>1 DEF Commit
<1>5. w.s # None => /\ w.row = Row(r) /\ r.kind \in {"totp", "verify", "enroll"}
                    /\ r.flow \in Flow /\ r.user \in User /\ w.s \in Session
                    /\ <<r.flow, r.user>> \in proved /\ r.flow \in issued
  BY <1>2, NoneAssumption DEF Pending, Path, Typed, FlowHeld
<1>6. proved \subseteq proved'
  BY DEF Commit
<1>7. ASSUME NEW s \in Session, sess'[s] # None
      PROVE  \/ s \in Rows /\ sess'[s] = sess[s]
             \/ s = w.s /\ w.s # None /\ sess'[s] = Row(r)
  BY <1>3, <1>4, <1>5, <1>7 DEF Rows, TypeOK
<1>8. Row(r).flow = r.flow /\ Row(r).user = r.user /\ Row(r).by = r.kind
  BY DEF Row
<1>9. ASSUME NEW s \in Session, sess'[s] # None
      PROVE  <<sess'[s].flow, sess'[s].user>> \in proved' /\ sess'[s].flow \in issued'
  <2>1. CASE s \in Rows /\ sess'[s] = sess[s]
    BY <2>1, <1>3, <1>6 DEF SessionsStored, PasswordFirst
  <2>2. CASE w.s # None /\ sess'[s] = Row(r)
    BY <2>2, <1>3, <1>5, <1>6, <1>8
  <2> QED
    BY <2>1, <2>2, <1>7, <1>9
<1>10. ASSUME NEW s \in Session, sess'[s] # None, sess'[s].by \in {"totp", "verify"}
       PROVE  flow'[sess'[s].flow] = None \/ flow'[sess'[s].flow].done = s
  <2>1. CASE s = w.s /\ w.s # None /\ sess'[s] = Row(r)
    <3>1. /\ r.kind \in {"totp", "verify"} /\ "done" \in DOMAIN w.set /\ w.newF = None
          /\ r.flow \in Flow
      BY <2>1, <1>2, <1>5, <1>8, <1>10 DEF SetOK, Pending
    <3>2. r.flow # w.newF
      BY <3>1, NoneAssumption
    <3>3. flow'[r.flow] = None \/ flow'[r.flow].done = w.s
      BY <3>1, <3>2, <1>1, CommitFlow
    <3> QED
      BY <3>3, <2>1, <1>8
  <2>2. CASE s \in Rows /\ sess'[s] = sess[s]
    <3>1. PICK x : x = sess[s].flow
      OBVIOUS
    <3>2. /\ x \in Flow /\ (flow[x] = None \/ flow[x].done = s) /\ x # w.newF /\ s # None
      BY <2>2, <3>1, <1>2, <1>3, <1>10, NoneAssumption
         DEF SessionsStored, TypeOK, SessionRow, Rows, FlowHeld
    <3>3. "done" \in DOMAIN w.set => flow[r.flow].done = None
      BY <1>2 DEF SetOK, FlowHeld
    <3>4. \/ flow'[x] = None
          \/ flow'[x] = flow[x]
          \/ x = r.flow /\ flow[x] # None
             /\ flow'[x].done = IF "done" \in DOMAIN w.set THEN w.s ELSE flow[x].done
      BY <3>2, <1>1, CommitFlow
    <3>5. flow'[x] = None \/ flow'[x].done = s
      BY <3>2, <3>3, <3>4
    <3> QED
      BY <3>1, <3>5, <2>2
  <2> QED
    BY <2>1, <2>2, <1>7, <1>10
<1>11. ASSUME NEW s \in Rows, NEW v \in Session, w.s # None, v = w.s, sess[s].flow = r.flow,
              sess[s].by \in {"totp", "verify"}, r.kind \in {"totp", "verify"}
       PROVE  FALSE
  <2>1. flow[r.flow] # None /\ flow[r.flow].done = None
    BY <1>2, <1>11 DEF Pending, FlowHeld
  <2> QED
    BY <2>1, <1>3, <1>11, NoneAssumption DEF SessionsStored, Rows
<1>12. OneSessionPerSubmit'
  <2> SUFFICES ASSUME NEW s \in Rows', NEW v \in Rows', sess'[s].flow = sess'[v].flow,
                      {sess'[s].by, sess'[v].by} \subseteq {"totp", "verify"}
               PROVE  s = v
    BY DEF OneSessionPerSubmit
  <2>1. /\ s \in Session /\ sess'[s] # None /\ sess'[s].by \in {"totp", "verify"}
        /\ v \in Session /\ sess'[v] # None /\ sess'[v].by \in {"totp", "verify"}
    BY DEF Rows
  <2>2. CASE s \in Rows /\ sess'[s] = sess[s] /\ v \in Rows /\ sess'[v] = sess[v]
    BY <2>1, <2>2, <1>3 DEF SessionsStored, OneSessionPerSubmit
  <2>3. CASE s \in Rows /\ sess'[s] = sess[s] /\ v = w.s /\ w.s # None /\ sess'[v] = Row(r)
    BY <2>1, <2>3, <1>8, <1>11
  <2>4. CASE v \in Rows /\ sess'[v] = sess[v] /\ s = w.s /\ w.s # None /\ sess'[s] = Row(r)
    BY <2>1, <2>4, <1>8, <1>11
  <2> QED
    BY <2>1, <2>2, <2>3, <2>4, <1>7
<1> QED
  BY <1>9, <1>10, <1>12 DEF SessionsStored, PasswordFirst, Rows

-----------------------------------------------------------------------------
(* A commit leaves what every other request holds.                         *)

(* What the commit rewrites is locked by the committing request, so it is not *)
(* what another one relies on.                                                *)
LEMMA CommitAlone ==
    ASSUME LInv, NEW p \in Req, Commit(p), NEW q \in Req \ {p}, NEW a, NEW b, NEW c,
           a = pc[q], b = req[q], c = wr[q]
    PROVE  Alone(a, b, c)'
<1>1. PICK r, w : r = req[p] /\ w = wr[p]
  OBVIOUS
<1>2. /\ Typed("commit", r, w) /\ Path("commit", r) /\ Pending("commit", r, w)
      /\ SetOK("commit", r, w) /\ ProofHeld("commit", r, w) /\ FlowHeld("commit", r, w)
      /\ TotpHeld("commit", r, w)
  BY <1>1, CommitNow
<1>3. /\ Typed(a, b, c) /\ Path(a, b) /\ Pending(a, b, c) /\ FlowHeld(a, b, c)
      /\ ProofHeld(a, b, c) /\ TotpHeld(a, b, c) /\ CodesHeld(a, b, c)
  BY AloneNow
<1>4. Apart(r, w, b, c) /\ Apart(b, c, r, w)
  BY <1>1 DEF LInv
<1>5. issued' = issued /\ proved \subseteq proved' /\ dropped \subseteq dropped' /\ TypeOK
  BY DEF Commit, LInv, Stored
<1>6. Typed(a, b, c)' /\ Path(a, b)' /\ Pending(a, b, c)'
  BY <1>3 DEF Typed, Path, Pending, SetOK, Request
<1>7. c.lockF # {} => b.flow \in Flow /\ c.lockF = {b.flow} /\ flow'[b.flow] = flow[b.flow]
  <2>1. c.lockF # {} => b.flow \in Flow /\ c.lockF = {b.flow}
    BY <1>3 DEF Pending, Typed
  <2> QED
    BY <2>1, CommitSameFlow
<1>8. b.kind \in {"totp", "verify", "options"} => c.lockF = {b.flow} /\ c.lockF # {}
  BY <1>3 DEF Pending
<1>9. a \in {"resume", "code", "assert", "create"} => b.kind \in {"totp", "verify"}
  BY <1>3 DEF Path
<1>10. FlowHeld(a, b, c)'
  <2>1. c.newF # None =>
          /\ flow'[c.newF] = None
          /\ \A s \in Rows' : sess'[s].flow # c.newF
    <3> SUFFICES ASSUME c.newF # None
                 PROVE  flow'[c.newF] = None /\ \A s \in Rows' : sess'[s].flow # c.newF
      OBVIOUS
    <3>1. c.newF \in Flow /\ flow'[c.newF] = flow[c.newF]
      BY <1>3, CommitSameFlow DEF Typed
    <3>2. r.flow # c.newF
      BY <1>4 DEF Apart
    <3>3. ASSUME NEW s \in Rows' PROVE sess'[s].flow # c.newF
      <4>1. sess' = IF w.s = None THEN sess ELSE [sess EXCEPT ![w.s] = w.row]
        BY <1>1 DEF Commit
      <4>2. w.s # None => w.row = Row(r) /\ Row(r).flow = r.flow
        BY <1>2 DEF Pending, Row
      <4>3. s \in Session /\ sess'[s] # None
        BY DEF Rows
      <4>4. \/ s \in Rows /\ sess'[s] = sess[s]
            \/ sess'[s] = w.row /\ w.s # None
        BY <4>1, <4>3, <1>5 DEF TypeOK, Rows
      <4> QED
        BY <4>2, <4>4, <3>2, <1>3 DEF FlowHeld
    <3> QED
      BY <3>1, <3>3, <1>3 DEF FlowHeld
  <2> QED
    BY <2>1, <1>3, <1>5, <1>7, <1>8, <1>9 DEF FlowHeld
<1>11. ProofHeld(a, b, c)'
  <2>1. b.kind = "verify" => flow'[b.flow] = flow[b.flow]
    BY <1>7, <1>8
  <2>2. b.kind = "options" /\ "chal" \in DOMAIN c.set =>
          /\ c.set["chal"] \notin met'
          /\ \A f \in Flow : flow'[f] # None => flow'[f].chal # c.set["chal"]
    <3> SUFFICES ASSUME b.kind = "options", "chal" \in DOMAIN c.set
                 PROVE  /\ c.set["chal"] \notin met'
                        /\ \A f \in Flow : flow'[f] # None => flow'[f].chal # c.set["chal"]
      OBVIOUS
    <3>1. /\ c.set["chal"] \in Challenge /\ c.set["chal"] \notin met /\ c.set["chal"] # None
          /\ \A f \in Flow : flow[f] # None => flow[f].chal # c.set["chal"]
      BY <1>3, NoneAssumption DEF ProofHeld
    <3>2. c.set["chal"] \notin met'
      BY <3>1, <1>1, CommitMet
    <3>3. ASSUME NEW f \in Flow, flow'[f] # None PROVE flow'[f].chal # c.set["chal"]
      <4>1. CASE flow'[f] = NewFlow
        BY <4>1, <3>1 DEF NewFlow
      <4>2. CASE flow'[f] = flow[f]
        BY <4>2, <3>1, <3>3
      <4>3. CASE /\ f = r.flow /\ flow[f] # None
                 /\ flow'[f].chal = IF "chal" \in DOMAIN w.set THEN w.set["chal"] ELSE flow[f].chal
        <5>1. "chal" \in DOMAIN w.set => w.set["chal"] # c.set["chal"]
          BY <3>1, <1>2, <1>4 DEF SetOK, Apart
        <5> QED
          BY <5>1, <4>3, <3>1
      <4> QED
        BY <4>1, <4>2, <4>3, <3>3, <1>1, CommitFlow
    <3> QED
      BY <3>2, <3>3
  <2> QED
    BY <2>1, <2>2, <1>3, <1>5 DEF ProofHeld
<1>12. TotpHeld(a, b, c)'
  <2>1. c.t = "insert" =>
          /\ c.secret \notin dropped'
          /\ \A u \in User : totp'[u] # None => totp'[u].secret # c.secret
    <3> SUFFICES ASSUME c.t = "insert"
                 PROVE  /\ c.secret \notin dropped'
                        /\ \A u \in User : totp'[u] # None => totp'[u].secret # c.secret
      OBVIOUS
    <3>1. c.secret \notin dropped'
      BY <1>1, <1>3, <1>4, CommitDropped DEF TotpHeld, Apart
    <3>2. w.t = "insert" => w.secret # c.secret
      BY <1>4 DEF Apart
    <3>3. \A u \in User : totp[u] # None => totp[u].secret # c.secret
      BY <1>3 DEF TotpHeld
    <3>4. ASSUME NEW u \in User, totp'[u] # None PROVE totp'[u].secret # c.secret
      BY <3>2, <3>3, <3>4, <1>1, CommitTotp
    <3> QED
      BY <3>1, <3>4
  <2>2. c.t = "confirm" => totp'[b.user] # None
    <3> SUFFICES ASSUME c.t = "confirm" PROVE totp'[b.user] # None
      OBVIOUS
    <3>1. c.lockT = {b.user} /\ b.user \in User /\ totp[b.user] # None
      BY <1>3 DEF Pending, Typed, TotpHeld
    <3>2. w.t = "keep" \/ b.user # r.user
      BY <3>1, <1>2, <1>4 DEF Pending, Apart
    <3> QED
      BY <3>1, <3>2, <1>1, CommitTotp
  <2>3. b.kind = "recovery" /\ b.proof # None =>
          \A u \in User : totp'[u] # None /\ totp'[u].secret = b.proof => u = b.user
    <3> SUFFICES ASSUME b.kind = "recovery", b.proof # None, NEW u \in User,
                        totp'[u] # None, totp'[u].secret = b.proof
                 PROVE  u = b.user
      OBVIOUS
    <3>1. w.t = "insert" => w.secret # b.proof
      BY <1>4 DEF Apart
    <3>2. totp[u] # None /\ totp[u].secret = b.proof
      BY <3>1, <1>1, CommitTotp
    <3> QED
      BY <3>2, <1>3 DEF TotpHeld
  <2> QED
    BY <2>1, <2>2, <2>3, <1>3, <1>5 DEF TotpHeld
<1>13. CodesHeld(a, b, c)'
  <2>1. /\ \A u \in User : u # r.user => unused'[u] = unused[u]
        /\ r.user \in User =>
             unused'[r.user] = (unused[r.user] \ (w.used \cup w.del)) \cup w.new
        /\ w.used # {} => r.user \in User /\ w.used \subseteq unused[r.user]
        /\ \A x \in Code : spent'[x] = IF x \in w.used THEN spent[x] + 1 ELSE spent[x]
    BY <1>1, CommitCodes
  <2>2. c.used # {} => c.used \subseteq unused'[b.user]
    <3>1. c.used # {} => /\ c.used \subseteq unused[b.user] /\ c.used \subseteq c.lockC
                         /\ b.user \in User
      BY <1>3 DEF CodesHeld, Pending, Path
    <3>2. (w.used \cup w.del) \cap c.lockC = {}
      BY <1>2, <1>4 DEF Pending, Apart
    <3> QED
      BY <3>1, <3>2, <2>1
  <2>3. b.kind = "enroll" /\ a \in {"finish", "commit"} => unused'[b.user] \subseteq c.del
    <3> SUFFICES ASSUME b.kind = "enroll", a \in {"finish", "commit"}
                 PROVE  unused'[b.user] \subseteq c.del
      OBVIOUS
    <3>1. c.lockT = {b.user} /\ b.user \in User /\ unused[b.user] \subseteq c.del
      BY <1>3 DEF Pending, Path, CodesHeld
    <3>2. w.new # {} => w.lockT = {r.user}
      BY <1>2 DEF Pending
    <3>3. w.new = {} \/ b.user # r.user
      BY <3>1, <3>2, <1>4 DEF Apart
    <3> QED
      BY <3>1, <3>3, <2>1
  <2>4. ASSUME NEW x \in c.new
        PROVE  spent'[x] = 0 /\ \A u \in User : x \notin unused'[u]
    <3>1. x \in Code /\ spent[x] = 0 /\ \A u \in User : x \notin unused[u]
      BY <1>3 DEF CodesHeld, Typed
    <3>2. x \notin w.new
      BY <1>4 DEF Apart
    <3>3. x \notin w.used
      BY <3>1, <2>1
    <3> QED
      BY <3>1, <3>2, <3>3, <2>1
  <2> QED
    BY <2>2, <2>3, <2>4, <1>3, <1>5 DEF CodesHeld
<1> QED
  BY <1>6, <1>10, <1>11, <1>12, <1>13 DEF Alone

(* A request that ends frees its slot; the others see the tables it leaves.   *)
LEMMA EndKeeps ==
    ASSUME LInv, NEW p \in Req, End(p), Stored',
           \A q \in Req \ {p} : \A a, b, c : a = pc[q] /\ b = req[q] /\ c = wr[q] => Alone(a, b, c)'
    PROVE  LInv'
<1>1. Alone("free", NoReq, NoWrites)'
  BY FreeAlone, PTL
<1>2. /\ pc' = [pc EXCEPT ![p] = "free"] /\ req' = [req EXCEPT ![p] = NoReq]
      /\ wr' = [wr EXCEPT ![p] = NoWrites]
  BY DEF End, Goto, Write
<1>3. /\ pc'[p] = "free" /\ req'[p] = NoReq /\ wr'[p] = NoWrites
      /\ \A q \in Req \ {p} : pc'[q] = pc[q] /\ req'[q] = req[q] /\ wr'[q] = wr[q]
  BY <1>2 DEF LInv
<1>4. ASSUME NEW q \in Req PROVE Alone(pc[q], req[q], wr[q])'
  <2>1. CASE q = p
    BY <2>1, <1>1, <1>3
  <2>2. CASE q # p
    <3>1. PICK a, b, c : a = pc[q] /\ b = req[q] /\ c = wr[q]
      OBVIOUS
    <3>2. Alone(a, b, c)'
      BY <3>1, <2>2
    <3>3. a = pc'[q] /\ b = req'[q] /\ c = wr'[q]
      BY <3>1, <2>2, <1>3
    <3> QED
      BY <3>2, <3>3
  <2> QED
    BY <2>1, <2>2
<1>5. ASSUME NEW q \in Req, NEW x \in Req, q # x
      PROVE  Apart(req[q], wr[q], req[x], wr[x])'
  <2>1. CASE q = p
    <3>1. Apart(NoReq, NoWrites, req[x], wr[x])
      BY AloneNow, FreeApart
    <3> QED
      BY <3>1, <2>1, <1>3, <1>5 DEF Apart
  <2>2. CASE x = p
    <3>1. Apart(req[q], wr[q], NoReq, NoWrites)
      BY AloneNow, FreeApart
    <3> QED
      BY <3>1, <2>2, <1>3, <1>5 DEF Apart
  <2>3. CASE q # p /\ x # p
    <3>1. Apart(req[q], wr[q], req[x], wr[x])
      BY <1>5 DEF LInv
    <3> QED
      BY <3>1, <2>3, <1>3 DEF Apart
  <2> QED
    BY <2>1, <2>2, <2>3
<1>6. /\ pc' \in [Req -> Labels] /\ DOMAIN req' = Req /\ DOMAIN wr' = Req
      /\ req' = [q \in Req |-> req'[q]] /\ wr' = [q \in Req |-> wr'[q]]
  BY <1>2 DEF LInv, Labels
<1> QED
  BY <1>4, <1>5, <1>6 DEF LInv

(* A commit keeps the invariant.                                              *)
LEMMA CommitKeeps == ASSUME LInv, NEW p \in Req, Commit(p) PROVE LInv'
<1>1. Stored'
  BY CommitTypes, CommitFlows, CommitAuthenticators, CommitRecovery, CommitSessions DEF Stored
<1>2. \A q \in Req \ {p} : \A a, b, c : a = pc[q] /\ b = req[q] /\ c = wr[q] => Alone(a, b, c)'
  BY CommitAlone
<1>3. End(p)
  BY DEF Commit
<1> QED
  BY <1>1, <1>2, <1>3, EndKeeps

(* A replayed submit may end its session and writes nothing else.             *)
LEMMA ResumeKeeps == ASSUME LInv, NEW p \in Req, resume_completed_login(p) PROVE LInv'
<1>1. PICK r, w : r = req[p] /\ w = wr[p]
  OBVIOUS
<1>2. /\ pc[p] = "resume" /\ End(p)
      /\ UNCHANGED <<active, admin, flow, expired, totp, unused, sess, issued, hist>>
      /\ dead' = dead \/ dead' = dead \cup {flow[r.flow].done}
  BY <1>1 DEF resume_completed_login
<1>3. /\ Path("resume", r) /\ Pending("resume", r, w) /\ FlowHeld("resume", r, w)
  BY <1>1, <1>2, AloneNow
<1>4. flow[r.flow].done \in Session
  <2>1. r.flow \in Flow /\ flow[r.flow] # None /\ flow[r.flow].done # None
    BY <1>3 DEF Path, Pending, FlowHeld
  <2> QED
    BY <2>1 DEF LInv, Stored, TypeOK, FlowRow
<1>5. Stored'
  <2> USE DEF hist
  <2>1. TypeOK'
    BY <1>2, <1>4 DEF LInv, Stored, TypeOK, Ids, FlowRow, TotpRow, SessionRow
  <2>2. FlowsStored' /\ TotpStored'
    BY <1>2 DEF LInv, Stored, FlowsStored, TotpStored
  <2>3. CodesStored'
    BY <1>2 DEF LInv, Stored, CodesStored, RecoveryCodeOnce, OneLiveBatch
  <2>4. SessionsStored'
    BY <1>2 DEF LInv, Stored, SessionsStored, PasswordFirst, OneSessionPerSubmit, Rows
  <2> QED
    BY <2>1, <2>2, <2>3, <2>4 DEF Stored
<1>6. ASSUME NEW q \in Req \ {p}, NEW a, NEW b, NEW c, a = pc[q], b = req[q], c = wr[q]
      PROVE  Alone(a, b, c)'
  <2> USE DEF hist
  <2>1. /\ Typed(a, b, c) /\ Path(a, b) /\ Pending(a, b, c) /\ FlowHeld(a, b, c)
        /\ ProofHeld(a, b, c) /\ TotpHeld(a, b, c) /\ CodesHeld(a, b, c)
    BY <1>6, AloneNow
  <2>2. Typed(a, b, c)' /\ Path(a, b)' /\ Pending(a, b, c)'
    BY <2>1 DEF Typed, Path, Pending, SetOK, Request
  <2>3. FlowHeld(a, b, c)' /\ ProofHeld(a, b, c)'
    BY <2>1, <1>2 DEF FlowHeld, ProofHeld, Rows
  <2>4. TotpHeld(a, b, c)' /\ CodesHeld(a, b, c)'
    BY <2>1, <1>2 DEF TotpHeld, CodesHeld
  <2> QED
    BY <2>2, <2>3, <2>4 DEF Alone
<1> QED
  BY <1>2, <1>5, <1>6, EndKeeps

-----------------------------------------------------------------------------
(* Administrators and the clock.                                           *)

(* A change of the tables that leaves the requests where they are.            *)
LEMMA WorldKeeps ==
    ASSUME LInv, UNCHANGED <<pc, req, wr>>, Stored',
           \A q \in Req : \A a, b, c : a = pc[q] /\ b = req[q] /\ c = wr[q] => Alone(a, b, c)'
    PROVE  LInv'
<1>1. ASSUME NEW q \in Req PROVE Alone(pc[q], req[q], wr[q])'
  <2>1. PICK a, b, c : a = pc[q] /\ b = req[q] /\ c = wr[q]
    OBVIOUS
  <2>2. Alone(a, b, c)' /\ a = pc'[q] /\ b = req'[q] /\ c = wr'[q]
    BY <2>1
  <2> QED
    BY <2>2
<1>2. ASSUME NEW q \in Req, NEW x \in Req, q # x PROVE Apart(req[q], wr[q], req[x], wr[x])'
  BY <1>2 DEF LInv, Apart
<1>3. /\ pc' \in [Req -> Labels] /\ DOMAIN req' = Req /\ DOMAIN wr' = Req
      /\ req' = [q \in Req |-> req'[q]] /\ wr' = [q \in Req |-> wr'[q]]
  BY DEF LInv
<1> QED
  BY <1>1, <1>2, <1>3 DEF LInv

(* Accounts, tiers, expiries and revocations are read, never relied on.       *)
LEMMA AccountsKeep ==
    ASSUME LInv, UNCHANGED <<pc, req, wr, issued, flow, totp, unused, sess, hist>>,
           active' \subseteq User, admin' \subseteq User, expired' \subseteq Flow,
           dead' \subseteq Session
    PROVE  LInv'
<1> USE DEF hist
<1>1. TypeOK'
  BY DEF LInv, Stored, TypeOK, Ids, FlowRow, TotpRow, SessionRow
<1>2. FlowsStored' /\ TotpStored'
  BY DEF LInv, Stored, FlowsStored, TotpStored
<1>3. CodesStored'
  BY DEF LInv, Stored, CodesStored, RecoveryCodeOnce, OneLiveBatch
<1>4. SessionsStored'
  BY DEF LInv, Stored, SessionsStored, PasswordFirst, OneSessionPerSubmit, Rows
<1>5. ASSUME NEW q \in Req, NEW a, NEW b, NEW c, a = pc[q], b = req[q], c = wr[q]
      PROVE  Alone(a, b, c)'
  <2>1. /\ Typed(a, b, c) /\ Path(a, b) /\ Pending(a, b, c) /\ FlowHeld(a, b, c)
        /\ ProofHeld(a, b, c) /\ TotpHeld(a, b, c) /\ CodesHeld(a, b, c)
    BY <1>5, AloneNow
  <2>2. Typed(a, b, c)' /\ Path(a, b)' /\ Pending(a, b, c)'
    BY <2>1 DEF Typed, Path, Pending, SetOK, Request
  <2>3. FlowHeld(a, b, c)' /\ ProofHeld(a, b, c)'
    BY <2>1 DEF FlowHeld, ProofHeld, Rows
  <2>4. TotpHeld(a, b, c)' /\ CodesHeld(a, b, c)'
    BY <2>1 DEF TotpHeld, CodesHeld
  <2> QED
    BY <2>2, <2>3, <2>4 DEF Alone
<1> QED
  BY <1>1, <1>2, <1>3, <1>4, <1>5, WorldKeeps DEF Stored

(* A reset waits for every lock on what it deletes.                           *)
LEMMA ResetKeeps == ASSUME LInv, NEW u \in User, reset_totp(u) PROVE LInv'
<1>1. /\ UNCHANGED <<pc, req, wr, issued, active, admin, flow, expired, sess, proved, spent, met>>
      /\ totp' = [totp EXCEPT ![u] = None] /\ unused' = [unused EXCEPT ![u] = {}]
      /\ dead' = dead \cup Of(u)
      /\ dropped' = IF totp[u] = None THEN dropped ELSE dropped \cup {totp[u].secret}
      /\ \A q \in Req : (totp[u] # None => u \notin wr[q].lockT) /\ unused[u] \cap wr[q].lockC = {}
  BY DEF reset_totp, Change
<1>2. TypeOK /\ FlowsStored /\ TotpStored /\ CodesStored /\ SessionsStored
  BY DEF LInv, Stored
<1>3. /\ totp'[u] = None /\ \A v \in User \ {u} : totp'[v] = totp[v]
      /\ unused'[u] = {} /\ \A v \in User \ {u} : unused'[v] = unused[v]
  BY <1>1, <1>2 DEF TypeOK
<1>4. TypeOK'
  <2>1. dropped' \subseteq Secret
    BY <1>1, <1>2 DEF TypeOK, TotpRow
  <2>2. dead' \subseteq Session
    BY <1>1, <1>2 DEF TypeOK, Of
  <2>3. totp' \in [User -> TotpRow \cup {None}] /\ unused' \in [User -> SUBSET Code]
    BY <1>1, <1>2 DEF TypeOK
  <2> QED
    BY <2>1, <2>2, <2>3, <1>1, <1>2 DEF TypeOK, Ids, FlowRow, TotpRow, SessionRow
<1>5. FlowsStored'
  BY <1>1, <1>2 DEF FlowsStored
<1>6. TotpStored'
  <2>1. \A v \in User : totp'[v] # None => totp'[v].secret \in issued \ dropped'
    BY <1>1, <1>2, <1>3 DEF TotpStored
  <2>2. dropped' \subseteq issued
    BY <1>1, <1>2 DEF TotpStored
  <2>3. \A v, x \in User : totp'[v] # None /\ totp'[x] # None /\ totp'[v].secret = totp'[x].secret
                           => v = x
    BY <1>2, <1>3 DEF TotpStored
  <2> QED
    BY <2>1, <2>2, <2>3, <1>1 DEF TotpStored
<1>7. CodesStored'
  <2>1. \A v \in User : unused'[v] \subseteq unused[v]
    BY <1>3
  <2>2. OneLiveBatch' /\ RecoveryCodeOnce'
    BY <2>1, <1>1, <1>2 DEF CodesStored, OneLiveBatch, RecoveryCodeOnce
  <2> QED
    BY <2>1, <2>2, <1>1, <1>2 DEF CodesStored
<1>8. SessionsStored'
  BY <1>1, <1>2 DEF SessionsStored, PasswordFirst, OneSessionPerSubmit, Rows
<1>9. ASSUME NEW q \in Req, NEW a, NEW b, NEW c, a = pc[q], b = req[q], c = wr[q]
      PROVE  Alone(a, b, c)'
  <2>1. /\ Typed(a, b, c) /\ Path(a, b) /\ Pending(a, b, c) /\ FlowHeld(a, b, c)
        /\ ProofHeld(a, b, c) /\ TotpHeld(a, b, c) /\ CodesHeld(a, b, c)
    BY <1>9, AloneNow
  <2>2. (totp[u] # None => u \notin c.lockT) /\ unused[u] \cap c.lockC = {}
    BY <1>1, <1>9
  <2>3. Typed(a, b, c)' /\ Path(a, b)' /\ Pending(a, b, c)'
    BY <2>1 DEF Typed, Path, Pending, SetOK, Request
  <2>4. FlowHeld(a, b, c)' /\ ProofHeld(a, b, c)'
    BY <2>1, <1>1 DEF FlowHeld, ProofHeld, Rows
  <2>5. TotpHeld(a, b, c)'
    <3>1. c.t = "insert" => /\ c.secret \in issued' \ dropped'
                            /\ \A v \in User : totp'[v] # None => totp'[v].secret # c.secret
      BY <2>1, <1>1, <1>3 DEF TotpHeld
    <3>2. c.t = "confirm" => totp'[b.user] # None
      <4>1. c.t = "confirm" => c.lockT = {b.user} /\ b.user \in User /\ totp[b.user] # None
        BY <2>1 DEF Pending, Typed, TotpHeld
      <4> QED
        BY <4>1, <2>2, <1>3
    <3> QED
      BY <3>1, <3>2, <2>1, <1>1, <1>3 DEF TotpHeld
  <2>6. CodesHeld(a, b, c)'
    <3>1. c.used # {} => c.used \subseteq unused'[b.user]
      <4>1. c.used # {} => /\ c.used \subseteq unused[b.user] /\ c.used \subseteq c.lockC
                           /\ b.user \in User
        BY <2>1 DEF Pending, Path, CodesHeld
      <4> QED
        BY <4>1, <2>2, <1>3
    <3>2. \A v \in User : unused'[v] \subseteq unused[v]
      BY <1>3
    <3>3. b.kind = "enroll" => b.user \in User
      BY <2>1 DEF Path
    <3> QED
      BY <3>1, <3>2, <3>3, <2>1, <1>1 DEF CodesHeld
  <2> QED
    BY <2>3, <2>4, <2>5, <2>6 DEF Alone
<1>10. Stored'
  BY <1>4, <1>5, <1>6, <1>7, <1>8 DEF Stored
<1> QED
  BY <1>1, <1>9, <1>10, WorldKeeps

(* Administrators and the clock keep the invariant.                           *)
LEMMA EnvironmentKeeps == ASSUME LInv, Environment PROVE LInv'
<1> USE DEF Change
<1>1. TypeOK
  BY DEF LInv, Stored
<1>2. ASSUME NEW u \in User, patch_tier(u) PROVE LInv'
  BY <1>1, <1>2, AccountsKeep DEF patch_tier, TypeOK
<1>3. ASSUME NEW u \in User, patch_status(u) PROVE LInv'
  BY <1>1, <1>3, AccountsKeep DEF patch_status, TypeOK, Of
<1>4. ASSUME NEW f \in Flow, expire_flow(f) PROVE LInv'
  BY <1>1, <1>4, AccountsKeep DEF expire_flow, TypeOK
<1> QED
  BY <1>2, <1>3, <1>4, ResetKeeps DEF Environment

-----------------------------------------------------------------------------
(* The theorems.                                                           *)

(* Every step keeps the invariant.                                            *)
LEMMA NextKeeps == ASSUME LInv, [Next]_vars PROVE LInv'
<1>1. CASE UNCHANGED vars
  <2>1. UNCHANGED <<pc, req, wr, issued, flow, totp, unused, sess, hist, active, admin, expired, dead>>
    BY <1>1 DEF vars, tables
  <2>2. TypeOK
    BY DEF LInv, Stored
  <2> QED
    BY <2>1, <2>2, AccountsKeep DEF TypeOK
<1>2. ASSUME NEW p \in Req, Step(p) PROVE LInv'
  BY <1>2, CreateFlowKeeps, UserKeeps, AdvanceKeeps, ResumeKeeps, FinalizeKeeps, CodeKeeps,
     PeekKeeps, InsertKeeps, ConfirmKeeps, BatchKeeps, FinishKeeps, ConsumeKeeps, FindOldKeeps,
     DropKeeps, ChallengeKeeps, AssertionKeeps, CommitKeeps, RefuseKeeps DEF Step, Abort
<1> QED
  BY <1>1, <1>2, ArriveKeeps, EnvironmentKeeps DEF Next

(* The invariant holds in every state: tables, requests and locks stay        *)
(* consistent under every interleaving of login, enrollment, recovery and     *)
(* administration (idp/flows.py, idp/web/routes.py, webauthn_routes.py).      *)
THEOREM LoginCorrect == Spec => []LInv
<1>1. LInv /\ [Next]_vars => LInv'
  BY NextKeeps
<1> QED
  BY InitHolds, <1>1, PTL DEF Spec

(* The tables of the login flow keep their types.                             *)
THEOREM LoginTypes == Spec => []TypeOK
<1>1. LInv => TypeOK
  BY DEF LInv, Stored
<1> QED
  BY LoginCorrect, <1>1, PTL

(* However many submits of a code or an assertion race, a flow completes      *)
(* with one session (the row lock of get_stage_flow, finalize_login).         *)
THEOREM SubmitsMakeOneSession == Spec => []OneSessionPerSubmit
<1>1. LInv => OneSessionPerSubmit
  BY DEF LInv, Stored, SessionsStored
<1> QED
  BY LoginCorrect, <1>1, PTL

(* Every session is of a user whose password its flow accepted                *)
(* (login_submit, flow_user).                                                 *)
THEOREM PasswordAlwaysFirst == Spec => []PasswordFirst
<1>1. LInv => PasswordFirst
  BY DEF LInv, Stored, SessionsStored
<1> QED
  BY LoginCorrect, <1>1, PTL

(* A secret given up by a recovery or a reset completes no login that begins  *)
(* later (recovery_submit, reset_totp, totp_submit, enroll_totp_submit).      *)
THEOREM LostAuthenticatorsStayDead == Spec => []LostAuthenticatorDead
<1>1. LInv => LostAuthenticatorDead
  BY AloneNow DEF ProofHeld, LostAuthenticatorDead
<1> QED
  BY LoginCorrect, <1>1, PTL

(* No recovery code is redeemed twice (the row locks of recovery.consume).    *)
THEOREM RecoveryCodesUsedOnce == Spec => []RecoveryCodeOnce
<1>1. LInv => RecoveryCodeOnce
  BY DEF LInv, Stored, CodesStored
<1> QED
  BY LoginCorrect, <1>1, PTL

(* An account's unused codes are of one batch: a new batch replaces all of    *)
(* them, also when enrollments race (recovery.issue_batch).                   *)
THEOREM NewBatchReplacesAll == Spec => []OneLiveBatch
<1>1. LInv => OneLiveBatch
  BY DEF LInv, Stored, CodesStored
<1> QED
  BY LoginCorrect, <1>1, PTL

(* A challenge that was compared once completes no other login                *)
(* (webauthn_verify clears it whatever the assertion is worth).               *)
THEOREM ChallengesUsedOnce == Spec => []ChallengeOnce
<1>1. LInv => ChallengeOnce
  <2> SUFFICES ASSUME LInv, NEW p \in Req, req[p].kind = "verify", req[p].res = "session"
               PROVE  req[p].proof \notin met
    BY DEF ChallengeOnce
  <2>1. /\ Path(pc[p], req[p]) /\ Pending(pc[p], req[p], wr[p])
        /\ FlowHeld(pc[p], req[p], wr[p]) /\ ProofHeld(pc[p], req[p], wr[p])
    BY AloneNow
  <2>2. /\ req[p].flow \in Flow /\ flow[req[p].flow] # None /\ req[p].proof # None
        /\ req[p].proof = flow[req[p].flow].chal
    BY <2>1 DEF Path, Pending, FlowHeld, ProofHeld
  <2> QED
    BY <2>2 DEF LInv, Stored, FlowsStored
<1> QED
  BY LoginCorrect, <1>1, PTL
-----------------------------------------------------------------------------
(* Signing in as LoginFlow implements it.  Two things more are needed of a    *)
(* request that is about to commit: an enrollment and a recovery have written *)
(* all they have to write, and the session it inserts is new.                 *)

Ready(l, r, w) ==
    /\ r.kind = "enroll" /\ l \in {"finish", "commit"} => w.new \in Batch
    /\ r.kind = "enroll" /\ l = "commit" => w.s # None /\ w.delF
    /\ r.kind = "recovery" /\ l \in {"old", "lost", "commit"} => w.used = {r.code}
    /\ w.s # None => w.s \in issued /\ sess[w.s] = None

SessionsNew ==
    /\ \A s \in Rows : s \in issued
    /\ \A p \in Req : Ready(pc[p], req[p], wr[p])
    /\ \A p, q \in Req : p # q /\ wr[p].s # None => wr[p].s # wr[q].s

(* A request moves on its own.                                                *)
LEMMA ReadyKeeps ==
    ASSUME LInv, SessionsNew, NEW p \in Req, NEW l, NEW r, NEW w, Goto(p, l, r), Write(p, w),
           UNCHANGED sess, issued \subseteq issued', Ready(l, r, w)',
           w.s # None => \A q \in Req \ {p} : wr[q].s # w.s
    PROVE  SessionsNew'
<1>1. /\ pc'[p] = l /\ req'[p] = r /\ wr'[p] = w
      /\ \A q \in Req \ {p} : pc'[q] = pc[q] /\ req'[q] = req[q] /\ wr'[q] = wr[q]
  BY DEF LInv, Goto, Write
<1>2. \A s \in Rows' : s \in issued'
  BY DEF SessionsNew, Rows
<1>3. ASSUME NEW q \in Req PROVE Ready(pc[q], req[q], wr[q])'
  <2>1. CASE q = p
    BY <2>1, <1>1 DEF Ready
  <2>2. CASE q # p
    <3>1. Ready(pc[q], req[q], wr[q])
      BY DEF SessionsNew
    <3> QED
      BY <2>2, <3>1, <1>1 DEF Ready
  <2> QED
    BY <2>1, <2>2
<1>4. ASSUME NEW q \in Req, NEW x \in Req, q # x, wr'[q].s # None
      PROVE  wr'[q].s # wr'[x].s
  BY <1>1, <1>4 DEF SessionsNew
<1> QED
  BY <1>2, <1>3, <1>4 DEF SessionsNew

(* Before its last step a request has inserted no session.                    *)
LEMMA NoSessionYet ==
    ASSUME LInv, NEW p \in Req, pc[p] # "commit"
    PROVE  wr[p].s = None
BY AloneNow DEF Pending

(* A request that only reads, or ends, or has not come to insert its session. *)
LEMMA QuietReady ==
    ASSUME LInv, SessionsNew, NEW p \in Req, NEW l, NEW r, NEW w, Goto(p, l, r), Write(p, w),
           UNCHANGED sess, issued \subseteq issued', w.s = None,
           r.kind = "enroll" => l # "commit" /\ (l = "finish" => w.new \in Batch),
           r.kind = "recovery" /\ l \in {"old", "lost", "commit"} => w.used = {r.code}
    PROVE  SessionsNew'
<1>1. Ready(l, r, w)'
  BY DEF Ready
<1> QED
  BY <1>1, ReadyKeeps

(* A request that is refused leaves none.                                     *)
LEMMA RefuseReady == ASSUME LInv, SessionsNew, NEW p \in Req, Refuse(p) PROVE SessionsNew'
<1>1. NoWrites.s = None /\ NoReq.kind = "none"
  BY DEF NoWrites, NoReq
<1> QED
  BY <1>1, QuietReady DEF Refuse, End, Frame, tables

(* Arrivals.                                                                  *)
LEMMA ArriveReady == ASSUME LInv, SessionsNew, NEW p \in Req, Arrive(p) PROVE SessionsNew'
<1>1. ASSUME NEW f, NEW kind, NEW args, get_stage_flow(p, kind, f, args)
      PROVE  SessionsNew'
  <2>1. PICK r, w : /\ Goto(p, "user", r) /\ Write(p, w)
                    /\ w = IF ForUpdate(kind) THEN [NoWrites EXCEPT !.lockF = {f}] ELSE NoWrites
    BY <1>1 DEF get_stage_flow
  <2>2. w.s = None
    BY <2>1 DEF NoWrites
  <2>3. UNCHANGED <<sess, issued>>
    BY <1>1 DEF get_stage_flow, Frame, tables
  <2> QED
    BY <2>1, <2>2, <2>3, QuietReady
<1>2. ASSUME NEW f, login_form(p, f) PROVE SessionsNew'
  <2>1. PICK r : Goto(p, "newFlow", r) /\ Read /\ pc[p] = "free"
    BY <1>2 DEF login_form
  <2>2. Write(p, wr[p])
    BY <2>1 DEF Read, Write, LInv
  <2> QED
    BY <2>1, <2>2, NoSessionYet, QuietReady DEF Read, Frame, tables
<1> QED
  BY <1>1, <1>2 DEF Arrive, login_submit, totp_submit, enroll_totp_submit, enroll_totp_form,
     webauthn_options, recovery_submit, webauthn_verify

(* Steps that read and move on.                                               *)
LEMMA ReadReady ==
    ASSUME LInv, SessionsNew, NEW p \in Req,
           \/ flow_user(p) \/ verify_code(p) \/ peek(p) \/ store_pending_secret(p)
           \/ check_pending(p) \/ find_old(p)
    PROVE  SessionsNew'
<1>1. PICK k : k = req[p].kind
  OBVIOUS
<1>2. /\ pc[p] \in {"user", "code", "peek", "peek2", "store", "pending", "old"}
      /\ \/ Refuse(p)
         \/ \E l, r : /\ Goto(p, l, r) /\ Read /\ r.kind = k /\ r.code = req[p].code
                      /\ l \notin {"finish", "commit", "old"}
                      /\ l = "lost" => pc[p] = "old" /\ k = "recovery"
  <2>1. req[p] \in Request /\ (pc[p] = "old" => k = "recovery")
    BY <1>1, AloneNow DEF Typed, Path
  <2>2. CASE flow_user(p)
    <3>1. PICK r : r = [req[p] EXCEPT !.tier = Tier(req[p].user)]
      OBVIOUS
    <3>2. r.kind = k /\ r.code = req[p].code
      BY <3>1, <2>1, <1>1 DEF Request
    <3>3. /\ pc[p] = "user"
          /\ \/ Refuse(p)
             \/ \E l \in {"advance", "resume", "code", "assert", "challenge", "peek", "pending",
                          "redeem"} : Goto(p, l, r) /\ Read
      BY <2>2, <3>1 DEF flow_user
    <3> QED
      BY <3>2, <3>3
  <2>3. CASE verify_code(p) \/ check_pending(p)
    BY <2>1, <2>3, <1>1 DEF verify_code, check_pending, Request
  <2>4. CASE peek(p) \/ store_pending_secret(p)
    BY <2>1, <2>4, <1>1 DEF peek, store_pending_secret, Request
  <2>5. CASE find_old(p)
    <3>1. PICK x, y : Goto(p, "lost", [req[p] EXCEPT !.exist = x, !.proof = y]) /\ Read
      BY <2>5 DEF find_old
    <3>2. PICK r : r = [req[p] EXCEPT !.exist = x, !.proof = y]
      OBVIOUS
    <3>3. r.kind = k /\ r.code = req[p].code
      BY <3>2, <2>1, <1>1 DEF Request
    <3>4. pc[p] = "old" /\ Goto(p, "lost", r)
      BY <3>1, <3>2, <2>5 DEF find_old
    <3> QED
      BY <3>1, <3>3, <3>4, <2>1
  <2> QED
    BY <2>2, <2>3, <2>4, <2>5
<1>3. ASSUME NEW l, NEW r, Goto(p, l, r), Read, r.kind = k, r.code = req[p].code,
             l \notin {"finish", "commit", "old"},
             l = "lost" => pc[p] = "old" /\ k = "recovery"
      PROVE  SessionsNew'
  <2>1. Write(p, wr[p]) /\ UNCHANGED <<sess, issued>>
    BY <1>3 DEF Read, Write, LInv, Frame, tables
  <2>2. wr[p].s = None
    BY <1>2, NoSessionYet
  <2>3. l = "lost" => wr[p].used = {r.code}
    BY <1>1, <1>3 DEF SessionsNew, Ready
  <2> QED
    BY <1>3, <2>1, <2>2, <2>3, QuietReady
<1> QED
  BY <1>2, <1>3, RefuseReady

(* Steps that write, short of the session.                                    *)
LEMMA WriteReady ==
    ASSUME LInv, SessionsNew, NEW p \in Req,
           \/ create_flow(p) \/ advance(p) \/ insert_secret(p) \/ confirm(p) \/ issue_batch(p)
           \/ consume(p) \/ drop_secret(p) \/ set_challenge(p) \/ verify_assertion(p)
    PROVE  SessionsNew'
<1>1. PICK r, b : r = req[p] /\ b = wr[p]
  OBVIOUS
<1>2. /\ Path(pc[p], r) /\ Ready(pc[p], r, b)
      /\ r \in Request
      /\ b \in [lockF : SUBSET Flow, lockT : SUBSET User, lockC : SUBSET Code,
                set : {b.set}, delF : BOOLEAN, newF : Flow \cup {None},
                t : {"keep", "insert", "confirm", "delete"}, secret : Secret \cup {None},
                used : SUBSET Code, del : SUBSET Code, new : SUBSET Code,
                s : Session \cup {None}, row : {b.row}]
  BY <1>1, AloneNow DEF SessionsNew, Typed
<1>3. pc[p] # "commit" => b.s = None
  BY <1>1, NoSessionYet
<1>4. CASE create_flow(p)
  <2>1. PICK n : /\ Write(p, [b EXCEPT !.newF = n, !.delF = r.exist,
                                       !.lockF = IF r.exist THEN {r.flow} ELSE {}])
                 /\ Draw(n)
    BY <1>1, <1>4 DEF create_flow
  <2>2. PICK w : w = [b EXCEPT !.newF = n, !.delF = r.exist,
                               !.lockF = IF r.exist THEN {r.flow} ELSE {}]
    OBVIOUS
  <2>3. w.s = None /\ r.kind = "form" /\ Goto(p, "commit", r) /\ UNCHANGED sess
    BY <2>2, <1>1, <1>2, <1>3, <1>4 DEF create_flow, Path, Frame, tables
  <2> QED
    BY <2>1, <2>2, <2>3, QuietReady DEF Draw
<1>5. CASE advance(p)
  <2>1. PICK x : Write(p, [b EXCEPT !.lockF = {r.flow}, !.set = x])
    BY <1>1, <1>5 DEF advance
  <2>2. PICK w : w = [b EXCEPT !.lockF = {r.flow}, !.set = x]
    OBVIOUS
  <2>3. /\ w.s = None /\ r.kind = "login" /\ Goto(p, "commit", r) /\ UNCHANGED <<sess, issued>>
    BY <2>2, <1>1, <1>2, <1>3, <1>5 DEF advance, Path, Frame, tables
  <2> QED
    BY <2>1, <2>2, <2>3, QuietReady
<1>6. CASE insert_secret(p)
  <2>1. PICK x : /\ Write(p, [b EXCEPT !.lockT = {r.user}, !.t = "insert", !.secret = x])
                 /\ Draw(x)
    BY <1>1, <1>6 DEF insert_secret
  <2>2. PICK w : w = [b EXCEPT !.lockT = {r.user}, !.t = "insert", !.secret = x]
    OBVIOUS
  <2>3. w.s = None /\ r.kind = "enrollForm" /\ Goto(p, "commit", r) /\ UNCHANGED sess
    BY <2>2, <1>1, <1>2, <1>3, <1>6 DEF insert_secret, Path, Frame, tables
  <2> QED
    BY <2>1, <2>2, <2>3, QuietReady DEF Draw
<1>7. CASE confirm(p)
  <2>1. PICK w : w = [b EXCEPT !.lockT = {r.user}, !.t = "confirm"]
    OBVIOUS
  <2>2. /\ w.s = None /\ Goto(p, "batch", r) /\ Write(p, w) /\ UNCHANGED <<sess, issued>>
    BY <2>1, <1>1, <1>2, <1>3, <1>7 DEF confirm, Frame, tables
  <2> QED
    BY <2>2, QuietReady
<1>8. CASE issue_batch(p)
  <2>1. PICK B \in Batch :
           /\ Write(p, [b EXCEPT !.lockC = Replaced(r.user), !.del = Replaced(r.user), !.new = B])
           /\ issued' = issued \cup B
    BY <1>1, <1>8 DEF issue_batch
  <2>2. PICK w : w = [b EXCEPT !.lockC = Replaced(r.user), !.del = Replaced(r.user), !.new = B]
    OBVIOUS
  <2>3. /\ w.s = None /\ w.new \in Batch /\ Goto(p, "finish", r) /\ r.kind = "enroll"
        /\ UNCHANGED sess
    BY <2>1, <2>2, <1>1, <1>2, <1>3, <1>8 DEF issue_batch, Path, Frame, tables
  <2> QED
    BY <2>1, <2>2, <2>3, QuietReady
<1>9. CASE consume(p)
  <2>1. CASE Refuse(p)
    BY <2>1, RefuseReady
  <2>2. CASE ~Refuse(p)
    <3>1. PICK w : w = [b EXCEPT !.lockC = CodesForUpdate(r.user), !.used = {r.code}]
      OBVIOUS
    <3>2. /\ w.s = None /\ w.used = {r.code} /\ Goto(p, "old", r) /\ Write(p, w)
          /\ UNCHANGED <<sess, issued>> /\ r.kind = "recovery"
      BY <3>1, <2>2, <1>1, <1>2, <1>3, <1>9 DEF consume, Path, Frame, tables
    <3> QED
      BY <3>2, QuietReady
  <2> QED
    BY <2>1, <2>2
<1>10. CASE drop_secret(p)
  <2>1. PICK x, y, z : Write(p, [b EXCEPT !.lockF = {r.flow}, !.set = x, !.lockT = y, !.t = z])
    BY <1>1, <1>10 DEF drop_secret
  <2>2. PICK w : w = [b EXCEPT !.lockF = {r.flow}, !.set = x, !.lockT = y, !.t = z]
    OBVIOUS
  <2>3. pc[p] = "lost" /\ r.kind = "recovery"
    BY <1>1, <1>2, <1>10 DEF drop_secret, Path
  <2>4. w.s = None /\ w.used = {r.code}
    BY <2>2, <2>3, <1>2, <1>3 DEF Ready
  <2>5. Goto(p, "commit", r) /\ UNCHANGED <<sess, issued>>
    BY <1>1, <1>10 DEF drop_secret, Frame, tables
  <2> QED
    BY <2>1, <2>2, <2>3, <2>4, <2>5, QuietReady
<1>11. CASE set_challenge(p)
  <2>1. PICK x, y : Write(p, [b EXCEPT !.set = x]) /\ Draw(y)
    BY <1>1, <1>11 DEF set_challenge
  <2>2. PICK w : w = [b EXCEPT !.set = x]
    OBVIOUS
  <2>3. w.s = None /\ r.kind = "options" /\ Goto(p, "commit", r) /\ UNCHANGED sess
    BY <2>2, <1>1, <1>2, <1>3, <1>11 DEF set_challenge, Path, Frame, tables
  <2> QED
    BY <2>1, <2>2, <2>3, QuietReady DEF Draw
<1>12. CASE verify_assertion(p)
  <2>1. PICK x, y, l : Write(p, [b EXCEPT !.set = x]) /\ Goto(p, l, [r EXCEPT !.proof = y])
    BY <1>1, <1>12 DEF verify_assertion
  <2>2. PICK w, z : w = [b EXCEPT !.set = x] /\ z = [r EXCEPT !.proof = y]
    OBVIOUS
  <2>3. /\ w.s = None /\ z.kind = "verify" /\ UNCHANGED <<sess, issued>>
    BY <2>2, <1>1, <1>2, <1>3, <1>12 DEF verify_assertion, Path, Frame, tables, Request
  <2> QED
    BY <2>1, <2>2, <2>3, QuietReady
<1> QED
  BY <1>4, <1>5, <1>6, <1>7, <1>8, <1>9, <1>10, <1>11, <1>12

(* The session is drawn where the identifier is new.                          *)
LEMMA SessionReady ==
    ASSUME LInv, SessionsNew, NEW p \in Req, finalize_login(p) \/ finish_enroll(p)
    PROVE  SessionsNew'
<1>1. PICK r, b : r = req[p] /\ b = wr[p]
  OBVIOUS
<1>2. /\ Path(pc[p], r) /\ Ready(pc[p], r, b)
      /\ r \in Request
      /\ b \in [lockF : SUBSET Flow, lockT : SUBSET User, lockC : SUBSET Code,
                set : {b.set}, delF : BOOLEAN, newF : Flow \cup {None},
                t : {"keep", "insert", "confirm", "delete"}, secret : Secret \cup {None},
                used : SUBSET Code, del : SUBSET Code, new : SUBSET Code,
                s : Session \cup {None}, row : {b.row}]
  BY <1>1, AloneNow DEF SessionsNew, Typed
<1>3. PICK z : z = [r EXCEPT !.res = "session"]
  OBVIOUS
<1>4. PICK s, w :
        /\ s \in Session \ issued /\ issued' = issued \cup {s} /\ Write(p, w)
        /\ \/ finalize_login(p) /\ w = [b EXCEPT !.s = s, !.row = Row(r),
                                                 !.set = Columns(b.set, "done", s)]
           \/ finish_enroll(p) /\ w = [b EXCEPT !.s = s, !.row = Row(r), !.delF = TRUE,
                                                !.lockF = {r.flow}]
  BY <1>1 DEF finalize_login, finish_enroll, Draw
<1>5. /\ w.s = s /\ w.new = b.new /\ z.kind = r.kind
      /\ r.kind = "enroll" => w.delF /\ finish_enroll(p)
  <2>1. CASE finalize_login(p) /\ w = [b EXCEPT !.s = s, !.row = Row(r),
                                               !.set = Columns(b.set, "done", s)]
    BY <2>1, <1>1, <1>2, <1>3 DEF Request, finalize_login, Path
  <2>2. CASE finish_enroll(p) /\ w = [b EXCEPT !.s = s, !.row = Row(r), !.delF = TRUE,
                                              !.lockF = {r.flow}]
    BY <2>2, <1>2, <1>3 DEF Request
  <2> QED
    BY <2>1, <2>2, <1>4
<1>6. Goto(p, "commit", z) /\ UNCHANGED sess
  BY <1>1, <1>3 DEF finalize_login, finish_enroll, Frame, tables
<1>7. r.kind # "recovery" /\ (r.kind = "enroll" => b.new \in Batch)
  <2>1. CASE finalize_login(p)
    BY <2>1, <1>1, <1>2 DEF finalize_login, Path
  <2>2. CASE finish_enroll(p)
    BY <2>2, <1>1, <1>2 DEF finish_enroll, Path, Ready
  <2> QED
    BY <2>1, <2>2
<1>8. sess[s] = None
  BY <1>4 DEF SessionsNew, Rows
<1>9. s # None
  BY <1>4, NoneAssumption
<1>10. Ready("commit", z, w)'
  BY <1>4, <1>5, <1>6, <1>7, <1>8, <1>9 DEF Ready
<1>11. \A q \in Req \ {p} : wr[q].s # s
  BY <1>4, <1>9 DEF SessionsNew, Ready
<1> QED
  BY <1>4, <1>5, <1>6, <1>10, <1>11, ReadyKeeps

(* A commit stores the session it drew; the others' are different.            *)
LEMMA CommitReady == ASSUME LInv, SessionsNew, NEW p \in Req, Commit(p) PROVE SessionsNew'
<1>1. PICK w : w = wr[p]
  OBVIOUS
<1>2. /\ sess' = (IF w.s = None THEN sess ELSE [sess EXCEPT ![w.s] = w.row])
      /\ UNCHANGED issued /\ End(p)
  BY <1>1 DEF Commit
<1>3. w.s # None => w.s \in issued
  BY <1>1 DEF SessionsNew, Ready
<1>4. /\ \A s \in Session : s # w.s => sess'[s] = sess[s]
      /\ sess \in [Session -> SessionRow \cup {None}]
  BY <1>2 DEF LInv, Stored, TypeOK
<1>5. /\ req'[p] = NoReq /\ wr'[p] = NoWrites
      /\ \A q \in Req \ {p} : pc'[q] = pc[q] /\ req'[q] = req[q] /\ wr'[q] = wr[q]
  BY <1>2 DEF LInv, End, Goto, Write
<1>6. \A s \in Rows' : s \in issued'
  BY <1>2, <1>3, <1>4 DEF SessionsNew, Rows
<1>7. NoReq.kind = "none" /\ NoWrites.s = None
  BY DEF NoReq, NoWrites
<1>8. ASSUME NEW q \in Req PROVE Ready(pc[q], req[q], wr[q])'
  <2>1. CASE q = p
    BY <2>1, <1>5, <1>7 DEF Ready
  <2>2. CASE q # p
    <3>1. Ready(pc[q], req[q], wr[q]) /\ (wr[q].s # None => wr[q].s # w.s)
      BY <2>2, <1>1 DEF SessionsNew
    <3>2. wr[q].s \in Session \cup {None}
      BY AloneNow DEF Typed
    <3> QED
      BY <2>2, <3>1, <3>2, <1>2, <1>4, <1>5 DEF Ready
  <2> QED
    BY <2>1, <2>2
<1>9. ASSUME NEW q \in Req, NEW x \in Req, q # x, wr'[q].s # None
      PROVE  wr'[q].s # wr'[x].s
  BY <1>5, <1>7, <1>9 DEF SessionsNew
<1> QED
  BY <1>6, <1>8, <1>9 DEF SessionsNew

(* Sessions are new in every step.                                            *)
LEMMA NextReady == ASSUME LInv, SessionsNew, [Next]_vars PROVE SessionsNew'
<1>1. ASSUME UNCHANGED <<pc, req, wr, sess, issued>> PROVE SessionsNew'
  BY <1>1 DEF SessionsNew, Ready, Rows
<1>2. ASSUME NEW p \in Req, resume_completed_login(p) PROVE SessionsNew'
  <2>1. NoWrites.s = None /\ NoReq.kind = "none"
    BY DEF NoWrites, NoReq
  <2> QED
    BY <1>2, <2>1, QuietReady DEF resume_completed_login, End
<1>3. ASSUME NEW p \in Req, Step(p) PROVE SessionsNew'
  BY <1>2, <1>3, ReadReady, WriteReady, SessionReady, CommitReady, RefuseReady DEF Step, Abort
<1>4. CASE Environment
  BY <1>1, <1>4 DEF Environment, patch_tier, patch_status, reset_totp, expire_flow, Change
<1>5. CASE UNCHANGED vars
  BY <1>1, <1>5 DEF vars, tables
<1> QED
  BY <1>3, <1>4, <1>5, ArriveReady DEF Next

(* Nothing is under way at first.                                             *)
LEMMA InitReady == Init => SessionsNew
<1>1. NoWrites.s = None /\ NoReq.kind = "none"
  BY DEF NoWrites, NoReq
<1> QED
  BY <1>1 DEF Init, SessionsNew, Ready, Rows

-----------------------------------------------------------------------------
(* The codes that were checked.                                            *)

Past(l, r) == \/ r.kind = "totp" /\ l \in {"create", "commit"}
              \/ r.kind = "enroll" /\ l \in {"confirm", "batch", "finish", "commit"}
Mark(r) == [flow |-> r.flow, user |-> r.user, proof |-> r.proof, by |-> r.kind]

(* They are the marks of the requests past their check.                       *)
LEMMA CheckedIs ==
    /\ \A q \in Req : Past(pc[q], req[q]) => Mark(req[q]) \in Checked
    /\ \A m \in Checked : \E q \in Req : Past(pc[q], req[q]) /\ m = Mark(req[q])
BY DEF Checked, Past, Mark

(* A request that ends, moves on with its check or has none adds no check.    *)
LEMMA ForgetsOnly ==
    ASSUME LInv, NEW p \in Req, NEW l, NEW r, Goto(p, l, r),
           Past(l, r) => Past(pc[p], req[p]) /\ Mark(r) = Mark(req[p])
    PROVE  Checked' \subseteq Checked
<1>1. /\ pc'[p] = l /\ req'[p] = r
      /\ \A q \in Req \ {p} : pc'[q] = pc[q] /\ req'[q] = req[q]
  BY DEF LInv, Goto
<1>2. \A m \in Checked' : \E q \in Req : Past(pc'[q], req'[q]) /\ m = Mark(req'[q])
  BY DEF Checked, Past, Mark
<1>3. \A q \in Req : Past(pc'[q], req'[q]) => Past(pc[q], req[q]) /\ Mark(req'[q]) = Mark(req[q])
  BY <1>1
<1> QED
  BY <1>2, <1>3, CheckedIs

(* A request that passes its check adds it.                                   *)
LEMMA ShowsOne ==
    ASSUME LInv, NEW p \in Req, NEW l, NEW r, Goto(p, l, r),
           Past(l, r), ~Past(pc[p], req[p])
    PROVE  Checked' = Checked \cup {Mark(r)}
<1>1. /\ pc'[p] = l /\ req'[p] = r
      /\ \A q \in Req \ {p} : pc'[q] = pc[q] /\ req'[q] = req[q]
  BY DEF LInv, Goto
<1>2. /\ \A m \in Checked' : \E q \in Req : Past(pc'[q], req'[q]) /\ m = Mark(req'[q])
      /\ \A q \in Req : Past(pc'[q], req'[q]) => Mark(req'[q]) \in Checked'
  BY DEF Checked, Past, Mark
<1>3. Checked' \subseteq Checked \cup {Mark(r)}
  BY <1>1, <1>2, CheckedIs
<1>4. Checked \cup {Mark(r)} \subseteq Checked'
  BY <1>1, <1>2, CheckedIs
<1> QED
  BY <1>3, <1>4

-----------------------------------------------------------------------------
(* Every step is a step of SignIn.                                         *)

Redeemed == {c \in Code : spent[c] # 0}
ChallengesNow == [f \in Flow |-> Asked(f)]

(* A step that writes no table takes at most checks away.                     *)
LEMMA StepForgets ==
    ASSUME UNCHANGED <<proved, totp, unused, spent, flow, met, sess>>, Checked' \subseteq Checked
    PROVE  SignInTables!SignInNext
<1>1. \A f \in Flow : Asked(f)' = Asked(f)
  BY DEF Asked
<1>2. ChallengesNow' = ChallengesNow /\ Redeemed' = Redeemed
  BY <1>1 DEF ChallengesNow, Redeemed
<1>3. SignInTables!Forget
  BY <1>2 DEF SignInTables!Forget, SignInTables!Forgets, ChallengesNow, Redeemed
<1> QED
  BY <1>3 DEF SignInTables!SignInNext

(* A code that is right when it is checked.                                   *)
LEMMA CheckShows ==
    ASSUME LInv, NEW p \in Req, verify_code(p) \/ check_pending(p)
    PROVE  SignInTables!SignInNext
<1>1. PICK r, b : r = req[p] /\ b = wr[p]
  OBVIOUS
<1>2. CASE Refuse(p)
  <2>1. ~Past("free", NoReq)
    BY DEF Past, NoReq
  <2>2. Goto(p, "free", NoReq) /\ UNCHANGED <<proved, totp, unused, spent, flow, met, sess>>
    BY <1>2 DEF Refuse, End, Frame, tables, hist
  <2> QED
    BY <2>1, <2>2, ForgetsOnly, StepForgets
<1>3. CASE ~Refuse(p)
  <2>1. PICK l, z :
          /\ Goto(p, l, z) /\ Read /\ z = [r EXCEPT !.proof = totp[r.user].secret]
          /\ totp[r.user] # None
          /\ \/ verify_code(p) /\ l = "create" /\ totp[r.user].confirmed
             \/ check_pending(p) /\ l = "confirm" /\ ~totp[r.user].confirmed
    BY <1>1, <1>3 DEF verify_code, check_pending
  <2>2. r \in Request /\ Path(pc[p], r) /\ FlowHeld(pc[p], r, b)
    BY <1>1, AloneNow DEF Typed
  <2>3. \/ verify_code(p) /\ pc[p] = "code" /\ r.kind = "totp"
        \/ check_pending(p) /\ pc[p] = "pending" /\ r.kind = "enroll"
    BY <2>1, <2>2, <1>1 DEF verify_code, check_pending, Path
  <2>4. /\ r.flow \in Flow /\ r.user \in User /\ <<r.flow, r.user>> \in proved
        /\ totp[r.user].confirmed <=> r.kind = "totp"
        /\ r.kind \in {"totp", "enroll"}
    BY <2>1, <2>2, <2>3, <1>1 DEF Path, FlowHeld, verify_code, check_pending
  <2>5. /\ z.flow = r.flow /\ z.user = r.user /\ z.kind = r.kind
        /\ z.proof = totp[r.user].secret
    BY <2>1, <2>2 DEF Request
  <2>6. Past(l, z) /\ ~Past(pc[p], r)
    BY <2>1, <2>3, <2>5, <1>1 DEF Past, verify_code, check_pending
  <2>7. Checked' = Checked \cup {Mark(z)}
    BY <2>1, <2>6, <1>1, ShowsOne
  <2>8. Mark(z) = SignInTables!Shown(r.flow, r.user, totp[r.user].secret, r.kind)
    BY <2>5 DEF Mark, SignInTables!Shown
  <2>9. UNCHANGED <<proved, totp, unused, spent, flow, met, sess>>
    BY <2>1 DEF Read, Frame, tables, hist
  <2>10. ChallengesNow' = ChallengesNow /\ Redeemed' = Redeemed
    <3>1. \A f \in Flow : Asked(f)' = Asked(f)
      BY <2>9 DEF Asked
    <3> QED
      BY <3>1, <2>9 DEF ChallengesNow, Redeemed
  <2>11. SignInTables!Show(r.flow, r.user, r.kind)
    BY <2>1, <2>4, <2>7, <2>8, <2>9, <2>10
       DEF SignInTables!Show, ChallengesNow, Redeemed
  <2> QED
    BY <2>4, <2>11 DEF SignInTables!SignInNext
<1> QED
  BY <1>2, <1>3

(* A request that moves on its own without a new check.                       *)
LEMMA MoveForgets ==
    ASSUME LInv, NEW p \in Req, NEW l, NEW r, Goto(p, l, r), Frame,
           Past(l, r) => Past(pc[p], req[p]) /\ Mark(r) = Mark(req[p])
    PROVE  SignInTables!SignInNext
<1>1. UNCHANGED <<proved, totp, unused, spent, flow, met, sess>>
  BY DEF Frame, tables, hist
<1> QED
  BY <1>1, ForgetsOnly, StepForgets

(* A refusal takes its check with it.                                         *)
LEMMA RefuseForgets == ASSUME LInv, NEW p \in Req, Refuse(p) PROVE SignInTables!SignInNext
<1>1. ~Past("free", NoReq)
  BY DEF Past, NoReq
<1> QED
  BY <1>1, MoveForgets DEF Refuse, End

(* An arrival has checked nothing.                                            *)
LEMMA ArriveForgets == ASSUME LInv, NEW p \in Req, Arrive(p) PROVE SignInTables!SignInNext
<1>1. ASSUME NEW r PROVE ~Past("user", r) /\ ~Past("newFlow", r)
  BY DEF Past
<1>2. \E f, a, kind : get_stage_flow(p, kind, f, a) \/ login_form(p, f)
  BY DEF Arrive, login_submit, totp_submit, enroll_totp_submit, enroll_totp_form,
     webauthn_options, recovery_submit, webauthn_verify
<1>3. \E r : (Goto(p, "user", r) \/ Goto(p, "newFlow", r)) /\ Frame
  BY <1>2 DEF get_stage_flow, login_form, Read
<1> QED
  BY <1>1, <1>3, MoveForgets

(* The steps of a request but its check and its commit.                       *)
LEMMA WorkForgets ==
    ASSUME LInv, NEW p \in Req,
           \/ create_flow(p) \/ flow_user(p) \/ advance(p) \/ finalize_login(p) \/ peek(p)
           \/ store_pending_secret(p) \/ insert_secret(p) \/ confirm(p) \/ issue_batch(p)
           \/ finish_enroll(p) \/ consume(p) \/ find_old(p) \/ drop_secret(p)
           \/ set_challenge(p) \/ verify_assertion(p)
    PROVE  SignInTables!SignInNext
<1>1. PICK r : r = req[p]
  OBVIOUS
<1>2. Path(pc[p], r) /\ r \in Request
  BY <1>1, AloneNow DEF Typed
<1>3. CASE flow_user(p) \/ peek(p) \/ store_pending_secret(p) \/ consume(p) \/ find_old(p)
  <2>1. \/ Refuse(p)
        \/ \E z, l : /\ Goto(p, l, z) /\ Frame
                     /\ l \in {"advance", "resume", "code", "assert", "challenge", "peek",
                               "pending", "redeem", "peek2", "store", "insert", "old", "lost"}
    BY <1>3 DEF flow_user, peek, store_pending_secret, consume, find_old, Read
  <2>2. ASSUME NEW l \in {"advance", "resume", "code", "assert", "challenge", "peek",
                          "pending", "redeem", "peek2", "store", "insert", "old", "lost"}, NEW z
        PROVE  ~Past(l, z)
    BY DEF Past
  <2> QED
    BY <2>1, <2>2, RefuseForgets, MoveForgets
<1>4. CASE create_flow(p) \/ advance(p) \/ insert_secret(p) \/ drop_secret(p) \/ set_challenge(p)
  <2>1. /\ Goto(p, "commit", r) /\ Frame
        /\ r.kind \in {"form", "login", "enrollForm", "recovery", "options"}
    BY <1>1, <1>2, <1>4 DEF create_flow, advance, insert_secret, drop_secret, set_challenge, Path
  <2>2. ~Past("commit", r)
    BY <2>1 DEF Past
  <2> QED
    BY <2>1, <2>2, MoveForgets
<1>5. CASE verify_assertion(p)
  <2>1. PICK l, x : Goto(p, l, [r EXCEPT !.proof = x]) /\ Frame
    BY <1>1, <1>5 DEF verify_assertion
  <2>2. PICK z : z = [r EXCEPT !.proof = x]
    OBVIOUS
  <2>3. z.kind = "verify"
    BY <2>2, <1>1, <1>2, <1>5 DEF verify_assertion, Path, Request
  <2>4. ~Past(l, z)
    BY <2>3 DEF Past
  <2> QED
    BY <2>1, <2>2, <2>4, MoveForgets
<1>6. CASE confirm(p) \/ issue_batch(p)
  <2>1. PICK l : Goto(p, l, r) /\ Frame /\ l \in {"batch", "finish"}
    BY <1>1, <1>6 DEF confirm, issue_batch
  <2>2. pc[p] \in {"confirm", "batch"} /\ r.kind = "enroll"
    BY <1>1, <1>2, <1>6 DEF confirm, issue_batch, Path
  <2>3. Past(pc[p], r)
    BY <2>2 DEF Past
  <2> QED
    BY <2>1, <2>3, <1>1, MoveForgets
<1>7. CASE finalize_login(p) \/ finish_enroll(p)
  <2>1. PICK z : z = [r EXCEPT !.res = "session"]
    OBVIOUS
  <2>2. Goto(p, "commit", z) /\ Frame /\ pc[p] \in {"create", "finish"}
    BY <2>1, <1>1, <1>7 DEF finalize_login, finish_enroll
  <2>3. /\ z.kind = r.kind /\ z.flow = r.flow /\ z.user = r.user /\ z.proof = r.proof
    BY <2>1, <1>2 DEF Request
  <2>4. /\ pc[p] = "create" => r.kind \in {"totp", "verify"}
        /\ pc[p] = "finish" => r.kind = "enroll"
    BY <1>2 DEF Path
  <2>5. Past("commit", z) => Past(pc[p], r)
    BY <2>2, <2>3, <2>4 DEF Past
  <2>6. Mark(z) = Mark(r)
    BY <2>3 DEF Mark
  <2> QED
    BY <2>2, <2>5, <2>6, <1>1, MoveForgets
<1> QED
  BY <1>3, <1>4, <1>5, <1>6, <1>7

(* Administrators and the clock: a reset, or nothing that SignIn knows of.    *)
LEMMA EnvironmentMaps == ASSUME LInv, Environment PROVE SignInTables!SignInNext
<1>1. ASSUME UNCHANGED <<pc, req>> PROVE Checked' = Checked
  BY <1>1 DEF Checked
<1>2. ASSUME NEW u \in User, patch_tier(u) \/ patch_status(u) PROVE SignInTables!SignInNext
  <2>1. UNCHANGED <<pc, req, proved, totp, unused, spent, flow, met, sess>>
    BY <1>2 DEF patch_tier, patch_status, Change, hist
  <2> QED
    BY <2>1, <1>1, StepForgets
<1>3. ASSUME NEW f \in Flow, expire_flow(f) PROVE SignInTables!SignInNext
  <2>1. UNCHANGED <<pc, req, proved, totp, unused, spent, flow, met, sess>>
    BY <1>3 DEF expire_flow, Change, hist
  <2> QED
    BY <2>1, <1>1, StepForgets
<1>4. ASSUME NEW u \in User, reset_totp(u) PROVE SignInTables!SignInNext
  <2>1. /\ UNCHANGED <<pc, req, proved, spent, flow, met, sess>>
        /\ totp' = [totp EXCEPT ![u] = None] /\ unused' = [unused EXCEPT ![u] = {}]
    BY <1>4 DEF reset_totp, Change
  <2>2. ChallengesNow' = ChallengesNow /\ Redeemed' = Redeemed
    <3>1. \A f \in Flow : Asked(f)' = Asked(f)
      BY <2>1 DEF Asked
    <3> QED
      BY <3>1, <2>1 DEF ChallengesNow, Redeemed
  <2>3. SignInTables!Reset(u)
    BY <2>1, <2>2, <1>1 DEF SignInTables!Reset, ChallengesNow, Redeemed
  <2> QED
    BY <2>3 DEF SignInTables!SignInNext
<1> QED
  BY <1>2, <1>3, <1>4 DEF Environment

-----------------------------------------------------------------------------
(* A commit is one step of SignIn.                                         *)

(* The challenges after a commit.                                             *)
LEMMA CommitAsked ==
    ASSUME LInv, NEW p \in Req, Commit(p), NEW r, NEW w, r = req[p], w = wr[p], NEW x \in Flow
    PROVE  Asked(x)' = IF x = r.flow /\ w.delF THEN None
                       ELSE IF x = r.flow /\ flow[x] # None /\ "chal" \in DOMAIN w.set
                       THEN w.set["chal"] ELSE Asked(x)
<1>1. /\ Typed("commit", r, w) /\ Path("commit", r) /\ Pending("commit", r, w)
      /\ SetOK("commit", r, w) /\ ProofHeld("commit", r, w) /\ FlowHeld("commit", r, w)
  BY CommitNow
<1>2. flow'[x] = IF x = w.newF THEN NewFlow
                 ELSE IF x = r.flow /\ w.delF THEN None
                 ELSE IF x = r.flow /\ flow[x] # None THEN Patch(flow[x], w.set)
                 ELSE flow[x]
  BY DEF Commit
<1>3. CASE x = w.newF
  <2>1. flow[x] = None
    BY <1>1, <1>3, NoneAssumption DEF FlowHeld
  <2>2. flow'[x].chal = None
    BY <1>2, <1>3 DEF NewFlow
  <2> QED
    BY <2>1, <2>2 DEF Asked
<1>4. CASE x # w.newF /\ x = r.flow /\ w.delF
  BY <1>2, <1>4 DEF Asked
<1>5. CASE x # w.newF /\ (x # r.flow \/ flow[x] = None) /\ ~(x = r.flow /\ w.delF)
  BY <1>2, <1>5 DEF Asked
<1>6. CASE x # w.newF /\ x = r.flow /\ ~w.delF /\ flow[x] # None
  <2>1. PICK z : z = Patch(flow[x], w.set)
    OBVIOUS
  <2>2. flow'[x] = z /\ flow[x] \in FlowRow
    BY <2>1, <1>2, <1>6 DEF LInv, Stored, TypeOK
  <2>3. /\ DOMAIN w.set \subseteq Cols
        /\ "stage" \in DOMAIN w.set => w.set["stage"] \in {"totp", "webauthn"}
        /\ "user" \in DOMAIN w.set => w.set["user"] \in User /\ w.set["user"] = r.user
        /\ "stage" \in DOMAIN w.set <=> "user" \in DOMAIN w.set
        /\ "chal" \in DOMAIN w.set => w.set["chal"] \in Challenge \cup {None}
        /\ "done" \in DOMAIN w.set => w.set["done"] \in Session /\ w.set["done"] = w.s
        /\ "recovery" \in DOMAIN w.set => w.set["recovery"] = TRUE
    BY <1>1 DEF Typed, Path, SetOK, ProofHeld
  <2>4. /\ z \in FlowRow
        /\ z.chal = IF "chal" \in DOMAIN w.set THEN w.set["chal"] ELSE flow[x].chal
    <3>1. PICK row, upd : row = flow[x] /\ upd = w.set
      OBVIOUS
    <3>2. /\ Patch(row, upd) \in FlowRow
          /\ Patch(row, upd).chal = IF "chal" \in DOMAIN upd THEN upd["chal"] ELSE row.chal
      BY <3>1, <2>2, <2>3, PatchRow
    <3> QED
      BY <3>1, <3>2, <2>1
  <2>5. flow'[x] # None
    BY <2>2, <2>4, RowAssumption
  <2> QED
    BY <2>2, <2>4, <2>5, <1>6 DEF Asked
<1> QED
  BY <1>3, <1>4, <1>5, <1>6

(* What each kind of request leaves alone.                                    *)
LEMMA CommitLeaves ==
    ASSUME LInv, NEW p \in Req, Commit(p), NEW r, NEW w, r = req[p], w = wr[p]
    PROVE  /\ Checked' \subseteq Checked
           /\ r.kind # "login" => proved' = proved
           /\ r.kind \notin {"enrollForm", "enroll", "recovery"} => totp' = totp
           /\ r.kind \notin {"enroll", "recovery"} => unused' = unused
           /\ Redeemed' = Redeemed \cup w.used
           /\ r.kind # "recovery" => Redeemed' = Redeemed
           /\ r.kind \notin {"form", "options", "verify", "enroll"} =>
                ChallengesNow' = ChallengesNow
           /\ r.kind # "verify" => met' = met
           /\ r.kind \notin {"totp", "verify", "enroll"} \/ w.s = None => sess' = sess
<1>1. /\ Typed("commit", r, w) /\ Path("commit", r) /\ Pending("commit", r, w)
      /\ SetOK("commit", r, w) /\ ProofHeld("commit", r, w) /\ FlowHeld("commit", r, w)
      /\ CodesHeld("commit", r, w)
  BY CommitNow
<1>2. Checked' \subseteq Checked
  <2>1. ~Past("free", NoReq)
    BY DEF Past, NoReq
  <2> QED
    BY <2>1, ForgetsOnly DEF Commit, End
<1>3. r.kind # "login" => proved' = proved
  BY <1>1 DEF Commit, SetOK
<1>4. r.kind \notin {"enrollForm", "enroll", "recovery"} => totp' = totp
  <2>1. r.kind \notin {"enrollForm", "enroll", "recovery"} => w.t = "keep"
    BY <1>1 DEF Pending, Typed
  <2> QED
    BY <2>1 DEF Commit
<1>5. r.kind \notin {"enroll", "recovery"} => unused' = unused
  <2>1. r.kind \notin {"enroll", "recovery"} => w.used = {} /\ w.del = {} /\ w.new = {}
    BY <1>1 DEF Pending
  <2>2. \A u \in User : u # r.user => unused'[u] = unused[u]
    BY CommitCodes
  <2>3. r.user \in User => unused'[r.user] = (unused[r.user] \ (w.used \cup w.del)) \cup w.new
    BY CommitCodes
  <2>4. unused' \in [User -> SUBSET Code] /\ unused \in [User -> SUBSET Code]
    BY CommitCodes DEF LInv, Stored, TypeOK
  <2>5. r.kind \notin {"enroll", "recovery"} => \A u \in User : unused'[u] = unused[u]
    BY <2>1, <2>2, <2>3, <2>4
  <2> QED
    BY <2>4, <2>5
<1>6. Redeemed' = Redeemed \cup w.used
  <2>1. \A c \in Code : spent'[c] = IF c \in w.used THEN spent[c] + 1 ELSE spent[c]
    BY CommitCodes
  <2>2. w.used \subseteq Code /\ \A c \in Code : spent[c] \in Nat
    BY <1>1 DEF Typed, LInv, Stored, TypeOK
  <2> QED
    BY <2>1, <2>2 DEF Redeemed
<1>7. r.kind # "recovery" => Redeemed' = Redeemed
  BY <1>1, <1>6 DEF Pending
<1>8. r.kind \notin {"form", "options", "verify", "enroll"} =>
        ChallengesNow' = ChallengesNow
  <2>1. r.kind \notin {"form", "options", "verify", "enroll"} =>
          ~w.delF /\ "chal" \notin DOMAIN w.set
    BY <1>1 DEF Pending, SetOK
  <2>2. r.kind \notin {"form", "options", "verify", "enroll"} =>
          \A x \in Flow : Asked(x)' = Asked(x)
    BY <2>1, CommitAsked
  <2> QED
    BY <2>2 DEF ChallengesNow
<1>9. r.kind # "verify" => met' = met
  BY CommitMet
<1>10. r.kind \notin {"totp", "verify", "enroll"} \/ w.s = None => sess' = sess
  <2>1. r.kind \notin {"totp", "verify", "enroll"} => w.s = None
    BY <1>1 DEF Pending, Path
  <2> QED
    BY <2>1 DEF Commit
<1> QED
  BY <1>2, <1>3, <1>4, <1>5, <1>6, <1>7, <1>8, <1>9, <1>10

(* The session of a commit is new and follows the password.                   *)
LEMMA CommitOpens ==
    ASSUME LInv, SessionsNew, NEW p \in Req, Commit(p), NEW r, NEW w, r = req[p], w = wr[p],
           w.s # None
    PROVE  /\ w.s \in Session /\ r.flow \in Flow /\ r.user \in User
           /\ SignInTables!Opens(w.s, r.flow, r.user, r.proof, r.kind)
           /\ r.kind \in {"totp", "verify"} =>
                SignInTables!Completes(w.s, r.flow, r.user, r.proof, r.kind)
<1>1. /\ Typed("commit", r, w) /\ Path("commit", r) /\ Pending("commit", r, w)
      /\ FlowHeld("commit", r, w)
  BY CommitNow
<1>2. /\ w.s \in Session /\ r.kind \in {"totp", "verify", "enroll"} /\ w.row = Row(r)
      /\ r.flow \in Flow /\ r.user \in User /\ <<r.flow, r.user>> \in proved
      /\ r.tier \in {"standard", "admin"}
  BY <1>1 DEF Typed, Path, Pending, FlowHeld, Request
<1>3. sess[w.s] = None
  BY DEF SessionsNew, Ready
<1>4. sess' = [sess EXCEPT ![w.s] = Row(r)]
  BY <1>2 DEF Commit
<1>5. SignInTables!Opens(w.s, r.flow, r.user, r.proof, r.kind)
  BY <1>2, <1>3, <1>4 DEF SignInTables!Opens, Row
<1>6. ASSUME r.kind \in {"totp", "verify"}, NEW v \in Session
      PROVE  sess[v] = None \/ sess[v].flow # r.flow \/ sess[v].by \notin {"totp", "verify"}
  <2>1. flow[r.flow] # None /\ flow[r.flow].done = None
    BY <1>1, <1>2, <1>6 DEF Pending, FlowHeld
  <2>2. v # None
    BY NoneAssumption
  <2> QED
    BY <2>1, <2>2 DEF LInv, Stored, SessionsStored, Rows
<1> QED
  BY <1>2, <1>5, <1>6 DEF SignInTables!Completes

(* The kinds that write one thing.                                            *)
LEMMA CommitPlain ==
    ASSUME LInv, SessionsNew, NEW p \in Req, Commit(p),
           req[p].kind \in {"form", "login", "totp", "enrollForm", "options"}
    PROVE  SignInTables!SignInNext
<1>1. PICK r, w : r = req[p] /\ w = wr[p]
  OBVIOUS
<1>2. /\ Typed("commit", r, w) /\ Path("commit", r) /\ Pending("commit", r, w)
      /\ SetOK("commit", r, w) /\ ProofHeld("commit", r, w) /\ FlowHeld("commit", r, w)
      /\ TotpHeld("commit", r, w)
  BY <1>1, CommitNow
<1>3. PICK f, u : f = r.flow /\ u = r.user
  OBVIOUS
<1>4. r.kind # "form" => f \in Flow /\ u \in User
  BY <1>1, <1>2, <1>3 DEF Path
<1> USE DEF SignInTables!Forgets
<1>5. CASE r.kind = "form"
  <2>1. /\ UNCHANGED <<proved, totp, unused, met, sess, Redeemed>> /\ Checked' \subseteq Checked
    BY <1>1, <1>5, CommitLeaves
  <2>2. "chal" \notin DOMAIN w.set
    BY <1>2, <1>5 DEF SetOK
  <2>3. CASE w.delF
    <3>1. f \in Flow
      BY <2>3, <1>2, <1>3 DEF Pending, Typed
    <3>2. \A x \in Flow : Asked(x)' = IF x = f THEN None ELSE Asked(x)
      BY <2>2, <2>3, <1>1, <1>3, CommitAsked
    <3>3. ChallengesNow' = [ChallengesNow EXCEPT ![f] = None]
      BY <3>2 DEF ChallengesNow
    <3>4. SignInTables!Abandon(f)
      BY <2>1, <3>3 DEF SignInTables!Abandon, ChallengesNow, Redeemed
    <3> QED
      BY <3>1, <3>4 DEF SignInTables!SignInNext
  <2>4. CASE ~w.delF
    <3>1. \A x \in Flow : Asked(x)' = Asked(x)
      BY <2>2, <2>4, <1>1, CommitAsked
    <3>2. ChallengesNow' = ChallengesNow
      BY <3>1 DEF ChallengesNow
    <3>3. SignInTables!Forget
      BY <2>1, <3>2 DEF SignInTables!Forget, ChallengesNow, Redeemed
    <3> QED
      BY <3>3 DEF SignInTables!SignInNext
  <2> QED
    BY <2>3, <2>4
<1>6. CASE r.kind = "login"
  <2>1. /\ UNCHANGED <<totp, unused, met, sess, Redeemed, ChallengesNow>>
        /\ Checked' \subseteq Checked
    BY <1>1, <1>6, CommitLeaves
  <2>2. proved' = proved \/ proved' = proved \cup {<<f, u>>}
    BY <1>1, <1>3 DEF Commit
  <2>3. CASE proved' = proved
    <3>1. SignInTables!Forget
      BY <2>1, <2>3 DEF SignInTables!Forget, ChallengesNow, Redeemed
    <3> QED
      BY <3>1 DEF SignInTables!SignInNext
  <2>4. CASE proved' = proved \cup {<<f, u>>}
    <3>1. SignInTables!AcceptPassword(f, u)
      BY <2>1, <2>4 DEF SignInTables!AcceptPassword, ChallengesNow, Redeemed
    <3> QED
      BY <3>1, <1>4, <1>6 DEF SignInTables!SignInNext
  <2> QED
    BY <2>2, <2>3, <2>4
<1>7. CASE r.kind = "totp"
  <2>1. /\ UNCHANGED <<proved, totp, unused, met, Redeemed, ChallengesNow>>
        /\ Checked' \subseteq Checked /\ (w.s = None => sess' = sess)
    BY <1>1, <1>7, CommitLeaves
  <2>2. CASE w.s = None
    <3>1. SignInTables!Forget
      BY <2>1, <2>2 DEF SignInTables!Forget, ChallengesNow, Redeemed
    <3> QED
      BY <3>1 DEF SignInTables!SignInNext
  <2>3. CASE w.s # None
    <3>1. /\ w.s \in Session
          /\ SignInTables!Completes(w.s, f, u, r.proof, "totp")
      BY <2>3, <1>1, <1>3, <1>7, CommitOpens
    <3>2. r.proof \in Secret
      BY <2>3, <1>2, <1>7 DEF Pending, ProofHeld
    <3>3. Mark(r) \in Checked
      <4>1. Past(pc[p], req[p])
        BY <1>1, <1>7 DEF Past, Commit
      <4> QED
        BY <4>1, <1>1, CheckedIs
    <3>4. SignInTables!Shown(f, u, r.proof, "totp") \in Checked
      BY <3>3, <1>3, <1>7 DEF Mark, SignInTables!Shown
    <3>5. SignInTables!LogIn(w.s, f, u, r.proof)
      BY <2>1, <3>1, <3>4 DEF SignInTables!LogIn, ChallengesNow, Redeemed
    <3> QED
      BY <3>1, <3>2, <3>5, <1>4, <1>7 DEF SignInTables!SignInNext
  <2> QED
    BY <2>2, <2>3
<1>8. CASE r.kind = "enrollForm"
  <2>1. /\ UNCHANGED <<proved, unused, met, sess, Redeemed, ChallengesNow>>
        /\ Checked' \subseteq Checked
    BY <1>1, <1>8, CommitLeaves
  <2>2. w.t \in {"keep", "insert"} /\ (w.t = "insert" => w.secret \in Secret)
    BY <1>2, <1>8 DEF Pending, Typed
  <2>3. totp' = IF w.t = "keep" THEN totp ELSE [totp EXCEPT ![u] = TotpAfter(totp[u], w)]
    BY <1>1, <1>3 DEF Commit
  <2>4. CASE w.t = "keep"
    <3>1. SignInTables!Forget
      BY <2>1, <2>3, <2>4 DEF SignInTables!Forget, ChallengesNow, Redeemed
    <3> QED
      BY <3>1 DEF SignInTables!SignInNext
  <2>5. CASE w.t = "insert"
    <3>1. totp' = [totp EXCEPT ![u] = [secret |-> w.secret, confirmed |-> FALSE]]
      BY <2>3, <2>5 DEF TotpAfter
    <3>2. <<f, u>> \in proved
      BY <1>2, <1>3, <1>8 DEF FlowHeld
    <3>3. \A v \in User : totp[v] # None => totp[v].secret # w.secret
      BY <2>5, <1>2 DEF TotpHeld
    <3>4. SignInTables!Offer(f, u, w.secret)
      BY <2>1, <3>1, <3>2, <3>3 DEF SignInTables!Offer, ChallengesNow, Redeemed
    <3> QED
      BY <2>2, <2>5, <3>4, <1>4, <1>8 DEF SignInTables!SignInNext
  <2> QED
    BY <2>2, <2>4, <2>5
<1>9. CASE r.kind = "options"
  <2>1. /\ UNCHANGED <<proved, totp, unused, met, sess, Redeemed>> /\ Checked' \subseteq Checked
    BY <1>1, <1>9, CommitLeaves
  <2>2. ~w.delF /\ flow[f] # None /\ <<f, u>> \in proved
    BY <1>2, <1>3, <1>9 DEF Pending, FlowHeld
  <2>3. CASE "chal" \notin DOMAIN w.set
    <3>1. \A x \in Flow : Asked(x)' = Asked(x)
      BY <2>2, <2>3, <1>1, CommitAsked
    <3>2. ChallengesNow' = ChallengesNow
      BY <3>1 DEF ChallengesNow
    <3>3. SignInTables!Forget
      BY <2>1, <3>2 DEF SignInTables!Forget, ChallengesNow, Redeemed
    <3> QED
      BY <3>3 DEF SignInTables!SignInNext
  <2>4. CASE "chal" \in DOMAIN w.set
    <3>1. PICK k : k = w.set["chal"]
      OBVIOUS
    <3>2. /\ k \in Challenge /\ k \notin met
          /\ \A x \in Flow : flow[x] # None => flow[x].chal # k
      BY <2>4, <3>1, <1>2, <1>9 DEF ProofHeld
    <3>3. k # None
      BY <3>2, NoneAssumption
    <3>4. \A x \in Flow : Asked(x) # k
      BY <3>2, <3>3 DEF Asked
    <3>5. \A x \in Flow : Asked(x)' = IF x = f THEN k ELSE Asked(x)
      BY <2>2, <2>4, <3>1, <1>1, <1>3, CommitAsked
    <3>6. ChallengesNow' = [ChallengesNow EXCEPT ![f] = k]
      BY <3>5 DEF ChallengesNow
    <3>7. SignInTables!Ask(f, u, k)
      BY <2>1, <2>2, <3>2, <3>4, <3>6 DEF SignInTables!Ask, ChallengesNow, Redeemed
    <3> QED
      BY <3>2, <3>7, <1>4, <1>9 DEF SignInTables!SignInNext
  <2> QED
    BY <2>3, <2>4
<1> QED
  BY <1>1, <1>5, <1>6, <1>7, <1>8, <1>9

(* An assertion uses its challenge up, whatever it is worth.                  *)
LEMMA CommitAnswers ==
    ASSUME LInv, SessionsNew, NEW p \in Req, Commit(p), req[p].kind = "verify"
    PROVE  SignInTables!SignInNext
<1>1. PICK r, w : r = req[p] /\ w = wr[p]
  OBVIOUS
<1>2. /\ Typed("commit", r, w) /\ Path("commit", r) /\ Pending("commit", r, w)
      /\ SetOK("commit", r, w) /\ ProofHeld("commit", r, w) /\ FlowHeld("commit", r, w)
  BY <1>1, CommitNow
<1>3. PICK f, u : f = r.flow /\ u = r.user
  OBVIOUS
<1>4. /\ f \in Flow /\ u \in User /\ flow[f] # None /\ r.proof = flow[f].chal /\ ~w.delF
      /\ "chal" \in DOMAIN w.set /\ w.set["chal"] = None
  BY <1>1, <1>2, <1>3 DEF Path, Pending, SetOK, FlowHeld, ProofHeld
<1>5. /\ UNCHANGED <<proved, totp, unused, Redeemed>> /\ Checked' \subseteq Checked
      /\ w.s = None => sess' = sess
  BY <1>1, CommitLeaves
<1>6. met' = met \cup ({r.proof} \cap Challenge)
  BY <1>1 DEF Commit
<1>7. \A x \in Flow : Asked(x)' = IF x = f THEN None ELSE Asked(x)
  BY <1>1, <1>3, <1>4, CommitAsked
<1>8. Asked(f) = r.proof /\ r.proof \in Challenge \cup {None}
  BY <1>4 DEF Asked, LInv, Stored, TypeOK, FlowRow
<1> USE DEF SignInTables!Forgets
<1>9. CASE r.proof = None
  <2>1. w.s = None
    BY <1>2, <1>9 DEF Pending, ProofHeld
  <2>2. ChallengesNow' = ChallengesNow
    BY <1>7, <1>8, <1>9 DEF ChallengesNow
  <2>3. met' = met
    BY <1>6, <1>9, NoneAssumption
  <2>4. SignInTables!Forget
    BY <1>5, <2>1, <2>2, <2>3 DEF SignInTables!Forget, ChallengesNow, Redeemed
  <2> QED
    BY <2>4 DEF SignInTables!SignInNext
<1>10. CASE r.proof # None
  <2>1. ChallengesNow' = [ChallengesNow EXCEPT ![f] = None]
    BY <1>7 DEF ChallengesNow
  <2>2. ChallengesNow[f] = r.proof
    BY <1>4, <1>8 DEF ChallengesNow
  <2>3. r.proof \notin met
    BY <1>4, <1>10 DEF LInv, Stored, FlowsStored
  <2>4. met' = met \cup {r.proof}
    BY <1>6, <1>8, <1>10
  <2>5. \/ sess' = sess
        \/ \E s \in Session, v \in User : SignInTables!Completes(s, f, v, r.proof, "verify")
    <3>1. CASE w.s = None
      BY <3>1, <1>5
    <3>2. CASE w.s # None
      <4>1. /\ w.s \in Session
            /\ SignInTables!Completes(w.s, f, u, r.proof, "verify")
        BY <3>2, <1>1, <1>3, CommitOpens
      <4> QED
        BY <4>1, <1>4
    <3> QED
      BY <3>1, <3>2
  <2>6. SignInTables!Answer(f)
    BY <1>5, <1>10, <2>1, <2>2, <2>3, <2>4, <2>5
       DEF SignInTables!Answer, ChallengesNow, Redeemed
  <2> QED
    BY <2>6, <1>4 DEF SignInTables!SignInNext
<1> QED
  BY <1>9, <1>10

(* An enrollment confirms, replaces the codes and opens its session at once.  *)
LEMMA CommitEnrolls ==
    ASSUME LInv, SessionsNew, NEW p \in Req, Commit(p), req[p].kind = "enroll"
    PROVE  SignInTables!SignInNext
<1>1. PICK r, w : r = req[p] /\ w = wr[p]
  OBVIOUS
<1>2. /\ Typed("commit", r, w) /\ Path("commit", r) /\ Pending("commit", r, w)
      /\ ProofHeld("commit", r, w) /\ TotpHeld("commit", r, w) /\ CodesHeld("commit", r, w)
  BY <1>1, CommitNow
<1>3. PICK f, u : f = r.flow /\ u = r.user
  OBVIOUS
<1>4. w.new \in Batch /\ w.s # None /\ w.delF
  BY <1>1 DEF SessionsNew, Ready, Commit
<1>5. /\ f \in Flow /\ u \in User /\ w.t = "confirm" /\ totp[u] # None /\ w.used = {}
      /\ unused[u] \subseteq w.del /\ r.proof \in Secret
  BY <1>1, <1>2, <1>3, <1>4 DEF Path, Pending, TotpHeld, CodesHeld, ProofHeld
<1>6. UNCHANGED <<proved, Redeemed, met>> /\ Checked' \subseteq Checked
  BY <1>1, CommitLeaves
<1>7. w.s \in Session /\ SignInTables!Opens(w.s, f, u, r.proof, "enroll")
  BY <1>1, <1>3, <1>4, CommitOpens
<1>8. SignInTables!Shown(f, u, r.proof, "enroll") \in Checked
  <2>1. Past(pc[p], req[p])
    BY DEF Past, Commit
  <2>2. Mark(r) \in Checked
    BY <2>1, <1>1, CheckedIs
  <2> QED
    BY <2>2, <1>1, <1>3 DEF Mark, SignInTables!Shown
<1>9. totp' = [totp EXCEPT ![u].confirmed = TRUE]
  <2>1. totp' = [totp EXCEPT ![u] = [totp[u] EXCEPT !.confirmed = TRUE]]
    BY <1>1, <1>3, <1>5 DEF Commit, TotpAfter
  <2> QED
    BY <2>1
<1>10. unused' = [unused EXCEPT ![u] = w.new]
  <2>1. /\ \A v \in User : v # u => unused'[v] = unused[v]
        /\ unused'[u] = (unused[u] \ (w.used \cup w.del)) \cup w.new
        /\ unused' \in [User -> SUBSET Code]
    BY <1>1, <1>3, <1>5, CommitCodes
  <2>2. unused'[u] = w.new
    BY <2>1, <1>5
  <2>3. unused \in [User -> SUBSET Code]
    BY DEF LInv, Stored, TypeOK
  <2> QED
    BY <2>1, <2>2, <2>3
<1>11. ChallengesNow' = [ChallengesNow EXCEPT ![f] = None]
  <2>1. "chal" \notin DOMAIN w.set
    BY <1>1, <1>2 DEF Pending, SetOK
  <2>2. \A x \in Flow : Asked(x)' = IF x = f THEN None ELSE Asked(x)
    BY <2>1, <1>1, <1>3, <1>4, CommitAsked
  <2> QED
    BY <2>2 DEF ChallengesNow
<1>12. w.new \cap Redeemed = {} /\ \A v \in User : w.new \cap unused[v] = {}
  BY <1>2 DEF CodesHeld, Redeemed
<1>13. SignInTables!Enroll(w.s, f, u, r.proof, w.new)
  BY <1>5, <1>6, <1>7, <1>8, <1>9, <1>10, <1>11, <1>12
     DEF SignInTables!Enroll, SignInTables!Forgets, ChallengesNow, Redeemed
<1> QED
  BY <1>4, <1>5, <1>7, <1>13 DEF SignInTables!SignInNext

(* A recovery uses its code up and gives the authenticator up.                *)
LEMMA CommitRecovers ==
    ASSUME LInv, SessionsNew, NEW p \in Req, Commit(p), req[p].kind = "recovery"
    PROVE  SignInTables!SignInNext
<1>1. PICK r, w : r = req[p] /\ w = wr[p]
  OBVIOUS
<1>2. /\ Typed("commit", r, w) /\ Path("commit", r) /\ Pending("commit", r, w)
      /\ FlowHeld("commit", r, w) /\ CodesHeld("commit", r, w)
  BY <1>1, CommitNow
<1>3. PICK f, u, c : f = r.flow /\ u = r.user /\ c = r.code
  OBVIOUS
<1>4. w.used = {c}
  BY <1>1, <1>3 DEF SessionsNew, Ready, Commit
<1>5. /\ f \in Flow /\ u \in User /\ c \in Code /\ c \in unused[u] /\ <<f, u>> \in proved
      /\ w.del = {} /\ w.new = {} /\ w.t \in {"keep", "delete"}
  BY <1>1, <1>2, <1>3, <1>4 DEF Typed, Path, Pending, FlowHeld, CodesHeld
<1>6. /\ UNCHANGED <<proved, ChallengesNow, met, sess>> /\ Checked' \subseteq Checked
      /\ Redeemed' = Redeemed \cup {c}
  BY <1>1, <1>4, CommitLeaves
<1>7. unused' = [unused EXCEPT ![u] = unused[u] \ {c}]
  <2>1. /\ \A v \in User : v # u => unused'[v] = unused[v]
        /\ unused'[u] = (unused[u] \ (w.used \cup w.del)) \cup w.new
        /\ unused' \in [User -> SUBSET Code]
    BY <1>1, <1>3, <1>5, CommitCodes
  <2>2. unused'[u] = unused[u] \ {c}
    BY <2>1, <1>4, <1>5
  <2>3. unused \in [User -> SUBSET Code]
    BY DEF LInv, Stored, TypeOK
  <2> QED
    BY <2>1, <2>2, <2>3
<1>8. c \notin Redeemed
  BY <1>5 DEF Redeemed, LInv, Stored, CodesStored
<1>9. totp' \in {totp, [totp EXCEPT ![u] = None]}
  BY <1>1, <1>3, <1>5 DEF Commit, TotpAfter
<1>10. SignInTables!Recover(f, u, c)
  BY <1>5, <1>6, <1>7, <1>8, <1>9
     DEF SignInTables!Recover, SignInTables!Forgets, ChallengesNow, Redeemed
<1> QED
  BY <1>5, <1>10 DEF SignInTables!SignInNext

(* Every step is a step of SignIn or changes nothing it speaks of.            *)
LEMMA NextSignsIn ==
    ASSUME LInv, SessionsNew, [Next]_vars
    PROVE  [SignInTables!SignInNext]_SignInTables!signInVars
<1>1. CASE UNCHANGED vars
  <2>1. UNCHANGED <<proved, totp, unused, spent, flow, met, sess, pc, req>>
    BY <1>1 DEF vars, tables, hist
  <2>2. Checked' = Checked
    BY <2>1 DEF Checked
  <2> QED
    BY <2>1, <2>2, StepForgets
<1>2. ASSUME NEW p \in Req, Commit(p) PROVE SignInTables!SignInNext
  <2>1. req[p].kind \in Kinds \ {"none"}
    BY <1>2, AloneNow DEF Commit, Typed, Path, Request
  <2> QED
    BY <1>2, <2>1, CommitPlain, CommitAnswers, CommitEnrolls, CommitRecovers DEF Kinds
<1>3. ASSUME NEW p \in Req, resume_completed_login(p) PROVE SignInTables!SignInNext
  <2>1. Goto(p, "free", NoReq) /\ UNCHANGED <<proved, totp, unused, spent, flow, met, sess>>
    BY <1>3 DEF resume_completed_login, End, hist
  <2>2. ~Past("free", NoReq)
    BY DEF Past, NoReq
  <2> QED
    BY <2>1, <2>2, ForgetsOnly, StepForgets
<1>4. ASSUME NEW p \in Req, Step(p) PROVE SignInTables!SignInNext
  BY <1>2, <1>3, <1>4, WorkForgets, CheckShows, RefuseForgets DEF Step, Abort
<1> QED
  BY <1>1, <1>4, ArriveForgets, EnvironmentMaps DEF Next

(* The sessions a request inserts are new, and what commits is complete       *)
(* (finalize_login, finish_enroll, recovery.consume, issue_batch).            *)
THEOREM SessionsAreNew == Spec => []SessionsNew
<1>1. LInv /\ SessionsNew /\ [Next]_vars => SessionsNew'
  BY NextReady
<1> QED
  BY InitReady, LoginCorrect, <1>1, PTL DEF Spec

(* The handlers of the login flow, with their statements, row locks, aborts   *)
(* and every interleaving of them, implement SignIn: each request takes       *)
(* effect in one step or not at all, a session follows both factors of its    *)
(* user, a flow completes once, a batch replaces all codes and a code or a    *)
(* challenge is used up where it is redeemed (idp/web/routes.py,              *)
(* webauthn_routes.py, security/recovery.py).                                 *)
THEOREM LoginImplementsSignIn == Spec => ImplementsSignIn
<1>1. Init => SignInTables!SignInInit
  <2> SUFFICES ASSUME Init PROVE SignInTables!SignInInit
    OBVIOUS
  <2>1. \A q \in Req : ~Past(pc[q], req[q])
    BY DEF Init, Past, NoReq
  <2>2. Checked = {}
    BY <2>1, CheckedIs
  <2>3. Redeemed = {} /\ ChallengesNow = [f \in Flow |-> None]
    BY DEF Init, Redeemed, ChallengesNow, Asked
  <2> QED
    BY <2>2, <2>3 DEF Init, SignInTables!SignInInit, Redeemed, ChallengesNow
<1>2. LInv /\ SessionsNew /\ [Next]_vars => [SignInTables!SignInNext]_SignInTables!signInVars
  BY NextSignsIn
<1> QED
  BY <1>1, <1>2, LoginCorrect, SessionsAreNew, PTL
     DEF Spec, ImplementsSignIn, SignInTables!SignInSpec
=============================================================================
