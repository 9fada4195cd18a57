------------------------ MODULE TokenServices_proof -------------------------
(* What the services around the OIDC tokens promise, for any number of keys,  *)
(* operators, proofs, login states and callbacks: the life of the signing     *)
(* keys (SigningKeys), the DPoP replay cache (DpopReplay) and the gateway's   *)
(* callback (GatewayLogin).  They share no state: each has its own part here. *)
EXTENDS SigningKeys, DpopReplay, GatewayLogin, FiniteSetTheorems, TLAPS

-----------------------------------------------------------------------------
(* Signing keys.                                                           *)

Committing(o) == op[o].pc = "commit"

(* An activation has picked a key before it goes on; the index lets one     *)
(* transaction at a time have an uncommitted active row, and that one has   *)
(* demoted every active key but the one it promotes.                        *)
ActivationOK ==
    /\ \A o \in Operator : op[o] # NoOp /\ op[o].pc # "pick" => op[o].pick \in Key
    /\ \A o, p \in Operator : Committing(o) /\ Committing(p) => o = p
    /\ \A o \in Operator : Committing(o) => Active \subseteq op[o].hits \cup {op[o].pick}
    /\ \E k \in Key : Active = {k}

(* A command commits within MaxLag of its clock reading; a token expires within *)
(* AccessTTL of now and, if its key is retiring, within the buffer.             *)
TokensOK ==
    /\ \A o \in Operator : op[o] # NoOp => clock <= op[o].now + MaxLag
    /\ \A t \in tokens :
          /\ t.exp <= clock + AccessTTL
          /\ keys[t.kid].st = "retiring" => t.exp <= keys[t.kid].at + RetireBuffer
          /\ t.exp > clock => keys[t.kid].st \in {"active", "retiring"}

KeyInv == KeyTypeOK /\ ActivationOK /\ TokensOK

(* A command's record is of one of the two shapes. *)
LEMMA OpShape ==
    ASSUME KeyTypeOK, NEW o \in Operator
    PROVE  /\ op[o] \in Ops /\ op \in [Operator -> Ops]
           /\ op[o] = NoOp <=> op[o].pc = "idle"
           /\ op[o] # NoOp =>
                /\ op[o].now \in 0 .. MaxClock /\ op[o].pick \in 0 .. MaxKeys
                /\ op[o].hits \in SUBSET Key /\ op[o].seen \in SUBSET Key
                /\ op[o] \in [pc : {"pick", "demote", "wait", "promote", "commit"},
                              now : 0 .. MaxClock, pick : 0 .. MaxKeys,
                              seen : SUBSET Key, hits : SUBSET Key]
BY DEF KeyTypeOK, Ops, NoOp

(* The key that bootstrap_if_empty created is the active one. *)
LEMMA InitKeys == KeyInit => KeyInv
<1> SUFFICES ASSUME KeyInit PROVE KeyInv
  OBVIOUS
<1> USE DEF KeyInit
<1>1. 1 \in Key
  BY KeyAssumption DEF Key
<1>2. KeyTypeOK
  BY KeyAssumption DEF KeyTypeOK, KeyRow, Ops
<1>3. Active = {1}
  BY <1>1 DEF Active
<1>4. ActivationOK
  BY <1>1, <1>3 DEF ActivationOK, Committing, NoOp
<1>5. TokensOK
  BY DEF TokensOK
<1> QED
  BY <1>2, <1>4, <1>5 DEF KeyInv

(* A command's own step, short of its commit, moves one record and no key. *)
LEMMA OpStep ==
    ASSUME KeyInv, NEW o \in Operator, NEW rec \in Ops,
           op' = [op EXCEPT ![o] = rec], UNCHANGED <<clock, keys, tokens>>,
           rec # NoOp => /\ clock <= rec.now + MaxLag
                         /\ rec.pc # "pick" => rec.pick \in Key,
           rec.pc = "commit" => /\ \A p \in Operator \ {o} : ~Committing(p)
                                /\ Active \subseteq rec.hits \cup {rec.pick}
    PROVE  KeyInv'
<1> USE DEF KeyInv
<1>0. op \in [Operator -> Ops] /\ \A p \in Operator : op'[p] = IF p = o THEN rec ELSE op[p]
  BY DEF KeyTypeOK
<1>1. KeyTypeOK'
  BY <1>0 DEF KeyTypeOK
<1>2. Active' = Active
  BY DEF Active
<1>3. ActivationOK'
  BY <1>0, <1>2 DEF ActivationOK, Committing
<1>4. TokensOK'
  BY <1>0 DEF TokensOK
<1> QED
  BY <1>1, <1>3, <1>4

(* Reading the clock, picking a key, the two halves of the demotion, the        *)
(* promotion and an abort.                                                      *)
LEMMA ActivationKeeps ==
    ASSUME KeyInv, NEW o \in Operator,
           \/ BeginActivate(o) \/ Pick(o) \/ DemoteScan(o) \/ Demote(o) \/ Promote(o)
           \/ AbortActivate(o)
    PROVE  KeyInv'
<1> USE OpShape DEF KeyInv
<1>0. /\ UNCHANGED <<clock, keys, tokens>> /\ op \in [Operator -> Ops] /\ NoOp \in Ops
      /\ clock \in 0 .. MaxClock /\ Active \in SUBSET Key /\ MaxLag \in Nat
  BY KeyAssumption DEF BeginActivate, Pick, DemoteScan, Demote, Promote, AbortActivate,
     KeyTypeOK, Ops, Active
<1>1. CASE op' = [op EXCEPT ![o] = NoOp]
  BY <1>0, <1>1, OpStep DEF NoOp
<1>2. CASE BeginActivate(o)
  <2> DEFINE rec == [pc |-> "pick", now |-> clock, pick |-> 0, seen |-> {}, hits |-> {}]
  <2>1. rec \in Ops /\ rec.pc = "pick" /\ rec.now = clock
    BY <1>0, KeyAssumption DEF Ops
  <2>2. op' = [op EXCEPT ![o] = rec] /\ clock <= clock + MaxLag
    BY <1>0, <1>2 DEF BeginActivate
  <2> HIDE DEF rec
  <2> QED
    BY <1>0, <2>1, <2>2, OpStep
<1>3. ASSUME NEW rec \in Ops, op[o] # NoOp, rec.pc # "idle", rec.now = op[o].now,
             rec.pick \in Key, op' = [op EXCEPT ![o] = rec],
             rec.pc = "commit" => /\ \A p \in Operator \ {o} : ~Committing(p)
                                  /\ Active \subseteq rec.hits \cup {rec.pick}
      PROVE  KeyInv'
  <2>1. clock <= rec.now + MaxLag
    BY <1>3 DEF TokensOK
  <2> QED
    BY <1>0, <1>3, <2>1, OpStep
<1>4. ASSUME op[o] # NoOp, op[o].pc # "pick" PROVE op[o].pick \in Key
  BY <1>4 DEF ActivationOK
<1> PICK r \in Ops : r = op[o]
  OBVIOUS
<1>5. r # NoOp => r \in [pc : {"pick", "demote", "wait", "promote", "commit"},
                         now : 0 .. MaxClock, pick : 0 .. MaxKeys,
                         seen : SUBSET Key, hits : SUBSET Key]
  OBVIOUS
<1>6. CASE Pick(o)
  <2>1. ASSUME NEW k \in Key, op' = [op EXCEPT ![o].pc = "demote", ![o].pick = k]
        PROVE  KeyInv'
    <3> DEFINE rec == [r EXCEPT !.pc = "demote", !.pick = k]
    <3>1. op[o] # NoOp /\ op' = [op EXCEPT ![o] = rec]
      BY <1>0, <1>6, <2>1 DEF Pick, NoOp
    <3>2. k \in 0 .. MaxKeys
      BY KeyAssumption DEF Key
    <3>3. rec \in Ops /\ rec.pc = "demote" /\ rec.now = r.now /\ rec.pick = k
      BY <1>5, <3>1, <3>2 DEF Ops
    <3> HIDE DEF rec
    <3> QED
      BY <1>3, <3>1, <3>3
  <2> QED
    BY <1>1, <1>6, <2>1 DEF Pick
<1>7. CASE DemoteScan(o)
  <2> DEFINE rec == [r EXCEPT !.pc = "wait", !.seen = Active]
  <2>1. op[o] # NoOp /\ op[o].pc = "demote" /\ op' = [op EXCEPT ![o] = rec]
    BY <1>0, <1>7 DEF DemoteScan, NoOp
  <2>2. rec \in Ops /\ rec.pc = "wait" /\ rec.now = r.now /\ rec.pick = r.pick
    BY <1>0, <1>5, <2>1 DEF Ops
  <2> HIDE DEF rec
  <2> QED
    BY <1>3, <1>4, <2>1, <2>2
<1>8. CASE Demote(o)
  <2> DEFINE rec == [r EXCEPT !.pc = "promote", !.hits = r.seen \cap Active]
  <2>1. op[o] # NoOp /\ op[o].pc = "wait" /\ op' = [op EXCEPT ![o] = rec]
    BY <1>0, <1>8 DEF Demote, NoOp
  <2>2. rec \in Ops /\ rec.pc = "promote" /\ rec.now = r.now /\ rec.pick = r.pick
    BY <1>0, <1>5, <2>1 DEF Ops
  <2> HIDE DEF rec
  <2> QED
    BY <1>3, <1>4, <2>1, <2>2
<1>9. CASE Promote(o) /\ IndexAdmits(o)
  <2> DEFINE rec == [r EXCEPT !.pc = "commit"]
  <2>1. op[o] # NoOp /\ op[o].pc = "promote" /\ op' = [op EXCEPT ![o] = rec]
    BY <1>0, <1>9 DEF Promote, NoOp
  <2>2. /\ rec \in Ops /\ rec.pc = "commit" /\ rec.now = r.now /\ rec.pick = r.pick
        /\ rec.hits = r.hits
    BY <1>0, <1>5, <2>1 DEF Ops
  <2>3. /\ \A p \in Operator \ {o} : ~Committing(p)
        /\ Active \subseteq r.hits \cup {r.pick}
    BY <1>9 DEF Promote, Committing, IndexAdmits
  <2> HIDE DEF rec
  <2> QED
    BY <1>3, <1>4, <2>1, <2>2, <2>3
<1>10. CASE Promote(o) /\ ~IndexAdmits(o)
  BY <1>1, <1>10 DEF Promote
<1> QED
  BY <1>1, <1>2, <1>6, <1>7, <1>8, <1>9, <1>10 DEF AbortActivate

(* The commit: the picked key is the only active one, and what it demotes stays *)
(* in the JWKS for as long as a token signed with it lives.                     *)
LEMMA CommitKeeps ==
    ASSUME KeyInv, NEW o \in Operator, CommitActivate(o)
    PROVE  KeyInv'
<1> USE DEF KeyInv
<1> PICK c \in Ops : c = op[o]
  BY OpShape
<1>0. /\ c # NoOp /\ c.pc = "commit" /\ c.pick \in Key /\ c.hits \in SUBSET Key
      /\ c.now \in 0 .. MaxClock /\ clock <= c.now + MaxLag
      /\ Active \subseteq c.hits \cup {c.pick}
      /\ \A p \in Operator \ {o} : ~Committing(p)
      /\ UNCHANGED <<clock, tokens>> /\ op' = [op EXCEPT ![o] = NoOp]
      /\ op \in [Operator -> Ops] /\ NoOp \in Ops /\ keys \in [Key -> KeyRow]
  BY OpShape DEF CommitActivate, NoOp, ActivationOK, TokensOK, Committing, KeyTypeOK, Ops
<1>1. keys' = [k \in Key |->
                  IF k = c.pick
                    THEN [st |-> "active", at |-> IF k \in c.hits THEN c.now ELSE keys[k].at]
                  ELSE IF k \in c.hits THEN [st |-> "retiring", at |-> c.now]
                  ELSE keys[k]]
  BY DEF CommitActivate
<1>2. /\ \A k \in Key : /\ keys'[k].st = IF k = c.pick THEN "active"
                                         ELSE IF k \in c.hits THEN "retiring" ELSE keys[k].st
                        /\ keys'[k].st = "retiring" =>
                              keys'[k].at = IF k \in c.hits THEN c.now ELSE keys[k].at
      /\ keys' \in [Key -> KeyRow]
  BY <1>0, <1>1 DEF KeyRow
<1>3. Active' = {c.pick}
  BY <1>0, <1>2 DEF Active
<1>4. KeyTypeOK'
  BY <1>0, <1>2 DEF KeyTypeOK
<1>5. ActivationOK'
  <2>1. \A p \in Operator : op'[p] = NoOp \/ (op'[p] = op[p] /\ ~Committing(p))
    BY <1>0
  <2> QED
    BY <1>0, <1>3, <2>1 DEF ActivationOK, Committing, NoOp
<1>6. TokensOK'
  <2>1. ASSUME NEW t \in tokens
        PROVE  /\ t.exp <= clock + AccessTTL
               /\ keys'[t.kid].st = "retiring" => t.exp <= keys'[t.kid].at + RetireBuffer
               /\ t.exp > clock => keys'[t.kid].st \in {"active", "retiring"}
    <3>1. /\ t.kid \in Key /\ t.exp \in Nat /\ clock \in Nat
          /\ t.exp <= clock + AccessTTL
          /\ keys[t.kid].st = "retiring" => t.exp <= keys[t.kid].at + RetireBuffer
          /\ t.exp > clock => keys[t.kid].st \in {"active", "retiring"}
      BY KeyAssumption DEF KeyTypeOK, Token, TokensOK
    <3>2. t.exp <= c.now + RetireBuffer
      BY <1>0, <3>1, KeyAssumption
    <3> QED
      BY <1>2, <3>1, <3>2
  <2>2. \A p \in Operator : op'[p] # NoOp => clock <= op'[p].now + MaxLag
    BY <1>0 DEF TokensOK
  <2> QED
    BY <1>0, <2>1, <2>2 DEF TokensOK
<1> QED
  BY <1>4, <1>5, <1>6

(* create_pending and gc_retired change neither the active key nor the keys that *)
(* live tokens need.                                                             *)
LEMMA KeyTableKeeps ==
    ASSUME KeyInv, CreateKey \/ GcRetired
    PROVE  KeyInv'
<1> USE DEF KeyInv
<1>0. /\ UNCHANGED <<clock, op, tokens>> /\ keys \in [Key -> KeyRow]
      /\ clock \in 0 .. MaxClock /\ tokens \subseteq Token
  BY DEF CreateKey, GcRetired, KeyTypeOK
<1>1. /\ keys' \in [Key -> KeyRow]
      /\ \A k \in Key :
           \/ keys'[k] = keys[k]
           \/ keys[k].st = "none" /\ keys'[k].st = "pending"
           \/ /\ keys[k].st = "retiring" /\ keys'[k].st = "retired"
              /\ keys[k].at + RetireBuffer <= clock
  <2>1. CASE CreateKey
    BY <1>0, <2>1 DEF CreateKey, KeyRow
  <2>2. CASE GcRetired
    BY <1>0, <2>2 DEF GcRetired, PastBuffer, KeyRow
  <2> QED
    BY <2>1, <2>2
<1>2. KeyTypeOK'
  BY <1>0, <1>1 DEF KeyTypeOK
<1>3. Active' = Active
  BY <1>1 DEF Active
<1>4. ActivationOK'
  BY <1>0, <1>3 DEF ActivationOK, Committing
<1>5. TokensOK'
  <2>1. ASSUME NEW t \in tokens
        PROVE  /\ keys'[t.kid].st = "retiring" => t.exp <= keys'[t.kid].at + RetireBuffer
               /\ t.exp > clock => keys'[t.kid].st \in {"active", "retiring"}
    <3>1. /\ t.kid \in Key /\ t.exp \in Nat /\ clock \in Nat /\ keys[t.kid].at \in Nat
          /\ keys[t.kid].st = "retiring" => t.exp <= keys[t.kid].at + RetireBuffer
          /\ t.exp > clock => keys[t.kid].st \in {"active", "retiring"}
      BY <1>0, KeyAssumption DEF Token, TokensOK, KeyRow
    <3> QED
      BY <1>1, <3>1, KeyAssumption
  <2> QED
    BY <1>0, <2>1 DEF TokensOK
<1> QED
  BY <1>2, <1>4, <1>5

(* A token is signed with the active key. *)
LEMMA SignKeeps == KeyInv /\ SignToken => KeyInv'
<1> SUFFICES ASSUME KeyInv, SignToken PROVE KeyInv'
  OBVIOUS
<1> USE DEF KeyInv
<1> PICK k \in Active : tokens' = tokens \cup {[kid |-> k, exp |-> clock + AccessTTL]}
  BY DEF SignToken
<1> DEFINE new == [kid |-> k, exp |-> clock + AccessTTL]
<1>0. /\ UNCHANGED <<clock, keys, op>> /\ k \in Key /\ keys[k].st = "active"
      /\ clock \in 0 .. MaxClock
      /\ new.kid = k /\ new.exp = clock + AccessTTL /\ new \in Token
  BY KeyAssumption DEF SignToken, Active, KeyTypeOK, Token
<1>1. KeyTypeOK'
  BY <1>0 DEF KeyTypeOK
<1>2. ActivationOK'
  BY <1>0 DEF ActivationOK, Committing, Active
<1>3. TokensOK'
  <2>1. clock + AccessTTL <= clock + AccessTTL
    BY <1>0, KeyAssumption
  <2> HIDE DEF new
  <2>2. \A t \in tokens' : t \in tokens \/ t = new
    BY DEF new
  <2> QED
    BY <1>0, <2>1, <2>2 DEF TokensOK
<1> QED
  BY <1>1, <1>2, <1>3

(* Time passes, no further than a command in progress allows. *)
LEMMA KeyTickKeeps == KeyInv /\ Tick => KeyInv'
<1> SUFFICES ASSUME KeyInv, Tick PROVE KeyInv'
  OBVIOUS
<1> USE DEF KeyInv
<1>0. /\ UNCHANGED <<keys, op>> /\ tokens' \subseteq tokens /\ clock' = clock + 1
      /\ clock \in Nat /\ clock' \in 0 .. MaxClock /\ tokens \subseteq Token
      /\ \A t \in tokens' : t.exp > clock'
      /\ \A o \in Operator : op[o] # NoOp => clock < op[o].now + MaxLag
  BY KeyAssumption DEF Tick, KeyTypeOK
<1>1. KeyTypeOK'
  BY <1>0 DEF KeyTypeOK
<1>2. ActivationOK'
  BY <1>0 DEF ActivationOK, Committing, Active
<1>3. TokensOK'
  <2>1. ASSUME NEW o \in Operator, op[o] # NoOp PROVE clock' <= op[o].now + MaxLag
    BY <1>0, <2>1, OpShape, KeyAssumption
  <2>2. ASSUME NEW t \in tokens'
        PROVE  t.exp <= clock' + AccessTTL /\ (t.exp > clock' => t.exp > clock)
    BY <1>0, KeyAssumption DEF TokensOK, Token
  <2> QED
    BY <1>0, <2>1, <2>2 DEF TokensOK
<1> QED
  BY <1>1, <1>2, <1>3

(* Every step of the key commands, of the token endpoint and of gc. *)
LEMMA NextKeys == KeyInv /\ [KeyNext]_keyVars => KeyInv'
<1> SUFFICES ASSUME KeyInv, [KeyNext]_keyVars PROVE KeyInv'
  OBVIOUS
<1>1. CASE UNCHANGED keyVars
  BY <1>1 DEF keyVars, KeyInv, KeyTypeOK, ActivationOK, Committing, Active, TokensOK
<1> QED
  BY <1>1, ActivationKeeps, CommitKeeps, KeyTableKeeps, SignKeeps, KeyTickKeeps DEF KeyNext

(* The inductive invariant of the signing keys. *)
THEOREM KeysCorrect == KeySpec => []KeyInv
BY InitKeys, NextKeys, PTL DEF KeySpec

(* "active (signing; exactly one)" (core/keys.py): whatever the number of commands  *)
(* that activate, abort and collect at once, one key signs.                         *)
THEOREM ExactlyOneActiveKey == KeySpec => []OneActiveKey
<1>1. KeyInv => OneActiveKey
  BY FS_Singleton DEF KeyInv, ActivationOK, OneActiveKey
<1> QED
  BY <1>1, KeysCorrect, PTL

(* No token outlives its key: with RETIRE_BUFFER at least the token lifetime and the *)
(* time a command takes, a token verifies until it expires (tokens.py, gc_retired).  *)
THEOREM TokensOutlivedByKeys == KeySpec => []TokensVerify
<1>1. KeyInv => TokensVerify
  BY DEF KeyInv, TokensOK, TokensVerify, Verifies
<1> QED
  BY <1>1, KeysCorrect, PTL

-----------------------------------------------------------------------------
(* The DPoP replay cache.                                                  *)

(* Every acceptance is in the past, and is remembered by a row until the     *)
(* window after it is over.                                                  *)
Remembered ==
    \A p \in Proof : \A i \in 1 .. Len(accepted[p]) :
        /\ accepted[p][i] <= now
        /\ accepted[p][i] + IatWindow <= IF jti[p] # 0 THEN jti[p] ELSE now

DpopInv == DpopTypeOK /\ Remembered /\ ReplayOnlyPastWindow

(* Times are natural numbers from 1. *)
LEMMA TimeType == \A t \in Time : t \in Nat /\ t >= 1
BY DpopAssumption DEF Time

(* The acceptance that is appended is not within the window of an earlier one. *)
LEMMA VerifyProofKeeps ==
    ASSUME DpopInv, NEW p \in Proof, VerifyProof(p)
    PROVE  DpopInv'
<1> USE DEF DpopInv
<1> PICK s \in Seq(Time) : s = accepted[p]
  BY DEF DpopTypeOK
<1> DEFINE n == Len(s)
           t == Append(s, now)
<1>0. /\ now \in Time /\ now \in Nat /\ now >= 1 /\ iat[p] \in Nat /\ Fresh(p) /\ jti[p] = 0
      /\ IatWindow \in Nat
      /\ jti' = [jti EXCEPT ![p] = now + IatWindow] /\ accepted' = [accepted EXCEPT ![p] = t]
      /\ UNCHANGED <<now, iat>>
  BY DpopAssumption, TimeType DEF VerifyProof, Remember, DpopTypeOK
<1>1. /\ t \in Seq(Time) /\ Len(t) = n + 1 /\ n \in Nat /\ t[n + 1] = now
      /\ \A i \in 1 .. n : t[i] = s[i] /\ s[i] \in Time /\ s[i] \in Nat
  <2>1. t \in Seq(Time) /\ Len(t) = n + 1 /\ n \in Nat /\ t[n + 1] = now
    BY <1>0
  <2>2. ASSUME NEW i \in 1 .. n PROVE t[i] = s[i] /\ s[i] \in Time
    BY <1>0
  <2> QED
    BY <2>1, <2>2, TimeType
<1> HIDE DEF t, n
<1>2. /\ accepted' \in [Proof -> Seq(Time)] /\ accepted'[p] = t /\ jti'[p] = now + IatWindow
      /\ jti' \in [Proof -> Nat]
      /\ \A q \in Proof \ {p} : accepted'[q] = accepted[q] /\ jti'[q] = jti[q]
  BY <1>0, <1>1 DEF DpopTypeOK
<1>3. DpopTypeOK'
  BY <1>0, <1>2 DEF DpopTypeOK
<1>4. ASSUME NEW i \in 1 .. n PROVE s[i] <= now /\ s[i] + IatWindow <= now
  BY <1>0, <1>4 DEF Remembered, n
<1>5. Remembered'
  <2>1. ASSUME NEW i \in 1 .. Len(t)
        PROVE  t[i] <= now /\ t[i] + IatWindow <= now + IatWindow
    <3>1. CASE i = n + 1
      BY <1>0, <1>1, <3>1
    <3>2. CASE i # n + 1
      <4>1. i \in 1 .. n
        BY <1>1, <3>2
      <4> QED
        BY <1>0, <1>1, <1>4, <4>1
    <3> QED
      BY <3>1, <3>2
  <2>2. now + IatWindow # 0
    BY <1>0
  <2> QED
    BY <1>0, <1>2, <2>1, <2>2 DEF Remembered
<1>6. ReplayOnlyPastWindow'
  <2>1. ASSUME NEW i \in 1 .. Len(t), NEW j \in 1 .. Len(t), i < j
        PROVE  t[j] >= t[i] + IatWindow /\ iat[p] >= t[i]
    <3>1. CASE j = n + 1
      <4>1. i \in 1 .. n
        BY <1>1, <2>1, <3>1
      <4>2. t[j] = now /\ t[i] = s[i] /\ s[i] \in Nat /\ s[i] + IatWindow <= now
        BY <1>1, <1>4, <3>1, <4>1
      <4> QED
        BY <1>0, <4>2 DEF Fresh
    <3>2. CASE j # n + 1
      <4>1. i \in 1 .. n /\ j \in 1 .. n
        BY <1>1, <2>1, <3>2
      <4> QED
        BY <1>1, <2>1, <4>1 DEF ReplayOnlyPastWindow, n
    <3> QED
      BY <3>1, <3>2
  <2> QED
    BY <1>0, <1>2, <2>1 DEF ReplayOnlyPastWindow
<1> QED
  BY <1>3, <1>5, <1>6

(* gc forgets a proof only when its window is over; time only passes. *)
LEMMA ForgetKeeps ==
    ASSUME DpopInv, GcJtis \/ DpopTick
    PROVE  DpopInv'
<1> USE DEF DpopInv
<1>0. /\ UNCHANGED <<iat, accepted>> /\ now \in Nat /\ now' \in Time /\ now' \in Nat /\ now <= now'
      /\ jti \in [Proof -> Nat] /\ jti' \in [Proof -> Nat]
      /\ \A p \in Proof : jti'[p] = jti[p] \/ (jti[p] <= now' /\ jti'[p] = 0)
      /\ IatWindow \in Nat
  <2>1. now \in Time /\ now \in Nat /\ jti \in [Proof -> Nat] /\ IatWindow \in Nat
    BY TimeType, DpopAssumption DEF DpopTypeOK
  <2>2. CASE GcJtis
    BY <2>1, <2>2 DEF GcJtis
  <2>3. CASE DpopTick
    <3>1. now' \in Time /\ now <= now'
      BY <2>1, <2>3, DpopAssumption DEF DpopTick, Time
    <3> QED
      BY <2>1, <2>3, <3>1, TimeType DEF DpopTick
  <2> QED
    BY <2>2, <2>3
<1>1. DpopTypeOK'
  BY <1>0 DEF DpopTypeOK
<1>2. ReplayOnlyPastWindow'
  BY <1>0 DEF ReplayOnlyPastWindow
<1>3. ASSUME NEW p \in Proof, NEW i \in 1 .. Len(accepted[p])
      PROVE  /\ accepted[p][i] <= now'
             /\ accepted[p][i] + IatWindow <= IF jti'[p] # 0 THEN jti'[p] ELSE now'
  <2>1. /\ accepted[p][i] \in Nat /\ accepted[p][i] <= now
        /\ accepted[p][i] + IatWindow <= IF jti[p] # 0 THEN jti[p] ELSE now
        /\ jti[p] \in Nat
    <3>1. accepted[p] \in Seq(Time)
      BY DEF DpopTypeOK
    <3>2. accepted[p][i] \in Nat
      BY <3>1, TimeType
    <3> QED
      BY <1>0, <3>2 DEF Remembered
  <2> QED
    BY <1>0, <2>1
<1>4. Remembered'
  BY <1>0, <1>3 DEF Remembered
<1> QED
  BY <1>1, <1>2, <1>4

(* The inductive invariant of the replay cache. *)
THEOREM DpopCorrect == DpopSpec => []DpopInv
<1>1. DpopInit => DpopInv
  <2> SUFFICES ASSUME DpopInit PROVE DpopInv
    OBVIOUS
  <2>1. DpopTypeOK
    BY DpopAssumption DEF DpopInit, DpopTypeOK, Time
  <2>2. Remembered /\ ReplayOnlyPastWindow
    BY DEF DpopInit, Remembered, ReplayOnlyPastWindow
  <2> QED
    BY <2>1, <2>2 DEF DpopInv
<1>2. DpopInv /\ [DpopNext]_dpopVars => DpopInv'
  <2> SUFFICES ASSUME DpopInv, [DpopNext]_dpopVars PROVE DpopInv'
    OBVIOUS
  <2>1. CASE UNCHANGED dpopVars
    BY <2>1 DEF dpopVars, DpopInv, DpopTypeOK, Remembered, ReplayOnlyPastWindow
  <2> QED
    BY <2>1, VerifyProofKeeps, ForgetKeeps DEF DpopNext
<1> QED
  BY <1>1, <1>2, PTL DEF DpopSpec

(* However often gc runs, a proof that was accepted is refused for the rest of its *)
(* window (replay.py check_and_store, gc).                                         *)
THEOREM NoReplayInWindow == DpopSpec => []ReplayOnlyPastWindow
<1>1. DpopInv => ReplayOnlyPastWindow
  BY DEF DpopInv
<1> QED
  BY <1>1, DpopCorrect, PTL

-----------------------------------------------------------------------------
(* The gateway's callback.                                                 *)

CallRecord == [pc : {"loaded", "exchange", "answered", "failed"}, code : AuthCode,
               state : LoginState]
GatewayRow == [id : Nat, code : AuthCode, state : LoginState, session : IdpSession,
               rev : BOOLEAN]
Answered(h) == callback[h].pc = "answered"

(* The records a callback, a code and a session are made of. *)
CallbackTypes ==
    /\ codes \in [DOMAIN codes -> [state : LoginState, session : IdpSession]]
    /\ callback \in [Callback -> {NoCall} \cup CallRecord]
    /\ \A h \in Callback :
          callback[h] # NoCall =>
             callback[h].state \in parked /\ callback[h].code \in DOMAIN codes
    /\ gateway \subseteq GatewayRow /\ IsFiniteSet(gateway)

(* The token endpoint answers for a code once: the callback it answered is the  *)
(* only one to make a session of the code, and has not made it yet.             *)
RedeemedOnce ==
    /\ \A g \in gateway : g.code \in redeemed
    /\ \A h \in Callback : Answered(h) => callback[h].code \in redeemed
    /\ \A h \in Callback, g \in gateway : Answered(h) => g.code # callback[h].code
    /\ \A h, i \in Callback :
          Answered(h) /\ Answered(i) /\ callback[h].code = callback[i].code => h = i

GatewayInv == GatewayTypeOK /\ CallbackTypes /\ RedeemedOnce /\ LoginStateOnce

(* A callback's record is of one of the two shapes. *)
LEMMA CallShape ==
    ASSUME CallbackTypes, NEW h \in Callback
    PROVE  /\ callback[h] \in {NoCall} \cup CallRecord
           /\ callback \in [Callback -> {NoCall} \cup CallRecord]
           /\ callback[h].pc = "none" <=> callback[h] = NoCall
           /\ callback[h] # NoCall =>
                /\ callback[h] \in CallRecord
                /\ callback[h].state \in LoginState /\ callback[h].code \in AuthCode
                /\ callback[h].state \in parked /\ callback[h].code \in DOMAIN codes
BY DEF CallbackTypes, NoCall, CallRecord

(* Nothing is parked, issued or open at first. *)
LEMMA InitGateway == GatewayInit => GatewayInv
<1> SUFFICES ASSUME GatewayInit PROVE GatewayInv
  OBVIOUS
<1> USE DEF GatewayInit
<1>1. GatewayTypeOK
  BY GatewayAssumption DEF GatewayTypeOK, NoCall
<1>2. CallbackTypes
  BY FS_EmptySet DEF CallbackTypes, NoCall
<1>3. RedeemedOnce
  BY DEF RedeemedOnce, Answered, NoCall
<1>4. LoginStateOnce
  BY DEF LoginStateOnce
<1> QED
  BY <1>1, <1>2, <1>3, <1>4 DEF GatewayInv

(* start: a fresh state has not been used. *)
LEMMA StartKeeps ==
    ASSUME GatewayInv, NEW s \in LoginState, NEW a \in GwAddr, start(s, a)
    PROVE  GatewayInv'
<1> USE DEF GatewayInv
<1>1. GatewayTypeOK'
  BY DEF start, GatewayTypeOK
<1>2. CallbackTypes' /\ RedeemedOnce'
  BY DEF start, CallbackTypes, RedeemedOnce, Answered
<1>3. LoginStateOnce'
  BY DEF start, LoginStateOnce, GatewayTypeOK
<1> QED
  BY <1>1, <1>2, <1>3

(* Authorize: a fresh code; the codes already issued stay bound as they were. *)
LEMMA AuthorizeKeeps ==
    ASSUME GatewayInv, NEW c \in AuthCode, NEW s \in LoginState, NEW i \in IdpSession,
           Authorize(c, s, i)
    PROVE  GatewayInv'
<1> USE DEF GatewayInv
<1>0. /\ DOMAIN codes' = DOMAIN codes \cup {c} /\ c \notin DOMAIN codes
      /\ codes'[c] = [state |-> s, session |-> i]
      /\ \A d \in DOMAIN codes : codes'[d] = codes[d]
      /\ UNCHANGED <<states, stateLock, parked, redeemed, gateway, callback, called, burned>>
  BY DEF Authorize
<1>1. GatewayTypeOK'
  BY <1>0 DEF GatewayTypeOK
<1>2. codes' \in [DOMAIN codes' -> [state : LoginState, session : IdpSession]]
  BY DEF Authorize, CallbackTypes
<1>3. CallbackTypes'
  BY <1>0, <1>2 DEF CallbackTypes
<1>4. RedeemedOnce'
  BY <1>0 DEF RedeemedOnce, Answered
<1>5. \A g \in gateway : g.code \in DOMAIN codes
  BY DEF RedeemedOnce, GatewayTypeOK
<1>6. LoginStateOnce'
  BY <1>0, <1>5 DEF LoginStateOnce
<1> QED
  BY <1>1, <1>3, <1>4, <1>6

(* A callback's step that makes no session and ends nothing. *)
LEMMA CallStep ==
    ASSUME GatewayInv, NEW h \in Callback, NEW rec \in CallRecord,
           callback' = [callback EXCEPT ![h] = rec],
           rec.state \in parked, rec.code \in DOMAIN codes,
           redeemed \subseteq redeemed', redeemed' \subseteq DOMAIN codes,
           rec.pc = "answered" => /\ rec.code \in redeemed'
                                  /\ rec.code \notin redeemed,
           UNCHANGED <<states, parked, codes, gateway, burned>>,
           stateLock' \in [LoginState -> Callback \cup {NoCallback}],
           called' \in 0 .. MaxCallbacks
    PROVE  GatewayInv'
<1> USE DEF GatewayInv
<1>0. /\ \A i \in Callback : callback'[i] = IF i = h THEN rec ELSE callback[i]
      /\ callback' \in [Callback -> {NoCall} \cup CallRecord]
  BY DEF CallbackTypes
<1>1. \A i \in Callback :
          callback'[i].pc \in {"none", "loaded", "exchange", "answered", "failed"}
  BY <1>0 DEF NoCall, CallRecord
<1>2. GatewayTypeOK'
  BY <1>1 DEF GatewayTypeOK
<1>3. CallbackTypes'
  BY <1>0 DEF CallbackTypes
<1>4. RedeemedOnce'
  <2>1. \A g \in gateway : g.code \in redeemed
    BY DEF RedeemedOnce
  <2>2. \A i \in Callback \ {h} : Answered(i)' <=> Answered(i)
    BY <1>0 DEF Answered
  <2>3. Answered(h)' <=> rec.pc = "answered"
    BY <1>0 DEF Answered
  <2>4. ASSUME NEW i \in Callback, Answered(i)'
        PROVE  /\ callback'[i].code \in redeemed'
               /\ \A g \in gateway : g.code # callback'[i].code
    BY <1>0, <2>1, <2>2, <2>3, <2>4 DEF RedeemedOnce
  <2>5. ASSUME NEW i \in Callback, NEW j \in Callback, Answered(i)', Answered(j)',
               callback'[i].code = callback'[j].code
        PROVE  i = j
    BY <1>0, <2>2, <2>3, <2>5 DEF RedeemedOnce
  <2> QED
    BY <2>1, <2>4, <2>5 DEF RedeemedOnce
<1>5. LoginStateOnce'
  BY DEF LoginStateOnce
<1> QED
  BY <1>2, <1>3, <1>4, <1>5

(* callback reads the state's row, deletes it and asks the token endpoint. *)
LEMMA CallbackKeeps ==
    ASSUME GatewayInv, NEW h \in Callback,
           \/ \E c \in AuthCode, s \in LoginState, a \in GwAddr : LoadState(h, c, s, a)
           \/ DeleteState(h) \/ Exchange(h)
    PROVE  GatewayInv'
<1> USE DEF GatewayInv
<1>0. /\ UNCHANGED <<states, parked, codes, gateway, burned>>
      /\ called' \in 0 .. MaxCallbacks /\ redeemed \subseteq DOMAIN codes
      /\ callback \in [Callback -> {NoCall} \cup CallRecord]
      /\ stateLock' \in [LoginState -> Callback \cup {NoCallback}]
  BY CallShape, GatewayAssumption DEF LoadState, DeleteState, Exchange, GatewayTypeOK, CallbackTypes
<1> PICK r \in {NoCall} \cup CallRecord : r = callback[h]
  BY CallShape
<1>1. ASSUME NEW c \in AuthCode, NEW s \in LoginState, NEW a \in GwAddr, LoadState(h, c, s, a)
      PROVE  GatewayInv'
  <2> DEFINE rec == [pc |-> "loaded", code |-> c, state |-> s]
  <2>1. /\ rec \in CallRecord /\ callback' = [callback EXCEPT ![h] = rec]
        /\ rec.state \in parked /\ rec.code \in DOMAIN codes /\ rec.pc # "answered"
        /\ redeemed' = redeemed
    BY <1>1 DEF LoadState, CallRecord, GatewayTypeOK
  <2> HIDE DEF rec
  <2> QED
    BY <1>0, <2>1, CallStep
<1>2. ASSUME r # NoCall, NEW pc \in {"exchange", "answered", "failed"},
             callback' = [callback EXCEPT ![h] = [r EXCEPT !.pc = pc]],
             redeemed \subseteq redeemed', redeemed' \subseteq DOMAIN codes,
             pc = "answered" => r.code \in redeemed' /\ r.code \notin redeemed
      PROVE  GatewayInv'
  <2> DEFINE rec == [r EXCEPT !.pc = pc]
  <2>1. rec \in CallRecord /\ rec.pc = pc /\ rec.code = r.code /\ rec.state = r.state
    BY <1>2 DEF CallRecord
  <2>2. r.state \in parked /\ r.code \in DOMAIN codes
    BY <1>2 DEF CallbackTypes
  <2> HIDE DEF rec
  <2> QED
    BY <1>0, <1>2, <2>1, <2>2, CallStep DEF rec
<1>3. CASE DeleteState(h)
  BY <1>0, <1>2, <1>3 DEF DeleteState, NoCall
<1>4. CASE Exchange(h)
  <2>1. r # NoCall /\ r.code \in DOMAIN codes
    BY <1>4, CallShape DEF Exchange, NoCall
  <2>2. CASE redeemed' = redeemed /\ callback' = [callback EXCEPT ![h].pc = "failed"]
    BY <1>0, <1>2, <2>1, <2>2
  <2>3. CASE /\ Redeems(h) /\ redeemed' = redeemed \cup {r.code}
             /\ callback' \in {[callback EXCEPT ![h].pc = "answered"],
                               [callback EXCEPT ![h].pc = "failed"]}
    BY <1>0, <1>2, <2>1, <2>3 DEF Redeems
  <2> QED
    BY <1>4, <2>2, <2>3 DEF Exchange
<1> QED
  BY <1>1, <1>3, <1>4

(* A callback ends: its state is gone, whether it made a session or not. *)
LEMMA EndCallKeeps ==
    ASSUME GatewayInv, NEW h \in Callback, FailCallback(h) \/ CommitCallback(h)
    PROVE  GatewayInv'
<1> USE DEF GatewayInv
<1> PICK r \in CallRecord : r = callback[h] /\ r.state \in parked /\ r.code \in DOMAIN codes
  BY CallShape DEF FailCallback, CommitCallback, NoCall
<1>0. /\ UNCHANGED <<parked, codes, redeemed, called>>
      /\ callback' = [callback EXCEPT ![h] = NoCall] /\ burned' = burned \cup {r.state}
      /\ stateLock' = [s \in LoginState |-> IF stateLock[s] = h THEN NoCallback ELSE stateLock[s]]
      /\ states' = [t \in DOMAIN states \ {r.state} |-> states[t]]
      /\ callback \in [Callback -> {NoCall} \cup CallRecord]
  BY DEF FailCallback, CommitCallback, EndCallback, AfterFailed, Without, CallbackTypes
<1>1. \A i \in Callback : callback'[i] = IF i = h THEN NoCall ELSE callback[i]
  BY <1>0
<1>2. GatewayTypeOK'
  BY <1>0, <1>1 DEF GatewayTypeOK, NoCall
<1>3. burned' \cap DOMAIN states' = {}
  BY <1>0 DEF LoginStateOnce
<1>4. \A i \in Callback : Answered(i)' <=> i # h /\ Answered(i)
  BY <1>1 DEF Answered, NoCall
<1>5. CASE FailCallback(h)
  <2>1. gateway' = gateway
    BY <1>5 DEF FailCallback
  <2>2. CallbackTypes'
    BY <1>0, <1>1, <2>1 DEF CallbackTypes
  <2>3. RedeemedOnce'
    BY <1>0, <1>1, <1>4, <2>1 DEF RedeemedOnce
  <2>4. LoginStateOnce'
    BY <1>0, <1>3, <2>1 DEF LoginStateOnce
  <2> QED
    BY <1>2, <2>2, <2>3, <2>4
<1>6. CASE CommitCallback(h)
  <2> DEFINE g == [id |-> Cardinality(gateway), code |-> r.code, state |-> r.state,
                   session |-> codes[r.code].session, rev |-> FALSE]
  <2>1. /\ gateway' = gateway \cup {g} /\ Answered(h) /\ codes[r.code].state = r.state
    BY <1>6 DEF CommitCallback, Answered
  <2>2. /\ g \in GatewayRow /\ g.code = r.code /\ g.state = r.state
        /\ g.session = codes[r.code].session
    BY FS_CardinalityType DEF CallbackTypes, GatewayRow, CallRecord
  <2> HIDE DEF g
  <2>3. r.code \in redeemed /\ \A f \in gateway : f.code # r.code
    BY <2>1 DEF RedeemedOnce
  <2>4. CallbackTypes'
    <3>1. IsFiniteSet(gateway')
      BY <2>1, FS_AddElement DEF CallbackTypes
    <3> QED
      BY <1>0, <1>1, <2>1, <2>2, <3>1 DEF CallbackTypes
  <2>5. RedeemedOnce'
    BY <1>0, <1>1, <1>4, <2>1, <2>2, <2>3 DEF RedeemedOnce
  <2>6. LoginStateOnce'
    BY <1>0, <1>3, <2>1, <2>2, <2>3 DEF LoginStateOnce
  <2> QED
    BY <1>2, <2>4, <2>5, <2>6
<1> QED
  BY <1>5, <1>6

(* logout marks a session; gc drops a state that nobody has deleted. *)
LEMMA LogoutGcKeeps ==
    ASSUME GatewayInv,
           (\E g \in gateway : logout(g)) \/ (\E s \in LoginState : gc_login_states(s))
    PROVE  GatewayInv'
<1> USE DEF GatewayInv
<1>1. ASSUME NEW g \in gateway, logout(g) PROVE GatewayInv'
  <2> DEFINE f == [g EXCEPT !.rev = TRUE]
  <2>0. UNCHANGED <<states, stateLock, parked, codes, redeemed, callback, called, burned>>
    BY <1>1 DEF logout
  <2>1. /\ f \in GatewayRow /\ f.code = g.code /\ f.state = g.state /\ f.session = g.session
    BY DEF CallbackTypes, GatewayRow
  <2> HIDE DEF f
  <2>2. gateway' = (gateway \ {g}) \cup {f}
    BY <1>1 DEF logout, f
  <2>3. IsFiniteSet(gateway')
    BY <2>2, FS_AddElement, FS_RemoveElement DEF CallbackTypes
  <2>4. GatewayTypeOK'
    BY <2>0 DEF GatewayTypeOK
  <2>5. CallbackTypes'
    BY <2>0, <2>1, <2>2, <2>3 DEF CallbackTypes
  <2>6. RedeemedOnce'
    BY <2>0, <2>1, <2>2 DEF RedeemedOnce, Answered
  <2>7. LoginStateOnce'
    BY <2>0, <2>1, <2>2 DEF LoginStateOnce
  <2> QED
    BY <2>4, <2>5, <2>6, <2>7
<1>2. ASSUME NEW s \in LoginState, gc_login_states(s) PROVE GatewayInv'
  BY <1>2 DEF gc_login_states, Without, GatewayTypeOK, CallbackTypes, RedeemedOnce, Answered,
     LoginStateOnce
<1> QED
  BY <1>1, <1>2

(* The inductive invariant of the gateway's logins. *)
THEOREM GatewayCorrect == GatewaySpec => []GatewayInv
<1>1. GatewayInv /\ [GatewayNext]_gatewayVars => GatewayInv'
  <2> SUFFICES ASSUME GatewayInv, [GatewayNext]_gatewayVars PROVE GatewayInv'
    OBVIOUS
  <2>1. CASE UNCHANGED gatewayVars
    BY <2>1 DEF gatewayVars, GatewayInv, GatewayTypeOK, CallbackTypes, RedeemedOnce, Answered,
       LoginStateOnce
  <2> QED
    BY <2>1, StartKeeps, AuthorizeKeeps, CallbackKeeps, EndCallKeeps, LogoutGcKeeps
       DEF GatewayNext
<1> QED
  BY <1>1, InitGateway, PTL DEF GatewaySpec

(* However many callbacks overlap, and however their exchanges end, a login state   *)
(* is used up by the first that ends and a code gives at most one gateway session,  *)
(* for the IdP session it was issued for (gateway.py callback).                     *)
THEOREM LoginStatesUsedOnce == GatewaySpec => []LoginStateOnce
<1>1. GatewayInv => LoginStateOnce
  BY DEF GatewayInv
<1> QED
  BY <1>1, GatewayCorrect, PTL
=============================================================================
