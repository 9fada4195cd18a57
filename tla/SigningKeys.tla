---------------------------- MODULE SigningKeys ----------------------------
(***************************************************************************)
(* The life of the OIDC signing keys (core/keys.py), driven by the command  *)
(* line (rotate-signing-key, gc), and the tokens signed with them           *)
(* (idp/oidc/tokens.py).  A key is pending, then active, then retiring,     *)
(* then retired; access and ID tokens verify under active and retiring keys.*)
(*                                                                          *)
(* An operator's command reads the clock, then runs one READ COMMITTED      *)
(* transaction; two commands can run at once.  The partial unique index on  *)
(* state = 'active' is part of the table.                                   *)
(***************************************************************************)
EXTENDS Naturals, FiniteSets

CONSTANTS
    MaxKeys,        \* bound: keys ever created; a key is its number, in creation order
    Operator,       \* rotate-signing-key --activate commands
    AccessTTL,      \* settings.access_ttl, also an ID token's lifetime
    RetireBuffer,   \* RETIRE_BUFFER
    MaxLag,         \* bound: time from a command's clock reading to its commit
    MaxClock        \* bound: time

ASSUME KeyAssumption ==
    /\ {AccessTTL, RetireBuffer, MaxLag, MaxClock} \subseteq Nat
    /\ MaxKeys \in Nat \ {0}
    /\ AccessTTL + MaxLag <= RetireBuffer    \* 600 s + 300 s of slack = 15 minutes

VARIABLES
    clock,
    keys,      \* signing_keys, committed: state and retiring_at
    op,        \* op[o]: an activation in progress
    tokens     \* tokens signed: key and expiry

keyVars == <<clock, keys, op, tokens>>

Key == 1 .. MaxKeys
KeyRow == [st : {"none", "pending", "active", "retiring", "retired"}, at : 0 .. MaxClock]

NoOp == [pc |-> "idle"]
Ops == {NoOp} \cup
       [pc : {"pick", "demote", "wait", "promote", "commit"}, now : 0 .. MaxClock,
        pick : 0 .. MaxKeys, seen : SUBSET Key, hits : SUBSET Key]

Token == [kid : Key, exp : 0 .. MaxClock + AccessTTL]

\* bootstrap_if_empty has created and activated the first key.
KeyInit ==
    /\ clock = 0
    /\ keys = [k \in Key |-> [st |-> IF k = 1 THEN "active" ELSE "none", at |-> 0]]
    /\ op = [o \in Operator |-> NoOp]
    /\ tokens = {}

Active == {k \in Key : keys[k].st = "active"}
PendingKeys == {k \in Key : keys[k].st = "pending"}

-----------------------------------------------------------------------------
\* create_pending: a new key, in the JWKS at once.
CreateKey ==
    /\ \E k \in Key :
         /\ keys[k].st = "none" /\ \A j \in Key : j < k => keys[j].st # "none"
         /\ keys' = [keys EXCEPT ![k].st = "pending"]
    /\ UNCHANGED <<clock, op, tokens>>

\* rotate-signing-key --activate: the clock is read before the transaction.
BeginActivate(o) ==
    /\ op[o] = NoOp
    /\ op' = [op EXCEPT ![o] = [pc |-> "pick", now |-> clock, pick |-> 0,
                                seen |-> {}, hits |-> {}]]
    /\ UNCHANGED <<clock, keys, tokens>>

\* activate_pending: the newest pending key; NoActiveKeyError if there is none.
Newest(k) == k \in PendingKeys /\ \A j \in PendingKeys : j <= k
Pick(o) ==
    /\ op[o].pc = "pick"
    /\ \/ \E k \in Key : Newest(k) /\ op' = [op EXCEPT ![o].pc = "demote", ![o].pick = k]
       \/ PendingKeys = {} /\ op' = [op EXCEPT ![o] = NoOp]
    /\ UNCHANGED <<clock, keys, tokens>>

\* The rows that an open transaction has written.
Written(o) == IF op[o] = NoOp THEN {}
              ELSE op[o].hits \cup (IF op[o].pc = "commit" THEN {op[o].pick} ELSE {})
Unlocked(o, K) == \A p \in Operator \ {o} : Written(p) \cap K = {}

\* The UPDATE of the active key takes its snapshot, waits for the rows it found,
\* and demotes those that are still active.
DemoteScan(o) ==
    /\ op[o].pc = "demote"
    /\ op' = [op EXCEPT ![o].pc = "wait", ![o].seen = Active]
    /\ UNCHANGED <<clock, keys, tokens>>
Demote(o) ==
    /\ op[o].pc = "wait" /\ Unlocked(o, op[o].seen)
    /\ op' = [op EXCEPT ![o].pc = "promote", ![o].hits = op[o].seen \cap Active]
    /\ UNCHANGED <<clock, keys, tokens>>

\* ux_signing_keys_single_active: an insertion waits for another transaction's
\* uncommitted active row, and fails on a committed one.
IndexAdmits_dropped(o) == TRUE
IndexAdmits(o) == Active \subseteq op[o].hits \cup {op[o].pick}
Promote(o) ==
    /\ op[o].pc = "promote"
    /\ Unlocked(o, {op[o].pick})
    /\ \A p \in Operator \ {o} : op[p].pc # "commit"
    /\ op' = [op EXCEPT ![o] = IF IndexAdmits(o) THEN [@ EXCEPT !.pc = "commit"] ELSE NoOp]
    /\ UNCHANGED <<clock, keys, tokens>>

CommitActivate(o) ==
    /\ op[o].pc = "commit"
    /\ keys' = [k \in Key |->
                  IF k = op[o].pick
                    THEN [st |-> "active", at |-> IF k \in op[o].hits THEN op[o].now ELSE keys[k].at]
                  ELSE IF k \in op[o].hits THEN [st |-> "retiring", at |-> op[o].now]
                  ELSE keys[k]]
    /\ op' = [op EXCEPT ![o] = NoOp]
    /\ UNCHANGED <<clock, tokens>>

\* The command is killed, or loses its connection.
AbortActivate(o) ==
    /\ op[o] # NoOp
    /\ op' = [op EXCEPT ![o] = NoOp]
    /\ UNCHANGED <<clock, keys, tokens>>

\* mint_access_token and mint_id_token under get_active_signing_key.  The expiry is
\* counted from the start of the request; counted from here it is at its latest.
SignToken ==
    /\ \E k \in Active : tokens' = tokens \cup {[kid |-> k, exp |-> clock + AccessTTL]}
    /\ UNCHANGED <<clock, keys, op>>

\* verify_access_token and verify_id_token, as far as keys and time go.
Verifies(t) == keys[t.kid].st \in {"active", "retiring"} /\ t.exp > clock

\* gc_retired: an UPDATE, which waits for a row another transaction has written.
PastBuffer_off(k) == keys[k].at + AccessTTL <= clock
PastBuffer(k) == keys[k].at + RetireBuffer <= clock
GcRetired ==
    LET due == {k \in Key : keys[k].st = "retiring" /\ PastBuffer(k)} IN
    /\ due # {} /\ \A o \in Operator : Written(o) \cap due = {}
    /\ keys' = [k \in Key |-> IF k \in due THEN [keys[k] EXCEPT !.st = "retired"] ELSE keys[k]]
    /\ UNCHANGED <<clock, op, tokens>>

Tick ==
    /\ clock < MaxClock
    /\ \A o \in Operator : op[o] # NoOp => clock < op[o].now + MaxLag
    /\ clock' = clock + 1
    /\ tokens' = {t \in tokens : t.exp > clock + 1}    \* expired tokens are of no use
    /\ UNCHANGED <<keys, op>>

KeyNext ==
    \/ CreateKey \/ SignToken \/ GcRetired \/ Tick
    \/ \E o \in Operator :
         \/ BeginActivate(o) \/ Pick(o) \/ DemoteScan(o) \/ Demote(o) \/ Promote(o)
         \/ CommitActivate(o) \/ AbortActivate(o)

KeySpec == KeyInit /\ [][KeyNext]_keyVars

-----------------------------------------------------------------------------
(* Properties *)

KeyTypeOK ==
    /\ clock \in 0 .. MaxClock
    /\ keys \in [Key -> KeyRow]
    /\ op \in [Operator -> Ops]
    /\ tokens \subseteq Token

\* "active (signing; exactly one)": however two activations, their aborts and the
\* gc command interleave, there is always a key to sign with and never two.
OneActiveKey == Cardinality(Active) = 1

\* A token verifies until it expires: the key it was signed with is still active or
\* retiring, though the key was demoted by a command that read its clock before
\* the token was signed.
TokensVerify ==
    \A t \in tokens : t.exp > clock => Verifies(t)
=============================================================================
