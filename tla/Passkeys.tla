------------------------------ MODULE Passkeys ------------------------------
(***************************************************************************)
(* The passkeys of one account: an administrator's deletions and changes of *)
(* tier and status (admin/routes/users.py), and the account's step-up on a  *)
(* live session (idp/web/webauthn_routes.py, /stepup).  Each request is one *)
(* READ COMMITTED transaction; a step is one statement or the commit.       *)
(***************************************************************************)
EXTENDS Naturals, FiniteSets

CONSTANTS
    Passkey,       \* credentials
    BreakGlass,    \* the break-glass ones among them
    Worker,        \* requests that can run at once
    NoWorker,      \* no lock holder
    MaxChallenge   \* bound: step-up challenges issued

ASSUME PasskeyAssumption ==
    /\ BreakGlass \subseteq Passkey /\ IsFiniteSet(Passkey) /\ IsFiniteSet(Worker) /\ Worker # {}
    /\ NoWorker \notin Worker /\ MaxChallenge \in Nat

VARIABLES
    enrolled,    \* committed webauthn_credentials rows of the account
    account,     \* the committed users row: tier, status
    challenge,   \* committed sessions.stepup_challenge, 0 for NULL
    issued,      \* challenges issued
    rowLock,     \* rowLock[r]: the request that holds row r ("session" or a passkey)
    job,         \* job[w] is the request w is serving
    spent,       \* challenges a verification has committed an answer to (history)
    steady       \* an active admin with two strong passkeys at first, and one ever since (history)

passkeyVars == <<enrolled, account, challenge, issued, rowLock, job, spent, steady>>

Strong(s) == s \ BreakGlass
ActiveAdmin(u) == u.tier = "admin" /\ u.status = "active"
NoJob == [op |-> "none", pc |-> "idle"]

PasskeyInit ==
    /\ enrolled = Passkey
    /\ account \in [tier : {"admin", "user"}, status : {"active", "disabled"}]
    /\ challenge = 0 /\ issued = 0
    /\ rowLock = [r \in Passkey \cup {"session"} |-> NoWorker]
    /\ job = [w \in Worker |-> NoJob]
    /\ spent = {}
    /\ steady = (ActiveAdmin(account) /\ Cardinality(Strong(enrolled)) >= 2)

Released(w) == [r \in DOMAIN rowLock |-> IF rowLock[r] = w THEN NoWorker ELSE rowLock[r]]
Grab(w, r) == rowLock[r] = NoWorker /\ rowLock' = [rowLock EXCEPT ![r] = w]
Doing(w, op, pc) == job[w].op = op /\ job[w].pc = pc
Finish(w) == job' = [job EXCEPT ![w] = NoJob] /\ rowLock' = Released(w)

-----------------------------------------------------------------------------
(* delete_credential *)

\* The user and the credential are read.
DeleteLoad(w, p) ==
    /\ Doing(w, "none", "idle") /\ p \in enrolled
    /\ job' = [job EXCEPT ![w] = [op |-> "delete", pc |-> "loaded", pk |-> p, user |-> account]]
    /\ UNCHANGED <<enrolled, account, challenge, issued, rowLock, spent, steady>>

\* An active admin keeps two strong passkeys, by the count of this moment.
MayDelete_one(w) == job[w].pk \in BreakGlass \/ ~ActiveAdmin(job[w].user) \/ Cardinality(Strong(enrolled)) > 1
MayDelete(w) == job[w].pk \in BreakGlass \/ ~ActiveAdmin(job[w].user) \/ Cardinality(Strong(enrolled)) > 2

DeleteCount(w) ==
    /\ Doing(w, "delete", "loaded")
    /\ job' = [job EXCEPT ![w] = IF MayDelete(w) THEN [@ EXCEPT !.pc = "counted"] ELSE NoJob]
    /\ UNCHANGED <<enrolled, account, challenge, issued, rowLock, spent, steady>>

\* DELETE waits for the row; a row already gone is only a warning.
DeleteRow(w) ==
    /\ Doing(w, "delete", "counted")
    /\ Grab(w, job[w].pk)
    /\ job' = [job EXCEPT ![w].pc = "deleted"]
    /\ UNCHANGED <<enrolled, account, challenge, issued, spent, steady>>

DeleteCommit(w) ==
    /\ Doing(w, "delete", "deleted")
    /\ enrolled' = enrolled \ {job[w].pk}
    /\ Finish(w)
    /\ UNCHANGED <<account, challenge, issued, spent, steady>>

-----------------------------------------------------------------------------
(* patch_user, of an account that is not protected *)

PatchLoad(w, tier, status) ==
    /\ Doing(w, "none", "idle")
    /\ job' = [job EXCEPT ![w] = [op |-> "patch", pc |-> "loaded", user |-> account,
                                  want |-> [tier |-> tier, status |-> status]]]
    /\ UNCHANGED <<enrolled, account, challenge, issued, rowLock, spent, steady>>

\* Promotion to the admin tier requires two strong passkeys; activation does not.
PatchCount(w) ==
    /\ Doing(w, "patch", "loaded")
    /\ LET promotes == job[w].want.tier = "admin" /\ job[w].user.tier # "admin"
       IN  job' = [job EXCEPT ![w] = IF promotes => Cardinality(Strong(enrolled)) >= 2
                                     THEN [@ EXCEPT !.pc = "counted"] ELSE NoJob]
    /\ UNCHANGED <<enrolled, account, challenge, issued, rowLock, spent, steady>>

\* The UPDATE sets the columns the request changed with respect to what it read.
PatchCommit(w) ==
    LET old == job[w].user
        want == job[w].want
        new == [f \in {"tier", "status"} |-> IF want[f] # old[f] THEN want[f] ELSE account[f]]
    IN  /\ Doing(w, "patch", "counted")
        /\ account' = [tier |-> new["tier"], status |-> new["status"]]
        /\ steady' = (steady /\ ActiveAdmin(account'))
        /\ Finish(w)
        /\ UNCHANGED <<enrolled, challenge, issued, spent>>

-----------------------------------------------------------------------------
(* stepup_options and stepup_verify *)

\* stepup_options: an admin with a passkey gets a new challenge.
StepupOptions(w) ==
    /\ Doing(w, "none", "idle") /\ issued < MaxChallenge
    /\ account.tier = "admin" /\ enrolled # {}
    /\ Grab(w, "session")
    /\ issued' = issued + 1
    /\ job' = [job EXCEPT ![w] = [op |-> "options", pc |-> "set", ch |-> issued']]
    /\ UNCHANGED <<enrolled, account, challenge, spent, steady>>

OptionsCommit(w) ==
    /\ Doing(w, "options", "set")
    /\ challenge' = job[w].ch
    /\ Finish(w)
    /\ UNCHANGED <<enrolled, account, issued, spent, steady>>

\* stepup_verify reads the session, without a lock; `answer` is the challenge the
\* browser's passkey p signed.  Without a challenge the request ends.
VerifyLoad(w, p, answer) ==
    /\ Doing(w, "none", "idle") /\ account.tier = "admin" /\ challenge # 0
    /\ job' = [job EXCEPT ![w] = [op |-> "verify", pc |-> "loaded", pk |-> p, answer |-> answer,
                                  ch |-> challenge]]
    /\ UNCHANGED <<enrolled, account, challenge, issued, rowLock, spent, steady>>

\* The flush that clears the challenge waits for the session's row.
VerifyClear(w) ==
    /\ Doing(w, "verify", "loaded")
    /\ Grab(w, "session")
    /\ job' = [job EXCEPT ![w].pc = "cleared"]
    /\ UNCHANGED <<enrolled, account, challenge, issued, spent, steady>>

\* The challenge once a verification with this verdict is committed.
Cleared_accepted(ok) == IF ok THEN 0 ELSE challenge
Cleared(ok) == 0

\* An unknown passkey or a wrong answer: the refusal commits, challenge cleared.
VerifyRefuse(w) ==
    /\ Doing(w, "verify", "cleared")
    /\ job[w].pk \notin enrolled \/ job[w].answer # job[w].ch
    /\ challenge' = Cleared(FALSE)
    /\ spent' = spent \cup {job[w].ch}
    /\ Finish(w)
    /\ UNCHANGED <<enrolled, account, issued, steady>>

VerifyAccept(w) ==
    /\ Doing(w, "verify", "cleared")
    /\ job[w].pk \in enrolled /\ job[w].answer = job[w].ch
    /\ job' = [job EXCEPT ![w].pc = "accepted"]
    /\ UNCHANGED <<enrolled, account, challenge, issued, rowLock, spent, steady>>

\* The flush writes the sign count: the UPDATE waits for the passkey's row, and one
\* deleted since it was read is an error that rolls the request back.
RowMatched(p) == p \in enrolled

VerifyWrite(w) ==
    /\ Doing(w, "verify", "accepted") /\ RowMatched(job[w].pk)
    /\ Grab(w, job[w].pk)
    /\ job' = [job EXCEPT ![w].pc = "written"]
    /\ UNCHANGED <<enrolled, account, challenge, issued, spent, steady>>

VerifyStale(w) ==
    /\ Doing(w, "verify", "accepted") /\ ~RowMatched(job[w].pk)
    /\ Finish(w)
    /\ UNCHANGED <<enrolled, account, challenge, issued, spent, steady>>

VerifyCommit(w) ==
    /\ Doing(w, "verify", "written")
    /\ challenge' = Cleared(TRUE)
    /\ spent' = spent \cup {job[w].ch}
    /\ Finish(w)
    /\ UNCHANGED <<enrolled, account, issued, steady>>

PasskeyNext ==
    \E w \in Worker :
       \/ \E p \in Passkey : DeleteLoad(w, p)
       \/ DeleteCount(w) \/ DeleteRow(w) \/ DeleteCommit(w)
       \/ \E tier \in {"admin", "user"}, status \in {"active", "disabled"} : PatchLoad(w, tier, status)
       \/ PatchCount(w) \/ PatchCommit(w)
       \/ StepupOptions(w) \/ OptionsCommit(w)
       \/ \E p \in Passkey, answer \in 1 .. issued : VerifyLoad(w, p, answer)
       \/ VerifyClear(w) \/ VerifyRefuse(w) \/ VerifyAccept(w) \/ VerifyWrite(w)
       \/ VerifyStale(w) \/ VerifyCommit(w)

PasskeySpec == PasskeyInit /\ [][PasskeyNext]_passkeyVars

-----------------------------------------------------------------------------
(* Properties *)

PasskeyTypeOK ==
    /\ enrolled \subseteq Passkey
    /\ account \in [tier : {"admin", "user"}, status : {"active", "disabled"}]
    /\ challenge \in 0 .. MaxChallenge /\ issued \in 0 .. MaxChallenge
    /\ rowLock \in [Passkey \cup {"session"} -> Worker \cup {NoWorker}]
    /\ \A w \in Worker : job[w].op \in {"none", "delete", "patch", "options", "verify"}
    /\ spent \subseteq 1 .. MaxChallenge /\ steady \in BOOLEAN

\* The count and the deletion are two statements and nothing locks the user: the
\* floor of two strong passkeys of an account that stays an active admin can be
\* undercut, but only by requests that overlap, by one passkey each beyond the first.
\* (An account that was disabled or of another tier in between may have fewer: its
\* deletions are not counted, and activation does not count.)
AuthenticatorFloor ==
    steady => Cardinality(Strong(enrolled)) + Cardinality(Worker) >= 3

\* A challenge is gone once an answer to it, right or wrong, is committed: only
\* verifications that had read the session before can still use it.
SpentChallengeGone == challenge \notin spent
=============================================================================
