------------------------- MODULE AdminServices_proof -------------------------
(***************************************************************************)
(* What Policy, Downloads and LogRotate promise, for every value of their   *)
(* constants.                                                               *)
(***************************************************************************)
EXTENDS Policy, Downloads, LogRotate, FiniteSetTheorems, TLAPS

-----------------------------------------------------------------------------
(* The policy engine.                                                        *)

(* A rule that applies to some request is among the relevant ones, and an    *)
(* unconstrained relevant rule applies to every request (rule_applies).      *)
LEMMA AppliesIsRelevant ==
    ASSUME NEW r, NEW roles, NEW port, NEW path, NEW now
    PROVE  /\ rule_applies(r, roles, port, path, now) => Relevant(r, roles, port)
           /\ Relevant(r, roles, port) /\ Unconstrained(r) => rule_applies(r, roles, port, path, now)
BY DEF rule_applies, Unconstrained, time_window_matches

(* A host-stable allow does not depend on the path and the time it was found *)
(* at, because no relevant rule denies and one allows without a constraint.  *)
LEMMA StableVerdict ==
    ASSUME NEW roles, NEW port, NEW allowed, host_stable(allowed, roles, port),
           NEW p, NEW t
    PROVE  evaluate(roles, port, p, t)
<1>1. PICK i \in Rules :
        /\ Relevant(policies[i], roles, port)
        /\ policies[i].action = "allow" /\ Unconstrained(policies[i])
  BY DEF host_stable
<1>2. rule_applies(policies[i], roles, port, p, t)
  BY <1>1, AppliesIsRelevant
<1>3. ASSUME NEW j \in Rules, rule_applies(policies[j], roles, port, p, t)
      PROVE  policies[j].action # "deny"
  <2>1. Relevant(policies[j], roles, port)
    BY <1>3, AppliesIsRelevant
  <2> QED
    BY <2>1 DEF host_stable
<1> QED
  BY <1>1, <1>2, <1>3 DEF evaluate

(* The data plane may answer from a host-wide cached allow: whatever rules   *)
(* administrators create, change and delete, an allow found host-stable on   *)
(* one path at one moment is the verdict on every path at every moment       *)
(* (_host_stable against engine.evaluate).                                   *)
THEOREM HostStableAlways == PolicySpec => []HostStableSound
<1>1. HostStableSound
  BY StableVerdict DEF HostStableSound
<1> QED
  BY <1>1, PTL

(* Minutes from a on to b, past midnight when b is earlier. *)
Ahead(a, b) == IF a <= b THEN b - a ELSE (b + Day) - a

(* A window that crosses midnight is no special case: a minute is in a window *)
(* exactly if, counting from the window's start around the clock, it comes no *)
(* later than the window's end (time_window_matches).                         *)
THEOREM WindowIsCyclic ==
    ASSUME NEW s \in 0 .. Day - 1, NEW e \in 0 .. Day - 1, NEW m \in 0 .. Day - 1,
           NEW w, w.start = s, w.end = e
    PROVE  InWindow(w, m) <=> Ahead(s, m) <= Ahead(s, e)
BY PolicyAssumption DEF InWindow, Ahead

(* Administrators leave the rows of the table well-formed: a rule is either    *)
(* absent or has all its columns (create_policy, patch_policy, delete_policy). *)
THEOREM PolicyTypes == PolicySpec => []PolicyTypeOK
<1>1. PolicyInit => PolicyTypeOK
  BY DEF PolicyInit, PolicyTypeOK
<1>2. PolicyTypeOK /\ [PolicyNext]_policies => PolicyTypeOK'
  <2> SUFFICES ASSUME PolicyTypeOK, [PolicyNext]_policies PROVE PolicyTypeOK'
    OBVIOUS
  <2>1. ASSUME NEW i \in RuleId, NEW row \in PolicyRow, create_policy(i, row) \/ patch_policy(i, row)
        PROVE  PolicyTypeOK'
    BY <2>1 DEF create_policy, patch_policy, PolicyTypeOK
  <2>2. ASSUME NEW i \in RuleId, delete_policy(i) PROVE PolicyTypeOK'
    BY <2>2 DEF delete_policy, PolicyTypeOK
  <2>3. CASE UNCHANGED policies
    BY <2>3 DEF PolicyTypeOK
  <2> QED
    BY <2>1, <2>2, <2>3 DEF PolicyNext
<1> QED
  BY <1>1, <1>2, PTL DEF PolicySpec

-----------------------------------------------------------------------------
(* The reviewed downloads.                                                   *)

(* The row lock admits one handler at a time ... *)
Exclusive == \A d \in Download : \A r, s \in At(d) : r = s

(* ... and while a handler has a row, nobody else decides it: the committed   *)
(* status is still the one the handler found.                                 *)
Undecided ==
    \A r \in Reviewer :
        review[r] # NoReview =>
            status[review[r].on] = IF review[r].new THEN "none" ELSE "pending"

DownloadInv == DownloadTypeOK /\ Exclusive /\ Undecided /\ SubmittedOnce

(* A handler's record is of one of the two shapes. *)
LEMMA ReviewShape ==
    ASSUME DownloadTypeOK, NEW r \in Reviewer
    PROVE  /\ review[r].pc # "idle" <=> review[r] # NoReview
           /\ review[r] # NoReview =>
                /\ review[r].on \in Download /\ review[r].new \in BOOLEAN
                /\ review[r].pc \in {"submit", "approved", "failed", "denied"}
BY DEF DownloadTypeOK, Reviews, NoReview

(* Nothing is requested at first. *)
LEMMA InitDownloads == DownloadInit => DownloadInv
<1> SUFFICES ASSUME DownloadInit PROVE DownloadInv
  OBVIOUS
<1>1. DownloadTypeOK
  BY DownloadAssumption DEF DownloadInit, DownloadTypeOK, Reviews, Status
<1>2. \A d \in Download : At(d) = {} /\ InFlight(d) = {}
  BY DEF DownloadInit, At, InFlight
<1>3. Exclusive /\ Undecided
  BY <1>2 DEF DownloadInit, Exclusive, Undecided
<1>4. SubmittedOnce
  BY <1>2 DEF DownloadInit, SubmittedOnce
<1> QED
  BY <1>1, <1>3, <1>4 DEF DownloadInv

(* A new row that waits for review disturbs no handler. *)
LEMMA CreateRowKeeps ==
    ASSUME DownloadInv, NEW d \in Download, CreatePending(d)
    PROVE  DownloadInv'
<1> USE DEF DownloadInv
<1>1. DownloadTypeOK'
  BY DEF CreatePending, DownloadTypeOK, Status
<1>2. Exclusive'
  BY DEF CreatePending, Exclusive, At
<1>3. Undecided'
  BY ReviewShape DEF CreatePending, Undecided, At, DownloadTypeOK
<1>4. SubmittedOnce'
  BY DEF CreatePending, SubmittedOnce, InFlight, At, DownloadTypeOK
<1> QED
  BY <1>1, <1>2, <1>3, <1>4

(* A handler that starts finds the row free, pending or not yet existing. *)
LEMMA StartReviewKeeps ==
    ASSUME DownloadInv, NEW r \in Reviewer, NEW d \in Download,
           NEW pc \in {"submit", "denied"}, NEW new \in BOOLEAN,
           Start(r, d, pc, new), At(d) = {}, status[d] = IF new THEN "none" ELSE "pending"
    PROVE  DownloadInv'
<1> USE DEF DownloadInv
<1> DEFINE rec == [pc |-> pc, on |-> d, new |-> new]
<1>0. /\ review' = [review EXCEPT ![r] = rec]
      /\ UNCHANGED <<status, added, calls, unknown>>
      /\ review[r] = NoReview
      /\ review \in [Reviewer -> Reviews]
  BY DEF Start, DownloadTypeOK
<1>1. rec \in Reviews /\ rec # NoReview /\ rec.on = d /\ rec.new = new /\ rec.pc = pc
  BY DEF Reviews, NoReview
<1>2. DownloadTypeOK'
  BY <1>0, <1>1 DEF DownloadTypeOK
<1>3. \A s \in Reviewer : review'[s] = IF s = r THEN rec ELSE review[s]
  BY <1>0
<1>4. /\ At(d)' = {r}
      /\ \A x \in Download \ {d} : At(x)' = At(x)
  BY <1>0, <1>1, <1>3 DEF At
<1>5. Exclusive'
  BY <1>4 DEF Exclusive
<1>6. Undecided'
  BY <1>0, <1>1, <1>3 DEF Undecided
<1>7. \A x \in Download : InFlight(x)' = InFlight(x)
  <2>1. InFlight(d) = {} /\ InFlight(d)' = {}
    BY <1>1, <1>3, <1>4 DEF InFlight
  <2>2. \A x \in Download \ {d} : InFlight(x)' = InFlight(x)
    BY <1>3, <1>4 DEF InFlight, At
  <2> QED
    BY <2>1, <2>2
<1>8. SubmittedOnce'
  BY <1>0, <1>7 DEF SubmittedOnce
<1> QED
  BY <1>2, <1>5, <1>6, <1>8

(* The call to qBittorrent: taken and in flight, refused, or taken unnoticed. *)
LEMMA SubmitRowKeeps ==
    ASSUME DownloadInv, NEW r \in Reviewer, Submit(r)
    PROVE  DownloadInv'
<1> USE DEF DownloadInv
<1> PICK d \in Download : d = review[r].on
  BY ReviewShape DEF Submit
<1>0. /\ review[r].pc = "submit" /\ review[r] # NoReview
      /\ review \in [Reviewer -> Reviews] /\ calls[d] < MaxAdds /\ status' = status
      /\ calls' = [calls EXCEPT ![d] = @ + 1]
  BY ReviewShape DEF Submit, DownloadTypeOK
<1>1. PICK pc \in {"approved", "failed"} : review' = [review EXCEPT ![r].pc = pc]
  BY DEF Submit
<1>2. /\ review'[r] # NoReview /\ review'[r].on = d /\ review'[r].new = review[r].new
      /\ review'[r].pc = pc /\ review'[r] \in Reviews
      /\ \A s \in Reviewer \ {r} : review'[s] = review[s]
  BY <1>0, <1>1 DEF Reviews, NoReview
<1>3. review' \in [Reviewer -> Reviews]
  BY <1>0, <1>1, <1>2
<1>4. DownloadTypeOK'
  BY <1>0, <1>3, DownloadAssumption DEF Submit, DownloadTypeOK
<1>5. \A x \in Download : At(x)' = At(x)
  BY <1>0, <1>2 DEF At
<1>6. Exclusive' /\ Undecided'
  BY <1>0, <1>2, <1>5 DEF Exclusive, Undecided
<1>7. /\ InFlight(d) = {}
      /\ InFlight(d)' # {} <=> pc = "approved"
      /\ \A x \in Download \ {d} : InFlight(x)' = InFlight(x)
  <2>1. At(d) = {r} /\ At(d)' = {r}
    BY <1>0, <1>5 DEF Exclusive, At
  <2> QED
    BY <1>0, <1>2, <1>5, <2>1 DEF InFlight, At
<1>8. status[d] # "approved"
  BY <1>0 DEF Undecided
<1>9. \/ pc = "approved" /\ added' = [added EXCEPT ![d] = @ + 1] /\ unknown' = unknown
      \/ pc = "failed" /\ added' = added /\ unknown' = unknown
      \/ pc = "failed" /\ added' = [added EXCEPT ![d] = @ + 1]
                       /\ unknown' = [unknown EXCEPT ![d] = @ + 1]
  BY <1>0, <1>1, <1>2 DEF Submit, Reviews, NoReview
<1>10. SubmittedOnce'
  <2> SUFFICES ASSUME NEW x \in Download
               PROVE  added'[x] = unknown'[x] +
                        (IF status'[x] = "approved" \/ InFlight(x)' # {} THEN 1 ELSE 0)
    BY DEF SubmittedOnce
  <2>1. CASE x = d
    BY <2>1, <1>0, <1>7, <1>8, <1>9 DEF SubmittedOnce, DownloadTypeOK
  <2>2. CASE x # d
    BY <2>2, <1>0, <1>7, <1>9 DEF SubmittedOnce, DownloadTypeOK
  <2> QED
    BY <2>1, <2>2
<1> QED
  BY <1>4, <1>6, <1>10

(* A handler that ends: its row is free, the others are as they were. *)
LEMMA EndFrees ==
    ASSUME DownloadInv, NEW r \in Reviewer, review[r] # NoReview,
           NEW d \in Download, d = review[r].on,
           review' = [review EXCEPT ![r] = NoReview]
    PROVE  /\ review' \in [Reviewer -> Reviews]
           /\ \A x \in Download \ {d} : InFlight(x)' = InFlight(x)
           /\ InFlight(d)' = {}
           /\ InFlight(d) # {} <=> review[r].pc = "approved"
           /\ Exclusive'
           /\ \A s \in Reviewer : review'[s] # NoReview =>
                review'[s] = review[s] /\ review[s].on # d
<1> USE DEF DownloadInv
<1>0. review \in [Reviewer -> Reviews]
  BY DEF DownloadTypeOK
<1>1. \A s \in Reviewer : review'[s] = IF s = r THEN NoReview ELSE review[s]
  BY <1>0
<1>2. review' \in [Reviewer -> Reviews]
  BY <1>0 DEF Reviews
<1>3. At(d) = {r}
  BY DEF At, Exclusive
<1>4. At(d)' = {}
  BY <1>1, <1>3 DEF At
<1>5. \A x \in Download \ {d} : At(x)' = At(x)
  BY <1>1 DEF At
<1>6. \A x \in Download \ {d} : InFlight(x)' = InFlight(x)
  BY <1>1, <1>5 DEF InFlight, At
<1>7. InFlight(d)' = {} /\ (InFlight(d) # {} <=> review[r].pc = "approved")
  BY <1>3, <1>4 DEF InFlight
<1>8. Exclusive'
  BY <1>4, <1>5 DEF Exclusive
<1>9. \A s \in Reviewer : review'[s] # NoReview => review'[s] = review[s] /\ review[s].on # d
  BY <1>1, <1>3 DEF At
<1> QED
  BY <1>2, <1>6, <1>7, <1>8, <1>9

(* A commit publishes the decision of the one handler that had the row. *)
LEMMA CommitReviewKeeps ==
    ASSUME DownloadInv, NEW r \in Reviewer, CommitReview(r)
    PROVE  DownloadInv'
<1> USE DEF DownloadInv
<1> PICK d \in Download : d = review[r].on
  BY ReviewShape DEF CommitReview
<1> DEFINE new == IF review[r].pc # "failed" THEN review[r].pc
                  ELSE IF review[r].new THEN "pending" ELSE status[d]
<1>0. /\ review[r] # NoReview /\ review[r].pc \in {"approved", "failed", "denied"}
      /\ status' = [status EXCEPT ![d] = new] /\ review' = [review EXCEPT ![r] = NoReview]
      /\ UNCHANGED <<added, calls, unknown>> /\ new \in Status
  BY ReviewShape DEF CommitReview, DownloadTypeOK, Status
<1>e. /\ review' \in [Reviewer -> Reviews]
      /\ \A x \in Download \ {d} : InFlight(x)' = InFlight(x)
      /\ InFlight(d)' = {}
      /\ InFlight(d) # {} <=> review[r].pc = "approved"
      /\ Exclusive'
      /\ \A s \in Reviewer : review'[s] # NoReview => review'[s] = review[s] /\ review[s].on # d
  BY <1>0, EndFrees
<1>1. DownloadTypeOK'
  BY <1>0, <1>e DEF DownloadTypeOK
<1>2. Exclusive'
  BY <1>e
<1>3. Undecided'
  BY <1>0, <1>e DEF Undecided, DownloadTypeOK
<1>4. status[d] # "approved" /\ (new = "approved" <=> review[r].pc = "approved")
  BY <1>0 DEF Undecided
<1>5. SubmittedOnce'
  <2> SUFFICES ASSUME NEW x \in Download
               PROVE  added'[x] = unknown'[x] +
                        (IF status'[x] = "approved" \/ InFlight(x)' # {} THEN 1 ELSE 0)
    BY DEF SubmittedOnce
  <2>1. CASE x = d
    BY <2>1, <1>0, <1>4, <1>e DEF SubmittedOnce, DownloadTypeOK
  <2>2. CASE x # d
    BY <2>2, <1>0, <1>e DEF SubmittedOnce, DownloadTypeOK
  <2> QED
    BY <2>1, <2>2
<1> QED
  BY <1>1, <1>2, <1>3, <1>5

(* A handler that dies after its call was accepted makes that call unknown. *)
LEMMA AbortKeeps ==
    ASSUME DownloadInv, NEW r \in Reviewer, Abort(r)
    PROVE  DownloadInv'
<1> USE DEF DownloadInv
<1> PICK d \in Download : d = review[r].on
  BY ReviewShape DEF Abort
<1>0. /\ review[r] # NoReview /\ review' = [review EXCEPT ![r] = NoReview]
      /\ unknown' = IF review[r].pc = "approved" THEN [unknown EXCEPT ![d] = @ + 1] ELSE unknown
      /\ UNCHANGED <<status, added, calls>>
  BY ReviewShape DEF Abort
<1>e. /\ review' \in [Reviewer -> Reviews]
      /\ \A x \in Download \ {d} : InFlight(x)' = InFlight(x)
      /\ InFlight(d)' = {}
      /\ InFlight(d) # {} <=> review[r].pc = "approved"
      /\ Exclusive'
      /\ \A s \in Reviewer : review'[s] # NoReview => review'[s] = review[s] /\ review[s].on # d
  BY <1>0, EndFrees
<1>1. DownloadTypeOK'
  BY <1>0, <1>e DEF DownloadTypeOK
<1>2. Exclusive'
  BY <1>e
<1>3. Undecided'
  BY <1>0, <1>e DEF Undecided
<1>4. status[d] # "approved"
  BY <1>0 DEF Undecided
<1>5. SubmittedOnce'
  <2> SUFFICES ASSUME NEW x \in Download
               PROVE  added'[x] = unknown'[x] +
                        (IF status'[x] = "approved" \/ InFlight(x)' # {} THEN 1 ELSE 0)
    BY DEF SubmittedOnce
  <2>1. CASE x = d
    BY <2>1, <1>0, <1>4, <1>e DEF SubmittedOnce, DownloadTypeOK
  <2>2. CASE x # d
    BY <2>2, <1>0, <1>e DEF SubmittedOnce, DownloadTypeOK
  <2> QED
    BY <2>1, <2>2
<1> QED
  BY <1>1, <1>2, <1>3, <1>5

(* Every step keeps the invariant. *)
LEMMA NextKeeps == DownloadInv /\ [DownloadNext]_downloadVars => DownloadInv'
<1> SUFFICES ASSUME DownloadInv, [DownloadNext]_downloadVars
             PROVE  DownloadInv'
  OBVIOUS
<1>1. CASE UNCHANGED downloadVars
  BY <1>1 DEF downloadVars, DownloadInv, DownloadTypeOK, Exclusive, Undecided, SubmittedOnce,
              At, InFlight
<1>2. ASSUME NEW d \in Download, CreatePending(d) PROVE DownloadInv'
  BY <1>2, CreateRowKeeps
<1>3. ASSUME NEW r \in Reviewer, NEW d \in Download, CreateAndSubmit(r, d) PROVE DownloadInv'
  BY <1>3, StartReviewKeeps DEF CreateAndSubmit
<1>4. ASSUME NEW r \in Reviewer, NEW d \in Download, Approve(r, d) PROVE DownloadInv'
  BY <1>4, StartReviewKeeps DEF Approve, ForUpdate, Pending
<1>5. ASSUME NEW r \in Reviewer, NEW d \in Download, Deny(r, d) PROVE DownloadInv'
  BY <1>5, StartReviewKeeps DEF Deny, ForUpdate, Pending
<1>6. ASSUME NEW r \in Reviewer, Submit(r) \/ CommitReview(r) \/ Abort(r) PROVE DownloadInv'
  BY <1>6, SubmitRowKeeps, CommitReviewKeeps, AbortKeeps
<1> QED
  BY <1>1, <1>2, <1>3, <1>4, <1>5, <1>6 DEF DownloadNext

(* The invariant: types, one handler for a row, no decision behind its back,  *)
(* and the count of calls qBittorrent accepted.                               *)
THEOREM DownloadInvariant == DownloadSpec => []DownloadInv
BY InitDownloads, NextKeeps, PTL DEF DownloadSpec

(* However reviews, retries, lost answers and crashes interleave, a magnet is  *)
(* taken once for an approved row and never for another, beyond the calls     *)
(* whose outcome was lost (_pending_or_error, _submit).                       *)
THEOREM SubmittedOnceAlways == DownloadSpec => []SubmittedOnce
BY DownloadInvariant, PTL DEF DownloadInv

(* Only a row that is not decided yet changes its status. *)
LEMMA StepKeepsDecision ==
    ASSUME DownloadInv, [DownloadNext]_downloadVars, NEW d \in Download,
           status[d] \in {"approved", "denied"}
    PROVE  status'[d] = status[d]
<1>1. CASE UNCHANGED status
  BY <1>1
<1>2. ASSUME NEW x \in Download, CreatePending(x) PROVE status'[d] = status[d]
  BY <1>2 DEF CreatePending, DownloadInv, DownloadTypeOK
<1>3. ASSUME NEW r \in Reviewer, CommitReview(r) PROVE status'[d] = status[d]
  <2>1. review[r] # NoReview /\ status[review[r].on] \notin {"approved", "denied"}
    BY <1>3, ReviewShape DEF CommitReview, DownloadInv, Undecided
  <2> QED
    BY <1>3, <2>1 DEF CommitReview, DownloadInv, DownloadTypeOK
<1> QED
  BY <1>1, <1>2, <1>3 DEF DownloadNext, downloadVars, CreateAndSubmit, Approve, Deny, Start, Submit,
                          Abort

(* An approved or denied download keeps its decision for ever (409 for every  *)
(* later review).                                                             *)
THEOREM DecisionIsFinal == DownloadSpec => DecisionFinal
<1>1. DownloadInv /\ [DownloadNext]_downloadVars =>
        [\A d \in Download : status[d] \in {"approved", "denied"} => status'[d] = status[d]]_downloadVars
  BY StepKeepsDecision
<1> QED
  BY <1>1, DownloadInvariant, PTL DEF DownloadSpec, DecisionFinal

-----------------------------------------------------------------------------
(* The log writer.                                                           *)

(* The lines of file i of f and of all its files, and its empty archives up to n. *)
In(f, i) == {f[i][j] : j \in 1 .. Len(f[i])}
All(f) == UNION {In(f, i) : i \in 0 .. Backups}
Holes(f, n) == {j \in 1 .. n : f[j] = <<>>}

Files(n) == [0 .. Backups -> Seq(1 .. n)]

(* The files f are in order: every line of an older file is older.         *)
Ordered(f) ==
    /\ \A i \in 0 .. Backups : Ascending(f[i])
    /\ \A i, j \in 0 .. Backups : i < j => \A l \in In(f, i), m \in In(f, j) : m < l

(* Of the lines st they have the newest.                                   *)
KeepsNewest(f, st) ==
    /\ All(f) \subseteq st
    /\ \A l \in All(f), m \in st : l < m => m \in All(f)

(* An archive is full or empty.  Each empty one below a full one, and each *)
(* empty one at all once a line has been removed, is due to a mishap.      *)
Filled(f, st, h) ==
    /\ \A i \in 1 .. Backups : Len(f[i]) \in {0, MaxBytes}
    /\ \A i \in 1 .. Backups : f[i] # <<>> => Cardinality(Holes(f, i)) <= h
    /\ All(f) = st \/ Cardinality(Holes(f, Backups)) <= h

(* The live file is as long as the writer believes, while it is open.      *)
LiveOK ==
    /\ isOpen \in BOOLEAN
    /\ size \in Nat /\ size <= lines
    /\ Len(file[0]) <= size /\ (isOpen => Len(file[0]) = size)
    /\ MaxBytes > 0 => size <= MaxBytes

LogInv ==
    /\ lines \in 0 .. MaxLines /\ mishaps \in 0 .. lines
    /\ stored \subseteq 1 .. lines
    /\ file \in Files(lines)
    /\ LiveOK
    /\ Ordered(file) /\ KeepsNewest(file, stored) /\ Filled(file, stored, mishaps)

(* The bounds are numbers and there is an archive. *)
LEMMA LogBounds == MaxBytes \in Nat /\ MaxLines \in Nat /\ Backups \in Nat /\ Backups >= 1
BY LogAssumption

(* Sequences of lines. *)
LEMMA LineSeq ==
    ASSUME NEW n \in Nat, NEW f \in Files(n), NEW i \in 0 .. Backups
    PROVE  /\ f[i] \in Seq(1 .. n) /\ Len(f[i]) \in Nat
           /\ In(f, i) \subseteq 1 .. n
           /\ In(f, i) = {} <=> f[i] = <<>>
           /\ f[i] = <<>> <=> Len(f[i]) = 0
<1>1. f[i] \in Seq(1 .. n)
  BY DEF Files
<1>2. Len(f[i]) \in Nat /\ \A j \in 1 .. Len(f[i]) : f[i][j] \in 1 .. n
  BY <1>1
<1>3. f[i] = <<>> <=> Len(f[i]) = 0
  BY <1>1
<1>4. ASSUME Len(f[i]) # 0 PROVE In(f, i) # {}
  <2>1. 1 \in 1 .. Len(f[i])
    BY <1>2, <1>4
  <2>2. f[i][1] \in In(f, i)
    BY <2>1 DEF In
  <2> QED
    BY <2>2
<1>5. ASSUME Len(f[i]) = 0 PROVE In(f, i) = {}
  BY <1>5 DEF In
<1> QED
  BY <1>1, <1>2, <1>3, <1>4, <1>5 DEF In

(* The empty archives are finitely many. *)
LEMMA HolesFinite ==
    ASSUME NEW f, NEW n \in Nat
    PROVE  IsFiniteSet(Holes(f, n)) /\ Cardinality(Holes(f, n)) \in Nat
<1>1. IsFiniteSet(1 .. n)
  BY FS_Interval
<1>2. IsFiniteSet(Holes(f, n))
  BY <1>1, FS_Subset DEF Holes
<1> QED
  BY <1>2, FS_CardinalityType

(* Numbers shifted by one are as many. *)
LEMMA ShiftedSet ==
    ASSUME NEW H \in SUBSET Nat, IsFiniteSet(H)
    PROVE  /\ IsFiniteSet({j + 1 : j \in H})
           /\ Cardinality({j + 1 : j \in H}) <= Cardinality(H)
<1> DEFINE T == {j + 1 : j \in H}
           g == [j \in H |-> j + 1]
<1>1. g \in Surjection(H, T)
  BY DEF Surjection
<1> QED
  BY <1>1, FS_Surjection

(* The shift moves every archive to the next and removes the oldest. *)
LEMMA ShiftMoves ==
    ASSUME NEW n \in Nat, NEW f \in Files(n)
    PROVE  /\ Shifted(f) \in Files(n) /\ Rotated(f) \in Files(n)
           /\ Shifted(f)[0] = f[0] /\ Shifted(f)[1] = <<>>
           /\ Rotated(f)[0] = <<>> /\ Rotated(f)[1] = f[0]
           /\ \A i \in 2 .. Backups : Shifted(f)[i] = f[i - 1] /\ Rotated(f)[i] = f[i - 1]
<1>1. 0 \in 0 .. Backups /\ 1 \in 0 .. Backups /\ \A i \in 2 .. Backups : i \in 0 .. Backups /\ i - 1 \in 0 .. Backups /\ i # 0 /\ i # 1
  BY LogBounds
<1>2. <<>> \in Seq(1 .. n) /\ \A i \in 0 .. Backups : f[i] \in Seq(1 .. n)
  BY DEF Files
<1>3. ASSUME NEW i \in 0 .. Backups
      PROVE  Shifted(f)[i] = (IF i = 0 THEN f[0] ELSE IF i = 1 THEN <<>> ELSE f[i - 1])
  BY DEF Shifted
<1>4. \A i \in 0 .. Backups : i # 0 /\ i # 1 => i \in 2 .. Backups
  BY LogBounds
<1>5. Shifted(f) \in Files(n)
  BY <1>1, <1>2, <1>4 DEF Shifted, Files
<1>6. Rotated(f) \in Files(n)
  BY <1>1, <1>2, <1>5 DEF Rotated, Files
<1>7. Shifted(f)[0] = f[0] /\ Shifted(f)[1] = <<>> /\ \A i \in 2 .. Backups : Shifted(f)[i] = f[i - 1]
  BY <1>1, <1>3
<1>8. DOMAIN Shifted(f) = 0 .. Backups
  BY <1>5 DEF Files
<1>9. Rotated(f)[0] = <<>> /\ Rotated(f)[1] = f[0] /\ \A i \in 2 .. Backups : Rotated(f)[i] = Shifted(f)[i]
  BY <1>1, <1>8 DEF Rotated
<1> QED
  BY <1>5, <1>6, <1>7, <1>9

(* Files that are moved in order, the oldest at most removed, stay in order *)
(* and keep the newest lines.                                               *)
LEMMA MoveKeeps ==
    ASSUME NEW n \in Nat, NEW f \in Files(n), NEW g \in Files(n), NEW st \in SUBSET Nat,
           NEW s \in [0 .. Backups -> 0 .. Backups],
           \A i \in 0 .. Backups : g[i] = <<>> \/ g[i] = f[s[i]],
           \A i, j \in 0 .. Backups : i < j /\ g[i] # <<>> /\ g[j] # <<>> => s[i] < s[j],
           \A k \in 0 .. Backups - 1 : f[k] # <<>> => \E i \in 0 .. Backups : g[i] = f[k],
           Ordered(f), KeepsNewest(f, st)
    PROVE  /\ Ordered(g) /\ KeepsNewest(g, st)
           /\ f[Backups] = <<>> => All(g) = All(f)
<1>1. ASSUME NEW i \in 0 .. Backups, g[i] # <<>>
      PROVE  s[i] \in 0 .. Backups /\ g[i] = f[s[i]] /\ In(g, i) = In(f, s[i])
  BY <1>1 DEF In
<1>2. ASSUME NEW i \in 0 .. Backups, NEW l \in In(g, i)
      PROVE  g[i] # <<>> /\ l \in In(f, s[i]) /\ l \in Nat
  <2>1. g[i] # <<>>
    BY LineSeq
  <2> QED
    BY <1>1, <2>1, LineSeq
<1>3. Ordered(g)
  <2>1. \A i \in 0 .. Backups : Ascending(g[i])
    <3>1. Ascending(<<>>)
      BY DEF Ascending
    <3> QED
      BY <3>1 DEF Ordered
  <2>2. ASSUME NEW i \in 0 .. Backups, NEW j \in 0 .. Backups, i < j,
               NEW l \in In(g, i), NEW m \in In(g, j)
        PROVE  m < l
    BY <1>2, <2>2 DEF Ordered
  <2> QED
    BY <2>1, <2>2 DEF Ordered
<1>4. All(g) \subseteq All(f)
  <2>1. ASSUME NEW i \in 0 .. Backups, NEW l \in In(g, i) PROVE l \in All(f)
    BY <1>2, <2>1 DEF All
  <2> QED
    BY <2>1 DEF All
<1>5. ASSUME NEW k \in 0 .. Backups - 1, NEW l \in In(f, k) PROVE l \in All(g)
  <2>0. k \in 0 .. Backups
    BY LogBounds
  <2>1. f[k] # <<>>
    BY <2>0, LineSeq
  <2>2. PICK i \in 0 .. Backups : g[i] = f[k]
    BY <2>1
  <2>3. l \in In(g, i)
    BY <2>2 DEF In
  <2> QED
    BY <2>3 DEF All
<1>6. ASSUME NEW l \in All(g), NEW m \in st, l < m PROVE m \in All(g)
  <2>1. m \in All(f)
    BY <1>4, <1>6 DEF KeepsNewest
  <2>2. PICK k \in 0 .. Backups : m \in In(f, k)
    BY <2>1 DEF All
  <2>3. CASE k = Backups
    <3>1. PICK i \in 0 .. Backups : l \in In(g, i)
      BY DEF All
    <3>2. s[i] \in 0 .. Backups /\ l \in In(f, s[i]) /\ g[i] = f[s[i]] /\ l \in Nat /\ m \in Nat
      BY <1>1, <1>2, <3>1
    <3>3. CASE s[i] = Backups
      <4>1. m \in In(g, i)
        BY <2>2, <2>3, <3>2, <3>3 DEF In
      <4> QED
        BY <4>1 DEF All
    <3>4. CASE s[i] < Backups
      <4>1. m < l
        BY <2>2, <2>3, <3>2, <3>4 DEF Ordered
      <4> QED
        BY <1>6, <3>2, <4>1
    <3> QED
      BY <3>2, <3>3, <3>4, LogBounds
  <2>4. CASE k # Backups
    <3>1. k \in 0 .. Backups - 1
      BY <2>4, LogBounds
    <3> QED
      BY <1>5, <2>2, <3>1
  <2> QED
    BY <2>3, <2>4
<1>7. ASSUME f[Backups] = <<>> PROVE All(f) \subseteq All(g)
  <2>1. ASSUME NEW k \in 0 .. Backups, NEW l \in In(f, k) PROVE l \in All(g)
    <3>1. k # Backups
      BY <1>7, LineSeq
    <3>2. k \in 0 .. Backups - 1
      BY <3>1, LogBounds
    <3> QED
      BY <1>5, <3>2
  <2> QED
    BY <2>1 DEF All
<1> QED
  BY <1>3, <1>4, <1>6, <1>7 DEF KeepsNewest

(* The empty archives after a shift: each is one further, and there may be a new one. *)
LEMMA ShiftHoles ==
    ASSUME NEW n \in Nat, NEW f \in Files(n), NEW g, NEW b \in 1 .. Backups,
           \A i \in 2 .. Backups : g[i] = f[i - 1]
    PROVE  /\ Cardinality(Holes(g, b)) <= Cardinality(Holes(f, b - 1)) + 1
           /\ g[1] # <<>> => Cardinality(Holes(g, b)) <= Cardinality(Holes(f, b - 1))
           /\ Cardinality(Holes(f, b - 1)) <= Cardinality(Holes(f, b))
<1> DEFINE H == Holes(f, b - 1)
           T == {j + 1 : j \in H}
<1>1. b \in Nat /\ b - 1 \in Nat /\ b <= Backups /\ Backups \in Nat
  BY LogBounds
<1>2. H \in SUBSET Nat /\ IsFiniteSet(H) /\ IsFiniteSet(Holes(f, b)) /\ IsFiniteSet(Holes(g, b))
  BY <1>1, HolesFinite DEF Holes
<1>3. IsFiniteSet(T) /\ Cardinality(T) <= Cardinality(H)
  BY <1>2, ShiftedSet
<1>4. ASSUME NEW j \in Holes(g, b), j # 1 PROVE j \in T
  <2>1. j \in 2 .. Backups /\ j - 1 \in 1 .. b - 1 /\ g[j] = <<>>
    BY <1>1, <1>4 DEF Holes
  <2>2. j - 1 \in H
    BY <2>1 DEF Holes
  <2>3. j = (j - 1) + 1
    BY <2>1
  <2> QED
    BY <2>2, <2>3
<1>5. Holes(g, b) \in SUBSET (T \cup {1})
  BY <1>4
<1>6. g[1] # <<>> => Holes(g, b) \in SUBSET T
  BY <1>4 DEF Holes
<1>7. IsFiniteSet(T \cup {1}) /\ Cardinality(T \cup {1}) <= Cardinality(T) + 1
  <2>1. IsFiniteSet(T \cup {1})
        /\ Cardinality(T \cup {1}) = IF 1 \in T THEN Cardinality(T) ELSE Cardinality(T) + 1
    BY <1>3, FS_AddElement
  <2> QED
    BY <1>3, <2>1, FS_CardinalityType
<1>8. Cardinality(Holes(g, b)) <= Cardinality(T \cup {1})
  BY <1>5, <1>7, FS_Subset
<1>9. g[1] # <<>> => Cardinality(Holes(g, b)) <= Cardinality(T)
  BY <1>3, <1>6, FS_Subset
<1>10. H \in SUBSET Holes(f, b)
  BY <1>1 DEF Holes
<1>11. Cardinality(H) <= Cardinality(Holes(f, b))
  BY <1>2, <1>10, FS_Subset
<1>12. {Cardinality(H), Cardinality(T), Cardinality(T \cup {1}), Cardinality(Holes(g, b)),
        Cardinality(Holes(f, b))} \subseteq Nat
  BY <1>2, <1>3, <1>7, FS_CardinalityType
<1> HIDE DEF H, T
<1>13. Cardinality(Holes(g, b)) <= Cardinality(H) + 1
  BY <1>3, <1>7, <1>8, <1>12
<1>14. g[1] # <<>> => Cardinality(Holes(g, b)) <= Cardinality(H)
  BY <1>3, <1>9, <1>12
<1> QED
  BY <1>11, <1>13, <1>14 DEF H

(* So a shift keeps the archives filled, at the price of one mishap if nothing follows. *)
LEMMA ShiftFills ==
    ASSUME NEW n \in Nat, NEW f \in Files(n), NEW g, NEW st, NEW h \in Nat, NEW k \in Nat,
           \A i \in 2 .. Backups : g[i] = f[i - 1],
           Len(g[1]) \in {0, MaxBytes},
           g[1] = <<>> \/ Len(g[1]) # 0,
           k >= h, g[1] = <<>> => k = h + 1,
           f[Backups] = <<>> => All(g) = All(f),
           Filled(f, st, h)
    PROVE  Filled(g, st, k)
<1>0. Backups \in Nat /\ Backups >= 1 /\ Backups \in 1 .. Backups
  BY LogBounds
<1>1. ASSUME NEW i \in 1 .. Backups PROVE Len(g[i]) \in {0, MaxBytes}
  <2>1. CASE i = 1
    BY <2>1
  <2>2. CASE i # 1
    <3>1. i \in 2 .. Backups /\ i - 1 \in 1 .. Backups
      BY <1>0, <2>2
    <3> QED
      BY <3>1 DEF Filled
  <2> QED
    BY <2>1, <2>2
<1>2. ASSUME NEW b \in 1 .. Backups, Cardinality(Holes(f, b - 1)) <= h
      PROVE  Cardinality(Holes(g, b)) <= k
  <2>1. b \in Nat /\ b - 1 \in Nat
    BY <1>0
  <2>2. Cardinality(Holes(f, b - 1)) \in Nat /\ Cardinality(Holes(g, b)) \in Nat
    BY <2>1, HolesFinite
  <2>3. CASE g[1] = <<>>
    BY <1>2, <2>2, <2>3, ShiftHoles
  <2>4. CASE g[1] # <<>>
    BY <1>2, <2>2, <2>4, ShiftHoles
  <2> QED
    BY <2>3, <2>4
<1>3. ASSUME NEW i \in 1 .. Backups, g[i] # <<>> PROVE Cardinality(Holes(g, i)) <= k
  <2>1. CASE i = 1
    <3>1. Holes(f, i - 1) = {}
      BY <2>1 DEF Holes
    <3>0. Cardinality(Holes(f, i - 1)) = 0
      BY <3>1, FS_EmptySet
    <3>2. Cardinality(Holes(f, i - 1)) <= h
      BY <3>0
    <3> QED
      BY <1>2, <3>2
  <2>2. CASE i # 1
    <3>1. i \in 2 .. Backups /\ i - 1 \in 1 .. Backups
      BY <1>0, <2>2
    <3>2. Cardinality(Holes(f, i - 1)) <= h
      BY <1>3, <3>1 DEF Filled
    <3> QED
      BY <1>2, <3>2
  <2> QED
    BY <2>1, <2>2
<1>4. All(g) = st \/ Cardinality(Holes(g, Backups)) <= k
  <2>1. CASE Cardinality(Holes(f, Backups)) <= h
    <3>1. Cardinality(Holes(f, Backups - 1)) <= Cardinality(Holes(f, Backups))
      BY <1>0, ShiftHoles
    <3>2. Cardinality(Holes(f, Backups - 1)) \in Nat /\ Cardinality(Holes(f, Backups)) \in Nat
      BY <1>0, HolesFinite
    <3>3. Cardinality(Holes(f, Backups - 1)) <= h
      BY <2>1, <3>1, <3>2
    <3> QED
      BY <1>0, <1>2, <3>3
  <2>2. CASE ~(Cardinality(Holes(f, Backups)) <= h)
    <3>1. f[Backups] = <<>> /\ All(f) = st
      BY <1>0, <2>2 DEF Filled
    <3> QED
      BY <3>1
  <2> QED
    BY <2>1, <2>2
<1> QED
  BY <1>1, <1>3, <1>4 DEF Filled

(* The files as they are, after a shift and after a rotation, for one that is due. *)
Chain(f, st, h) == Ordered(f) /\ KeepsNewest(f, st) /\ Filled(f, st, h)

LEMMA ShiftKeeps ==
    ASSUME NEW n \in Nat, NEW f \in Files(n), NEW st \in SUBSET Nat, NEW h \in Nat, Chain(f, st, h)
    PROVE  Chain(Shifted(f), st, h + 1)
<1> DEFINE g == Shifted(f)
           s == [i \in 0 .. Backups |-> IF i = 0 THEN 0 ELSE i - 1]
<1>0. Backups \in Nat /\ Backups >= 1
  BY LogBounds
<1>1. /\ g \in Files(n) /\ g[0] = f[0] /\ g[1] = <<>>
      /\ \A i \in 2 .. Backups : g[i] = f[i - 1]
  BY ShiftMoves
<1>2. s \in [0 .. Backups -> 0 .. Backups]
  BY <1>0
<1> HIDE DEF g
<1>3. \A i \in 0 .. Backups : g[i] = <<>> \/ g[i] = f[s[i]]
  <2> SUFFICES ASSUME NEW i \in 0 .. Backups PROVE g[i] = <<>> \/ g[i] = f[s[i]]
    OBVIOUS
  <2>1. i = 0 \/ i = 1 \/ i \in 2 .. Backups
    BY <1>0
  <2> QED
    BY <1>1, <2>1
<1>4. \A i, j \in 0 .. Backups : i < j /\ g[i] # <<>> /\ g[j] # <<>> => s[i] < s[j]
  <2> SUFFICES ASSUME NEW i \in 0 .. Backups, NEW j \in 0 .. Backups, i < j, g[i] # <<>>, g[j] # <<>>
               PROVE  s[i] < s[j]
    OBVIOUS
  <2>1. i # 1 /\ j # 1 /\ j # 0
    BY <1>0, <1>1
  <2> QED
    BY <1>0, <2>1
<1>5. \A k \in 0 .. Backups - 1 : f[k] # <<>> => \E i \in 0 .. Backups : g[i] = f[k]
  <2> SUFFICES ASSUME NEW k \in 0 .. Backups - 1 PROVE \E i \in 0 .. Backups : g[i] = f[k]
    OBVIOUS
  <2>1. CASE k = 0
    BY <1>0, <1>1, <2>1
  <2>2. CASE k # 0
    <3>1. k + 1 \in 2 .. Backups /\ k + 1 \in 0 .. Backups /\ (k + 1) - 1 = k
      BY <1>0, <2>2
    <3> QED
      BY <1>1, <3>1
  <2> QED
    BY <2>1, <2>2
<1> HIDE DEF s
<1>6. Ordered(g) /\ KeepsNewest(g, st) /\ (f[Backups] = <<>> => All(g) = All(f))
  BY <1>1, <1>2, <1>3, <1>4, <1>5, MoveKeeps DEF Chain
<1>7. Len(g[1]) \in {0, MaxBytes}
  BY <1>1
<1>8. Filled(g, st, h + 1)
  <2>1. h + 1 \in Nat /\ h + 1 >= h
    OBVIOUS
  <2> QED
    BY <1>1, <1>6, <1>7, <2>1, ShiftFills DEF Chain
<1> QED
  BY <1>6, <1>8 DEF Chain, g

(* ... a rotation of a full file ... *)
LEMMA RotateKeeps ==
    ASSUME NEW n \in Nat, NEW f \in Files(n), NEW st \in SUBSET Nat, NEW h \in Nat, Chain(f, st, h),
           Len(f[0]) = MaxBytes, MaxBytes > 0
    PROVE  Chain(Rotated(f), st, h)
<1> DEFINE g == Rotated(f)
           s == [i \in 0 .. Backups |-> IF i = 0 THEN 0 ELSE i - 1]
<1>0. Backups \in Nat /\ Backups >= 1 /\ MaxBytes \in Nat
  BY LogBounds
<1>1. /\ g \in Files(n) /\ g[0] = <<>> /\ g[1] = f[0]
      /\ \A i \in 2 .. Backups : g[i] = f[i - 1]
  BY ShiftMoves
<1>2. s \in [0 .. Backups -> 0 .. Backups]
  BY <1>0
<1> HIDE DEF g
<1>3. \A i \in 0 .. Backups : g[i] = <<>> \/ g[i] = f[s[i]]
  <2> SUFFICES ASSUME NEW i \in 0 .. Backups PROVE g[i] = <<>> \/ g[i] = f[s[i]]
    OBVIOUS
  <2>1. i = 0 \/ i = 1 \/ i \in 2 .. Backups
    BY <1>0
  <2> QED
    BY <1>1, <2>1
<1>4. \A i, j \in 0 .. Backups : i < j /\ g[i] # <<>> /\ g[j] # <<>> => s[i] < s[j]
  <2> SUFFICES ASSUME NEW i \in 0 .. Backups, NEW j \in 0 .. Backups, i < j, g[i] # <<>>, g[j] # <<>>
               PROVE  s[i] < s[j]
    OBVIOUS
  <2>1. i # 0 /\ j # 0
    BY <1>0, <1>1
  <2> QED
    BY <1>0, <2>1
<1>5. \A k \in 0 .. Backups - 1 : f[k] # <<>> => \E i \in 0 .. Backups : g[i] = f[k]
  <2> SUFFICES ASSUME NEW k \in 0 .. Backups - 1 PROVE \E i \in 0 .. Backups : g[i] = f[k]
    OBVIOUS
  <2>1. k + 1 \in 0 .. Backups /\ (k + 1) - 1 = k /\ (k + 1 = 1 \/ k + 1 \in 2 .. Backups)
    BY <1>0
  <2>2. CASE k = 0
    BY <1>0, <1>1, <2>2
  <2>3. CASE k # 0
    <3>1. k + 1 \in 2 .. Backups
      BY <1>0, <2>3
    <3> QED
      BY <1>1, <2>1, <3>1
  <2> QED
    BY <2>2, <2>3
<1> HIDE DEF s
<1>6. Ordered(g) /\ KeepsNewest(g, st) /\ (f[Backups] = <<>> => All(g) = All(f))
  BY <1>1, <1>2, <1>3, <1>4, <1>5, MoveKeeps DEF Chain
<1>7. Len(g[1]) \in {0, MaxBytes} /\ Len(g[1]) # 0 /\ g[1] # <<>>
  <2>1. 0 \in 0 .. Backups
    BY <1>0
  <2> QED
    BY <1>0, <1>1, <2>1, LineSeq
<1>8. Filled(g, st, h)
  <2>1. h >= h
    OBVIOUS
  <2> QED
    BY <1>1, <1>6, <1>7, <2>1, ShiftFills DEF Chain
<1> QED
  BY <1>6, <1>8 DEF Chain, g

(* ... and after the next line, which is newer than all of them, is appended. *)
LEMMA AppendKeeps ==
    ASSUME NEW n \in Nat, NEW f \in Files(n), NEW st \in SUBSET (1 .. n), NEW h \in Nat,
           Chain(f, st, h)
    PROVE  LET g == [f EXCEPT ![0] = Append(@, n + 1)]
           IN  /\ g \in Files(n + 1) /\ Len(g[0]) = Len(f[0]) + 1
               /\ Chain(g, st \cup {n + 1}, h)
<1> DEFINE g == [f EXCEPT ![0] = Append(@, n + 1)]
<1>0. Backups \in Nat /\ Backups >= 1 /\ 0 \in 0 .. Backups /\ n + 1 \in 1 .. n + 1
  BY LogBounds
<1>1. /\ f[0] \in Seq(1 .. n) /\ \A i \in 0 .. Backups : f[i] \in Seq(1 .. n)
      /\ DOMAIN f = 0 .. Backups
  BY <1>0 DEF Files
<1>2. g[0] = Append(f[0], n + 1) /\ \A i \in 0 .. Backups : i # 0 => g[i] = f[i]
  BY <1>0, <1>1
<1>3. /\ Len(g[0]) = Len(f[0]) + 1 /\ g[0][Len(f[0]) + 1] = n + 1
      /\ \A j \in 1 .. Len(f[0]) : g[0][j] = f[0][j]
      /\ Len(f[0]) \in Nat
  BY <1>1, <1>2
<1>4. g \in Files(n + 1)
  <2>1. \A i \in 0 .. Backups : f[i] \in Seq(1 .. n + 1)
    <3>1. 1 .. n \subseteq 1 .. n + 1
      OBVIOUS
    <3> QED
      BY <1>1, <3>1
  <2>2. Append(f[0], n + 1) \in Seq(1 .. n + 1)
    BY <1>0, <2>1
  <2> QED
    BY <1>1, <2>1, <2>2 DEF Files
<1> HIDE DEF g
<1>5. In(g, 0) = In(f, 0) \cup {n + 1}
  <2>1. ASSUME NEW j \in 1 .. Len(g[0]) PROVE g[0][j] \in In(f, 0) \cup {n + 1}
    <3>1. j = Len(f[0]) + 1 \/ j \in 1 .. Len(f[0])
      BY <1>3
    <3> QED
      BY <1>3, <3>1 DEF In
  <2>2. ASSUME NEW j \in 1 .. Len(f[0]) PROVE f[0][j] \in In(g, 0)
    <3>1. j \in 1 .. Len(g[0])
      BY <1>3
    <3> QED
      BY <1>3, <3>1 DEF In
  <2>3. Len(f[0]) + 1 \in 1 .. Len(g[0])
    BY <1>3
  <2>4. n + 1 \in In(g, 0)
    BY <1>3, <2>3 DEF In
  <2> QED
    BY <2>1, <2>2, <2>4 DEF In
<1>6. \A i \in 0 .. Backups : i # 0 => In(g, i) = In(f, i)
  BY <1>2 DEF In
<1>7. \A i \in 0 .. Backups : In(f, i) \subseteq 1 .. n
  BY LineSeq
<1>8. All(g) = All(f) \cup {n + 1} /\ All(f) \subseteq 1 .. n
  BY <1>0, <1>5, <1>6, <1>7 DEF All
<1>9. Ordered(g)
  <2>1. Ascending(g[0])
    <3>1. ASSUME NEW j \in 1 .. Len(g[0]), NEW k \in 1 .. Len(g[0]), j < k PROVE g[0][j] < g[0][k]
      <4>1. j \in 1 .. Len(f[0]) /\ (k \in 1 .. Len(f[0]) \/ k = Len(f[0]) + 1)
        BY <1>3, <3>1
      <4>2. f[0][j] \in 1 .. n
        BY <1>1, <4>1
      <4>3. CASE k \in 1 .. Len(f[0])
        <5>1. f[0][j] < f[0][k]
          BY <1>0, <3>1, <4>1, <4>3 DEF Chain, Ordered, Ascending
        <5> QED
          BY <1>3, <4>1, <4>3, <5>1
      <4>4. CASE k = Len(f[0]) + 1
        BY <1>3, <4>1, <4>2, <4>4
      <4> QED
        BY <4>1, <4>3, <4>4
    <3> QED
      BY <3>1 DEF Ascending
  <2>2. \A i \in 0 .. Backups : Ascending(g[i])
    BY <1>2, <2>1 DEF Chain, Ordered
  <2>3. ASSUME NEW i \in 0 .. Backups, NEW j \in 0 .. Backups, i < j,
               NEW l \in In(g, i), NEW m \in In(g, j)
        PROVE  m < l
    <3>1. j # 0
      BY <1>0, <2>3
    <3>2. m \in In(f, j) /\ m \in 1 .. n
      BY <1>6, <1>7, <3>1
    <3>3. CASE l = n + 1
      BY <3>2, <3>3
    <3>4. CASE l \in In(f, i)
      BY <2>3, <3>2, <3>4 DEF Chain, Ordered
    <3> QED
      BY <1>5, <1>6, <3>3, <3>4
  <2> QED
    BY <2>2, <2>3 DEF Ordered
<1>10. KeepsNewest(g, st \cup {n + 1})
  <2>1. ASSUME NEW l \in All(g), NEW m \in st \cup {n + 1}, l < m PROVE m \in All(g)
    <3>1. CASE m = n + 1
      BY <1>8, <3>1
    <3>2. CASE m \in st
      <4>1. l \in All(f)
        BY <1>8, <2>1, <3>2
      <4> QED
        BY <1>8, <2>1, <3>2, <4>1 DEF Chain, KeepsNewest
    <3> QED
      BY <3>1, <3>2
  <2> QED
    BY <1>8, <2>1 DEF Chain, KeepsNewest
<1>11. Filled(g, st \cup {n + 1}, h)
  <2>1. \A i \in 1 .. Backups : i \in 0 .. Backups /\ i # 0 /\ g[i] = f[i]
    BY <1>0, <1>2
  <2>2. \A i \in 1 .. Backups : Holes(g, i) = Holes(f, i)
    <3> SUFFICES ASSUME NEW i \in 1 .. Backups PROVE Holes(g, i) = Holes(f, i)
      OBVIOUS
    <3>1. \A j \in 1 .. i : j \in 1 .. Backups
      BY <1>0
    <3> QED
      BY <2>1, <3>1 DEF Holes
  <2>3. Backups \in 1 .. Backups
    BY <1>0
  <2> QED
    BY <1>8, <2>1, <2>2, <2>3 DEF Chain, Filled
<1> QED
  BY <1>3, <1>4, <1>9, <1>10, <1>11 DEF Chain, g

(* More lines are a larger type. *)
LEMMA FilesGrow == ASSUME NEW n \in Nat PROVE Files(n) \subseteq Files(n + 1)
<1>1. 1 .. n \subseteq 1 .. n + 1
  OBVIOUS
<1>2. Seq(1 .. n) \subseteq Seq(1 .. n + 1)
  BY <1>1
<1> QED
  BY <1>2 DEF Files

(* Write appends the line to the files it has got, if the descriptor is open. *)
LEMMA PutKeeps ==
    ASSUME lines \in 0 .. MaxLines, lines < MaxLines, stored \subseteq 1 .. lines,
           NEW f \in Files(lines), NEW h \in 0 .. lines + 1, Chain(f, stored, h),
           NEW sz \in Nat, sz <= lines, NEW o \in BOOLEAN,
           Len(f[0]) <= sz, o => Len(f[0]) = sz,
           MaxBytes > 0 => IF o THEN sz + 1 <= MaxBytes ELSE sz <= MaxBytes,
           Put(f, sz, o), mishaps' = h
    PROVE  LogInv'
<1>1. lines \in Nat /\ h \in Nat /\ MaxLines \in Nat /\ MaxBytes \in Nat /\ lines' = lines + 1
  BY LogBounds DEF Put
<1>2. lines' \in 0 .. MaxLines /\ mishaps' \in 0 .. lines'
  BY <1>1
<1>3. 0 \in 0 .. Backups /\ Len(f[0]) \in Nat /\ stored \in SUBSET Nat
  BY <1>1, LogBounds, LineSeq
<1>4. CASE o
  <2> DEFINE g == [f EXCEPT ![0] = Append(@, lines + 1)]
  <2>1. file' = g /\ stored' = stored \cup {lines + 1} /\ size' = sz + 1 /\ isOpen' = TRUE
    BY <1>1, <1>4 DEF Put
  <2>2. g \in Files(lines + 1) /\ Len(g[0]) = Len(f[0]) + 1 /\ Chain(g, stored \cup {lines + 1}, h)
    BY <1>1, AppendKeeps
  <2> HIDE DEF g
  <2>3. LiveOK'
    <3>1. sz + 1 \in Nat /\ sz + 1 <= lines + 1 /\ Len(g[0]) = sz + 1
      BY <1>1, <1>3, <1>4, <2>2
    <3>2. MaxBytes > 0 => sz + 1 <= MaxBytes
      BY <1>4
    <3> QED
      BY <1>1, <2>1, <3>1, <3>2 DEF LiveOK
  <2>4. stored' \subseteq 1 .. lines'
    BY <1>1, <2>1
  <2>5. file' \in Files(lines')
    BY <1>1, <2>1, <2>2
  <2> QED
    BY <1>2, <2>1, <2>2, <2>3, <2>4, <2>5 DEF LogInv, Chain
<1>5. CASE ~o
  <2>1. file' = f /\ stored' = stored /\ size' = sz /\ isOpen' = FALSE
    BY <1>5 DEF Put
  <2>2. LiveOK'
    <3>1. MaxBytes > 0 => sz <= MaxBytes
      BY <1>5
    <3>2. sz <= lines + 1
      BY <1>1
    <3> QED
      BY <1>1, <1>3, <2>1, <3>1, <3>2 DEF LiveOK
  <2>3. stored' \subseteq 1 .. lines'
    BY <1>1, <2>1
  <2>4. file' \in Files(lines')
    BY <1>1, <2>1, FilesGrow
  <2> QED
    BY <1>2, <2>1, <2>2, <2>3, <2>4 DEF LogInv, Chain
<1> QED
  BY <1>4, <1>5

(* The files are empty at first. *)
LEMMA InitLog == LogInit => LogInv
<1> SUFFICES ASSUME LogInit PROVE LogInv
  OBVIOUS
<1>0. Backups \in Nat /\ Backups >= 1 /\ MaxLines \in Nat /\ MaxBytes \in Nat
  BY LogBounds
<1>1. file = [i \in 0 .. Backups |-> <<>>] /\ lines = 0 /\ size = 0 /\ mishaps = 0 /\ stored = {} /\ isOpen = TRUE
  BY DEF LogInit
<1>2. file \in Files(0)
  BY <1>1 DEF Files
<1>3. \A i \in 0 .. Backups : file[i] = <<>> /\ In(file, i) = {}
  BY <1>1 DEF In
<1>4. All(file) = {}
  BY <1>3 DEF All
<1>5. Ordered(file)
  BY <1>3 DEF Ordered, Ascending
<1>6. KeepsNewest(file, stored)
  BY <1>1, <1>4 DEF KeepsNewest
<1>7. Filled(file, stored, mishaps)
  <2>1. \A i \in 1 .. Backups : i \in 0 .. Backups
    BY <1>0
  <2> QED
    BY <1>1, <1>3, <1>4, <2>1 DEF Filled
<1>8. LiveOK
  <2>1. 0 \in 0 .. Backups
    BY <1>0
  <2> QED
    BY <1>0, <1>1, <1>3, <2>1 DEF LiveOK
<1>9. lines \in 0 .. MaxLines /\ mishaps \in 0 .. lines /\ stored \subseteq 1 .. lines
  BY <1>0, <1>1
<1> QED
  BY <1>1, <1>2, <1>5, <1>6, <1>7, <1>8, <1>9 DEF LogInv

(* Every call and every restart keeps the invariant. *)
LEMMA NextLog == LogInv /\ [LogNext]_logVars => LogInv'
<1> SUFFICES ASSUME LogInv, [LogNext]_logVars PROVE LogInv'
  OBVIOUS
<1>0. /\ Backups \in Nat /\ Backups >= 1 /\ MaxLines \in Nat /\ MaxBytes \in Nat
      /\ lines \in Nat /\ mishaps \in Nat /\ mishaps <= lines /\ stored \in SUBSET Nat
      /\ 0 \in 0 .. Backups
  BY LogBounds DEF LogInv
<1>1. file \in Files(lines) /\ Chain(file, stored, mishaps) /\ LiveOK /\ Len(file[0]) \in Nat
  BY <1>0, LineSeq DEF LogInv, Chain
<1>2. CASE Write
  <2>1. MaxBytes > 0 => IF isOpen THEN size + 1 <= MaxBytes ELSE size <= MaxBytes
    BY <1>0, <1>1, <1>2 DEF Write, NeedsRotation, LiveOK
  <2>2. lines < MaxLines /\ Put(file, size, isOpen) /\ mishaps' = mishaps
    BY <1>2 DEF Write
  <2>3. /\ lines \in 0 .. MaxLines /\ stored \subseteq 1 .. lines /\ mishaps \in 0 .. lines + 1
        /\ size \in Nat /\ size <= lines /\ isOpen \in BOOLEAN
        /\ Len(file[0]) <= size /\ (isOpen => Len(file[0]) = size)
    BY <1>0, <1>1 DEF LiveOK, LogInv
  <2> QED
    BY <1>1, <2>1, <2>2, <2>3, PutKeeps
<1>3. ASSUME NeedsRotation, isOpen
      PROVE  /\ Len(file[0]) = MaxBytes /\ MaxBytes > 0 /\ size = MaxBytes
             /\ Rotated(file) \in Files(lines) /\ Shifted(file) \in Files(lines)
             /\ Len(Rotated(file)[0]) = 0 /\ Len(Shifted(file)[0]) = MaxBytes
             /\ Chain(Rotated(file), stored, mishaps)
             /\ Chain(Shifted(file), stored, mishaps + 1)
  <2>1. Len(file[0]) = MaxBytes /\ MaxBytes > 0 /\ size = MaxBytes
    BY <1>0, <1>1, <1>3 DEF NeedsRotation, LiveOK
  <2>2. /\ Rotated(file) \in Files(lines) /\ Shifted(file) \in Files(lines)
        /\ Rotated(file)[0] = <<>> /\ Shifted(file)[0] = file[0]
    BY <1>0, <1>1, ShiftMoves
  <2>3. Chain(Rotated(file), stored, mishaps)
    BY <1>0, <1>1, <2>1, RotateKeeps
  <2>4. Chain(Shifted(file), stored, mishaps + 1)
    BY <1>0, <1>1, ShiftKeeps
  <2> QED
    BY <2>1, <2>2, <2>3, <2>4
<1>4. CASE WriteRotate
  <2>1. lines < MaxLines /\ Put(Rotated(file), 0, TRUE) /\ mishaps' = mishaps /\ NeedsRotation /\ isOpen
    BY <1>4 DEF WriteRotate
  <2>2. MaxBytes > 0 => 0 + 1 <= MaxBytes
    BY <1>0
  <2>3. /\ Rotated(file) \in Files(lines) /\ Len(Rotated(file)[0]) = 0
        /\ Chain(Rotated(file), stored, mishaps)
    BY <1>3, <2>1
  <2>4. /\ lines \in 0 .. MaxLines /\ stored \subseteq 1 .. lines /\ mishaps \in 0 .. lines + 1
        /\ 0 \in Nat /\ 0 <= lines /\ TRUE \in BOOLEAN
    BY <1>0 DEF LogInv
  <2>5. Len(Rotated(file)[0]) <= 0
    BY <2>3
  <2> QED
    BY <2>1, <2>2, <2>3, <2>4, <2>5, PutKeeps
<1>5. CASE WriteRotateFails
  <2>1. lines < MaxLines /\ NeedsRotation
    BY <1>5 DEF WriteRotateFails
  <2>2. CASE Put(file, size, FALSE) /\ UNCHANGED mishaps
    <3>1. /\ lines \in 0 .. MaxLines /\ stored \subseteq 1 .. lines /\ mishaps \in 0 .. lines + 1
          /\ size \in Nat /\ size <= lines /\ FALSE \in BOOLEAN
          /\ Len(file[0]) <= size /\ (MaxBytes > 0 => size <= MaxBytes)
      BY <1>0, <1>1 DEF LiveOK, LogInv
    <3> QED
      BY <1>1, <2>1, <2>2, <3>1, PutKeeps
  <2>3. ASSUME isOpen, NEW f \in {Shifted(file), Rotated(file)}, Put(f, size, FALSE), mishaps' = mishaps + 1
        PROVE  LogInv'
    <3>1. f \in Files(lines) /\ Len(f[0]) <= size /\ size = MaxBytes
      BY <1>0, <1>3, <2>1, <2>3
    <3>2. Chain(f, stored, mishaps + 1)
      <4>1. CASE f = Shifted(file)
        BY <1>3, <2>1, <2>3, <4>1
      <4>2. CASE f = Rotated(file)
        <5>1. Chain(f, stored, mishaps)
          BY <1>3, <2>1, <2>3, <4>2
        <5>2. \A i \in 1 .. Backups : Cardinality(Holes(f, i)) \in Nat
          BY HolesFinite
        <5>3. Backups \in 1 .. Backups
          BY <1>0
        <5>4. Filled(f, stored, mishaps + 1)
          BY <1>0, <5>1, <5>2, <5>3 DEF Chain, Filled
        <5> QED
          BY <5>1, <5>4 DEF Chain
      <4> QED
        BY <4>1, <4>2
    <3>3. mishaps + 1 \in 0 .. lines + 1 /\ size \in Nat /\ size <= lines
      BY <1>0, <1>1 DEF LiveOK
    <3>4. /\ lines \in 0 .. MaxLines /\ stored \subseteq 1 .. lines /\ FALSE \in BOOLEAN
          /\ size <= MaxBytes
      BY <1>0, <3>1 DEF LogInv
    <3> QED
      BY <2>1, <2>3, <3>1, <3>2, <3>3, <3>4, PutKeeps
  <2> QED
    BY <1>5, <2>2, <2>3 DEF WriteRotateFails
<1>6. CASE Restart
  <2>1. isOpen' = TRUE /\ size' = Len(file[0]) /\ UNCHANGED <<file, lines, stored, mishaps>>
    BY <1>6 DEF Restart
  <2>2. LiveOK'
    BY <1>0, <1>1, <2>1 DEF LiveOK
  <2> QED
    BY <2>1, <2>2 DEF LogInv
<1>7. CASE UNCHANGED logVars
  BY <1>7 DEF logVars, LogInv, LiveOK
<1> QED
  BY <1>2, <1>4, <1>5, <1>6, <1>7 DEF LogNext

(* The files, the writer and the lines they hold. *)
THEOREM LogCorrect == LogSpec => []LogInv
BY InitLog, NextLog, PTL DEF LogSpec

(* The lines of the archives that are not empty are a full archive each. *)
LEMMA Capacity ==
    ASSUME LogInv
    PROVE  Kept = stored \/ Cardinality(Kept) + mishaps * MaxBytes >= Backups * MaxBytes
<1>0. /\ Backups \in Nat /\ Backups >= 1 /\ MaxLines \in Nat /\ MaxBytes \in Nat
      /\ lines \in Nat /\ mishaps \in Nat /\ file \in Files(lines)
  BY LogBounds DEF LogInv
<1>1. Kept = All(file)
  BY DEF Kept, LinesOf, All, In
<1> SUFFICES ASSUME Cardinality(Holes(file, Backups)) <= mishaps
             PROVE  Cardinality(Kept) + mishaps * MaxBytes >= Backups * MaxBytes
  BY <1>1 DEF LogInv, Filled
<1> DEFINE H == Holes(file, Backups)
           F == (1 .. Backups) \ H
           P == F \X (1 .. MaxBytes)
           g == [p \in P |-> file[p[1]][p[2]]]
<1>2. IsFiniteSet(1 .. Backups) /\ Cardinality(1 .. Backups) = Backups
  BY <1>0, FS_Interval
<1>3. IsFiniteSet(H) /\ H \subseteq 1 .. Backups
  BY <1>0, HolesFinite DEF Holes
<1>4. IsFiniteSet(F) /\ Cardinality(F) = Backups - Cardinality(H)
  <2>1. IsFiniteSet(F) /\ Cardinality(F) = Cardinality(1 .. Backups) - Cardinality((1 .. Backups) \cap H)
    BY <1>2, FS_Difference
  <2>2. (1 .. Backups) \cap H = H
    BY <1>3
  <2> QED
    BY <1>2, <2>1, <2>2
<1>5. IsFiniteSet(1 .. MaxBytes) /\ Cardinality(1 .. MaxBytes) = MaxBytes
  BY <1>0, FS_Interval
<1>6. IsFiniteSet(P) /\ Cardinality(P) = Cardinality(F) * MaxBytes
  <2>1. IsFiniteSet(P) /\ Cardinality(P) = Cardinality(F) * Cardinality(1 .. MaxBytes)
    BY <1>4, <1>5, FS_Product
  <2> QED
    BY <1>5, <2>1
<1>7. ASSUME NEW i \in F
      PROVE  i \in 0 .. Backups /\ Len(file[i]) = MaxBytes /\ file[i] \in Seq(1 .. lines)
  <2>1. i \in 1 .. Backups /\ i \in 0 .. Backups /\ file[i] # <<>>
    BY <1>0 DEF Holes
  <2> QED
    BY <1>0, <2>1, LineSeq DEF LogInv, Filled
<1>8. ASSUME NEW i \in F, NEW j \in 1 .. MaxBytes
      PROVE  file[i][j] \in In(file, i) /\ file[i][j] \in Kept /\ file[i][j] \in Nat
  <2>1. i \in 0 .. Backups /\ j \in 1 .. Len(file[i]) /\ file[i] \in Seq(1 .. lines)
    BY <1>7
  <2>2. file[i][j] \in In(file, i)
    BY <2>1 DEF In
  <2>3. In(file, i) \subseteq 1 .. lines
    BY <1>0, <2>1, LineSeq
  <2> QED
    BY <1>0, <1>1, <2>1, <2>2, <2>3 DEF All
<1>9. ASSUME NEW i \in F, NEW j \in 1 .. MaxBytes, NEW k \in F, NEW l \in 1 .. MaxBytes,
             file[i][j] = file[k][l]
      PROVE  i = k /\ j = l
  <2>0. file[i][j] \in In(file, i) /\ file[k][l] \in In(file, k) /\ file[i][j] \in Nat
    BY <1>8
  <2>1. i = k
    <3>1. i \in 0 .. Backups /\ k \in 0 .. Backups
      BY <1>7
    <3>2. ~(i < k) /\ ~(k < i)
      <4>1. ASSUME i < k PROVE file[k][l] < file[i][j]
        BY <2>0, <3>1, <4>1 DEF LogInv, Ordered
      <4>2. ASSUME k < i PROVE file[i][j] < file[k][l]
        BY <2>0, <3>1, <4>2 DEF LogInv, Ordered
      <4> QED
        BY <1>9, <2>0, <4>1, <4>2
    <3> QED
      BY <3>1, <3>2
  <2>2. j = l
    <3>1. i \in 0 .. Backups /\ j \in 1 .. Len(file[i]) /\ l \in 1 .. Len(file[i])
      BY <1>7
    <3>2. Ascending(file[i])
      BY <3>1 DEF LogInv, Ordered
    <3>3. (j < l => file[i][j] < file[i][l]) /\ (l < j => file[i][l] < file[i][j])
      BY <3>1, <3>2 DEF Ascending
    <3>4. file[i][l] = file[i][j]
      BY <1>9, <2>1
    <3> QED
      BY <2>0, <3>1, <3>3, <3>4
  <2> QED
    BY <2>1, <2>2
<1>10. g \in Injection(P, Kept)
  <2>1. g \in [P -> Kept]
    BY <1>8
  <2>2. ASSUME NEW p \in P, NEW q \in P, g[p] = g[q] PROVE p = q
    <3>1. p[1] \in F /\ p[2] \in 1 .. MaxBytes /\ q[1] \in F /\ q[2] \in 1 .. MaxBytes
      OBVIOUS
    <3>2. file[p[1]][p[2]] = file[q[1]][q[2]]
      BY <2>2
    <3>3. p[1] = q[1] /\ p[2] = q[2]
      BY <1>9, <3>1, <3>2
    <3> QED
      BY <3>3
  <2> QED
    BY <2>1, <2>2 DEF Injection, IsInjective
<1>11. IsFiniteSet(Kept)
  <2>1. Kept \in SUBSET (1 .. lines)
    BY <1>0, <1>1, LineSeq DEF All
  <2>2. IsFiniteSet(1 .. lines)
    BY <1>0, FS_Interval
  <2> QED
    BY <2>1, <2>2, FS_Subset
<1>12. Cardinality(P) <= Cardinality(Kept)
  BY <1>10, <1>11, FS_Injection
<1>13. Cardinality(H) \in Nat /\ Cardinality(Kept) \in Nat /\ Cardinality(P) \in Nat
  BY <1>3, <1>6, <1>11, FS_CardinalityType
<1>14. Cardinality(H) <= mishaps
  OBVIOUS
<1> HIDE DEF H, F, P
<1>15. (Backups - Cardinality(H)) * MaxBytes = Backups * MaxBytes - Cardinality(H) * MaxBytes
  BY <1>0, <1>13
<1>16. Cardinality(H) * MaxBytes <= mishaps * MaxBytes
  BY <1>0, <1>13, <1>14
<1>17. Cardinality(P) = Backups * MaxBytes - Cardinality(H) * MaxBytes
  BY <1>4, <1>6, <1>15
<1>18. Backups * MaxBytes \in Nat /\ Cardinality(H) * MaxBytes \in Nat /\ mishaps * MaxBytes \in Nat
  BY <1>0, <1>13
<1> QED
  BY <1>12, <1>13, <1>16, <1>17, <1>18

(* The log keeps the newest lines: in order, without a gap, and as many as the  *)
(* archives hold but one archive for each rotation that failed half-way.        *)
THEOREM NewestLinesAlwaysKept == LogSpec => []NewestLinesKept
<1>1. LogInv => NewestLinesKept
  <2> SUFFICES ASSUME LogInv PROVE NewestLinesKept
    OBVIOUS
  <2>1. Kept = All(file) /\ \A i \in 0 .. Backups : LinesOf(i) = In(file, i)
    BY DEF Kept, LinesOf, All, In
  <2>2. Kept = stored \/ Cardinality(Kept) + mishaps * MaxBytes >= Backups * MaxBytes
    BY Capacity
  <2> QED
    BY <2>1, <2>2 DEF NewestLinesKept, LogInv, Ordered, KeepsNewest
<1> QED
  BY <1>1, LogCorrect, PTL

(* The types of the log writer's state. *)
THEOREM LogTypes == LogSpec => []LogTypeOK
<1>1. LogInv => LogTypeOK
  <2> SUFFICES ASSUME LogInv PROVE LogTypeOK
    OBVIOUS
  <2>0. lines \in Nat /\ MaxLines \in Nat /\ lines <= MaxLines /\ file \in Files(lines)
    BY LogBounds DEF LogInv
  <2>1. DOMAIN file = 0 .. Backups /\ \A i \in 0 .. Backups : file[i] \in Seq(1 .. lines)
    BY <2>0 DEF Files
  <2>2. \A i \in 0 .. Backups : \A j \in 1 .. Len(file[i]) : file[i][j] \in 1 .. lines
    <3>1. \A i \in 0 .. Backups : In(file, i) \subseteq 1 .. lines
      BY <2>0, LineSeq
    <3> QED
      BY <3>1 DEF In
  <2>3. isOpen \in BOOLEAN /\ {size, lines, mishaps} \subseteq 0 .. MaxLines
    BY <2>0 DEF LogInv, LiveOK
  <2> QED
    BY <2>1, <2>2, <2>3 DEF LogTypeOK
<1> QED
  BY <1>1, LogCorrect, PTL
=============================================================================
