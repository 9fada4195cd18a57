------------------------------ MODULE Downloads ------------------------------
(***************************************************************************)
(* The portal's download requests (admin/routes/portal.py): a user's        *)
(* request waits for an administrator, who approves it (and the magnet goes *)
(* to qBittorrent) or denies it; an administrator's own request goes to     *)
(* qBittorrent at once.                                                     *)
(*                                                                          *)
(* Each request is one transaction.  The call to qBittorrent is made inside *)
(* it, before the commit: its answer can be lost, and the process can stop  *)
(* between the call and the commit.                                         *)
(***************************************************************************)
EXTENDS Naturals, FiniteSets

CONSTANTS
    Download,      \* download_requests rows
    Reviewer,      \* administrators' requests in progress
    MaxAdds        \* bound: calls made to qBittorrent for one row

ASSUME DownloadAssumption == MaxAdds \in Nat

VARIABLES
    status,    \* status[d]: the committed status, "none" before the row exists
    review,    \* review[r]: a handler, and the row it works on
    added,     \* added[d]: times qBittorrent took the magnet (external)
    calls,     \* calls[d]: calls made (bound)
    unknown    \* unknown[d]: times it took it and no committed row says so (history)

downloadVars == <<status, review, added, calls, unknown>>

Status == {"none", "pending", "approved", "denied"}

NoReview == [pc |-> "idle"]

\* "submit": about to call; "approved", "failed", "denied": the row's new status
\* is flushed and not yet committed.  new: the row itself is not committed yet.
Reviews ==
    {NoReview} \cup
    [pc : {"submit", "approved", "failed", "denied"}, on : Download, new : BOOLEAN]

DownloadInit ==
    /\ status = [d \in Download |-> "none"]
    /\ review = [r \in Reviewer |-> NoReview]
    /\ added = [d \in Download |-> 0]
    /\ calls = [d \in Download |-> 0]
    /\ unknown = [d \in Download |-> 0]

\* The handlers that have row d locked, or inserted and not committed.
At(d) == {r \in Reviewer : review[r] # NoReview /\ review[r].on = d}

Start(r, d, pc, new) ==
    /\ review[r] = NoReview
    /\ review' = [review EXCEPT ![r] = [pc |-> pc, on |-> d, new |-> new]]
    /\ UNCHANGED <<status, added, calls, unknown>>

\* create_download by a standard user: the row waits for review.
CreatePending(d) ==
    /\ status[d] = "none" /\ At(d) = {}
    /\ status' = [status EXCEPT ![d] = "pending"]
    /\ UNCHANGED <<review, added, calls, unknown>>

\* create_download by an administrator: inserted, and submitted in the same
\* transaction.
CreateAndSubmit(r, d) == status[d] = "none" /\ At(d) = {} /\ Start(r, d, "submit", TRUE)

\* _pending_or_error: SELECT ... FOR UPDATE waits for whoever holds the row and
\* reads it afterwards; a row that is not pending is refused with a 409.
ForUpdate_none(d) == TRUE
ForUpdate(d) == At(d) = {}

Pending(d) == status[d] = "pending"

Approve(r, d) == ForUpdate(d) /\ Pending(d) /\ Start(r, d, "submit", FALSE)

Deny(r, d) == ForUpdate(d) /\ Pending(d) /\ Start(r, d, "denied", FALSE)

\* _submit: the call, and what the transaction makes of its outcome.  A refusal, an
\* unusable row and an unreachable qBittorrent all leave the row pending with its
\* error; an answer that is lost does so although the magnet was taken.
Submit(r) ==
    LET d == review[r].on IN
    /\ review[r].pc = "submit" /\ calls[d] < MaxAdds
    /\ calls' = [calls EXCEPT ![d] = @ + 1]
    /\ \/ /\ review' = [review EXCEPT ![r].pc = "approved"]
          /\ added' = [added EXCEPT ![d] = @ + 1]
          /\ UNCHANGED unknown
       \/ /\ review' = [review EXCEPT ![r].pc = "failed"]
          /\ UNCHANGED <<added, unknown>>
       \/ /\ review' = [review EXCEPT ![r].pc = "failed"]
          /\ added' = [added EXCEPT ![d] = @ + 1]
          /\ unknown' = [unknown EXCEPT ![d] = @ + 1]
    /\ UNCHANGED status

\* The transaction commits; a failure leaves the row pending, for a retry.
CommitReview(r) ==
    LET d == review[r].on IN
    /\ review[r].pc \in {"approved", "failed", "denied"}
    /\ status' = [status EXCEPT ![d] = IF review[r].pc # "failed" THEN review[r].pc
                                       ELSE IF review[r].new THEN "pending" ELSE @]
    /\ review' = [review EXCEPT ![r] = NoReview]
    /\ UNCHANGED <<added, calls, unknown>>

\* The process stops, or the connection to the database is lost: rolled back.
Abort(r) ==
    LET d == review[r].on IN
    /\ review[r] # NoReview
    /\ review' = [review EXCEPT ![r] = NoReview]
    /\ unknown' = IF review[r].pc = "approved" THEN [unknown EXCEPT ![d] = @ + 1] ELSE unknown
    /\ UNCHANGED <<status, added, calls>>

DownloadNext ==
    \/ \E d \in Download : CreatePending(d)
    \/ \E r \in Reviewer, d \in Download : CreateAndSubmit(r, d) \/ Approve(r, d) \/ Deny(r, d)
    \/ \E r \in Reviewer : Submit(r) \/ CommitReview(r) \/ Abort(r)

DownloadSpec == DownloadInit /\ [][DownloadNext]_downloadVars

-----------------------------------------------------------------------------
(* Properties *)

DownloadTypeOK ==
    /\ status \in [Download -> Status]
    /\ review \in [Reviewer -> Reviews]
    /\ added \in [Download -> Nat]
    /\ calls \in [Download -> 0 .. MaxAdds]
    /\ unknown \in [Download -> Nat]

\* A handler's accepted call that has not been committed yet.
InFlight(d) == {r \in At(d) : review[r].pc = "approved"}

\* Two administrators who review at once cannot submit twice: qBittorrent took the
\* magnet once for an approved row and never for another, beyond the calls whose
\* outcome was lost with the answer or with the transaction.
SubmittedOnce ==
    \A d \in Download :
        added[d] = unknown[d] + (IF status[d] = "approved" \/ InFlight(d) # {} THEN 1 ELSE 0)

\* A decision is final: an approved or denied row never changes again, whoever was
\* reviewing it at the same time.
DecisionFinal ==
    [][\A d \in Download :
         status[d] \in {"approved", "denied"} => status'[d] = status[d]]_downloadVars
=============================================================================
