----------------------------- MODULE PublicGate -----------------------------
(***************************************************************************)
(* The password gate of a public resource (authz/publicgate.py) and the     *)
(* administration that changes what its link grants (rotate_public_password *)
(* and patch_resource in admin/routes/resources.py).                        *)
(*                                                                          *)
(* Each request is one READ COMMITTED transaction; a step is one statement. *)
(* A row written by an open transaction is locked until it commits; a       *)
(* session's INSERT takes only a KEY SHARE lock on the resource row, so it  *)
(* does not wait for an administrator's UPDATE.  Passwords are the numbers  *)
(* of their generation, 0 for none.                                         *)
(***************************************************************************)
EXTENDS Naturals, FiniteSets

CONSTANTS
    Visitor,       \* submits of the gate's form
    Editor,        \* administrators' requests
    GateSession,   \* public_sessions rows
    MaxPassword,   \* bound: passwords generated
    MaxVisits,     \* bound: submits begun
    MaxEdits       \* bound: administrators' requests begun

ASSUME GateAssumption == {MaxVisits, MaxEdits} \subseteq Nat /\ MaxPassword \in Nat \ {0}

VARIABLES
    link,      \* the resource row, committed: on (public_access), enabled, paths, pw
    psess,     \* public_sessions, committed: the row's state, and the link it was opened on
    visit,     \* visit[v]: a gate_submit in progress
    edit,      \* edit[e]: an administrator's request in progress
    pwCount,   \* passwords generated so far
    begun      \* submits and edits begun (bounds)

gateVars == <<link, psess, visit, edit, pwCount, begun>>

Password == 0 .. MaxPassword
PathSet == {"p", "q"}
Link == [on : BOOLEAN, enabled : BOOLEAN, paths : PathSet, pw : Password]

NoRow == [st |-> "none"]
\* seen: the resource row its submit read; late: that submit overlapped a
\* revocation, or two edits of the row overlapped since (history).
SessionRow == [st : {"live", "revoked", "expired"}, seen : Link, late : BOOLEAN]

IdleVisit == [pc |-> "idle"]
Visits == {IdleVisit} \cup [pc : {"check", "verify", "commit"}, typed : Password,
                            seen : Link, late : BOOLEAN]

IdleEdit == [pc |-> "idle"]
Edits == {IdleEdit} \cup [pc : {"update", "revoke", "commit"}, was : Link, row : Link,
                          hits : SUBSET GateSession]

GateInit ==
    /\ link = [on |-> TRUE, enabled |-> TRUE, paths |-> "p", pw |-> 1]
    /\ psess = [s \in GateSession |-> NoRow]
    /\ visit = [v \in Visitor |-> IdleVisit]
    /\ edit = [e \in Editor |-> IdleEdit]
    /\ pwCount = 1
    /\ begun = [visits |-> 0, edits |-> 0]

-----------------------------------------------------------------------------
\* What invalidates the sessions: a rotation, public mode turned off, other
\* paths, or the resource disabled, judged on the row this request read.  (A patch
\* that disables a disabled resource once more is left out: nothing is reachable.)
GrantChanged_noPaths(e) ==
    LET was == edit[e].was  row == edit[e].row IN
    \/ row.on /\ row.pw # was.pw
    \/ was.on /\ ~row.on
    \/ was.on /\ row.enabled # was.enabled /\ ~row.enabled
GrantChanged(e) ==
    LET was == edit[e].was  row == edit[e].row IN
    \/ row.on /\ row.pw # was.pw
    \/ was.on /\ ~row.on
    \/ row.on /\ row.paths # was.paths
    \/ was.on /\ row.enabled # was.enabled /\ ~row.enabled

\* A revoking editor has run its UPDATE of the sessions and not yet committed.
RevocationOpen == \E e \in Editor : edit[e].pc = "commit" /\ GrantChanged(e)

-----------------------------------------------------------------------------
(* The gate *)

\* _resource_for_request: the enabled, public resource with this host.
Reachable == link.on /\ link.enabled

\* gate_submit up to the throttle.  A form with a bad CSRF value, and one for a
\* host with no public resource, change nothing.
BeginVisit(v, typed) ==
    /\ visit[v] = IdleVisit /\ begun.visits < MaxVisits
    /\ Reachable
    /\ typed \in 1 .. pwCount
    /\ visit' = [visit EXCEPT ![v] =
                   [pc |-> "check", typed |-> typed, seen |-> link, late |-> FALSE]]
    /\ begun' = [begun EXCEPT !.visits = @ + 1]
    /\ UNCHANGED <<link, psess, edit, pwCount>>

\* ratelimit.check: the visitor is let through or turned away (see Throttle).
ThrottleCheck(v) ==
    /\ visit[v].pc = "check"
    /\ \/ visit' = [visit EXCEPT ![v].pc = "verify"]
       \/ visit' = [visit EXCEPT ![v] = IdleVisit]
    /\ UNCHANGED <<link, psess, edit, pwCount, begun>>

\* verify_password against the hash read before, and the INSERT of the session.
\* A resource with no password never accepts.
PasswordAccepted(v) == visit[v].seen.pw # 0 /\ visit[v].typed = visit[v].seen.pw
Verify(v) ==
    /\ visit[v].pc = "verify"
    /\ visit' = [visit EXCEPT ![v] =
                   IF PasswordAccepted(v) THEN [@ EXCEPT !.pc = "commit"] ELSE IdleVisit]
    /\ UNCHANGED <<link, psess, edit, pwCount, begun>>

\* The session row becomes visible.
CommitVisit(v, s) ==
    /\ visit[v].pc = "commit" /\ psess[s] = NoRow
    /\ psess' = [psess EXCEPT ![s] = [st |-> "live", seen |-> visit[v].seen,
                                      late |-> visit[v].late \/ RevocationOpen]]
    /\ visit' = [visit EXCEPT ![v] = IdleVisit]
    /\ UNCHANGED <<link, edit, pwCount, begun>>

ExpireSession(s) ==
    /\ psess[s].st = "live"
    /\ psess' = [psess EXCEPT ![s].st = "expired"]
    /\ UNCHANGED <<link, visit, edit, pwCount, begun>>

-----------------------------------------------------------------------------
(* Administration *)

Begin(e, row) ==
    /\ edit[e] = IdleEdit /\ begun.edits < MaxEdits
    /\ edit' = [edit EXCEPT ![e] = [pc |-> "update", was |-> link, row |-> row, hits |-> {}]]
    /\ begun' = [begun EXCEPT !.edits = @ + 1]
    /\ UNCHANGED <<link, psess, visit>>

\* rotate_public_password reads the row and puts a fresh password on it.
BeginRotate(e) ==
    /\ link.on
    /\ pwCount < MaxPassword
    /\ pwCount' = pwCount + 1
    /\ Begin(e, [link EXCEPT !.pw = pwCount + 1])

\* patch_resource reads the row and merges the patch; a resource that is not
\* public keeps no password.  A PATCH never mints one.
Merged(on, enabled, paths) ==
    [on |-> on, enabled |-> enabled, paths |-> paths, pw |-> IF on THEN link.pw ELSE 0]
BeginPatch(e, on, enabled, paths) ==
    /\ Merged(on, enabled, paths) # link
    /\ UNCHANGED pwCount
    /\ Begin(e, Merged(on, enabled, paths))

\* The ORM's UPDATE of the resource row: only the columns this request changed,
\* onto whatever the row holds now.
Changed(e, row) ==
    [f \in DOMAIN row |-> IF edit[e].row[f] # edit[e].was[f] THEN edit[e].row[f] ELSE row[f]]

\* The row is locked by an editor between its UPDATE and its commit.
RowFree == \A e \in Editor : edit[e].pc \notin {"revoke", "commit"}
UpdateRow(e) ==
    /\ edit[e].pc = "update" /\ RowFree
    /\ edit' = [edit EXCEPT ![e].pc = "revoke"]
    /\ UNCHANGED <<link, psess, visit, pwCount, begun>>

\* revoke_public_sessions: one UPDATE over the sessions committed by now.
Revoke(e) ==
    /\ edit[e].pc = "revoke"
    /\ edit' = [edit EXCEPT ![e].pc = "commit",
                            ![e].hits = IF GrantChanged(e)
                                          THEN {s \in GateSession : psess[s].st \in {"live", "expired"}}
                                          ELSE {}]
    /\ UNCHANGED <<link, psess, visit, pwCount, begun>>

\* The commit: the row and the revocations become visible together.  The edit is
\* stale if the row is no longer the one it read.
CommitEdit(e) ==
    /\ edit[e].pc = "commit"
    /\ link' = Changed(e, link)
    /\ psess' = [s \in GateSession |->
                   IF s \in edit[e].hits THEN [psess[s] EXCEPT !.st = "revoked"]
                   ELSE IF psess[s] # NoRow /\ edit[e].was # link
                          THEN [psess[s] EXCEPT !.late = TRUE] ELSE psess[s]]
    /\ visit' = [v \in Visitor |->
                   IF visit[v] # IdleVisit /\ (GrantChanged(e) \/ edit[e].was # link)
                     THEN [visit[v] EXCEPT !.late = TRUE] ELSE visit[v]]
    /\ edit' = [edit EXCEPT ![e] = IdleEdit]
    /\ UNCHANGED <<pwCount, begun>>

-----------------------------------------------------------------------------
GateNext ==
    \/ \E v \in Visitor, p \in Password : BeginVisit(v, p)
    \/ \E v \in Visitor : ThrottleCheck(v) \/ Verify(v)
    \/ \E v \in Visitor, s \in GateSession : CommitVisit(v, s)
    \/ \E s \in GateSession : ExpireSession(s)
    \/ \E e \in Editor : BeginRotate(e) \/ UpdateRow(e) \/ Revoke(e) \/ CommitEdit(e)
    \/ \E e \in Editor, on, en \in BOOLEAN, p \in PathSet : BeginPatch(e, on, en, p)

GateSpec == GateInit /\ [][GateNext]_gateVars
-----------------------------------------------------------------------------
(* Properties *)

GateTypeOK ==
    /\ link \in Link
    /\ psess \in [GateSession -> {NoRow} \cup SessionRow]
    /\ visit \in [Visitor -> Visits]
    /\ edit \in [Editor -> Edits]
    /\ pwCount \in Password
    /\ begun \in [visits : 0 .. MaxVisits, edits : 0 .. MaxEdits]

\* Rotating the password, turning public mode off, editing the paths or disabling
\* the resource ends every session on the link: a live session was opened on the
\* link exactly as it is now, unless its own submit overlapped the revocation or
\* two edits of the row overlapped.
SessionGrantCurrent ==
    \A s \in GateSession :
        psess[s] # NoRow /\ psess[s].st = "live" /\ ~psess[s].late => psess[s].seen = link

=============================================================================
