------------------------ MODULE AccessServices_proof ------------------------
(* What the services around a sign-in promise, for any number of requests:    *)
(* the public password gate (PublicGate), the throttle (Throttle), the        *)
(* passkeys and their step-up challenges (Passkeys) and the shipping of the   *)
(* audit log (AuditShip).  They share no state: each has its own part here.   *)
EXTENDS PublicGate, Throttle, Passkeys, AuditShip, FiniteSetTheorems,
        WellFoundedInduction, TLAPS

-----------------------------------------------------------------------------
(* The public password gate.                                               *)

(* A session that is live and that no revocation or edit overlapped. *)
Sound(s) == psess[s] # NoRow /\ psess[s].st = "live" /\ ~psess[s].late

(* A submit that no revocation or edit overlapped has read the link as it is, *)
(* and what it read was reachable.                                            *)
VisitsOK ==
    \A v \in Visitor :
        visit[v] # IdleVisit => /\ visit[v].seen.on /\ visit[v].seen.enabled
                                /\ ~visit[v].late => visit[v].seen = link
SessionsOK ==
    \A s \in GateSession :
        Sound(s) => psess[s].seen = link /\ link.on /\ link.enabled

(* A revocation that is about to commit has every such session. *)
HitsOK ==
    \A e \in Editor :
        edit[e].pc = "commit" /\ GrantChanged(e) =>
            \A s \in GateSession : Sound(s) => s \in edit[e].hits

HitsExist ==
    \A e \in Editor : edit[e] # IdleEdit => \A s \in edit[e].hits : psess[s] # NoRow

GateInv == GateTypeOK /\ VisitsOK /\ SessionsOK /\ HitsOK /\ HitsExist

(* The link is public and has its first password. *)
LEMMA InitGate == GateInit => GateInv
<1> SUFFICES ASSUME GateInit PROVE GateInv
  OBVIOUS
<1> USE DEF GateInit
<1>1. 1 \in Password /\ 0 \in 0 .. MaxVisits /\ 0 \in 0 .. MaxEdits
  BY GateAssumption DEF Password
<1>2. GateTypeOK
  BY <1>1 DEF GateTypeOK, Link, PathSet, Visits, Edits
<1>3. VisitsOK /\ SessionsOK /\ HitsOK /\ HitsExist
  BY DEF VisitsOK, SessionsOK, HitsOK, HitsExist, Sound, IdleEdit
<1> QED
  BY <1>2, <1>3 DEF GateInv

(* A step of one submit, short of its commit. *)
LEMMA VisitStep ==
    ASSUME GateInv, NEW v \in Visitor, NEW rec \in Visits,
           visit' = [visit EXCEPT ![v] = rec],
           rec # IdleVisit => /\ rec.seen.on /\ rec.seen.enabled
                              /\ ~rec.late => rec.seen = link,
           UNCHANGED <<link, psess, edit, pwCount>>,
           begun' \in [visits : 0 .. MaxVisits, edits : 0 .. MaxEdits]
    PROVE  GateInv'
<1> USE DEF GateInv
<1>0. \A u \in Visitor : visit'[u] = IF u = v THEN rec ELSE visit[u]
  BY DEF GateTypeOK
<1>1. GateTypeOK'
  BY DEF GateTypeOK
<1>2. VisitsOK'
  BY <1>0 DEF VisitsOK
<1>3. SessionsOK' /\ HitsOK' /\ HitsExist'
  BY DEF SessionsOK, HitsOK, HitsExist, Sound, GrantChanged
<1> QED
  BY <1>1, <1>2, <1>3

(* gate_submit up to the commit of its session. *)
LEMMA VisitKeeps ==
    ASSUME GateInv, NEW v \in Visitor,
           \/ \E p \in Password : BeginVisit(v, p)
           \/ ThrottleCheck(v) \/ Verify(v)
    PROVE  GateInv'
<1> USE DEF GateInv
<1>0. /\ IdleVisit \in Visits /\ visit \in [Visitor -> Visits] /\ link \in Link
      /\ UNCHANGED <<link, psess, edit, pwCount>>
      /\ begun' \in [visits : 0 .. MaxVisits, edits : 0 .. MaxEdits]
  BY GateAssumption DEF Visits, GateTypeOK, BeginVisit, ThrottleCheck, Verify
<1>1. CASE visit' = [visit EXCEPT ![v] = IdleVisit]
  BY <1>0, <1>1, VisitStep
<1>2. ASSUME NEW p \in Password, BeginVisit(v, p) PROVE GateInv'
  <2> DEFINE rec == [pc |-> "check", typed |-> p, seen |-> link, late |-> FALSE]
  <2>1. /\ rec \in Visits /\ rec.seen = link /\ rec.seen.on /\ rec.seen.enabled
        /\ visit' = [visit EXCEPT ![v] = rec]
    BY <1>0, <1>2 DEF BeginVisit, Visits, Reachable
  <2> HIDE DEF rec
  <2> QED
    BY <1>0, <2>1, VisitStep
<1>3. ASSUME visit[v] # IdleVisit, NEW pc \in {"verify", "commit"},
             visit' = [visit EXCEPT ![v] = [visit[v] EXCEPT !.pc = pc]]
      PROVE  GateInv'
  <2> DEFINE rec == [visit[v] EXCEPT !.pc = pc]
  <2>1. rec \in Visits /\ rec.seen = visit[v].seen /\ rec.late = visit[v].late
    BY <1>0, <1>3 DEF Visits
  <2>2. rec.seen.on /\ rec.seen.enabled /\ (~rec.late => rec.seen = link)
    BY <1>3, <2>1 DEF VisitsOK
  <2>3. visit' = [visit EXCEPT ![v] = rec]
    BY <1>3
  <2> HIDE DEF rec
  <2> QED
    BY <1>0, <2>1, <2>2, <2>3, VisitStep
<1>4. CASE ThrottleCheck(v)
  <2>1. visit[v] # IdleVisit
    BY <1>4 DEF ThrottleCheck, IdleVisit
  <2> QED
    BY <1>0, <1>1, <1>3, <1>4, <2>1 DEF ThrottleCheck
<1>5. CASE Verify(v)
  <2>1. visit[v] # IdleVisit
    BY <1>5 DEF Verify, IdleVisit
  <2> QED
    BY <1>0, <1>1, <1>3, <1>5, <2>1 DEF Verify
<1> QED
  BY <1>2, <1>4, <1>5

(* The session becomes visible: late if a revocation has already looked for it. *)
LEMMA CommitVisitKeeps ==
    ASSUME GateInv, NEW v \in Visitor, NEW s \in GateSession, CommitVisit(v, s)
    PROVE  GateInv'
<1> USE DEF GateInv
<1> PICK w \in Visits : w = visit[v]
  BY DEF GateTypeOK
<1> PICK b \in BOOLEAN : b = (w.late \/ RevocationOpen)
  OBVIOUS
<1> DEFINE row == [st |-> "live", seen |-> w.seen, late |-> b]
<1>0. /\ w # IdleVisit /\ w.seen \in Link /\ w.late \in BOOLEAN
      /\ UNCHANGED <<link, edit, pwCount, begun>>
      /\ psess' = [psess EXCEPT ![s] = row] /\ visit' = [visit EXCEPT ![v] = IdleVisit]
      /\ psess \in [GateSession -> {NoRow} \cup SessionRow] /\ visit \in [Visitor -> Visits]
      /\ IdleVisit \in Visits
  BY DEF CommitVisit, IdleVisit, Visits, GateTypeOK
<1>1. row \in SessionRow /\ row.seen = w.seen /\ row.late = b
  BY <1>0 DEF SessionRow
<1> HIDE DEF row
<1>2. /\ \A u \in GateSession : psess'[u] = IF u = s THEN row ELSE psess[u]
      /\ \A u \in Visitor : visit'[u] = IF u = v THEN IdleVisit ELSE visit[u]
  BY <1>0
<1>3. GateTypeOK'
  BY <1>0, <1>1 DEF GateTypeOK
<1>4. VisitsOK'
  BY <1>0, <1>2 DEF VisitsOK
<1>5. \A u \in GateSession : Sound(u)' => (u = s /\ ~b) \/ (u # s /\ Sound(u))
  BY <1>1, <1>2 DEF Sound
<1>6. SessionsOK'
  <2>1. ~b => w.seen = link /\ link.on /\ link.enabled
    BY <1>0 DEF VisitsOK
  <2> QED
    BY <1>0, <1>1, <1>2, <1>5, <2>1 DEF SessionsOK
<1>7. HitsOK'
  <2>1. \A e \in Editor : GrantChanged(e)' = GrantChanged(e)
    BY <1>0 DEF GrantChanged
  <2>2. \A e \in Editor : edit[e].pc = "commit" /\ GrantChanged(e) => b
    BY DEF RevocationOpen
  <2> QED
    BY <1>0, <1>5, <2>1, <2>2 DEF HitsOK
<1>8. HitsExist'
  BY <1>0, <1>1, <1>2 DEF HitsExist, SessionRow, NoRow
<1> QED
  BY <1>3, <1>4, <1>6, <1>7, <1>8

(* A session expires. *)
LEMMA ExpireKeeps ==
    ASSUME GateInv, NEW s \in GateSession, ExpireSession(s)
    PROVE  GateInv'
<1> USE DEF GateInv
<1> DEFINE row == [psess[s] EXCEPT !.st = "expired"]
<1>0. /\ psess[s] \in SessionRow /\ psess' = [psess EXCEPT ![s] = row]
      /\ UNCHANGED <<link, visit, edit, pwCount, begun>>
      /\ psess \in [GateSession -> {NoRow} \cup SessionRow]
  BY DEF ExpireSession, GateTypeOK, NoRow
<1>1. row \in SessionRow /\ row.st = "expired"
  BY <1>0 DEF SessionRow
<1> HIDE DEF row
<1>2. \A u \in GateSession : Sound(u)' => Sound(u) /\ psess'[u] = psess[u]
  BY <1>0, <1>1 DEF Sound
<1>3. GateTypeOK'
  BY <1>0, <1>1 DEF GateTypeOK
<1>4. VisitsOK' /\ SessionsOK'
  BY <1>0, <1>2 DEF VisitsOK, SessionsOK
<1>5. HitsOK'
  BY <1>0, <1>2 DEF HitsOK, GrantChanged
<1>6. HitsExist'
  BY <1>0, <1>1 DEF HitsExist, SessionRow, NoRow
<1> QED
  BY <1>3, <1>4, <1>5, <1>6

(* A step of an administrator's request, short of its commit. *)
LEMMA EditStep ==
    ASSUME GateInv, NEW e \in Editor, NEW rec \in Edits,
           edit' = [edit EXCEPT ![e] = rec],
           rec.pc = "commit" /\ GrantChanged(e)' =>
              \A s \in GateSession : Sound(s) => s \in rec.hits,
           rec # IdleEdit => \A s \in rec.hits : psess[s] # NoRow,
           UNCHANGED <<link, psess, visit>>, pwCount' \in Password,
           begun' \in [visits : 0 .. MaxVisits, edits : 0 .. MaxEdits]
    PROVE  GateInv'
<1> USE DEF GateInv
<1>0. \A d \in Editor : edit'[d] = IF d = e THEN rec ELSE edit[d]
  BY DEF GateTypeOK
<1>1. GateTypeOK'
  BY DEF GateTypeOK
<1>2. VisitsOK' /\ SessionsOK'
  BY DEF VisitsOK, SessionsOK, Sound
<1>3. \A s \in GateSession : Sound(s)' = Sound(s)
  BY DEF Sound
<1>4. \A d \in Editor \ {e} : GrantChanged(d)' = GrantChanged(d)
  BY <1>0 DEF GrantChanged
<1>5. HitsOK' /\ HitsExist'
  BY <1>0, <1>3, <1>4 DEF HitsOK, HitsExist
<1> QED
  BY <1>1, <1>2, <1>5

(* rotate_public_password and patch_resource: the row is read, updated, and the   *)
(* sessions committed by now are revoked if what the link grants has changed.     *)
LEMMA EditKeeps ==
    ASSUME GateInv, NEW e \in Editor,
           \/ BeginRotate(e) \/ UpdateRow(e) \/ Revoke(e)
           \/ \E on, en \in BOOLEAN, p \in PathSet : BeginPatch(e, on, en, p)
    PROVE  GateInv'
<1> USE DEF GateInv
<1>0. link \in Link /\ edit \in [Editor -> Edits] /\ pwCount \in Password
  BY DEF GateTypeOK
<1>1. ASSUME NEW row \in Link, Begin(e, row), pwCount' \in Password PROVE GateInv'
  <2> DEFINE rec == [pc |-> "update", was |-> link, row |-> row, hits |-> {}]
  <2>1. /\ rec \in Edits /\ rec.pc = "update" /\ rec.hits = {} /\ edit' = [edit EXCEPT ![e] = rec]
        /\ UNCHANGED <<link, psess, visit>>
        /\ begun' \in [visits : 0 .. MaxVisits, edits : 0 .. MaxEdits]
    BY <1>0, <1>1, GateAssumption DEF Begin, Edits, GateTypeOK
  <2> HIDE DEF rec
  <2> QED
    BY <1>1, <2>1, EditStep
<1>2. CASE BeginRotate(e)
  <2>1. pwCount + 1 \in Password
    BY <1>0, <1>2, GateAssumption DEF BeginRotate, Password
  <2>2. [link EXCEPT !.pw = pwCount + 1] \in Link
    BY <1>0, <2>1 DEF Link
  <2> QED
    BY <1>1, <1>2, <2>1, <2>2 DEF BeginRotate
<1>3. ASSUME NEW on \in BOOLEAN, NEW en \in BOOLEAN, NEW p \in PathSet, BeginPatch(e, on, en, p)
      PROVE  GateInv'
  <2>1. Merged(on, en, p) \in Link
    BY <1>0, GateAssumption DEF Merged, Link, Password
  <2> QED
    BY <1>0, <1>1, <1>3, <2>1 DEF BeginPatch
<1> PICK r \in Edits : r = edit[e]
  BY <1>0
<1>4. CASE UpdateRow(e)
  <2> DEFINE rec == [r EXCEPT !.pc = "revoke"]
  <2>1. /\ rec \in Edits /\ rec.pc = "revoke" /\ edit' = [edit EXCEPT ![e] = rec]
        /\ rec.hits = r.hits /\ r # IdleEdit
    BY <1>0, <1>4 DEF UpdateRow, Edits, IdleEdit
  <2> HIDE DEF rec
  <2>2. \A s \in rec.hits : psess[s] # NoRow
    BY <2>1 DEF HitsExist
  <2> QED
    BY <1>0, <1>4, <2>1, <2>2, EditStep DEF UpdateRow, GateTypeOK
<1>5. CASE Revoke(e)
  <2> PICK hits \in SUBSET GateSession :
          hits = IF GrantChanged(e) THEN {s \in GateSession : psess[s].st \in {"live", "expired"}}
                 ELSE {}
    OBVIOUS
  <2> DEFINE rec == [r EXCEPT !.pc = "commit", !.hits = hits]
  <2>1. /\ rec \in Edits /\ rec.was = r.was /\ rec.row = r.row /\ rec.hits = hits
        /\ edit' = [edit EXCEPT ![e] = rec]
    <3>1. r.pc = "revoke" /\ edit' = [edit EXCEPT ![e].pc = "commit", ![e].hits = hits]
      BY <1>5 DEF Revoke
    <3>2. edit' = [edit EXCEPT ![e] = rec]
      BY <1>0, <3>1
    <3>3. r \in [pc : {"update", "revoke", "commit"}, was : Link, row : Link,
                 hits : SUBSET GateSession]
      BY <3>1 DEF Edits, IdleEdit
    <3>4. /\ rec \in [pc : {"update", "revoke", "commit"}, was : Link, row : Link,
                      hits : SUBSET GateSession]
          /\ rec.was = r.was /\ rec.row = r.row /\ rec.hits = hits
      BY <3>3
    <3> QED
      BY <3>2, <3>4 DEF Edits
  <2> HIDE DEF rec
  <2>2. GrantChanged(e)' = GrantChanged(e)
    BY <1>0, <2>1 DEF GrantChanged
  <2>3. GrantChanged(e)' => \A s \in GateSession : Sound(s) => s \in rec.hits
    BY <2>1, <2>2 DEF Sound
  <2>4. \A s \in rec.hits : psess[s] # NoRow
    BY <2>1 DEF NoRow
  <2> QED
    BY <1>0, <1>5, <2>1, <2>3, <2>4, EditStep DEF Revoke, GateTypeOK
<1> QED
  BY <1>2, <1>3, <1>4, <1>5

(* An edit that changes nothing of what a reachable link grants leaves it as it is. *)
LEMMA UnchangedGrant ==
    ASSUME GateTypeOK, NEW e \in Editor, edit[e] # IdleEdit, edit[e].was = link,
           link.on, link.enabled, ~GrantChanged(e)
    PROVE  Changed(e, link) = link
<1>1. link \in Link /\ edit[e].row \in Link
  BY DEF GateTypeOK, Edits
<1>2. edit[e].row.on /\ edit[e].row.pw = link.pw /\ edit[e].row.paths = link.paths
      /\ edit[e].row.enabled
  BY <1>1 DEF GrantChanged, Link
<1>3. \A f \in {"on", "enabled", "paths", "pw"} : edit[e].row[f] = link[f]
  BY <1>1, <1>2 DEF Link
<1>4. DOMAIN link = {"on", "enabled", "paths", "pw"} /\ link = [f \in DOMAIN link |-> link[f]]
  BY <1>1 DEF Link
<1> QED
  BY <1>3, <1>4 DEF Changed

(* The commit of an edit: no session on what the link granted before survives, but *)
(* for those the commit marks late.                                                *)
LEMMA CommitEditKeeps ==
    ASSUME GateInv, NEW e \in Editor, CommitEdit(e)
    PROVE  GateInv'
<1> USE DEF GateInv
<1>0. /\ edit[e] # IdleEdit /\ edit[e].pc = "commit" /\ edit[e].hits \in SUBSET GateSession
      /\ edit[e].row \in Link /\ edit[e].was \in Link /\ link \in Link
      /\ edit' = [edit EXCEPT ![e] = IdleEdit] /\ edit \in [Editor -> Edits]
      /\ UNCHANGED <<pwCount, begun>> /\ link' = Changed(e, link)
      /\ psess \in [GateSession -> {NoRow} \cup SessionRow] /\ visit \in [Visitor -> Visits]
  BY DEF CommitEdit, IdleEdit, GateTypeOK, Edits
<1>1. link' \in Link
  <2>1. \A f \in {"on", "enabled", "paths", "pw"} :
            Changed(e, link)[f] = edit[e].row[f] \/ Changed(e, link)[f] = link[f]
    BY <1>0 DEF Changed, Link
  <2>2. Changed(e, link) = [on |-> Changed(e, link)["on"], enabled |-> Changed(e, link)["enabled"],
                            paths |-> Changed(e, link)["paths"], pw |-> Changed(e, link)["pw"]]
    BY <1>0 DEF Changed, Link
  <2> QED
    BY <1>0, <2>1, <2>2 DEF Link
<1>2. /\ psess' \in [GateSession -> {NoRow} \cup SessionRow]
      /\ \A s \in GateSession : Sound(s)' => /\ Sound(s) /\ psess'[s] = psess[s]
                                             /\ s \notin edit[e].hits /\ edit[e].was = link
      /\ \A s \in GateSession : psess[s] # NoRow => psess'[s] # NoRow
  <2>1. ASSUME NEW s \in GateSession
        PROVE  /\ psess'[s] \in {NoRow} \cup SessionRow
               /\ Sound(s)' => /\ Sound(s) /\ psess'[s] = psess[s]
                               /\ s \notin edit[e].hits /\ edit[e].was = link
               /\ psess[s] # NoRow => psess'[s] # NoRow
    <3>1. CASE psess[s] = NoRow
      <4>1. s \notin edit[e].hits
        BY <1>0, <3>1 DEF HitsExist
      <4>2. psess'[s] = psess[s]
        BY <3>1, <4>1 DEF CommitEdit
      <4> QED
        BY <3>1, <4>2 DEF Sound
    <3>2. CASE psess[s] \in SessionRow
      BY <3>2 DEF CommitEdit, SessionRow, NoRow, Sound
    <3> QED
      BY <1>0, <3>1, <3>2
  <2>2. psess' \in [GateSession -> {NoRow} \cup SessionRow]
    BY <2>1 DEF CommitEdit
  <2> QED
    BY <2>1, <2>2
<1>3. /\ visit' \in [Visitor -> Visits]
      /\ \A v \in Visitor :
            visit'[v] # IdleVisit =>
               /\ visit[v] # IdleVisit /\ visit'[v].seen = visit[v].seen
               /\ ~visit'[v].late => /\ ~visit[v].late /\ ~GrantChanged(e)
                                     /\ edit[e].was = link
  <2>1. ASSUME NEW v \in Visitor
        PROVE  /\ visit'[v] \in Visits
               /\ visit'[v] # IdleVisit =>
                    /\ visit[v] # IdleVisit /\ visit'[v].seen = visit[v].seen
                    /\ ~visit'[v].late => /\ ~visit[v].late /\ ~GrantChanged(e)
                                          /\ edit[e].was = link
    <3>1. visit'[v] = IF visit[v] # IdleVisit /\ (GrantChanged(e) \/ edit[e].was # link)
                      THEN [visit[v] EXCEPT !.late = TRUE] ELSE visit[v]
      BY DEF CommitEdit
    <3>2. visit[v] \in Visits
      BY <1>0
    <3> QED
      BY <3>1, <3>2 DEF Visits, IdleVisit
  <2>2. visit' \in [Visitor -> Visits]
    BY <2>1 DEF CommitEdit
  <2> QED
    BY <2>1, <2>2
<1>4. GateTypeOK'
  BY <1>0, <1>1, <1>2, <1>3 DEF GateTypeOK, Edits
<1>5. VisitsOK'
  BY <1>0, <1>3, UnchangedGrant DEF VisitsOK
<1>6. SessionsOK'
  <2>1. ASSUME NEW s \in GateSession, Sound(s)'
        PROVE  psess'[s].seen = link' /\ link'.on /\ link'.enabled
    <3>1. /\ Sound(s) /\ psess'[s] = psess[s] /\ edit[e].was = link /\ ~GrantChanged(e)
          /\ psess[s].seen = link /\ link.on /\ link.enabled
      BY <1>0, <1>2, <2>1 DEF HitsOK, SessionsOK
    <3>2. link' = link
      BY <1>0, <3>1, UnchangedGrant
    <3> QED
      BY <3>1, <3>2
  <2> QED
    BY <2>1 DEF SessionsOK
<1>7. HitsOK'
  <2>1. \A d \in Editor : edit'[d] = IF d = e THEN IdleEdit ELSE edit[d]
    BY <1>0
  <2>2. \A d \in Editor \ {e} : GrantChanged(d)' = GrantChanged(d)
    BY <2>1 DEF GrantChanged
  <2> QED
    BY <1>2, <2>1, <2>2 DEF HitsOK, IdleEdit
<1>8. HitsExist'
  <2>1. ASSUME NEW d \in Editor, edit'[d] # IdleEdit
        PROVE  edit'[d] = edit[d] /\ edit[d].hits \subseteq GateSession
    BY <1>0, <2>1 DEF Edits
  <2> QED
    BY <1>2, <2>1 DEF HitsExist
<1> QED
  BY <1>4, <1>5, <1>6, <1>7, <1>8

(* The inductive invariant of the gate. *)
THEOREM GateCorrect == GateSpec => []GateInv
<1>1. GateInv /\ [GateNext]_gateVars => GateInv'
  <2> SUFFICES ASSUME GateInv, [GateNext]_gateVars PROVE GateInv'
    OBVIOUS
  <2>1. CASE UNCHANGED gateVars
    BY <2>1 DEF gateVars, GateInv, GateTypeOK, VisitsOK, SessionsOK, HitsOK, HitsExist,
       Sound, GrantChanged
  <2> QED
    BY <2>1, VisitKeeps, CommitVisitKeeps, ExpireKeeps, EditKeeps, CommitEditKeeps DEF GateNext
<1> QED
  BY <1>1, InitGate, PTL DEF GateSpec

(* Whatever changes of the link interleave with however many submits, a live session *)
(* whose submit no revocation overlapped grants what the link grants now             *)
(* (publicgate.py gate_submit, resources.py revoke_public_sessions).                 *)
THEOREM SessionsGrantTheCurrentLink == GateSpec => []SessionGrantCurrent
<1>1. GateInv => SessionGrantCurrent
  BY DEF GateInv, SessionsOK, SessionGrantCurrent, Sound
<1> QED
  BY <1>1, GateCorrect, PTL

-----------------------------------------------------------------------------
(* Passkeys and step-up challenges.                                        *)

AccountRow == [tier : {"admin", "user"}, status : {"active", "disabled"}]
DeleteJob == [op : {"delete"}, pc : {"loaded", "counted", "deleted"}, pk : Passkey,
              user : AccountRow]
PatchJob == [op : {"patch"}, pc : {"loaded", "counted"}, user : AccountRow, want : AccountRow]
OptionsJob == [op : {"options"}, pc : {"set"}, ch : Nat]
VerifyJob == [op : {"verify"}, pc : {"loaded", "cleared", "accepted", "written"}, pk : Passkey,
              answer : Nat, ch : Nat]
Jobs == {NoJob} \cup DeleteJob \cup PatchJob \cup OptionsJob \cup VerifyJob

(* A challenge that is on its way to the session's row is newer than any that a *)
(* verification has read or answered: the row's lock lets one be on its way.    *)
ChallengeOK ==
    /\ challenge \in 0 .. issued /\ spent \subseteq 1 .. issued
    /\ \A w \in Worker : job[w].op = "verify" => job[w].ch \in 1 .. issued
    /\ \A w \in Worker : job[w].op = "options" =>
          /\ rowLock["session"] = w /\ job[w].ch = issued /\ challenge # issued
          /\ issued >= 1 /\ issued \notin spent
          /\ \A v \in Worker : job[v].op = "verify" => job[v].ch # issued
    /\ SpentChallengeGone

(* The deletions of strong passkeys that have passed the count. *)
Deleting == {w \in Worker : /\ job[w].op = "delete" /\ job[w].pc \in {"counted", "deleted"}
                            /\ job[w].pk \notin BreakGlass}

(* Each of them was counted when there were three: what they may still take is *)
(* covered.                                                                    *)
FloorOK ==
    steady => /\ ActiveAdmin(account)
              /\ \A w \in Worker : job[w].op = "delete" => ActiveAdmin(job[w].user)
              /\ Cardinality(Strong(enrolled)) + Cardinality(Worker)
                    >= 3 + Cardinality(Deleting)

PasskeyInv == PasskeyTypeOK /\ job \in [Worker -> Jobs] /\ ChallengeOK /\ FloorOK

(* A request's record, by its operation. *)
LEMMA JobShape ==
    ASSUME job \in [Worker -> Jobs], NEW w \in Worker
    PROVE  /\ job[w].op = "delete" => job[w] \in DeleteJob
           /\ job[w].op = "patch" => job[w] \in PatchJob
           /\ job[w].op = "options" => job[w] \in OptionsJob
           /\ job[w].op = "verify" => job[w] \in VerifyJob
           /\ job[w].op = "none" => job[w] = NoJob
BY DEF Jobs, DeleteJob, PatchJob, OptionsJob, VerifyJob, NoJob

(* The sets that are counted are finite. *)
LEMMA FloorFinite ==
    ASSUME PasskeyTypeOK
    PROVE  /\ IsFiniteSet(Strong(enrolled)) /\ Cardinality(Strong(enrolled)) \in Nat
           /\ IsFiniteSet(Deleting) /\ Cardinality(Deleting) \in Nat
           /\ Cardinality(Deleting) <= Cardinality(Worker) /\ Cardinality(Worker) \in Nat
<1>1. Strong(enrolled) \subseteq Passkey /\ Deleting \subseteq Worker
  BY DEF PasskeyTypeOK, Strong, Deleting
<1> QED
  BY <1>1, FS_Subset, FS_CardinalityType, PasskeyAssumption

(* Nothing is issued and nobody is at work at first. *)
LEMMA InitPasskeys == PasskeyInit => PasskeyInv
<1> SUFFICES ASSUME PasskeyInit PROVE PasskeyInv
  OBVIOUS
<1> USE DEF PasskeyInit
<1>1. PasskeyTypeOK
  BY PasskeyAssumption DEF PasskeyTypeOK, NoJob
<1>2. job \in [Worker -> Jobs]
  BY DEF Jobs
<1>3. ChallengeOK
  BY DEF ChallengeOK, SpentChallengeGone, NoJob
<1>4. FloorOK
  <2>1. Deleting = {}
    BY DEF Deleting, NoJob
  <2>2. Cardinality(Deleting) = 0
    BY <2>1, FS_EmptySet
  <2>3. Cardinality(Worker) # 0
    BY FS_EmptySet, PasskeyAssumption
  <2>4. Cardinality(Worker) >= 1
    BY <1>1, <2>3, FloorFinite
  <2>5. \A w \in Worker : job[w].op # "delete"
    BY DEF NoJob
  <2>6. steady => ActiveAdmin(account) /\ Cardinality(Strong(enrolled)) >= 2
    OBVIOUS
  <2>7. steady => Cardinality(Strong(enrolled)) + Cardinality(Worker) >= 3 + 0
    BY <1>1, <2>4, <2>6, FloorFinite
  <2> QED
    BY <2>2, <2>5, <2>6, <2>7 DEF FloorOK
<1> QED
  BY <1>1, <1>2, <1>3, <1>4 DEF PasskeyInv

(* A request moves by itself: what the others hold and have read stays. *)
LEMMA JobMoves ==
    ASSUME PasskeyInv, NEW w \in Worker, NEW rec \in Jobs, job' = [job EXCEPT ![w] = rec],
           rowLock' = rowLock \/ rowLock' = Released(w)
             \/ (\E r \in DOMAIN rowLock : Grab(w, r))
    PROVE  /\ job' \in [Worker -> Jobs]
           /\ \A v \in Worker : job'[v] = IF v = w THEN rec ELSE job[v]
           /\ \A v \in Worker : job'[v].op \in {"none", "delete", "patch", "options", "verify"}
           /\ rowLock' \in [Passkey \cup {"session"} -> Worker \cup {NoWorker}]
           /\ \A v \in Worker \ {w} : rowLock["session"] = v => rowLock'["session"] = v
<1>1. /\ job \in [Worker -> Jobs]
      /\ rowLock \in [Passkey \cup {"session"} -> Worker \cup {NoWorker}]
  BY DEF PasskeyInv, PasskeyTypeOK
<1>2. \A j \in Jobs : j.op \in {"none", "delete", "patch", "options", "verify"}
  BY DEF Jobs, NoJob, DeleteJob, PatchJob, OptionsJob, VerifyJob
<1>3. /\ job' \in [Worker -> Jobs]
      /\ \A v \in Worker : job'[v] = IF v = w THEN rec ELSE job[v]
  BY <1>1
<1>4. /\ rowLock' \in [Passkey \cup {"session"} -> Worker \cup {NoWorker}]
      /\ \A v \in Worker \ {w} : rowLock["session"] = v => rowLock'["session"] = v
  BY <1>1, PasskeyAssumption DEF Released, Grab
<1> QED
  BY <1>2, <1>3, <1>4

(* The challenges when a request neither issues nor answers one ... *)
LEMMA ChallengeStep ==
    ASSUME ChallengeOK, NEW w \in Worker, NEW rec,
           \A v \in Worker : job'[v] = IF v = w THEN rec ELSE job[v],
           \A v \in Worker \ {w} : rowLock["session"] = v => rowLock'["session"] = v,
           UNCHANGED <<challenge, issued, spent>>,
           rec.op # "options",
           rec.op = "verify" => /\ rec.ch \in 1 .. issued
                                /\ \/ rec.ch = challenge
                                   \/ job[w].op = "verify" /\ rec.ch = job[w].ch
    PROVE  ChallengeOK'
BY DEF ChallengeOK, SpentChallengeGone

(* ... and the floor when it deletes nothing and passes no count. *)
LEMMA FloorStep ==
    ASSUME FloorOK, NEW w \in Worker, NEW rec,
           \A v \in Worker : job'[v] = IF v = w THEN rec ELSE job[v],
           UNCHANGED <<enrolled, account, steady>>,
           rec.op = "delete" => /\ rec.user = account \/ (job[w].op = "delete" /\ rec.user = job[w].user)
                                /\ \/ rec.pc = "loaded"
                                   \/ /\ job[w].op = "delete" /\ job[w].pk = rec.pk
                                      /\ rec.pc = "deleted" /\ job[w].pc = "counted",
           job[w].op = "delete" /\ job[w].pc \in {"counted", "deleted"} => rec.op = "delete" /\ rec.pc = "deleted"
    PROVE  FloorOK'
<1>1. Deleting' = Deleting
  BY DEF Deleting
<1> QED
  BY <1>1 DEF FloorOK, Strong

(* delete_credential: the reads, the count, the row's lock. *)
LEMMA DeleteKeeps ==
    ASSUME PasskeyInv, NEW w \in Worker,
           (\E p \in Passkey : DeleteLoad(w, p)) \/ DeleteCount(w) \/ DeleteRow(w)
    PROVE  PasskeyInv'
<1> USE JobShape DEF PasskeyInv, Doing
<1>0. /\ UNCHANGED <<enrolled, account, challenge, issued, spent, steady>>
      /\ account \in AccountRow /\ NoJob \in Jobs
      /\ rowLock \in [Passkey \cup {"session"} -> Worker \cup {NoWorker}]
  BY DEF DeleteLoad, DeleteCount, DeleteRow, PasskeyTypeOK, AccountRow, Jobs
<1>1. ASSUME NEW p \in Passkey, DeleteLoad(w, p) PROVE PasskeyInv'
  <2> DEFINE rec == [op |-> "delete", pc |-> "loaded", pk |-> p, user |-> account]
  <2>1. /\ rec \in Jobs /\ rec.op = "delete" /\ rec.pc = "loaded" /\ rec.user = account
        /\ job' = [job EXCEPT ![w] = rec] /\ rowLock' = rowLock /\ job[w].op = "none"
    BY <1>0, <1>1 DEF DeleteLoad, Jobs, DeleteJob
  <2> HIDE DEF rec
  <2>2. /\ \A v \in Worker : job'[v] = IF v = w THEN rec ELSE job[v]
        /\ \A v \in Worker \ {w} : rowLock["session"] = v => rowLock'["session"] = v
        /\ PasskeyTypeOK' /\ job' \in [Worker -> Jobs]
    BY <1>0, <2>1, JobMoves DEF PasskeyTypeOK
  <2>3. ChallengeOK'
    BY <1>0, <2>1, <2>2, ChallengeStep
  <2>4. FloorOK'
    BY <1>0, <2>1, <2>2, FloorStep
  <2> QED
    BY <2>2, <2>3, <2>4
<1>2. CASE DeleteRow(w)
  <2> DEFINE rec == [job[w] EXCEPT !.pc = "deleted"]
  <2>1. /\ job[w] \in DeleteJob /\ job[w].pc = "counted" /\ job[w].op = "delete"
        /\ job' = [job EXCEPT ![w] = rec]
    BY <1>2 DEF DeleteRow
  <2>2. rec \in DeleteJob /\ rec.pc = "deleted" /\ rec.pk = job[w].pk /\ rec.user = job[w].user
    BY <2>1 DEF DeleteJob
  <2>3. rec \in Jobs /\ rec.op = "delete"
    BY <2>2 DEF Jobs, DeleteJob
  <2> HIDE DEF rec
  <2>4. \E r \in DOMAIN rowLock : Grab(w, r)
    BY <1>0, <1>2, <2>1 DEF DeleteRow, DeleteJob
  <2>5. /\ \A v \in Worker : job'[v] = IF v = w THEN rec ELSE job[v]
        /\ \A v \in Worker \ {w} : rowLock["session"] = v => rowLock'["session"] = v
        /\ PasskeyTypeOK' /\ job' \in [Worker -> Jobs]
    BY <1>0, <2>1, <2>3, <2>4, JobMoves DEF PasskeyTypeOK
  <2>6. ChallengeOK'
    BY <1>0, <2>1, <2>3, <2>5, ChallengeStep
  <2>7. FloorOK'
    BY <1>0, <2>1, <2>2, <2>3, <2>5, FloorStep
  <2> QED
    BY <2>5, <2>6, <2>7
<1>3. CASE DeleteCount(w) /\ ~MayDelete(w)
  <2>1. /\ job[w].op = "delete" /\ job[w].pc = "loaded" /\ rowLock' = rowLock
        /\ job' = [job EXCEPT ![w] = NoJob] /\ NoJob.op = "none"
    BY <1>3 DEF DeleteCount, NoJob
  <2>2. /\ \A v \in Worker : job'[v] = IF v = w THEN NoJob ELSE job[v]
        /\ \A v \in Worker \ {w} : rowLock["session"] = v => rowLock'["session"] = v
        /\ PasskeyTypeOK' /\ job' \in [Worker -> Jobs]
    BY <1>0, <2>1, JobMoves DEF PasskeyTypeOK
  <2>3. ChallengeOK'
    BY <1>0, <2>1, <2>2, ChallengeStep
  <2>4. FloorOK'
    BY <1>0, <2>1, <2>2, FloorStep
  <2> QED
    BY <2>2, <2>3, <2>4
<1>4. CASE DeleteCount(w) /\ MayDelete(w)
  <2> DEFINE rec == [job[w] EXCEPT !.pc = "counted"]
  <2>1. /\ job[w] \in DeleteJob /\ job[w].pc = "loaded" /\ job[w].op = "delete"
        /\ job' = [job EXCEPT ![w] = rec] /\ rowLock' = rowLock
    BY <1>4 DEF DeleteCount
  <2>2. rec \in DeleteJob /\ rec.pc = "counted" /\ rec.pk = job[w].pk /\ rec.user = job[w].user
    BY <2>1 DEF DeleteJob
  <2>3. rec \in Jobs /\ rec.op = "delete"
    BY <2>2 DEF Jobs, DeleteJob
  <2> HIDE DEF rec
  <2>4. /\ \A v \in Worker : job'[v] = IF v = w THEN rec ELSE job[v]
        /\ \A v \in Worker \ {w} : rowLock["session"] = v => rowLock'["session"] = v
        /\ PasskeyTypeOK' /\ job' \in [Worker -> Jobs]
    BY <1>0, <2>1, <2>3, JobMoves DEF PasskeyTypeOK
  <2>5. ChallengeOK'
    BY <1>0, <2>1, <2>3, <2>4, ChallengeStep
  <2>6. Strong(enrolled)' = Strong(enrolled)
    BY <1>0 DEF Strong
  <2>7. CASE job[w].pk \in BreakGlass
    <3>1. Deleting' = Deleting
      BY <2>1, <2>2, <2>3, <2>4, <2>7 DEF Deleting
    <3>2. FloorOK'
      BY <1>0, <2>1, <2>2, <2>4, <2>6, <3>1 DEF FloorOK
    <3> QED
      BY <2>4, <2>5, <3>2
  <2>8. CASE job[w].pk \notin BreakGlass
    <3>1. steady => Cardinality(Strong(enrolled)) > 2
      BY <1>4, <2>1, <2>8 DEF MayDelete, FloorOK
    <3>2. /\ Cardinality(Deleting)' \in Nat /\ Cardinality(Deleting)' <= Cardinality(Worker)
          /\ Cardinality(Worker) \in Nat /\ Cardinality(Strong(enrolled)) \in Nat
      <4>1. Deleting' \subseteq Worker
        BY DEF Deleting
      <4> QED
        BY <4>1, FS_Subset, FS_CardinalityType, FloorFinite, PasskeyAssumption
    <3>3. steady => Cardinality(Strong(enrolled)) + Cardinality(Worker)
                      >= 3 + Cardinality(Deleting)'
      BY <3>1, <3>2
    <3>4. FloorOK'
      BY <1>0, <2>1, <2>2, <2>4, <2>6, <3>3 DEF FloorOK
    <3> QED
      BY <2>4, <2>5, <3>4
  <2> QED
    BY <2>7, <2>8
<1> QED
  BY <1>1, <1>2, <1>3, <1>4

(* delete_credential commits: one strong passkey fewer, and one deletion. *)
LEMMA DeleteCommitKeeps ==
    ASSUME PasskeyInv, NEW w \in Worker, DeleteCommit(w)
    PROVE  PasskeyInv'
<1> USE JobShape DEF PasskeyInv, Doing
<1> PICK p \in Passkey : p = job[w].pk
  BY DEF DeleteCommit, DeleteJob
<1>0. /\ UNCHANGED <<account, challenge, issued, spent, steady>> /\ enrolled' = enrolled \ {p}
      /\ job[w].op = "delete" /\ job[w].pc = "deleted" /\ NoJob \in Jobs /\ NoJob.op = "none"
      /\ job' = [job EXCEPT ![w] = NoJob] /\ rowLock' = Released(w)
  BY DEF DeleteCommit, Finish, Jobs, NoJob
<1>1. /\ \A v \in Worker : job'[v] = IF v = w THEN NoJob ELSE job[v]
      /\ \A v \in Worker \ {w} : rowLock["session"] = v => rowLock'["session"] = v
      /\ PasskeyTypeOK' /\ job' \in [Worker -> Jobs]
  BY <1>0, JobMoves DEF PasskeyTypeOK
<1>2. ChallengeOK'
  BY <1>0, <1>1, ChallengeStep
<1>3. Strong(enrolled)' = Strong(enrolled) \ {p}
  BY <1>0 DEF Strong
<1>4. /\ Cardinality(Strong(enrolled)) \in Nat /\ Cardinality(Deleting) \in Nat
      /\ IsFiniteSet(Strong(enrolled)) /\ IsFiniteSet(Deleting) /\ Cardinality(Worker) \in Nat
  BY FloorFinite
<1>5. CASE p \in BreakGlass
  <2>1. Strong(enrolled)' = Strong(enrolled)
    BY <1>3, <1>5 DEF Strong
  <2>2. Deleting' = Deleting
    BY <1>0, <1>1, <1>5 DEF Deleting, NoJob
  <2>3. FloorOK'
    BY <1>0, <1>1, <2>1, <2>2 DEF FloorOK
  <2> QED
    BY <1>1, <1>2, <2>3
<1>6. CASE p \notin BreakGlass
  <2>1. w \in Deleting /\ Deleting' = Deleting \ {w}
    BY <1>0, <1>1, <1>6 DEF Deleting, NoJob
  <2>2. Cardinality(Deleting)' = Cardinality(Deleting) - 1
    BY <1>4, <2>1, FS_RemoveElement
  <2>3. Cardinality(Strong(enrolled))' >= Cardinality(Strong(enrolled)) - 1
        /\ Cardinality(Strong(enrolled))' \in Int
    BY <1>3, <1>4, FS_RemoveElement
  <2>4. steady => Cardinality(Strong(enrolled)) + Cardinality(Worker)
                    >= 3 + Cardinality(Deleting)
    BY DEF FloorOK
  <2>5. steady => Cardinality(Strong(enrolled))' + Cardinality(Worker)
                    >= 3 + Cardinality(Deleting)'
    BY <1>4, <2>2, <2>3, <2>4
  <2>6. FloorOK'
    BY <1>0, <1>1, <2>5 DEF FloorOK
  <2> QED
    BY <1>1, <1>2, <2>6
<1> QED
  BY <1>5, <1>6

(* patch_user: what it commits is an account row; a steady account stays an active *)
(* admin.                                                                          *)
LEMMA PatchKeeps ==
    ASSUME PasskeyInv, NEW w \in Worker,
           \/ \E tier \in {"admin", "user"}, status \in {"active", "disabled"} :
                 PatchLoad(w, tier, status)
           \/ PatchCount(w) \/ PatchCommit(w)
    PROVE  PasskeyInv'
<1> USE JobShape DEF PasskeyInv, Doing
<1>0. /\ UNCHANGED <<enrolled, challenge, issued, spent>>
      /\ account \in AccountRow /\ NoJob \in Jobs /\ NoJob.op = "none"
      /\ job[w].op \in {"none", "patch"}
  BY DEF PatchLoad, PatchCount, PatchCommit, PasskeyTypeOK, AccountRow, Jobs, NoJob
<1>1. ASSUME NEW rec \in Jobs, rec.op \in {"none", "patch"}, job' = [job EXCEPT ![w] = rec],
             rowLock' = rowLock \/ rowLock' = Released(w),
             UNCHANGED <<account, steady>>
      PROVE  PasskeyInv'
  <2>1. /\ \A v \in Worker : job'[v] = IF v = w THEN rec ELSE job[v]
        /\ \A v \in Worker \ {w} : rowLock["session"] = v => rowLock'["session"] = v
        /\ PasskeyTypeOK' /\ job' \in [Worker -> Jobs]
    BY <1>0, <1>1, JobMoves DEF PasskeyTypeOK
  <2>2. ChallengeOK'
    BY <1>0, <1>1, <2>1, ChallengeStep
  <2>3. FloorOK'
    BY <1>0, <1>1, <2>1, FloorStep
  <2> QED
    BY <2>1, <2>2, <2>3
<1>2. ASSUME NEW tier \in {"admin", "user"}, NEW status \in {"active", "disabled"},
             PatchLoad(w, tier, status)
      PROVE  PasskeyInv'
  <2> DEFINE rec == [op |-> "patch", pc |-> "loaded", user |-> account,
                     want |-> [tier |-> tier, status |-> status]]
  <2>1. rec \in PatchJob /\ rec.op = "patch"
    BY <1>0 DEF PatchJob, AccountRow
  <2>2. rec \in Jobs
    BY <2>1 DEF Jobs
  <2>3. job' = [job EXCEPT ![w] = rec] /\ rowLock' = rowLock /\ UNCHANGED <<account, steady>>
    BY <1>2 DEF PatchLoad
  <2> HIDE DEF rec
  <2> QED
    BY <1>1, <2>1, <2>2, <2>3
<1>3. CASE PatchCount(w)
  <2> DEFINE rec == [job[w] EXCEPT !.pc = "counted"]
  <2>1. /\ job[w] \in PatchJob /\ rowLock' = rowLock /\ UNCHANGED <<account, steady>>
        /\ job' = [job EXCEPT ![w] = rec] \/ job' = [job EXCEPT ![w] = NoJob]
    BY <1>3 DEF PatchCount
  <2>2. rec \in PatchJob /\ rec.op = "patch"
    BY <2>1 DEF PatchJob
  <2>3. rec \in Jobs
    BY <2>2 DEF Jobs
  <2> HIDE DEF rec
  <2> QED
    BY <1>0, <1>1, <2>1, <2>2, <2>3
<1>4. CASE PatchCommit(w)
  <2>1. /\ job[w] \in PatchJob /\ job' = [job EXCEPT ![w] = NoJob] /\ rowLock' = Released(w)
        /\ steady' = (steady /\ ActiveAdmin(account'))
    BY <1>4 DEF PatchCommit, Finish
  <2>2. account' \in AccountRow
    BY <1>0, <1>4, <2>1 DEF PatchCommit, PatchJob, AccountRow
  <2>3. /\ \A v \in Worker : job'[v] = IF v = w THEN NoJob ELSE job[v]
        /\ \A v \in Worker \ {w} : rowLock["session"] = v => rowLock'["session"] = v
        /\ PasskeyTypeOK' /\ job' \in [Worker -> Jobs]
    <3>1. steady' \in BOOLEAN
      BY <2>1
    <3> QED
      BY <1>0, <2>1, <2>2, <3>1, JobMoves DEF PasskeyTypeOK, AccountRow
  <2>4. ChallengeOK'
    BY <1>0, <2>3, ChallengeStep
  <2>5. Deleting' = Deleting /\ Strong(enrolled)' = Strong(enrolled)
    BY <1>0, <2>3 DEF Deleting, Strong
  <2>6. FloorOK'
    BY <1>0, <2>1, <2>3, <2>5 DEF FloorOK, ActiveAdmin
  <2> QED
    BY <2>3, <2>4, <2>6
<1> QED
  BY <1>2, <1>3, <1>4

(* stepup_options: a fresh challenge, under the lock of the session's row. *)
LEMMA OptionsKeeps ==
    ASSUME PasskeyInv, NEW w \in Worker, StepupOptions(w) \/ OptionsCommit(w)
    PROVE  PasskeyInv'
<1> USE JobShape DEF PasskeyInv, Doing
<1>0. /\ UNCHANGED <<enrolled, account, spent, steady>> /\ NoJob \in Jobs /\ NoJob.op = "none"
      /\ issued \in 0 .. MaxChallenge /\ MaxChallenge \in Nat /\ challenge \in 0 .. issued
      /\ spent \subseteq 1 .. issued
      /\ rowLock \in [Passkey \cup {"session"} -> Worker \cup {NoWorker}]
  BY PasskeyAssumption DEF StepupOptions, OptionsCommit, PasskeyTypeOK, Jobs, NoJob, ChallengeOK
<1>1. CASE StepupOptions(w)
  <2> DEFINE rec == [op |-> "options", pc |-> "set", ch |-> issued + 1]
  <2>1. /\ rec \in OptionsJob /\ rec.op = "options" /\ rec.ch = issued + 1
        /\ issued' = issued + 1 /\ issued' \in 0 .. MaxChallenge /\ challenge' = challenge
        /\ job' = [job EXCEPT ![w] = rec] /\ Grab(w, "session") /\ job[w].op = "none"
    BY <1>0, <1>1 DEF StepupOptions, OptionsJob
  <2>2. rec \in Jobs
    BY <2>1 DEF Jobs
  <2> HIDE DEF rec
  <2>3. /\ \A v \in Worker : job'[v] = IF v = w THEN rec ELSE job[v]
        /\ PasskeyTypeOK' /\ job' \in [Worker -> Jobs]
        /\ rowLock["session"] = NoWorker /\ rowLock'["session"] = w
    BY <1>0, <2>1, <2>2, JobMoves DEF PasskeyTypeOK, Grab
  <2>4. \A v \in Worker : job[v].op # "options"
    BY <2>3, PasskeyAssumption DEF ChallengeOK
  <2>5. \A v \in Worker : job[v].op = "verify" => job[v].ch \in 1 .. issued
    BY DEF ChallengeOK
  <2>6. ChallengeOK'
    <3>1. challenge' \in 0 .. issued' /\ spent' \subseteq 1 .. issued' /\ challenge' # issued'
          /\ issued' >= 1 /\ issued' \notin spent'
      BY <1>0, <2>1
    <3>2. \A v \in Worker : job'[v].op = "verify" =>
              job'[v].ch \in 1 .. issued' /\ job'[v].ch # issued'
      BY <1>0, <2>1, <2>3, <2>5
    <3>3. SpentChallengeGone'
      BY <1>0, <2>1 DEF ChallengeOK, SpentChallengeGone
    <3> QED
      BY <2>1, <2>3, <2>4, <3>1, <3>2, <3>3 DEF ChallengeOK
  <2>7. FloorOK'
    BY <1>0, <2>1, <2>3, FloorStep
  <2> QED
    BY <2>3, <2>6, <2>7
<1>2. CASE OptionsCommit(w)
  <2>1. /\ job[w].op = "options" /\ job[w].ch = issued /\ rowLock["session"] = w
        /\ challenge' = issued /\ issued' = issued /\ issued >= 1 /\ issued \notin spent
        /\ job' = [job EXCEPT ![w] = NoJob] /\ rowLock' = Released(w)
    BY <1>2 DEF OptionsCommit, Finish, ChallengeOK
  <2>2. /\ \A v \in Worker : job'[v] = IF v = w THEN NoJob ELSE job[v]
        /\ PasskeyTypeOK' /\ job' \in [Worker -> Jobs]
    BY <1>0, <2>1, JobMoves DEF PasskeyTypeOK
  <2>3. \A v \in Worker \ {w} : job[v].op # "options"
    BY <2>1 DEF ChallengeOK
  <2>4. ChallengeOK'
    <3>1. SpentChallengeGone'
      BY <1>0, <2>1 DEF SpentChallengeGone
    <3>2. challenge' \in 0 .. issued'
      BY <1>0, <2>1
    <3> QED
      BY <1>0, <2>1, <2>2, <2>3, <3>1, <3>2 DEF ChallengeOK
  <2>5. FloorOK'
    BY <1>0, <2>1, <2>2, FloorStep
  <2> QED
    BY <2>2, <2>4, <2>5
<1> QED
  BY <1>1, <1>2

(* stepup_verify until its verdict is committed. *)
LEMMA VerifyKeeps ==
    ASSUME PasskeyInv, NEW w \in Worker,
           \/ \E p \in Passkey, answer \in 1 .. issued : VerifyLoad(w, p, answer)
           \/ VerifyClear(w) \/ VerifyAccept(w) \/ VerifyWrite(w) \/ VerifyStale(w)
    PROVE  PasskeyInv'
<1> USE JobShape DEF PasskeyInv, Doing
<1>0. /\ UNCHANGED <<enrolled, account, challenge, issued, spent, steady>>
      /\ NoJob \in Jobs /\ NoJob.op = "none" /\ job[w].op \in {"none", "verify"}
      /\ issued \in Nat /\ challenge \in 0 .. issued
      /\ rowLock \in [Passkey \cup {"session"} -> Worker \cup {NoWorker}]
  BY PasskeyAssumption DEF VerifyLoad, VerifyClear, VerifyAccept, VerifyWrite, VerifyStale,
     PasskeyTypeOK, Jobs, NoJob, ChallengeOK
<1>1. ASSUME NEW rec \in Jobs, rec.op \in {"none", "verify"}, job' = [job EXCEPT ![w] = rec],
             rowLock' = rowLock \/ rowLock' = Released(w)
               \/ (\E r \in DOMAIN rowLock : Grab(w, r)),
             rec.op = "verify" => /\ rec.ch \in 1 .. issued
                                  /\ \/ rec.ch = challenge
                                     \/ job[w].op = "verify" /\ rec.ch = job[w].ch
      PROVE  PasskeyInv'
  <2>1. /\ \A v \in Worker : job'[v] = IF v = w THEN rec ELSE job[v]
        /\ \A v \in Worker \ {w} : rowLock["session"] = v => rowLock'["session"] = v
        /\ PasskeyTypeOK' /\ job' \in [Worker -> Jobs]
    BY <1>0, <1>1, JobMoves DEF PasskeyTypeOK
  <2>2. ChallengeOK'
    BY <1>0, <1>1, <2>1, ChallengeStep
  <2>3. FloorOK'
    BY <1>0, <1>1, <2>1, FloorStep
  <2> QED
    BY <2>1, <2>2, <2>3
<1>2. ASSUME NEW p \in Passkey, NEW answer \in 1 .. issued, VerifyLoad(w, p, answer)
      PROVE  PasskeyInv'
  <2> DEFINE rec == [op |-> "verify", pc |-> "loaded", pk |-> p, answer |-> answer,
                     ch |-> challenge]
  <2>1. challenge \in Nat /\ challenge \in 1 .. issued /\ answer \in Nat
    BY <1>0, <1>2 DEF VerifyLoad
  <2>2. /\ rec \in VerifyJob /\ rec.op = "verify" /\ rec.ch = challenge
        /\ job' = [job EXCEPT ![w] = rec] /\ rowLock' = rowLock
    BY <1>2, <2>1 DEF VerifyLoad, VerifyJob
  <2>3. rec \in Jobs
    BY <2>2 DEF Jobs
  <2> HIDE DEF rec
  <2> QED
    BY <1>1, <2>1, <2>2, <2>3
<1>3. ASSUME job[w].op = "verify", NEW pc \in {"cleared", "accepted", "written"},
             job' = [job EXCEPT ![w].pc = pc],
             rowLock' = rowLock \/ (\E r \in DOMAIN rowLock : Grab(w, r))
      PROVE  PasskeyInv'
  <2> DEFINE rec == [job[w] EXCEPT !.pc = pc]
  <2>1. job[w] \in VerifyJob /\ job' = [job EXCEPT ![w] = rec]
    BY <1>3
  <2>2. rec \in VerifyJob /\ rec.op = "verify" /\ rec.ch = job[w].ch
    BY <2>1 DEF VerifyJob
  <2>3. rec \in Jobs /\ job[w].ch \in 1 .. issued
    BY <1>3, <2>2 DEF Jobs, ChallengeOK
  <2> HIDE DEF rec
  <2> QED
    BY <1>1, <1>3, <2>1, <2>2, <2>3
<1>4. CASE VerifyClear(w)
  <2>1. \E r \in DOMAIN rowLock : Grab(w, r)
    BY <1>0, <1>4 DEF VerifyClear
  <2> QED
    BY <1>3, <1>4, <2>1 DEF VerifyClear
<1>5. CASE VerifyAccept(w)
  BY <1>3, <1>5 DEF VerifyAccept
<1>6. CASE VerifyWrite(w)
  <2>1. job[w] \in VerifyJob
    BY <1>6 DEF VerifyWrite
  <2>2. \E r \in DOMAIN rowLock : Grab(w, r)
    BY <1>0, <1>6, <2>1 DEF VerifyWrite, VerifyJob
  <2> QED
    BY <1>3, <1>6, <2>2 DEF VerifyWrite
<1>7. CASE VerifyStale(w)
  BY <1>0, <1>1, <1>7 DEF VerifyStale, Finish
<1> QED
  BY <1>2, <1>4, <1>5, <1>6, <1>7

(* The verdict, right or wrong, is committed and the challenge cleared with it. *)
LEMMA VerdictKeeps ==
    ASSUME PasskeyInv, NEW w \in Worker, VerifyRefuse(w) \/ VerifyCommit(w)
    PROVE  PasskeyInv'
<1> USE JobShape DEF PasskeyInv, Doing
<1>0. /\ UNCHANGED <<enrolled, account, issued, steady>> /\ challenge' = 0
      /\ spent' = spent \cup {job[w].ch} /\ job[w].op = "verify" /\ job[w].ch \in 1 .. issued
      /\ job' = [job EXCEPT ![w] = NoJob] /\ rowLock' = Released(w)
      /\ NoJob \in Jobs /\ NoJob.op = "none" /\ issued \in 0 .. MaxChallenge
      /\ MaxChallenge \in Nat
  BY PasskeyAssumption DEF VerifyRefuse, VerifyCommit, Finish, Cleared, Jobs, NoJob, ChallengeOK,
     PasskeyTypeOK
<1>1. spent' \subseteq 1 .. MaxChallenge /\ spent' \subseteq 1 .. issued
      /\ 0 \in 0 .. MaxChallenge /\ 0 \in 0 .. issued /\ 0 \notin spent'
  <2>1. spent \subseteq 1 .. issued
    BY DEF ChallengeOK
  <2>2. spent' \subseteq 1 .. issued
    BY <1>0, <2>1
  <2>3. issued \in Nat /\ issued <= MaxChallenge
    BY <1>0
  <2>4. \A c \in 1 .. issued : c \in 1 .. MaxChallenge /\ c # 0
    BY <1>0, <2>3
  <2>5. spent' \subseteq 1 .. MaxChallenge /\ 0 \notin spent'
    BY <2>2, <2>4
  <2>6. 0 \in 0 .. MaxChallenge /\ 0 \in 0 .. issued
    BY <1>0, <2>3
  <2> QED
    BY <2>2, <2>5, <2>6
<1>2. /\ \A v \in Worker : job'[v] = IF v = w THEN NoJob ELSE job[v]
      /\ \A v \in Worker \ {w} : rowLock["session"] = v => rowLock'["session"] = v
      /\ PasskeyTypeOK' /\ job' \in [Worker -> Jobs]
  BY <1>0, <1>1, JobMoves DEF PasskeyTypeOK
<1>3. ChallengeOK'
  <2>1. ASSUME NEW v \in Worker, job'[v].op = "options"
        PROVE  /\ rowLock'["session"] = v /\ job'[v].ch = issued /\ challenge' # issued
               /\ issued >= 1 /\ issued \notin spent'
               /\ \A u \in Worker : job'[u].op = "verify" => job'[u].ch # issued
    <3>1. v # w /\ job[v].op = "options"
      BY <1>0, <1>2, <2>1
    <3>2. /\ rowLock["session"] = v /\ job[v].ch = issued /\ issued >= 1 /\ issued \notin spent
          /\ \A u \in Worker : job[u].op = "verify" => job[u].ch # issued
      BY <3>1 DEF ChallengeOK
    <3> QED
      BY <1>0, <1>2, <3>1, <3>2
  <2>2. \A v \in Worker : job'[v].op = "verify" => job'[v].ch \in 1 .. issued
    BY <1>0, <1>2 DEF ChallengeOK
  <2>3. SpentChallengeGone'
    BY <1>0, <1>1 DEF SpentChallengeGone
  <2> QED
    BY <1>0, <1>1, <2>1, <2>2, <2>3 DEF ChallengeOK
<1>4. FloorOK'
  BY <1>0, <1>2, FloorStep
<1> QED
  BY <1>2, <1>3, <1>4

(* The inductive invariant of an account's passkeys. *)
THEOREM PasskeysCorrect == PasskeySpec => []PasskeyInv
<1>1. PasskeyInv /\ [PasskeyNext]_passkeyVars => PasskeyInv'
  <2> SUFFICES ASSUME PasskeyInv, [PasskeyNext]_passkeyVars PROVE PasskeyInv'
    OBVIOUS
  <2>1. CASE UNCHANGED passkeyVars
    BY <2>1 DEF passkeyVars, PasskeyInv, PasskeyTypeOK, ChallengeOK, SpentChallengeGone, FloorOK,
       Strong, Deleting
  <2> QED
    BY <2>1, DeleteKeeps, DeleteCommitKeeps, PatchKeeps, OptionsKeeps, VerifyKeeps, VerdictKeeps
       DEF PasskeyNext
<1> QED
  BY <1>1, InitPasskeys, PTL DEF PasskeySpec

(* However many verifications and requests for options overlap, a challenge that has *)
(* been answered is not the session's any more (stepup_options, stepup_verify).      *)
THEOREM AnsweredChallengesGone == PasskeySpec => []SpentChallengeGone
<1>1. PasskeyInv => SpentChallengeGone
  BY DEF PasskeyInv, ChallengeOK
<1> QED
  BY <1>1, PasskeysCorrect, PTL

(* With n requests at once the floor of two strong passkeys of a steady admin is    *)
(* undercut by n - 1 at most (delete_credential counts and then deletes).           *)
THEOREM FloorUndercutBounded == PasskeySpec => []AuthenticatorFloor
<1>1. PasskeyInv => AuthenticatorFloor
  <2> SUFFICES ASSUME PasskeyInv, steady
               PROVE  Cardinality(Strong(enrolled)) + Cardinality(Worker) >= 3
    BY DEF AuthenticatorFloor
  <2> QED
    BY FloorFinite DEF PasskeyInv, FloorOK
<1> QED
  BY <1>1, PasskeysCorrect, PTL

-----------------------------------------------------------------------------
(* The shipping of the audit log.                                          *)

(* A batch of ids has a last one. *)
LEMMA BatchHasMax ==
    ASSUME NEW B, B \subseteq Id, B # {}
    PROVE  Max(B) \in B /\ \A i \in B : i <= Max(B)
<1>1. MaxId \in Nat
  BY ShipAssumption
<1> DEFINE D == {MaxId - i : i \in B}
<1>2. \A i \in B : i \in Nat /\ i <= MaxId
  BY <1>1 DEF Id
<1>3. D \subseteq Nat /\ D # {}
  BY <1>1, <1>2
<1>4. \E d \in D : \A e \in D : ~ (<<e, d>> \in OpToRel(<, Nat))
  BY ONLY <1>3, WFMin, NatLessThanWellFounded
<1>5. PICK d \in D : \A e \in D : ~ (e < d)
  BY <1>3, <1>4 DEF OpToRel
<1>6. PICK m \in B : d = MaxId - m
  BY <1>5
<1>7. ASSUME NEW i \in B PROVE m >= i
  <2>1. ~ (MaxId - i < MaxId - m)
    BY <1>5, <1>6
  <2> QED
    BY <1>1, <1>2, <2>1
<1>8. Max(B) \in B /\ \A i \in B : Max(B) >= i
  BY <1>6, <1>7 DEF Max
<1> QED
  BY <1>2, <1>8

(* Up to m every id has been handed out, an open one has been overtaken by a batch *)
(* and a committed one is shipped, overtaken, dropped or in the batch B.           *)
Covered(m, B) ==
    \A i \in Id : i <= m =>
        /\ audit[i] # "none"
        /\ audit[i] = "open" => i \in overtaken
        /\ audit[i] = "committed" => i \in sink \cup overtaken \cup dropped \cup B

(* Ids are handed out in order (emit, the sequence of the id column). *)
InOrder == \A i, j \in Id : i < j /\ audit[j] # "none" => audit[i] # "none"

(* A run began at a cursor that was covered; what it read covers its batch, and   *)
(* once it goes to advance the cursor the sink has the batch, or has lost it.     *)
RunOK(s) ==
    s # NoShip =>
        /\ Covered(s.from, {})
        /\ s.pc # "read" => s.batch # {} /\ Covered(Max(s.batch), s.batch)
        /\ s.pc \in {"advance", "commit"} => s.batch \subseteq sink \cup dropped

ShipInv ==
    /\ ShipTypeOK /\ InOrder
    /\ Covered(cursor, {})
    /\ \A x \in Shipper : RunOK(ship[x])

(* No row, no run and an empty sink. *)
LEMMA InitShip == ShipInit => ShipInv
<1> SUFFICES ASSUME ShipInit PROVE ShipInv
  OBVIOUS
<1> USE DEF ShipInit
<1>1. MaxId \in Nat /\ MaxRuns \in Nat
  BY ShipAssumption
<1>2. ShipTypeOK
  BY <1>1 DEF ShipTypeOK, Ships
<1>3. \A i \in Id : ~ (i <= 0)
  BY <1>1 DEF Id
<1> QED
  BY <1>2, <1>3 DEF ShipInv, InOrder, Covered, RunOK

(* What rows, the sink and overtaken ids may do without uncovering anything. *)
Grows ==
    /\ \A i \in Id :
         \/ audit'[i] = audit[i]
         \/ audit[i] = "none"
         \/ audit[i] = "open" /\ audit'[i] # "none"
    /\ sink \subseteq sink' /\ overtaken \subseteq overtaken' /\ dropped \subseteq dropped'

(* Coverage is never lost. *)
LEMMA CoverKept ==
    ASSUME Grows, NEW m, NEW B, Covered(m, B)
    PROVE  \A i \in Id : i <= m =>
               /\ audit'[i] # "none"
               /\ audit'[i] = "open" => i \in overtaken'
               /\ audit'[i] = "committed" => i \in sink' \cup overtaken' \cup dropped' \cup B
BY DEF Grows, Covered

(* The same, of the runs a step leaves alone. *)
LEMMA RunKept ==
    ASSUME Grows, NEW x \in Shipper, RunOK(ship[x]), ship'[x] = ship[x]
    PROVE  RunOK(ship[x])'
<1>1. SUFFICES ASSUME ship[x] # NoShip PROVE RunOK(ship[x])'
  BY DEF RunOK
<1>2. Covered(ship[x].from, {})'
  <2>1. PICK m : m = ship[x].from
    OBVIOUS
  <2>2. Covered(m, {})
    BY <1>1, <2>1 DEF RunOK
  <2> QED
    BY <2>1, <2>2, CoverKept DEF Covered
<1>3. ship[x].pc # "read" => (ship[x].batch # {} /\ Covered(Max(ship[x].batch), ship[x].batch))'
  <2>1. SUFFICES ASSUME ship[x].pc # "read"
                 PROVE  (ship[x].batch # {} /\ Covered(Max(ship[x].batch), ship[x].batch))'
    OBVIOUS
  <2>2. PICK B : B = ship[x].batch
    OBVIOUS
  <2>3. PICK m : m = Max(B)
    OBVIOUS
  <2>4. B # {} /\ Covered(m, B)
    BY <1>1, <2>1, <2>2, <2>3 DEF RunOK
  <2>5. m = Max(ship'[x].batch) /\ B = ship'[x].batch
    BY <2>2, <2>3
  <2> QED
    BY <2>4, <2>5, CoverKept DEF Covered
<1>4. ship[x].pc \in {"advance", "commit"} => ship[x].batch \subseteq sink' \cup dropped'
  BY <1>1 DEF RunOK, Grows
<1> QED
  BY <1>2, <1>3, <1>4 DEF RunOK

(* A step whose only new run is x's keeps the invariant if that run is right. *)
LEMMA ShipStep ==
    ASSUME ShipInv, Grows, ShipTypeOK', InOrder', NEW x \in Shipper,
           \A y \in Shipper \ {x} : ship'[y] = ship[y],
           RunOK(ship[x])', Covered(cursor, {})'
    PROVE  ShipInv'
<1>1. \A y \in Shipper : RunOK(ship[y])'
  BY RunKept DEF ShipInv
<1> QED
  BY <1>1 DEF ShipInv

(* The steps that leave every row alone keep the order of the ids. *)
LEMMA OrderKept == ASSUME ShipInv, audit' = audit PROVE InOrder'
BY DEF ShipInv, InOrder

(* What a run in progress is. *)
ShipRun == [pc : {"read", "emit", "advance", "commit"}, from : 0 .. MaxId, batch : SUBSET Id]

(* A run that is on has all its fields. *)
LEMMA RunShape ==
    ASSUME ShipInv, NEW x \in Shipper, ship[x] # NoShip
    PROVE  ship[x] \in ShipRun
BY DEF ShipInv, ShipTypeOK, Ships, ShipRun

(* A new row takes the next id: nothing that is covered had none. *)
LEMMA EmitRowKeeps == ASSUME ShipInv, EmitRow PROVE ShipInv'
<1>1. PICK i \in Id : /\ audit[i] = "none" /\ \A j \in Id : j < i => audit[j] # "none"
                      /\ audit' = [audit EXCEPT ![i] = "open"]
  BY DEF EmitRow
<1>2. /\ UNCHANGED <<cursor, ship, sink, overtaken, dropped, runs>>
      /\ audit \in [Id -> {"none", "open", "committed", "rolledBack"}]
  BY DEF EmitRow, ShipInv, ShipTypeOK
<1>3. Grows
  BY <1>1, <1>2 DEF Grows
<1>4. ShipTypeOK'
  BY <1>1, <1>2 DEF ShipInv, ShipTypeOK
<1>5. InOrder'
  BY <1>1, <1>2 DEF ShipInv, InOrder
<1>6. Covered(cursor, {})'
  BY <1>2, <1>3, CoverKept DEF ShipInv, Covered
<1>7. \A x \in Shipper : RunOK(ship[x])'
  BY <1>2, <1>3, RunKept DEF ShipInv
<1> QED
  BY <1>4, <1>5, <1>6, <1>7 DEF ShipInv

(* A row that commits late was open, so it is among the overtaken where it matters. *)
LEMMA EndRowKeeps == ASSUME ShipInv, NEW i \in Id, EndRow(i) PROVE ShipInv'
<1>1. PICK st \in {"committed", "rolledBack"} : audit' = [audit EXCEPT ![i] = st]
  BY DEF EndRow
<1>2. /\ UNCHANGED <<cursor, ship, sink, overtaken, dropped, runs>> /\ audit[i] = "open"
      /\ audit \in [Id -> {"none", "open", "committed", "rolledBack"}]
  BY DEF EndRow, ShipInv, ShipTypeOK
<1>3. Grows
  BY <1>1, <1>2 DEF Grows
<1>4. ShipTypeOK'
  BY <1>1, <1>2 DEF ShipInv, ShipTypeOK
<1>5. InOrder'
  BY <1>1, <1>2 DEF ShipInv, InOrder
<1>6. Covered(cursor, {})'
  BY <1>2, <1>3, CoverKept DEF ShipInv, Covered
<1>7. \A x \in Shipper : RunOK(ship[x])'
  BY <1>2, <1>3, RunKept DEF ShipInv
<1> QED
  BY <1>4, <1>5, <1>6, <1>7 DEF ShipInv

(* A run that ends leaves no obligation behind. *)
LEMMA RunEnds ==
    ASSUME ShipInv, NEW x \in Shipper, ship' = [ship EXCEPT ![x] = NoShip],
           UNCHANGED <<audit, cursor, overtaken, dropped, runs>>,
           sink \subseteq sink', sink' \subseteq Id
    PROVE  ShipInv'
<1>1. Grows
  BY DEF Grows
<1>2. ShipTypeOK'
  BY DEF ShipInv, ShipTypeOK, Ships
<1>3. ship'[x] = NoShip /\ \A y \in Shipper \ {x} : ship'[y] = ship[y]
  BY DEF ShipInv, ShipTypeOK
<1>4. RunOK(ship[x])'
  BY <1>3 DEF RunOK
<1>5. Covered(cursor, {})'
  BY <1>1, CoverKept DEF ShipInv, Covered
<1> QED
  BY <1>1, <1>2, <1>3, <1>4, <1>5, OrderKept, ShipStep

(* A run begins at the committed cursor, which is covered. *)
LEMMA ReadCursorKeeps == ASSUME ShipInv, NEW x \in Shipper, ReadCursor(x) PROVE ShipInv'
<1> DEFINE s == [pc |-> "read", from |-> cursor, batch |-> {}]
<1>0. /\ ship' = [ship EXCEPT ![x] = s] /\ runs < MaxRuns /\ runs' = runs + 1
      /\ UNCHANGED <<audit, cursor, sink, overtaken, dropped>>
      /\ runs \in 0 .. MaxRuns /\ MaxRuns \in Nat
  BY ShipAssumption DEF ReadCursor, ShipInv, ShipTypeOK
<1>1. s \in Ships /\ s.from = cursor /\ s.pc = "read" /\ ship'[x] = s
      /\ \A y \in Shipper \ {x} : ship'[y] = ship[y]
  BY <1>0 DEF ShipInv, ShipTypeOK, Ships
<1> HIDE DEF s
<1>2. runs' \in 0 .. MaxRuns
  BY <1>0
<1>3. ShipTypeOK'
  BY <1>0, <1>1, <1>2 DEF ShipInv, ShipTypeOK
<1>4. Grows
  BY <1>0 DEF Grows
<1>5. Covered(cursor, {})'
  BY <1>0, <1>4, CoverKept DEF ShipInv, Covered
<1>6. RunOK(ship[x])'
  BY <1>0, <1>1, <1>5 DEF RunOK, Covered
<1> QED
  BY <1>0, <1>1, <1>3, <1>4, <1>5, <1>6, OrderKept, ShipStep

(* The batch takes the visible rows in order, and what is still open below its last *)
(* row is overtaken: the batch covers everything up to that row.                    *)
LEMMA BatchCovers ==
    ASSUME ShipInv, NEW x \in Shipper, ship[x].pc = "read", NEW B \in SUBSET Id, B # {},
           Batch(ship[x].from, B), audit' = audit, UNCHANGED <<sink, dropped>>,
           overtaken' = overtaken \cup {i \in Id : audit[i] = "open" /\ i < Max(B)}
    PROVE  \A i \in Id : i <= Max(B) =>
               /\ audit'[i] # "none"
               /\ audit'[i] = "open" => i \in overtaken'
               /\ audit'[i] = "committed" => i \in sink' \cup overtaken' \cup dropped' \cup B
<1> SUFFICES ASSUME NEW i \in Id, i <= Max(B)
             PROVE  /\ audit[i] # "none"
                    /\ audit[i] = "open" => i \in overtaken'
                    /\ audit[i] = "committed" => i \in sink \cup overtaken' \cup dropped \cup B
  OBVIOUS
<1>1. PICK m \in B : m = Max(B) /\ \A j \in B : j <= m
  BY BatchHasMax
<1>2. MaxId \in Nat /\ Id \subseteq Nat /\ m \in Nat /\ i \in Nat
  BY <1>1, ShipAssumption DEF Id
<1>3. PICK f \in 0 .. MaxId : f = ship[x].from
  BY RunShape DEF NoShip, ShipRun
<1>4. B \subseteq Visible(f) /\ \A a \in B, j \in Visible(f) \ B : a < j
  BY <1>3 DEF Batch
<1>5. audit[m] = "committed" /\ i <= m
  BY <1>1, <1>4 DEF Visible
<1>6. audit[i] # "none"
  BY <1>1, <1>2, <1>5 DEF ShipInv, InOrder
<1>7. ASSUME audit[i] = "open" PROVE i \in overtaken'
  BY <1>1, <1>2, <1>5, <1>7
<1>8. ASSUME audit[i] = "committed" PROVE i \in sink \cup overtaken' \cup dropped \cup B
  <2>1. CASE i <= f
    <3>1. Covered(f, {})
      BY <1>3 DEF ShipInv, RunOK, NoShip
    <3> QED
      BY <1>8, <2>1, <3>1 DEF Covered
  <2>2. CASE ~ (i <= f)
    <3>1. i \in Visible(f)
      BY <1>2, <1>3, <1>8, <2>2 DEF Visible
    <3>2. i \notin B => m < i
      BY <1>1, <1>4, <3>1
    <3> QED
      BY <1>2, <1>5, <3>2
  <2> QED
    BY <2>1, <2>2
<1> QED
  BY <1>6, <1>7, <1>8

(* A batch that is read starts right above the cursor, so what lies below it is covered. *)
LEMMA ReadBatchKeeps == ASSUME ShipInv, NEW x \in Shipper, ReadBatch(x) PROVE ShipInv'
<1>0. PICK B \in SUBSET Id :
         /\ Batch(ship[x].from, B)
         /\ IF B = {} THEN ship' = [ship EXCEPT ![x] = NoShip] /\ UNCHANGED overtaken
            ELSE /\ ship' = [ship EXCEPT ![x].pc = "emit", ![x].batch = B]
                 /\ overtaken' = overtaken \cup {i \in Id : audit[i] = "open" /\ i < Max(B)}
  BY DEF ReadBatch
<1>1. ship[x].pc = "read" /\ UNCHANGED <<audit, cursor, sink, dropped, runs>>
      /\ sink \subseteq Id
  BY DEF ReadBatch, ShipInv, ShipTypeOK
<1>2. CASE B = {}
  BY <1>0, <1>1, <1>2, RunEnds
<1>3. CASE B # {}
  <2>1. PICK r \in ShipRun : r = ship[x]
    BY <1>1, RunShape DEF NoShip
  <2> DEFINE s == [r EXCEPT !.pc = "emit", !.batch = B]
  <2>2. s \in Ships /\ s.pc = "emit" /\ s.batch = B /\ s.from = r.from /\ s # NoShip
    BY DEF Ships, ShipRun, NoShip
  <2>3. ship' = [ship EXCEPT ![x] = s]
    BY <1>0, <1>3, <2>1
  <2> HIDE DEF s
  <2>4. ship'[x] = s /\ \A y \in Shipper \ {x} : ship'[y] = ship[y]
    BY <2>3 DEF ShipInv, ShipTypeOK
  <2>5. overtaken' = overtaken \cup {i \in Id : audit[i] = "open" /\ i < Max(B)}
    BY <1>0, <1>3
  <2>6. ShipTypeOK'
    BY <1>1, <2>2, <2>3, <2>5 DEF ShipInv, ShipTypeOK
  <2>7. Grows
    BY <1>1, <2>5 DEF Grows
  <2>8. Covered(cursor, {})'
    BY <1>1, <2>7, CoverKept DEF ShipInv, Covered
  <2>9. Covered(ship[x].from, {})'
    <3>1. PICK m : m = r.from
      OBVIOUS
    <3>2. Covered(m, {})
      BY <1>1, <2>1, <3>1 DEF ShipInv, RunOK, NoShip
    <3>3. ship'[x].from = m
      BY <2>2, <2>4, <3>1
    <3> QED
      BY <2>7, <3>2, <3>3, CoverKept DEF Covered
  <2>10. (ship[x].batch # {} /\ Covered(Max(ship[x].batch), ship[x].batch))'
    <3>1. PICK m : m = Max(B)
      OBVIOUS
    <3>2. m = Max(ship'[x].batch) /\ B = ship'[x].batch
      BY <2>2, <2>4, <3>1
    <3> QED
      BY <1>0, <1>1, <1>3, <2>5, <3>1, <3>2, BatchCovers DEF Covered
  <2>11. RunOK(ship[x])'
    BY <2>2, <2>4, <2>9, <2>10 DEF RunOK
  <2> QED
    BY <1>1, <2>4, <2>6, <2>7, <2>8, <2>11, OrderKept, ShipStep
<1> QED
  BY <1>2, <1>3

(* A run that only moves on, its batch in the sink or lost where it must be. *)
LEMMA RunMoves ==
    ASSUME ShipInv, NEW x \in Shipper, ship[x] # NoShip, ship[x].pc # "read",
           NEW pc \in {"advance", "commit"}, ship' = [ship EXCEPT ![x].pc = pc],
           UNCHANGED <<audit, cursor, overtaken, runs>>,
           sink \subseteq sink', dropped \subseteq dropped', sink' \subseteq Id, dropped' \subseteq Id,
           ship[x].batch \subseteq sink' \cup dropped'
    PROVE  ShipInv'
<1>1. PICK r \in ShipRun : r = ship[x]
  BY RunShape
<1> DEFINE s == [r EXCEPT !.pc = pc]
<1>2. s \in Ships /\ s.pc = pc /\ s.batch = r.batch /\ s.from = r.from
  BY DEF Ships, ShipRun
<1>3. ship' = [ship EXCEPT ![x] = s]
  BY <1>1
<1> HIDE DEF s
<1>4. ship'[x] = s /\ \A y \in Shipper \ {x} : ship'[y] = ship[y]
  BY <1>3 DEF ShipInv, ShipTypeOK
<1>5. ShipTypeOK'
  BY <1>2, <1>3 DEF ShipInv, ShipTypeOK
<1>6. Grows
  BY DEF Grows
<1>7. Covered(cursor, {})'
  BY <1>6, CoverKept DEF ShipInv, Covered
<1>8. PICK m, n, B : m = r.from /\ B = r.batch /\ n = Max(B)
  OBVIOUS
<1>9. Covered(m, {}) /\ B # {} /\ Covered(n, B)
  BY <1>1, <1>8 DEF ShipInv, RunOK
<1>10. ship'[x].from = m /\ ship'[x].batch = B /\ Max(ship'[x].batch) = n
  BY <1>2, <1>4, <1>8
<1>11. Covered(ship[x].from, {})' /\ Covered(Max(ship[x].batch), ship[x].batch)'
  BY <1>6, <1>9, <1>10, CoverKept DEF Covered
<1>12. RunOK(ship[x])'
  BY <1>1, <1>8, <1>9, <1>10, <1>11 DEF RunOK
<1> QED
  BY <1>4, <1>5, <1>6, <1>7, <1>12, OrderKept, ShipStep

(* The sink takes the batch, part of it with an error, or part of it without one. *)
LEMMA EmitKeeps ==
    ASSUME ShipInv, NEW x \in Shipper, EmitLines(x) \/ EmitLinesFails(x) \/ EmitToFile(x)
    PROVE  ShipInv'
<1>1. ship[x].pc = "emit" /\ ship[x] # NoShip /\ sink \subseteq Id /\ dropped \subseteq Id
  BY DEF EmitLines, EmitLinesFails, EmitToFile, ShipInv, ShipTypeOK, NoShip
<1>2. ship[x].batch \subseteq Id
  BY <1>1, RunShape DEF ShipRun
<1>3. CASE EmitLines(x)
  BY <1>1, <1>2, <1>3, RunMoves DEF EmitLines
<1>4. CASE EmitLinesFails(x)
  BY <1>1, <1>2, <1>4, RunEnds DEF EmitLinesFails, AfterFailure
<1>5. CASE EmitToFile(x)
  BY <1>1, <1>2, <1>5, RunMoves DEF EmitToFile
<1> QED
  BY <1>3, <1>4, <1>5

(* Advance moves on or fails on the primary key; a run may stop anywhere. *)
LEMMA AdvanceKeeps ==
    ASSUME ShipInv, NEW x \in Shipper, Advance(x) \/ StopShip(x)
    PROVE  ShipInv'
<1>1. /\ UNCHANGED <<audit, cursor, sink, overtaken, dropped, runs>>
      /\ sink \subseteq Id /\ dropped \subseteq Id
  BY DEF Advance, StopShip, ShipInv, ShipTypeOK
<1>2. CASE ship' = [ship EXCEPT ![x] = NoShip]
  BY <1>1, <1>2, RunEnds
<1>3. CASE Advance(x) /\ ship' = [ship EXCEPT ![x].pc = "commit"]
  <2>1. ship[x].pc = "advance" /\ ship[x] # NoShip
    BY <1>3 DEF Advance, NoShip
  <2>2. ship[x].batch \subseteq sink \cup dropped
    BY <2>1 DEF ShipInv, RunOK
  <2> QED
    BY <1>1, <1>3, <2>1, <2>2, RunMoves
<1> QED
  BY <1>2, <1>3 DEF Advance, StopShip

(* The cursor goes, back or forth, to the last row of a batch that is in the sink *)
(* or lost: what lies below it is covered.                                         *)
LEMMA CommitShipKeeps == ASSUME ShipInv, NEW x \in Shipper, CommitShip(x) PROVE ShipInv'
<1>1. /\ ship[x].pc = "commit" /\ cursor' = Max(ship[x].batch)
      /\ ship' = [ship EXCEPT ![x] = NoShip] /\ ship[x] # NoShip
      /\ UNCHANGED <<audit, sink, overtaken, dropped, runs>>
  BY DEF CommitShip, NoShip
<1>2. PICK B \in SUBSET Id : B = ship[x].batch /\ cursor' = Max(B)
  BY <1>1, RunShape DEF ShipRun
<1>3. B # {} /\ B \subseteq sink \cup dropped
  BY <1>1, <1>2 DEF ShipInv, RunOK
<1>4. Covered(Max(B), B)
  BY <1>1, <1>2 DEF ShipInv, RunOK
<1>5. Covered(cursor, {})'
  BY <1>1, <1>2, <1>3, <1>4 DEF Covered
<1>6. cursor' \in Id
  BY <1>2, <1>3, BatchHasMax
<1>7. cursor' \in 0 .. MaxId
  BY <1>6, ShipAssumption DEF Id
<1>8. ShipTypeOK'
  BY <1>1, <1>7 DEF ShipInv, ShipTypeOK, Ships
<1>9. ship'[x] = NoShip /\ \A y \in Shipper \ {x} : ship'[y] = ship[y]
  BY <1>1 DEF ShipInv, ShipTypeOK
<1>10. RunOK(ship[x])'
  BY <1>9 DEF RunOK
<1>11. Grows
  BY <1>1 DEF Grows
<1> QED
  BY <1>1, <1>5, <1>8, <1>9, <1>10, <1>11, OrderKept, ShipStep

(* The inductive invariant of the shipping of one audit table. *)
THEOREM ShippingCorrect == ShipSpec => []ShipInv
<1>1. ShipInv /\ [ShipNext]_shipVars => ShipInv'
  <2> SUFFICES ASSUME ShipInv, [ShipNext]_shipVars PROVE ShipInv'
    OBVIOUS
  <2>1. CASE UNCHANGED shipVars
    <3>1. Grows
      BY <2>1 DEF shipVars, Grows
    <3>2. \A x \in Shipper : RunOK(ship[x])'
      BY <2>1, <3>1, RunKept DEF ShipInv, shipVars
    <3> QED
      BY <2>1, <3>2 DEF shipVars, ShipInv, ShipTypeOK, InOrder, Covered
  <2> QED
    BY <2>1, EmitRowKeeps, EndRowKeeps, ReadCursorKeeps, ReadBatchKeeps, EmitKeeps,
       AdvanceKeeps, CommitShipKeeps DEF ShipNext
<1> QED
  BY <1>1, InitShip, PTL DEF ShipSpec

(* Whatever runs of ship-logs overlap, fail or stop, the cursor has passed no         *)
(* committed row that is neither shipped, nor overtaken while it was open, nor lost   *)
(* by the file sink (ship, _advance).                                                 *)
THEOREM CursorPassesOnlyShipped == ShipSpec => []ShippedBelowCursor
<1>1. ShipInv => ShippedBelowCursor
  BY DEF ShipInv, Covered, ShippedBelowCursor
<1> QED
  BY <1>1, ShippingCorrect, PTL

-----------------------------------------------------------------------------
(* The throttle.                                                           *)

(* Rows, pending writes and requests; the counts need no bound here. *)
RowRec == [here : BOOLEAN, count : Nat, window : Nat, next : Int]
Writes == UNION {[K -> RowRec] : K \in SUBSET ThrottleKey}
InProgress == [pc : {"check", "evaluate", "insert", "lock", "delete", "commit"},
           key : ThrottleKey, ip : SourceIp, now : Nat, allowed : BOOLEAN,
           write : Writes, reset : SUBSET ThrottleKey]

ThrottleShapes ==
    /\ throttle \in [ThrottleKey -> RowRec]
    /\ holder \in [ThrottleKey -> Attempt \cup {NoAttempt}]
    /\ attempt \in [Attempt -> {Rest} \cup InProgress]
    /\ time \in Nat
    /\ fails \in [ThrottleKey -> Nat]

(* A request writes only rows whose lock it holds.  Between its INSERT and its update *)
(* a row of its own has no failure and is not committed; after the update it counts   *)
(* one failure more than were committed, or starts a new window.                      *)
WriteOK(b, k) ==
    /\ holder[k] = b
    /\ IF attempt[b].pc = "lock" /\ k = attempt[b].key
       THEN ~throttle[k].here /\ attempt[b].write[k].here /\ attempt[b].write[k].count = 0
       ELSE attempt[b].write[k].here =>
              attempt[b].write[k].count = IF k \in attempt[b].reset THEN 1 ELSE fails[k] + 1

AttemptOK(b) ==
    attempt[b] # Rest =>
        /\ attempt[b].now <= time
        /\ attempt[b].pc \in {"insert", "lock"} /\ attempt[b].key # Account =>
             DOMAIN attempt[b].write \subseteq {attempt[b].key} /\ attempt[b].reset = {}
        /\ attempt[b].pc \in {"check", "evaluate", "delete"} =>
             DOMAIN attempt[b].write = {} /\ attempt[b].reset = {}
        /\ attempt[b].pc = "insert" => attempt[b].key \notin DOMAIN attempt[b].write
        /\ attempt[b].pc \in {"insert", "lock"} => attempt[b].key \notin attempt[b].reset
        /\ \A k \in DOMAIN attempt[b].write : WriteOK(b, k)

(* No row, no failure. *)
AbsentOK == \A k \in ThrottleKey : ~throttle[k].here => fails[k] = 0

(* While the account is blocked nobody joins the requests past the check, and each of *)
(* them evaluates one password.                                                       *)
Evaluating == {a \in Attempt : attempt[a].pc = "evaluate"}
GuessOK ==
    /\ extra \in Nat
    /\ IF Blocked(Account) THEN extra + Cardinality(Evaluating) < Cardinality(Attempt)
       ELSE extra = 0

ThrottleInv ==
    /\ ThrottleShapes /\ FailuresCounted /\ AbsentOK /\ GuessOK
    /\ \A a \in Attempt : AttemptOK(a)

(* The delay is a number, whatever the count. *)
LEMMA DelayIsInt == ASSUME NEW k, NEW n \in Nat PROVE delay_seconds(k, n) \in Int
<1>1. Free(k) \in Nat /\ DelayCap \in Nat
  BY ThrottleAssumption DEF Free
<1>2. n > Free(k) => 2 ^ (n - Free(k)) \in Int
  BY <1>1
<1> QED
  BY <1>1, <1>2 DEF delay_seconds

(* The row of one more failure. *)
LEMMA CountedRow ==
    ASSUME NEW r \in RowRec, NEW k, NEW now \in Nat
    PROVE  /\ Counted(r, k, now) \in RowRec /\ Counted(r, k, now).here
           /\ Counted(r, k, now).count = IF Expired(r, now) THEN 1 ELSE r.count + 1
<1> DEFINE n == IF Expired(r, now) THEN 1 ELSE r.count + 1
           w == IF Expired(r, now) THEN now ELSE r.window
<1>1. n \in Nat /\ w \in Nat
  BY DEF RowRec
<1>2. now + delay_seconds(k, n) \in Int
  BY <1>1, DelayIsInt
<1>3. Counted(r, k, now) = Row(n, w, now + delay_seconds(k, n))
  BY DEF Counted
<1> HIDE DEF n, w
<1>4. Row(n, w, now + delay_seconds(k, n)) \in RowRec
  BY <1>1, <1>2 DEF Row, RowRec
<1>5. Row(n, w, now + delay_seconds(k, n)).here /\ Row(n, w, now + delay_seconds(k, n)).count = n
  BY DEF Row
<1>6. n = IF Expired(r, now) THEN 1 ELSE r.count + 1
  BY DEF n
<1> QED
  BY <1>3, <1>4, <1>5, <1>6

(* Pending writes, one more of them included. *)
LEMMA WriteShape ==
    ASSUME NEW w \in Writes
    PROVE  DOMAIN w \subseteq ThrottleKey /\ \A l \in DOMAIN w : w[l] \in RowRec
<1>1. PICK K \in SUBSET ThrottleKey : w \in [K -> RowRec]
  BY DEF Writes
<1> QED
  BY <1>1

(* A further pending row leaves the pending writes well formed. *)
LEMMA WriteAdded ==
    ASSUME NEW w \in Writes, NEW k \in ThrottleKey, NEW r \in RowRec
    PROVE  Added(w, k, r) \in Writes
<1>1. Added(w, k, r) \in [DOMAIN w \cup {k} -> RowRec] /\ DOMAIN w \cup {k} \subseteq ThrottleKey
  BY WriteShape DEF Added
<1> QED
  BY <1>1 DEF Writes, Added

(* No request is past the check in the initial state, so all of them may evaluate. *)
LEMMA InitThrottle == ThrottleInit => ThrottleInv
<1> SUFFICES ASSUME ThrottleInit PROVE ThrottleInv
  OBVIOUS
<1> USE DEF ThrottleInit
<1>1. Gone \in RowRec /\ ~Gone.here /\ Gone.next = 0
  BY DEF Gone, RowRec
<1>2. ThrottleShapes
  BY <1>1 DEF ThrottleShapes
<1>3. FailuresCounted /\ AbsentOK
  BY <1>1 DEF FailuresCounted, AbsentOK
<1>4. GuessOK
  BY <1>1 DEF GuessOK, Blocked, ThrottleKey
<1>5. \A a \in Attempt : AttemptOK(a)
  BY DEF AttemptOK
<1> QED
  BY <1>2, <1>3, <1>4, <1>5 DEF ThrottleInv

(* A request is untouched by a step that changes only rows and locks of others. *)
LEMMA AttemptKept ==
    ASSUME ThrottleInv, NEW b \in Attempt, attempt'[b] = attempt[b], time' \in Nat, time <= time',
           \A k \in ThrottleKey : holder[k] = b =>
               holder'[k] = b /\ throttle'[k] = throttle[k] /\ fails'[k] = fails[k]
    PROVE  AttemptOK(b)'
<1> SUFFICES ASSUME attempt[b] # Rest PROVE AttemptOK(b)'
  BY DEF AttemptOK
<1>1. attempt[b] \in InProgress /\ AttemptOK(b) /\ time \in Nat
  BY DEF ThrottleInv, ThrottleShapes
<1>2. attempt[b].now \in Nat /\ attempt[b].write \in Writes
  BY <1>1 DEF InProgress
<1>3. attempt[b].now <= time'
  BY <1>1, <1>2 DEF AttemptOK
<1>4. ASSUME NEW k \in DOMAIN attempt[b].write PROVE WriteOK(b, k)'
  <2>1. k \in ThrottleKey /\ WriteOK(b, k)
    BY <1>1, <1>2, WriteShape DEF AttemptOK
  <2>2. holder'[k] = b /\ throttle'[k] = throttle[k] /\ fails'[k] = fails[k]
    BY <2>1 DEF WriteOK
  <2> QED
    BY <2>1, <2>2 DEF WriteOK
<1> QED
  BY <1>1, <1>3, <1>4 DEF AttemptOK

(* What one request does outside a commit: rows, failures and the clock stay, it takes *)
(* locks that are free or its own, and it passes the check only if the account is not  *)
(* blocked.                                                                            *)
LEMMA AttemptStep ==
    ASSUME ThrottleInv, NEW a \in Attempt, NEW r \in {Rest} \cup InProgress,
           attempt' = [attempt EXCEPT ![a] = r], UNCHANGED <<throttle, time, fails>>,
           holder' \in [ThrottleKey -> Attempt \cup {NoAttempt}],
           \A k \in ThrottleKey : holder'[k] = holder[k] \/ holder[k] \in {a, NoAttempt},
           AttemptOK(a)',
           r.pc = "evaluate" => attempt[a].pc # "evaluate" /\ ~Blocked(Account),
           extra' = IF attempt[a].pc = "evaluate" /\ Blocked(Account) THEN extra + 1 ELSE extra
    PROVE  ThrottleInv'
<1>1. attempt'[a] = r /\ \A b \in Attempt \ {a} : attempt'[b] = attempt[b]
  BY DEF ThrottleInv, ThrottleShapes
<1>2. ThrottleShapes'
  BY DEF ThrottleInv, ThrottleShapes
<1>3. FailuresCounted' /\ AbsentOK'
  BY DEF ThrottleInv, FailuresCounted, AbsentOK
<1>4. \A b \in Attempt : AttemptOK(b)'
  <2> SUFFICES ASSUME NEW b \in Attempt \ {a} PROVE AttemptOK(b)'
    OBVIOUS
  <2>1. \A k \in ThrottleKey : holder[k] = b => holder'[k] = b
    BY ThrottleAssumption
  <2>2. time \in Nat
    BY DEF ThrottleInv, ThrottleShapes
  <2> QED
    BY <1>1, <2>1, <2>2, AttemptKept
<1>5. GuessOK'
  <2>1. extra \in Nat /\ Cardinality(Attempt) \in Nat /\ IsFiniteSet(Evaluating)
        /\ Cardinality(Evaluating) \in Nat
    BY ThrottleAssumption, FS_Subset, FS_CardinalityType DEF ThrottleInv, GuessOK, Evaluating
  <2>2. Blocked(Account)' = Blocked(Account)
    BY DEF Blocked
  <2>3. CASE ~Blocked(Account)
    BY <2>1, <2>2, <2>3 DEF ThrottleInv, GuessOK
  <2>4. CASE Blocked(Account) /\ attempt[a].pc = "evaluate"
    <3>1. a \in Evaluating /\ Evaluating' = Evaluating \ {a}
      BY <1>1, <2>4 DEF Evaluating
    <3>2. Cardinality(Evaluating') = Cardinality(Evaluating) - 1
      BY <2>1, <3>1, FS_RemoveElement
    <3> QED
      BY <2>1, <2>2, <2>4, <3>2 DEF ThrottleInv, GuessOK
  <2>5. CASE Blocked(Account) /\ attempt[a].pc # "evaluate"
    <3>1. Evaluating' = Evaluating
      BY <1>1, <2>5 DEF Evaluating
    <3> QED
      BY <2>1, <2>2, <2>5, <3>1 DEF ThrottleInv, GuessOK
  <2> QED
    BY <2>3, <2>4, <2>5
<1> QED
  BY <1>2, <1>3, <1>4, <1>5 DEF ThrottleInv

(* A request arrives with nothing written. *)
LEMMA ArriveKeeps ==
    ASSUME ThrottleInv, NEW a \in Attempt, NEW ip \in SourceIp, Arrive(a, ip)
    PROVE  ThrottleInv'
<1> DEFINE w == [k \in {} |-> Gone]
           r == [pc |-> "check", key |-> ip, ip |-> ip, now |-> time, allowed |-> TRUE,
                 write |-> w, reset |-> {}]
<1>0. /\ attempt[a].pc = "rest" /\ attempt' = [attempt EXCEPT ![a] = r]
      /\ UNCHANGED <<throttle, holder, time, fails, extra>> /\ time \in Nat
      /\ holder \in [ThrottleKey -> Attempt \cup {NoAttempt}]
  BY DEF Arrive, ThrottleInv, ThrottleShapes
<1>1. w \in Writes /\ DOMAIN w = {}
  <2>1. w \in [{} -> RowRec] /\ {} \in SUBSET ThrottleKey
    OBVIOUS
  <2> QED
    BY <2>1 DEF Writes
<1> HIDE DEF w
<1>2. r \in InProgress /\ r.pc = "check" /\ r.now = time /\ r.write = w /\ r.reset = {}
  BY <1>0, <1>1 DEF InProgress, ThrottleKey
<1> HIDE DEF r
<1>3. attempt'[a] = r
  BY <1>0 DEF ThrottleInv, ThrottleShapes
<1>4. AttemptOK(a)'
  BY <1>0, <1>1, <1>2, <1>3 DEF AttemptOK
<1> QED
  BY <1>0, <1>2, <1>4, AttemptStep

(* A request that ends or is turned away leaves nothing behind but its locks. *)
LEMMA AttemptEnds ==
    ASSUME ThrottleInv, NEW a \in Attempt, attempt[a].pc # "evaluate",
           attempt' = [attempt EXCEPT ![a] = Rest], UNCHANGED <<throttle, time, fails, extra>>,
           holder' \in {holder, Unheld(a)}
    PROVE  ThrottleInv'
<1>1. /\ holder' \in [ThrottleKey -> Attempt \cup {NoAttempt}]
      /\ \A k \in ThrottleKey : holder'[k] = holder[k] \/ holder[k] \in {a, NoAttempt}
  BY DEF ThrottleInv, ThrottleShapes, Unheld
<1>2. attempt'[a] = Rest
  BY DEF ThrottleInv, ThrottleShapes
<1>3. AttemptOK(a)' /\ Rest.pc # "evaluate"
  BY <1>2 DEF AttemptOK, Rest
<1> QED
  BY <1>1, <1>3, AttemptStep

(* What a request in progress is. *)
LEMMA ActiveShape ==
    ASSUME ThrottleInv, NEW a \in Attempt, attempt[a].pc # "rest"
    PROVE  attempt[a] # Rest /\ attempt[a] \in InProgress /\ AttemptOK(a)
BY DEF ThrottleInv, ThrottleShapes, Rest

(* Only a request that found the account's row free at a time not later than now goes *)
(* on to the credential.                                                              *)
LEMMA CheckKeeps == ASSUME ThrottleInv, NEW a \in Attempt, check(a) PROVE ThrottleInv'
<1>0. /\ attempt[a].pc = "check" /\ UNCHANGED <<throttle, holder, time, fails, extra>>
      /\ holder \in [ThrottleKey -> Attempt \cup {NoAttempt}] /\ time \in Nat
      /\ throttle \in [ThrottleKey -> RowRec]
  BY DEF check, ThrottleInv, ThrottleShapes
<1>1. PICK r \in InProgress : r = attempt[a] /\ r # Rest
  BY <1>0, ActiveShape
<1>2. /\ r.pc = "check" /\ r.now <= time /\ r.now \in Nat /\ r.key \in ThrottleKey
      /\ DOMAIN r.write = {} /\ r.reset = {} /\ AttemptOK(a)
  BY <1>0, <1>1, ActiveShape DEF AttemptOK, InProgress
<1>3. PICK ok \in BOOLEAN : ok = (r.allowed /\ throttle[r.key].next <= r.now)
  OBVIOUS
<1> DEFINE p == [r EXCEPT !.key = Account, !.allowed = ok]
           q == [r EXCEPT !.pc = "evaluate"]
<1>4. attempt' = [attempt EXCEPT ![a] = IF r.key # Account /\ Account \in CheckKeys(a) THEN p
                                        ELSE IF ok THEN q ELSE Rest]
  BY <1>1, <1>3 DEF check
<1>5. Account \in CheckKeys(a)
  BY DEF CheckKeys
<1>6. /\ p \in InProgress /\ p.pc = "check" /\ p.now = r.now /\ p.write = r.write /\ p.reset = r.reset
      /\ q \in InProgress /\ q.pc = "evaluate" /\ q.now = r.now /\ q.write = r.write
      /\ q.reset = r.reset /\ q.key = r.key
  <2>1. p \in InProgress
    <3>1. Account \in ThrottleKey
      BY DEF ThrottleKey
    <3> QED
      BY <1>3, <3>1, Zenon DEF InProgress
  <2>2. q \in InProgress
    BY DEF InProgress
  <2>3. p.pc = "check" /\ p.now = r.now /\ p.write = r.write /\ p.reset = r.reset
    BY <1>2 DEF InProgress
  <2>4. q.pc = "evaluate" /\ q.now = r.now /\ q.write = r.write /\ q.reset = r.reset
        /\ q.key = r.key
    BY DEF InProgress
  <2> QED
    BY <2>1, <2>2, <2>3, <2>4
<1> HIDE DEF p, q
<1>7. CASE r.key # Account
  <2>1. attempt' = [attempt EXCEPT ![a] = p]
    BY <1>4, <1>5, <1>7
  <2>2. attempt'[a] = p
    BY <2>1 DEF ThrottleInv, ThrottleShapes
  <2>3. AttemptOK(a)'
    BY <1>0, <1>2, <1>6, <2>2 DEF AttemptOK
  <2> QED
    BY <1>0, <1>6, <2>1, <2>3, AttemptStep
<1>8. CASE r.key = Account /\ ok
  <2>1. attempt' = [attempt EXCEPT ![a] = q]
    BY <1>4, <1>8
  <2>2. attempt'[a] = q
    BY <2>1 DEF ThrottleInv, ThrottleShapes
  <2>3. AttemptOK(a)'
    BY <1>0, <1>2, <1>6, <2>2 DEF AttemptOK
  <2>4. throttle[Account].next \in Int /\ throttle[Account].next <= r.now
    BY <1>0, <1>2, <1>3, <1>8 DEF RowRec
  <2>5. ~Blocked(Account)
    BY <1>0, <1>2, <2>4 DEF Blocked
  <2> QED
    BY <1>0, <1>6, <2>1, <2>3, <2>5, AttemptStep
<1>9. CASE r.key = Account /\ ~ok
  <2>1. attempt' = [attempt EXCEPT ![a] = Rest]
    BY <1>4, <1>9
  <2> QED
    BY <1>0, <2>1, AttemptEnds
<1> QED
  BY <1>7, <1>8, <1>9

(* The verdict on the credential. *)
LEMMA EvaluateKeeps == ASSUME ThrottleInv, NEW a \in Attempt, Evaluate(a) PROVE ThrottleInv'
<1>0. /\ attempt[a].pc = "evaluate" /\ UNCHANGED <<throttle, holder, time, fails>>
      /\ extra' = IF Blocked(Account) THEN extra + 1 ELSE extra
      /\ holder \in [ThrottleKey -> Attempt \cup {NoAttempt}] /\ time \in Nat
  BY DEF Evaluate, ThrottleInv, ThrottleShapes
<1>1. PICK r \in InProgress : r = attempt[a] /\ r # Rest
  BY <1>0, ActiveShape
<1>2. /\ r.pc = "evaluate" /\ r.now <= time /\ r.ip \in SourceIp
      /\ DOMAIN r.write = {} /\ r.reset = {}
  BY <1>0, <1>1, ActiveShape DEF AttemptOK, InProgress
<1> DEFINE p == [r EXCEPT !.pc = "insert", !.key = r.ip]
           q == [r EXCEPT !.pc = "delete"]
<1>3. attempt' = [attempt EXCEPT ![a] = p] \/ attempt' = [attempt EXCEPT ![a] = q]
  BY <1>1 DEF Evaluate
<1>4. /\ p \in InProgress /\ p.pc = "insert" /\ p.now = r.now /\ p.write = r.write /\ p.reset = r.reset
      /\ q \in InProgress /\ q.pc = "delete" /\ q.now = r.now /\ q.write = r.write /\ q.reset = r.reset
  BY <1>2 DEF InProgress, ThrottleKey
<1> HIDE DEF p, q
<1>5. ASSUME NEW s \in {p, q}, attempt' = [attempt EXCEPT ![a] = s] PROVE ThrottleInv'
  <2>1. attempt'[a] = s
    BY <1>5 DEF ThrottleInv, ThrottleShapes
  <2>2. AttemptOK(a)'
    BY <1>0, <1>2, <1>4, <2>1 DEF AttemptOK
  <2>3. s \in InProgress /\ s.pc # "evaluate"
    BY <1>4
  <2> QED
    BY <1>0, <1>5, <2>2, <2>3, AttemptStep
<1> QED
  BY <1>3, <1>5

(* The INSERT finds a committed row and leaves it, or adds one that nobody else holds. *)
LEMMA InsertKeeps == ASSUME ThrottleInv, NEW a \in Attempt, Insert(a) PROVE ThrottleInv'
<1>0. /\ attempt[a].pc = "insert" /\ UNCHANGED <<throttle, time, fails, extra>>
      /\ holder \in [ThrottleKey -> Attempt \cup {NoAttempt}] /\ time \in Nat
  BY DEF Insert, ThrottleInv, ThrottleShapes
<1>1. PICK r \in InProgress : r = attempt[a] /\ r # Rest
  BY <1>0, ActiveShape
<1>2. PICK k \in ThrottleKey, w \in Writes : k = r.key /\ w = r.write
  BY DEF InProgress
<1>3. /\ r.pc = "insert" /\ r.now <= time /\ r.now \in Nat
      /\ k # Account => DOMAIN w \subseteq {k} /\ r.reset = {}
      /\ k \notin DOMAIN w /\ k \notin r.reset
      /\ \A l \in DOMAIN w : WriteOK(a, l)
  BY <1>0, <1>1, <1>2, ActiveShape DEF AttemptOK, InProgress
<1>4. ASSUME NEW l \in DOMAIN w
      PROVE  holder[l] = a /\ (w[l].here => w[l].count = IF l \in r.reset THEN 1 ELSE fails[l] + 1)
  BY <1>0, <1>1, <1>2, <1>3 DEF WriteOK
<1>5. CASE throttle[k].here
  <2> DEFINE s == [r EXCEPT !.pc = "lock"]
  <2>1. attempt' = [attempt EXCEPT ![a] = s] /\ holder' = holder
    BY <1>0, <1>1, <1>2, <1>5 DEF Insert
  <2>2. /\ s \in InProgress /\ s.pc = "lock" /\ s.key = k /\ s.now = r.now /\ s.write = w
        /\ s.reset = r.reset
    BY <1>2 DEF InProgress
  <2> HIDE DEF s
  <2>3. attempt'[a] = s
    BY <2>1 DEF ThrottleInv, ThrottleShapes
  <2>4. \A l \in DOMAIN w : WriteOK(a, l)'
    BY <1>0, <1>3, <1>4, <2>1, <2>2, <2>3 DEF WriteOK
  <2>5. AttemptOK(a)'
    BY <1>0, <1>3, <2>2, <2>3, <2>4 DEF AttemptOK
  <2> QED
    BY <1>0, <2>1, <2>2, <2>5, AttemptStep
<1>6. CASE ~throttle[k].here
  <2>1. PICK new : new = Row(0, r.now, r.now)
    OBVIOUS
  <2>2. new \in RowRec /\ new.here /\ new.count = 0
    BY <1>3, <2>1 DEF Row, RowRec
  <2> DEFINE s == [r EXCEPT !.pc = "lock", !.write = Added(w, k, new)]
  <2>3. attempt' = [attempt EXCEPT ![a] = s] /\ holder' = [holder EXCEPT ![k] = a]
    <3>1. /\ attempt' = [attempt EXCEPT ![a] = [attempt[a] EXCEPT !.pc = "lock",
                  !.write = Added(attempt[a].write, attempt[a].key,
                                  Row(0, attempt[a].now, attempt[a].now))]]
          /\ holder' = [holder EXCEPT ![attempt[a].key] = a]
      BY <1>1, <1>2, <1>6 DEF Insert
    <3> QED
      BY <1>1, <1>2, <2>1, <3>1
  <2>4. /\ s \in InProgress /\ s.pc = "lock" /\ s.key = k /\ s.now = r.now
        /\ s.write = Added(w, k, new) /\ s.reset = r.reset
    BY <1>2, <2>2, WriteAdded DEF InProgress
  <2> HIDE DEF s
  <2>5. attempt'[a] = s
    BY <2>3 DEF ThrottleInv, ThrottleShapes
  <2>6. holder[k] = NoAttempt
    BY <1>0, <1>1, <1>2, <1>6 DEF Insert, InDoubt, Idle
  <2>7. /\ holder'[k] = a /\ \A l \in ThrottleKey \ {k} : holder'[l] = holder[l]
        /\ holder' \in [ThrottleKey -> Attempt \cup {NoAttempt}]
    BY <1>0, <2>3
  <2>8. PICK v : v = Added(w, k, new)
    OBVIOUS
  <2>9. DOMAIN v = DOMAIN w \cup {k} /\ v[k] = new /\ \A l \in DOMAIN w : v[l] = w[l]
    <3>1. DOMAIN v = DOMAIN w \cup {k} /\ v[k] = new /\ \A l \in DOMAIN w : l # k => v[l] = w[l]
      BY <2>8 DEF Added
    <3> QED
      BY <1>3, <3>1
  <2>10. \A l \in DOMAIN v : WriteOK(a, l)'
    <3> SUFFICES ASSUME NEW l \in DOMAIN v PROVE WriteOK(a, l)'
      OBVIOUS
    <3>1. CASE l = k
      BY <1>0, <1>6, <2>2, <2>4, <2>5, <2>7, <2>8, <2>9, <3>1 DEF WriteOK
    <3>2. CASE l # k
      <4>1. l \in DOMAIN w /\ l \in ThrottleKey
        BY <2>9, <3>2, WriteShape
      <4> QED
        BY <1>0, <1>4, <2>4, <2>5, <2>7, <2>8, <2>9, <3>2, <4>1 DEF WriteOK
    <3> QED
      BY <3>1, <3>2
  <2>11. AttemptOK(a)'
    BY <1>0, <1>3, <2>4, <2>5, <2>8, <2>9, <2>10 DEF AttemptOK
  <2> QED
    BY <1>0, <2>3, <2>4, <2>6, <2>7, <2>11, AttemptStep
<1> QED
  BY <1>5, <1>6

(* Under the lock of the row the update counts on the committed failures, or on the   *)
(* empty row of the request's own.                                                    *)
LEMMA LockAndCountKeeps ==
    ASSUME ThrottleInv, NEW a \in Attempt, LockAndCount(a)
    PROVE  ThrottleInv'
<1>0. /\ attempt[a].pc = "lock" /\ UNCHANGED <<throttle, time, fails, extra>>
      /\ holder \in [ThrottleKey -> Attempt \cup {NoAttempt}] /\ time \in Nat
      /\ throttle \in [ThrottleKey -> RowRec] /\ fails \in [ThrottleKey -> Nat]
  BY DEF LockAndCount, ThrottleInv, ThrottleShapes
<1>1. PICK r \in InProgress : r = attempt[a] /\ r # Rest
  BY <1>0, ActiveShape
<1>2. PICK k \in ThrottleKey, w \in Writes : k = r.key /\ w = r.write
  BY DEF InProgress
<1>3. /\ r.pc = "lock" /\ r.now <= time /\ r.now \in Nat /\ r.reset \subseteq ThrottleKey
      /\ k # Account => DOMAIN w \subseteq {k} /\ r.reset = {}
      /\ k \notin r.reset
      /\ \A l \in DOMAIN w : WriteOK(a, l)
  BY <1>0, <1>1, <1>2, ActiveShape DEF AttemptOK, InProgress
<1>4. PICK row : row = IF k \in DOMAIN w THEN w[k] ELSE throttle[k]
  OBVIOUS
<1>5. row = Selected(a, k) /\ holder[k] \in {a, NoAttempt} /\ row.here
  BY <1>1, <1>2, <1>4 DEF LockAndCount, Selected, Lockable
<1>6. row \in RowRec
  BY <1>0, <1>4, WriteShape
<1>7. row.count = fails[k]
  <2>1. CASE k \in DOMAIN w
    <3>1. ~throttle[k].here /\ w[k].count = 0
      BY <1>1, <1>2, <1>3, <2>1 DEF WriteOK
    <3>2. fails[k] = 0
      BY <3>1 DEF ThrottleInv, AbsentOK
    <3> QED
      BY <1>4, <2>1, <3>1, <3>2
  <2>2. CASE k \notin DOMAIN w
    BY <1>4, <1>5, <2>2 DEF ThrottleInv, FailuresCounted
  <2> QED
    BY <2>1, <2>2
<1>8. PICK new : new = Counted(row, k, r.now)
  OBVIOUS
<1>9. new \in RowRec /\ new.here /\ new.count = IF Expired(row, r.now) THEN 1 ELSE fails[k] + 1
  BY <1>3, <1>6, <1>7, <1>8, CountedRow
<1>10. PICK v : v = Added(w, k, new)
  OBVIOUS
<1>11. /\ v \in Writes /\ DOMAIN v = DOMAIN w \cup {k} /\ v[k] = new
       /\ \A l \in DOMAIN w : l # k => v[l] = w[l]
  <2>1. v \in Writes
    BY <1>9, <1>10, WriteAdded
  <2> QED
    BY <1>10, <2>1 DEF Added
<1>12. PICK z \in SUBSET ThrottleKey : z = IF Expired(row, r.now) THEN r.reset \cup {k} ELSE r.reset
  BY <1>3
<1>13. PICK pc \in {"commit", "insert"} : pc = IF k = Account THEN "commit" ELSE "insert"
  OBVIOUS
<1> DEFINE s == [r EXCEPT !.pc = pc, !.key = Account, !.write = v, !.reset = z]
<1>14. attempt' = [attempt EXCEPT ![a] = s] /\ holder' = [holder EXCEPT ![k] = a]
  <2>1. /\ attempt' = [attempt EXCEPT ![a] = [attempt[a] EXCEPT
                !.pc = IF attempt[a].key = Account THEN "commit" ELSE "insert",
                !.key = Account,
                !.write = Added(attempt[a].write, attempt[a].key,
                                Counted(Selected(a, attempt[a].key), attempt[a].key, attempt[a].now)),
                !.reset = IF Expired(Selected(a, attempt[a].key), attempt[a].now)
                          THEN attempt[a].reset \cup {attempt[a].key} ELSE attempt[a].reset]]
        /\ holder' = [holder EXCEPT ![attempt[a].key] = a]
    BY DEF LockAndCount
  <2> QED
    BY <1>1, <1>2, <1>5, <1>8, <1>10, <1>12, <1>13, <2>1
<1>15. /\ s \in InProgress /\ s.pc = pc /\ s.key = Account /\ s.now = r.now
       /\ s.write = v /\ s.reset = z
  BY <1>11 DEF InProgress, ThrottleKey
<1> HIDE DEF s
<1>16. /\ attempt'[a] = s /\ holder'[k] = a /\ \A l \in ThrottleKey \ {k} : holder'[l] = holder[l]
       /\ holder' \in [ThrottleKey -> Attempt \cup {NoAttempt}]
  BY <1>0, <1>14 DEF ThrottleInv, ThrottleShapes
<1>17. pc # "lock" /\ pc # "evaluate" /\ (pc = "insert" => k # Account)
  BY <1>13
<1>18. ASSUME NEW l \in DOMAIN v PROVE WriteOK(a, l)'
  <2>1. CASE l = k
    <3>1. k \in z <=> Expired(row, r.now)
      BY <1>3, <1>12
    <3>2. v[k].count = IF k \in z THEN 1 ELSE fails[k] + 1
      BY <1>9, <1>11, <3>1
    <3> QED
      BY <1>0, <1>15, <1>16, <1>17, <2>1, <3>2 DEF WriteOK
  <2>2. CASE l # k
    <3>1. l \in DOMAIN w /\ l \in ThrottleKey
      BY <1>11, <2>2, WriteShape
    <3>2. /\ holder[l] = a
          /\ w[l].here => w[l].count = IF l \in r.reset THEN 1 ELSE fails[l] + 1
      BY <1>1, <1>2, <1>3, <2>2, <3>1 DEF WriteOK
    <3>3. l \in z <=> l \in r.reset
      BY <1>12, <2>2
    <3> QED
      BY <1>0, <1>11, <1>15, <1>16, <1>17, <2>2, <3>1, <3>2, <3>3 DEF WriteOK
  <2> QED
    BY <2>1, <2>2
<1>19. pc = "insert" => Account \notin DOMAIN v /\ Account \notin z
  BY <1>3, <1>11, <1>12, <1>17
<1>20. AttemptOK(a)'
  BY <1>0, <1>3, <1>13, <1>15, <1>16, <1>17, <1>18, <1>19 DEF AttemptOK
<1> QED
  BY <1>0, <1>5, <1>14, <1>15, <1>16, <1>17, <1>20, AttemptStep

(* The request whose row was deleted meanwhile ends in an error. *)
LEMMA FailLockedKeeps == ASSUME ThrottleInv, NEW a \in Attempt, FailLocked(a) PROVE ThrottleInv'
BY AttemptEnds DEF FailLocked

(* The deletion of the account's row, under its lock. *)
LEMMA ResetKeeps == ASSUME ThrottleInv, NEW a \in Attempt, reset_account(a) PROVE ThrottleInv'
<1>0. /\ attempt[a].pc = "delete" /\ UNCHANGED <<throttle, time, fails, extra>>
      /\ holder \in [ThrottleKey -> Attempt \cup {NoAttempt}] /\ time \in Nat
      /\ Account \in ThrottleKey
  BY DEF reset_account, ThrottleInv, ThrottleShapes, ThrottleKey
<1>1. PICK r \in InProgress : r = attempt[a] /\ r # Rest
  BY <1>0, ActiveShape
<1>2. r.pc = "delete" /\ r.now <= time /\ DOMAIN r.write = {} /\ r.reset = {}
  BY <1>0, <1>1, ActiveShape DEF AttemptOK, InProgress
<1>3. PICK w : w = [k \in {Account} |-> Gone]
  OBVIOUS
<1>4. w \in Writes /\ DOMAIN w = {Account} /\ ~w[Account].here
  <2>1. Gone \in RowRec /\ ~Gone.here
    BY DEF Gone, RowRec
  <2>2. w \in [{Account} -> RowRec] /\ {Account} \in SUBSET ThrottleKey
    BY <1>0, <1>3, <2>1
  <2> QED
    BY <1>3, <2>1, <2>2 DEF Writes
<1> DEFINE p == [r EXCEPT !.pc = "commit"]
           q == [r EXCEPT !.pc = "commit", !.write = w]
<1>5. \/ attempt' = [attempt EXCEPT ![a] = p] /\ holder' = holder
      \/ /\ attempt' = [attempt EXCEPT ![a] = q] /\ holder' = [holder EXCEPT ![Account] = a]
         /\ holder[Account] = NoAttempt
  BY <1>1, <1>3 DEF reset_account, Idle
<1>6. /\ p \in InProgress /\ p.pc = "commit" /\ p.key = r.key /\ p.now = r.now /\ p.write = r.write
      /\ p.reset = r.reset
  BY DEF InProgress
<1>7. /\ q \in InProgress /\ q.pc = "commit" /\ q.key = r.key /\ q.now = r.now /\ q.write = w
      /\ q.reset = r.reset
  BY <1>4 DEF InProgress
<1> HIDE DEF p, q
<1>8. CASE attempt' = [attempt EXCEPT ![a] = p] /\ holder' = holder
  <2>1. attempt'[a] = p
    BY <1>8 DEF ThrottleInv, ThrottleShapes
  <2>2. AttemptOK(a)'
    BY <1>0, <1>2, <1>6, <2>1 DEF AttemptOK
  <2> QED
    BY <1>0, <1>6, <1>8, <2>2, AttemptStep
<1>9. CASE /\ attempt' = [attempt EXCEPT ![a] = q] /\ holder' = [holder EXCEPT ![Account] = a]
           /\ holder[Account] = NoAttempt
  <2>1. /\ attempt'[a] = q /\ holder'[Account] = a
        /\ \A l \in ThrottleKey \ {Account} : holder'[l] = holder[l]
        /\ holder' \in [ThrottleKey -> Attempt \cup {NoAttempt}]
    BY <1>0, <1>9 DEF ThrottleInv, ThrottleShapes
  <2>2. WriteOK(a, Account)'
    BY <1>4, <1>7, <2>1 DEF WriteOK
  <2>3. AttemptOK(a)'
    BY <1>0, <1>2, <1>4, <1>7, <2>1, <2>2 DEF AttemptOK
  <2> QED
    BY <1>0, <1>7, <1>9, <2>1, <2>3, AttemptStep
<1> QED
  BY <1>5, <1>8, <1>9

(* A commit publishes rows that count every committed failure, this one included; if it *)
(* blocks the account, the request itself is not among those past the check.            *)
LEMMA CommitAttemptKeeps ==
    ASSUME ThrottleInv, NEW a \in Attempt, CommitAttempt(a)
    PROVE  ThrottleInv'
<1>0. /\ attempt[a].pc = "commit" /\ time' = time /\ time \in Nat
      /\ holder \in [ThrottleKey -> Attempt \cup {NoAttempt}]
      /\ throttle \in [ThrottleKey -> RowRec] /\ fails \in [ThrottleKey -> Nat]
      /\ holder' = Unheld(a) /\ attempt' = [attempt EXCEPT ![a] = Rest]
      /\ Account \in ThrottleKey
      /\ extra' = IF throttle'[Account].next > time THEN extra ELSE 0
  BY DEF CommitAttempt, ThrottleInv, ThrottleShapes, ThrottleKey
<1>1. PICK r \in InProgress : r = attempt[a] /\ r # Rest
  BY <1>0, ActiveShape
<1>2. PICK w \in Writes : w = r.write
  BY DEF InProgress
<1>3. ASSUME NEW k \in DOMAIN w
      PROVE  holder[k] = a /\ (w[k].here => w[k].count = IF k \in r.reset THEN 1 ELSE fails[k] + 1)
  BY <1>0, <1>1, <1>2, ActiveShape DEF AttemptOK, WriteOK
<1>4. /\ throttle' = [k \in ThrottleKey |-> IF k \in DOMAIN w THEN w[k] ELSE throttle[k]]
      /\ fails' = [k \in ThrottleKey |->
             IF k \notin DOMAIN w THEN fails[k]
             ELSE IF ~w[k].here THEN 0 ELSE IF k \in r.reset THEN 1 ELSE fails[k] + 1]
  BY <1>1, <1>2 DEF CommitAttempt
<1>5. /\ attempt'[a] = Rest /\ \A b \in Attempt \ {a} : attempt'[b] = attempt[b]
      /\ attempt' \in [Attempt -> {Rest} \cup InProgress]
  BY <1>0 DEF ThrottleInv, ThrottleShapes
<1>6. /\ holder' \in [ThrottleKey -> Attempt \cup {NoAttempt}]
      /\ \A k \in ThrottleKey : holder'[k] = IF holder[k] = a THEN NoAttempt ELSE holder[k]
  BY <1>0 DEF Unheld
<1>7. throttle' \in [ThrottleKey -> RowRec] /\ fails' \in [ThrottleKey -> Nat]
  BY <1>0, <1>4, WriteShape
<1>8. ThrottleShapes'
  BY <1>0, <1>5, <1>6, <1>7 DEF ThrottleShapes
<1>9. FailuresCounted' /\ AbsentOK'
  <2> SUFFICES ASSUME NEW k \in ThrottleKey
               PROVE  /\ throttle'[k].here => throttle'[k].count = fails'[k]
                      /\ ~throttle'[k].here => fails'[k] = 0
    BY DEF FailuresCounted, AbsentOK
  <2>1. CASE k \in DOMAIN w
    BY <1>3, <1>4, <2>1
  <2>2. CASE k \notin DOMAIN w
    BY <1>4, <2>2 DEF ThrottleInv, FailuresCounted, AbsentOK
  <2> QED
    BY <2>1, <2>2
<1>10. \A b \in Attempt : AttemptOK(b)'
  <2> SUFFICES ASSUME NEW b \in Attempt PROVE AttemptOK(b)'
    OBVIOUS
  <2>1. CASE b = a
    BY <1>5, <2>1 DEF AttemptOK
  <2>2. CASE b # a
    <3>1. \A k \in ThrottleKey : holder[k] = b =>
              holder'[k] = b /\ throttle'[k] = throttle[k] /\ fails'[k] = fails[k]
      BY <1>3, <1>4, <1>6, <2>2
    <3> QED
      BY <1>0, <1>5, <2>2, <3>1, AttemptKept
  <2> QED
    BY <2>1, <2>2
<1>11. GuessOK'
  <2>1. Evaluating' = Evaluating /\ Evaluating \subseteq Attempt /\ a \notin Evaluating
    BY <1>0, <1>5 DEF Evaluating, Rest
  <2>2. /\ extra \in Nat /\ IsFiniteSet(Attempt) /\ IsFiniteSet(Evaluating)
        /\ Cardinality(Attempt) \in Nat /\ Cardinality(Evaluating) \in Nat
    BY <2>1, ThrottleAssumption, FS_Subset, FS_CardinalityType DEF ThrottleInv, GuessOK
  <2>3. Cardinality(Evaluating) < Cardinality(Attempt)
    <3>1. IsFiniteSet(Attempt \ {a}) /\ Cardinality(Attempt \ {a}) = Cardinality(Attempt) - 1
      BY <2>2, FS_RemoveElement
    <3>2. Cardinality(Evaluating) <= Cardinality(Attempt \ {a})
      BY <2>1, <3>1, FS_Subset
    <3> QED
      BY <2>2, <3>1, <3>2
  <2>4. extra + Cardinality(Evaluating) < Cardinality(Attempt)
    BY <2>2, <2>3 DEF ThrottleInv, GuessOK
  <2> QED
    BY <1>0, <2>1, <2>2, <2>4 DEF GuessOK, Blocked
<1> QED
  BY <1>8, <1>9, <1>10, <1>11 DEF ThrottleInv

(* Time passes: the account may stop being blocked, nothing else. *)
LEMMA TickKeeps == ASSUME ThrottleInv, TickTime PROVE ThrottleInv'
<1>0. /\ time \in Nat /\ time' = time + 1 /\ UNCHANGED <<throttle, holder, attempt, fails>>
      /\ throttle \in [ThrottleKey -> RowRec] /\ Account \in ThrottleKey
      /\ extra' = IF throttle[Account].next > time' THEN extra ELSE 0
  BY DEF TickTime, ThrottleInv, ThrottleShapes, ThrottleKey
<1>1. ThrottleShapes' /\ FailuresCounted' /\ AbsentOK'
  BY <1>0 DEF ThrottleInv, ThrottleShapes, FailuresCounted, AbsentOK
<1>2. \A b \in Attempt : AttemptOK(b)'
  BY <1>0, AttemptKept
<1>3. throttle[Account].next \in Int
  BY <1>0 DEF RowRec
<1>4. throttle[Account].next > time' => throttle[Account].next > time
  BY <1>0, <1>3
<1>5. GuessOK'
  BY <1>0, <1>4 DEF ThrottleInv, GuessOK, Blocked, Evaluating
<1> QED
  BY <1>1, <1>2, <1>5 DEF ThrottleInv

(* The inductive invariant of the throttle. *)
THEOREM ThrottleCorrect == ThrottleSpec => []ThrottleInv
<1>1. ThrottleInv /\ [ThrottleNext]_throttleVars => ThrottleInv'
  <2> SUFFICES ASSUME ThrottleInv, [ThrottleNext]_throttleVars PROVE ThrottleInv'
    OBVIOUS
  <2>1. CASE UNCHANGED throttleVars
    BY <2>1 DEF throttleVars, ThrottleInv, ThrottleShapes, FailuresCounted, AbsentOK, GuessOK,
       Blocked, Evaluating, AttemptOK, WriteOK
  <2> QED
    BY <2>1, ArriveKeeps, CheckKeeps, EvaluateKeeps, InsertKeeps, LockAndCountKeeps,
       FailLockedKeeps, ResetKeeps, CommitAttemptKeeps, TickKeeps DEF ThrottleNext
<1> QED
  BY <1>1, InitThrottle, PTL DEF ThrottleSpec

(* However many failures overlap, with resets and errors among them, the row of an     *)
(* address or an account counts each of its window (register_failure, reset_account).  *)
THEOREM NoFailureLost == ThrottleSpec => []FailuresCounted
<1>1. ThrottleInv => FailuresCounted
  BY DEF ThrottleInv
<1> QED
  BY <1>1, ThrottleCorrect, PTL

(* While an account stays blocked fewer passwords are evaluated against it than there  *)
(* are requests at once, for any number of requests and any settings (check).          *)
THEOREM BurstsAreBounded == ThrottleSpec => []GuessesBounded
<1>1. ThrottleInv => GuessesBounded
  <2> SUFFICES ASSUME ThrottleInv PROVE GuessesBounded
    OBVIOUS
  <2>1. IsFiniteSet(Attempt) /\ Attempt # {}
    BY ThrottleAssumption
  <2>2. Cardinality(Attempt) \in Nat /\ Cardinality(Attempt) # 0
    BY <2>1, FS_CardinalityType, FS_EmptySet
  <2>3. Cardinality(Evaluating) \in Nat /\ extra \in Nat
    BY <2>1, FS_Subset, FS_CardinalityType DEF Evaluating, ThrottleInv, GuessOK
  <2> QED
    BY <2>2, <2>3 DEF ThrottleInv, GuessOK, GuessesBounded
<1> QED
  BY <1>1, ThrottleCorrect, PTL

(* A delay is at most the cap, and no power of two is negative. *)
LEMMA DelayBound == ASSUME NEW k, NEW n \in Nat PROVE delay_seconds(k, n) \in 0 .. DelayCap
<1>1. Free(k) \in Nat /\ DelayCap \in Nat
  BY ThrottleAssumption DEF Free
<1>2. ASSUME n > Free(k) PROVE 2 ^ (n - Free(k)) \in Nat
  <2> DEFINE m == n - Free(k)
  <2>1. m \in Nat
    BY <1>1, <1>2
  <2> HIDE DEF m
  <2>2. IsFiniteSet(1 .. m) /\ Cardinality(1 .. m) = m
    BY <2>1, FS_Interval
  <2>3. IsFiniteSet(SUBSET (1 .. m)) /\ Cardinality(SUBSET (1 .. m)) = 2 ^ Cardinality(1 .. m)
    BY <2>2, FS_SUBSET
  <2>4. Cardinality(SUBSET (1 .. m)) \in Nat
    BY <2>3, FS_CardinalityType
  <2>5. 2 ^ m \in Nat
    BY <2>2, <2>3, <2>4
  <2> QED
    BY <2>5 DEF m
<1>3. CASE n <= Free(k)
  BY <1>1, <1>3 DEF delay_seconds
<1>4. CASE n > Free(k)
  <2>1. PICK d \in Nat : d = 2 ^ (n - Free(k))
    BY <1>2, <1>4
  <2>2. delay_seconds(k, n) = IF d < DelayCap THEN d ELSE DelayCap
    BY <1>1, <1>4, <2>1 DEF delay_seconds
  <2> QED
    BY <1>1, <2>2
<1> QED
  BY <1>1, <1>3, <1>4

(* Requests in progress, and those that have not evaluated a credential yet. *)
Busy == {a \in Attempt : attempt[a].pc # "rest"}
Unjudged == {a \in Attempt : attempt[a].pc \in {"check", "evaluate"}}

(* A row lies in the clock's range, and one that is deleted counts nothing. *)
RowBound(r) ==
    r.window <= MaxTime /\ r.next \in 0 .. MaxTime + DelayCap /\ (~r.here => r.count = 0)

RowsBounded ==
    /\ time <= MaxTime
    /\ \A k \in ThrottleKey : RowBound(throttle[k])
    /\ \A b \in Attempt : attempt[b].pc # "rest" =>
         \A k \in DOMAIN attempt[b].write : RowBound(attempt[b].write[k])

(* Each request makes at most one failure of a key and one evaluation. *)
CountsBounded ==
    /\ made \in 0 .. MaxAttempts
    /\ extra + Cardinality(Unjudged) <= made
    /\ \A k \in ThrottleKey : fails[k] + Cardinality(Busy) <= made

ThrottleBounds == RowsBounded /\ CountsBounded

(* The requests are finitely many. *)
LEMMA BusyFinite ==
    /\ IsFiniteSet(Busy) /\ Cardinality(Busy) \in Nat
    /\ IsFiniteSet(Unjudged) /\ Cardinality(Unjudged) \in Nat
<1>1. Busy \in SUBSET Attempt /\ Unjudged \in SUBSET Attempt
  BY DEF Busy, Unjudged
<1>2. IsFiniteSet(Busy) /\ IsFiniteSet(Unjudged)
  BY <1>1, ThrottleAssumption, FS_Subset
<1> QED
  BY <1>2, FS_CardinalityType

(* The row of one more failure is in range. *)
LEMMA CountedBound ==
    ASSUME NEW r \in RowRec, RowBound(r), NEW k, NEW now \in Nat, now <= MaxTime
    PROVE  RowBound(Counted(r, k, now))
<1> DEFINE n == IF Expired(r, now) THEN 1 ELSE r.count + 1
           w == IF Expired(r, now) THEN now ELSE r.window
           d == delay_seconds(k, n)
<1>0. MaxTime \in Nat /\ DelayCap \in Nat
  BY ThrottleAssumption
<1>1. n \in Nat /\ w \in Nat /\ w <= MaxTime
  BY DEF RowRec, RowBound
<1>2. Counted(r, k, now) = Row(n, w, now + d)
  BY DEF Counted
<1> HIDE DEF n, w
<1>3. d \in 0 .. DelayCap
  BY <1>1, DelayBound
<1> HIDE DEF d
<1>4. now + d \in 0 .. MaxTime + DelayCap
  BY <1>0, <1>3
<1> QED
  BY <1>1, <1>2, <1>4 DEF Row, RowBound

(* One request's step that commits nothing: it goes on or ends, its pending rows stay  *)
(* in range, and an evaluation takes it out of the unjudged ones.                      *)
LEMMA BoundsStep ==
    ASSUME ThrottleInv, ThrottleBounds, NEW a \in Attempt, attempt[a].pc # "rest",
           NEW r, attempt' = [attempt EXCEPT ![a] = r], UNCHANGED <<throttle, time, made, fails>>,
           r.pc # "rest" => \A k \in DOMAIN r.write : RowBound(r.write[k]),
           r.pc \in {"check", "evaluate"} => attempt[a].pc \in {"check", "evaluate"},
           \/ extra' = extra
           \/ extra' = extra + 1 /\ attempt[a].pc = "evaluate" /\ r.pc \notin {"check", "evaluate"}
    PROVE  ThrottleBounds'
<1>1. attempt'[a] = r /\ \A b \in Attempt \ {a} : attempt'[b] = attempt[b]
  BY DEF ThrottleInv, ThrottleShapes
<1>2. RowsBounded'
  <2>1. \A k \in ThrottleKey : RowBound(throttle'[k])
    BY DEF ThrottleBounds, RowsBounded
  <2>2. ASSUME NEW b \in Attempt, attempt'[b].pc # "rest", NEW k \in DOMAIN attempt'[b].write
        PROVE  RowBound(attempt'[b].write[k])
    BY <1>1, <2>2 DEF ThrottleBounds, RowsBounded
  <2> QED
    BY <2>1, <2>2 DEF ThrottleBounds, RowsBounded
<1>3. /\ extra \in Nat /\ made \in Nat /\ fails \in [ThrottleKey -> Nat]
  BY ThrottleAssumption DEF ThrottleInv, ThrottleShapes, GuessOK, ThrottleBounds, CountsBounded
<1>4. Busy' = Busy \/ Busy' = Busy \ {a}
  BY <1>1 DEF Busy
<1>5. Cardinality(Busy') <= Cardinality(Busy) /\ Cardinality(Busy') \in Nat
  <2>1. CASE Busy' = Busy
    BY <2>1, BusyFinite
  <2>2. CASE Busy' = Busy \ {a}
    <3>1. Busy' \in SUBSET Busy
      BY <2>2
    <3>2. IsFiniteSet(Busy') /\ Cardinality(Busy') <= Cardinality(Busy)
      BY <3>1, BusyFinite, FS_Subset
    <3> QED
      BY <3>2, FS_CardinalityType
  <2> QED
    BY <1>4, <2>1, <2>2
<1>6. extra' + Cardinality(Unjudged') <= made
  <2>1. CASE extra' = extra
    <3>1. Unjudged' \in SUBSET Unjudged
      BY <1>1 DEF Unjudged
    <3>2. IsFiniteSet(Unjudged') /\ Cardinality(Unjudged') <= Cardinality(Unjudged)
      BY <3>1, BusyFinite, FS_Subset
    <3>3. Cardinality(Unjudged') \in Nat
      BY <3>2, FS_CardinalityType
    <3> QED
      BY <1>3, <2>1, <3>2, <3>3, BusyFinite DEF ThrottleBounds, CountsBounded
  <2>2. CASE extra' = extra + 1 /\ attempt[a].pc = "evaluate" /\ r.pc \notin {"check", "evaluate"}
    <3>1. a \in Unjudged /\ Unjudged' = Unjudged \ {a}
      BY <1>1, <2>2 DEF Unjudged
    <3>2. Cardinality(Unjudged') = Cardinality(Unjudged) - 1
      BY <3>1, BusyFinite, FS_RemoveElement
    <3> QED
      BY <1>3, <2>2, <3>2, BusyFinite DEF ThrottleBounds, CountsBounded
  <2> QED
    BY <2>1, <2>2
<1>7. CountsBounded'
  <2>1. \A k \in ThrottleKey : fails'[k] + Cardinality(Busy') <= made'
    BY <1>3, <1>5, BusyFinite DEF ThrottleBounds, CountsBounded
  <2> QED
    BY <1>6, <2>1 DEF ThrottleBounds, CountsBounded
<1> QED
  BY <1>2, <1>7 DEF ThrottleBounds

(* A request's record before a step, as the steps below need it. *)
LEMMA PendingBound ==
    ASSUME ThrottleInv, ThrottleBounds, NEW a \in Attempt, attempt[a].pc # "rest"
    PROVE  /\ attempt[a] \in InProgress /\ attempt[a].write \in Writes /\ attempt[a].key \in ThrottleKey
           /\ attempt[a].now \in Nat /\ attempt[a].now <= MaxTime
           /\ \A k \in DOMAIN attempt[a].write : RowBound(attempt[a].write[k])
<1>1. attempt[a] \in InProgress /\ AttemptOK(a) /\ attempt[a] # Rest
  BY ActiveShape
<1>2. attempt[a].now <= time /\ time \in Nat /\ time <= MaxTime /\ MaxTime \in Nat
  BY <1>1, ThrottleAssumption DEF AttemptOK, ThrottleInv, ThrottleShapes, ThrottleBounds, RowsBounded
<1>3. attempt[a].write \in Writes /\ attempt[a].key \in ThrottleKey /\ attempt[a].now \in Nat
  BY <1>1 DEF InProgress
<1> QED
  BY <1>1, <1>2, <1>3 DEF ThrottleBounds, RowsBounded

(* One more pending row in range. *)
LEMMA AddedBound ==
    ASSUME NEW w, \A l \in DOMAIN w : RowBound(w[l]), NEW k, NEW r, RowBound(r)
    PROVE  \A l \in DOMAIN Added(w, k, r) : RowBound(Added(w, k, r)[l])
BY DEF Added

(* No request has been made and no row is there at first. *)
LEMMA InitBounds == ThrottleInit => ThrottleBounds
<1> SUFFICES ASSUME ThrottleInit PROVE ThrottleBounds
  OBVIOUS
<1>0. {MaxTime, DelayCap, MaxAttempts} \subseteq Nat
  BY ThrottleAssumption
<1>1. \A a \in Attempt : attempt[a].pc = "rest"
  BY DEF ThrottleInit, Rest
<1>2. Busy = {} /\ Unjudged = {}
  BY <1>1 DEF Busy, Unjudged
<1>3. Cardinality(Busy) = 0 /\ Cardinality(Unjudged) = 0
  BY <1>2, FS_EmptySet
<1>4. CountsBounded
  BY <1>0, <1>3 DEF ThrottleInit, CountsBounded
<1>5. RowBound(Gone)
  BY <1>0 DEF RowBound, Gone
<1>6. \A k \in ThrottleKey : RowBound(throttle[k])
  BY <1>5 DEF ThrottleInit
<1> QED
  BY <1>0, <1>1, <1>4, <1>6 DEF ThrottleBounds, RowsBounded, ThrottleInit

(* A request that arrives is one more request made. *)
LEMMA ArriveBounded ==
    ASSUME ThrottleInv, ThrottleBounds, NEW a \in Attempt, NEW ip \in SourceIp, Arrive(a, ip)
    PROVE  ThrottleBounds'
<1> DEFINE w == [k \in {} |-> Gone]
           r == [pc |-> "check", key |-> ip, ip |-> ip, now |-> time, allowed |-> TRUE,
                 write |-> w, reset |-> {}]
<1>0. /\ attempt[a].pc = "rest" /\ made < MaxAttempts /\ made' = made + 1
      /\ attempt' = [attempt EXCEPT ![a] = r] /\ UNCHANGED <<throttle, time, fails, extra>>
  BY DEF Arrive
<1>1. attempt'[a] = r /\ \A b \in Attempt \ {a} : attempt'[b] = attempt[b]
  BY <1>0 DEF ThrottleInv, ThrottleShapes
<1>2. r.pc = "check" /\ DOMAIN r.write = {}
  OBVIOUS
<1> HIDE DEF r
<1>3. RowsBounded'
  <2>1. \A k \in ThrottleKey : RowBound(throttle'[k])
    BY <1>0 DEF ThrottleBounds, RowsBounded
  <2>2. ASSUME NEW b \in Attempt, attempt'[b].pc # "rest", NEW k \in DOMAIN attempt'[b].write
        PROVE  RowBound(attempt'[b].write[k])
    BY <1>1, <1>2, <2>2 DEF ThrottleBounds, RowsBounded
  <2> QED
    BY <1>0, <2>1, <2>2 DEF ThrottleBounds, RowsBounded
<1>4. a \notin Busy /\ a \notin Unjudged
  BY <1>0 DEF Busy, Unjudged
<1>5. Busy' = Busy \cup {a} /\ Unjudged' = Unjudged \cup {a}
  BY <1>1, <1>2 DEF Busy, Unjudged
<1>6. Cardinality(Busy') = Cardinality(Busy) + 1 /\ Cardinality(Unjudged') = Cardinality(Unjudged) + 1
  BY <1>4, <1>5, BusyFinite, FS_AddElement
<1>7. /\ extra \in Nat /\ made \in Nat /\ fails \in [ThrottleKey -> Nat] /\ MaxAttempts \in Nat
  BY ThrottleAssumption DEF ThrottleInv, ThrottleShapes, GuessOK, ThrottleBounds, CountsBounded
<1>8. CountsBounded'
  BY <1>0, <1>6, <1>7, BusyFinite DEF ThrottleBounds, CountsBounded
<1> QED
  BY <1>3, <1>8 DEF ThrottleBounds

(* Requests that check, evaluate, insert, update and delete. *)
LEMMA CheckBounded ==
    ASSUME ThrottleInv, ThrottleBounds, NEW a \in Attempt, check(a) PROVE ThrottleBounds'
<1>0. attempt[a].pc = "check" /\ UNCHANGED <<throttle, time, made, fails, extra>>
  BY DEF check
<1>1. PICK r \in InProgress : r = attempt[a] /\ \A k \in DOMAIN r.write : RowBound(r.write[k])
  BY <1>0, PendingBound
<1>2. PICK ok \in BOOLEAN : ok = (r.allowed /\ throttle[r.key].next <= r.now)
  OBVIOUS
<1> DEFINE p == [r EXCEPT !.key = Account, !.allowed = ok]
           q == [r EXCEPT !.pc = "evaluate"]
<1>3. PICK x \in {p, q, Rest} : attempt' = [attempt EXCEPT ![a] = x]
  <2>1. \/ attempt' = [attempt EXCEPT ![a] = p] \/ attempt' = [attempt EXCEPT ![a] = q]
        \/ attempt' = [attempt EXCEPT ![a] = Rest]
    BY <1>1, <1>2 DEF check
  <2> QED
    BY <2>1
<1>4. /\ p.pc = r.pc /\ p.write = r.write /\ q.pc = "evaluate" /\ q.write = r.write
      /\ Rest.pc = "rest"
  BY <1>1 DEF InProgress, Rest
<1> HIDE DEF p, q
<1>5. /\ x.pc # "rest" => \A k \in DOMAIN x.write : RowBound(x.write[k])
      /\ attempt[a].pc \in {"check", "evaluate"}
  BY <1>0, <1>1, <1>4
<1> QED
  BY <1>0, <1>3, <1>5, BoundsStep

(* An evaluation of a credential. *)
LEMMA EvaluateBounded ==
    ASSUME ThrottleInv, ThrottleBounds, NEW a \in Attempt, Evaluate(a) PROVE ThrottleBounds'
<1>0. /\ attempt[a].pc = "evaluate" /\ UNCHANGED <<throttle, time, made, fails>>
      /\ extra' \in {extra, extra + 1}
  BY DEF Evaluate
<1>1. PICK r \in InProgress : r = attempt[a] /\ \A k \in DOMAIN r.write : RowBound(r.write[k])
  BY <1>0, PendingBound
<1> DEFINE p == [r EXCEPT !.pc = "insert", !.key = r.ip]
           q == [r EXCEPT !.pc = "delete"]
<1>2. PICK x \in {p, q} : attempt' = [attempt EXCEPT ![a] = x]
  BY <1>1 DEF Evaluate
<1>3. p.pc = "insert" /\ p.write = r.write /\ q.pc = "delete" /\ q.write = r.write
  BY <1>1 DEF InProgress
<1> HIDE DEF p, q
<1>4. /\ \A k \in DOMAIN x.write : RowBound(x.write[k])
      /\ x.pc \notin {"check", "evaluate"} /\ attempt[a].pc # "rest"
  BY <1>0, <1>1, <1>3
<1> QED
  BY <1>0, <1>2, <1>4, BoundsStep

(* INSERT ... ON CONFLICT DO NOTHING. *)
LEMMA InsertBounded ==
    ASSUME ThrottleInv, ThrottleBounds, NEW a \in Attempt, Insert(a) PROVE ThrottleBounds'
<1>0. attempt[a].pc = "insert" /\ UNCHANGED <<throttle, time, made, fails, extra>>
  BY DEF Insert
<1>1. PICK r \in InProgress : r = attempt[a]
  BY <1>0, PendingBound
<1>2. /\ \A k \in DOMAIN r.write : RowBound(r.write[k])
      /\ r.now \in Nat /\ r.now <= MaxTime
  BY <1>0, <1>1, PendingBound
<1> DEFINE new == Row(0, r.now, r.now)
           p == [r EXCEPT !.pc = "lock"]
           q == [r EXCEPT !.pc = "lock", !.write = Added(r.write, r.key, new)]
<1>3. PICK x \in {p, q} : attempt' = [attempt EXCEPT ![a] = x]
  <2>1. \/ attempt' = [attempt EXCEPT ![a] = p] \/ attempt' = [attempt EXCEPT ![a] = q]
    BY <1>1 DEF Insert
  <2> QED
    BY <2>1
<1>4. RowBound(new)
  <2>1. r.now \in 0 .. MaxTime + DelayCap
    BY <1>2, ThrottleAssumption
  <2> QED
    BY <1>2, <2>1 DEF Row, RowBound
<1> HIDE DEF new
<1>5. p.pc = "lock" /\ p.write = r.write /\ q.pc = "lock" /\ q.write = Added(r.write, r.key, new)
  BY <1>1 DEF InProgress
<1> HIDE DEF p, q
<1>6. \A k \in DOMAIN x.write : RowBound(x.write[k])
  BY <1>2, <1>4, <1>5, AddedBound
<1>7. x.pc = "lock" /\ attempt[a].pc # "rest"
  BY <1>0, <1>5
<1> QED
  BY <1>0, <1>3, <1>6, <1>7, BoundsStep

(* SELECT ... FOR UPDATE and the update. *)
LEMMA LockBounded ==
    ASSUME ThrottleInv, ThrottleBounds, NEW a \in Attempt, LockAndCount(a) PROVE ThrottleBounds'
<1>0. attempt[a].pc = "lock" /\ UNCHANGED <<throttle, time, made, fails, extra>>
  BY DEF LockAndCount
<1>1. PICK r \in InProgress : r = attempt[a]
  BY <1>0, PendingBound
<1>2. /\ \A k \in DOMAIN r.write : RowBound(r.write[k])
      /\ r.now \in Nat /\ r.now <= MaxTime /\ r.key \in ThrottleKey /\ r.write \in Writes
  BY <1>0, <1>1, PendingBound
<1> DEFINE s == Selected(a, r.key)
           new == Counted(s, r.key, r.now)
           W == Added(r.write, r.key, new)
<1>3. s \in RowRec /\ RowBound(s)
  <2>1. throttle[r.key] \in RowRec /\ RowBound(throttle[r.key])
    BY <1>2 DEF ThrottleInv, ThrottleShapes, ThrottleBounds, RowsBounded
  <2>2. r.key \in DOMAIN r.write => r.write[r.key] \in RowRec
    BY <1>2, WriteShape
  <2> QED
    BY <1>1, <1>2, <2>1, <2>2 DEF Selected
<1>4. RowBound(new)
  BY <1>2, <1>3, CountedBound
<1> DEFINE pc == IF r.key = Account THEN "commit" ELSE "insert"
           R == IF Expired(s, r.now) THEN r.reset \cup {r.key} ELSE r.reset
<1>5. attempt' = [attempt EXCEPT ![a] =
          [r EXCEPT !.pc = pc, !.key = Account, !.write = W, !.reset = R]]
  BY <1>1 DEF LockAndCount
<1> HIDE DEF W
<1> DEFINE x == [r EXCEPT !.pc = pc, !.key = Account, !.write = W, !.reset = R]
<1>6. x.pc = pc /\ x.write = W
  BY <1>1 DEF InProgress
<1>7. attempt' = [attempt EXCEPT ![a] = x]
  BY <1>5
<1> HIDE DEF x
<1>8. \A k \in DOMAIN W : RowBound(W[k])
  <2> HIDE DEF new
  <2> QED
    BY <1>2, <1>4, AddedBound DEF W
<1>9. /\ \A k \in DOMAIN x.write : RowBound(x.write[k])
      /\ x.pc \notin {"check", "evaluate"} /\ attempt[a].pc # "rest"
  BY <1>0, <1>6, <1>8
<1> QED
  BY <1>0, <1>7, <1>9, BoundsStep

(* A request that finds its row deleted ends, and one whose password matched deletes. *)
LEMMA OtherBounded ==
    ASSUME ThrottleInv, ThrottleBounds, NEW a \in Attempt, FailLocked(a) \/ reset_account(a)
    PROVE  ThrottleBounds'
<1>1. CASE FailLocked(a)
  <2>1. /\ attempt[a].pc = "lock" /\ attempt' = [attempt EXCEPT ![a] = Rest]
        /\ UNCHANGED <<throttle, time, made, fails, extra>>
    BY <1>1 DEF FailLocked
  <2>2. Rest.pc = "rest" /\ attempt[a].pc # "rest"
    BY <2>1 DEF Rest
  <2> QED
    BY <2>1, <2>2, BoundsStep
<1>2. CASE reset_account(a)
  <2>0. attempt[a].pc = "delete" /\ UNCHANGED <<throttle, time, made, fails, extra>>
    BY <1>2 DEF reset_account
  <2>1. PICK r \in InProgress : r = attempt[a] /\ \A k \in DOMAIN r.write : RowBound(r.write[k])
    BY <2>0, PendingBound
  <2> DEFINE g == [k \in {Account} |-> Gone]
             p == [r EXCEPT !.pc = "commit"]
             q == [r EXCEPT !.pc = "commit", !.write = g]
  <2>2. PICK x \in {p, q} : attempt' = [attempt EXCEPT ![a] = x]
    <3>1. \/ attempt' = [attempt EXCEPT ![a] = p] \/ attempt' = [attempt EXCEPT ![a] = q]
      BY <1>2, <2>1 DEF reset_account
    <3> QED
      BY <3>1
  <2>3. \A k \in DOMAIN g : RowBound(g[k])
    BY ThrottleAssumption DEF Gone, RowBound
  <2> HIDE DEF g
  <2>4. p.pc = "commit" /\ p.write = r.write /\ q.pc = "commit" /\ q.write = g
    BY <2>1 DEF InProgress
  <2> HIDE DEF p, q
  <2>5. /\ \A k \in DOMAIN x.write : RowBound(x.write[k])
        /\ x.pc \notin {"check", "evaluate"} /\ attempt[a].pc # "rest"
    BY <2>0, <2>1, <2>3, <2>4
  <2> QED
    BY <2>0, <2>2, <2>5, BoundsStep
<1> QED
  BY <1>1, <1>2

(* A commit ends a request and makes at most one failure of it. *)
LEMMA CommitBounded ==
    ASSUME ThrottleInv, ThrottleBounds, NEW a \in Attempt, CommitAttempt(a) PROVE ThrottleBounds'
<1> DEFINE w == attempt[a].write
<1>0. /\ attempt[a].pc = "commit" /\ attempt' = [attempt EXCEPT ![a] = Rest]
      /\ UNCHANGED <<time, made>> /\ extra' \in {extra, 0}
      /\ throttle' = [k \in ThrottleKey |-> IF k \in DOMAIN w THEN w[k] ELSE throttle[k]]
  BY DEF CommitAttempt
<1>1. /\ extra \in Nat /\ made \in Nat /\ fails \in [ThrottleKey -> Nat]
  BY ThrottleAssumption DEF ThrottleInv, ThrottleShapes, GuessOK, ThrottleBounds, CountsBounded
<1>2. \A k \in ThrottleKey : fails'[k] \in {0, 1, fails[k], fails[k] + 1}
  BY DEF CommitAttempt
<1>3. /\ attempt'[a] = Rest /\ Rest.pc = "rest"
      /\ \A b \in Attempt \ {a} : attempt'[b] = attempt[b]
  BY <1>0 DEF ThrottleInv, ThrottleShapes, Rest
<1>4. \A k \in DOMAIN w : RowBound(w[k])
  BY <1>0, PendingBound
<1> HIDE DEF w
<1>5. RowsBounded'
  <2>1. \A k \in ThrottleKey : RowBound(throttle'[k])
    BY <1>0, <1>4 DEF ThrottleBounds, RowsBounded
  <2>2. ASSUME NEW b \in Attempt, attempt'[b].pc # "rest", NEW k \in DOMAIN attempt'[b].write
        PROVE  RowBound(attempt'[b].write[k])
    BY <1>3, <2>2 DEF ThrottleBounds, RowsBounded
  <2> QED
    BY <1>0, <2>1, <2>2 DEF ThrottleBounds, RowsBounded
<1>6. a \in Busy /\ Busy' = Busy \ {a} /\ Unjudged' = Unjudged
  BY <1>0, <1>3 DEF Busy, Unjudged
<1>7. Cardinality(Busy') = Cardinality(Busy) - 1
  BY <1>6, BusyFinite, FS_RemoveElement
<1>8. CountsBounded'
  <2>1. \A k \in ThrottleKey : fails'[k] + Cardinality(Busy') <= made'
    <3> SUFFICES ASSUME NEW k \in ThrottleKey PROVE fails'[k] + Cardinality(Busy') <= made
      BY <1>0
    <3>1. fails[k] \in Nat /\ fails[k] + Cardinality(Busy) <= made
      BY <1>1 DEF ThrottleBounds, CountsBounded
    <3> QED
      BY <1>1, <1>2, <1>7, <3>1, BusyFinite
  <2>2. extra' + Cardinality(Unjudged') <= made'
    BY <1>0, <1>1, <1>6, BusyFinite DEF ThrottleBounds, CountsBounded
  <2> QED
    BY <1>0, <2>1, <2>2 DEF ThrottleBounds, CountsBounded
<1> QED
  BY <1>5, <1>8 DEF ThrottleBounds

(* Time passes up to its bound. *)
LEMMA TickBounded == ASSUME ThrottleInv, ThrottleBounds, TickTime PROVE ThrottleBounds'
<1>0. /\ time < MaxTime /\ time' = time + 1 /\ UNCHANGED <<throttle, attempt, made, fails>>
      /\ extra' \in {extra, 0}
  BY DEF TickTime
<1>1. /\ extra \in Nat /\ made \in Nat /\ time \in Nat /\ MaxTime \in Nat
  BY ThrottleAssumption DEF ThrottleInv, ThrottleShapes, GuessOK, ThrottleBounds, CountsBounded
<1>2. RowsBounded'
  <2>1. /\ \A k \in ThrottleKey : RowBound(throttle'[k])
        /\ \A b \in Attempt : attempt'[b].pc # "rest" =>
             \A k \in DOMAIN attempt'[b].write : RowBound(attempt'[b].write[k])
    BY <1>0 DEF ThrottleBounds, RowsBounded
  <2> QED
    BY <1>0, <1>1, <2>1 DEF RowsBounded
<1>3. Busy' = Busy /\ Unjudged' = Unjudged
  BY <1>0 DEF Busy, Unjudged
<1>4. CountsBounded'
  BY <1>0, <1>1, <1>3, BusyFinite DEF ThrottleBounds, CountsBounded
<1> QED
  BY <1>2, <1>4 DEF ThrottleBounds

(* Rows, counts and the clock stay in their ranges: no row counts more failures than   *)
(* requests were made, no window lies in the future of the clock, and nobody is made to *)
(* wait longer than the cap after the clock's end (delay_seconds, register_failure).    *)
THEOREM ThrottleTypes == ThrottleSpec => []ThrottleTypeOK
<1>1. ThrottleInv /\ ThrottleBounds /\ [ThrottleNext]_throttleVars => ThrottleBounds'
  <2> SUFFICES ASSUME ThrottleInv, ThrottleBounds, [ThrottleNext]_throttleVars
               PROVE  ThrottleBounds'
    OBVIOUS
  <2>1. CASE UNCHANGED throttleVars
    BY <2>1 DEF throttleVars, ThrottleBounds, RowsBounded, CountsBounded, Busy, Unjudged
  <2> QED
    BY <2>1, ArriveBounded, CheckBounded, EvaluateBounded, InsertBounded, LockBounded,
       OtherBounded, CommitBounded, TickBounded DEF ThrottleNext
<1>2. ThrottleInv /\ ThrottleBounds => ThrottleTypeOK
  <2> SUFFICES ASSUME ThrottleInv, ThrottleBounds PROVE ThrottleTypeOK
    OBVIOUS
  <2>0. /\ {MaxTime, DelayCap, MaxAttempts} \subseteq Nat /\ time \in Nat /\ time <= MaxTime
        /\ extra \in Nat /\ made \in 0 .. MaxAttempts /\ fails \in [ThrottleKey -> Nat]
        /\ throttle \in [ThrottleKey -> RowRec]
        /\ holder \in [ThrottleKey -> Attempt \cup {NoAttempt}]
    BY ThrottleAssumption
       DEF ThrottleInv, ThrottleShapes, GuessOK, ThrottleBounds, RowsBounded, CountsBounded
  <2>1. /\ extra \in 0 .. MaxAttempts
        /\ \A k \in ThrottleKey : fails[k] \in 0 .. MaxAttempts
    BY <2>0, BusyFinite DEF ThrottleBounds, CountsBounded
  <2>2. ASSUME NEW k \in ThrottleKey
        PROVE  throttle[k] \in [here : BOOLEAN, count : 0 .. MaxAttempts,
                                window : 0 .. MaxTime, next : 0 .. MaxTime + DelayCap]
    <3>1. PICK r \in RowRec : r = throttle[k]
      BY <2>0
    <3>2. RowBound(r) /\ (r.here => r.count = fails[k])
      BY <3>1 DEF ThrottleInv, FailuresCounted, ThrottleBounds, RowsBounded
    <3>3. r.count \in 0 .. MaxAttempts /\ r.window \in 0 .. MaxTime
      BY <2>0, <2>1, <3>2 DEF RowBound, RowRec
    <3> QED
      BY <3>1, <3>2, <3>3 DEF RowBound, RowRec
  <2>3. \A b \in Attempt : attempt[b].pc \in
          {"rest", "check", "evaluate", "insert", "lock", "delete", "commit"}
    BY DEF ThrottleInv, ThrottleShapes, InProgress, Rest
  <2>4. throttle \in [ThrottleKey -> [here : BOOLEAN, count : 0 .. MaxAttempts,
                                      window : 0 .. MaxTime, next : 0 .. MaxTime + DelayCap]]
    BY <2>0, <2>2
  <2>5. fails \in [ThrottleKey -> 0 .. MaxAttempts]
    BY <2>0, <2>1
  <2>6. time \in 0 .. MaxTime
    BY <2>0
  <2> QED
    BY <2>0, <2>1, <2>3, <2>4, <2>5, <2>6 DEF ThrottleTypeOK
<1>3. ThrottleSpec => []ThrottleBounds
  BY <1>1, InitBounds, ThrottleCorrect, PTL DEF ThrottleSpec
<1> QED
  BY <1>2, <1>3, ThrottleCorrect, PTL
=============================================================================
