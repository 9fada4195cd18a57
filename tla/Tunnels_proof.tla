---------------------------- MODULE Tunnels_proof ----------------------------
(* What Tunnels promises, for any number of connects, grants, users,          *)
(* addresses and slots.                                                       *)
EXTENDS Tunnels, FiniteSetTheorems, TLAPS

(* The handlers a connect has from its first statement to its end. *)
Open == {"resolve", "consume", "tunnel"} \cup InBridge

(* The program points at which a child process may be running. *)
WithChild ==
    {"probing", "loop", "reading", "sendReady", "sending", "classify", "failing", "cleanup"}

(* A child runs only where the handler will still reap it. *)
ChildOwned == \A c \in Conn : proc[c] # "none" => conn[c].pc \in WithChild

(* The counter is the number of streams that hold a slot. *)
Counted == \A u \in TunnelUser : active[u] = Cardinality(Held(u))

(* A connect gets past the session check only if the session was live when it *)
(* began; before that, a session that is live now was live then.              *)
SessionSeen ==
    \A c \in Conn :
        /\ conn[c].pc = "resolve" /\ gwLive[conn[c].user] => conn[c].sawLive
        /\ conn[c].pc \in Open \ {"resolve"} => conn[c].sawLive

TunnelInv == TunnelTypeOK /\ ChildOwned /\ Counted /\ SessionSeen /\ GrantOnce

(* Connect c goes on to program point pc and nobody else moves. *)
Moved(c, pc) ==
    /\ conn' \in [Conn -> Handler]
    /\ \A d \in Conn \ {c} : conn'[d] = conn[d]
    /\ conn'[c].pc = pc
    /\ pc # "closed" => conn'[c].user = conn[c].user /\ conn'[c].sawLive = conn[c].sawLive

-----------------------------------------------------------------------------
(* A handler's record is of one of the two shapes. *)
LEMMA HandlerShape ==
    ASSUME TunnelTypeOK, NEW c \in Conn, conn[c].pc \in Open
    PROVE  /\ conn[c] \in [pc : Open, g : Grant, user : TunnelUser, addr : Addr, sawLive : BOOLEAN,
                           gone : BOOLEAN, ready : BOOLEAN, late : BOOLEAN]
           /\ conn \in [Conn -> Handler]
BY DEF TunnelTypeOK, Handler, Open, Idle, Closed, InBridge, Holding

(* The three ways a handler's record changes. *)
LEMMA GotoMoves ==
    ASSUME TunnelTypeOK, NEW c \in Conn, conn[c].pc \in Open, NEW pc \in Open, Goto(c, pc)
    PROVE  Moved(c, pc)
<1>1. conn' = [conn EXCEPT ![c] = [conn[c] EXCEPT !.pc = pc]]
  BY DEF Goto
<1>2. [conn[c] EXCEPT !.pc = pc] \in Handler
  BY HandlerShape DEF Handler, Open
<1> QED
  BY <1>1, <1>2, HandlerShape DEF Moved

(* Leaving a wait moves the connection and nothing else of it. *)
LEMMA LeaveMoves ==
    ASSUME TunnelTypeOK, NEW c \in Conn, conn[c].pc \in Open, NEW pc \in Open, Leave(c, pc)
    PROVE  Moved(c, pc)
<1> DEFINE h == [conn[c] EXCEPT !.pc = pc, !.gone = FALSE, !.ready = FALSE, !.late = FALSE]
<1>1. conn' = [conn EXCEPT ![c] = h]
  BY DEF Leave
<1>2. h \in Handler /\ h.pc = pc /\ h.user = conn[c].user /\ h.sawLive = conn[c].sawLive
  BY HandlerShape DEF Handler, Open
<1> HIDE DEF h
<1> QED
  BY <1>1, <1>2, HandlerShape DEF Moved

(* Closing moves the connection to its end. *)
LEMMA CloseMoves ==
    ASSUME TunnelTypeOK, NEW c \in Conn, Close(c)
    PROVE  Moved(c, "closed")
BY DEF TunnelTypeOK, Close, Closed, Handler, Moved

-----------------------------------------------------------------------------
(* Inside the bridge a step of _run_stream moves its handler between points   *)
(* that hold the slot, and leaves a child only where it will be reaped.       *)
LEMMA StreamMoves ==
    ASSUME TunnelInv, NEW c \in Conn, RunStream(c)
    PROVE  /\ conn[c].pc \in Holding
           /\ \E pc \in Holding : Moved(c, pc)
           /\ proc' \in [Conn -> {"none", "ffprobe", "ffmpeg"}]
           /\ \A d \in Conn \ {c} : proc'[d] = proc[d]
           /\ proc'[c] # "none" => conn'[c].pc \in WithChild
           /\ UNCHANGED <<gwLive, grant, active, served>>
<1> USE DEF TunnelInv
<1> DEFINE Goal == /\ conn[c].pc \in Holding
                   /\ \E pc \in Holding : Moved(c, pc)
                   /\ proc' \in [Conn -> {"none", "ffprobe", "ffmpeg"}]
                   /\ \A d \in Conn \ {c} : proc'[d] = proc[d]
                   /\ proc'[c] # "none" => conn'[c].pc \in WithChild
                   /\ UNCHANGED <<gwLive, grant, active, served>>
<1>0. /\ proc \in [Conn -> {"none", "ffprobe", "ffmpeg"}]
      /\ proc[c] # "none" => conn[c].pc \in WithChild
      /\ Holding \subseteq Open
  BY DEF TunnelTypeOK, ChildOwned, Open, InBridge
<1>1. CASE StartProbe(c)
  BY <1>0, <1>1, GotoMoves DEF StartProbe, Holding, WithChild, Moved
<1>2. CASE ProbeEnds(c)
  BY <1>0, <1>2, GotoMoves DEF ProbeEnds, Holding, WithChild, Moved
<1>3. CASE ReportProbe(c)
  BY <1>0, <1>3, GotoMoves DEF ReportProbe, Holding, WithChild, Moved
<1>4. CASE Spawn(c)
  BY <1>0, <1>4, GotoMoves DEF Spawn, Holding, WithChild, Moved
<1>5. CASE Loop(c)
  BY <1>0, <1>5, GotoMoves, LeaveMoves DEF Loop, Break, Holding, WithChild, Moved
<1>6. CASE Read(c)
  BY <1>0, <1>6, GotoMoves, LeaveMoves DEF Read, Break, Holding, WithChild, Moved
<1>7. CASE SendReady(c)
  <2>1. CASE conn' = [conn EXCEPT ![c].pc = "sending", ![c].ready = TRUE]
    <3> DEFINE h == [conn[c] EXCEPT !.pc = "sending", !.ready = TRUE]
    <3>1. conn[c].pc \in Open /\ conn' = [conn EXCEPT ![c] = h]
      BY <1>0, <1>7, <2>1 DEF SendReady, Holding
    <3>2. h \in Handler /\ h.pc = "sending" /\ h.user = conn[c].user /\ h.sawLive = conn[c].sawLive
      BY <3>1, HandlerShape DEF Handler, Open, InBridge, Holding
    <3> HIDE DEF h
    <3>3. Moved(c, "sending")
      BY <3>1, <3>2, HandlerShape DEF Moved
    <3> QED
      BY <1>0, <1>7, <3>3 DEF SendReady, Holding, WithChild, Moved
  <2>2. CASE Leave(c, "cleanup")
    BY <1>0, <1>7, <2>2, LeaveMoves DEF SendReady, Holding, WithChild, Moved
  <2> QED
    BY <1>7, <2>1, <2>2 DEF SendReady
<1>8. CASE SendBytes(c)
  BY <1>0, <1>8, GotoMoves, LeaveMoves DEF SendBytes, Holding, WithChild, Moved
<1>9. CASE Classify(c)
  BY <1>0, <1>9, GotoMoves DEF Classify, Holding, WithChild, Moved
<1>10. CASE ReportFailure(c)
  BY <1>0, <1>10, GotoMoves DEF ReportFailure, Holding, WithChild, Moved
<1>11. CASE Cleanup(c)
  BY <1>0, <1>11, GotoMoves DEF Cleanup, Holding, WithChild, Moved
<1> QED
  BY <1>1, <1>2, <1>3, <1>4, <1>5, <1>6, <1>7, <1>8, <1>9, <1>10, <1>11 DEF RunStream

-----------------------------------------------------------------------------
(* A handler that moves on keeps what is known of sessions and children, if   *)
(* it passes the session check only with a session that was live.             *)
LEMMA MoveKeeps ==
    ASSUME TunnelInv, NEW c \in Conn, NEW pc, Moved(c, pc),
           conn[c].pc \in Open, gwLive' = gwLive,
           pc = "resolve" => conn[c].pc = "resolve",
           pc # "closed" /\ pc # "resolve" => conn[c].sawLive,
           \A d \in Conn \ {c} : proc'[d] = proc[d],
           proc'[c] # "none" => pc \in WithChild
    PROVE  SessionSeen' /\ ChildOwned'
<1>1. SessionSeen'
  BY DEF TunnelInv, SessionSeen, Moved, Open, InBridge, Holding
<1>2. ChildOwned'
  BY DEF TunnelInv, ChildOwned, Moved
<1> QED
  BY <1>1, <1>2

(* A move that neither takes nor gives back a slot. *)
LEMMA SameSlots ==
    ASSUME NEW c \in Conn, NEW pc, Moved(c, pc), pc \in Holding <=> conn[c].pc \in Holding
    PROVE  \A u \in TunnelUser : Held(u)' = Held(u)
<1>1. pc \in Holding => pc # "closed"
  BY DEF Holding
<1> QED
  BY <1>1 DEF Held, Moved

(* A step that moves no connection in or out of a slot keeps the count of slots. *)
LEMMA SlotsKept ==
    ASSUME TunnelInv, active' = active, \A u \in TunnelUser : Held(u)' = Held(u)
    PROVE  Counted'
BY DEF TunnelInv, Counted

(* What a handler knows of its session when it is past the check. *)
LEMMA PastCheck ==
    ASSUME TunnelInv, NEW c \in Conn, conn[c].pc \in Open \ {"resolve"}
    PROVE  conn[c].sawLive
BY DEF TunnelInv, SessionSeen

(* A step that leaves the grants alone leaves GrantOnce alone. *)
LEMMA GrantsKept ==
    ASSUME TunnelInv, UNCHANGED <<grant, served>>
    PROVE  GrantOnce'
BY DEF TunnelInv, GrantOnce

-----------------------------------------------------------------------------
(* One lemma for each kind of step.  QuietStep: the slots are as they were. *)
QuietStep == TunnelInv' /\ \A u \in TunnelUser : Held(u)' = Held(u)

(* A step of a stream that moves no slot keeps every holder. *)
LEMMA StreamQuiet ==
    ASSUME TunnelInv, NEW c \in Conn, RunStream(c)
    PROVE  QuietStep
<1>1. PICK pc \in Holding : Moved(c, pc)
  BY StreamMoves
<1>2. conn[c].pc \in Holding /\ Holding \subseteq Open \ {"resolve"} /\ "closed" \notin Holding
  BY StreamMoves DEF Open, InBridge, Holding
<1>3. \A u \in TunnelUser : Held(u)' = Held(u)
  BY <1>1, <1>2, SameSlots
<1>4. SessionSeen' /\ ChildOwned'
  <2>1. proc'[c] # "none" => pc \in WithChild
    BY <1>1, StreamMoves DEF Moved
  <2>2. conn[c].sawLive
    BY <1>2, PastCheck
  <2> QED
    BY <1>1, <1>2, <2>1, <2>2, StreamMoves, MoveKeeps
<1>5. TunnelTypeOK'
  BY <1>1, StreamMoves DEF TunnelInv, TunnelTypeOK, Moved
<1>6. GrantOnce' /\ Counted'
  BY <1>3, StreamMoves, GrantsKept, SlotsKept
<1> QED
  BY <1>3, <1>4, <1>5, <1>6 DEF QuietStep, TunnelInv

(* A handler outside the slots goes to another point outside them, or closes. *)
LEMMA OutsideQuiet ==
    ASSUME TunnelInv, NEW c \in Conn, NEW pc \in {"consume", "enter", "refusing", "closed"},
           Moved(c, pc), conn[c].pc \in Open \ Holding,
           pc # "closed" => conn[c].sawLive,
           UNCHANGED <<gwLive, grant, proc, active, served>>
    PROVE  QuietStep
<1>1. \A u \in TunnelUser : Held(u)' = Held(u)
  BY SameSlots DEF Holding
<1>2. proc'[c] = "none"
  BY DEF TunnelInv, ChildOwned, WithChild, Holding
<1>3. SessionSeen' /\ ChildOwned'
  BY <1>2, MoveKeeps
<1>4. TunnelTypeOK'
  BY DEF TunnelInv, TunnelTypeOK, Moved
<1>5. GrantOnce' /\ Counted'
  BY <1>1, GrantsKept, SlotsKept
<1> QED
  BY <1>1, <1>3, <1>4, <1>5 DEF QuietStep, TunnelInv

(* rtsp_consume and guac_consume, up to the grant. *)
LEMMA ResolveQuiet ==
    ASSUME TunnelInv, NEW c \in Conn, Resolve(c)
    PROVE  QuietStep
<1>0. conn[c].pc = "resolve" /\ "resolve" \in Open \ Holding /\ "consume" \in Open
  BY DEF Resolve, Open, Holding
<1>1. CASE SessionOpens(conn[c].user, conn[c].addr, grant[conn[c].g].kind) /\ Goto(c, "consume")
  <2>1. conn[c].sawLive
    BY <1>0, <1>1 DEF SessionOpens, TunnelInv, SessionSeen
  <2>2. Moved(c, "consume")
    BY <1>0, <1>1, GotoMoves DEF TunnelInv
  <2> QED
    BY <1>0, <2>1, <2>2, OutsideQuiet DEF Resolve
<1>2. CASE Close(c)
  <2>1. Moved(c, "closed")
    BY <1>2, CloseMoves DEF TunnelInv
  <2> QED
    BY <1>0, <2>1, OutsideQuiet DEF Resolve
<1> QED
  BY <1>1, <1>2 DEF Resolve

(* Accept, the refusal over the limit and the end of a guac tunnel. *)
LEMMA EdgeQuiet ==
    ASSUME TunnelInv, NEW c \in Conn, Accept(c) \/ Refuse(c) \/ TunnelEnds(c)
    PROVE  QuietStep
<1>0. /\ conn[c].pc \in Open \ Holding /\ conn[c].pc # "resolve" /\ "enter" \in Open
      /\ UNCHANGED <<gwLive, grant, proc, active, served>>
  BY DEF Accept, Refuse, TunnelEnds, Open, InBridge, Holding
<1>1. conn[c].sawLive
  BY <1>0, PastCheck
<1>2. Moved(c, "enter") \/ Moved(c, "closed")
  BY <1>0, GotoMoves, CloseMoves DEF TunnelInv, Accept, Refuse, TunnelEnds
<1> QED
  BY <1>0, <1>1, <1>2, OutsideQuiet

(* consume_grant: only a live row is consumed, and a live row has opened      *)
(* nothing yet.                                                               *)
LEMMA ConsumeQuiet ==
    ASSUME TunnelInv, NEW c \in Conn, Consume(c)
    PROVE  QuietStep
<1> PICK g \in Grant : g = conn[c].g
  BY HandlerShape DEF TunnelInv, Consume, Open
<1>0. /\ conn[c].pc = "consume" /\ conn[c].pc \in Open \ Holding /\ conn[c].pc # "resolve"
      /\ {"accept", "tunnel"} \subseteq Open
  BY DEF Consume, Open, InBridge, Holding
<1>1. conn[c].sawLive
  BY <1>0, PastCheck
<1>2. PICK pc \in {"accept", "tunnel", "closed"} : Moved(c, pc)
  BY <1>0, GotoMoves, CloseMoves DEF TunnelInv, Consume
<1>3. \A u \in TunnelUser : Held(u)' = Held(u)
  BY <1>0, <1>2, SameSlots DEF Holding
<1>4. SessionSeen' /\ ChildOwned'
  <2>1. UNCHANGED <<gwLive, proc>> /\ proc[c] = "none"
    BY <1>0 DEF Consume, TunnelInv, ChildOwned, WithChild
  <2> QED
    BY <1>0, <1>1, <1>2, <2>1, MoveKeeps
<1>5. Counted'
  BY <1>3, SlotsKept DEF Consume
<1>6. \/ /\ grant[g].st = "live"
         /\ grant' = [grant EXCEPT ![g].st = "consumed"]
         /\ served' = [served EXCEPT ![g] = @ + 1] \/ served' = served
      \/ UNCHANGED <<grant, served>>
  BY DEF Consume, Consumable
<1>7. CASE /\ grant[g].st = "live"
           /\ grant' = [grant EXCEPT ![g].st = "consumed"]
           /\ served' = [served EXCEPT ![g] = @ + 1] \/ served' = served
  <2>1. /\ grant'[g].st = "consumed" /\ grant'[g] \in GrantRow
        /\ grant' \in [Grant -> GrantRow] /\ \A x \in Grant \ {g} : grant'[x] = grant[x]
    BY <1>7 DEF TunnelInv, TunnelTypeOK, GrantRow, NoGrant
  <2>2. served[g] = 0
    BY <1>7 DEF TunnelInv, TunnelTypeOK, GrantOnce
  <2>3. /\ served' \in [Grant -> Nat] /\ served'[g] <= 1
        /\ \A x \in Grant \ {g} : served'[x] = served[x]
    BY <1>7, <2>2 DEF TunnelInv, TunnelTypeOK
  <2>4. GrantOnce'
    BY <2>1, <2>3 DEF TunnelInv, GrantOnce
  <2>5. TunnelTypeOK'
    BY <1>2, <2>1, <2>3 DEF Consume, TunnelInv, TunnelTypeOK, Moved
  <2> QED
    BY <1>3, <1>4, <1>5, <2>4, <2>5 DEF QuietStep, TunnelInv
<1>8. CASE UNCHANGED <<grant, served>>
  <2>1. TunnelTypeOK'
    BY <1>2, <1>8 DEF Consume, TunnelInv, TunnelTypeOK, Moved
  <2> QED
    BY <1>3, <1>4, <1>5, <1>8, <2>1, GrantsKept DEF QuietStep, TunnelInv
<1> QED
  BY <1>6, <1>7, <1>8

(* A new connect notes whether its session is live. *)
LEMMA ConnectQuiet ==
    ASSUME TunnelInv, NEW c \in Conn, NEW g \in Grant, NEW u \in TunnelUser, NEW a \in Addr,
           Connect(c, g, u, a)
    PROVE  QuietStep
<1> DEFINE h == [pc |-> "resolve", g |-> g, user |-> u, addr |-> a, sawLive |-> gwLive[u],
                 gone |-> FALSE, ready |-> FALSE, late |-> FALSE]
<1>0. /\ conn[c].pc = "idle" /\ conn' = [conn EXCEPT ![c] = h]
      /\ UNCHANGED <<gwLive, grant, proc, active, served>> /\ conn \in [Conn -> Handler]
  BY DEF Connect, Idle, TunnelInv, TunnelTypeOK
<1>1. h \in Handler /\ h.pc = "resolve" /\ h.user = u /\ h.sawLive = gwLive[u]
  BY DEF Handler, TunnelInv, TunnelTypeOK
<1> HIDE DEF h
<1>2. /\ conn' \in [Conn -> Handler] /\ conn'[c] = h
      /\ \A d \in Conn \ {c} : conn'[d] = conn[d]
  BY <1>0, <1>1
<1>3. \A x \in TunnelUser : Held(x)' = Held(x)
  BY <1>0, <1>1, <1>2 DEF Held, Holding
<1>4. TunnelTypeOK'
  BY <1>0, <1>2 DEF TunnelInv, TunnelTypeOK
<1>5. ChildOwned'
  BY <1>0, <1>2 DEF TunnelInv, ChildOwned, WithChild
<1>6. SessionSeen'
  BY <1>0, <1>1, <1>2 DEF TunnelInv, SessionSeen
<1>7. GrantOnce' /\ Counted'
  BY <1>0, <1>3, GrantsKept, SlotsKept
<1> QED
  BY <1>3, <1>4, <1>5, <1>6, <1>7 DEF QuietStep, TunnelInv

(* The browser leaves or the deadline passes: only a flag of the handler. *)
LEMMA FlagQuiet ==
    ASSUME TunnelInv, NEW c \in Conn, ClientLeaves(c) \/ DeadlinePasses(c)
    PROVE  QuietStep
<1> PICK pc : pc = conn[c].pc
  OBVIOUS
<1>0. /\ pc \in {"loop", "reading", "sendReady", "sending"}
      /\ UNCHANGED <<gwLive, grant, proc, active, served>>
  BY DEF ClientLeaves, DeadlinePasses
<1>1. pc \in Open \ {"resolve"} /\ pc \in Holding /\ pc # "closed"
  BY <1>0 DEF Open, InBridge, Holding
<1>2. Moved(c, pc)
  <2>1. PICK h \in {[conn[c] EXCEPT !.gone = TRUE], [conn[c] EXCEPT !.late = TRUE]} :
          conn' = [conn EXCEPT ![c] = h]
    BY DEF ClientLeaves, DeadlinePasses
  <2>2. /\ h \in Handler /\ h.pc = pc
        /\ h.user = conn[c].user /\ h.sawLive = conn[c].sawLive
    BY <1>1, HandlerShape DEF TunnelInv, Handler, Open
  <2> QED
    BY <1>1, <2>1, <2>2, HandlerShape DEF TunnelInv, Moved
<1>3. \A u \in TunnelUser : Held(u)' = Held(u)
  BY <1>2, SameSlots
<1>4. SessionSeen' /\ ChildOwned'
  <2>1. conn[c].sawLive /\ (proc'[c] # "none" => pc \in WithChild)
    BY <1>0, <1>1, PastCheck DEF TunnelInv, ChildOwned
  <2> QED
    BY <1>0, <1>1, <1>2, <2>1, MoveKeeps
<1>5. TunnelTypeOK'
  BY <1>0, <1>2 DEF TunnelInv, TunnelTypeOK, Moved
<1>6. GrantOnce' /\ Counted'
  BY <1>0, <1>3, GrantsKept, SlotsKept
<1> QED
  BY <1>3, <1>4, <1>5, <1>6 DEF QuietStep, TunnelInv

(* ffmpeg exits, or a session ends. *)
LEMMA WorldQuiet ==
    ASSUME TunnelInv,
           (\E c \in Conn : FfmpegExits(c)) \/ (\E u \in TunnelUser : EndSession(u))
    PROVE  QuietStep
<1>1. UNCHANGED <<grant, conn, active, served>>
  BY DEF FfmpegExits, EndSession
<1>2. \A u \in TunnelUser : Held(u)' = Held(u)
  BY <1>1 DEF Held
<1>3. TunnelTypeOK'
  BY <1>1 DEF FfmpegExits, EndSession, TunnelInv, TunnelTypeOK
<1>4. ChildOwned'
  BY <1>1 DEF FfmpegExits, EndSession, TunnelInv, TunnelTypeOK, ChildOwned
<1>5. \A u \in TunnelUser : gwLive'[u] => gwLive[u]
  BY DEF FfmpegExits, EndSession, TunnelInv, TunnelTypeOK
<1>6. SessionSeen'
  <2>1. \A c \in Conn : conn[c].pc = "resolve" => conn[c].user \in TunnelUser
    BY HandlerShape DEF TunnelInv, Open
  <2> QED
    BY <1>1, <1>5, <2>1 DEF TunnelInv, SessionSeen
<1>7. GrantOnce' /\ Counted'
  BY <1>1, <1>2, GrantsKept, SlotsKept
<1> QED
  BY <1>2, <1>3, <1>4, <1>6, <1>7 DEF QuietStep, TunnelInv

(* A grant is issued, expires or is collected; none of these makes a spent    *)
(* grant usable again.                                                        *)
LEMMA GrantQuiet ==
    ASSUME TunnelInv, NEW g \in Grant,
           \/ Expire(g) \/ GcGrants(g)
           \/ \E u \in TunnelUser, a \in Addr : rtsp_token(g, u, a) \/ guac_token(g, u, a)
    PROVE  QuietStep
<1>1. UNCHANGED <<gwLive, conn, proc, active, served>>
  BY DEF Expire, GcGrants, rtsp_token, guac_token, issue_stream, issue_tunnel, Issue
<1>2. PICK row \in GrantRow :
        /\ grant' = [grant EXCEPT ![g] = row]
        /\ grant[g].st \in {"none", "live", "expired"} \/ row.st = "deleted"
  <2>1. CASE Expire(g)
    <3> DEFINE row == [grant[g] EXCEPT !.st = "expired"]
    <3>1. row \in GrantRow /\ row.st = "expired"
      BY <2>1 DEF Expire, TunnelInv, TunnelTypeOK, GrantRow, NoGrant
    <3>2. grant' = [grant EXCEPT ![g] = row] /\ grant[g].st \in {"live"}
      BY <2>1 DEF Expire
    <3> HIDE DEF row
    <3> QED
      BY <3>1, <3>2
  <2>2. CASE GcGrants(g)
    <3> DEFINE row == [grant[g] EXCEPT !.st = "deleted"]
    <3>1. row \in GrantRow /\ row.st = "deleted"
      BY <2>2 DEF GcGrants, TunnelInv, TunnelTypeOK, GrantRow, NoGrant
    <3>2. grant' = [grant EXCEPT ![g] = row] /\ grant[g].st \in {"consumed", "expired"}
      BY <2>2 DEF GcGrants
    <3> HIDE DEF row
    <3> QED
      BY <3>1, <3>2
  <2>3. ASSUME NEW k \in Kind, NEW u \in TunnelUser, NEW a \in Addr, Issue(g, k, u, a)
        PROVE  \E row \in GrantRow :
                 /\ grant' = [grant EXCEPT ![g] = row]
                 /\ grant[g].st \in {"none", "live", "expired"} \/ row.st = "deleted"
    <3> DEFINE row == [st |-> "live", kind |-> k, user |-> u, addr |-> a]
    <3>1. row \in GrantRow
      BY DEF GrantRow
    <3>2. grant' = [grant EXCEPT ![g] = row] /\ grant[g].st = "none"
      BY <2>3 DEF Issue, NoGrant
    <3> HIDE DEF row
    <3> QED
      BY <3>1, <3>2
  <2> QED
    BY <2>1, <2>2, <2>3 DEF rtsp_token, guac_token, issue_stream, issue_tunnel, Kind
<1>3. /\ grant' \in [Grant -> GrantRow] /\ grant'[g] = row
      /\ \A x \in Grant \ {g} : grant'[x] = grant[x]
  BY <1>2 DEF TunnelInv, TunnelTypeOK
<1>4. GrantOnce'
  BY <1>1, <1>2, <1>3 DEF TunnelInv, GrantOnce
<1>5. TunnelTypeOK'
  BY <1>1, <1>3 DEF TunnelInv, TunnelTypeOK
<1>6. SessionSeen' /\ ChildOwned' /\ \A u \in TunnelUser : Held(u)' = Held(u)
  BY <1>1 DEF TunnelInv, SessionSeen, ChildOwned, Held
<1>7. Counted'
  BY <1>1, <1>6, SlotsKept
<1> QED
  BY <1>4, <1>5, <1>6, <1>7 DEF QuietStep, TunnelInv

-----------------------------------------------------------------------------
(* Held(u) is finite, as there are finitely many connects. *)
LEMMA HeldFinite == \A u \in TunnelUser : IsFiniteSet(Held(u)) /\ Cardinality(Held(u)) \in Nat
BY TunnelAssumption, FS_Subset, FS_CardinalityType DEF Held

(* A stream enters: one more slot of its user, which was free. *)
LEMMA EnterTakes ==
    ASSUME TunnelInv, NEW c \in Conn, Enter(c)
    PROVE  /\ TunnelInv'
           /\ \/ \A u \in TunnelUser : Held(u)' = Held(u)
              \/ \E u \in TunnelUser :
                   /\ \A x \in TunnelUser : c \notin Held(x)
                   /\ Cardinality(Held(u)) < MaxStreams
                   /\ Held(u)' = Held(u) \cup {c}
                   /\ \A x \in TunnelUser \ {u} : Held(x)' = Held(x)
<1>0. /\ conn[c].pc = "enter" /\ conn[c].pc \in Open \ Holding /\ conn[c].pc # "resolve"
      /\ {"refusing", "probe"} \subseteq Open /\ "probe" \in Holding
      /\ UNCHANGED <<gwLive, grant, proc, served>>
  BY DEF Enter, Open, InBridge, Holding
<1>1. conn[c].sawLive
  BY <1>0, PastCheck
<1> PICK u \in TunnelUser : u = conn[c].user
  BY <1>0, HandlerShape DEF TunnelInv
<1>2. CASE Full(u)
  <2>1. Moved(c, "refusing") /\ active' = active
    BY <1>0, <1>2, GotoMoves DEF TunnelInv, Enter
  <2> QED
    BY <1>0, <1>1, <2>1, OutsideQuiet DEF QuietStep
<1>3. CASE ~Full(u)
  <2>1. Moved(c, "probe") /\ active' = [active EXCEPT ![u] = @ + 1]
    BY <1>0, <1>3, GotoMoves DEF TunnelInv, Enter
  <2>2. /\ active \in [TunnelUser -> 0 .. MaxStreams] /\ active[u] < MaxStreams
        /\ active[u] = Cardinality(Held(u))
    BY <1>3, TunnelAssumption DEF Full, TunnelInv, TunnelTypeOK, Counted
  <2>3. \A x \in TunnelUser : c \notin Held(x)
    BY <1>0 DEF Held
  <2>4. /\ Held(u)' = Held(u) \cup {c}
        /\ \A x \in TunnelUser \ {u} : Held(x)' = Held(x)
    BY <1>0, <2>1 DEF Held, Moved
  <2>5. Cardinality(Held(u)') = Cardinality(Held(u)) + 1
    BY <2>3, <2>4, HeldFinite, FS_AddElement
  <2>6. Counted'
    BY <2>1, <2>2, <2>4, <2>5 DEF TunnelInv, Counted
  <2>7. TunnelTypeOK'
    BY <1>0, <2>1, <2>2, TunnelAssumption DEF TunnelInv, TunnelTypeOK, Moved
  <2>8. proc'[c] = "none"
    BY <1>0 DEF TunnelInv, ChildOwned, WithChild
  <2>9. SessionSeen' /\ ChildOwned'
    BY <1>0, <1>1, <2>1, <2>8, MoveKeeps
  <2>10. GrantOnce'
    BY <1>0, GrantsKept
  <2> QED
    BY <2>2, <2>3, <2>4, <2>6, <2>7, <2>9, <2>10 DEF TunnelInv
<1> QED
  BY <1>2, <1>3

(* A stream ends: exactly its own slot is free again. *)
LEMMA ReleaseGives ==
    ASSUME TunnelInv, NEW c \in Conn, Release(c)
    PROVE  /\ TunnelInv'
           /\ \E u \in TunnelUser :
                 /\ c \in Held(u) /\ Held(u)' = Held(u) \ {c}
                 /\ \A x \in TunnelUser \ {u} : Held(x)' = Held(x)
<1>0. /\ conn[c].pc = "release" /\ conn[c].pc \in Open /\ conn[c].pc \in Holding
      /\ UNCHANGED <<gwLive, grant, proc, served>>
  BY DEF Release, Open, InBridge, Holding
<1> PICK u \in TunnelUser : u = conn[c].user
  BY <1>0, HandlerShape DEF TunnelInv
<1>1. Moved(c, "closed") /\ active' = [active EXCEPT ![u] = @ - 1]
  BY CloseMoves DEF TunnelInv, Release
<1>2. /\ c \in Held(u) /\ Held(u)' = Held(u) \ {c}
      /\ \A x \in TunnelUser \ {u} : Held(x)' = Held(x)
  BY <1>0, <1>1 DEF Held, Moved, Holding
<1>3. Cardinality(Held(u)') = Cardinality(Held(u)) - 1
  BY <1>2, HeldFinite, FS_RemoveElement
<1>4. Cardinality(Held(u)) # 0
  BY <1>2, HeldFinite, FS_EmptySet
<1>5. /\ active \in [TunnelUser -> 0 .. MaxStreams] /\ active[u] = Cardinality(Held(u))
      /\ active[u] - 1 \in 0 .. MaxStreams
  BY <1>4, TunnelAssumption DEF TunnelInv, TunnelTypeOK, Counted
<1>6. Counted'
  BY <1>1, <1>2, <1>3, <1>5 DEF TunnelInv, Counted
<1>7. TunnelTypeOK'
  BY <1>0, <1>1, <1>5 DEF TunnelInv, TunnelTypeOK, Moved
<1>8. proc'[c] = "none"
  BY <1>0 DEF TunnelInv, ChildOwned, WithChild
<1>9. SessionSeen' /\ ChildOwned'
  BY <1>0, <1>1, <1>8, MoveKeeps
<1>10. GrantOnce'
  BY <1>0, GrantsKept
<1> QED
  BY <1>2, <1>6, <1>7, <1>9, <1>10 DEF TunnelInv

-----------------------------------------------------------------------------
(* No connect, no stream, no grant. *)
LEMMA InitHolds == TunnelInit => TunnelInv
<1> SUFFICES ASSUME TunnelInit PROVE TunnelInv
  OBVIOUS
<1>1. TunnelTypeOK
  BY TunnelAssumption DEF TunnelInit, TunnelTypeOK, GrantRow, Handler
<1>2. \A u \in TunnelUser : Held(u) = {}
  BY DEF TunnelInit, Held, Holding, Idle
<1>3. Counted
  BY <1>2, FS_EmptySet DEF TunnelInit, Counted
<1>4. ChildOwned /\ SessionSeen
  BY DEF TunnelInit, ChildOwned, SessionSeen, Open, InBridge, Holding, Idle
<1>5. GrantOnce
  BY DEF TunnelInit, GrantOnce
<1> QED
  BY <1>1, <1>3, <1>4, <1>5 DEF TunnelInv

(* What every step does to the slots: nothing, one taken, or one given back. *)
SlotStep ==
    \/ \A u \in TunnelUser : Held(u)' = Held(u)
    \/ \E c \in Conn, u \in TunnelUser :
         /\ \/ /\ \A x \in TunnelUser : c \notin Held(x)
               /\ Cardinality(Held(u)) < MaxStreams
               /\ Held(u)' = Held(u) \cup {c}
            \/ c \in Held(u) /\ Held(u)' = Held(u) \ {c}
         /\ \A x \in TunnelUser \ {u} : Held(x)' = Held(x)

(* Every step keeps the invariant and is, for the pool, a step or a stutter. *)
LEMMA StepHolds ==
    ASSUME TunnelInv, [TunnelNext]_tunnelVars
    PROVE  TunnelInv' /\ SlotStep
<1>1. CASE UNCHANGED tunnelVars
  BY <1>1 DEF tunnelVars, TunnelInv, TunnelTypeOK, ChildOwned, Counted, SessionSeen, GrantOnce,
              Held, SlotStep
<1>2. CASE \E u \in TunnelUser : EndSession(u)
  BY <1>2, WorldQuiet DEF QuietStep, SlotStep
<1>3. CASE \E g \in Grant : Expire(g) \/ GcGrants(g)
  BY <1>3, GrantQuiet DEF QuietStep, SlotStep
<1>4. CASE \E g \in Grant, u \in TunnelUser, a \in Addr : rtsp_token(g, u, a) \/ guac_token(g, u, a)
  BY <1>4, GrantQuiet DEF QuietStep, SlotStep
<1>5. CASE \E c \in Conn, g \in Grant, u \in TunnelUser, a \in Addr : Connect(c, g, u, a)
  BY <1>5, ConnectQuiet DEF QuietStep, SlotStep
<1>6. ASSUME NEW c \in Conn, rtsp_consume(c) \/ guac_consume(c) \/ Consume(c)
      PROVE  TunnelInv' /\ SlotStep
  BY <1>6, ResolveQuiet, ConsumeQuiet DEF rtsp_consume, guac_consume, QuietStep, SlotStep
<1>7. ASSUME NEW c \in Conn, Accept(c) \/ Refuse(c) \/ TunnelEnds(c)
      PROVE  TunnelInv' /\ SlotStep
  BY <1>7, EdgeQuiet DEF QuietStep, SlotStep
<1>8. ASSUME NEW c \in Conn, Enter(c)
      PROVE  TunnelInv' /\ SlotStep
  BY <1>8, EnterTakes DEF SlotStep
<1>9. ASSUME NEW c \in Conn, Release(c)
      PROVE  TunnelInv' /\ SlotStep
  BY <1>9, ReleaseGives DEF SlotStep
<1>10. ASSUME NEW c \in Conn, RunStream(c)
       PROVE  TunnelInv' /\ SlotStep
  BY <1>10, StreamQuiet DEF QuietStep, SlotStep
<1>11. ASSUME NEW c \in Conn, ClientLeaves(c) \/ DeadlinePasses(c)
       PROVE  TunnelInv' /\ SlotStep
  BY <1>11, FlagQuiet DEF QuietStep, SlotStep
<1>12. ASSUME NEW c \in Conn, FfmpegExits(c)
       PROVE  TunnelInv' /\ SlotStep
  BY <1>12, WorldQuiet DEF QuietStep, SlotStep
<1> QED
  BY <1>1, <1>2, <1>3, <1>4, <1>5, <1>6, <1>7, <1>8, <1>9, <1>10, <1>11, <1>12
     DEF TunnelNext, ServerStep

(* The invariant: types, children only where they will be reaped, the counter *)
(* equal to the slots held, sessions checked, grants used once.               *)
THEOREM TunnelInvariant == TunnelSpec => []TunnelInv
BY InitHolds, StepHolds, PTL DEF TunnelSpec

(* A token opens one connection, however many connects race for it, answers   *)
(* are lost and rows are collected (consume_grant, serveGrantedWS, gc).       *)
THEOREM GrantOnceAlways == TunnelSpec => []GrantOnce
BY TunnelInvariant, PTL DEF TunnelInv

(* A connect that begins after the session ended is never let through         *)
(* (rtsp_consume, guac_consume).                                              *)
THEOREM RevokedStaysShut == TunnelSpec => []RevokedNotReopened
<1>1. TunnelInv => RevokedNotReopened
  BY DEF TunnelInv, SessionSeen, RevokedNotReopened, Open, InBridge, Holding
<1> QED
  BY <1>1, TunnelInvariant, PTL

(* No user has more ffprobe and ffmpeg children than slots, on any way a      *)
(* stream can end (_serve_stream, _run_stream).                               *)
THEOREM ChildrenAlwaysBounded == TunnelSpec => []ChildrenBounded
<1>1. ASSUME TunnelInv PROVE ChildrenBounded
  <2>1. \A u \in TunnelUser : active[u] = Cardinality(Held(u)) /\ active[u] <= MaxStreams
    BY <1>1, TunnelAssumption DEF TunnelInv, TunnelTypeOK, Counted
  <2>2. ASSUME NEW c \in Conn, proc[c] # "none"
        PROVE  \E u \in TunnelUser : c \in Held(u)
    <3>1. conn[c].pc \in Open /\ conn[c].pc \in Holding
      BY <1>1, <2>2 DEF TunnelInv, ChildOwned, WithChild, Open, InBridge, Holding
    <3>2. conn[c].user \in TunnelUser
      BY <1>1, <3>1, HandlerShape DEF TunnelInv
    <3> QED
      BY <3>1, <3>2 DEF Held
  <2> QED
    BY <2>1, <2>2 DEF ChildrenBounded
<1> QED
  BY <1>1, TunnelInvariant, PTL

(* The bridge's counter implements the pool of slots: under the mapping of    *)
(* held to the streams past Enter and before Release, every step takes a free *)
(* slot, gives back the stream's own, or changes none.                        *)
THEOREM BridgeImplementsPool == TunnelSpec => ImplementsSlotPool
<1>1. TunnelInit => Pool!PoolInit
  BY DEF TunnelInit, Pool!PoolInit, Held, Holding, Idle
<1>2. ASSUME SlotStep
      PROVE  [Pool!PoolNext]_[u \in TunnelUser |-> Held(u)]
  <2> DEFINE pool == [u \in TunnelUser |-> Held(u)]
  <2>1. CASE \A u \in TunnelUser : Held(u)' = Held(u)
    BY <2>1
  <2>2. ASSUME NEW c \in Conn, NEW u \in TunnelUser,
               \A x \in TunnelUser : c \notin Held(x),
               Cardinality(Held(u)) < MaxStreams, Held(u)' = Held(u) \cup {c},
               \A x \in TunnelUser \ {u} : Held(x)' = Held(x)
        PROVE  Pool!Take(c, u)
    <3>1. pool' = [pool EXCEPT ![u] = @ \cup {c}]
      BY <2>2
    <3>2. \A x \in TunnelUser : c \notin pool[x]
      BY <2>2
    <3>3. pool[u] = Held(u)
      OBVIOUS
    <3>4. Pool!Cardinality(pool[u]) = Cardinality(pool[u])    \* one operator, instantiated
      BY Zenon DEF Pool!Cardinality, Cardinality, Pool!IsFiniteSet, IsFiniteSet
    <3>5. Pool!Cardinality(pool[u]) < MaxStreams
      BY <2>2, <3>3, <3>4
    <3> QED
      BY <3>1, <3>2, <3>5, Zenon DEF Pool!Take
  <2>3. ASSUME NEW c \in Conn, NEW u \in TunnelUser,
               c \in Held(u), Held(u)' = Held(u) \ {c},
               \A x \in TunnelUser \ {u} : Held(x)' = Held(x)
        PROVE  Pool!GiveBack(c, u)
    BY <2>3 DEF Pool!GiveBack
  <2> QED
    BY <1>2, <2>1, <2>2, <2>3 DEF SlotStep, Pool!PoolNext
<1>3. TunnelInv /\ [TunnelNext]_tunnelVars => [Pool!PoolNext]_[u \in TunnelUser |-> Held(u)]
  BY <1>2, StepHolds
<1> QED
  BY <1>1, <1>3, TunnelInvariant, PTL DEF TunnelSpec, ImplementsSlotPool, Pool!PoolSpec
=============================================================================
