------------------------------- MODULE Tunnels -------------------------------
(***************************************************************************)
(* The tunnelled resources, end to end.  A browser asks the control plane   *)
(* for a token (authz/rtsp.py, authz/guac.py and the two brokers), which    *)
(* leaves a single-use grant row.  It then opens a WebSocket at the data    *)
(* plane, which consumes the grant over HTTP before it proxies the socket   *)
(* (serveGrantedWS): an "rtsp" socket to the bridge process (rtsp/app.py),  *)
(* a "guac" socket to the Node tunnel.                                      *)
(*                                                                          *)
(* The bridge is one asyncio process: a step runs from one await to the     *)
(* next.  Time is abstracted: a timed wait may always time out, and a       *)
(* stream's wall-clock cap is an event of its own (DeadlinePasses).         *)
(***************************************************************************)
EXTENDS Naturals, FiniteSets

CONSTANTS
    Conn,          \* WebSocket connects
    Grant,         \* tokens the brokers can mint, with their grant rows
    TunnelUser,    \* users
    Addr,          \* client addresses
    Home,          \* Home[u]: the address u's gateway session was opened from
    MaxStreams     \* settings.rtsp_max_streams_per_user

ASSUME TunnelAssumption ==
    /\ MaxStreams \in Nat \ {0} /\ IsFiniteSet(Conn)
    /\ Home \in [TunnelUser -> Addr]

VARIABLES
    gwLive,   \* gwLive[u]: u's gateway session resolves (it and its IdP session are live)
    grant,    \* the RtspGrant / GuacGrant rows
    conn,     \* conn[c]: the connect's handler, in the data plane and then in the bridge
    proc,     \* proc[c]: the child process c's handler has running
    active,   \* _active: streams per user, in the bridge's memory
    served    \* served[g]: connects let through on grant g (history)

tunnelVars == <<gwLive, grant, conn, proc, active, served>>

Kind == {"rtsp", "guac"}

NoGrant == [st |-> "none"]

GrantRow ==
    {NoGrant} \cup
    [st : {"live", "consumed", "expired", "deleted"}, kind : Kind, user : TunnelUser, addr : Addr]

\* The bridge's program points at which a handler holds one of its user's slots.
Holding ==
    {"probe", "probing", "probeFailed", "spawn", "loop", "reading", "sendReady",
     "sending", "classify", "failing", "cleanup", "release"}

InBridge == {"accept", "enter", "refusing"} \cup Holding

Idle == [pc |-> "idle"]
Closed == [pc |-> "closed"]

Handler ==
    {Idle, Closed} \cup
    [pc : {"resolve", "consume", "tunnel"} \cup InBridge, g : Grant, user : TunnelUser,
     addr : Addr, sawLive : BOOLEAN, gone : BOOLEAN, ready : BOOLEAN, late : BOOLEAN]

TunnelInit ==
    /\ gwLive = [u \in TunnelUser |-> TRUE]
    /\ grant = [g \in Grant |-> NoGrant]
    /\ conn = [c \in Conn |-> Idle]
    /\ proc = [c \in Conn |-> "none"]
    /\ active = [u \in TunnelUser |-> 0]
    /\ served = [g \in Grant |-> 0]

-----------------------------------------------------------------------------
(* Control plane: sessions and grants *)

\* resolve_gateway_session as the two endpoints call it: the guac endpoints
\* enforce the session's own address, the rtsp ones pass enforce_ip=False.
SessionOpens(u, a, k) == gwLive[u] /\ (k = "guac" => a = Home[u])

\* The session behind the gateway cookie ends: logout, revocation or expiry.
EndSession(u) ==
    /\ gwLive[u]
    /\ gwLive' = [gwLive EXCEPT ![u] = FALSE]
    /\ UNCHANGED <<grant, conn, proc, active, served>>

\* The brokers, when the resource is known and the policy allows; a refusal is only
\* an audit row.
Issue(g, k, u, a) ==
    /\ grant[g] = NoGrant
    /\ grant' = [grant EXCEPT ![g] = [st |-> "live", kind |-> k, user |-> u, addr |-> a]]
    /\ UNCHANGED <<gwLive, conn, proc, active, served>>
issue_stream(g, u, a) == Issue(g, "rtsp", u, a)
issue_tunnel(g, u, a) == Issue(g, "guac", u, a)

rtsp_token(g, u, a) == SessionOpens(u, a, "rtsp") /\ issue_stream(g, u, a)
guac_token(g, u, a) == SessionOpens(u, a, "guac") /\ issue_tunnel(g, u, a)

Expire(g) ==
    /\ grant[g].st = "live"
    /\ grant' = [grant EXCEPT ![g].st = "expired"]
    /\ UNCHANGED <<gwLive, conn, proc, active, served>>

\* The gc command drops spent and expired guac grants (rtsp grants stay).
GcGrants(g) ==
    /\ grant[g].st \in {"consumed", "expired"} /\ grant[g].kind = "guac"
    /\ grant' = [grant EXCEPT ![g].st = "deleted"]
    /\ UNCHANGED <<gwLive, conn, proc, active, served>>

\* The WHERE clause of consume_grant's single UPDATE.
Consumable_spent(g, u, a) ==
    grant[g].st \in {"live", "consumed"} /\ grant[g].addr = a /\ grant[g].user = u
Consumable(g, u, a) ==
    grant[g].st = "live" /\ grant[g].addr = a /\ grant[g].user = u

-----------------------------------------------------------------------------
(* Data plane: serveGrantedWS *)

Goto(c, pc) == conn' = [conn EXCEPT ![c].pc = pc]
Close(c) == conn' = [conn EXCEPT ![c] = Closed]

\* A browser at address a, with u's cookie, connects with token g.  (At the path of
\* the other kind the token has no row, and the connect is refused.)
Connect(c, g, u, a) ==
    /\ conn[c] = Idle
    /\ grant[g] # NoGrant
    /\ conn' = [conn EXCEPT ![c] =
                  [pc |-> "resolve", g |-> g, user |-> u, addr |-> a,
                   sawLive |-> gwLive[u], gone |-> FALSE, ready |-> FALSE, late |-> FALSE]]
    /\ UNCHANGED <<gwLive, grant, proc, active, served>>

\* The two consume endpoints, up to the grant: a dead session is refused.
Resolve_always(c) ==
    /\ conn[c].pc = "resolve"
    /\ Goto(c, "consume")
    /\ UNCHANGED <<gwLive, grant, proc, active, served>>
Resolve(c) ==
    /\ conn[c].pc = "resolve"
    /\ IF SessionOpens(conn[c].user, conn[c].addr, grant[conn[c].g].kind)
         THEN Goto(c, "consume")
         ELSE Close(c)
    /\ UNCHANGED <<gwLive, grant, proc, active, served>>

rtsp_consume(c) == conn[c].pc = "resolve" /\ grant[conn[c].g].kind = "rtsp" /\ Resolve(c)
guac_consume(c) == conn[c].pc = "resolve" /\ grant[conn[c].g].kind = "guac" /\ Resolve(c)

\* consume_grant and the answer.  The data plane fails closed: an answer that is
\* lost closes the socket, and the grant stays consumed.
Consume(c) ==
    /\ conn[c].pc = "consume"
    /\ LET g == conn[c].g IN
         IF Consumable(g, conn[c].user, conn[c].addr)
           THEN /\ grant' = [grant EXCEPT ![g].st = "consumed"]
                /\ \/ /\ Goto(c, IF grant[g].kind = "rtsp" THEN "accept" ELSE "tunnel")
                      /\ served' = [served EXCEPT ![g] = @ + 1]
                   \/ Close(c) /\ UNCHANGED served
           ELSE Close(c) /\ UNCHANGED <<grant, served>>
    /\ UNCHANGED <<gwLive, proc, active>>

\* A guac tunnel ends when its browser or guacd hangs up, and not before.
TunnelEnds(c) ==
    /\ conn[c].pc = "tunnel"
    /\ Close(c)
    /\ UNCHANGED <<gwLive, grant, proc, active, served>>

\* The browser goes away.  The bridge looks at the socket only where it reads or
\* announces the stream, so leaving earlier is the same as leaving there.
ClientLeaves(c) ==
    /\ conn[c].pc \in {"reading", "sendReady"} /\ ~conn[c].gone
    /\ conn' = [conn EXCEPT ![c].gone = TRUE]
    /\ UNCHANGED <<gwLive, grant, proc, active, served>>

-----------------------------------------------------------------------------
(* The bridge: _serve_stream *)

\* _active_lock.  It is free at every await but one: the refusal of a viewer
\* over the limit is sent while the lock is held.
LockFree_nested == \A d \in Conn : conn[d].pc \notin {"enter", "refusing"}
LockFree == \A d \in Conn : conn[d].pc # "refusing"

\* The socket is accepted and the token decrypted; a disabled bridge or a token
\* it cannot decrypt (minted under another key) ends here.
Accept(c) ==
    /\ conn[c].pc = "accept"
    /\ Goto(c, "enter") \/ Close(c)
    /\ UNCHANGED <<gwLive, grant, proc, active, served>>

\* The limit's test.
Full_off(u) == active[u] > MaxStreams
Full(u) == active[u] >= MaxStreams

Enter(c) ==
    /\ conn[c].pc = "enter" /\ LockFree
    /\ LET u == conn[c].user IN
         IF Full(u)
           THEN Goto(c, "refusing") /\ UNCHANGED active
           ELSE Goto(c, "probe") /\ active' = [active EXCEPT ![u] = @ + 1]
    /\ UNCHANGED <<gwLive, grant, proc, served>>

\* _fail(ws, "too_many_streams") has been sent; the lock is let go.
Refuse(c) ==
    /\ conn[c].pc = "refusing"
    /\ Close(c)
    /\ UNCHANGED <<gwLive, grant, proc, active, served>>

\* The finally of _serve_stream, under the lock.
Release(c) ==
    /\ conn[c].pc = "release" /\ LockFree
    /\ Close(c)
    /\ active' = [active EXCEPT ![conn[c].user] = @ - 1]
    /\ UNCHANGED <<gwLive, grant, proc, served>>

-----------------------------------------------------------------------------
(* The bridge: _probe and _run_stream *)

\* ffprobe is started, or cannot be (the exception goes to _serve_stream).
StartProbe(c) ==
    /\ conn[c].pc = "probe"
    /\ \/ Goto(c, "probing") /\ proc' = [proc EXCEPT ![c] = "ffprobe"]
       \/ Goto(c, "release") /\ UNCHANGED proc
    /\ UNCHANGED <<gwLive, grant, active, served>>

\* It answered, failed, or was terminated on the time-out: it is gone either way.
ProbeEnds(c) ==
    /\ conn[c].pc = "probing"
    /\ proc' = [proc EXCEPT ![c] = "none"]
    /\ Goto(c, "spawn") \/ Goto(c, "probeFailed")
    /\ UNCHANGED <<gwLive, grant, active, served>>

ReportProbe(c) ==
    /\ conn[c].pc = "probeFailed"
    /\ Goto(c, "release")
    /\ UNCHANGED <<gwLive, grant, proc, active, served>>

\* ffmpeg is started with its watcher, or cannot be.
Spawn(c) ==
    /\ conn[c].pc = "spawn"
    /\ \/ Goto(c, "loop") /\ proc' = [proc EXCEPT ![c] = "ffmpeg"]
       \/ Goto(c, "release") /\ UNCHANGED proc
    /\ UNCHANGED <<gwLive, grant, active, served>>

\* The camera or ffmpeg gives up by itself.
FfmpegExits(c) ==
    /\ proc[c] = "ffmpeg"
    /\ proc' = [proc EXCEPT ![c] = "none"]
    /\ UNCHANGED <<gwLive, grant, conn, active, served>>

DeadlinePasses(c) ==
    /\ conn[c].pc \in {"loop", "reading", "sendReady", "sending"} /\ ~conn[c].late
    /\ conn' = [conn EXCEPT ![c].late = TRUE]
    /\ UNCHANGED <<gwLive, grant, proc, active, served>>

\* Leaving the loop, whose variables nobody reads again.
Leave(c, pc) ==
    conn' = [conn EXCEPT ![c].pc = pc, ![c].gone = FALSE, ![c].ready = FALSE, ![c].late = FALSE]

\* A stream that never became ready is classified first.
Break(c) == Leave(c, IF conn[c].ready THEN "cleanup" ELSE "classify")

\* The head of the loop: no budget left, or a new read that races the watcher.
Loop(c) ==
    /\ conn[c].pc = "loop"
    /\ IF conn[c].late THEN Break(c) ELSE Goto(c, "reading")
    /\ UNCHANGED <<gwLive, grant, proc, active, served>>

\* The first of: the browser left, the budget ran out, end of file, a fragment.
Read(c) ==
    /\ conn[c].pc = "reading"
    /\ \/ conn[c].gone /\ Break(c)
       \/ Leave(c, IF conn[c].ready THEN "cleanup" ELSE "failing")
       \/ proc[c] = "none" /\ Break(c)
       \/ proc[c] = "ffmpeg" /\ Goto(c, IF conn[c].ready THEN "sending" ELSE "sendReady")
    /\ UNCHANGED <<gwLive, grant, proc, active, served>>

\* The ready message; on a closed socket it raises, past the loop.
SendReady(c) ==
    /\ conn[c].pc = "sendReady"
    /\ \/ conn' = [conn EXCEPT ![c].pc = "sending", ![c].ready = TRUE]
       \/ conn[c].gone /\ Leave(c, "cleanup")
    /\ UNCHANGED <<gwLive, grant, proc, active, served>>

\* The fragment went out, or the send timed out or found the socket closed.
SendBytes(c) ==
    /\ conn[c].pc = "sending"
    /\ Goto(c, "loop") \/ Leave(c, "cleanup")
    /\ UNCHANGED <<gwLive, grant, proc, active, served>>

\* ffmpeg's stderr is awaited (two seconds at most) to name the failure.
Classify(c) ==
    /\ conn[c].pc = "classify"
    /\ Goto(c, "failing")
    /\ UNCHANGED <<gwLive, grant, proc, active, served>>

ReportFailure(c) ==
    /\ conn[c].pc = "failing"
    /\ Goto(c, "cleanup")
    /\ UNCHANGED <<gwLive, grant, proc, active, served>>

\* The finally of _run_stream: tasks cancelled, ffmpeg terminated and reaped.
Cleanup_detached(c) ==
    /\ conn[c].pc = "cleanup"
    /\ Goto(c, "release")
    /\ UNCHANGED <<gwLive, grant, proc, active, served>>
Cleanup(c) ==
    /\ conn[c].pc = "cleanup"
    /\ proc' = [proc EXCEPT ![c] = "none"]
    /\ Goto(c, "release")
    /\ UNCHANGED <<gwLive, grant, active, served>>

-----------------------------------------------------------------------------
RunStream(c) ==
    \/ StartProbe(c) \/ ProbeEnds(c) \/ ReportProbe(c) \/ Spawn(c) \/ Loop(c) \/ Read(c)
    \/ SendReady(c) \/ SendBytes(c) \/ Classify(c) \/ ReportFailure(c) \/ Cleanup(c)

\* What the data plane, the control plane and the bridge do for a connect.
ServerStep(c) ==
    \/ rtsp_consume(c) \/ guac_consume(c) \/ Consume(c) \/ Accept(c) \/ Enter(c) \/ Refuse(c)
    \/ RunStream(c) \/ Release(c)

TunnelNext ==
    \/ \E u \in TunnelUser : EndSession(u)
    \/ \E g \in Grant : Expire(g) \/ GcGrants(g)
    \/ \E g \in Grant, u \in TunnelUser, a \in Addr : rtsp_token(g, u, a) \/ guac_token(g, u, a)
    \/ \E c \in Conn, g \in Grant, u \in TunnelUser, a \in Addr : Connect(c, g, u, a)
    \/ \E c \in Conn :
         ServerStep(c) \/ TunnelEnds(c) \/ ClientLeaves(c) \/ FfmpegExits(c) \/ DeadlinePasses(c)

TunnelSpec == TunnelInit /\ [][TunnelNext]_tunnelVars

\* Every await of the handler ends (each is timed, or waits for a process that
\* is being killed, or is bounded by the WebSocket library's own time-outs), so
\* its next step is taken; and time passes.
TunnelFairness ==
    \A c \in Conn : WF_tunnelVars(ServerStep(c)) /\ WF_tunnelVars(DeadlinePasses(c))

TunnelFairSpec == TunnelSpec /\ TunnelFairness

-----------------------------------------------------------------------------
(* Properties *)

TunnelTypeOK ==
    /\ gwLive \in [TunnelUser -> BOOLEAN]
    /\ grant \in [Grant -> GrantRow]
    /\ conn \in [Conn -> Handler]
    /\ proc \in [Conn -> {"none", "ffprobe", "ffmpeg"}]
    /\ active \in [TunnelUser -> 0 .. MaxStreams]
    /\ served \in [Grant -> Nat]

\* The connections that hold one of u's slots.
Held(u) == {c \in Conn : conn[c].pc \in Holding /\ conn[c].user = u}

Pool == INSTANCE SlotPool
          WITH Holder <- Conn, Member <- TunnelUser, Limit <- MaxStreams,
               held <- [u \in TunnelUser |-> Held(u)]

\* The counter `_active` behaves as a pool of slots: a stream starts only while
\* one of its user's slots is free, and every way a stream can end gives back
\* exactly the slot it took (rtsp/app.py _serve_stream).
ImplementsSlotPool == Pool!PoolSpec

\* The limit is on processes, not on handlers: `_active` counts exactly the
\* streams that hold a slot, and an ffprobe or ffmpeg child only ever runs under
\* one, because a slot is given back only after the child has been reaped.  So a
\* user never has more children than slots, on any way a stream can end.
ChildrenBounded ==
    /\ \A u \in TunnelUser : active[u] = Cardinality(Held(u)) /\ active[u] <= MaxStreams
    /\ \A c \in Conn : proc[c] # "none" => \E u \in TunnelUser : c \in Held(u)

\* A token opens one connection, however many browsers present it at once, and
\* never again after the gc command has deleted its row.
GrantOnce ==
    \A g \in Grant :
        /\ served[g] <= 1
        /\ served[g] = 1 => grant[g].st \in {"consumed", "deleted"}

\* "revoking the IdP session stops the stream from being reopened": a connect
\* that begins after the session ended is never let through.
RevokedNotReopened ==
    \A c \in Conn : conn[c].pc \in InBridge \cup {"tunnel"} => conn[c].sawLive

\* Every stream ends and its socket is closed: a browser that left, a camera
\* that stalls, a viewer that stops reading and a limit that is reached all lead
\* to the end of the handler, and so to the slot's return.
EveryStreamEnds ==
    \A c \in Conn :
        conn[c].pc \notin {"idle", "tunnel"} ~> conn[c].pc \in {"closed", "tunnel"}
=============================================================================
