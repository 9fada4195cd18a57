----------------------------- MODULE EdgeAuthz -----------------------------
(***************************************************************************)
(* The data plane's request path (dataplane/internal/proxy/server.go): the *)
(* route snapshot and its poller, the host-scope cache of allow decisions  *)
(* (authzcache.go), and the control plane's POST /authz/check (server/src/ *)
(* hyproxy/authz/check.py) that each uncached request asks.                *)
(*                                                                         *)
(* Requests, the poller, the control plane and the administrators who      *)
(* change its tables run concurrently.  A request keeps the snapshot and   *)
(* the clock reading it took; the cache is one map under a mutex; the      *)
(* snapshot is stored first and the cache purged after it.  The policy     *)
(* engine's verdict on a user and a resource is one of three: denied,      *)
(* allowed on some paths (or at some times), or allowed on the whole host, *)
(* the only one that is host-stable.                                       *)
(*                                                                         *)
(* A definition Op_variant that precedes Op is Op with a plausible slip:   *)
(* PROJECT.json names the property that must catch it.                     *)
(***************************************************************************)
EXTENDS Integers, FiniteSets

CONSTANTS
    Host,        \* public host names
    Resource,    \* rows of table resources (each has its backend)
    Public,      \* the resources with public_access set
    Port,        \* Port[r]: ports[0] of resource r
    Cookie,      \* gateway session cookies
    Static,      \* Static[h]: the infra routes of the config file
    Lan,         \* the client addresses inside lan_cidrs
    Req,         \* request slots
    None,        \* no host, no cookie, no route
    StartHost,   \* StartHost[r]: resource r's public_host when the run starts
    StartRule,   \* StartRule[c][r]: the verdict on c and r when the run starts
    TTL,         \* settings.authz_cache_ttl
    Cap,         \* authzCacheTTLCap
    MaxEntries,  \* authzCacheMaxEntries
    MaxTime,     \* bound on the clock
    MaxChanges   \* bound on the administrators' changes

Address == {"home", "away"}   \* the session's own source address, another one
Path == {"in", "out", "gate", "tunnel"}
    \* inside or outside a rule's allowed_paths; /__hyproxy/...; /guac/tunnel, /rtsp/stream
Verdict == {"none", "path", "host"}

Route == [backend : Resource \cup {"infra"}, port : Nat, auth : BOOLEAN,
          lan : BOOLEAN, gate : BOOLEAN, tunnel : BOOLEAN]

ASSUME NoneAssumption == None \notin Host \cup Resource \cup Cookie \cup Route

ASSUME EdgeAssumption ==
    /\ Public \subseteq Resource /\ Port \in [Resource -> Nat]
    /\ DOMAIN Static \subseteq Host /\ Static \in [DOMAIN Static -> Route]
    /\ Lan \subseteq Address
    /\ StartHost \in [Resource -> Host \cup {None}]
    /\ StartRule \in [Cookie -> [Resource -> Verdict]]
    /\ TTL \in Nat /\ Cap \in Nat /\ MaxEntries \in Nat \ {0}
    /\ MaxTime \in Nat /\ MaxChanges \in Nat

VARIABLES
    now,       \* clock (both planes)
    pubHost,   \* public_host of each enabled resource, None when it has none
    live,      \* cookies of live gateway sessions with a live IdP session behind
    rule,      \* rule[c][r]: the policy verdict on c's user and resource r
    changes,   \* how many changes administrators made
    table,     \* Server.routes: the installed snapshot
    lastDB,    \* Server.lastDBRoutes
    poll,      \* pollRoutes: state and the routes it fetched
    cache,     \* authzCache.entries
    req,       \* the requests in flight
    gen,       \* history: how many snapshots were installed
    lostLive,  \* history: when each session ended
    lostRule,  \* history: when each rule last ceased to permit a path
    lostHost   \* history: when each resource last lost a host

lost == <<lostLive, lostRule, lostHost>>
control == <<pubHost, live, rule, changes, lost>>
edge == <<table, lastDB, poll, gen>>
vars == <<now, control, edge, cache, req>>

-----------------------------------------------------------------------------
(* Routes.                                                                 *)

\* GET /authz/routes: one route per enabled resource with a public_host.
Routes ==
    [h \in Host |->
        IF \E r \in Resource : pubHost[r] = h
        THEN LET r == CHOOSE r \in Resource : pubHost[r] = h
             IN  [backend |-> r, port |-> Port[r], auth |-> TRUE, lan |-> FALSE,
                  gate |-> r \in Public, tunnel |-> FALSE]
        ELSE None]

\* buildRouteSet: the infra routes win over the fetched ones.
buildRouteSet(db) == [h \in Host |-> IF h \in DOMAIN Static THEN Static[h] ELSE db[h]]

NoRoutes == [h \in Host |-> None]
NoPoll == [st |-> "idle", routes |-> NoRoutes]

-----------------------------------------------------------------------------
(* The decision cache.                                                     *)

Key == [host : Host, port : Nat, ip : Address, cookie : Cookie]
NoEntry == [exp |-> 0, res |-> None, gen |-> 0]

authzCacheKey_noAddress(h, route, ip, c) ==
    [host |-> h, port |-> route.port, ip |-> "home", cookie |-> c]
authzCacheKey(h, route, ip, c) ==
    [host |-> h, port |-> route.port, ip |-> ip, cookie |-> c]

Entries == DOMAIN cache

\* authzCache.get: an entry past its expiry is deleted.
Hit(k, at) == k \in Entries /\ at <= cache[k].exp
get(k, at) ==
    IF k \in Entries /\ at > cache[k].exp
    THEN [x \in Entries \ {k} |-> cache[x]] ELSE cache

Lifetime(ttl) == IF ttl > Cap THEN Cap ELSE ttl

\* What put keeps of a full map: the unexpired entries, or nothing when that
\* leaves it full.
Kept_unexpired(at) ==
    IF Cardinality(Entries) < MaxEntries THEN Entries
    ELSE {k \in Entries : at <= cache[k].exp}
Kept(at) ==
    LET fresh == {k \in Entries : at <= cache[k].exp}
    IN  IF Cardinality(Entries) < MaxEntries THEN Entries
        ELSE IF Cardinality(fresh) < MaxEntries THEN fresh ELSE {}

\* authzCache.put with the clock reading taken before the check was asked.
Stamp_late(at) == now
Stamp(at) == at
Expiry_back(at) == at - Lifetime(TTL)
Expiry(at) == at + Lifetime(TTL)
put(k, at, res, g) ==
    [x \in Kept(Stamp(at)) \cup {k} |->
        IF x = k THEN [exp |-> Expiry(Stamp(at)), res |-> res, gen |-> g]
        ELSE cache[x]]

-----------------------------------------------------------------------------
Idle == [st |-> "free", host |-> None, route |-> None, cookie |-> None,
         ip |-> "home", path |-> "in", at |-> 0, res |-> None, stable |-> FALSE,
         gen |-> 0]

Never == 0 - Cap - TTL - 1

Init ==
    /\ now = 0
    /\ pubHost = StartHost
    /\ live = Cookie
    /\ rule = StartRule
    /\ changes = 0
    /\ table = buildRouteSet(NoRoutes)
    /\ lastDB = None
    /\ poll = NoPoll
    /\ cache = [k \in {} |-> NoEntry]
    /\ req = [p \in Req |-> Idle]
    /\ gen = 0
    /\ lostLive = [c \in Cookie |-> Never]
    /\ lostRule = [c \in Cookie |-> [r \in Resource |-> [x \in Path |-> Never]]]
    /\ lostHost = [r \in Resource |-> [h \in Host |-> Never]]

Tick ==
    /\ now < MaxTime
    /\ now' = now + 1
    /\ UNCHANGED <<control, edge, cache, req>>

-----------------------------------------------------------------------------
(* Changes in the control plane.                                           *)

Permits(v, path) == v = "host" \/ (v = "path" /\ path = "in")

Change == changes < MaxChanges /\ changes' = changes + 1
          /\ UNCHANGED <<now, edge, cache, req>>

\* The gateway session or the IdP session behind it is revoked, goes stale or
\* expires: no later request finds it live.
EndSession(c) ==
    /\ Change /\ c \in live
    /\ live' = live \ {c}
    /\ lostLive' = [lostLive EXCEPT ![c] = now]
    /\ UNCHANGED <<pubHost, rule, lostRule, lostHost>>

\* Policies, roles or the user's status change the verdict on c and r.
SetRule(c, r, v) ==
    /\ Change /\ v # rule[c][r]
    /\ rule' = [rule EXCEPT ![c][r] = v]
    /\ lostRule' = [lostRule EXCEPT ![c][r] =
                       [x \in Path |-> IF Permits(rule[c][r], x) /\ ~Permits(v, x)
                                       THEN now ELSE lostRule[c][r][x]]]
    /\ UNCHANGED <<pubHost, live, lostLive, lostHost>>

\* create_resource, patch_resource, delete_resource: _validate_public_host
\* keeps public hosts distinct.
MoveHost(r, h) ==
    /\ Change /\ h # pubHost[r]
    /\ h = None \/ \A v \in Resource : pubHost[v] # h
    /\ pubHost' = [pubHost EXCEPT ![r] = h]
    /\ lostHost' = [lostHost EXCEPT ![r] =
                       [x \in Host |-> IF x = pubHost[r] THEN now ELSE lostHost[r][x]]]
    /\ UNCHANGED <<live, rule, lostLive, lostRule>>

-----------------------------------------------------------------------------
(* The route poller (cmd/dataplane/main.go, Server.SwapRoutes).            *)

\* client.Routes; a failed fetch keeps the last-good table and changes nothing.
Fetch ==
    /\ poll.st = "idle"
    /\ poll' = [st |-> "fetched", routes |-> Routes]
    /\ UNCHANGED <<now, control, table, lastDB, gen, cache, req>>

\* An unchanged table is a no-op.
SwapRoutes_forgets ==
    /\ poll.st = "fetched"
    /\ IF lastDB = poll.routes
       THEN poll' = NoPoll /\ UNCHANGED <<table, lastDB, gen>>
       ELSE /\ lastDB' = poll.routes
            /\ poll' = [poll EXCEPT !.st = "stored"]
            /\ UNCHANGED <<table, gen>>
    /\ UNCHANGED <<now, control, cache, req>>
SwapRoutes ==
    /\ poll.st = "fetched"
    /\ IF lastDB = poll.routes
       THEN poll' = NoPoll /\ UNCHANGED <<table, lastDB, gen>>
       ELSE /\ table' = buildRouteSet(poll.routes)
            /\ lastDB' = poll.routes
            /\ gen' = gen + 1
            /\ poll' = [poll EXCEPT !.st = "stored"]
    /\ UNCHANGED <<now, control, cache, req>>

purge ==
    /\ poll.st = "stored"
    /\ cache' = [k \in {} |-> NoEntry]
    /\ poll' = NoPoll
    /\ UNCHANGED <<now, control, table, lastDB, gen, req>>

-----------------------------------------------------------------------------
(* A request in the data plane.                                            *)

Set(p, r) == req' = [req EXCEPT ![p] = r]

\* An error, a redirect or a 404 is sent and nothing is proxied.
Refuse(p) == Set(p, Idle)

\* Where serveApp takes a request before any authorization of its own.
LanDenied(route, ip) == route.lan /\ ip \notin Lan
Branch(route, path) ==
    CASE route.gate /\ path = "gate"       -> "proxied"
      [] route.tunnel /\ path = "tunnel"   -> "consume"
      [] ~route.auth                       -> "served"
      [] OTHER                             -> "lookup"

\* ServeHTTP: load the snapshot, look the host up, take a branch.  An unknown
\* host (421) and a LAN-only route asked for from outside change nothing.
ServeHTTP(p, h, c, ip, path) ==
    /\ req[p].st = "free"
    /\ table[h] # None /\ ~LanDenied(table[h], ip)
    /\ Set(p, [Idle EXCEPT !.st = Branch(table[h], path), !.host = h, !.route = table[h],
                           !.cookie = c, !.ip = ip, !.path = path])
    /\ UNCHANGED <<now, control, edge, cache>>

\* The broker's answer to a grant consumption (guac.py, rtsp.py), or none.
serveGrantedWS(p) ==
    /\ req[p].st = "consume"
    /\ Set(p, [req[p] EXCEPT !.st = "tunnelled"]) \/ Refuse(p)
    /\ UNCHANGED <<now, control, edge, cache>>

\* Read the clock and look in the cache; anonymous requests never do.
serveApp(p) ==
    LET r == req[p]
        k == authzCacheKey(r.host, r.route, r.ip, r.cookie)
    IN  /\ r.st = "lookup"
        /\ \/ /\ r.cookie # None /\ Hit(k, now)
              /\ Set(p, [r EXCEPT !.st = "served", !.at = now, !.res = cache[k].res])
              /\ UNCHANGED cache
           \/ /\ r.cookie # None /\ ~Hit(k, now)
              /\ Set(p, [r EXCEPT !.st = "check", !.at = now])
              /\ cache' = get(k, now)
           \/ /\ r.cookie = None
              /\ Set(p, [r EXCEPT !.st = "check", !.at = now])
              /\ UNCHANGED cache
        /\ UNCHANGED <<now, control, edge>>

\* check: the enabled resource of the host, whatever snapshot the request has.
check(p) ==
    LET r == req[p]
    IN  /\ r.st = "check"
        /\ \/ /\ \A v \in Resource : pubHost[v] # r.host
              /\ Refuse(p)
           \/ \E v \in Resource :
                /\ pubHost[v] = r.host
                /\ Set(p, [r EXCEPT !.st = IF v \in Public THEN "public" ELSE "session",
                                    !.res = v, !.gen = gen])
        /\ UNCHANGED <<now, control, edge, cache>>

\* _check_public: a password session decides, and nothing is cacheable.
check_public(p) ==
    /\ req[p].st = "public"
    /\ Set(p, [req[p] EXCEPT !.st = "decided"]) \/ Refuse(p)
    /\ UNCHANGED <<now, control, edge, cache>>

\* resolve_gateway_session: a live session, from its own source address.
resolve_gateway_session(p) ==
    LET ok == req[p].cookie \in live /\ req[p].ip = "home"
    IN  /\ req[p].st = "session"
        /\ IF ok THEN Set(p, [req[p] EXCEPT !.st = "policy"]) ELSE Refuse(p)
        /\ UNCHANGED <<now, control, edge, cache>>

\* evaluate_access: the verdict and whether it is host-stable.
HostStable(v) == v = "host"
evaluate_access(p) ==
    LET r == req[p]
        v == rule[r.cookie][r.res]
    IN  /\ r.st = "policy"
        /\ IF Permits(v, r.path)
           THEN Set(p, [r EXCEPT !.st = "decided", !.stable = HostStable(v)])
           ELSE Refuse(p)
        /\ UNCHANGED <<now, control, edge, cache>>

\* The answer arrives: cache it if the control plane said so, and proxy.
Proxy(p) ==
    LET r == req[p]
        k == authzCacheKey(r.host, r.route, r.ip, r.cookie)
    IN  /\ r.st = "decided"
        /\ cache' = IF r.cookie # None /\ r.stable /\ TTL > 0
                    THEN put(k, r.at, r.res, r.gen) ELSE cache
        /\ Set(p, [r EXCEPT !.st = "served"])
        /\ UNCHANGED <<now, control, edge>>

\* The check times out, fails or its answer is lost: 503, fail closed.
CheckFails(p) ==
    /\ req[p].st \in {"check", "public", "session", "policy", "decided"}
    /\ Refuse(p)
    /\ UNCHANGED <<now, control, edge, cache>>

\* The response is complete.
Done(p) ==
    /\ req[p].st \in {"served", "proxied", "tunnelled"}
    /\ Set(p, Idle)
    /\ UNCHANGED <<now, control, edge, cache>>

-----------------------------------------------------------------------------
Admin ==
    \/ \E c \in Cookie : EndSession(c)
    \/ \E c \in Cookie, r \in Resource, v \in Verdict : SetRule(c, r, v)
    \/ \E r \in Resource, h \in Host \cup {None} : MoveHost(r, h)

Handle(p) ==
    \/ \E h \in Host, c \in Cookie \cup {None}, ip \in Address, path \in Path :
          ServeHTTP(p, h, c, ip, path)
    \/ serveGrantedWS(p) \/ serveApp(p) \/ check(p) \/ check_public(p)
    \/ resolve_gateway_session(p) \/ evaluate_access(p) \/ Proxy(p)
    \/ CheckFails(p) \/ Done(p)

Poller == Fetch \/ SwapRoutes \/ purge

Next == Tick \/ Admin \/ Poller \/ \E p \in Req : Handle(p)

Spec == Init /\ [][Next]_vars

\* The poller's ticker keeps firing and some fetch gets through.
FairSpec == Spec /\ WF_vars(Poller)

-----------------------------------------------------------------------------
(* Properties.                                                             *)

State == {"free", "lookup", "check", "public", "session", "policy", "decided",
          "served", "proxied", "consume", "tunnelled"}
Request == [st : State, host : Host \cup {None}, route : Route \cup {None},
            cookie : Cookie \cup {None}, ip : Address, path : Path, at : Nat,
            res : Resource \cup {None}, stable : BOOLEAN, gen : Nat]
Entry == [exp : Nat, res : Resource, gen : Nat]
RouteTable == [Host -> Route \cup {None}]

TypeOK ==
    /\ now \in Nat /\ changes \in Nat /\ gen \in Nat
    /\ pubHost \in [Resource -> Host \cup {None}]
    /\ live \in SUBSET Cookie
    /\ rule \in [Cookie -> [Resource -> Verdict]]
    /\ table \in RouteTable /\ lastDB \in RouteTable \cup {None}
    /\ poll \in [st : {"idle", "fetched", "stored"}, routes : RouteTable]
    /\ DOMAIN cache \subseteq Key /\ cache \in [DOMAIN cache -> Entry]
    /\ req \in [Req -> Request]
    /\ lostLive \in [Cookie -> Int]
    /\ lostRule \in [Cookie -> [Resource -> [Path -> Int]]]
    /\ lostHost \in [Resource -> [Host -> Int]]

\* The longest a cached decision is used.
Bound == IF TTL > Cap THEN Cap ELSE TTL

\* At t or later: c's session was live; the rules let c's user use path of r;
\* h was r's host.
LiveSince(c, t) == c \in live \/ t <= lostLive[c]
RuleSince(c, r, path, t) == Permits(rule[c][r], path) \/ t <= lostRule[c][r][path]
HostSince(h, r, t) == pubHost[r] = h \/ t <= lostHost[r][h]

\* A request that was proxied because of a gateway session and the policy.
Authorized(r) == r.st = "served" /\ r.route.auth /\ r.res \notin Public

\* Revocation is bounded by the cache lifetime: whatever the interleaving of
\* checks, cached answers, purges and administrators' changes, a request that
\* reads the clock more than Bound after its session ended, its path was denied
\* or its host was taken from the resource is not proxied (authzcache.go put and
\* get; config.py: authz_cache_ttl "bounds revocation latency").
RevocationBounded ==
    \A p \in Req :
        LET r == req[p]
            t == r.at - Bound
        IN  Authorized(r) =>
                /\ LiveSince(r.cookie, t)
                /\ RuleSince(r.cookie, r.res, r.path, t)
                /\ HostSince(r.host, r.res, t)

\* A cached decision never serves a client address other than the one the session
\* is bound to (authzCacheKey, resolve_gateway_session).
AddressBound ==
    \A p \in Req : Authorized(req[p]) => req[p].ip = "home"

\* The cache never holds more than authzCacheMaxEntries decisions (put).
CacheBounded == Cardinality(Entries) <= MaxEntries

\* Once administrators stop changing hosts, the data plane comes to serve the
\* control plane's table and stays with it (pollRoutes, SwapRoutes).
RoutesConverge == <>[](table = buildRouteSet(Routes))

\* dataplane/README.md: "The cache is purged on any real route table change":
\* between swaps it holds no decision taken under an earlier table.
PurgeDropsOldDecisions ==
    poll.st # "stored" => \A k \in Entries : cache[k].gen = gen
=============================================================================
