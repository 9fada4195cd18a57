-------------------------- MODULE EdgeAuthz_proof ---------------------------
(* What the data plane's decision cache promises, for any hosts, resources,  *)
(* sessions, requests, lifetime and cache size.                              *)
EXTENDS EdgeAuthz, FiniteSetTheorems, TLAPS

(* At t or later, each of these held: the session c was live, the rules let its *)
(* user use the paths X of r, and h was r's host; and the request came from the *)
(* session's own address.                                                       *)
Held(h, c, ip, r, X, t) ==
    /\ h \in Host /\ c \in Cookie /\ r \in Resource \ Public /\ ip = "home"
    /\ LiveSince(c, t) /\ HostSince(h, r, t)
    /\ \A x \in X : RuleSince(c, r, x, t)

HeldFor(r, X, t) == Held(r.host, r.cookie, r.ip, r.res, X, t)

(* What a request's state says of the time it read the clock.  A decision that *)
(* is host-stable was taken on a rule that permits every path.                 *)
RequestOK(r) ==
    /\ r.at <= now
    /\ r.st # "free" => r.host \in Host /\ r.route \in Route
    /\ r.st \in {"lookup", "check", "public", "session", "policy"} => ~r.stable
    /\ r.st \in {"public", "session", "policy", "decided"} =>
          r.res \in Resource /\ HostSince(r.host, r.res, r.at)
    /\ r.st = "public" => r.res \in Public
    /\ r.st \in {"session", "policy"} => r.res \notin Public
    /\ r.st = "policy" => HeldFor(r, {}, r.at)
    /\ r.st = "decided" /\ r.res \in Public => ~r.stable
    /\ r.st = "decided" /\ r.res \notin Public =>
          HeldFor(r, IF r.stable THEN Path ELSE {r.path}, r.at)
    /\ Authorized(r) => HeldFor(r, {r.path}, r.at - Bound)

(* An entry is good for every path, and as old as its expiry less the lifetime. *)
EntryOK(k, e) ==
    /\ e.exp - Bound <= now
    /\ Held(k.host, k.cookie, k.ip, e.res, Path, e.exp - Bound)

EdgeInv ==
    /\ TypeOK
    /\ \A p \in Req : RequestOK(req[p])
    /\ \A k \in Entries : EntryOK(k, cache[k])
    /\ IsFiniteSet(Entries) /\ CacheBounded

-----------------------------------------------------------------------------
(* The lifetime of an entry is a natural number. *)
LEMMA BoundType == Bound \in Nat /\ \A t \in Nat : Expiry(t) = t + Bound
BY EdgeAssumption DEF Bound, Expiry, Lifetime

(* What held at t or later held at every earlier time or later. *)
LEMMA HeldEarlier ==
    ASSUME TypeOK, NEW h, NEW c, NEW ip, NEW r, NEW X, NEW Y, Y \subseteq X, X \subseteq Path,
           NEW t \in Int, NEW s \in Int, s <= t, Held(h, c, ip, r, X, t)
    PROVE  Held(h, c, ip, r, Y, s)
<1>1. /\ lostLive[c] \in Int /\ lostHost[r][h] \in Int
      /\ \A x \in Path : lostRule[c][r][x] \in Int
  BY DEF TypeOK, Held
<1> QED
  BY <1>1 DEF Held, LiveSince, HostSince, RuleSince

(* Nothing that is recorded at t is lost by a change made at t or later: the *)
(* change records its own time.                                              *)
LEMMA AdminKeepsHost ==
    ASSUME TypeOK, Admin, NEW h \in Host, NEW r \in Resource, NEW t \in Int, t <= now,
           HostSince(h, r, t)
    PROVE  HostSince(h, r, t)'
<1>1. CASE \E c \in Cookie : EndSession(c)
  BY <1>1 DEF EndSession, HostSince
<1>2. CASE \E c \in Cookie, q \in Resource, v \in Verdict : SetRule(c, q, v)
  BY <1>2 DEF SetRule, HostSince
<1>3. ASSUME NEW q \in Resource, NEW g \in Host \cup {None}, MoveHost(q, g)
      PROVE  HostSince(h, r, t)'
  <2>1. /\ pubHost' = [pubHost EXCEPT ![q] = g] /\ pubHost \in [Resource -> Host \cup {None}]
        /\ lostHost \in [Resource -> [Host -> Int]]
        /\ lostHost' = [lostHost EXCEPT ![q] =
               [x \in Host |-> IF x = pubHost[q] THEN now ELSE lostHost[q][x]]]
    BY <1>3 DEF MoveHost, TypeOK
  <2>2. CASE r = q
    BY <2>1, <2>2 DEF HostSince
  <2>3. CASE r # q
    BY <2>1, <2>3 DEF HostSince
  <2> QED
    BY <2>2, <2>3
<1> QED
  BY <1>1, <1>2, <1>3 DEF Admin

(* ... the same of the rules (SetRule: policies, roles, the user's status) ... *)
LEMMA AdminKeepsRule ==
    ASSUME TypeOK, Admin, NEW c \in Cookie, NEW r \in Resource, NEW x \in Path,
           NEW t \in Int, t <= now, RuleSince(c, r, x, t)
    PROVE  RuleSince(c, r, x, t)'
<1>1. CASE \E d \in Cookie : EndSession(d)
  BY <1>1 DEF EndSession, RuleSince
<1>2. ASSUME NEW d \in Cookie, NEW q \in Resource, NEW v \in Verdict, SetRule(d, q, v)
      PROVE  RuleSince(c, r, x, t)'
  <2>1. /\ rule' = [rule EXCEPT ![d][q] = v] /\ rule \in [Cookie -> [Resource -> Verdict]]
        /\ lostRule \in [Cookie -> [Resource -> [Path -> Int]]]
        /\ lostRule' = [lostRule EXCEPT ![d][q] =
               [y \in Path |-> IF Permits(rule[d][q], y) /\ ~Permits(v, y)
                               THEN now ELSE lostRule[d][q][y]]]
    BY <1>2 DEF SetRule, TypeOK
  <2>2. CASE c = d /\ r = q
    <3>1. rule'[c][r] = v
      BY <2>1, <2>2
    <3>2. lostRule'[c][r][x] = IF Permits(rule[c][r], x) /\ ~Permits(v, x)
                               THEN now ELSE lostRule[c][r][x]
      BY <2>1, <2>2
    <3> QED
      BY <3>1, <3>2 DEF RuleSince
  <2>3. CASE ~(c = d /\ r = q)
    <3>1. rule'[c][r] = rule[c][r] /\ lostRule'[c][r] = lostRule[c][r]
      BY <2>1, <2>3
    <3> QED
      BY <3>1 DEF RuleSince
  <2> QED
    BY <2>2, <2>3
<1>3. CASE \E q \in Resource, h \in Host \cup {None} : MoveHost(q, h)
  BY <1>3 DEF MoveHost, RuleSince
<1> QED
  BY <1>1, <1>2, <1>3 DEF Admin

(* ... of the session (EndSession) ... *)
LEMMA AdminKeepsLive ==
    ASSUME TypeOK, Admin, NEW c \in Cookie, NEW t \in Int, t <= now, LiveSince(c, t)
    PROVE  LiveSince(c, t)'
<1>1. ASSUME NEW d \in Cookie, EndSession(d) PROVE LiveSince(c, t)'
  <2>1. /\ live' = live \ {d} /\ lostLive' = [lostLive EXCEPT ![d] = now]
        /\ lostLive \in [Cookie -> Int]
    BY <1>1 DEF EndSession, TypeOK
  <2> QED
    BY <2>1 DEF LiveSince
<1>2. CASE \E d \in Cookie, q \in Resource, v \in Verdict : SetRule(d, q, v)
  BY <1>2 DEF SetRule, LiveSince
<1>3. CASE \E q \in Resource, h \in Host \cup {None} : MoveHost(q, h)
  BY <1>3 DEF MoveHost, LiveSince
<1> QED
  BY <1>1, <1>2, <1>3 DEF Admin

(* ... and so of the three together. *)
LEMMA AdminKeepsHeld ==
    ASSUME TypeOK, Admin, NEW h, NEW c, NEW ip, NEW r, NEW X, X \subseteq Path,
           NEW t \in Int, t <= now, Held(h, c, ip, r, X, t)
    PROVE  Held(h, c, ip, r, X, t)'
BY AdminKeepsHost, AdminKeepsRule, AdminKeepsLive DEF Held

-----------------------------------------------------------------------------
(* Nothing is decided and nothing cached at first. *)
LEMMA InitEdge == Init => EdgeInv
<1> SUFFICES ASSUME Init PROVE EdgeInv
  OBVIOUS
<1> USE DEF Init
<1>1. Idle \in Request
  BY DEF Idle, Request, State, Address, Path
<1>2. Never \in Int
  BY EdgeAssumption DEF Never
<1>3. NoRoutes \in RouteTable /\ buildRouteSet(NoRoutes) \in RouteTable
  BY EdgeAssumption DEF NoRoutes, buildRouteSet, RouteTable
<1>4. Entries = {}
  BY DEF Entries
<1>5. cache \in [DOMAIN cache -> Entry] /\ DOMAIN cache \subseteq Key
  BY <1>4 DEF Entries
<1>6. TypeOK
  BY <1>1, <1>2, <1>3, <1>5, EdgeAssumption DEF TypeOK, NoPoll
<1>7. \A p \in Req : RequestOK(req[p])
  BY DEF RequestOK, Idle, Authorized
<1>8. IsFiniteSet(Entries) /\ CacheBounded
  BY <1>4, FS_EmptySet, EdgeAssumption DEF CacheBounded
<1> QED
  BY <1>4, <1>6, <1>7, <1>8 DEF EdgeInv

(* A request's shape, as far as the entry it may look up or write is concerned. *)
LEMMA RequestTypes ==
    ASSUME TypeOK, NEW p \in Req
    PROVE  /\ req[p] \in Request /\ req[p].at \in Nat /\ req[p].gen \in Nat
           /\ req[p].path \in Path
           /\ req[p].cookie \in Cookie \cup {None} /\ req[p].res \in Resource \cup {None}
BY DEF TypeOK, Request

(* A step that moves one request, and may write the cache, keeps the invariant *)
(* if the new record and the new entries do.                                   *)
LEMMA CacheStep ==
    ASSUME EdgeInv, NEW p \in Req, NEW rec \in Request, RequestOK(rec),
           req' = [req EXCEPT ![p] = rec],
           UNCHANGED <<now, control, edge>>,
           NEW D \in SUBSET Key, cache' \in [D -> Entry],
           \A k \in D : EntryOK(k, cache'[k]),
           IsFiniteSet(D), Cardinality(D) <= MaxEntries
    PROVE  EdgeInv'
<1> USE DEF EdgeInv
<1>0. /\ UNCHANGED <<now, pubHost, live, rule, changes, lostLive, lostRule, lostHost,
                     table, lastDB, poll, gen>>
      /\ Entries' = D /\ DOMAIN cache' = D
  BY DEF control, edge, lost, Entries
<1>1. TypeOK'
  BY <1>0 DEF TypeOK
<1>2. ASSUME NEW q \in Req PROVE RequestOK(req[q])'
  <2>1. PICK v : v = req'[q] /\ RequestOK(v)
    BY DEF TypeOK
  <2>2. RequestOK(v)'
    BY <1>0, <2>1 DEF RequestOK, HeldFor, Held, LiveSince, HostSince, RuleSince, Authorized
  <2> QED
    BY <2>1, <2>2
<1>3. ASSUME NEW k \in D PROVE EntryOK(k, cache[k])'
  <2>1. PICK e : e = cache'[k] /\ EntryOK(k, e)
    OBVIOUS
  <2>2. EntryOK(k, e)'
    BY <1>0, <2>1 DEF EntryOK, Held, LiveSince, HostSince, RuleSince
  <2> QED
    BY <2>1, <2>2
<1>4. (IsFiniteSet(Entries) /\ CacheBounded)'
  BY <1>0 DEF CacheBounded
<1> QED
  BY <1>0, <1>1, <1>2, <1>3, <1>4

(* ... in particular if it leaves the cache alone. *)
LEMMA RequestStep ==
    ASSUME EdgeInv, NEW p \in Req, NEW rec \in Request, RequestOK(rec),
           req' = [req EXCEPT ![p] = rec],
           UNCHANGED <<now, control, edge, cache>>
    PROVE  EdgeInv'
<1>1. /\ Entries \in SUBSET Key /\ cache' \in [Entries -> Entry]
      /\ \A k \in Entries : EntryOK(k, cache'[k])
      /\ IsFiniteSet(Entries) /\ Cardinality(Entries) <= MaxEntries
  BY DEF EdgeInv, TypeOK, Entries, CacheBounded
<1>2. UNCHANGED <<now, control, edge>>
  OBVIOUS
<1> QED
  BY <1>1, <1>2, CacheStep

(* An idle slot promises nothing. *)
LEMMA IdleOK == TypeOK => Idle \in Request /\ RequestOK(Idle)
BY DEF TypeOK, RequestOK, Idle, Request, State, Address, Path, Authorized

(* Time passes: a recorded time stays in the past. *)
LEMMA TickKeeps == EdgeInv /\ Tick => EdgeInv'
<1> SUFFICES ASSUME EdgeInv, Tick PROVE EdgeInv'
  OBVIOUS
<1> USE DEF EdgeInv
<1>0. /\ UNCHANGED <<pubHost, live, rule, changes, lostLive, lostRule, lostHost,
                     table, lastDB, poll, gen, cache, req>>
      /\ now \in Nat /\ now' = now + 1
  BY DEF Tick, control, edge, lost, TypeOK
<1>1. TypeOK'
  BY <1>0 DEF TypeOK
<1>2. ASSUME NEW q \in Req PROVE RequestOK(req[q])'
  <2>1. PICK v : v = req[q] /\ RequestOK(v) /\ v.at \in Nat
    BY RequestTypes
  <2>2. v.at <= now'
    BY <1>0, <2>1 DEF RequestOK
  <2>3. RequestOK(v)'
    BY <1>0, <2>1, <2>2 DEF RequestOK, HeldFor, Held, LiveSince, HostSince, RuleSince, Authorized
  <2> QED
    BY <1>0, <2>1, <2>3
<1>3. ASSUME NEW k \in Entries PROVE EntryOK(k, cache[k])'
  <2>1. PICK e : e = cache[k] /\ EntryOK(k, e) /\ e.exp \in Nat
    BY DEF Entries, TypeOK, Entry
  <2>2. e.exp - Bound <= now'
    BY <1>0, <2>1, BoundType DEF EntryOK
  <2>3. EntryOK(k, e)'
    BY <1>0, <2>1, <2>2 DEF EntryOK, Held, LiveSince, HostSince, RuleSince
  <2> QED
    BY <1>0, <2>1, <2>3
<1>4. (IsFiniteSet(Entries) /\ CacheBounded)'
  BY <1>0 DEF CacheBounded, Entries
<1> QED
  BY <1>0, <1>1, <1>2, <1>3, <1>4 DEF Entries

(* An administrator's change leaves every decision already taken within its time. *)
LEMMA AdminKeeps == EdgeInv /\ Admin => EdgeInv'
<1> SUFFICES ASSUME EdgeInv, Admin PROVE EdgeInv'
  OBVIOUS
<1> USE DEF EdgeInv
<1>0. UNCHANGED <<now, table, lastDB, poll, gen, cache, req>>
  BY DEF Admin, EndSession, SetRule, MoveHost, Change, edge
<1>1. TypeOK'
  <2>1. CASE \E c \in Cookie : EndSession(c)
    BY <1>0, <2>1 DEF EndSession, Change, TypeOK
  <2>2. CASE \E c \in Cookie, q \in Resource, v \in Verdict : SetRule(c, q, v)
    BY <1>0, <2>2 DEF SetRule, Change, TypeOK
  <2>3. CASE \E q \in Resource, h \in Host \cup {None} : MoveHost(q, h)
    BY <1>0, <2>3 DEF MoveHost, Change, TypeOK
  <2> QED
    BY <2>1, <2>2, <2>3 DEF Admin
<1>2. ASSUME NEW q \in Req PROVE RequestOK(req[q])'
  <2>1. PICK v \in Request : v = req[q] /\ RequestOK(v)
    BY RequestTypes
  <2> DEFINE X == IF v.stable THEN Path ELSE {v.path}
  <2>2. /\ v.at \in Int /\ v.at <= now /\ v.at - Bound \in Int /\ v.at - Bound <= now
        /\ X \subseteq Path /\ {v.path} \subseteq Path /\ {} \subseteq Path
    BY <2>1, BoundType DEF RequestOK, Request, TypeOK
  <2>3. v.st \in {"public", "session", "policy", "decided"} => HostSince(v.host, v.res, v.at)'
    BY <2>1, <2>2, AdminKeepsHost DEF RequestOK
  <2>4. v.st = "policy" => HeldFor(v, {}, v.at)'
    BY <2>1, <2>2, AdminKeepsHeld DEF RequestOK, HeldFor
  <2>5. v.st = "decided" /\ v.res \notin Public => HeldFor(v, X, v.at)'
    BY <2>1, <2>2, AdminKeepsHeld DEF RequestOK, HeldFor
  <2>6. Authorized(v) => HeldFor(v, {v.path}, v.at - Bound)'
    BY <2>1, <2>2, AdminKeepsHeld DEF RequestOK, HeldFor
  <2>7. RequestOK(v)'
    BY <1>0, <2>1, <2>2, <2>3, <2>4, <2>5, <2>6 DEF RequestOK, Authorized
  <2> QED
    BY <1>0, <2>1, <2>7
<1>3. ASSUME NEW k \in Entries PROVE EntryOK(k, cache[k])'
  <2>1. PICK e : e = cache[k] /\ EntryOK(k, e) /\ e.exp - Bound \in Int
    BY BoundType DEF Entries, TypeOK, Entry
  <2>2. EntryOK(k, e)'
    BY <1>0, <2>1, AdminKeepsHeld DEF EntryOK
  <2> QED
    BY <1>0, <2>1, <2>2
<1>4. (IsFiniteSet(Entries) /\ CacheBounded)'
  BY <1>0 DEF CacheBounded, Entries
<1> QED
  BY <1>0, <1>1, <1>2, <1>3, <1>4 DEF Entries

-----------------------------------------------------------------------------
(* A poller's step installs a route table or empties the cache; no request and  *)
(* no entry that stays is touched.                                              *)
LEMMA PollerKeeps == EdgeInv /\ Poller => EdgeInv'
<1> SUFFICES ASSUME EdgeInv, Poller PROVE EdgeInv'
  OBVIOUS
<1> USE DEF EdgeInv
<1>0. UNCHANGED <<now, pubHost, live, rule, changes, lostLive, lostRule, lostHost, req>>
  BY DEF Poller, Fetch, SwapRoutes, purge, control, lost
<1>1. /\ Routes \in RouteTable /\ NoRoutes \in RouteTable
      /\ \A db \in RouteTable : buildRouteSet(db) \in RouteTable
  <2>1. Routes \in RouteTable
    BY EdgeAssumption DEF Routes, RouteTable, Route
  <2> QED
    BY <2>1, EdgeAssumption DEF NoRoutes, buildRouteSet, RouteTable
<1>2. \/ cache' = cache
      \/ cache' = [k \in {} |-> NoEntry]
  BY DEF Poller, Fetch, SwapRoutes, purge
<1>3. /\ Entries' \subseteq Entries
      /\ \A k \in Entries' : cache'[k] = cache[k]
      /\ Entries' \subseteq Key /\ cache' \in [Entries' -> Entry]
  BY <1>2 DEF Entries, TypeOK
<1>4. TypeOK'
  <2>1. CASE Fetch
    BY <1>0, <1>1, <1>3, <2>1 DEF Fetch, TypeOK, Entries
  <2>2. CASE SwapRoutes
    BY <1>0, <1>1, <1>3, <2>2 DEF SwapRoutes, TypeOK, Entries, NoPoll
  <2>3. CASE purge
    BY <1>0, <1>1, <1>3, <2>3 DEF purge, TypeOK, Entries, NoPoll
  <2> QED
    BY <2>1, <2>2, <2>3 DEF Poller
<1>5. ASSUME NEW q \in Req PROVE RequestOK(req[q])'
  <2>1. PICK v : v = req'[q] /\ RequestOK(v)
    BY <1>0
  <2>2. RequestOK(v)'
    BY <1>0, <2>1 DEF RequestOK, HeldFor, Held, LiveSince, HostSince, RuleSince, Authorized
  <2> QED
    BY <2>1, <2>2
<1>6. ASSUME NEW k \in Entries' PROVE EntryOK(k, cache[k])'
  <2>1. PICK e : e = cache'[k] /\ EntryOK(k, e)
    BY <1>3
  <2>2. EntryOK(k, e)'
    BY <1>0, <2>1 DEF EntryOK, Held, LiveSince, HostSince, RuleSince
  <2> QED
    BY <2>1, <2>2
<1>7. (IsFiniteSet(Entries) /\ CacheBounded)'
  <2>1. IsFiniteSet(Entries') /\ Cardinality(Entries') <= Cardinality(Entries)
    BY <1>3, FS_Subset
  <2>2. Cardinality(Entries') \in Nat /\ Cardinality(Entries) \in Nat
    BY <2>1, FS_CardinalityType
  <2> QED
    BY <2>1, <2>2, EdgeAssumption DEF CacheBounded
<1> QED
  BY <1>4, <1>5, <1>6, <1>7

-----------------------------------------------------------------------------
(* ServeHTTP: only a route that needs no authorization is served at once. *)
LEMMA ServeKeeps ==
    ASSUME EdgeInv, NEW p \in Req, NEW h \in Host, NEW c \in Cookie \cup {None},
           NEW ip \in Address, NEW path \in Path, ServeHTTP(p, h, c, ip, path)
    PROVE  EdgeInv'
<1>1. PICK rt \in Route : rt = table[h] /\ now \in Nat
  BY DEF EdgeInv, TypeOK, ServeHTTP, RouteTable
<1>2. PICK b \in {"proxied", "consume", "served", "lookup"} :
          b = Branch(rt, path) /\ (b = "served" => ~rt.auth)
  BY DEF Branch
<1>3. PICK i \in Request : i = Idle /\ i.at = 0 /\ i.stable = FALSE
  BY IdleOK DEF EdgeInv, Idle
<1> DEFINE rec == [i EXCEPT !.st = b, !.host = h, !.route = rt, !.cookie = c, !.ip = ip,
                            !.path = path]
<1>4. /\ rec \in Request /\ rec.at = 0 /\ rec.stable = FALSE /\ rec.st = b
      /\ rec.host = h /\ rec.route = rt
  BY <1>1, <1>2, <1>3 DEF Request, State
<1> HIDE DEF rec
<1>5. RequestOK(rec)
  BY <1>1, <1>2, <1>4 DEF RequestOK, Authorized
<1>6. req' = [req EXCEPT ![p] = rec] /\ UNCHANGED <<now, control, edge, cache>>
  BY <1>1, <1>2, <1>3 DEF ServeHTTP, Set, rec
<1> QED
  BY <1>4, <1>5, <1>6, RequestStep

(* serveApp: a hit is served on a decision no older than Bound; a miss reads the *)
(* clock before it asks; an expired entry goes.                                  *)
LEMMA LookupKeeps ==
    ASSUME EdgeInv, NEW p \in Req, serveApp(p)
    PROVE  EdgeInv'
<1> DEFINE r == req[p]
           k == authzCacheKey(r.host, r.route, r.ip, r.cookie)
           miss == [r EXCEPT !.st = "check", !.at = now]
           hit == [r EXCEPT !.st = "served", !.at = now, !.res = cache[k].res]
<1>0. /\ TypeOK /\ r \in Request /\ RequestOK(r) /\ r.st = "lookup" /\ now \in Nat
      /\ r.host \in Host /\ r.route \in Route /\ ~r.stable
  BY RequestTypes DEF EdgeInv, serveApp, TypeOK, RequestOK
<1>1. miss \in Request /\ RequestOK(miss)
  <2>1. miss \in Request
    BY <1>0 DEF Request, State
  <2>2. miss.st = "check" /\ miss.at = now /\ miss.host = r.host /\ miss.route = r.route
        /\ miss.stable = r.stable
    BY <1>0 DEF Request
  <2> HIDE DEF miss
  <2> QED
    BY <1>0, <2>1, <2>2 DEF RequestOK, Authorized
<1>2. CASE r.cookie # None /\ Hit(k, now) /\ Set(p, hit) /\ UNCHANGED cache
  <2>1. /\ k \in Entries /\ cache[k] \in Entry /\ now <= cache[k].exp /\ EntryOK(k, cache[k])
        /\ k.host = r.host /\ k.cookie = r.cookie /\ k.ip = r.ip
        /\ r.path \in Path
    BY <1>0, <1>2 DEF Hit, EdgeInv, Entries, TypeOK, authzCacheKey, Request
  <2>2. /\ now - Bound \in Int /\ cache[k].exp - Bound \in Int
        /\ now - Bound <= cache[k].exp - Bound
    BY <1>0, <2>1, BoundType DEF Entry
  <2>3. Held(r.host, r.cookie, r.ip, cache[k].res, Path, cache[k].exp - Bound)
    BY <2>1 DEF EntryOK
  <2>4. Held(r.host, r.cookie, r.ip, cache[k].res, {r.path}, now - Bound)
    BY <1>0, <2>1, <2>2, <2>3, HeldEarlier
  <2>5. /\ hit \in Request /\ hit.st = "served" /\ hit.at = now /\ hit.host = r.host
        /\ hit.route = r.route /\ hit.cookie = r.cookie /\ hit.ip = r.ip
        /\ hit.path = r.path /\ hit.res = cache[k].res
    BY <1>0, <2>1 DEF Request, State, Entry
  <2> HIDE DEF hit, k
  <2>6. HeldFor(hit, {hit.path}, hit.at - Bound)
    BY <2>4, <2>5 DEF HeldFor
  <2>7. RequestOK(hit)
    BY <1>0, <2>5, <2>6 DEF RequestOK
  <2>8. req' = [req EXCEPT ![p] = hit] /\ UNCHANGED <<now, control, edge, cache>>
    BY <1>2 DEF Set, serveApp
  <2> QED
    BY <2>5, <2>7, <2>8, RequestStep
<1>3. CASE r.cookie # None /\ ~Hit(k, now) /\ Set(p, miss) /\ cache' = get(k, now)
  <2> HIDE DEF k, miss, r
  <2>1. PICK D \in SUBSET Entries : cache' = [x \in D |-> cache[x]]
    <3>1. CASE k \in Entries /\ now > cache[k].exp
      BY <1>3, <3>1 DEF get
    <3>2. CASE ~(k \in Entries /\ now > cache[k].exp)
      BY <1>3, <3>2 DEF get, EdgeInv, TypeOK, Entries
    <3> QED
      BY <3>1, <3>2
  <2>2. /\ D \in SUBSET Key /\ cache' \in [D -> Entry]
        /\ \A x \in D : EntryOK(x, cache'[x])
    BY <2>1 DEF EdgeInv, TypeOK, Entries
  <2>3. IsFiniteSet(D) /\ Cardinality(D) <= MaxEntries
    <3>1. IsFiniteSet(D) /\ Cardinality(D) <= Cardinality(Entries)
      BY FS_Subset DEF EdgeInv
    <3>2. Cardinality(D) \in Nat /\ Cardinality(Entries) \in Nat
      BY <3>1, FS_CardinalityType DEF EdgeInv
    <3> QED
      BY <3>1, <3>2, EdgeAssumption DEF EdgeInv, CacheBounded
  <2>4. req' = [req EXCEPT ![p] = miss] /\ UNCHANGED <<now, control, edge>>
    BY <1>3 DEF Set, serveApp
  <2> QED
    BY <1>1, <2>2, <2>3, <2>4, CacheStep
<1>4. CASE r.cookie = None /\ Set(p, miss) /\ UNCHANGED cache
  <2>1. req' = [req EXCEPT ![p] = miss] /\ UNCHANGED <<now, control, edge, cache>>
    BY <1>4 DEF Set, serveApp
  <2> HIDE DEF miss
  <2> QED
    BY <1>1, <2>1, RequestStep
<1> QED
  BY <1>2, <1>3, <1>4 DEF serveApp

(* check: the resource that has the host now has it at the time read or later. *)
LEMMA CheckKeeps ==
    ASSUME EdgeInv, NEW p \in Req, check(p)
    PROVE  EdgeInv'
<1> DEFINE r == req[p]
<1>0. /\ TypeOK /\ r \in Request /\ RequestOK(r) /\ r.st = "check" /\ gen \in Nat
      /\ UNCHANGED <<now, control, edge, cache>>
  BY RequestTypes DEF EdgeInv, check, TypeOK
<1>1. CASE Refuse(p)
  BY <1>0, <1>1, IdleOK, RequestStep DEF Refuse, Set
<1>2. ASSUME NEW v \in Resource, pubHost[v] = r.host,
             Set(p, [r EXCEPT !.st = IF v \in Public THEN "public" ELSE "session",
                              !.res = v, !.gen = gen])
      PROVE  EdgeInv'
  <2> DEFINE rec == [r EXCEPT !.st = IF v \in Public THEN "public" ELSE "session",
                              !.res = v, !.gen = gen]
  <2>1. /\ rec \in Request /\ rec.st = IF v \in Public THEN "public" ELSE "session"
        /\ rec.res = v /\ rec.host = r.host /\ rec.route = r.route /\ rec.at = r.at
        /\ rec.stable = r.stable
    BY <1>0 DEF Request, State
  <2>2. req' = [req EXCEPT ![p] = rec]
    BY <1>2 DEF Set
  <2> HIDE DEF rec
  <2>3. RequestOK(rec)
    BY <1>0, <1>2, <2>1 DEF RequestOK, HostSince, Authorized
  <2> QED
    BY <1>0, <2>1, <2>2, <2>3, RequestStep
<1> QED
  BY <1>1, <1>2 DEF check

(* check_public, serveGrantedWS: the state moves on and the decision, if there is *)
(* one, is not cacheable.                                                         *)
LEMMA UngatedKeeps ==
    ASSUME EdgeInv, NEW p \in Req, check_public(p) \/ serveGrantedWS(p)
    PROVE  EdgeInv'
<1> PICK r \in Request : r = req[p] /\ RequestOK(r)
  BY RequestTypes DEF EdgeInv
<1>0. UNCHANGED <<now, control, edge, cache>>
  BY DEF check_public, serveGrantedWS
<1>1. CASE Refuse(p)
  BY <1>0, <1>1, IdleOK, RequestStep DEF Refuse, Set, EdgeInv
<1>2. CASE \E st \in {"decided", "tunnelled"} :
               /\ Set(p, [r EXCEPT !.st = st])
               /\ r.st = IF st = "decided" THEN "public" ELSE "consume"
  <2> PICK st \in {"decided", "tunnelled"} :
               /\ Set(p, [r EXCEPT !.st = st])
               /\ r.st = IF st = "decided" THEN "public" ELSE "consume"
    BY <1>2
  <2> DEFINE rec == [r EXCEPT !.st = st]
  <2>1. /\ rec \in Request /\ rec.st = st /\ rec.res = r.res /\ rec.host = r.host
        /\ rec.route = r.route /\ rec.at = r.at /\ rec.stable = r.stable
    BY DEF Request, State
  <2>2. req' = [req EXCEPT ![p] = rec]
    BY DEF Set
  <2> HIDE DEF rec
  <2>3. RequestOK(rec)
    BY <2>1 DEF RequestOK, Authorized
  <2> QED
    BY <1>0, <2>1, <2>2, <2>3, RequestStep
<1> QED
  BY <1>1, <1>2 DEF check_public, serveGrantedWS

(* resolve_gateway_session: a live session, from its own address. *)
LEMMA SessionKeeps ==
    ASSUME EdgeInv, NEW p \in Req, resolve_gateway_session(p)
    PROVE  EdgeInv'
<1> PICK r \in Request : r = req[p] /\ RequestOK(r)
  BY RequestTypes DEF EdgeInv
<1>0. UNCHANGED <<now, control, edge, cache>> /\ r.st = "session" /\ live \in SUBSET Cookie
  BY DEF resolve_gateway_session, EdgeInv, TypeOK
<1>1. CASE Refuse(p)
  BY <1>0, <1>1, IdleOK, RequestStep DEF Refuse, Set, EdgeInv
<1>2. CASE r.cookie \in live /\ r.ip = "home" /\ Set(p, [r EXCEPT !.st = "policy"])
  <2> DEFINE rec == [r EXCEPT !.st = "policy"]
  <2>1. /\ rec \in Request /\ rec.st = "policy" /\ rec.res = r.res /\ rec.host = r.host
        /\ rec.route = r.route /\ rec.at = r.at /\ rec.stable = r.stable
        /\ rec.cookie = r.cookie /\ rec.ip = r.ip
    BY DEF Request, State
  <2>2. req' = [req EXCEPT ![p] = rec]
    BY <1>2 DEF Set
  <2> HIDE DEF rec
  <2>3. HeldFor(rec, {}, rec.at)
    BY <1>0, <1>2, <2>1 DEF RequestOK, HeldFor, Held, LiveSince
  <2>4. RequestOK(rec)
    BY <1>0, <2>1, <2>3 DEF RequestOK, Authorized
  <2> QED
    BY <1>0, <2>1, <2>2, <2>4, RequestStep
<1> QED
  BY <1>1, <1>2 DEF resolve_gateway_session

(* evaluate_access: the rule permits the path, and every path when it is stable. *)
LEMMA PolicyKeeps ==
    ASSUME EdgeInv, NEW p \in Req, evaluate_access(p)
    PROVE  EdgeInv'
<1> PICK r \in Request : r = req[p] /\ RequestOK(r)
  BY RequestTypes DEF EdgeInv
<1>0. /\ UNCHANGED <<now, control, edge, cache>> /\ r.st = "policy"
      /\ HeldFor(r, {}, r.at) /\ r.res \in Resource \ Public /\ r.path \in Path
  BY DEF evaluate_access, RequestOK, Request
<1>1. CASE Refuse(p)
  BY <1>0, <1>1, IdleOK, RequestStep DEF Refuse, Set, EdgeInv
<1>2. CASE /\ Permits(rule[r.cookie][r.res], r.path)
           /\ Set(p, [r EXCEPT !.st = "decided",
                               !.stable = HostStable(rule[r.cookie][r.res])])
  <2> PICK b \in BOOLEAN : b = HostStable(rule[r.cookie][r.res])
    BY DEF HostStable
  <2> DEFINE rec == [r EXCEPT !.st = "decided", !.stable = b]
  <2>1. /\ rec \in Request /\ rec.st = "decided" /\ rec.res = r.res /\ rec.host = r.host
        /\ rec.route = r.route /\ rec.at = r.at /\ rec.stable = b
        /\ rec.cookie = r.cookie /\ rec.ip = r.ip /\ rec.path = r.path
    BY DEF Request, State
  <2>2. req' = [req EXCEPT ![p] = rec]
    BY <1>2 DEF Set
  <2> HIDE DEF rec
  <2>3. \A x \in IF b THEN Path ELSE {r.path} : RuleSince(r.cookie, r.res, x, r.at)
    BY <1>2 DEF RuleSince, Permits, HostStable
  <2>4. HeldFor(rec, IF rec.stable THEN Path ELSE {rec.path}, rec.at)
    BY <1>0, <2>1, <2>3 DEF HeldFor, Held
  <2>5. RequestOK(rec)
    BY <1>0, <2>1, <2>4 DEF RequestOK, Authorized
  <2> QED
    BY <1>0, <2>1, <2>2, <2>5, RequestStep
<1> QED
  BY <1>1, <1>2 DEF evaluate_access

(* put: the full map loses its expired entries, or all of them, before one is added. *)
LEMMA KeptRoom ==
    ASSUME EdgeInv, NEW t
    PROVE  /\ Kept(t) \subseteq Entries /\ IsFiniteSet(Kept(t))
           /\ Cardinality(Kept(t)) \in Nat /\ Cardinality(Kept(t)) < MaxEntries
<1> DEFINE fresh == {k \in Entries : t <= cache[k].exp}
<1>1. /\ IsFiniteSet(Entries) /\ IsFiniteSet(fresh) /\ IsFiniteSet({})
      /\ Cardinality({}) = 0
  BY FS_Subset, FS_EmptySet DEF EdgeInv
<1>2. Cardinality(Entries) \in Nat /\ Cardinality(fresh) \in Nat
  BY <1>1, FS_CardinalityType
<1> QED
  BY <1>1, <1>2, EdgeAssumption DEF Kept

(* Proxy: the answer is cached for what is left of the lifetime since the clock *)
(* was read, under the host, address and session it was given for.              *)
LEMMA ProxyKeeps ==
    ASSUME EdgeInv, NEW p \in Req, Proxy(p)
    PROVE  EdgeInv'
<1> PICK r \in Request : r = req[p] /\ RequestOK(r)
  BY RequestTypes DEF EdgeInv
<1> DEFINE k == authzCacheKey(r.host, r.route, r.ip, r.cookie)
           rec == [r EXCEPT !.st = "served"]
<1>0. /\ r.st = "decided" /\ r.host \in Host /\ r.route \in Route /\ TypeOK
      /\ r.at \in Nat /\ r.path \in Path /\ r.at <= now /\ now \in Nat
      /\ UNCHANGED <<now, control, edge>> /\ req' = [req EXCEPT ![p] = rec]
  BY DEF Proxy, RequestOK, Request, EdgeInv, TypeOK, Set
<1>1. /\ rec \in Request /\ rec.st = "served" /\ rec.res = r.res /\ rec.host = r.host
      /\ rec.route = r.route /\ rec.at = r.at /\ rec.path = r.path
      /\ rec.cookie = r.cookie /\ rec.ip = r.ip
  BY DEF Request, State
<1> HIDE DEF rec
<1>2. r.res \notin Public => HeldFor(r, {r.path}, r.at - Bound)
  <2> SUFFICES ASSUME r.res \notin Public PROVE HeldFor(r, {r.path}, r.at - Bound)
    OBVIOUS
  <2> DEFINE X == IF r.stable THEN Path ELSE {r.path}
  <2>1. HeldFor(r, X, r.at) /\ {r.path} \subseteq X /\ X \subseteq Path
    BY <1>0 DEF RequestOK
  <2>2. r.at \in Int /\ r.at - Bound \in Int /\ r.at - Bound <= r.at
    BY <1>0, BoundType
  <2> HIDE DEF X
  <2> QED
    BY <1>0, <2>1, <2>2, HeldEarlier DEF HeldFor
<1>3. Authorized(rec) => HeldFor(rec, {rec.path}, rec.at - Bound)
  BY <1>1, <1>2 DEF Authorized, HeldFor
<1>4. RequestOK(rec)
  BY <1>0, <1>1, <1>3 DEF RequestOK
<1>5. CASE cache' = cache
  <2>1. UNCHANGED <<now, control, edge, cache>>
    BY <1>0, <1>5
  <2> QED
    BY <1>0, <1>1, <1>4, <2>1, RequestStep
<1>6. CASE r.cookie # None /\ r.stable /\ TTL > 0 /\ cache' = put(k, r.at, r.res, r.gen)
  <2>1. k \in Key /\ k.host = r.host /\ k.ip = r.ip /\ k.cookie = r.cookie
    BY <1>0, <1>6 DEF authzCacheKey, Key, Request, Route
  <2> HIDE DEF k
  <2> DEFINE new == [exp |-> r.at + Bound, res |-> r.res, gen |-> r.gen]
             D == Kept(r.at) \cup {k}
  <2>2. Held(r.host, r.cookie, r.ip, r.res, Path, r.at)
    BY <1>0, <1>6 DEF RequestOK, HeldFor
  <2>3. new \in Entry /\ EntryOK(k, new)
    <3>1. new \in Entry
      BY <1>0, <2>2, BoundType DEF Entry, Held, Request
    <3>2. new.exp - Bound = r.at
      BY <1>0, BoundType
    <3> QED
      BY <1>0, <2>1, <2>2, <3>1, <3>2 DEF EntryOK
  <2>4. cache' = [x \in D |-> IF x = k THEN new ELSE cache[x]]
    BY <1>0, <1>6, BoundType DEF put, Stamp
  <2>5. /\ Kept(r.at) \subseteq Entries /\ IsFiniteSet(Kept(r.at))
        /\ Cardinality(Kept(r.at)) \in Nat /\ Cardinality(Kept(r.at)) < MaxEntries
    BY KeptRoom
  <2>6. IsFiniteSet(D) /\ Cardinality(D) <= MaxEntries
    <3>1. /\ IsFiniteSet(D)
          /\ Cardinality(D) = Cardinality(Kept(r.at)) \/ Cardinality(D) = Cardinality(Kept(r.at)) + 1
      BY <2>5, FS_AddElement
    <3> QED
      BY <2>5, <3>1, EdgeAssumption
  <2> HIDE DEF new
  <2>7. D \in SUBSET Key /\ cache' \in [D -> Entry] /\ \A x \in D : EntryOK(x, cache'[x])
    BY <2>1, <2>3, <2>4, <2>5 DEF EdgeInv, TypeOK, Entries
  <2> HIDE DEF D
  <2> QED
    BY <1>0, <1>1, <1>4, <2>6, <2>7, CacheStep
<1> QED
  BY <1>5, <1>6 DEF Proxy

(* The response ends, or the check fails and nothing was proxied. *)
LEMMA EndKeeps ==
    ASSUME EdgeInv, NEW p \in Req, CheckFails(p) \/ Done(p)
    PROVE  EdgeInv'
BY IdleOK, RequestStep DEF CheckFails, Done, Refuse, Set, EdgeInv

-----------------------------------------------------------------------------
(* Every step keeps the invariant. *)
LEMMA NextEdge == EdgeInv /\ [Next]_vars => EdgeInv'
<1> SUFFICES ASSUME EdgeInv, [Next]_vars PROVE EdgeInv'
  OBVIOUS
<1>1. ASSUME NEW p \in Req, Handle(p) PROVE EdgeInv'
  BY <1>1, ServeKeeps, LookupKeeps, CheckKeeps, UngatedKeeps, SessionKeeps, PolicyKeeps,
     ProxyKeeps, EndKeeps DEF Handle
<1>2. CASE UNCHANGED vars
  BY <1>2 DEF vars, control, edge, lost, EdgeInv, TypeOK, RequestOK, HeldFor, EntryOK, Held,
     LiveSince, HostSince, RuleSince, Authorized, Entries, CacheBounded
<1> QED
  BY <1>1, <1>2, TickKeeps, AdminKeeps, PollerKeeps DEF Next

(* The inductive invariant of the request path. *)
THEOREM EdgeCorrect == Spec => []EdgeInv
BY InitEdge, NextEdge, PTL DEF Spec

(* Every variable of the data plane and of the control plane's tables keeps its type *)
(* (server.go, authzcache.go, check.py).                                             *)
THEOREM EdgeTypes == Spec => []TypeOK
<1>1. EdgeInv => TypeOK
  BY DEF EdgeInv
<1> QED
  BY <1>1, EdgeCorrect, PTL

(* Revocation takes effect within the cache lifetime, whatever that lifetime, the    *)
(* number of requests in flight and the order of checks, cached answers, purges and  *)
(* administrators' changes (authzcache.go put and get, check.py).                    *)
THEOREM RevocationIsBounded == Spec => []RevocationBounded
<1>1. EdgeInv => RevocationBounded
  BY DEF EdgeInv, RevocationBounded, RequestOK, HeldFor, Held
<1> QED
  BY <1>1, EdgeCorrect, PTL

(* A decision is never used for an address other than its session's (authzCacheKey, *)
(* resolve_gateway_session).                                                        *)
THEOREM DecisionsAreAddressBound == Spec => []AddressBound
<1>1. EdgeInv => AddressBound
  BY DEF EdgeInv, AddressBound, RequestOK, HeldFor, Held
<1> QED
  BY <1>1, EdgeCorrect, PTL

(* However many requests are decided between two purges, the cache holds at most    *)
(* authzCacheMaxEntries decisions (put).                                            *)
THEOREM CacheIsBounded == Spec => []CacheBounded
<1>1. EdgeInv => CacheBounded
  BY DEF EdgeInv
<1> QED
  BY <1>1, EdgeCorrect, PTL
=============================================================================
