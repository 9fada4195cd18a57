# A TLA+ model of hyproxy

hyproxy is a single-ingress reverse proxy with its own identity provider.  A Go
*data plane* (`dataplane/`) terminates TLS, picks a backend by host name and asks
the Python *control plane* (`server/src/hyproxy/`) about every request; the
control plane is an OpenID Connect provider (`idp/`), a policy decision point and
relying party (`authz/`), an administration API (`admin/`), and brokers for
remote desktops and cameras (`guac/`, `rtsp/`).  All state that outlives a
request is in PostgreSQL; the data plane keeps only a route snapshot and a small
cache of decisions.

This directory models the parts in which correctness depends on what happens
*between* two statements: transactions that interleave, answers that arrive late,
caches that outlive what they were computed from.

## Inventory

| Component | State | Operations | Interacts with | What is hard | What makes it correct |
|---|---|---|---|---|---|
| IdP sessions (`idp/sessions.py`) | table `sessions` | create, check_liveness, touch, revoke | every handler | read, then decided, then written under READ COMMITTED | a revoked, stale or expired session yields nothing |
| Codes, refresh tokens (`idp/oidc/`) | `auth_codes`, `refresh_tokens` | authorize, token (2 grants), revoke, userinfo, logout | sessions, gateway, SPA | concurrent redemption, rotation, reuse; row locks in two orders | one family per code, dead families stay dead, requests end |
| Login flows (`idp/flows.py`, `idp/web/`, `security/`) | `login_flows`, `user_totp`, `recovery_codes`, `webauthn_credentials`, `auth_throttle` | login, totp, enroll, recovery, webauthn, step-up | sessions | double submits, some with and some without a row lock | no session without both factors; codes and challenges used once |
| User administration (`admin/`) | `users`, `user_roles`, credentials | patch, delete, reset, revoke sessions | sessions, flows | revocation racing requests; exceptions roll back | revoke-all is complete |
| Data plane (`dataplane/internal/proxy`) | route snapshot, decision cache | ServeHTTP, SwapRoutes | `/authz/check`, `/authz/routes` | in-flight checks across swaps, stale cached decisions, full cache | bounded revocation, address binding, convergence |
| Decision (`authz/check.py`, `decision.py`, `policy/`) | reads policy tables | check, evaluate | data plane, gateway sessions | what may be cached | deny wins; only path- and time-independent allows are cacheable |
| Gateway (`authz/gateway.py`) | `gateway_login_states`, `gateway_sessions` | start, callback, logout | IdP back channel | state burnt before the exchange succeeds | one session per code, a state ends with its first callback |
| Public gate (`authz/publicgate.py`) | gate password, `public_sessions` | form, submit, rotate | data plane | rotation racing a submit | no session opened before a rotation survives it |
| Grants (`authz/guac.py`, `authz/rtsp.py`, brokers) | `guac_grants`, sealed tokens | token, consume | data plane | double consumption, revocation between mint and use | a grant is used once, by its session |
| RTSP bridge (`rtsp/app.py`) | active streams per user | connect, run, stop | grants, ffmpeg | slots on every way out | slots are given back |
| Keys and DPoP (`core/keys.py`, `idp/oidc/dpop.py`) | `signing_keys`, `dpop_jti_seen` | rotate, gc, verify | tokens | retention against lifetimes | a live token verifies; a proof is not accepted twice within its window |
| Portal (`admin/routes/portal.py`) | `download_requests` | create, approve, deny | qBittorrent | a call inside a transaction; two reviewers | one submission, final decisions |
| Audit (`audit/`) | event tables, ship cursors | emit, ship | all | ids allotted before commit | every event is shipped |
| Bot filter, TLS reload, log rotation, DDNS | small caches | per request, timer | data plane | failures half-way | they recover |
| UI (`ui/`), Node tunnel (`tunnel/`) | browser state | views | APIs | - | not modelled: presentation, a library wrapper |

## Modules

| Module | Models | Checked by | Proved in |
|---|---|---|---|
| `OidcTokens` | sessions, codes, refresh-token families | `MCOidcTokens` | `OidcTokens_proof` |
| `EdgeAuthz` | data-plane request path, decision cache, route poller | `MCEdgeAuthz` | `EdgeAuthz_proof` |
| `LoginFlow` | login flows, second factors, recovery codes | `MCLoginFlow` | `LoginFlow_proof` |
| `SignIn` | what signing in promises, a request being one step (abstract) | as `ImplementsSignIn` | `LoginFlow_proof` |
| `Tunnels` | grants, their consumption by the data plane, the RTSP bridge | `MCTunnels` | `Tunnels_proof` |
| `SlotPool` | what the bridge's stream limit promises (abstract) | as `ImplementsSlotPool` | `Tunnels_proof` |
| `Policy` | rule engine, host-stable test, policy administration | `MCServices` | `AdminServices_proof` |
| `Downloads` | download requests and their review | `MCServices` | `AdminServices_proof` |
| `PublicGate` | public password gate and its administration | `MCServices` | `AccessServices_proof` |
| `GatewayLogin` | the gateway's login states and callbacks | `MCServices` | `TokenServices_proof` |
| `Passkeys` | removal of passkeys, tier changes, step-up | `MCServices` | `AccessServices_proof` |
| `Throttle` | progressive delay on failed sign-ins | `MCServices` | `AccessServices_proof` |
| `SigningKeys` | signing keys, tokens, collection of keys | `MCServices` | `TokenServices_proof` |
| `DpopReplay` | DPoP freshness and replay cache | `MCServices` | `TokenServices_proof` |
| `AuditShip` | audit rows, shipping past a cursor | `MCServices` | `AccessServices_proof` |
| `LogRotate` | the data plane's log writer | `MCServices` | `AdminServices_proof` |
| `MCServices` | the composition of the ten smaller components | itself | `Services_proof` |

### `OidcTokens`: sessions, codes, refresh-token families

One request is one transaction.  A *step* is one SQL statement together with the
Python up to the next one, so two requests interleave exactly where PostgreSQL at
READ COMMITTED lets them.  A column that only goes from NULL to a value is the
set of rows where it is set (`sRevoked`, `cConsumed`, `tUsed`, ...).  `wr[p]` is
what request `p` has written and not committed: other requests do not see it, but
the rows it updates are locked, `Waits` delays a statement that needs one, and a
cycle of waits makes one request the detector's victim (`DeadlockVictim`).
`pc[p]` is the next statement, `req[p]` the arguments and locals (`at` is the
handler's `now`).  `Commit` is `session.begin()` exiting; `Rollback` is what an
`HTTPException` does to it; `Crash` is a lost connection or process.

The operations are the handlers: `Login` (the last step of a login), `authorize`,
`logout`, `TokenByCode`, `TokenByRefresh`, `revoke_endpoint`, `Resource`
(userinfo and the admin or portal API), `RevokeAll`, `PatchStatus`; the statements
carry the source's names (`check_liveness`, `touch`, `consume_code`, `rotate`,
`revoke_family`, ...).  The outcomes of checks on request data that have no state
(client, redirect URI, PKCE: `match`; DPoP key: `key`; address: `ip`) are inputs.
`born`, `dead` and the `code` of a token are history for the properties.

### `EdgeAuthz`: request path, decision cache, route poller

A request loads the snapshot (`ServeHTTP`), reads the clock and the cache
(`serveApp`), is checked by the control plane in three reads (`check`,
`resolve_gateway_session`, `evaluate_access`) and, when allowed, stores its
decision and is proxied (`Proxy`).  The poller fetches, swaps and purges in three
steps, as `SwapRoutes` stores the snapshot before it purges.  Administrators end
sessions, change verdicts and move hosts at any time.  The policy engine's
verdict is abstracted to *none*, *path* (or time) dependent, or *host*-wide, which
is all that the cache distinguishes.  A check can fail or its answer be lost at any
point: the request is refused.  `lostLive`, `lostRule`, `lostHost` and `gen` are
history.

### `LoginFlow` and `SignIn`: flows, second factors, recovery codes

The same style as `OidcTokens`: a request starts with its first statement
(`get_stage_flow`, which locks the flow row only for `totp_submit` and the passkey
endpoints), reads its user and tier (`flow_user`) and goes on statement by
statement; `wr[p]` holds its uncommitted writes and its row locks (flow, TOTP row,
codes).  `Abort` is every rollback: an update of a row that is gone
(`StaleDataError`), an insert of one that exists (`IntegrityError`), a deadlock's
victim, a crash.  The actions are `login_form`, `login_submit`, `totp_submit`,
`enroll_totp_form`, `enroll_totp_submit`, `recovery_submit`, `webauthn_options` and
`webauthn_verify`, with `patch_user` (status, tier), `reset_totp` and the flow's
expiry as environment.  A TOTP code is the secret it was computed from; a wrong
password or assertion is `good = FALSE`; cookie and CSRF mismatches end a request
before it changes anything and are left out, and so is the rotation of the CSRF
token; the throttle may refuse any submit.  `dropped`, `proved`, `spent` and `met`
are history.

`SignIn` is the promise without flow stages, locks and statements: passwords accepted,
authenticators, recovery codes, challenges and sessions, each request one step.  The
check of an authenticator's code is a step of its own (`Show`), because `totp_submit`
and `enroll_totp_submit` read the TOTP row without a lock and the session follows later:
the authenticator can be replaced or given up in between.  `ImplementsSignIn` maps
`accepted` to `proved`, `asked` to the challenges in the flow rows, `redeemed` to the
codes spent, and `shown` to the requests past their check (`Checked`); the other tables
map to themselves.  A request's commit is its step, every statement before it a stutter
and an abort nothing but the loss of a check.

### `Tunnels` and `SlotPool`: from the token to the reaped child

The control plane mints a token with a grant row (`rtsp_token`, `guac_token`), the
data plane consumes it for a WebSocket (`Connect`, `rtsp_consume` / `guac_consume`,
`Consume`: the session first, the grant in one `UPDATE`), and the bridge process
serves the stream (`Accept`, `Enter`, `StartProbe` ... `Cleanup`, `Release`).  A step of
the bridge runs from one `await` to the next.  `LockFree` is `_active_lock`, which is
held across an await in one place only, the refusal of a viewer over the limit.  An
answer that the data plane loses closes the socket and leaves the grant consumed.
`SlotPool` is the promise of the limit, without counter, lock or processes;
`ImplementsSlotPool` maps its `held` to the handlers between `Enter` and `Release`.

### `Policy`: rules, verdict, host-stable test

`evaluate`, `rule_applies` and `time_window_matches` are operators over the rows;
`EdgeAuthz` knows only their verdict.  A path is the sequence of its segments.
`host_stable` decides what `EdgeAuthz` may cache for a whole host.

### The smaller components

Each is in the style of the modules above: one statement, await or call is one step,
uncommitted writes are in the request's own record, locks are explicit.

- `PublicGate`: `gate_submit` against `rotate_public_password` and `patch_resource`.
  A session's INSERT does not wait for the administrator's UPDATE of the resource.
- `GatewayLogin`: `start`, `callback`, `logout` and the collection of states; the IdP's
  side is external.  A callback reads the state, deletes it, calls the back channel and
  commits the deletion also when the exchange failed.
- `Passkeys`: `delete_credential`, `patch_user`, `stepup_options`, `stepup_verify`.
- `Throttle`: `check`, the credential, `register_failure` (upsert, lock, update) and
  `reset_account`.
- `SigningKeys`: `create_pending`, `activate_pending` by two operators at once,
  `gc_retired`, and the signing and verification of tokens.
- `DpopReplay`: the acceptance window, `check_and_store` and its collection.
- `AuditShip`: ids allotted at INSERT, visible at COMMIT; overlapping runs of
  `ship-logs`, an HTTP or a file sink, failures half-way through a batch.
- `Downloads`: `create_download`, `approve_download`, `deny_download`; qBittorrent is called inside the
  transaction, its answer can be lost and the transaction can fail after it.
- `LogRotate`: `Write` with rotation; a rename or reopen can fail; restarts.

## Runs

| Run | Instance | Checks |
|---|---|---|
| `oidc` | 2 requests, 1 session, 1 code, 3 tokens, clock stopped, crashes | `TypeOK`, `OneFamilyPerCode`, `NoGrantAfterRevocation`, `NoRotationOfUsedToken`, `NoGrantInDeadFamily`, `FamilyCoherent`, `RevokeAllComplete` |
| `oidc_time` | 1 request at a time, 2 sessions, clock to 4 (absolute bound 3, idle 1) | `NoGrantPastAbsoluteExpiry` |
| `oidc_live` | 2 requests, login to refresh | `EveryRequestEnds` |
| `oidc_single_use` | 2 refreshes | violation of `RefreshTokenSingleUse` |
| `oidc_address` | 1 API request | violation of `AddressChangeMarksStale` |
| `edge` | 1 request, 3 hosts (one infra), 2 resources (one public), 1 cookie, clock to 2, 2 changes, cache of 1 | `TypeOK`, `RevocationBounded`, `AddressBound`, `CacheBounded`, `RoutesConverge` |
| `edge_purge` | as `edge`, 2 hosts | violation of `PurgeDropsOldDecisions` |
| `login` | 2 requests, 1 user, 1 flow, 3 secrets, 4 recovery codes in 3 batches, 2 sessions, 1 administrator's change or expiry | `TypeOK`, `OneSessionPerSubmit`, `LostAuthenticatorDead`, `RecoveryCodeOnce`, `ImplementsSignIn` (refinement) |
| `login_passkey` | 2 requests, a standard user and the bootstrap admin, 2 flows, 1 challenge, 2 sessions, 1 change | `PasswordFirst`, `ChallengeOnce` |
| `login_tier` | 1 user with passkeys, 1 change | violation of `AdminsUsePasskeys` |
| `tunnels` | 2 connects, 2 grants, 2 users with 1 slot each, 1 address | `ChildrenBounded`, `GrantOnce`, `RevokedNotReopened`, `ImplementsSlotPool` (refinement), `EveryStreamEnds` (liveness) |
| `services` | ten components, one moving at a time (below) | `ServicesTypeOK` and the properties below |

The components of `services` share no variable, so a behaviour in which several move is
an interleaving of behaviours in which one does; `part` picks the one.

| Part | Instance | Property: what it says |
|---|---|---|
| `PublicGate` | 1 submit, 2 editors, 3 edits | `SessionGrantCurrent`: a live session was opened on the link as it is now |
| `Downloads` | 2 rows, 2 reviewers, 3 calls | `SubmittedOnce`: a magnet goes out once, beyond lost answers |
| `SigningKeys` | 3 keys, 2 operators, clock to 4 | `OneActiveKey`; `TokensVerify`: a token verifies until it expires |
| `DpopReplay` | 2 proofs, window 3, skew 1, clock to 8 | `ReplayOnlyPastWindow`: when a proof can be accepted again |
| `AuditShip` | 3 rows, 2 shippers, batches of 2, 3 runs | `ShippedBelowCursor`: what the cursor passed was shipped |
| `LogRotate` | 3 archives of 2 lines, 10 lines | `NewestLinesKept`: the files are the newest lines, without a gap |
| `Throttle` | 3 attempts at once of 4, 1 address | `FailuresCounted`: no failure is lost; `GuessesBounded`: how far a burst gets |
| `Passkeys` | 4 passkeys (1 break-glass), 2 requests | `AuthenticatorFloor`: how far overlapping deletions get; `SpentChallengeGone` |
| `GatewayLogin` | 2 states, 2 codes, 2 callbacks at once of 3 | `LoginStateOnce`: a state ends with the first callback, a code gives one session |
| `Policy` | 2 rules, 2 roles, 2 ports, 3 paths, a window across midnight | `HostStableSound`: a host-wide allow holds on every path at every time |

*Bounds.*  Two requests are enough for every race listed in the hazards, each of
which has two parties; a third token is needed for two children of one parent.
Concurrency and time are separate runs: every comparison of times in the code is
with the request's own `now`, so a clock that moves while two requests interleave
adds no comparison that one of the two runs lacks.  The clock of `oidc_time` goes
past the absolute bound, so the touch throttle, the idle timeout and the bound all
trip.  In `edge`, the lifetime is 1 and the clock goes to 2, so an entry can be
used within its lifetime and looked up after it; `MaxEntries` is 1, so the second
key finds the cache full; both resources have the same port, so keys do not tell
them apart.  `OutOfIds` drops a request for which the model has no identifier left.
`login` has one flow, which two requests share, and enough secrets and batches for
an enrollment, a recovery and the enrollment after it; the first batch has two
codes, so a code is left when one is spent.  `login_passkey` has two users, so that
racing password submits can give one flow two users, and a second flow, so that one
can be deleted and replaced while a submit holds it.  A request that needs an
identifier when none is left can only abort.  In `tunnels` two connects race for one
grant or for one user's slot, and a second user shows that slots are not mixed up; one
address is enough there, as the address only ever refuses.  In `services` every race
has its two parties; the throttle has three, as its bound depends on their number; the
clocks pass every lifetime; the archives of `LogRotate` are filled and shifted out.
`AccessTTL + MaxLag <= RetireBuffer` is the code's 10 and 15 minutes with five minutes
for a rotation command between its clock reading and its commit.

*Fairness.*  `OidcTokens`: strong fairness of each opened request's steps (the
event loop runs every handler, a released lock goes to some waiter, the deadlock
detector ends every cycle); nothing is assumed of arrivals, crashes or the clock.
`EdgeAuthz`: weak fairness of the poller, whose ticker never stops; a fetch that
fails is a stutter.  `RoutesConverge` therefore assumes that some fetch succeeds.

`Tunnels`: weak fairness of each handler's next step (every await of the bridge and
of the data plane is timed, waits for a child that is being killed, or is bounded by
the WebSocket library's own time-outs) and of the stream's deadline; nothing is assumed
of browsers, cameras or ffmpeg.  The other modules state no liveness.

*Deadlock* is checked in the first ten runs: a slot that is free accepts another
request.  In `tunnels` and `services` identifiers and bounded numbers of requests run
out, so a behaviour may end (`CHECK_DEADLOCK FALSE`); `EveryStreamEnds` excludes that
`tunnels` stops with a stream open.

Each property has a mutant in `PROJECT.json`: a variant `Op_variant` of a mapped
definition, with which TLC must find it violated.

## What the violations show

- `oidc_single_use`: `refresh.py` promises that "every refresh token is
  single-use".  `find` takes no lock and `rotate` updates by primary key, so two
  simultaneous refreshes with one token both succeed.  The damage is bounded:
  neither child outlives the session (`FamilyCoherent`), and a third use of the
  parent kills both (`NoGrantInDeadFamily`).
- `oidc_address`: `check_liveness` "marks stale on change".  Through the admin and
  portal API the mark is rolled back with the `HTTPException` of the refusal.
- `edge_purge`: the cache "is purged on any real route table change", but a check
  in flight across the swap stores its answer after the purge.  `RevocationBounded`
  still bounds its life by the cache lifetime.
- `login_tier`: "the assertion is the ONLY way an admin completes login".  The
  factor is chosen by the tier at the password step; `totp_submit` does not look at
  the tier again, while `create_session` records the tier of that moment.  A user
  promoted in between gets an admin-tier session with a TOTP code.

What else the models make visible, without contradicting a promise (each is a named
exception in a property, so the property says how far it goes):

- A gate submit that overlaps a password rotation can leave a session on the old
  password (`late` in `SessionGrantCurrent`).
- An audit row that commits after a later row was shipped stays below the cursor
  (`overtaken`), and the file sink drops a record it cannot write (`dropped`).
- A DPoP proof dated in the future can outlive its replay row by the skew
  (`ReplayOnlyPastWindow`).
- Overlapping deletions of passkeys undercut the floor of two, one each
  (`AuthenticatorFloor`); reactivating an admin does not count passkeys.
- Two callbacks with two codes of one login state, both past the read of the state,
  both get a session (`LoginStateOnce`).
- A rotation that fails after the file was closed leaves the descriptor closed: the
  `Close` of every later rotation fails too, and lines are lost until the process
  restarts (`stored` in `LogRotate` has the ones that were written), although the comment
  in `logrotate.go` says "Never drop the log line over a rotation failure; keep
  appending".
- A guac tunnel that is open stays open when its session ends (`TunnelEnds`); the
  grant stops a reconnect.
- rtsp grants and public sessions are not collected by `gc`.

## Proofs

Every theorem is for all values of the constants that satisfy the named `ASSUME`s.

**`OidcTokens_proof`** (any number of users, sessions, codes, tokens and requests, all
timeouts; `NoneAssumption`: NULL is no identifier; `TimeAssumption`: times are naturals):

- `InvInductive`: `Spec => []IInv`;
- `TypeCorrect`: `TypeOK`;
- `RevocationIsFinal`: `NoGrantAfterRevocation`;
- `UsedTokenIsFinal`: `NoRotationOfUsedToken`.

`NoGrantAfterRevocation` is about the moment a grant is made, several statements
after the session was read, so it is not inductive.  `IInv` adds what each control
point implies: `ArgsOK` (which arguments are set), `FoundOK` (a refresh works on a
committed token and its session), `LiveOK` and `UnusedOK` (past the liveness check
the session was not gone when the request began; past the lookup the token was not
used then), and facts about rows: `RowsOK` (references point to rows),
`InsertsPrivate` (an uncommitted row belongs to one request), `BornOK` (what a
request found gone is gone still).  The proof shows that every statement moves its
request to a label and locals that satisfy the control facts (`StepMoves`), that
every statement but the inserts and the ends of transactions is quiet about rows
(`StepQuiet`), and that other requests keep what they had (`OthersKeep`).

`RevokeAllComplete`, `FamilyCoherent` and the others are about what a transaction writes
before it commits, and need a second invariant `JInv` beside `IInv`.  For each request:
`AliveOK` (past the liveness check it is before the session's absolute bound), `CodeOK` (a
code grant that has consumed its code has issued nothing yet), `KilledOK` (a reuse that
is done has its session revoked) and `LoopOK` (a revoke-all has still to do, is doing or
has done every session it owes).  For the rows: `ConsOK` (a code is consumed once, by one
transaction), `TokensOK` (a token's parent, family, session and expiry, and the mark of
its origin, also while it is uncommitted) and `DeadOK` (a dead family's session is
revoked).  From `FamiliesInductive`:

- `CodesAreSingleUse`: `OneFamilyPerCode`;
- `FamiliesAreCoherent`: `FamilyCoherent`;
- `DeadFamiliesStayDead`: `NoGrantInDeadFamily`;
- `AbsoluteBoundHolds`: `NoGrantPastAbsoluteExpiry`;
- `RevokeAllIsComplete`: `RevokeAllComplete`.

**`EdgeAuthz_proof`** (any hosts, resources, sessions, requests, lifetimes and cache size;
`NoneAssumption`, `EdgeAssumption`): `EdgeCorrect`, `EdgeTypes`, `RevocationIsBounded`,
`DecisionsAreAddressBound`, `CacheIsBounded`.  `RevocationBounded` speaks of the request
that is served; between the session, the policy and the cache there are other requests,
purges and changes.  `EdgeInv` says what the state of each request carries (`RequestOK`:
what held at its clock reading or later) and what each cache entry carries (`EntryOK`: what
held since its expiry less the lifetime, on every path, because only host-stable decisions
are stored).  No change loses such a fact, for it records its own time (`AdminKeepsHost`
and the lemmas next to it), and a hit passes the entry's facts on to the request.  The
bound on the cache needs the set of entries to be finite: a full cache keeps its unexpired
entries, or none if there are too many, before it stores one.

**`LoginFlow_proof`** (any users, flows, secrets, codes, challenges, sessions and requests;
`NoneAssumption`, `StartAssumption`, `KindAssumption`: a TOTP secret is not a passkey
challenge, and `RowAssumption`: NULL is not a row): `LoginCorrect`, `LoginTypes`, `SubmitsMakeOneSession`, `PasswordAlwaysFirst`,
`LostAuthenticatorsStayDead`, `RecoveryCodesUsedOnce`, `NewBatchReplacesAll`,
`ChallengesUsedOnce`.  Each property depends on a row lock that is held from a read to the
commit, so `LInv` has three parts.  `Stored` is about the committed tables and the
histories (`FlowsStored`, `TotpStored`, `CodesStored`, `SessionsStored`); `Alone` says of
one request what its point in the code lets it have written and what its locks protect
until it ends (`Path`, `Pending`, `FlowHeld`, `ProofHeld`, `TotpHeld`, `CodesHeld`);
`Apart` says that two requests lock different rows and draw different identifiers.  A
step before the commit changes its own request only and takes locks nobody has; a commit
changes the tables only at rows it has locked, so what the others hold stays true.

`LoginImplementsSignIn` is the refinement.  It needs one invariant more, `SessionsNew`
(`SessionsAreNew`): the session a request is about to insert is new and no other
request's, and an enrollment or a recovery at its commit has written its batch, its
session and the deletion of its flow, or its used code.  The steps of a request but its
check and its commit only take marks out of `Checked` (`ForgetsOnly`, `WorkForgets`); the
two checks add one (`ShowsOne`, `CheckShows`); the commits go kind by kind
(`CommitPlain`, `CommitAnswers`, `CommitEnrolls`, `CommitRecovers`), each from what
`LInv` says the row locks have protected since the rows were read.

**`TokenServices_proof`** has the three components behind tokens.

- Signing keys (any keys, operators and times; `KeyAssumption`: `AccessTTL + MaxLag <=
  RetireBuffer`, the 600 s of a token and the slack of the 15 minutes of `keys.py`):
  `KeysCorrect`, `ExactlyOneActiveKey`, `TokensOutlivedByKeys`.  `ActivationOK` is what the
  partial unique index gives: one transaction has an uncommitted active row, and it has
  demoted all other active keys.  `TokensOK` bounds a token's expiry by the retirement of
  its key.
- DPoP (any proofs, window and skew; `DpopAssumption`): `DpopCorrect`, `NoReplayInWindow`.
  `Remembered`: an acceptance has a row until the window after it is over, or it is over.
- Gateway (any states, finitely many codes; `GatewayAssumption`): `GatewayCorrect`,
  `LoginStatesUsedOnce`.  `RedeemedOnce`: the token endpoint answers one callback per code,
  and that one has made no session of it yet.

**`AccessServices_proof`** has four more.

- Public gate (any visitors, editors, sessions, passwords; `GateAssumption`): `GateCorrect`,
  `SessionsGrantTheCurrentLink`.  `VisitsOK`: a submit that overlapped no revocation has
  read the link as it is; `HitsOK`: a revocation about to commit has every session opened
  on the old link.
- Passkeys (finitely many passkeys and requests; `PasskeyAssumption`): `PasskeysCorrect`,
  `AnsweredChallengesGone`, `FloorUndercutBounded`.  `ChallengeOK`: the session's row lock
  lets one challenge be on its way, newer than all that were read; `FloorOK` counts the
  deletions that have passed the count and not yet committed.
- Throttle (any addresses, finitely many attempts at once; `ThrottleAssumption`):
  `ThrottleCorrect`, `NoFailureLost`, `BurstsAreBounded`.  `AttemptOK`: an uncommitted counter
  is the committed one and one more, or one where the window was over, and its row is
  locked; `GuessOK` counts the requests past the check while the account is blocked.
  `ThrottleTypes`: no counter and no number of guesses passes `MaxAttempts`, because the
  requests in progress and the failures counted are together never more than were made
  (`ThrottleBounds`).
- Audit shipping (any number of shippers; `ShipAssumption`): `ShippingCorrect`,
  `CursorPassesOnlyShipped`.  `Covered` and `RunOK` carry the claim over a run's batch from
  the read to the commit of the cursor; `InOrder`: ids are handed out in order.

**`Tunnels_proof`** (any number of connects, finite; `TunnelAssumption`):
`TunnelInvariant`, `GrantOnceAlways`, `RevokedStaysShut`, `ChildrenAlwaysBounded` and the
refinement `BridgeImplementsPool`.  None of the properties but `GrantOnce` is inductive.
`TunnelInv` adds `ChildOwned` (a child runs only at points from which `Cleanup` or the end
of the probe is still to come), `Counted` (`_active` is the number of slots held) and
`SessionSeen` (past the session check the session was live when the connect began;
before it, a session live now was live then).  `Moved` says that one handler goes on and
the others stay; each action is a move, and `SlotStep` sums up what a step does to the
slots: nothing, one free slot taken, or the stream's own given back.  The invariant and
the refinement both follow from that.

**`AdminServices_proof`** has the last three.

- Downloads (any number of rows, reviewers and calls): `DownloadInvariant`,
  `SubmittedOnceAlways` and `DecisionIsFinal`.  The strengthening is what the row lock
  gives: `Exclusive` (one handler at a row) and `Undecided` (its committed status is the
  one the handler found).
- Policy (any rules, roles, ports, paths and times): `PolicyTypes`; `HostStableAlways`,
  because a rule that applies is relevant and an unconstrained relevant rule applies
  everywhere; `WindowIsCyclic`, that a window across midnight is an interval around the
  clock.
- Log rotation (any size, number of archives and of lines; `LogAssumption`):
  `LogCorrect`, `LogTypes`, `NewestLinesAlwaysKept`.  That the files hold enough lines is
  not inductive: it takes how full each archive is.  `LogInv` adds `LiveOK` (while the
  live file is open it is as long as `w.size` says), `Ordered` (every file ascends, and an
  older archive has older lines), `KeepsNewest` (no stored line newer than a kept one is
  missing) and `Filled` (an archive is full or empty; an empty one below a full one, or
  any empty one once a line has been removed, is due to a rotation that failed half-way).
  A rotation moves every archive up by one, so the count of empty ones follows by
  comparing their sets before and after.

**`Services_proof`** is about the composition that the `services` run checks.  A step of
it is a step of one component and leaves the variables of the others alone
(`ServiceSteps`), so `ServicesImplementEach`: it implements the specification of each.
Hence `ServicesTypesHold` (`ServicesTypeOK`) and `ServicesSafe`, all other invariants of
the run, from the theorems of the three modules above.

With these every safety property that a passing run checks is also proved.  Only
model-checked is liveness (`EveryRequestEnds`, `RoutesConverge`, `EveryStreamEnds`): the
prover does not reason about fairness.

## Plan

1. `OidcTokens`, `EdgeAuthz`, `LoginFlow` (done).
2. `Tunnels` with its refinement, `Policy`, and the smaller components (done).
3. Theorems for every safety property of the runs, the composition and the refinement of
   `SignIn` included (done).
4. What could follow: passkey enrollment, the bot filter's cache, and an abstract
   specification of `OidcTokens` in the style of `SignIn`.

## Not modelled

Cryptography (hashes, signatures, sealing and re-encryption are perfect), HTML and UI,
the Node tunnel (a wrapper around guacamole-lite), DNS and GeoIP lookups and the bot
filter around them, certificate reload and dynamic DNS (one idempotent call each), the
enrollment of passkeys and the creation of users, roles and role assignments (inserts
that no other request waits for), the bootstrap commands, the backends behind the proxy.
