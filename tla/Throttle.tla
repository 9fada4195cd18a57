------------------------------ MODULE Throttle ------------------------------
(***************************************************************************)
(* The progressive delay on failed sign-ins (security/ratelimit.py) and the *)
(* handlers that call it around a credential check: login_submit and the    *)
(* public gate's submit.  Requests for one account, from a few addresses,   *)
(* run at once; each is one READ COMMITTED transaction, a step of it one    *)
(* statement.  auth_throttle holds a row per address and one for the        *)
(* account.                                                                 *)
(***************************************************************************)
EXTENDS Naturals, FiniteSets

CONSTANTS
    Attempt,        \* requests that can run at once
    SourceIp,       \* client addresses
    Account,        \* the account key
    NoAttempt,      \* no lock holder
    IpFree,         \* throttle_ip_free_failures
    AccountFree,    \* throttle_account_free_failures
    DelayCap,       \* throttle_*_max_delay
    ThrottleWindow, \* throttle_window
    MaxAttempts,    \* bound: requests made
    MaxTime         \* bound: the clock

ASSUME ThrottleAssumption ==
    /\ {IpFree, AccountFree, DelayCap, ThrottleWindow, MaxAttempts, MaxTime} \subseteq Nat
    /\ Account \notin SourceIp /\ NoAttempt \notin Attempt
    /\ IsFiniteSet(Attempt) /\ Attempt # {}

VARIABLES
    throttle,   \* committed auth_throttle rows
    holder,     \* holder[k] is the request that holds the lock of row k
    attempt,    \* attempt[a] is the request a is serving
    time,       \* the clock
    made,       \* requests made
    fails,      \* fails[k]: failures committed against k in its window (history)
    extra       \* credentials evaluated since the account was blocked (history)

throttleVars == <<throttle, holder, attempt, time, made, fails, extra>>

ThrottleKey == SourceIp \cup {Account}

\* A row, or Gone: it is absent, or, as a pending write, it is deleted.
Gone == [here |-> FALSE, count |-> 0, window |-> 0, next |-> 0]
Row(n, w, t) == [here |-> TRUE, count |-> n, window |-> w, next |-> t]

Rest == [pc |-> "rest"]

ThrottleInit ==
    /\ throttle = [k \in ThrottleKey |-> Gone]
    /\ holder = [k \in ThrottleKey |-> NoAttempt]
    /\ attempt = [a \in Attempt |-> Rest]
    /\ time = 0 /\ made = 0
    /\ fails = [k \in ThrottleKey |-> 0]
    /\ extra = 0

Free(k) == IF k = Account THEN AccountFree ELSE IpFree

\* 2^n beyond the free failures, up to the cap.
delay_seconds_uncapped(k, n) == IF n <= Free(k) THEN 0 ELSE 2 ^ (n - Free(k))
delay_seconds(k, n) ==
    IF n <= Free(k) THEN 0
    ELSE IF 2 ^ (n - Free(k)) < DelayCap THEN 2 ^ (n - Free(k)) ELSE DelayCap

\* A request arrives; its `now` is taken once.
Arrive(a, ip) ==
    /\ attempt[a].pc = "rest" /\ made < MaxAttempts
    /\ made' = made + 1
    /\ attempt' = [attempt EXCEPT ![a] =
           [pc |-> "check", key |-> ip, ip |-> ip, now |-> time, allowed |-> TRUE,
            write |-> [k \in {} |-> Gone], reset |-> {}]]
    /\ UNCHANGED <<throttle, holder, time, fails, extra>>

\* check: one SELECT per key, the address first; both are read before the verdict.
CheckKeys_ip(a) == {attempt[a].ip}
CheckKeys(a) == {attempt[a].ip, Account}

check(a) ==
    LET k == attempt[a].key
        ok == attempt[a].allowed /\ throttle[k].next <= attempt[a].now
    IN  /\ attempt[a].pc = "check"
        /\ attempt' = [attempt EXCEPT ![a] =
               IF k # Account /\ Account \in CheckKeys(a)
               THEN [@ EXCEPT !.key = Account, !.allowed = ok]
               ELSE IF ok THEN [@ EXCEPT !.pc = "evaluate"]
               ELSE Rest]
        /\ UNCHANGED <<throttle, holder, time, made, fails, extra>>

Blocked(k) == throttle[k].next > time

\* verify_password: a miss goes on to register_failure, a match to reset_account.
Evaluate(a) ==
    /\ attempt[a].pc = "evaluate"
    /\ attempt' \in {[attempt EXCEPT ![a] = [@ EXCEPT !.pc = "insert", !.key = attempt[a].ip]],
                     [attempt EXCEPT ![a] = [@ EXCEPT !.pc = "delete"]]}
    /\ extra' = IF Blocked(Account) THEN extra + 1 ELSE extra
    /\ UNCHANGED <<throttle, holder, time, made, fails>>

Idle(k) == holder[k] = NoAttempt

\* The uncommitted insertion or deletion of a row by another request, which an
\* INSERT ... ON CONFLICT waits for.
InDoubt(k) == ~Idle(k) /\ (~throttle[k].here \/ ~attempt[holder[k]].write[k].here)

\* A request's uncommitted rows, with one more written.
Added(w, k, r) == [l \in DOMAIN w \cup {k} |-> IF l = k THEN r ELSE w[l]]

\* register_failure, INSERT ... ON CONFLICT DO NOTHING.
Insert(a) ==
    LET k == attempt[a].key
        new == Row(0, attempt[a].now, attempt[a].now)
    IN  /\ attempt[a].pc = "insert" /\ ~InDoubt(k)
        /\ IF throttle[k].here
           THEN /\ attempt' = [attempt EXCEPT ![a].pc = "lock"]
                /\ UNCHANGED holder
           ELSE /\ holder' = [holder EXCEPT ![k] = a]
                /\ attempt' = [attempt EXCEPT ![a] =
                       [@ EXCEPT !.pc = "lock", !.write = Added(attempt[a].write, k, new)]]
        /\ UNCHANGED <<throttle, time, made, fails, extra>>

\* SELECT ... FOR UPDATE waits for the row's lock.
Lockable_unlocked(a, k) == holder[k] # a => throttle[k].here
Lockable(a, k) == holder[k] \in {a, NoAttempt}

\* ... and the row it returns: the request's own insertion, or the committed one.
Selected(a, k) == IF k \in DOMAIN attempt[a].write THEN attempt[a].write[k] ELSE throttle[k]

\* The count and the delay of one more failure; an old window starts afresh.
Expired(r, now) == r.window + ThrottleWindow < now
Counted(r, k, now) ==
    LET n == IF Expired(r, now) THEN 1 ELSE r.count + 1
    IN  Row(n, IF Expired(r, now) THEN now ELSE r.window, now + delay_seconds(k, n))

\* SELECT ... FOR UPDATE and the update of the row; the account's row follows the
\* address's.  The row may have been deleted since the INSERT found it (FailLocked).
LockAndCount(a) ==
    LET k == attempt[a].key
        r == Selected(a, k)
    IN  /\ attempt[a].pc = "lock" /\ Lockable(a, k) /\ r.here
        /\ holder' = [holder EXCEPT ![k] = a]
        /\ attempt' = [attempt EXCEPT ![a] =
               [@ EXCEPT !.pc = IF k = Account THEN "commit" ELSE "insert",
                         !.key = Account,
                         !.write = Added(attempt[a].write, k, Counted(r, k, attempt[a].now)),
                         !.reset = IF Expired(r, attempt[a].now) THEN attempt[a].reset \cup {k}
                                   ELSE attempt[a].reset]]
        /\ UNCHANGED <<throttle, time, made, fails, extra>>

Unheld(a) == [k \in ThrottleKey |-> IF holder[k] = a THEN NoAttempt ELSE holder[k]]

\* `assert row is not None` fails: the request ends in an error and all it wrote,
\* the failure counted against the address included, is rolled back.
FailLocked(a) ==
    LET k == attempt[a].key
    IN  /\ attempt[a].pc = "lock" /\ Lockable(a, k) /\ ~Selected(a, k).here
        /\ holder' = Unheld(a)
        /\ attempt' = [attempt EXCEPT ![a] = Rest]
        /\ UNCHANGED <<throttle, time, made, fails, extra>>

\* reset_account: DELETE waits for the row's lock, and sees no uncommitted row.
reset_account(a) ==
    /\ attempt[a].pc = "delete"
    /\ \/ /\ ~throttle[Account].here
          /\ attempt' = [attempt EXCEPT ![a].pc = "commit"]
          /\ UNCHANGED holder
       \/ /\ throttle[Account].here /\ Idle(Account)
          /\ holder' = [holder EXCEPT ![Account] = a]
          /\ attempt' = [attempt EXCEPT ![a] = [@ EXCEPT !.pc = "commit", !.write = [k \in {Account} |-> Gone]]]
    /\ UNCHANGED <<throttle, time, made, fails, extra>>

\* The transaction commits: its writes are visible and its locks free.
CommitAttempt(a) ==
    LET w == attempt[a].write
    IN  /\ attempt[a].pc = "commit"
        /\ throttle' = [k \in ThrottleKey |-> IF k \in DOMAIN w THEN w[k] ELSE throttle[k]]
        /\ holder' = Unheld(a)
        /\ attempt' = [attempt EXCEPT ![a] = Rest]
        /\ fails' = [k \in ThrottleKey |->
               IF k \notin DOMAIN w THEN fails[k]
               ELSE IF ~w[k].here THEN 0
               ELSE IF k \in attempt[a].reset THEN 1
               ELSE fails[k] + 1]
        /\ extra' = IF throttle'[Account].next > time THEN extra ELSE 0
        /\ UNCHANGED <<time, made>>

TickTime ==
    /\ time < MaxTime
    /\ time' = time + 1
    /\ extra' = IF throttle[Account].next > time' THEN extra ELSE 0
    /\ UNCHANGED <<throttle, holder, attempt, made, fails>>

ThrottleNext ==
    \/ \E a \in Attempt :
          \/ \E ip \in SourceIp : Arrive(a, ip)
          \/ check(a) \/ Evaluate(a) \/ Insert(a) \/ LockAndCount(a)
          \/ FailLocked(a) \/ reset_account(a) \/ CommitAttempt(a)
    \/ TickTime

ThrottleSpec == ThrottleInit /\ [][ThrottleNext]_throttleVars

-----------------------------------------------------------------------------
(* Properties *)

ThrottleTypeOK ==
    /\ throttle \in [ThrottleKey -> [here : BOOLEAN, count : 0 .. MaxAttempts,
                                     window : 0 .. MaxTime, next : 0 .. MaxTime + DelayCap]]
    /\ holder \in [ThrottleKey -> Attempt \cup {NoAttempt}]
    /\ \A a \in Attempt : attempt[a].pc \in
          {"rest", "check", "evaluate", "insert", "lock", "delete", "commit"}
    /\ time \in 0 .. MaxTime /\ made \in 0 .. MaxAttempts
    /\ fails \in [ThrottleKey -> 0 .. MaxAttempts] /\ extra \in 0 .. MaxAttempts

\* No failure is lost: the row of an address or an account counts every failed
\* attempt committed against it in its window, however they overlap ("Upsert so
\* concurrent first-failures don't race, then lock and update").
FailuresCounted == \A k \in ThrottleKey : throttle[k].here => throttle[k].count = fails[k]

\* The check precedes the credential and the failure follows it, so a burst passes
\* the check together.  While the account stays blocked only the other requests
\* already past the check evaluate a password: fewer than run at once.
GuessesBounded == extra < Cardinality(Attempt)
=============================================================================
