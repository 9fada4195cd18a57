------------------------------- MODULE Policy -------------------------------
(***************************************************************************)
(* The policy engine (policy/engine.py) over the rules of one resource, the *)
(* test that lets the data plane cache an allow for a whole host            *)
(* (authz/decision.py), and the administration of the rules                 *)
(* (admin/routes/policies.py).  EdgeAuthz knows the engine only by its      *)
(* verdict; this module is what that verdict stands for.                    *)
(*                                                                          *)
(* A nullable list is a set with at most one element, the list: {} is NULL. *)
(* A path is the sequence of its segments, with "" after a trailing slash.  *)
(***************************************************************************)
EXTENDS Integers, Sequences, FiniteSets

CONSTANTS
    RuleId,        \* policies rows
    PolicyRole,    \* roles
    PolicyPort,    \* ports a request can be for
    RequestPath,   \* paths a request can be for
    Weekday,
    Day,           \* minutes in a day
    PortLists,     \* values of allowed_ports
    PathLists,     \* values of allowed_paths
    WindowSets     \* values of conditions["time_windows"]; {} when there is none

ASSUME PolicyAssumption == Day \in Nat \ {0}

VARIABLE policies    \* the rows

NoRule == [action |-> "none"]
PolicyRow ==
    [action : {"allow", "deny"}, role : PolicyRole, ports : PortLists, paths : PathLists,
     windows : WindowSets, other : BOOLEAN, enabled : BOOLEAN]    \* other: unknown condition keys

Instant == [day : Weekday, minute : 0 .. Day - 1]
Rules == {i \in RuleId : policies[i] # NoRule}

-----------------------------------------------------------------------------
(* engine.py *)

\* A window whose start is after its end crosses midnight.  A malformed one (ok is
\* FALSE) never matches.
InWindow(w, minute) ==
    IF w.start <= w.end THEN w.start <= minute /\ minute <= w.end
    ELSE minute >= w.start \/ minute <= w.end

time_window_matches(windows, now) ==
    windows # {} =>
        \E w \in windows : w.ok /\ (\A D \in w.days : now.day \in D) /\ InWindow(w, now.minute)

\* prefix.rstrip("/"), and a path that continues it.
Stripped(prefix) ==
    CHOOSE s \in {SubSeq(prefix, 1, n) : n \in 0 .. Len(prefix)} :
        /\ \A i \in Len(s) + 1 .. Len(prefix) : prefix[i] = ""
        /\ s # <<>> => s[Len(s)] # ""
Continues(path, s) == Len(s) < Len(path) /\ SubSeq(path, 1, Len(s)) = s
Under(path, prefix) == path = prefix \/ Continues(path, Stripped(prefix)) \/ prefix = <<"">>

\* The part of rule_applies that does not look at the path or the time.
Relevant(r, roles, port) ==
    r.enabled /\ r.role \in roles /\ \A P \in r.ports : port \in P

rule_applies(r, roles, port, path, now) ==
    /\ Relevant(r, roles, port)
    /\ \A P \in r.paths : \E prefix \in P : Under(path, prefix)
    /\ time_window_matches(r.windows, now)

\* An explicit deny wins over any allow; the default is deny.
evaluate(roles, port, path, now) ==
    LET applicable == {i \in Rules : rule_applies(policies[i], roles, port, path, now)} IN
    /\ \A i \in applicable : policies[i].action # "deny"
    /\ \E i \in applicable : policies[i].action = "allow"

-----------------------------------------------------------------------------
(* decision.py *)

\* A rule without paths, time windows or a condition this test does not know.
Unconstrained(r) == r.paths = {} /\ r.windows = {} /\ ~r.other

host_stable_denies(allowed, roles, port) ==
    /\ allowed
    /\ \E i \in Rules :
         /\ Relevant(policies[i], roles, port)
         /\ policies[i].action = "allow" /\ Unconstrained(policies[i])
host_stable(allowed, roles, port) ==
    LET relevant == {i \in Rules : Relevant(policies[i], roles, port)} IN
    /\ allowed
    /\ \A i \in relevant : policies[i].action # "deny"
    /\ \E i \in relevant : policies[i].action = "allow" /\ Unconstrained(policies[i])

-----------------------------------------------------------------------------
(* policies.py *)

PolicyInit == policies = [i \in RuleId |-> NoRule]

create_policy(i, row) ==
    policies[i] = NoRule /\ policies' = [policies EXCEPT ![i] = row]

\* Any of the columns but the role.
patch_policy(i, row) ==
    /\ policies[i] # NoRule /\ row.role = policies[i].role
    /\ policies' = [policies EXCEPT ![i] = row]

delete_policy(i) ==
    policies[i] # NoRule /\ policies' = [policies EXCEPT ![i] = NoRule]

PolicyNext ==
    \E i \in RuleId :
        \/ \E row \in PolicyRow : create_policy(i, row) \/ patch_policy(i, row)
        \/ delete_policy(i)

PolicySpec == PolicyInit /\ [][PolicyNext]_policies

-----------------------------------------------------------------------------
(* Properties *)

PolicyTypeOK == policies \in [RuleId -> {NoRule} \cup PolicyRow]

\* A decision the data plane may cache for the whole host holds for every request
\* it will answer: whatever rules there are, an allow found host-stable on one
\* path at one moment is the verdict on every path at every moment ("provably
\* holds for every path and time", AccessDecision.host_stable).
HostStableSound ==
    \A roles \in SUBSET PolicyRole, port \in PolicyPort, path \in RequestPath, now \in Instant :
        host_stable(evaluate(roles, port, path, now), roles, port) =>
            \A p \in RequestPath, t \in Instant : evaluate(roles, port, p, t)
=============================================================================
