SPECIFICATION Spec
CONSTANTS
    Host = {"app", "console"}
    Resource = {r1, r2}
    Public = {r2}
    Port <- MCPort
    Cookie = {c1}
    Static <- MCStatic
    Lan <- MCLan
    Req = {p1}
    None = None
    StartHost <- MCStartHost
    StartRule <- MCStartRule
    TTL = 2
    Cap = 1
    MaxEntries = 1
    MaxTime = 2
    MaxChanges = 2
INVARIANT PurgeDropsOldDecisions
