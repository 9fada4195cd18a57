SPECIFICATION Spec
CONSTANTS
    User = {u1}
    Session = {s1, s2}
    Code = {c1}
    Token = {t1, t2}
    Req = {p1}
    None = None
    AbsTTL = 3
    IdleTTL = 1
    TouchInterval = 1
    CodeTTL = 1
    AccessTTL = 2
    MaxTime = 4
    MayCrash = TRUE
    Serve = {"login", "authorize", "logout", "code", "refresh", "revoke", "userinfo", "api", "revokeAll", "patch"}
SYMMETRY Symmetry
INVARIANTS
    NoGrantPastAbsoluteExpiry
