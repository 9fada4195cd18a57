SPECIFICATION Spec
CONSTANTS
    User = {u1}
    Session = {s1}
    Code = {c1}
    Token = {t1, t2, t3}
    Req = {p1, p2}
    None = None
    AbsTTL = 1
    IdleTTL = 0
    TouchInterval = 1
    CodeTTL = 1
    AccessTTL = 1
    MaxTime = 0
    MayCrash = FALSE
    Serve = {"login", "authorize", "code", "refresh"}
INVARIANT
    RefreshTokenSingleUse
