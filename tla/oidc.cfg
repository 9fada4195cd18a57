SPECIFICATION Spec
CONSTANTS
    User = {u1}
    Session = {s1}
    Code = {c1}
    Token = {t1, t2, t3}
    Req = {p1, p2}
    None = None
    AbsTTL = 2
    IdleTTL = 1
    TouchInterval = 0
    CodeTTL = 1
    AccessTTL = 1
    MaxTime = 0
    MayCrash = TRUE
    Serve = {"login", "authorize", "logout", "code", "refresh", "revoke", "revokeAll", "userinfo"}
SYMMETRY Symmetry
INVARIANTS
    TypeOK
    OneFamilyPerCode
    NoGrantAfterRevocation
    NoRotationOfUsedToken
    NoGrantInDeadFamily
    FamilyCoherent
    RevokeAllComplete
