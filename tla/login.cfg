SPECIFICATION Spec
CONSTANTS
    x1 = x1
    c1 = c1
    c2 = c2
    u1 = u1
    User = {u1}
    Flow = {f1}
    Secret = {x1, x2, x3}
    Code = {c1, c2, c3, c4}
    Batch <- MCBatch
    Challenge = {}
    Session = {s1, s2}
    Req = {p1, p2}
    None = None
    Admins = {}
    Keyed = {u1}
    Protected = {}
    StartTotp <- MCTotp
    StartCodes <- MCCodes
    MaxChanges = 1
    Serve = {"form", "login", "totp", "enrollForm", "enroll", "recovery"}
SYMMETRY Symmetry
INVARIANTS
    TypeOK
    OneSessionPerSubmit
    LostAuthenticatorDead
    RecoveryCodeOnce
PROPERTIES
    ImplementsSignIn
