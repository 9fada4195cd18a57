SPECIFICATION Spec
CONSTANTS
    x1 = x1
    c1 = c1
    c2 = c2
    u1 = u1
    User = {u1}
    Flow = {f1}
    Secret = {x1}
    Code = {c1, c2}
    Batch <- MCBatch
    Challenge = {k1}
    Session = {s1, s2}
    Req = {p1, p2}
    None = None
    Admins = {}
    Keyed = {u1}
    Protected = {}
    StartTotp <- MCTotp
    StartCodes <- MCCodes
    MaxChanges = 1
    Serve = {"form", "login", "totp", "options", "verify"}
SYMMETRY Symmetry
INVARIANT
    AdminsUsePasskeys
