SPECIFICATION ServicesSpec
CONSTANTS
    Visitor = {v1}
    Editor = {e1, e2}
    GateSession = {s1}
    MaxPassword = 2
    MaxVisits = 1
    MaxEdits = 3
    Download = {d1, d2}
    Reviewer = {r1, r2}
    MaxAdds = 3
    MaxKeys = 3
    Operator = {o1, o2}
    AccessTTL = 1
    RetireBuffer = 2
    MaxLag = 1
    MaxClock = 4
    Proof = {p1, p2}
    IatWindow = 3
    FutureSkew = 1
    MaxNow = 8
    Shipper = {x1, x2}
    MaxId = 3
    BatchSize = 2
    MaxRuns = 3
    Backups = 3
    MaxBytes = 2
    MaxLines = 10
    Attempt = {q1, q2, q3}
    SourceIp = {i1}
    Account = acct
    NoAttempt = None
    IpFree = 2
    AccountFree = 0
    DelayCap = 2
    ThrottleWindow = 1
    MaxAttempts = 4
    MaxTime = 2
    Passkey = {k1, k2, k3, k4}
    BreakGlass = {k4}
    Worker = {w1, w2}
    NoWorker = None
    MaxChallenge = 1
    LoginState = {l1, l2}
    AuthCode = {c1, c2}
    IdpSession = {j1}
    GwAddr = {a1}
    Callback = {h1, h2}
    NoCallback = None
    MaxCallbacks = 3
    RuleId = {n1, n2}
    PolicyRole = {u1, u2}
    PolicyPort = {443, 8443}
    RequestPath <- MCRequestPath
    Weekday = {"mon", "tue"}
    Day = 3
    PortLists <- MCPortLists
    PathLists <- MCPathLists
    WindowSets <- MCWindowSets
CHECK_DEADLOCK FALSE
INVARIANTS
    ServicesTypeOK
    SessionGrantCurrent
    SubmittedOnce
    OneActiveKey
    TokensVerify
    
    
    
    
    GuessesBounded
    
    SpentChallengeGone
    
    HostStableSound
