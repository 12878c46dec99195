\* Roles that change under a session, and sessions that end in every way.
SPECIFICATION Spec
CONSTANTS
    boss = boss  ann = ann  zoe = zoe  tb = tb  ta = ta
    g1 = g1  l1 = l1  w1 = w1  f1 = f1  f2 = f2  x1 = x1  v1 = v1
    m1 = m1  d1 = d1  s1 = s1  k1 = k1  k2 = k2  z1 = z1
    Users = {boss, ann, zoe}
    OldTokens = {tb, ta}
    RegisterReqs = {g1}
    LoginReqs = {l1}
    ResetReqs = {w1}
    RefreshReqs = {f1, f2}
    LogoutReqs = {x1}
    LeaveReqs = {v1}
    PromoteReqs = {m1}
    DemoteReqs = {d1}
    StatusReqs = {s1}
    DeleteReqs = {k1, k2}
    SeedReqs = {z1}
    Rounds <- BothRounds
    Target <- Named
    Held <- Sessions
    InitialAccount <- Accounts
    InitialToken <- HeldTokens
INVARIANTS FreshTokensAreTrue AdministratorsAct AuditHasACause ExchangedOnce
PROPERTY DeadTokensStayDead
CHECK_DEADLOCK FALSE
