\* A logout and a refresh: the logout answers though the refresh token lives on.
SPECIFICATION Spec
CONSTANTS
    boss = boss  ann = ann  zoe = zoe  tb = tb  ta = ta
    g1 = g1  l1 = l1  w1 = w1  f1 = f1  f2 = f2  x1 = x1  v1 = v1
    m1 = m1  d1 = d1  s1 = s1  k1 = k1  k2 = k2  z1 = z1
    Users = {boss, ann}
    OldTokens = {tb, ta}
    RegisterReqs = {}
    LoginReqs = {}
    ResetReqs = {}
    RefreshReqs = {f1}
    LogoutReqs = {x1}
    LeaveReqs = {}
    PromoteReqs = {}
    DemoteReqs = {}
    StatusReqs = {}
    DeleteReqs = {}
    SeedReqs = {}
    Rounds <- AllMade
    Target <- Named
    Held <- Sessions
    InitialAccount <- Accounts
    InitialToken <- HeldTokens
INVARIANT LoggedOutTokensAreDead
CHECK_DEADLOCK FALSE
