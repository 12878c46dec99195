\* Registrations that overtake each other; resets with wrong codes.
SPECIFICATION Spec
CONSTANTS
    None = None  ann = ann  bob = bob  dan = dan  p1 = p1  p2 = p2  p3 = p3
    g1 = g1  g2 = g2  g3 = g3  n1 = n1  v1 = v1  v2 = v2  v3 = v3
    w1 = w1  w2 = w2  r1 = r1  r2 = r2  r3 = r3  r4 = r4  r5 = r5
    Emails = {ann, bob, dan}
    Phones = {p1, p2, p3}
    RegisterReqs = {g1, g2, g3}
    ResendReqs = {n1}
    ForgotReqs = {w1, w2}
    VerifyReqs = {v1, v2, v3}
    ResetReqs = {r1, r2, r3, r4, r5}
    Rounds <- AllRounds
    Email <- EmailOf
    Phone <- PhoneOf
    OldAccounts = {dan}
    MaxAttempts = 2
    MaxLapses = 1
INVARIANTS AccountsAreConfirmed AccountIsOfTheLatestRegistration RegisteredOnce
           WrongCodesAreCounted
CHECK_DEADLOCK FALSE
