\* Files and profiles, asset lists, conversations and steps, a round of each.
SPECIFICATION Spec
CONSTANTS
    f1 = f1  f2 = f2  f3 = f3  h1 = h1  g1 = g1  i1 = i1  i2 = i2  ph1 = ph1  ph2 = ph2
    up1 = up1  up2 = up2  me1 = me1  me2 = me2  me3 = me3  ro1 = ro1  ro2 = ro2
    as1 = as1  as2 = as2  as3 = as3  st1 = st1  st2 = st2
    op1 = op1  op2 = op2  ta1 = ta1  ta2 = ta2
    None = None
    Keep = Keep
    Users = {1, 2, 3}
    FileIds = {f1, f2, f3}
    Phones = {ph1}
    Calls = {up1, up2, me1, me2, me3, ro1, ro2, as1, as2, as3, st1, st2, op1, op2, ta1, ta2}
    UploadCalls = {up1, up2}
    ProfileCalls = {me1, me2, me3}
    RoleCalls = {ro1, ro2}
    AssetCalls = {as1, as2, as3}
    StepCalls = {st1, st2}
    OpenCalls = {op1, op2}
    TalkCalls = {ta1, ta2}
    Caller <- CallerOf
    InitialFile <- Files0
    InitialAccount <- Accounts0
    Rounds <- SomeRounds
    Products = {h1}
    Galleries = {g1}
    Lists <- SomeLists
    Items = {i1}
    Owner <- OwnerOf
INVARIANTS TypeOK ProfilesAreTheirs ListsAreOfOneCall ConversationsHaveTheirParties
CHECK_DEADLOCK FALSE
