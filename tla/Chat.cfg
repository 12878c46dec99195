\* Ann and bob open a conversation, talk and read; eve tries to.
SPECIFICATION Spec
CONSTANTS
    None = None  ann = ann  bob = bob  eve = eve  sa = sa  sb = sb  se = se  p1 = p1  p2 = p2
    o1 = o1  o2 = o2  j1 = j1  j2 = j2  m1 = m1  m2 = m2  m3 = m3  m4 = m4  k1 = k1  k2 = k2  k3 = k3  k4 = k4
    Users = {ann, bob, eve}
    Products = {p1, p2}
    Sockets = {sa, sb, se}
    UserOf <- TokenOf
    OpenReqs = {o1, o2}
    JoinReqs = {j1, j2}
    SendReqs = {m1, m2, m3, m4}
    ReadReqs = {k1, k2, k3, k4}
    Rounds <- ChatRounds
    Pair <- AnnAndBob
    Product <- OneEach
    Socket <- SocketOf
    Message <- MarksM1
INVARIANTS TypeOK RoomsHoldParticipants HeardByTheRoom LastMessageIsRecent
PROPERTIES ReadMarksStay ContextChangedOnlyByStaleRead
CHECK_DEADLOCK FALSE
