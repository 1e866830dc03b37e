SPECIFICATION FairSpec
CONSTANTS
    p1 = p1
    p2 = p2
    r1 = r1
    r2 = r2
    r3 = r3
    u1 = u1
    u2 = u2
    None = None
    Pods <- OnePod
    Requests <- TwoRequests
    Users <- OneUser
    UserOf <- TwoUserOf
PROPERTIES
    StoredIsAnnounced
