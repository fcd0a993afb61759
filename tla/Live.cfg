SPECIFICATION FairSpec
CONSTANTS
    Resting = Resting
    NoTicket = NoTicket
    NoIdentity = NoIdentity
    NoNode = NoNode
    Nobody = Nobody
    Nothing = Nothing
    Reaper = Reaper
    n1 = n1
    n2 = n2
    w1 = w1
    w2 = w2
    a1 = a1
    d1 = d1
    s1 = s1
    r1 = r1
    r2 = r2
    Parts = {"held", "blocked", "deaths", "revoked", "expired", "streams", "decided", "ended", "fanout", "starts"}
PROPERTY WaitsEnd
PROPERTY RevokedEnds
PROPERTY ComesBack
CHECK_DEADLOCK FALSE
