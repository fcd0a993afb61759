SPECIFICATION BundleSpec
CONSTANTS
    Resting = Resting
    None = None
    Nothing = Nothing
    Absent = Absent
    n1 = n1
    n2 = n2
    r1 = r1
    r2 = r2
    m1 = m1
    m2 = m2
    w1 = w1
    w2 = w2
    b1 = b1
    b2 = b2
    Sessions <- Born
    Targets = {"t"}
    Tickets = {"k"}
    NoTicket = NoTicket
    NoNode = NoNode
    Nobody = Nobody
    Nodes = {m1, m2}
    Workers = {w1, w2}
    At <- Apart
    Owner <- Owners
    Mortal = {m1}
    Losses = 0
    Browsers = {n1, n2}
    Users = {"u", "v"}
    Providers = {"p"}
    MaxHs = 2
    Capacity = 1
    TTL = 1
    MaxNow = 1
    IpMax = 2
    Returns = {r1, r2}
    Factors = {"v"}
    Servers = {n1, n2}
    Clients = {"b"}
    Accounts = {"u"}
    People <- Alone
    Reqs = {r1, r2}
    Ids = {1, 2}
    Sess = {1, 2}
    Kinds = {"page", "sso"}
    Closes = TRUE
    Leaves = FALSE
    MaxAge = 1
    MaxTicks = 0
    Parts = {"transactions", "closed", "rotated", "attributed", "signons", "distant", "swept", "keys", "handshakes", "managed", "ticketed", "shared", "looped"}
INVARIANT NobodyOverlooked
INVARIANT LoginsHonoured
INVARIANT LoginOfOwnHandshake
INVARIANT RequestsConfined
PROPERTY ImplementsLedger
PROPERTY FreshStays
SYMMETRY Alike
CHECK_DEADLOCK FALSE
