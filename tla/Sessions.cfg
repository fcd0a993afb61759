SPECIFICATION Spec
CONSTANTS
    NoTicket = NoTicket
    n1 = n1
    n2 = n2
    w1 = w1
    a1 = a1
    s1 = s1
    s2 = s2
    Targets = {"t"}
    Tickets = {"k"}
    Users = {"u"}
    Admins = {a1}
    Sweepers = {w1}
    Sessions <- Both
    Nodes <- TwoNodes
    At <- OnN1
    On <- Apart
    User <- Alike
    Goal <- OneGoal
    Card <- OneCard
    Granted <- OneRole
    Expiring <- OneRole
    Mortal = {n2}
    Failures = 2
    Losses = 1
INVARIANT NothingLost
CHECK_DEADLOCK FALSE
