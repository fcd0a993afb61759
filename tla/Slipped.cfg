SPECIFICATION Spec
CONSTANTS
    NoTicket = NoTicket
    n1 = n1
    n2 = n2
    w1 = w1
    a1 = a1
    s1 = s1
    s2 = s2
    Targets = {"t"}
    Tickets = {"k"}
    Users = {"u"}
    Admins = {a1}
    Sweepers = {w1}
    Sessions <- Alone
    Nodes <- TwoNodes
    At <- OnN1
    On <- AlonesNode
    User <- AlonesUser
    Goal <- AlonesGoal
    Card <- NoCard
    Granted <- OneRole
    Expiring = {}
    Mortal = {}
    Failures = 0
    Losses = 0
INVARIANT NoLateAdmission
CHECK_DEADLOCK FALSE
