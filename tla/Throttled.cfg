SPECIFICATION Spec
CONSTANTS
    n1 = n1
    n2 = n2
    i1 = i1
    u1 = u1
    l1 = l1
    l2 = l2
    Nodes = {n1, n2}
    Ips = {i1}
    Users = {u1}
    Known = {u1}
    AdminUsers = {u1}
    Logins = {l1, l2}
    NodeOf <- EachNode
    IpOf <- OneAddress
    UserOf <- OneAccount
    Configs <- OnOrOff
    IpMax = 2
    IpWindow = 0
    Base = 1
    Mult = 5
    MaxBlock = 2
    Cooldown = 1
    UserMax = 2
    UserWindow = 0
    LockTime = 1
    AutoUnlock = TRUE
    ExemptAdmins = TRUE
    Retention = 5
    MaxCount = 2
SYMMETRY Swap
INVARIANT TypeOK
INVARIANT CacheBacked
PROPERTY BlockStands
