SPECIFICATION BundleSpec
CONSTANTS
    Resting = Resting
    None = None
    Never = Never
    Nobody = Nobody
    NoPeer = NoPeer
    Keys = {"k", "l"}
    Intervals = {2}
    IdleTimeout = 5
    RecheckMin = 1
    RecheckMax = 2
    MaxFailures = 3
    MayFail = TRUE
    Horizon = 8
    Conns = {"a", "b"}
    Procs = {"w", "p", "q"}
    Own = "w"
    Account = "me"
    Other = "you"
    Uid <- Uids
    Opener <- Openers
    Mapped = {"b"}
    Lookup = "tables"
    Slots = 2
    Turns = 1
    Backlog = 1
    Moves = 1
    Depth = 0
    Hosts = {"t", "j"}
    HostKeys = {"K", "L"}
    JumpHosts <- Behind
    Dials = {"a", "b"}
    Checks = {"b"}
    Wanted <- BothWantT
    HasDeadline = TRUE
    Edits = 1
    Parts = {"rounds", "output", "endings", "input", "windows", "menu", "menus", "multiplexed", "hostkeys", "chains", "remote", "stalled", "diag", "tables", "walked", "unix", "rdp", "vnc", "plain", "screens", "sizes", "missing"}
INVARIANT BothEndsAgree
INVARIANT ClosedWhenDue
INVARIANT OnlyOwnAccount
 
PROPERTY LoginsKept
PROPERTY PeersVetted
CHECK_DEADLOCK FALSE
