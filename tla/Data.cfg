SPECIFICATION BundleSpec
CONSTANTS
    Resting = Resting
    None = None
    Nothing = Nothing
    req1 = req1
    req2 = req2
    l1 = l1
    l2 = l2
    l3 = l3
    Nobody = Nobody
    Requests <- Pair
    Users = {"u"}
    Targets = {"t"}
    Nodes = {"here", "there"}
    At <- Here
    User <- SameUser
    Target <- SameTarget
    Kind <- Rules
    Losses = 0
    Handlers <- Activating
    Call <- Activations
    Who <- Everyone
    Persons = {"u"}
    Settings <- TicketSettings
    TargetOptions <- Offering
    Durations = {2}
    MinDuration = 1
    Old = {}
    MaxAlterations = 1
    Parts = {"streams", "postgres", "sqlite", "mysql", "reverts", "reverts_mysql", "reverts_sqlite", "rows", "folded", "losses", "ranks", "references", "newcomers", "regulars", "keys", "requests", "owners", "factors", "passwords", "ownkeys"}
INVARIANT NoneSlips
 
INVARIANT RowsKept
INVARIANT DirectorySound
INVARIANT SignedInAsSelf
INVARIANT SelfServed
PROPERTY ChangesExact
SYMMETRY EitherRequest
CHECK_DEADLOCK FALSE
