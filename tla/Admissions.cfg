SPECIFICATION BundleSpec
CONSTANTS
    Resting = Resting
    NoTicket = NoTicket
    NoIdentity = NoIdentity
    Reaper = Reaper
    Nothing = Nothing
    Nobody = Nobody
    s1 = s1
    s2 = s2
    t1 = t1
    a1 = a1
    a2 = a2
    d1 = d1
    u1 = u1
    u2 = u2
    r1 = r1
    r2 = r2
    r3 = r3
    Sessions <- Askings
    Tickets = {t1}
    TicketOf <- Ticketless
    InitialUses <- OneUse
    Gated <- Askings
    TargetOf <- TwoTargets
    IdentityOf <- OneIdentity
    Askers <- Calls
    SessionOf <- OwnSession
    Blocking <- Calls
    Admins = {d1}
    Grants = {"once", "target", "all_targets"}
    PurgeLive = FALSE
    MaxAge = 0
    MaxFailures = 0
    Attempts = {1, 2}
    Users = {u1, u2}
    Targets = {"t"}
    Policy <- KeyAndApproval
    Deliverers = {}
    Capacity = 8
    StepUpOn = TRUE
    GraceOn = TRUE
    Presents = {"PublicKey"}
    GivenScopes = {"target"}
    MaxAged = 0
    Endings = FALSE
    Protocols = {"Http", "Ssh", "Postgres", "MySql", "Kubernetes"}
    CredentialKinds = {"Password", "PublicKey", "Totp", "Sso"}
    Required <- OwnPolicies
    Switches <- Settings
    MaxChanges = 1
    MaxListElements = 3
    MaxListBytes = 4
    ApiRequests = {r1, r2, r3}
    Bearer <- AllAlice
    Asks <- AllList
    TicketCredentials = {"ticket"}
    PolicyAsks = TRUE
    NeedsApproval = FALSE
    MaxSessions = 3
    MaxEdits = 0
    Quits = TRUE
    Closes = FALSE
    Ages = FALSE
    Parts = {"remembered", "approved", "answered", "emissions", "fanout", "tokens", "upstream", "audit", "policies"}
INVARIANT EveryAdmissionApproved
INVARIANT OwnDecisions
INVARIANT QuestionsAnswerable
INVARIANT QuestionShared
INVARIANT WritesAudited
INVARIANT FactorsAsRequired
CHECK_DEADLOCK FALSE
