SPECIFICATION Spec
CONSTANTS
    s1 = s1
    s2 = s2
    t1 = t1
    a1 = a1
    a2 = a2
    a3 = a3
    d1 = d1
    web = web
    NoTicket = NoTicket
    NoIdentity = NoIdentity
    Reaper = Reaper
    Sessions = {s1, s2}
    Tickets = {t1}
    TicketOf <- OneTicket
    InitialUses <- TwoUses
    Gated = {s1, s2}
    TargetOf <- SameTarget
    IdentityOf <- NoIdentities
    Askers = {a1, a2, a3}
    SessionOf <- HeldAndPolled
    Blocking = {a1}
    Admins = {d1}
    Grants = {"target"}
    PurgeLive = FALSE
    MaxAge = 3
    MaxFailures = 1
INVARIANT TypeOK
INVARIANT TicketLedger
INVARIANT PaidQuestion
INVARIANT AnsweredAsSeen
INVARIANT ExpiredMeansClosed
PROPERTY DecisionFinal
CONSTRAINT ThirdCall
CHECK_DEADLOCK FALSE
