SPECIFICATION Spec
CONSTANTS
    s1 = s1
    s2 = s2
    t1 = t1
    a1 = a1
    a2 = a2
    a3 = a3
    d1 = d1
    web = web
    NoTicket = NoTicket
    NoIdentity = NoIdentity
    Reaper = Reaper
    Sessions = {s1}
    Tickets = {t1}
    TicketOf <- TheTicket
    InitialUses <- OneUse
    Gated = {s1}
    TargetOf <- TheTarget
    IdentityOf <- Nobody
    Askers = {a1, a2}
    SessionOf <- HeldAndPolled
    Blocking = {}
    Admins = {d1}
    Grants = {"once"}
    PurgeLive = TRUE
    MaxAge = 3
    MaxFailures = 0
INVARIANTS PaidQuestion
CHECK_DEADLOCK FALSE
