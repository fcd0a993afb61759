----------------------------------- MODULE MCHttp -----------------------------------
(*****************************************************************************)
(* Instances of the components of the HTTP front end for TLC. The components *)
(* share no variable, so a run explores them side by side: the initial state *)
(* says which instance moves, and the variables of the other components stay *)
(* idle.                                                                     *)
(*****************************************************************************)
EXTENDS Sessions, SsoHandshakes, HttpSessions, Naturals, Sequences, FiniteSets, TLC

CONSTANTS
    Parts,      \* the instances this run explores
    Resting,    \* the value of a variable of any other component
    n1, n2, r1, r2, m1, m2, w1, w2, b1, b2

VARIABLES
    part,
    bsRows, bsUs, bsPend, bsLoaded, bsReg, bsJar, bsReq, bsTime, bsSweep, bsPast,  \* HttpSessions, other instances
    skNow, keys, since, cache, last, tok,  \* SsoKeys
    session, targets, grants, uses, mfa, rqReq, edits  \* HttpRequests

\* A session of one node, which may die, and a browser session; a worker on each of two nodes.
Born == {b1, b2}
Apart == [w \in {w1, w2} |-> IF w = w1 THEN m1 ELSE m2]
Owners == [s \in Born |-> IF s = b1 THEN m1 ELSE NoNode]

\* Who uses the browser.
Alone == [b \in {"b"} |-> {"u"}]

\* A ticket of another user; and requests: for Warpgate's own routes, with and for
\* tickets, to targets that may be public, and to a loopback listener.
Kept == "k" :> [user |-> "v", target |-> "t"]
Ask(h, r, x, src) ==
    [host |-> h, route |-> r, unsafe |-> x, source |-> src, nav |-> FALSE, ticket |-> None,
     header |-> FALSE, token |-> None, peer |-> FALSE, query |-> None]
OwnRoutes ==
    {Ask(h, r, TRUE, src) : h \in {"control", "app443", "far"}, r \in {"api", "enrol", "login"},
                            src \in {"own", "foreign"}}
      \cup {[Ask("app", "api", FALSE, None) EXCEPT !.token = k] : k \in {"admin", "u", None}}
      \cup {[Ask("app", "api", FALSE, None) EXCEPT !.token = k, !.peer = TRUE] : k \in {"u", None}}
WithTickets ==
    {[Ask("control", "target", FALSE, None) EXCEPT !.nav = x, !.ticket = "k", !.header = y] :
        x \in BOOLEAN, y \in BOOLEAN}
      \cup {[Ask(h, "target", FALSE, None) EXCEPT !.query = "s"] : h \in {"control", "app"}}
      \cup {Ask("control", "target", FALSE, None)}
Visits ==
    {[Ask(h, "target", FALSE, None) EXCEPT !.nav = TRUE, !.token = k] :
        h \in {"control", "app", "app443"}, k \in {None, "u"}}
OnLoopback ==
    {Ask(h, r, x, src) : h \in {"local", "control", "app"}, r \in {"api", "target", "login"},
                         x \in BOOLEAN, src \in {"own", "foreign", None}}

\* What the proofs assume of the constants.
ASSUME HandshakesSound
ASSUME WebSound

Alike == Permutations({n1, n2}) \cup Permutations({r1, r2})

-----------------------------------------------------------------------------
RotatedServers == {n1, n2}
RotatedClients == {"b"}
RotatedAccounts == {"u"}
RotatedPeople == [b \in {"b"} |-> {"u"}]
RotatedReqs == {r1, r2}
RotatedIds == {1, 2}
RotatedSess == {1, 2}
RotatedKinds == {"first", "last"}
Rotated == INSTANCE HttpSessions WITH Servers <- RotatedServers, Clients <- RotatedClients,
    Accounts <- RotatedAccounts, People <- RotatedPeople, Reqs <- RotatedReqs, Ids <-
    RotatedIds, Sess <- RotatedSess, Kinds <- RotatedKinds, Closes <- FALSE, Leaves <- TRUE,
    MaxAge <- 1, MaxTicks <- 0, rows <- bsRows, us <- bsUs, pend <- bsPend, loaded <- bsLoaded,
    reg <- bsReg, jar <- bsJar, req <- bsReq, time <- bsTime, sweep <- bsSweep, past <- bsPast
AttributedServers == {"n"}
AttributedClients == {"b"}
AttributedAccounts == {"u", "v"}
AttributedPeople == [b \in {"b"} |-> {"u", "v"}]
AttributedReqs == {r1, r2}
AttributedIds == {1, 2, 3}
AttributedSess == {1, 2, 3}
AttributedKinds == {"first", "sso"}
Attributed == INSTANCE HttpSessions WITH Servers <- AttributedServers, Clients <-
    AttributedClients, Accounts <- AttributedAccounts, People <- AttributedPeople, Reqs <-
    AttributedReqs, Ids <- AttributedIds, Sess <- AttributedSess, Kinds <- AttributedKinds,
    Closes <- FALSE, Leaves <- FALSE, MaxAge <- 1, MaxTicks <- 0, rows <- bsRows, us <- bsUs,
    pend <- bsPend, loaded <- bsLoaded, reg <- bsReg, jar <- bsJar, req <- bsReq, time <-
    bsTime, sweep <- bsSweep, past <- bsPast
SignOnsServers == {"n"}
SignOnsClients == {"b"}
SignOnsAccounts == {"u", "v"}
SignOnsPeople == [b \in {"b"} |-> {"u", "v"}]
SignOnsReqs == {r1, r2}
SignOnsIds == {1, 2}
SignOnsSess == {1, 2}
SignOnsKinds == {"first", "ssofirst", "last"}
SignOns == INSTANCE HttpSessions WITH Servers <- SignOnsServers, Clients <- SignOnsClients,
    Accounts <- SignOnsAccounts, People <- SignOnsPeople, Reqs <- SignOnsReqs, Ids <-
    SignOnsIds, Sess <- SignOnsSess, Kinds <- SignOnsKinds, Closes <- FALSE, Leaves <- TRUE,
    MaxAge <- 1, MaxTicks <- 0, rows <- bsRows, us <- bsUs, pend <- bsPend, loaded <- bsLoaded,
    reg <- bsReg, jar <- bsJar, req <- bsReq, time <- bsTime, sweep <- bsSweep, past <- bsPast
DistantServers == {n1, n2}
DistantClients == {"b"}
DistantAccounts == {"u"}
DistantPeople == [b \in {"b"} |-> {"u"}]
DistantReqs == {r1, r2}
DistantIds == {1, 2}
DistantSess == {1, 2}
DistantKinds == {"ssofirst", "last", "logout"}
Distant == INSTANCE HttpSessions WITH Servers <- DistantServers, Clients <- DistantClients,
    Accounts <- DistantAccounts, People <- DistantPeople, Reqs <- DistantReqs, Ids <-
    DistantIds, Sess <- DistantSess, Kinds <- DistantKinds, Closes <- FALSE, Leaves <- FALSE,
    MaxAge <- 1, MaxTicks <- 0, rows <- bsRows, us <- bsUs, pend <- bsPend, loaded <- bsLoaded,
    reg <- bsReg, jar <- bsJar, req <- bsReq, time <- bsTime, sweep <- bsSweep, past <- bsPast
SweptServers == {"n"}
SweptClients == {"b"}
SweptAccounts == {"u"}
SweptPeople == [b \in {"b"} |-> {"u"}]
SweptReqs == {r1, r2}
SweptIds == {1, 2}
SweptSess == {1, 2}
SweptKinds == {"page", "sso"}
Swept == INSTANCE HttpSessions WITH Servers <- SweptServers, Clients <- SweptClients, Accounts
    <- SweptAccounts, People <- SweptPeople, Reqs <- SweptReqs, Ids <- SweptIds, Sess <-
    SweptSess, Kinds <- SweptKinds, Closes <- FALSE, Leaves <- TRUE, MaxAge <- 1, MaxTicks <- 2,
    rows <- bsRows, us <- bsUs, pend <- bsPend, loaded <- bsLoaded, reg <- bsReg, jar <- bsJar,
    req <- bsReq, time <- bsTime, sweep <- bsSweep, past <- bsPast
KeysTokens == {r1, r2}
Keys == INSTANCE SsoKeys WITH Tokens <- KeysTokens, MaxKey <- 2, MaxNow <- 4, TTL <- 3,
    MinInterval <- 2, Forged <- TRUE, now <- skNow
ManagedTargets == {"t"}
ManagedFactors == [on : BOOLEAN, enrolled : BOOLEAN]
ManagedBindings == {"app"}
Managed == INSTANCE HttpRequests WITH Targets <- ManagedTargets, User <- "u", TicketFor <- Kept,
    MaxUses <- 2, Asks <- OwnRoutes, Factors <- ManagedFactors, Pinned <- TRUE, Loopback <-
    FALSE, StepUp <- TRUE, Failing <- TRUE, Bindings <- ManagedBindings, Edits <- 1, req <-
    rqReq
TicketedTargets == {"t", "s"}
TicketedFactors == {[on |-> FALSE, enrolled |-> FALSE]}
TicketedBindings == {"app"}
Ticketed == INSTANCE HttpRequests WITH Targets <- TicketedTargets, User <- "u", TicketFor <-
    Kept, MaxUses <- 2, Asks <- WithTickets, Factors <- TicketedFactors, Pinned <- FALSE,
    Loopback <- FALSE, StepUp <- FALSE, Failing <- FALSE, Bindings <- TicketedBindings, Edits <-
    1, req <- rqReq
ShownTargets == {"t"}
ShownFactors == [on : BOOLEAN, enrolled : BOOLEAN]
ShownBindings == {"app"}
Shown == INSTANCE HttpRequests WITH Targets <- ShownTargets, User <- "u", TicketFor <- Kept,
    MaxUses <- 2, Asks <- Visits, Factors <- ShownFactors, Pinned <- TRUE, Loopback <- FALSE,
    StepUp <- TRUE, Failing <- FALSE, Bindings <- ShownBindings, Edits <- 2, req <- rqReq
LoopedTargets == {"t"}
LoopedFactors == {[on |-> FALSE, enrolled |-> FALSE]}
LoopedBindings == {"app"}
Looped == INSTANCE HttpRequests WITH Targets <- LoopedTargets, User <- "u", TicketFor <- Kept,
    MaxUses <- 2, Asks <- OnLoopback, Factors <- LoopedFactors, Pinned <- TRUE, Loopback <-
    TRUE, StepUp <- TRUE, Failing <- FALSE, Bindings <- LoopedBindings, Edits <- 1, req <- rqReq

stVars == <<parent, child, by, ticket, locked, task, handle, cookie, node, up, losses>>
hsVars == <<rows, us, pend, loaded, reg, jar, req, time, sweep, past>>
bsVars == <<bsRows, bsUs, bsPend, bsLoaded, bsReg, bsJar, bsReq, bsTime, bsSweep, bsPast>>
skVars == <<skNow, keys, since, cache, last, tok>>
shVars == <<now, hs, store, lost, code, ret, login, ip>>
rqVars == <<session, targets, grants, uses, mfa, rqReq, edits>>
bundleVars == <<part, stVars, hsVars, bsVars, skVars, shVars, rqVars>>

stIdle == Init
hsIdle == WebInit
bsIdle == bsRows = Resting /\ bsUs = Resting /\ bsPend = Resting /\ bsLoaded = Resting /\ bsReg
    = Resting /\ bsJar = Resting /\ bsReq = Resting /\ bsTime = Resting /\ bsSweep = Resting /\
    bsPast = Resting
skIdle == skNow = Resting /\ keys = Resting /\ since = Resting /\ cache = Resting /\ last =
    Resting /\ tok = Resting
shIdle == HandshakeInit
rqIdle == session = Resting /\ targets = Resting /\ grants = Resting /\ uses = Resting /\ mfa =
    Resting /\ rqReq = Resting /\ edits = Resting

BundleInit ==
    /\ part \in Parts
    /\ \/ part = "transactions" /\ Init /\ hsIdle /\ bsIdle /\ skIdle /\ shIdle /\ rqIdle
       \/ part = "closed" /\ WebInit /\ stIdle /\ bsIdle /\ skIdle /\ shIdle /\ rqIdle
       \/ part = "rotated" /\ Rotated!WebInit /\ stIdle /\ hsIdle /\ skIdle /\ shIdle /\ rqIdle
       \/ part = "attributed" /\ Attributed!WebInit /\ stIdle /\ hsIdle /\ skIdle /\ shIdle /\ rqIdle
       \/ part = "signons" /\ SignOns!WebInit /\ stIdle /\ hsIdle /\ skIdle /\ shIdle /\ rqIdle
       \/ part = "distant" /\ Distant!WebInit /\ stIdle /\ hsIdle /\ skIdle /\ shIdle /\ rqIdle
       \/ part = "swept" /\ Swept!WebInit /\ stIdle /\ hsIdle /\ skIdle /\ shIdle /\ rqIdle
       \/ part = "keys" /\ Keys!Init /\ stIdle /\ hsIdle /\ bsIdle /\ shIdle /\ rqIdle
       \/ part = "handshakes" /\ HandshakeInit /\ stIdle /\ hsIdle /\ bsIdle /\ skIdle /\ rqIdle
       \/ part = "managed" /\ Managed!Init /\ stIdle /\ hsIdle /\ bsIdle /\ skIdle /\ shIdle
       \/ part = "ticketed" /\ Ticketed!Init /\ stIdle /\ hsIdle /\ bsIdle /\ skIdle /\ shIdle
       \/ part = "shared" /\ Shown!Init /\ stIdle /\ hsIdle /\ bsIdle /\ skIdle /\ shIdle
       \/ part = "looped" /\ Looped!Init /\ stIdle /\ hsIdle /\ bsIdle /\ skIdle /\ shIdle

BundleNext ==
    \/ part = "transactions" /\ Next /\ UNCHANGED <<part, hsVars, bsVars, skVars, shVars, rqVars>>
    \/ part = "closed" /\ WebNext /\ UNCHANGED <<part, stVars, bsVars, skVars, shVars, rqVars>>
    \/ part = "rotated" /\ Rotated!WebNext /\ UNCHANGED <<part, stVars, hsVars, skVars, shVars, rqVars>>
    \/ part = "attributed" /\ Attributed!WebNext /\ UNCHANGED <<part, stVars, hsVars, skVars, shVars, rqVars>>
    \/ part = "signons" /\ SignOns!WebNext /\ UNCHANGED <<part, stVars, hsVars, skVars, shVars, rqVars>>
    \/ part = "distant" /\ Distant!WebNext /\ UNCHANGED <<part, stVars, hsVars, skVars, shVars, rqVars>>
    \/ part = "swept" /\ Swept!WebNext /\ UNCHANGED <<part, stVars, hsVars, skVars, shVars, rqVars>>
    \/ part = "keys" /\ Keys!Next /\ UNCHANGED <<part, stVars, hsVars, bsVars, shVars, rqVars>>
    \/ part = "handshakes" /\ HandshakeNext /\ UNCHANGED <<part, stVars, hsVars, bsVars, skVars, rqVars>>
    \/ part = "managed" /\ Managed!Next /\ UNCHANGED <<part, stVars, hsVars, bsVars, skVars, shVars>>
    \/ part = "ticketed" /\ Ticketed!Next /\ UNCHANGED <<part, stVars, hsVars, bsVars, skVars, shVars>>
    \/ part = "shared" /\ Shown!Next /\ UNCHANGED <<part, stVars, hsVars, bsVars, skVars, shVars>>
    \/ part = "looped" /\ Looped!Next /\ UNCHANGED <<part, stVars, hsVars, bsVars, skVars, shVars>>

BundleSpec == BundleInit /\ [][BundleNext]_bundleVars

-----------------------------------------------------------------------------
\* A request stays where it belongs: Warpgate's own routes are hidden on a host
\* bound to a target; a request reaches the target of its host or of its ticket
\* only, with nothing of Warpgate's own in it, and no longer than it is permitted
\* there; a visit to a public target leaves no authorization behind; and a request
\* from another origin does not act as the session's user (HttpRequests).  A login
\* stays with the user its session is attributed to; it is not left under a storage id
\* that was in use before it, unless the client left a forwarded login before its answer
\* was adopted; and one that used single sign-on is found by a back-channel logout,
\* unless its state was mislaid with a second factor (HttpSessions, where the cases are
\* named).  A token with a new key of the provider is not refused for a stale cache
\* (SsoKeys).
RequestsConfined ==
    /\ part = "rotated" => Rotated!RotatedOnLogin
    /\ part = "attributed" => Attributed!LoginsHonoured /\ Attributed!SsoFindable
    /\ part = "signons" => SignOns!SsoFindable
    /\ part = "distant" => Distant!SsoFindable /\ Distant!RotatedOnLogin
    /\ part = "keys" => Keys!RotatedKeyAccepted
    /\ part = "managed" => Managed!HiddenOnBoundHosts /\ Managed!ActsAsOwn
    /\ part = "ticketed" => Ticketed!Confined /\ Ticketed!NothingKept /\ Ticketed!NoneSlips
    /\ part = "shared" => Shown!NothingKept /\ Shown!NoneSlips /\ Shown!SecretsStay
    /\ part = "looped" => Looped!HiddenOnBoundHosts /\ Looped!ActsAsOwn

\* The sweep ends no login whose row was written within the lifetime of the
\* cookie, and the answer names a blocked address only if it was blocked before
\* (HttpSessions: sweep; SsoHandshakes: rejected_credential_failure); a ticket is
\* spent only on a session that it has not authorised yet (HttpRequests).
FreshStays ==
    [][/\ part = "swept" => Swept!SweepsExpired
       /\ part = "handshakes" => NamedFirst
       /\ part = "ticketed" => Ticketed!SpentOnce]_bundleVars
=============================================================================
