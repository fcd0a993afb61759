-------------------------------- MODULE MCProtocols --------------------------------
(*****************************************************************************)
(* Instances for TLC of the components of the SSH server, of the desktop     *)
(* logins, and of the check of loopback connections. The components share no *)
(* variable, so a run explores them side by side: the initial state says     *)
(* which instance moves, and the variables of the other components stay      *)
(* idle.                                                                     *)
(*****************************************************************************)
EXTENDS SshTimers, LoopbackOwner, SshTargets, Naturals, Sequences, FiniteSets

CONSTANTS
    Parts,      \* the instances this run explores
    Resting,    \* the value of a variable of any other component
    Nobody

VARIABLES
    part,
    who, otpDone, web, otpSent, lgWait, used, lgHeld, reply, waits, urls,  \* SshLogin
    reg, named, deferred, deferredIn, waiting, chPending, chControl, chRemote, writes, outbox,
    inbound, callback, est, resolved, cut, client, far, announcing, chSent, given, chEarly, got,
    chApplied,  \* SshChannels
    sel, rc, stamped, recorded, connected, running, token, shells, subs, packet, seControl,
    seEvents, gates, asking, answer, seMode, seRemote, commands, aborting, trusted, typed,
    echoed, gaveUp, asked, astray,  \* SshSession
    thJump, thGone, thShows, thKnownHosts, thMode, thDial, thEdits, thSent,  \* SshTargets, other instances
    state, connecting, inner, abort, rmPending, rmLoop, saying, pipes, chan, out, issued,
    rmApplied, heard, rmEarly,  \* SshRemote
    entry, live, shut, siHeld, siWait, clock, quiet, wronged, cornered,  \* SshInput
    lpConn, lpJob, lpSlots, lpTurns, lpLoop, lpChannel, lpHolds, lpMade, lpUid, lpMoves, lpOurs,
    lpNode, lpProbe,  \* LoopbackOwner, other instances
    dlAt, auth, dlKnown, read, prompt, entered, wrong, failed, locked, attempts, granted,  \* DesktopLogin
    size, first, late, rdEvents, serverIn, rdAt, screen, told, by, dialed_at, input_rx,
    requested, rdPending, ready, orders, image, bounced, rdMade  \* RdpSession

\* A target behind a jump host; and every set of links between three hosts.
Behind == {[h \in {"t", "j"} |-> IF h = "t" THEN "j" ELSE NoPeer]}
Alone == {[h \in {"t"} |-> NoPeer]}
AnyLinks == [{"t", "j", "k"} -> {"t", "j", "k", NoPeer}]
BothWantT == [d \in {"a", "b"} |-> "t"]

\* Warpgate's process, another of its account, and one of another account; each
\* opens a connection to the loopback listener.
Uids == [p \in {"w", "p", "q"} |-> IF p = "q" THEN "you" ELSE "me"]
Openers == [c \in {"a", "b", "o"} |-> CASE c = "a" -> "p" [] c = "b" -> "q" [] OTHER -> "w"]

\* A policy of all three factors that a desktop login can collect; and one where a
\* web approval comes on top of the password.
TwoFactors == [inner |-> "all", kinds |-> {"Password", "Totp", "WebUserApproval"}, factor |-> {}]
OneFactor == [inner |-> "any", kinds |-> {"Password", "Totp"}, factor |-> {"WebUserApproval"}]

\* What the proofs assume of the constants.
ASSUME ClocksSound /\ Sound /\ DialsSound

-----------------------------------------------------------------------------
RoundsPrincipals == {"a", "b"}
Rounds == INSTANCE SshLogin WITH Principals <- RoundsPrincipals, AutoContinue <- TRUE, MaxWaits
    <- 3, CounterMax <- 5, Budget <- 3, Cadence <- 2, Otp <- TRUE, Restless <- TRUE, wait <-
    lgWait, held <- lgHeld
OutputOurs == {"s"}
OutputForwarded == {"f"}
Output == INSTANCE SshChannels WITH Ours <- OutputOurs, Forwarded <- OutputForwarded, MaxOut <-
    2, MaxIn <- 0, TargetCloses <- FALSE, CloseFails <- TRUE, pending <- chPending, control <-
    chControl, remote <- chRemote, sent <- chSent, early <- chEarly, applied <- chApplied
EndingsOurs == {"s"}
EndingsForwarded == {"f"}
Endings == INSTANCE SshChannels WITH Ours <- EndingsOurs, Forwarded <- EndingsForwarded, MaxOut
    <- 1, MaxIn <- 0, TargetCloses <- TRUE, CloseFails <- TRUE, pending <- chPending, control <-
    chControl, remote <- chRemote, sent <- chSent, early <- chEarly, applied <- chApplied
InputOurs == {"s"}
InputForwarded == {"f"}
Input == INSTANCE SshChannels WITH Ours <- InputOurs, Forwarded <- InputForwarded, MaxOut <- 0,
    MaxIn <- 2, TargetCloses <- TRUE, CloseFails <- TRUE, pending <- chPending, control <-
    chControl, remote <- chRemote, sent <- chSent, early <- chEarly, applied <- chApplied
MenuShells == {"c"}
MenuTargets == {"t", "u"}
MenuGuarded == {"t"}
MenuKeys == {"enter", "ctrlC", "y"}
Menu == INSTANCE SshSession WITH Shells <- MenuShells, Targets <- MenuTargets, Guarded <-
    MenuGuarded, Requested <- None, Keys <- MenuKeys, MaxTyped <- 3, Changes <- FALSE, control
    <- seControl, events <- seEvents, mode <- seMode, remote <- seRemote
MenusShells == {"c", "d", "e"}
MenusTargets == {"t", "u"}
MenusGuarded == {"t"}
MenusKeys == {"enter", "y"}
Menus == INSTANCE SshSession WITH Shells <- MenusShells, Targets <- MenusTargets, Guarded <-
    MenusGuarded, Requested <- None, Keys <- MenusKeys, MaxTyped <- 3, Changes <- FALSE, control
    <- seControl, events <- seEvents, mode <- seMode, remote <- seRemote
MultiplexedShells == {"c", "d"}
MultiplexedTargets == {"t"}
MultiplexedGuarded == {"t"}
MultiplexedKeys == {"ctrlC", "y"}
Multiplexed == INSTANCE SshSession WITH Shells <- MultiplexedShells, Targets <-
    MultiplexedTargets, Guarded <- MultiplexedGuarded, Requested <- "t", Keys <-
    MultiplexedKeys, MaxTyped <- 2, Changes <- FALSE, control <- seControl, events <- seEvents,
    mode <- seMode, remote <- seRemote
ChainedHosts == {"t", "j", "k"}
ChainedHostKeys == {"K"}
ChainedDials == {"a"}
ChainedChecks == {}
ChainedWanted == [d \in {"a"} |-> "t"]
Chained == INSTANCE SshTargets WITH Hosts <- ChainedHosts, HostKeys <- ChainedHostKeys,
    JumpHosts <- AnyLinks, Dials <- ChainedDials, Checks <- ChainedChecks, Wanted <-
    ChainedWanted, HasDeadline <- TRUE, Edits <- 1, jump <- thJump, gone <- thGone, shows <-
    thShows, knownHosts <- thKnownHosts, mode <- thMode, dial <- thDial, edits <- thEdits, sent
    <- thSent
RemoteOurs == {"c"}
RemoteForwarded == {}
RemoteData == <<"x", "y">>
Remote == INSTANCE SshRemote WITH Ours <- RemoteOurs, Forwarded <- RemoteForwarded, Data <-
    RemoteData, Room <- 1, MaxOut <- 1, Stalls <- FALSE, pending <- rmPending, loop <- rmLoop,
    applied <- rmApplied, early <- rmEarly
StalledChannels == {"a", "b", "c"}
StalledConnecting == {"b"}
StalledDeaf == {"a"}
StalledClosing == {}
Stalled == INSTANCE SshInput WITH Channels <- StalledChannels, Connecting <- StalledConnecting,
    Deaf <- StalledDeaf, Closing <- StalledClosing, ChannelRoom <- 2, ConnectionRoom <- 3, Stall
    <- 2, held <- siHeld, wait <- siWait
DiagConns == {"a", "b"}
DiagProcs == {"w", "p", "q"}
DiagMapped == {"b"}
Diag == INSTANCE LoopbackOwner WITH Conns <- DiagConns, Procs <- DiagProcs, Own <- "w", Account
    <- "me", Other <- "you", Uid <- Uids, Opener <- Openers, Mapped <- DiagMapped, Lookup <-
    "sock_diag", Slots <- 2, Turns <- 1, Backlog <- 1, Moves <- 1, Depth <- 0, conn <- lpConn,
    job <- lpJob, slots <- lpSlots, turns <- lpTurns, loop <- lpLoop, channel <- lpChannel,
    holds <- lpHolds, made <- lpMade, uid <- lpUid, moves <- lpMoves, ours <- lpOurs, node <-
    lpNode, probe <- lpProbe
WalkedConns == {"b", "o"}
WalkedProcs == {"w", "p", "q"}
WalkedMapped == {"b"}
Walked == INSTANCE LoopbackOwner WITH Conns <- WalkedConns, Procs <- WalkedProcs, Own <- "w",
    Account <- "me", Other <- "you", Uid <- Uids, Opener <- Openers, Mapped <- WalkedMapped,
    Lookup <- "libproc", Slots <- 2, Turns <- 1, Backlog <- 1, Moves <- 2, Depth <- 0, conn <-
    lpConn, job <- lpJob, slots <- lpSlots, turns <- lpTurns, loop <- lpLoop, channel <-
    lpChannel, holds <- lpHolds, made <- lpMade, uid <- lpUid, moves <- lpMoves, ours <- lpOurs,
    node <- lpNode, probe <- lpProbe
UnixConns == {}
UnixProcs == {"w", "p", "q"}
UnixMapped == {"b"}
Unix == INSTANCE LoopbackOwner WITH Conns <- UnixConns, Procs <- UnixProcs, Own <- "w", Account
    <- "me", Other <- "you", Uid <- Uids, Opener <- Openers, Mapped <- UnixMapped, Lookup <-
    "sock_diag", Slots <- 0, Turns <- 1, Backlog <- 1, Moves <- 0, Depth <- 3, conn <- lpConn,
    job <- lpJob, slots <- lpSlots, turns <- lpTurns, loop <- lpLoop, channel <- lpChannel,
    holds <- lpHolds, made <- lpMade, uid <- lpUid, moves <- lpMoves, ours <- lpOurs, node <-
    lpNode, probe <- lpProbe
Rdp == INSTANCE DesktopLogin WITH Policy <- TwoFactors, Protocol <- "rdp", Remembered <- FALSE,
    Banner <- TRUE, Digits <- 2, MaxWrong <- 2, Attempts <- 2, at <- dlAt, known <- dlKnown
Vnc == INSTANCE DesktopLogin WITH Policy <- TwoFactors, Protocol <- "vnc", Remembered <- FALSE,
    Banner <- TRUE, Digits <- 2, MaxWrong <- 2, Attempts <- 2, at <- dlAt, known <- dlKnown
Plain == INSTANCE DesktopLogin WITH Policy <- OneFactor, Protocol <- "rdp", Remembered <- TRUE,
    Banner <- FALSE, Digits <- 2, MaxWrong <- 2, Attempts <- 2, at <- dlAt, known <- dlKnown
ScreensFirstSizes == {"d", "v"}
ScreensFirst == INSTANCE RdpSession WITH Sizes <- ScreensFirstSizes, Default <- "d", Screens <-
    TRUE, Room <- 2, Inputs <- 1, Wishes <- 2, Drives <- 2, events <- rdEvents, at <- rdAt,
    pending <- rdPending, made <- rdMade
SizeFirstSizes == {"d", "v"}
SizeFirst == INSTANCE RdpSession WITH Sizes <- SizeFirstSizes, Default <- "d", Screens <- FALSE,
    Room <- 2, Inputs <- 1, Wishes <- 2, Drives <- 2, events <- rdEvents, at <- rdAt, pending <-
    rdPending, made <- rdMade
RoundsLivePrincipals == {"a"}
RoundsLive == INSTANCE SshLogin WITH Principals <- RoundsLivePrincipals, AutoContinue <- TRUE,
    MaxWaits <- 3, CounterMax <- 5, Budget <- 20, Cadence <- 3, Otp <- TRUE, Restless <- FALSE,
    wait <- lgWait, held <- lgHeld
CallbacksOurs == {}
CallbacksForwarded == {"f", "g"}
Callbacks == INSTANCE SshChannels WITH Ours <- CallbacksOurs, Forwarded <- CallbacksForwarded,
    MaxOut <- 0, MaxIn <- 1, TargetCloses <- TRUE, CloseFails <- TRUE, pending <- chPending,
    control <- chControl, remote <- chRemote, sent <- chSent, early <- chEarly, applied <-
    chApplied
CrossingOurs == {"s"}
CrossingForwarded == {"f"}
Crossing == INSTANCE SshChannels WITH Ours <- CrossingOurs, Forwarded <- CrossingForwarded,
    MaxOut <- 0, MaxIn <- 1, TargetCloses <- TRUE, CloseFails <- TRUE, pending <- chPending,
    control <- chControl, remote <- chRemote, sent <- chSent, early <- chEarly, applied <-
    chApplied
MissingShells == {"c"}
MissingTargets == {"t", "u"}
MissingGuarded == {"t"}
MissingKeys == {"enter", "ctrlC", "y"}
Missing == INSTANCE SshSession WITH Shells <- MissingShells, Targets <- MissingTargets, Guarded
    <- MissingGuarded, Requested <- "x", Keys <- MissingKeys, MaxTyped <- 1, Changes <- TRUE,
    control <- seControl, events <- seEvents, mode <- seMode, remote <- seRemote
EndsShells == {"c"}
EndsTargets == {"t"}
EndsGuarded == {"t"}
EndsKeys == {"enter", "y", "n"}
Ends == INSTANCE SshSession WITH Shells <- EndsShells, Targets <- EndsTargets, Guarded <-
    EndsGuarded, Requested <- None, Keys <- EndsKeys, MaxTyped <- 2, Changes <- TRUE, control <-
    seControl, events <- seEvents, mode <- seMode, remote <- seRemote
ReachingHosts == {"t", "j"}
ReachingHostKeys == {"K", "L"}
ReachingDials == {"a"}
ReachingChecks == {}
ReachingWanted == [d \in {"a"} |-> "t"]
Reaching == INSTANCE SshTargets WITH Hosts <- ReachingHosts, HostKeys <- ReachingHostKeys,
    JumpHosts <- Behind, Dials <- ReachingDials, Checks <- ReachingChecks, Wanted <-
    ReachingWanted, HasDeadline <- TRUE, Edits <- 1, jump <- thJump, gone <- thGone, shows <-
    thShows, knownHosts <- thKnownHosts, mode <- thMode, dial <- thDial, edits <- thEdits, sent
    <- thSent
PatientHosts == {"t"}
PatientHostKeys == {"K"}
PatientDials == {"a"}
PatientChecks == {}
PatientWanted == [d \in {"a"} |-> "t"]
Patient == INSTANCE SshTargets WITH Hosts <- PatientHosts, HostKeys <- PatientHostKeys,
    JumpHosts <- Alone, Dials <- PatientDials, Checks <- PatientChecks, Wanted <- PatientWanted,
    HasDeadline <- FALSE, Edits <- 1, jump <- thJump, gone <- thGone, shows <- thShows,
    knownHosts <- thKnownHosts, mode <- thMode, dial <- thDial, edits <- thEdits, sent <- thSent
PumpOurs == {}
PumpForwarded == {"f"}
PumpData == <<"x", "y">>
Pump == INSTANCE SshRemote WITH Ours <- PumpOurs, Forwarded <- PumpForwarded, Data <- PumpData,
    Room <- 1, MaxOut <- 0, Stalls <- TRUE, pending <- rmPending, loop <- rmLoop, applied <-
    rmApplied, early <- rmEarly
CheckingConns == {"a"}
CheckingProcs == {"w", "p", "q"}
CheckingMapped == {"b"}
Checking == INSTANCE LoopbackOwner WITH Conns <- CheckingConns, Procs <- CheckingProcs, Own <-
    "w", Account <- "me", Other <- "you", Uid <- Uids, Opener <- Openers, Mapped <-
    CheckingMapped, Lookup <- "tables", Slots <- 1, Turns <- 1, Backlog <- 1, Moves <- 1, Depth
    <- 0, conn <- lpConn, job <- lpJob, slots <- lpSlots, turns <- lpTurns, loop <- lpLoop,
    channel <- lpChannel, holds <- lpHolds, made <- lpMade, uid <- lpUid, moves <- lpMoves, ours
    <- lpOurs, node <- lpNode, probe <- lpProbe
WaitsChannels == {"a", "b", "c"}
WaitsConnecting == {"b"}
WaitsDeaf == {"a", "b", "c"}
WaitsClosing == {"c"}
Waits == INSTANCE SshInput WITH Channels <- WaitsChannels, Connecting <- WaitsConnecting, Deaf
    <- WaitsDeaf, Closing <- WaitsClosing, ChannelRoom <- 2, ConnectionRoom <- 3, Stall <- 2,
    held <- siHeld, wait <- siWait

lgVars == <<who, otpDone, web, otpSent, lgWait, used, lgHeld, reply, waits, urls>>
chVars == <<reg, named, deferred, deferredIn, waiting, chPending, chControl, chRemote, writes,
    outbox, inbound, callback, est, resolved, cut, client, far, announcing, chSent, given,
    chEarly, got, chApplied>>
tiVars == <<now, interval, last, failing, phase, keys, recheck, known, failures, idleSince,
    held, lastEvent, staleSince>>
seVars == <<sel, rc, stamped, recorded, connected, running, token, shells, subs, packet,
    seControl, seEvents, gates, asking, answer, seMode, seRemote, commands, aborting, trusted,
    typed, echoed, gaveUp, asked, astray>>
tgVars == <<jump, gone, shows, knownHosts, mode, dial, edits, sent>>
thVars == <<thJump, thGone, thShows, thKnownHosts, thMode, thDial, thEdits, thSent>>
rmVars == <<state, connecting, inner, abort, rmPending, rmLoop, saying, pipes, chan, out,
    issued, rmApplied, heard, rmEarly>>
siVars == <<entry, live, shut, siHeld, siWait, clock, quiet, wronged, cornered>>
loVars == <<conn, job, slots, turns, loop, channel, holds, made, uid, moves, ours, node, probe>>
lpVars == <<lpConn, lpJob, lpSlots, lpTurns, lpLoop, lpChannel, lpHolds, lpMade, lpUid, lpMoves,
    lpOurs, lpNode, lpProbe>>
dlVars == <<dlAt, auth, dlKnown, read, prompt, entered, wrong, failed, locked, attempts,
    granted>>
rdVars == <<size, first, late, rdEvents, serverIn, rdAt, screen, told, by, dialed_at, input_rx,
    requested, rdPending, ready, orders, image, bounced, rdMade>>
bundleVars == <<part, lgVars, chVars, tiVars, seVars, tgVars, thVars, rmVars, siVars, loVars, lpVars, dlVars, rdVars>>

lgIdle == who = Resting /\ otpDone = Resting /\ web = Resting /\ otpSent = Resting /\ lgWait =
    Resting /\ used = Resting /\ lgHeld = Resting /\ reply = Resting /\ waits = Resting /\ urls
    = Resting
chIdle == reg = Resting /\ named = Resting /\ deferred = Resting /\ deferredIn = Resting /\
    waiting = Resting /\ chPending = Resting /\ chControl = Resting /\ chRemote = Resting /\
    writes = Resting /\ outbox = Resting /\ inbound = Resting /\ callback = Resting /\ est =
    Resting /\ resolved = Resting /\ cut = Resting /\ client = Resting /\ far = Resting /\
    announcing = Resting /\ chSent = Resting /\ given = Resting /\ chEarly = Resting /\ got =
    Resting /\ chApplied = Resting
tiIdle == interval = Never /\ last = [k \in Keys |-> Never] /\ ClockInit
seIdle == sel = Resting /\ rc = Resting /\ stamped = Resting /\ recorded = Resting /\ connected
    = Resting /\ running = Resting /\ token = Resting /\ shells = Resting /\ subs = Resting /\
    packet = Resting /\ seControl = Resting /\ seEvents = Resting /\ gates = Resting /\ asking =
    Resting /\ answer = Resting /\ seMode = Resting /\ seRemote = Resting /\ commands = Resting
    /\ aborting = Resting /\ trusted = Resting /\ typed = Resting /\ echoed = Resting /\ gaveUp
    = Resting /\ asked = Resting /\ astray = Resting
tgIdle == DialInit
thIdle == thJump = Resting /\ thGone = Resting /\ thShows = Resting /\ thKnownHosts = Resting /\
    thMode = Resting /\ thDial = Resting /\ thEdits = Resting /\ thSent = Resting
rmIdle == state = Resting /\ connecting = Resting /\ inner = Resting /\ abort = Resting /\
    rmPending = Resting /\ rmLoop = Resting /\ saying = Resting /\ pipes = Resting /\ chan =
    Resting /\ out = Resting /\ issued = Resting /\ rmApplied = Resting /\ heard = Resting /\
    rmEarly = Resting
siIdle == entry = Resting /\ live = Resting /\ shut = Resting /\ siHeld = Resting /\ siWait =
    Resting /\ clock = Resting /\ quiet = Resting /\ wronged = Resting /\ cornered = Resting
loIdle == Init
lpIdle == lpConn = Resting /\ lpJob = Resting /\ lpSlots = Resting /\ lpTurns = Resting /\
    lpLoop = Resting /\ lpChannel = Resting /\ lpHolds = Resting /\ lpMade = Resting /\ lpUid =
    Resting /\ lpMoves = Resting /\ lpOurs = Resting /\ lpNode = Resting /\ lpProbe = Resting
dlIdle == dlAt = Resting /\ auth = Resting /\ dlKnown = Resting /\ read = Resting /\ prompt =
    Resting /\ entered = Resting /\ wrong = Resting /\ failed = Resting /\ locked = Resting /\
    attempts = Resting /\ granted = Resting
rdIdle == size = Resting /\ first = Resting /\ late = Resting /\ rdEvents = Resting /\ serverIn
    = Resting /\ rdAt = Resting /\ screen = Resting /\ told = Resting /\ by = Resting /\
    dialed_at = Resting /\ input_rx = Resting /\ requested = Resting /\ rdPending = Resting /\
    ready = Resting /\ orders = Resting /\ image = Resting /\ bounced = Resting /\ rdMade =
    Resting

BundleInit ==
    /\ part \in Parts
    /\ \/ part = "rounds" /\ Rounds!Init /\ chIdle /\ tiIdle /\ seIdle /\ tgIdle /\ thIdle /\ rmIdle /\ siIdle /\ loIdle /\ lpIdle /\ dlIdle /\ rdIdle
       \/ part = "output" /\ Output!Init /\ lgIdle /\ tiIdle /\ seIdle /\ tgIdle /\ thIdle /\ rmIdle /\ siIdle /\ loIdle /\ lpIdle /\ dlIdle /\ rdIdle
       \/ part = "endings" /\ Endings!Init /\ lgIdle /\ tiIdle /\ seIdle /\ tgIdle /\ thIdle /\ rmIdle /\ siIdle /\ loIdle /\ lpIdle /\ dlIdle /\ rdIdle
       \/ part = "input" /\ Input!Init /\ lgIdle /\ tiIdle /\ seIdle /\ tgIdle /\ thIdle /\ rmIdle /\ siIdle /\ loIdle /\ lpIdle /\ dlIdle /\ rdIdle
       \/ part = "windows" /\ ClockInit /\ lgIdle /\ chIdle /\ seIdle /\ tgIdle /\ thIdle /\ rmIdle /\ siIdle /\ loIdle /\ lpIdle /\ dlIdle /\ rdIdle
       \/ part = "menu" /\ Menu!Init /\ lgIdle /\ chIdle /\ tiIdle /\ tgIdle /\ thIdle /\ rmIdle /\ siIdle /\ loIdle /\ lpIdle /\ dlIdle /\ rdIdle
       \/ part = "menus" /\ Menus!Init /\ lgIdle /\ chIdle /\ tiIdle /\ tgIdle /\ thIdle /\ rmIdle /\ siIdle /\ loIdle /\ lpIdle /\ dlIdle /\ rdIdle
       \/ part = "multiplexed" /\ Multiplexed!Init /\ lgIdle /\ chIdle /\ tiIdle /\ tgIdle /\ thIdle /\ rmIdle /\ siIdle /\ loIdle /\ lpIdle /\ dlIdle /\ rdIdle
       \/ part = "hostkeys" /\ DialInit /\ lgIdle /\ chIdle /\ tiIdle /\ seIdle /\ thIdle /\ rmIdle /\ siIdle /\ loIdle /\ lpIdle /\ dlIdle /\ rdIdle
       \/ part = "chains" /\ Chained!DialInit /\ lgIdle /\ chIdle /\ tiIdle /\ seIdle /\ tgIdle /\ rmIdle /\ siIdle /\ loIdle /\ lpIdle /\ dlIdle /\ rdIdle
       \/ part = "remote" /\ Remote!Init /\ lgIdle /\ chIdle /\ tiIdle /\ seIdle /\ tgIdle /\ thIdle /\ siIdle /\ loIdle /\ lpIdle /\ dlIdle /\ rdIdle
       \/ part = "stalled" /\ Stalled!Init /\ lgIdle /\ chIdle /\ tiIdle /\ seIdle /\ tgIdle /\ thIdle /\ rmIdle /\ loIdle /\ lpIdle /\ dlIdle /\ rdIdle
       \/ part = "diag" /\ Diag!Init /\ lgIdle /\ chIdle /\ tiIdle /\ seIdle /\ tgIdle /\ thIdle /\ rmIdle /\ siIdle /\ loIdle /\ dlIdle /\ rdIdle
       \/ part = "tables" /\ Init /\ lgIdle /\ chIdle /\ tiIdle /\ seIdle /\ tgIdle /\ thIdle /\ rmIdle /\ siIdle /\ lpIdle /\ dlIdle /\ rdIdle
       \/ part = "walked" /\ Walked!Init /\ lgIdle /\ chIdle /\ tiIdle /\ seIdle /\ tgIdle /\ thIdle /\ rmIdle /\ siIdle /\ loIdle /\ dlIdle /\ rdIdle
       \/ part = "unix" /\ Unix!Init /\ lgIdle /\ chIdle /\ tiIdle /\ seIdle /\ tgIdle /\ thIdle /\ rmIdle /\ siIdle /\ loIdle /\ dlIdle /\ rdIdle
       \/ part = "rdp" /\ Rdp!Init /\ lgIdle /\ chIdle /\ tiIdle /\ seIdle /\ tgIdle /\ thIdle /\ rmIdle /\ siIdle /\ loIdle /\ lpIdle /\ rdIdle
       \/ part = "vnc" /\ Vnc!Init /\ lgIdle /\ chIdle /\ tiIdle /\ seIdle /\ tgIdle /\ thIdle /\ rmIdle /\ siIdle /\ loIdle /\ lpIdle /\ rdIdle
       \/ part = "plain" /\ Plain!Init /\ lgIdle /\ chIdle /\ tiIdle /\ seIdle /\ tgIdle /\ thIdle /\ rmIdle /\ siIdle /\ loIdle /\ lpIdle /\ rdIdle
       \/ part = "screens" /\ ScreensFirst!Init /\ lgIdle /\ chIdle /\ tiIdle /\ seIdle /\ tgIdle /\ thIdle /\ rmIdle /\ siIdle /\ loIdle /\ lpIdle /\ dlIdle
       \/ part = "sizes" /\ SizeFirst!Init /\ lgIdle /\ chIdle /\ tiIdle /\ seIdle /\ tgIdle /\ thIdle /\ rmIdle /\ siIdle /\ loIdle /\ lpIdle /\ dlIdle
       \/ part = "roundsend" /\ RoundsLive!Init /\ chIdle /\ tiIdle /\ seIdle /\ tgIdle /\ thIdle /\ rmIdle /\ siIdle /\ loIdle /\ lpIdle /\ dlIdle /\ rdIdle
       \/ part = "callbacks" /\ Callbacks!Init /\ lgIdle /\ tiIdle /\ seIdle /\ tgIdle /\ thIdle /\ rmIdle /\ siIdle /\ loIdle /\ lpIdle /\ dlIdle /\ rdIdle
       \/ part = "crossing" /\ Crossing!Init /\ lgIdle /\ tiIdle /\ seIdle /\ tgIdle /\ thIdle /\ rmIdle /\ siIdle /\ loIdle /\ lpIdle /\ dlIdle /\ rdIdle
       \/ part = "missing" /\ Missing!Init /\ lgIdle /\ chIdle /\ tiIdle /\ tgIdle /\ thIdle /\ rmIdle /\ siIdle /\ loIdle /\ lpIdle /\ dlIdle /\ rdIdle
       \/ part = "ends" /\ Ends!Init /\ lgIdle /\ chIdle /\ tiIdle /\ tgIdle /\ thIdle /\ rmIdle /\ siIdle /\ loIdle /\ lpIdle /\ dlIdle /\ rdIdle
       \/ part = "dials" /\ Reaching!DialInit /\ lgIdle /\ chIdle /\ tiIdle /\ seIdle /\ tgIdle /\ rmIdle /\ siIdle /\ loIdle /\ lpIdle /\ dlIdle /\ rdIdle
       \/ part = "patient" /\ Patient!DialInit /\ lgIdle /\ chIdle /\ tiIdle /\ seIdle /\ tgIdle /\ rmIdle /\ siIdle /\ loIdle /\ lpIdle /\ dlIdle /\ rdIdle
       \/ part = "pump" /\ Pump!Init /\ lgIdle /\ chIdle /\ tiIdle /\ seIdle /\ tgIdle /\ thIdle /\ siIdle /\ loIdle /\ lpIdle /\ dlIdle /\ rdIdle
       \/ part = "checks" /\ Checking!Init /\ lgIdle /\ chIdle /\ tiIdle /\ seIdle /\ tgIdle /\ thIdle /\ rmIdle /\ siIdle /\ loIdle /\ dlIdle /\ rdIdle
       \/ part = "waits" /\ Waits!Init /\ lgIdle /\ chIdle /\ tiIdle /\ seIdle /\ tgIdle /\ thIdle /\ rmIdle /\ loIdle /\ lpIdle /\ dlIdle /\ rdIdle

BundleNext ==
    \/ part = "rounds" /\ Rounds!Next /\ UNCHANGED <<part, chVars, tiVars, seVars, tgVars, thVars, rmVars, siVars, loVars, lpVars, dlVars, rdVars>>
    \/ part = "output" /\ Output!Next /\ UNCHANGED <<part, lgVars, tiVars, seVars, tgVars, thVars, rmVars, siVars, loVars, lpVars, dlVars, rdVars>>
    \/ part = "endings" /\ Endings!Next /\ UNCHANGED <<part, lgVars, tiVars, seVars, tgVars, thVars, rmVars, siVars, loVars, lpVars, dlVars, rdVars>>
    \/ part = "input" /\ Input!Next /\ UNCHANGED <<part, lgVars, tiVars, seVars, tgVars, thVars, rmVars, siVars, loVars, lpVars, dlVars, rdVars>>
    \/ part = "windows" /\ ClockNext /\ UNCHANGED <<part, lgVars, chVars, seVars, tgVars, thVars, rmVars, siVars, loVars, lpVars, dlVars, rdVars>>
    \/ part = "menu" /\ Menu!Next /\ UNCHANGED <<part, lgVars, chVars, tiVars, tgVars, thVars, rmVars, siVars, loVars, lpVars, dlVars, rdVars>>
    \/ part = "menus" /\ Menus!Next /\ UNCHANGED <<part, lgVars, chVars, tiVars, tgVars, thVars, rmVars, siVars, loVars, lpVars, dlVars, rdVars>>
    \/ part = "multiplexed" /\ Multiplexed!Next /\ UNCHANGED <<part, lgVars, chVars, tiVars, tgVars, thVars, rmVars, siVars, loVars, lpVars, dlVars, rdVars>>
    \/ part = "hostkeys" /\ DialNext /\ UNCHANGED <<part, lgVars, chVars, tiVars, seVars, thVars, rmVars, siVars, loVars, lpVars, dlVars, rdVars>>
    \/ part = "chains" /\ Chained!DialNext /\ UNCHANGED <<part, lgVars, chVars, tiVars, seVars, tgVars, rmVars, siVars, loVars, lpVars, dlVars, rdVars>>
    \/ part = "remote" /\ Remote!Next /\ UNCHANGED <<part, lgVars, chVars, tiVars, seVars, tgVars, thVars, siVars, loVars, lpVars, dlVars, rdVars>>
    \/ part = "stalled" /\ Stalled!Next /\ UNCHANGED <<part, lgVars, chVars, tiVars, seVars, tgVars, thVars, rmVars, loVars, lpVars, dlVars, rdVars>>
    \/ part = "diag" /\ Diag!Next /\ UNCHANGED <<part, lgVars, chVars, tiVars, seVars, tgVars, thVars, rmVars, siVars, loVars, dlVars, rdVars>>
    \/ part = "tables" /\ Next /\ UNCHANGED <<part, lgVars, chVars, tiVars, seVars, tgVars, thVars, rmVars, siVars, lpVars, dlVars, rdVars>>
    \/ part = "walked" /\ Walked!Next /\ UNCHANGED <<part, lgVars, chVars, tiVars, seVars, tgVars, thVars, rmVars, siVars, loVars, dlVars, rdVars>>
    \/ part = "unix" /\ Unix!Next /\ UNCHANGED <<part, lgVars, chVars, tiVars, seVars, tgVars, thVars, rmVars, siVars, loVars, dlVars, rdVars>>
    \/ part = "rdp" /\ Rdp!Next /\ UNCHANGED <<part, lgVars, chVars, tiVars, seVars, tgVars, thVars, rmVars, siVars, loVars, lpVars, rdVars>>
    \/ part = "vnc" /\ Vnc!Next /\ UNCHANGED <<part, lgVars, chVars, tiVars, seVars, tgVars, thVars, rmVars, siVars, loVars, lpVars, rdVars>>
    \/ part = "plain" /\ Plain!Next /\ UNCHANGED <<part, lgVars, chVars, tiVars, seVars, tgVars, thVars, rmVars, siVars, loVars, lpVars, rdVars>>
    \/ part = "screens" /\ ScreensFirst!Next /\ UNCHANGED <<part, lgVars, chVars, tiVars, seVars, tgVars, thVars, rmVars, siVars, loVars, lpVars, dlVars>>
    \/ part = "sizes" /\ SizeFirst!Next /\ UNCHANGED <<part, lgVars, chVars, tiVars, seVars, tgVars, thVars, rmVars, siVars, loVars, lpVars, dlVars>>
    \/ part = "roundsend" /\ RoundsLive!Next /\ UNCHANGED <<part, chVars, tiVars, seVars, tgVars, thVars, rmVars, siVars, loVars, lpVars, dlVars, rdVars>>
    \/ part = "callbacks" /\ Callbacks!Next /\ UNCHANGED <<part, lgVars, tiVars, seVars, tgVars, thVars, rmVars, siVars, loVars, lpVars, dlVars, rdVars>>
    \/ part = "crossing" /\ Crossing!Next /\ UNCHANGED <<part, lgVars, tiVars, seVars, tgVars, thVars, rmVars, siVars, loVars, lpVars, dlVars, rdVars>>
    \/ part = "missing" /\ Missing!Next /\ UNCHANGED <<part, lgVars, chVars, tiVars, tgVars, thVars, rmVars, siVars, loVars, lpVars, dlVars, rdVars>>
    \/ part = "ends" /\ Ends!Next /\ UNCHANGED <<part, lgVars, chVars, tiVars, tgVars, thVars, rmVars, siVars, loVars, lpVars, dlVars, rdVars>>
    \/ part = "dials" /\ Reaching!DialNext /\ UNCHANGED <<part, lgVars, chVars, tiVars, seVars, tgVars, rmVars, siVars, loVars, lpVars, dlVars, rdVars>>
    \/ part = "patient" /\ Patient!DialNext /\ UNCHANGED <<part, lgVars, chVars, tiVars, seVars, tgVars, rmVars, siVars, loVars, lpVars, dlVars, rdVars>>
    \/ part = "pump" /\ Pump!Next /\ UNCHANGED <<part, lgVars, chVars, tiVars, seVars, tgVars, thVars, siVars, loVars, lpVars, dlVars, rdVars>>
    \/ part = "checks" /\ Checking!Next /\ UNCHANGED <<part, lgVars, chVars, tiVars, seVars, tgVars, thVars, rmVars, siVars, loVars, dlVars, rdVars>>
    \/ part = "waits" /\ Waits!Next /\ UNCHANGED <<part, lgVars, chVars, tiVars, seVars, tgVars, thVars, rmVars, loVars, lpVars, dlVars, rdVars>>

BundleSpec == BundleInit /\ [][BundleNext]_bundleVars

-----------------------------------------------------------------------------
\* A login asks for what its policy lacks and for no more than it may: an SSH
\* connection starts no more waits for an approval than it may, and prints the URL
\* of each once (SshLogin: keyboard-interactive rounds); a desktop is reached only
\* by a whole login and through the gate, no answer of the browser is missed, and
\* wrong codes are capped and forgiven only by a whole login (DesktopLogin:
\* run_hold_screen); with the lookups that the part "tables" leaves out, plain HTTP
\* is served only to processes of the own account, and a Unix socket is used only
\* if it is the account's own (LoopbackOwner).
LoginsKept ==
    /\ [](part = "rounds" => Rounds!WaitsCapped /\ Rounds!UrlOnce)
    /\ [](part = "rdp" => Rdp!OnlyAccepted /\ Rdp!NoneMissed /\ Rdp!CodesCapped)
    /\ [](part = "vnc" => Vnc!OnlyAccepted /\ Vnc!NoneMissed /\ Vnc!CodesCapped)
    /\ [](part = "plain" => Plain!OnlyAccepted /\ Plain!NoneMissed)
    /\ [][part = "rdp" => Rdp!OnlyLoginForgives]_bundleVars
    /\ [](part = "diag" => Diag!Sound /\ Diag!OnlyOwnAccount)
    /\ [](part = "walked" => Walked!Sound /\ Walked!OnlyOwnAccount)
    /\ [](part = "unix" => Unix!Sound /\ Unix!OnlyOwnAccount)

\* What the client and the target of a channel receive is what was sent, in
\* that order and without a gap: through the session's registry and its deferred
\* events in both directions (SshChannels), and through the operations kept
\* while the target is dialled (SshRemote); all but output that the target sends
\* before the session has heard of the channel it opened, which is lost. The two ends of an RDP session come to
\* rest at one size, the viewer's own if nobody changed it, and the target is not
\* made to undo its changes (RdpSession: control_loop). A channel is closed for a
\* stall only where its own target has taken nothing for the stall timeout, or in
\* place of channels that the target has yet to open (SshInput:
\* acquire_while_progressing).
BothEndsAgree ==
    /\ part = "stalled" => Stalled!Blameless
    /\ part = "output" => Output!OutputInOrder
    /\ part = "endings" => Endings!OutputInOrder
    /\ part = "input" => Input!InputInOrder
    /\ part = "remote" => Remote!AppliedInOrder
    /\ part = "screens" => ScreensFirst!Settled /\ ScreensFirst!FirstSizeKept /\ ScreensFirst!FoughtOnce
    /\ part = "sizes" => SizeFirst!Settled /\ SizeFirst!FirstSizeKept /\ SizeFirst!FoughtOnce

\* Every shell of a session is recorded under the target it talks to, but one whose
\* menu started another target session while the first was dialled; a wait that
\* the person broke off admits to nothing (SshSession), and the hosts dialled on the
\* way to a target are those that the links name, whatever the links, cycles and
\* deleted hosts included (SshTargets: resolve_chain_ids).
RecordedAsDialled ==
    /\ [](part = "menu" => Menu!RecordedAsDialled /\ Menu!GivenUpForGood)
    /\ [](part = "menus" => Menus!RecordedAsDialled)
    /\ [](part = "missing" => Missing!RecordedAsDialled)
    /\ [](part = "multiplexed" => Multiplexed!RecordedAsDialled /\ Multiplexed!GivenUpForGood)
    /\ [][part = "chains" => Chained!WholeChains]_bundleVars

-----------------------------------------------------------------------------
\* The tasks of a node go on; nothing is assumed of people and of targets, but
\* that the target of "pump" reads while its output is read.
Fairness ==
    /\ WF_lgVars(part = "roundsend" /\ RoundsLive!Answers) /\ WF_lgVars(part = "roundsend" /\ RoundsLive!Wake)
    /\ WF_lgVars(part = "roundsend" /\ RoundsLive!Tick)
    /\ WF_chVars(part = "callbacks" /\ Callbacks!Read) /\ WF_chVars(part = "callbacks" /\ Callbacks!Dispatch)
    /\ WF_chVars(part = "callbacks" /\ Callbacks!Write) /\ WF_chVars(part = "callbacks" /\ Callbacks!Turn)
    /\ WF_chVars(part = "callbacks" /\ Callbacks!Announce) /\ WF_chVars(part = "callbacks" /\ \E r \in resolved : Callbacks!Resolve(r))
    /\ WF_chVars(part = "callbacks" /\ \E ok \in BOOLEAN : Callbacks!Reply(ok) \/ Callbacks!CloseReply(ok))
    /\ WF_chVars(part = "callbacks" /\ \E c \in {"f", "g"}, a \in {"confirm", "refuse"} : Callbacks!ClientAnswers(c, a))
    /\ WF_chVars(part = "crossing" /\ Crossing!Read) /\ WF_chVars(part = "crossing" /\ Crossing!Dispatch)
    /\ WF_chVars(part = "crossing" /\ Crossing!Write) /\ WF_chVars(part = "crossing" /\ Crossing!Turn)
    /\ WF_chVars(part = "crossing" /\ Crossing!Announce) /\ WF_chVars(part = "crossing" /\ \E r \in resolved : Crossing!Resolve(r))
    /\ WF_chVars(part = "crossing" /\ \E ok \in BOOLEAN : Crossing!Reply(ok) \/ Crossing!CloseReply(ok))
    /\ WF_chVars(part = "crossing" /\ \E c \in {"f"}, a \in {"confirm", "refuse"} : Crossing!ClientAnswers(c, a))
    /\ WF_seVars(part = "ends" /\ Ends!Control) /\ WF_seVars(part = "ends" /\ Ends!Forward)
    /\ WF_seVars(part = "ends" /\ Ends!Target) /\ WF_seVars(part = "ends" /\ Ends!Remote)
    /\ WF_seVars(part = "ends" /\ Ends!Shutdown)
    /\ WF_thVars(part = "dials" /\ Reaching!Wait("a")) /\ WF_thVars(part = "dials" /\ Reaching!ConnectChain("a"))
    /\ WF_thVars(part = "dials" /\ Reaching!Expire("a")) /\ WF_thVars(part = "dials" /\ Reaching!Validate("a"))
    /\ WF_thVars(part = "dials" /\ Reaching!KeyAnswered("a"))
    /\ WF_thVars(part = "patient" /\ Patient!Wait("a")) /\ WF_thVars(part = "patient" /\ Patient!ConnectChain("a"))
    /\ WF_thVars(part = "patient" /\ Patient!Expire("a")) /\ WF_thVars(part = "patient" /\ Patient!Validate("a"))
    /\ WF_thVars(part = "patient" /\ Patient!KeyAnswered("a"))
    /\ WF_rmVars(part = "pump" /\ Pump!Loop) /\ WF_rmVars(part = "pump" /\ Pump!Hears)
    /\ WF_rmVars(part = "pump" /\ Pump!Task("f")) /\ WF_rmVars(part = "pump" /\ Pump!Aborted("f"))
    /\ WF_rmVars(part = "pump" /\ \E yes \in BOOLEAN : Pump!OpenAnswered("f", yes))
    /\ SF_rmVars(part = "pump" /\ (Pump!Opened("f") \/ Pump!close_and_wait("f"))) /\ SF_rmVars(part = "pump" /\ Pump!Say)
    /\ WF_rmVars(part = "pump" /\ Pump!forward_operations("f")) /\ SF_rmVars(part = "pump" /\ Pump!forward_target_events("f"))
    /\ WF_siVars(part = "waits" /\ Waits!Reader) /\ WF_siVars(part = "waits" /\ Waits!Tick)
    /\ \A c \in {"a", "b", "c"} : WF_siVars(part = "waits" /\ Waits!Drop(c))
    /\ WF_lpVars(part = "checks" /\ Checking!Timeout("a")) /\ WF_lpVars(part = "checks" /\ Checking!Deliver("a"))
    /\ WF_lpVars(part = "checks" /\ Checking!Serve)
FairSpec == BundleSpec /\ Fairness

\* The russh task, which reads nothing while it waits, gets an answer to every
\* callback, unless the packet is for a channel that the target has closed and
\* another open is in flight, for which the loop holds it back for good
\* (SshChannels: Crossed, handle_event); and the task does not wait for ever for the
\* room of input that no target takes (SshInput: hold_input); a target that reads only
\* while its output is read gets its input, and the session hears of the end of a
\* channel however full its queue (SshRemote: pump, close_and_wait).
TrafficFlows ==
    /\ (\/ part = "callbacks" /\ callback # Callbacks!NoEvent
        \/ part = "crossing" /\ callback # Crossing!NoEvent
        \/ part = "waits" /\ Waits!Waits /\ siWait.c \in live
        \/ part = "pump" /\ Pump!Unread("f"))
       ~> (\/ part = "callbacks" /\ (callback = Callbacks!NoEvent \/ Callbacks!Crossed)
           \/ part = "crossing" /\ (callback = Crossing!NoEvent \/ Crossing!Crossed)
           \/ part = "waits" /\ (~Waits!Waits \/ Waits!SomeoneTakes)
           \/ part = "pump" /\ ~Pump!Unread("f"))
    /\ (part = "pump" /\ chan["f"].task = "closing")
       ~> (part = "pump" /\ (<<"closed", "f">> \in heard \/ rmLoop = "over"))

\* A login whose rounds the client answers, a session that is closed, and the check of
\* a connection to a loopback listener, though the kernel never answers it, all come to
\* an end (SshLogin, SshSession, LoopbackOwner). So does an attempt to reach a target, however silent its hosts,
\* but for what no deadline covers: the authentication, the handshake after a
\* person was asked about a host key, and all of it where the deadline is switched
\* off (SshTargets: UpToHost, target_handshake_timeout).
AttemptsEnd ==
    (\/ part = "roundsend" /\ reply = "partial"
     \/ part = "dials" /\ ~Reaching!AtRest("a")
     \/ part = "patient" /\ ~Patient!AtRest("a")
     \/ part = "ends" /\ ~connected
     \/ part = "checks" /\ ~Checking!Answered("a"))
    ~> (\/ part = "roundsend" /\ RoundsLive!RoundOver
        \/ part = "dials" /\ (Reaching!AtRest("a") \/ Reaching!UpToHost("a"))
        \/ part = "patient" /\ (Patient!AtRest("a") \/ Patient!UpToHost("a"))
        \/ part = "ends" /\ ~running
        \/ part = "checks" /\ Checking!Answered("a"))
=============================================================================
