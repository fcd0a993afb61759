------------------------------- MODULE SshTimers -------------------------------
(***************************************************************************)
(* The two clocks of an SSH connection (warpgate-protocol-ssh/src/server/  *)
(* session.rs, warpgate-core/src/auth/step_up.rs).  A login with a key is  *)
(* let in while the key's last sign-on is fresh or with an approval of its *)
(* own; afterwards the loop looks at the live configuration and at the     *)
(* stored stamp again and again, and closes the connection once the window *)
(* has passed.  The loop also closes a connection nothing happens on.      *)
(* The loop wakes as soon as a clock is due: the clock does not go on      *)
(* while a wake-up is outstanding.                                         *)
(***************************************************************************)
EXTENDS Naturals, FiniteSets, FiniteSetsExt

CONSTANTS
    Keys,           \* rows of credentials_public_key
    Intervals,      \* values of step_up_interval.ssh the file may be given
    IdleTimeout,           \* ssh.inactivity_timeout
    RecheckMin,     \* STEP_UP_RECHECK_MIN
    RecheckMax,     \* STEP_UP_RECHECK_MAX
    MaxFailures,    \* STEP_UP_MAX_READ_FAILURES
    MayFail,        \* reads of the database may fail
    Horizon,        \* bound of the clock
    Never           \* no instant, no interval

VARIABLES
    now,        \* the clock
    interval,   \* step_up_interval.ssh, Never when it is off
    last,       \* last_sso_at of each key; Never also when the row is gone
    failing,    \* the database does not answer
    phase,      \* login, open or closed
    keys,       \* step_up_pubkeys, the matched rows
    recheck,    \* step_up_recheck
    known,      \* step_up_known_deadline
    failures,   \* step_up_read_failures
    idleSince,  \* idle_since
    held,       \* the session is held for an administrator (AwaitingApproval)
    lastEvent,  \* when something last happened on the connection (history)
    staleSince  \* since when the window has been shut without a break (history)

clockVars == <<now, interval, last, failing, phase, keys, recheck, known, failures,
               idleSince, held, lastEvent, staleSince>>
world == <<interval, last, failing>>

is_fresh(at, i, t) == at # Never /\ t <= at + i

\* The window of a connection with the keys ks is shut at t.
ShutAt(i, at, ks, t) == i # Never /\ (ks = {} \/ \E k \in ks : ~is_fresh(at[k], i, t))
Shut == ShutAt(interval, last, keys, now)

\* step_up_window, and the fold over the matched keys: how long is left
Left == Min({last[k] + interval - now : k \in keys})

ClockTypeOK ==
    /\ now \in 0..Horizon /\ interval \in Intervals \cup {Never}
    /\ last \in [Keys -> 0..Horizon \cup {Never}]
    /\ phase \in {"login", "open", "closed"} /\ keys \subseteq Keys
    /\ failures \in 0..MaxFailures /\ held \in BOOLEAN /\ failing \in BOOLEAN

ClockInit ==
    /\ now = 0 /\ interval \in Intervals \cup {Never}
    /\ last \in [Keys -> {0, Never}] /\ failing = FALSE
    /\ phase = "login" /\ keys = {} /\ recheck = Never /\ known = Never /\ failures = 0
    /\ idleSince = 0 /\ held = FALSE /\ lastEvent = 0 /\ staleSince = Never

-----------------------------------------------------------------------------
(* The history of the window.                                              *)

StaleFrom(shut) ==
    staleSince' = IF ~shut THEN Never ELSE IF staleSince = Never THEN now ELSE staleSince

-----------------------------------------------------------------------------
(* The login.                                                              *)

\* The accepted login with the matched keys m: a gate that wants a fresh stamp
\* of every matched key or an approval given for this login, the stamp such an
\* approval leaves (a stamp that fails is only logged), and the tracking of
\* every key login.
try_auth_eager(m, approved) ==
    /\ phase = "login" /\ ~failing
    /\ \/ interval = Never
       \/ approved
       \/ interval # Never /\ m # {} /\ \A k \in m : is_fresh(last[k], interval, now)
    /\ phase' = "open" /\ keys' = m /\ recheck' = now
    /\ idleSince' = now /\ lastEvent' = now
    /\ \E stamped \in BOOLEAN :
          /\ stamped => interval # Never /\ approved
          /\ ~stamped => MayFail \/ interval = Never \/ ~approved
          /\ last' = [k \in Keys |-> IF stamped /\ k \in m THEN now ELSE last[k]]
    /\ StaleFrom(ShutAt(interval, last', m, now))
    /\ UNCHANGED <<now, interval, failing, known, failures, held>>

Login == \E m \in SUBSET Keys, approved \in BOOLEAN : try_auth_eager(m, approved)

-----------------------------------------------------------------------------
(* The loop of an open connection.                                         *)

IdleDue == phase = "open" /\ ~held /\ now >= idleSince + IdleTimeout
StepUpDue == phase = "open" /\ recheck # Never /\ now >= recheck

close_for_step_up ==
    /\ phase' = "closed" /\ recheck' = Never
    /\ UNCHANGED <<now, world, keys, idleSince, held, lastEvent, staleSince>>

\* Mutant: a failed read is not counted.
step_up_read_failed_Uncounted ==
    IF known # Never /\ now > known
    THEN close_for_step_up /\ UNCHANGED <<failures, known>>
    ELSE /\ recheck' = now + RecheckMax
         /\ UNCHANGED <<now, world, phase, keys, known, failures, idleSince, held, lastEvent, staleSince>>

\* A read that failed: the last known deadline and the number of failures decide.
step_up_read_failed ==
    /\ failures' = failures + 1
    /\ IF (known # Never /\ now > known) \/ failures + 1 >= MaxFailures
       THEN close_for_step_up /\ UNCHANGED known
       ELSE /\ recheck' = now + RecheckMax
            /\ UNCHANGED <<now, world, phase, keys, known, idleSince, held, lastEvent, staleSince>>

\* left.clamp(STEP_UP_RECHECK_MIN, STEP_UP_RECHECK_MAX)
NextLook(left) ==
    now + (IF left < RecheckMin THEN RecheckMin ELSE IF left > RecheckMax THEN RecheckMax ELSE left)

\* Mutant: the wake-up counts as activity.
Remains_Active ==
    /\ known' = now + Left /\ recheck' = NextLook(Left) /\ failures' = 0 /\ idleSince' = now
    /\ UNCHANGED <<now, world, phase, keys, held, lastEvent, staleSince>>

Remains ==
    /\ known' = now + Left /\ recheck' = NextLook(Left) /\ failures' = 0
    /\ UNCHANGED <<now, world, phase, keys, idleSince, held, lastEvent, staleSince>>

\* Mutant: nothing is looked at again while step-up is off.
NotApplicable_Untracked ==
    /\ known' = Never /\ recheck' = Never /\ failures' = 0
    /\ UNCHANGED <<now, world, phase, keys, idleSince, held, lastEvent, staleSince>>

NotApplicable ==
    /\ known' = Never /\ recheck' = now + RecheckMax /\ failures' = 0
    /\ UNCHANGED <<now, world, phase, keys, idleSince, held, lastEvent, staleSince>>

enforce_step_up_window ==
    /\ StepUpDue
    /\ \/ interval # Never /\ keys # {} /\ failing /\ step_up_read_failed
       \/ Shut /\ (failing => keys = {}) /\ close_for_step_up /\ failures' = 0 /\ UNCHANGED known
       \/ ~Shut /\ interval # Never /\ ~failing /\ Remains
       \/ interval = Never /\ NotApplicable

CloseIdle ==
    /\ IdleDue
    /\ phase' = "closed" /\ UNCHANGED <<now, world, keys, recheck, known, failures, idleSince, held, lastEvent, staleSince>>

\* A real event: a packet of the client or an event of the target.
Event ==
    /\ phase = "open" /\ ~held /\ idleSince # now
    /\ idleSince' = now /\ lastEvent' = now
    /\ UNCHANGED <<now, world, phase, keys, recheck, known, failures, held, staleSince>>

\* The session is held for an administrator, and the decision arrives as an event.
Held ==
    /\ phase = "open" /\ held' = ~held /\ idleSince' = now /\ lastEvent' = now
    /\ UNCHANGED <<now, world, phase, keys, recheck, known, failures, staleSince>>

-----------------------------------------------------------------------------
(* The world.                                                              *)

\* The configuration file is read again, a key is stamped by another login or
\* deleted, the database stops or starts to answer.
World ==
    /\ phase # "closed"
    /\ \/ \E i \in Intervals \cup {Never} : interval' = i /\ i # interval /\ UNCHANGED <<last, failing>>
       \/ \E k \in Keys, at \in {now, Never} :
             last' = [last EXCEPT ![k] = at] /\ at # last[k] /\ UNCHANGED <<interval, failing>>
       \/ MayFail /\ failing' = ~failing /\ UNCHANGED <<interval, last>>
    /\ StaleFrom(phase = "open" /\ ShutAt(interval', last', keys, now))
    /\ UNCHANGED <<now, phase, keys, recheck, known, failures, idleSince, held, lastEvent>>

Tick ==
    /\ now < Horizon /\ phase # "closed" /\ ~IdleDue /\ ~StepUpDue
    /\ now' = now + 1
    /\ staleSince' = IF phase # "open" \/ ~ShutAt(interval, last, keys, now + 1) THEN Never
                     ELSE IF staleSince = Never THEN now + 1 ELSE staleSince
    /\ UNCHANGED <<world, phase, keys, recheck, known, failures, idleSince, held, lastEvent>>

ClockNext == Login \/ enforce_step_up_window \/ CloseIdle \/ Event \/ Held \/ World \/ Tick

ClockSpec == ClockInit /\ [][ClockNext]_clockVars

-----------------------------------------------------------------------------
(* Properties.                                                             *)

\* A connection whose window has shut, whether by the clock, by a change of
\* the file or by the deletion of its key, is open no longer than the longest
\* pause between two looks, and each failed look puts the end off by one pause,
\* of which there are fewer than the failures allowed (enforce_step_up_window,
\* step_up_read_failed).
ShutCloses ==
    phase = "open" /\ staleSince # Never =>
        now <= staleSince + (failures + 1) * RecheckMax /\ failures < MaxFailures

\* A connection nothing happens on is closed in time, however often the loop
\* wakes to look at the step-up window, unless an administrator has it held.
IdleCloses == phase = "open" /\ ~held => now <= lastEvent + IdleTimeout

\* Both clocks.
ClosedWhenDue == ShutCloses /\ IdleCloses

\* What the proofs assume of the constants: instants and intervals are naturals,
\* Never is none, and the two bounds of a pause are in order.
ClocksSound ==
    /\ Intervals \subseteq Nat /\ Never \notin Nat /\ Horizon \in Nat
    /\ IdleTimeout \in Nat \ {0} /\ MaxFailures \in Nat \ {0}
    /\ RecheckMin \in Nat \ {0} /\ RecheckMax \in Nat /\ RecheckMin <= RecheckMax
================================================================================
