-------------------------------- MODULE SshInput --------------------------------
(***************************************************************************)
(* The room for a client's input                                           *)
(* (warpgate-protocol-ssh/src/server/russh_handler.rs).  Input on its way  *)
(* to a target holds room of its channel and of its connection until the   *)
(* target has taken it.  The one task that reads the connection waits for  *)
(* room; a target that takes nothing for the stall timeout has its channel *)
(* closed, so that the other channels go on.  The clock does not run for a *)
(* channel the target has not opened yet.                                  *)
(***************************************************************************)
EXTENDS Naturals, FiniteSets, FiniteSetsExt

CONSTANTS
    Channels,
    Connecting,     \* channels the target has yet to open
    Deaf,           \* channels whose target takes nothing
    Closing,        \* channels the target may close
    ChannelRoom,    \* CHANNEL_INPUT_BUDGET
    ConnectionRoom, \* CONNECTION_INPUT_BUDGET
    Stall,          \* channel_stall_timeout, in ticks
    Nobody

\* Assumed: ChannelRoom \in Nat \ {0} /\ ConnectionRoom >= ChannelRoom /\ Stall \in Nat \ {0}

VARIABLES
    entry,      \* channels known to ChannelInputs
    live,       \* channels the target has opened
    shut,       \* channels whose closed token is cancelled
    held,       \* input on its way to the target, by channel
    wait,       \* the packet that waits for room
    clock,      \* how long none of the room waited for was given back
    quiet,      \* how long each target has taken nothing (history)
    wronged,    \* channels closed for a stall that was not theirs (history)
    cornered    \* channels closed for want of another to close (history)

vars == <<entry, live, shut, held, wait, clock, quiet, wronged, cornered>>

NoWait == [c |-> Nobody, n |-> 0, at |-> "channel"]
TypeOK ==
    /\ entry \subseteq Channels /\ live \subseteq Channels /\ shut \subseteq Channels
    /\ held \in [Channels -> 0..ChannelRoom] /\ clock \in 0..Stall
    /\ wait.c \in Channels \cup {Nobody} /\ wait.n \in 0..ChannelRoom

Init ==
    /\ entry = {} /\ live = Channels \ Connecting /\ shut = {} /\ held = [c \in Channels |-> 0]
    /\ wait = NoWait /\ clock = 0 /\ quiet = [c \in Channels |-> 0] /\ wronged = {} /\ cornered = {}

-----------------------------------------------------------------------------
Used == MapThenSumSet(LAMBDA c : held[c], Channels)
Waits == wait.c # Nobody

\* The channel's share is taken first, then the connection's.
RoomThere == IF wait.at = "channel" THEN held[wait.c] + wait.n <= ChannelRoom ELSE Used + wait.n <= ConnectionRoom
Dropped == {c \in shut : held[c] > 0}

\* data, extended_data: get_channel, and the wait begins
Packet(c, n) ==
    /\ ~Waits /\ entry' = entry \cup {c}
    /\ IF c \in shut THEN UNCHANGED <<wait, clock>> ELSE wait' = [c |-> c, n |-> n, at |-> "channel"] /\ clock' = 0
    /\ UNCHANGED <<live, shut, held, quiet, wronged, cornered>>

\* opened_channel and live
Live(c) ==
    /\ c \in Connecting \ live /\ live' = live \cup {c}
    /\ clock' = IF wait.c = c THEN 0 ELSE clock
    /\ UNCHANGED <<entry, shut, held, wait, quiet, wronged, cornered>>

\* hold_input: both shares are there, and the input goes to the target
hold_input ==
    /\ Waits /\ wait.c \notin shut /\ RoomThere
    /\ clock' = 0
    /\ IF wait.at = "channel" THEN wait' = [wait EXCEPT !.at = "connection"] /\ UNCHANGED <<held, quiet>>
       ELSE /\ held' = [held EXCEPT ![wait.c] = @ + wait.n] /\ wait' = NoWait
            /\ quiet' = [quiet EXCEPT ![wait.c] = IF held[wait.c] = 0 THEN 0 ELSE @]
    /\ UNCHANGED <<entry, live, shut, wronged, cornered>>

\* The wait ends as soon as the channel is closed.
hold_input_until_closed ==
    /\ wait.c \in shut /\ wait' = NoWait /\ clock' = 0 /\ UNCHANGED <<entry, live, shut, held, quiet, wronged, cornered>>

\* Mutant: the clock runs on although room was given back.
Taken_Unnoticed(c, n) == held' = [held EXCEPT ![c] = @ - n] /\ UNCHANGED clock

\* Drop for HeldInput: whoever waits for this room begins to count anew
Taken(c, n) ==
    /\ held' = [held EXCEPT ![c] = @ - n]
    /\ clock' = IF Waits /\ (wait.at = "connection" \/ wait.c = c) THEN 0 ELSE clock

TargetTakes(c) ==
    /\ c \in live \ Deaf /\ held[c] > 0 /\ Taken(c, 1)
    /\ quiet' = [quiet EXCEPT ![c] = 0] /\ UNCHANGED <<entry, live, shut, wait, wronged, cornered>>

\* The input of a closed channel is dropped.
Drop(c) ==
    /\ c \in Dropped /\ Taken(c, held[c])
    /\ UNCHANGED <<entry, live, shut, wait, quiet, wronged, cornered>>

\* acquire_while_progressing gives up
Stalled == Waits /\ wait.c \in live \ shut /\ ~RoomThere /\ clock = Stall

\* holders_except
Holders == {d \in (live \cap entry) \ (shut \cup {wait.c}) : held[d] > 0}

close_stalled(cs) ==
    /\ shut' = shut \cup (cs \cap entry)
    /\ wronged' = wronged \cup {c \in cs : quiet[c] < Stall \/ held[c] = 0}

ChannelStalls ==
    /\ Stalled /\ wait.at = "channel" /\ close_stalled({wait.c}) /\ wait' = NoWait /\ clock' = 0
    /\ UNCHANGED <<entry, live, held, quiet, cornered>>

\* Mutant: the channel that waits goes on waiting whoever holds the room.
ConnectionStalls_Patient ==
    /\ Stalled /\ wait.at = "connection" /\ clock' = 0
    /\ close_stalled(Holders) /\ wait' = [wait EXCEPT !.at = "channel"]
    /\ UNCHANGED <<entry, live, held, quiet, cornered>>

\* Channels without a known id hold room, which no close gives back.
Unopened == {d \in Channels \ live : held[d] > 0}

\* The holders of the room are closed, and where there are none, the one who waits.
ConnectionStalls ==
    /\ Stalled /\ wait.at = "connection" /\ clock' = 0
    /\ IF Holders = {} THEN close_stalled({wait.c}) /\ wait' = NoWait
       ELSE close_stalled(Holders) /\ wait' = [wait EXCEPT !.at = "channel"]
    /\ cornered' = IF Holders = {} /\ Unopened # {} THEN cornered \cup {wait.c} ELSE cornered
    /\ UNCHANGED <<entry, live, held, quiet>>

\* The target closes a channel.  It cancels only an entry that exists.
target_closed(c) ==
    /\ c \in (Closing \cap live \cap entry) \ shut /\ shut' = shut \cup {c}
    /\ UNCHANGED <<entry, live, held, wait, clock, quiet, wronged, cornered>>

\* The timeout is far longer than a step: what is ready has happened when time passes.
Tick ==
    /\ ~Stalled /\ Dropped = {} /\ (Waits => ~RoomThere /\ wait.c \notin shut)
    /\ clock' = IF Waits /\ wait.c \in live THEN clock + 1 ELSE clock
    /\ quiet' = [c \in Channels |-> IF quiet[c] < Stall THEN quiet[c] + 1 ELSE Stall]
    /\ UNCHANGED <<entry, live, shut, held, wait, wronged, cornered>>

Reader == hold_input \/ hold_input_until_closed \/ ChannelStalls \/ ConnectionStalls

Next ==
    \/ Reader \/ Tick
    \/ \E c \in Channels, n \in 1..ChannelRoom : Packet(c, n)
    \/ \E c \in Channels : Live(c) \/ TargetTakes(c) \/ Drop(c) \/ target_closed(c)

\* The task and the clock run, dropped input is freed; the target need not take anything.
Fairness == WF_vars(Reader) /\ WF_vars(Tick) /\ \A c \in Channels : WF_vars(Drop(c))

Spec == Init /\ [][Next]_vars
FairSpec == Spec /\ Fairness

-----------------------------------------------------------------------------
(* Properties.                                                             *)

\* A channel is closed for a stall only where its own target has taken none of
\* its input for the stall timeout: a slow target is waited for, and nobody is
\* closed for another (acquire_while_progressing, holders_except). The one
\* exception is the channel that waits where only channels that the target has
\* yet to open hold the connection's room: it is closed in their place.
Blameless == wronged \subseteq cornered

\* Some target takes the input that is held for it: the task that reads the connection
\* then does not wait for ever (hold_input).
SomeoneTakes == \E c \in Channels : held[c] > 0 /\ c \notin Deaf
=============================================================================
