------------------------------- MODULE SshRemote -------------------------------
(***************************************************************************)
(* The connection to an SSH target once it is dialled                      *)
(* (warpgate-protocol-ssh/src/client: mod.rs, channel_pump.rs,             *)
(* channel_session.rs, channel_direct_tcpip.rs).  One loop takes the       *)
(* session's commands in order and keeps what comes too early; every       *)
(* channel has a task that opens it, then writes the client's operations   *)
(* and reads the target's output side by side.  All of them report to the  *)
(* session through one bounded queue.                                      *)
(***************************************************************************)
EXTENDS Naturals, Sequences, SequencesExt, FiniteSets, FiniteSetsExt

CONSTANTS
    Ours,           \* channels the session opens
    Forwarded,      \* channels the target opens
    Data,           \* inputs of a channel, in the order of the sequence
    Room,           \* what the queue to the session holds (1024)
    MaxOut,         \* outputs the target sends of its own accord, by channel
    Stalls          \* the target does not read while its own output is unread

Channels == Ours \cup Forwarded

VARIABLES
    state,      \* RCState, as the client itself sees it
    connecting, \* an attempt is under way
    inner,      \* inner_event_rx
    abort,      \* abort_rx has something
    pending,    \* pending_ops
    loop,       \* running, flushing, ending or over
    saying,     \* what the loop sends to the session before it goes on
    pipes,      \* channels with a ChannelPipe
    chan,       \* the channels' tasks and queues
    out,        \* the queue to the session
    issued,     \* operations of each channel so far (history)
    applied,    \* inputs the target has taken, by channel (history)
    heard,      \* what the session has heard (history)
    early       \* the session heard of a channel before it was announced (history)

vars == <<state, connecting, inner, abort, pending, loop, saying, pipes, chan, out, issued, applied, heard, early>>
past == <<issued, applied, heard, early>>

Idle == [task |-> "none", ops |-> <<>>, aborted |-> FALSE, asked |-> FALSE, output |-> 0]

Init ==
    /\ state = "NotInitialized" /\ connecting = TRUE /\ inner = <<>> /\ abort = FALSE
    /\ pending = <<>> /\ loop = "running" /\ saying = <<>> /\ pipes = {}
    /\ chan = [c \in Channels |-> Idle] /\ out = <<>>
    /\ issued = [c \in Channels |-> <<>>] /\ applied = [c \in Channels |-> <<>>]
    /\ heard = {} /\ early = FALSE

Fits == Len(out) < Room
\* try_send: what does not fit is lost
Tried(q, e) == IF Len(q) < Room THEN Append(q, e) ELSE q

-----------------------------------------------------------------------------
(* The session.                                                            *)

Ready(c) == IF c \in Ours THEN "open" \in Range(issued[c]) ELSE <<"announced", c>> \in heard
Over(c) == Range(issued[c]) \cap {"close", "abort"} # {}
Inputs(c) == SelectSeq(issued[c], LAMBDA op : op \in Range(Data))

Issue(c, op) ==
    /\ CASE op = "open" -> c \in Ours /\ issued[c] = <<>>
         [] op \in {"close", "abort"} -> Ready(c) /\ ~Over(c)
         [] OTHER -> Ready(c) /\ ~Over(c) /\ Len(Inputs(c)) < Len(Data) /\ op = Data[Len(Inputs(c)) + 1]
    /\ issued' = [issued EXCEPT ![c] = Append(@, op)]
    /\ inner' = IF loop = "over" THEN inner ELSE Append(inner, <<"op", c, op>>)
    /\ UNCHANGED <<state, connecting, abort, pending, loop, saying, pipes, chan, out, applied, heard, early>>

Hears ==
    /\ out # <<>> /\ out' = Tail(out) /\ heard' = heard \cup {Head(out)}
    /\ early' = (early \/ (Head(out)[1] \in {"output", "closed"} /\ Head(out)[2] \in Forwarded
                           /\ <<"announced", Head(out)[2]>> \notin heard))
    /\ UNCHANGED <<state, connecting, inner, abort, pending, loop, saying, pipes, chan, issued, applied>>

Aborts ==
    /\ ~abort /\ loop # "over" /\ abort' = TRUE
    /\ UNCHANGED <<state, connecting, inner, pending, loop, saying, pipes, chan, out, past>>

-----------------------------------------------------------------------------
(* The loop.                                                               *)

\* The pipe is there before the target has answered.
open_channel(s, c, asked) ==
    [s EXCEPT !.pipes = @ \cup {c}, !.chan[c] = [Idle EXCEPT !.task = "opening", !.asked = asked]]

\* An operation of an open channel: an abort takes a way of its own.
Passed(s, c, op) ==
    IF op = "abort" THEN [s EXCEPT !.pipes = @ \ {c}, !.chan[c].aborted = TRUE]
    ELSE IF s.chan[c].task = "done" THEN [s EXCEPT !.pipes = @ \ {c}]
    ELSE [s EXCEPT !.chan[c].ops = Append(@, op)]

\* apply_channel_op, where the target is connected
apply_channel_op(s, c, op, asked) ==
    IF op = "open" THEN open_channel(s, c, asked)
    ELSE IF c \in s.pipes THEN Passed(s, c, op) ELSE s

Now == [pipes |-> pipes, chan |-> chan]
Becomes(s) == pipes' = s.pipes /\ chan' = s.chan

Command ==
    /\ Head(inner)[1] = "op"
    /\ IF state = "Connected"
       THEN Becomes(apply_channel_op(Now, Head(inner)[2], Head(inner)[3], TRUE)) /\ UNCHANGED pending
       ELSE pending' = Append(pending, Tail(Head(inner))) /\ UNCHANGED <<pipes, chan>>
    /\ UNCHANGED <<state, connecting, abort, loop, saying, out>>

\* set_disconnected: shells and forwarded connections still waiting are closed
\* if there is room, then the session is told.
set_disconnected(first, next) ==
    /\ state' = "Disconnected" /\ connecting' = FALSE /\ pending' = <<>> /\ loop' = next
    /\ saying' = first \o <<<<"Disconnected">>, <<"Done">>>>
    /\ out' = FoldLeft(LAMBDA q, p : IF p[2] = "open" THEN Tried(q, <<"closed", p[1]>>) ELSE q, out, pending)

Connected ==
    /\ Head(inner)[1] = "connected"
    /\ IF Head(inner)[2] = "yes"
       THEN /\ state' = "Connected" /\ connecting' = FALSE /\ loop' = "flushing" /\ saying' = <<<<"Connected">>>>
            /\ UNCHANGED <<pending, out>>
       ELSE set_disconnected(<<<<"error">>>>, "ending")
    /\ UNCHANGED <<abort, pipes, chan>>

\* setup_server_initiated_channel: the task runs before the session is told
Announced ==
    /\ Head(inner)[1] = "forwarded"
    /\ LET c == Head(inner)[2] IN
       /\ pipes' = pipes \cup {c} /\ chan' = [chan EXCEPT ![c].task = "running"]
       /\ saying' = <<<<"announced", c>>>>
    /\ UNCHANGED <<state, connecting, abort, pending, loop, out>>

Lost == Head(inner)[1] = "lost" /\ set_disconnected(<<>>, "running") /\ UNCHANGED <<abort, pipes, chan>>

handle_event ==
    /\ loop = "running" /\ saying = <<>> /\ inner # <<>>
    /\ inner' = Tail(inner)
    /\ Command \/ Connected \/ Announced \/ Lost
    /\ UNCHANGED past

\* disconnect, asked for through abort_rx
Stop ==
    /\ loop = "running" /\ saying = <<>> /\ abort /\ abort' = FALSE
    /\ IF connecting THEN set_disconnected(<<<<"error">>>>, "ending")
       ELSE IF state = "Connected" THEN set_disconnected(<<>>, "ending")
       ELSE loop' = "ending" /\ UNCHANGED <<state, connecting, pending, saying, out>>
    /\ UNCHANGED <<inner, pipes, chan, past>>

Say ==
    /\ saying # <<>> /\ Fits
    /\ out' = Append(out, Head(saying)) /\ saying' = Tail(saying)
    /\ UNCHANGED <<state, connecting, inner, abort, pending, loop, pipes, chan, past>>

\* Mutant: what was kept is applied last first.
Kept_Backwards == FoldRight(LAMBDA p, s : apply_channel_op(s, p[1], p[2], FALSE), pending, Now)

Kept == FoldLeft(LAMBDA s, p : apply_channel_op(s, p[1], p[2], FALSE), Now, pending)

\* on_connected: what was kept is applied in order
Flush ==
    /\ loop = "flushing" /\ saying = <<>>
    /\ Becomes(Kept) /\ pending' = <<>> /\ loop' = "running"
    /\ UNCHANGED <<state, connecting, inner, abort, saying, out, past>>

\* A forward that was kept is refused: the loop ends with an error.
Fails ==
    /\ loop = "flushing" /\ saying = <<>>
    /\ out' = Tried(out, <<"Error">>) /\ loop' = "ending"
    /\ UNCHANGED <<state, connecting, inner, abort, pending, saying, pipes, chan, past>>

\* Drop for RemoteClient: the tasks are aborted, and say so if they can
Ends ==
    /\ loop = "ending" /\ saying = <<>> /\ loop' = "over"
    /\ out' = FoldSet(LAMBDA c, q : Tried(q, <<"closed", c>>), out, {c \in Channels : chan[c].task = "running"})
    /\ chan' = [c \in Channels |-> IF chan[c].task = "none" THEN chan[c] ELSE [chan[c] EXCEPT !.task = "done"]]
    /\ UNCHANGED <<state, connecting, inner, abort, pending, saying, pipes, past>>

-----------------------------------------------------------------------------
(* The task of a channel.                                                  *)

Steps(c, r) == chan' = [chan EXCEPT ![c] = r]
TaskOnly == UNCHANGED <<state, connecting, inner, abort, pending, loop, saying>>

\* The target answers; a refusal goes to whoever waits, or is reported.
OpenAnswered(c, yes) ==
    /\ chan[c].task = "opening"
    /\ IF yes THEN Steps(c, [chan[c] EXCEPT !.task = "opened"]) /\ UNCHANGED pipes
       ELSE /\ Steps(c, [chan[c] EXCEPT !.task = IF chan[c].asked THEN "done" ELSE "closing"])
            /\ pipes' = pipes \ {c}
    /\ UNCHANGED <<out, past>> /\ TaskOnly

Reports(c, from, to, e) ==
    /\ chan[c].task = from /\ Fits
    /\ out' = Append(out, e) /\ Steps(c, [chan[c] EXCEPT !.task = to])
    /\ UNCHANGED <<pipes, past>> /\ TaskOnly

Opened(c) == Reports(c, "opened", "running", <<"opened", c>>)

\* Mutant: the close is tried once, and lost where the queue is full.
close_and_wait_Tried(c) ==
    /\ chan[c].task = "closing" /\ out' = Tried(out, <<"closed", c>>) /\ Steps(c, [chan[c] EXCEPT !.task = "done"])
    /\ UNCHANGED <<pipes, past>> /\ TaskOnly

close_and_wait(c) == Reports(c, "closing", "done", <<"closed", c>>)

\* forward_operations: a write waits for the target
forward_operations(c) ==
    /\ chan[c].task = "running" /\ chan[c].ops # <<>>
    /\ LET op == Head(chan[c].ops) IN
       /\ op # "close" => (Stalls => chan[c].output = 0)
       /\ Steps(c, [chan[c] EXCEPT !.ops = Tail(@), !.task = IF op = "close" THEN "closing" ELSE @,
                                   !.output = IF op # "close" /\ Stalls THEN @ + 1 ELSE @])
       /\ applied' = [applied EXCEPT ![c] = IF op = "close" THEN @ ELSE Append(@, op)]
    /\ UNCHANGED <<pipes, out, issued, heard, early>> /\ TaskOnly

\* Mutant: one loop for both directions.
forward_target_events_OneLoop(c) ==
    /\ chan[c].task = "running" /\ chan[c].output > 0 /\ Fits /\ chan[c].ops = <<>>
    /\ out' = Append(out, <<"output", c>>) /\ Steps(c, [chan[c] EXCEPT !.output = @ - 1])
    /\ UNCHANGED <<pipes, past>> /\ TaskOnly

forward_target_events(c) ==
    /\ chan[c].task = "running" /\ chan[c].output > 0 /\ Fits
    /\ out' = Append(out, <<"output", c>>) /\ Steps(c, [chan[c] EXCEPT !.output = @ - 1])
    /\ UNCHANGED <<pipes, past>> /\ TaskOnly

\* pump: an abort ends it whatever is waiting, and the input is dropped
Aborted(c) ==
    /\ chan[c].task = "running" /\ chan[c].aborted
    /\ Steps(c, [chan[c] EXCEPT !.task = "closing", !.ops = <<>>]) /\ UNCHANGED <<pipes, out, past>> /\ TaskOnly

-----------------------------------------------------------------------------
(* The target.                                                             *)

TargetAnswers(how) ==
    /\ connecting /\ ~\E i \in DOMAIN inner : inner[i][1] = "connected"
    /\ inner' = Append(inner, <<"connected", how>>)
    /\ UNCHANGED <<state, connecting, abort, pending, loop, saying, pipes, chan, out, past>>

TargetOpens(c) ==
    /\ c \in Forwarded /\ state = "Connected" /\ chan[c].task = "none"
    /\ ~\E i \in DOMAIN inner : inner[i] = <<"forwarded", c>>
    /\ inner' = Append(inner, <<"forwarded", c>>)
    /\ UNCHANGED <<state, connecting, abort, pending, loop, saying, pipes, chan, out, past>>

TargetSends(c) ==
    /\ state = "Connected" /\ chan[c].task = "running" /\ chan[c].output < MaxOut
    /\ Steps(c, [chan[c] EXCEPT !.output = @ + 1])
    /\ UNCHANGED <<pipes, out, past>> /\ TaskOnly

\* It closes a channel, or all of them end with the connection.
TargetCloses(c) ==
    /\ chan[c].task = "running" /\ chan[c].output = 0
    /\ Steps(c, [chan[c] EXCEPT !.task = "closing"]) /\ UNCHANGED <<pipes, out, past>> /\ TaskOnly

TargetLost ==
    /\ state = "Connected" /\ loop # "over" /\ ~\E i \in DOMAIN inner : inner[i][1] = "lost"
    /\ inner' = Append(inner, <<"lost">>)
    /\ UNCHANGED <<state, connecting, abort, pending, loop, saying, pipes, chan, out, past>>

-----------------------------------------------------------------------------
Ops == {"open", "close", "abort"} \cup Range(Data)
Loop == handle_event \/ Stop \/ Say \/ Flush \/ Fails \/ Ends
Task(c) == Opened(c) \/ close_and_wait(c) \/ forward_target_events(c) \/ Aborted(c)

Next ==
    \/ Loop \/ Hears \/ Aborts \/ TargetLost
    \/ \E c \in Channels, op \in Ops : Issue(c, op)
    \/ \E c \in Channels : Task(c) \/ forward_operations(c) \/ TargetOpens(c) \/ TargetSends(c) \/ TargetCloses(c)
    \/ \E c \in Channels, yes \in BOOLEAN : OpenAnswered(c, yes)
    \/ \E how \in {"yes", "no"} : TargetAnswers(how)

\* The loop, the tasks and the session run; the target answers opens, and need do nothing else.
Fairness ==
    /\ WF_vars(Loop) /\ WF_vars(Hears)
    /\ \A c \in Channels : WF_vars(Task(c)) /\ WF_vars(\E yes \in BOOLEAN : OpenAnswered(c, yes))
    /\ \A c \in Channels : WF_vars(Aborted(c)) /\ SF_vars(Opened(c) \/ close_and_wait(c))
    /\ SF_vars(Say)

Spec == Init /\ [][Next]_vars
FairSpec == Spec /\ Fairness

-----------------------------------------------------------------------------
(* Properties.                                                             *)

\* The target takes a channel's input in the order it was given and without a
\* gap, also across the moment it is connected (apply_channel_op, on_connected).
AppliedInOrder == \A c \in Channels : IsPrefix(applied[c], Inputs(c))

\* Input that waits for its target; it is taken, also by a target that reads only while
\* its output is read (pump).
Unread(c) == chan[c].task = "running" /\ chan[c].ops # <<>>
=============================================================================
