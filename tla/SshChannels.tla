------------------------------ MODULE SshChannels ------------------------------
(***************************************************************************)
(* The channels of one SSH connection (warpgate-protocol-ssh/src/server:   *)
(* session.rs, channel_registry.rs, channel_writer.rs, russh_handler.rs).  *)
(* Four tasks share them.  The russh task reads the client's packets one   *)
(* at a time, waits for the answer to each callback before it reads the    *)
(* next, and only between callbacks sends what is queued for the client.   *)
(* The event loop handles events, keeps the registry, and holds back what  *)
(* it learns of a channel before its open is confirmed.  The writer passes *)
(* its output on in order.  The target opens, writes and closes channels.  *)
(***************************************************************************)
EXTENDS Naturals, Sequences, SequencesExt, FiniteSets

CONSTANTS
    Ours,           \* channels the client opens
    Forwarded,      \* channels the target opens towards the client
    MaxOut,         \* outputs the target sends on a channel
    MaxIn,          \* inputs the client sends on a channel
    TargetCloses,   \* the target may close a channel first
    CloseFails      \* the target's connection may leave a close without a reply

\* Assumed: Ours \cap Forwarded = {}

Channels == Ours \cup Forwarded

NoChannel == "nobody"
NoEvent == <<"none">>

VARIABLES
    reg,        \* ChannelRegistry: absent, opening or open
    named,      \* the client-facing id is known (server_id)
    deferred,   \* target events held on a channel that is opening
    deferredIn, \* deferred_server_events
    waiting,    \* the open or the close whose reply the loop awaits
    pending,    \* pending_events
    control,    \* queue of the client's events and of resolved opens
    remote,     \* queue of the target's events
    writes,     \* queue of the ChannelWriter
    outbox,     \* what the russh task still has to send
    inbound,    \* packets of the client the russh task has not read
    callback,   \* callback the russh task is waiting for
    est,        \* russh's own table: none, asked, up or gone
    resolved,   \* opens the client has answered, not yet told to the loop
    cut,        \* channels whose waiting input was cancelled (ChannelInput.closed)
    client,     \* the client's view: none, asked, up, half (it closed) or over
    far,        \* the target's view: none, asked, up, told (to close) or over
    announcing, \* channel the target opened whose news is not sent yet, or nobody
    sent,       \* outputs the target has sent, by channel
    given,      \* inputs the client has sent, by channel
    early,      \* history: outputs queued ahead of the news of their channel
    got,        \* history: outputs the client received
    applied     \* history: inputs the target was given

vars == <<reg, named, deferred, deferredIn, waiting, pending, control, remote, writes, outbox,
          inbound, callback, est, resolved, cut, client, far, announcing, sent, given, early, got, applied>>

loopVars == <<reg, named, deferred, deferredIn, waiting, pending>>
wireVars == <<outbox, inbound, callback, est>>
targetVars == <<far, announcing, sent, early>>
peerVars == <<client, given, got, targetVars>>

Init ==
    /\ reg = [c \in Channels |-> "absent"]
    /\ named = [c \in Channels |-> FALSE]
    /\ deferred = [c \in Channels |-> <<>>]
    /\ deferredIn = <<>>
    /\ waiting = NoEvent
    /\ pending = <<>> /\ control = <<>> /\ remote = <<>>
    /\ writes = <<>> /\ outbox = <<>> /\ inbound = <<>>
    /\ callback = NoEvent
    /\ est = [c \in Channels |-> "none"]
    /\ resolved = {}
    /\ cut = {}
    /\ client = [c \in Channels |-> "none"]
    /\ far = [c \in Channels |-> "none"]
    /\ announcing = NoChannel
    /\ sent = [c \in Channels |-> 0]
    /\ early = [c \in Channels |-> 0]
    /\ given = [c \in Channels |-> 0]
    /\ got = [c \in Channels |-> <<>>]
    /\ applied = [c \in Channels |-> <<>>]

----------------------------------------------------------------------------
(* The client *)

ClientOpens(c) ==
    /\ c \in Ours
    /\ client[c] = "none"
    /\ client' = [client EXCEPT ![c] = "asked"]
    /\ inbound' = Append(inbound, <<"open", c>>)
    /\ UNCHANGED <<loopVars, control, remote, writes, outbox, callback, est, resolved, cut, targetVars, given, got, applied>>

ClientAnswers(c, answer) ==
    /\ c \in Forwarded
    /\ client[c] = "asked"
    /\ client' = [client EXCEPT ![c] = IF answer = "confirm" THEN "up" ELSE "over"]
    /\ inbound' = Append(inbound, <<answer, c>>)
    /\ UNCHANGED <<loopVars, control, remote, writes, outbox, callback, est, resolved, cut, targetVars, given, got, applied>>

ClientSends(c) ==
    /\ client[c] = "up"
    /\ given[c] < MaxIn
    /\ given' = [given EXCEPT ![c] = @ + 1]
    /\ inbound' = Append(inbound, <<"data", c, given[c] + 1>>)
    /\ UNCHANGED <<loopVars, control, remote, writes, outbox, callback, est, resolved, cut, client, targetVars, got, applied>>

ClientCloses(c) ==
    /\ client[c] = "up"
    /\ client' = [client EXCEPT ![c] = "half"]
    /\ inbound' = Append(inbound, <<"close", c>>)
    /\ UNCHANGED <<loopVars, control, remote, writes, outbox, callback, est, resolved, cut, targetVars, given, got, applied>>

----------------------------------------------------------------------------
(* The target, and the client task that stands for it *)

\* setup_server_initiated_channel: the channel's task is started, and only then
\* is the session told of the channel.
TargetOpens(c) ==
    /\ c \in Forwarded
    /\ far[c] = "none"
    /\ announcing = NoChannel
    /\ far' = [far EXCEPT ![c] = "up"]
    /\ announcing' = c
    /\ UNCHANGED <<loopVars, control, remote, writes, wireVars, resolved, cut, client, sent, given, early, got, applied>>

Announce ==
    /\ announcing # NoChannel
    /\ remote' = Append(remote, <<"forwarded", announcing>>)
    /\ announcing' = NoChannel
    /\ UNCHANGED <<loopVars, control, writes, wireVars, resolved, cut, client, far, sent, given, early, got, applied>>

TargetSends(c) ==
    /\ far[c] = "up"
    /\ sent[c] < MaxOut
    /\ sent' = [sent EXCEPT ![c] = @ + 1]
    /\ early' = [early EXCEPT ![c] = IF announcing = c THEN @ + 1 ELSE @]
    /\ remote' = Append(remote, <<"output", c, sent[c] + 1>>)
    /\ UNCHANGED <<loopVars, control, writes, wireVars, resolved, cut, client, far, announcing, given, got, applied>>

\* The target closes a channel of its own accord or because it was told to: the
\* channel's task says so either way (close_and_wait).
TargetEnds(c) ==
    /\ far[c] = "told" \/ (far[c] = "up" /\ TargetCloses)
    /\ far' = [far EXCEPT ![c] = "over"]
    /\ remote' = Append(remote, <<"closed", c>>)
    /\ UNCHANGED <<loopVars, control, writes, wireVars, resolved, cut, client, announcing, sent, given, early, got, applied>>

----------------------------------------------------------------------------
(* The russh task: one packet or one message at a time, neither while a     *)
(* callback is outstanding                                                  *)

\* An open, and the answer to one, do not wait for the loop.
ReadOpen(c) ==
    /\ Head(inbound) = <<"open", c>>
    /\ est' = [est EXCEPT ![c] = "asked"]
    /\ control' = Append(control, Head(inbound))
    /\ UNCHANGED <<callback, resolved>>

\* open_server_channel_in_background learns of the answer; its task tells the
\* loop in a step of its own.
ReadAnswer(c) ==
    /\ Head(inbound) \in {<<"confirm", c>>, <<"refuse", c>>}
    /\ est' = [est EXCEPT ![c] = IF Head(inbound)[1] = "confirm" THEN "up" ELSE "gone"]
    /\ resolved' = resolved \cup {Head(inbound)}
    /\ UNCHANGED <<callback, control>>

\* Packets for a channel that is not established are ignored; input for one
\* whose target has closed is dropped by hold_input_until_closed.
ReadInput(c) ==
    /\ Head(inbound)[1] \in {"data", "close"} /\ Head(inbound)[2] = c
    /\ LET dropped == est[c] # "up" \/ (Head(inbound)[1] = "data" /\ c \in cut)
       IN /\ callback' = IF dropped THEN callback ELSE Head(inbound)
          /\ control' = IF dropped THEN control ELSE Append(control, Head(inbound))
    /\ est' = IF Head(inbound)[1] = "close" /\ est[c] = "up" THEN [est EXCEPT ![c] = "gone"] ELSE est
    /\ UNCHANGED resolved

Read ==
    /\ callback = NoEvent
    /\ inbound # <<>>
    /\ inbound' = Tail(inbound)
    /\ \E c \in Channels : ReadOpen(c) \/ ReadAnswer(c) \/ ReadInput(c)
    /\ UNCHANGED <<loopVars, remote, writes, outbox, cut, peerVars, applied>>

\* The client answers the close of a channel with its own.
Dispatch ==
    /\ callback = NoEvent
    /\ outbox # <<>>
    /\ LET m == Head(outbox)
           c == m[2]
       IN /\ outbox' = Tail(outbox)
          /\ est' = [est EXCEPT ![c] = CASE m[1] = "ask" -> "asked"
                                         [] m[1] = "confirm" -> "up"
                                         [] m[1] \in {"reject", "close"} -> "gone"
                                         [] OTHER -> @]
          /\ got' = IF m[1] = "output" /\ est[c] = "up" THEN [got EXCEPT ![c] = Append(@, m[3])] ELSE got
          /\ client' = [client EXCEPT ![c] = CASE m[1] = "ask" -> "asked"
                                               [] m[1] = "confirm" -> "up"
                                               [] m[1] \in {"reject", "close"} -> "over"
                                               [] OTHER -> @]
          /\ inbound' = IF m[1] = "close" /\ client[c] = "up" THEN Append(inbound, <<"close", c>>) ELSE inbound
    /\ UNCHANGED <<loopVars, control, remote, writes, callback, resolved, cut, targetVars, given, applied>>

\* The task of a background open tells the loop.
Resolve(r) ==
    /\ r \in resolved
    /\ resolved' = resolved \ {r}
    /\ control' = Append(control, <<IF r[1] = "confirm" THEN "opened" ELSE "failed", r[2]>>)
    /\ UNCHANGED <<loopVars, remote, writes, wireVars, cut, peerVars, applied>>

\* The task of the ChannelWriter.
Write ==
    /\ writes # <<>>
    /\ writes' = Tail(writes)
    /\ outbox' = Append(outbox, Head(writes))
    /\ UNCHANGED <<loopVars, control, remote, inbound, callback, est, resolved, cut, peerVars, applied>>

----------------------------------------------------------------------------
(* The event loop *)

Known(c) == reg[c] # "absent" /\ named[c]
HasOpening == \E c \in Channels : reg[c] = "opening"

\* The oneshot of the event is answered, or dropped with it.
Release(e) == callback' = IF callback = e THEN NoEvent ELSE callback

\* Channel::try_defer.
Deferrable(c) == reg[c] = "opening"

\* Event::Client for a channel: held back while it opens, else written on.
HandleOutput(c, e) ==
    /\ e[1] \in {"output", "closed"}
    /\ IF Deferrable(c)
       THEN /\ deferred' = [deferred EXCEPT ![c] = Append(@, e)]
            /\ UNCHANGED <<reg, writes, cut>>
       ELSE /\ writes' = IF ~Known(c) THEN writes
                         ELSE Append(writes, IF e[1] = "closed" THEN <<"close", c>> ELSE e)
            /\ reg' = IF e[1] = "closed" THEN [reg EXCEPT ![c] = "absent"] ELSE reg
            /\ cut' = IF e[1] = "closed" /\ Known(c) THEN cut \cup {c} ELSE cut
            /\ UNCHANGED deferred
    /\ UNCHANGED <<named, deferredIn, waiting, outbox, callback, far, applied>>

\* open_server_channel_in_background
HandleForwarded(c, e) ==
    /\ e = <<"forwarded", c>>
    /\ reg' = [reg EXCEPT ![c] = "opening"]
    /\ outbox' = Append(outbox, <<"ask", c>>)
    /\ UNCHANGED <<named, deferred, deferredIn, waiting, writes, callback, cut, far, applied>>

\* _channel_open up to the wait for the target's answer
HandleOpen(c, e) ==
    /\ e = <<"open", c>>
    /\ reg' = [reg EXCEPT ![c] = "opening"]
    /\ named' = [named EXCEPT ![c] = TRUE]
    /\ far' = [far EXCEPT ![c] = "asked"]
    /\ waiting' = e
    /\ UNCHANGED <<deferred, deferredIn, writes, outbox, callback, cut, applied>>

\* A slip: the client's events are never held back.
TooEarly_Never(c) == FALSE

\* A name nobody carries is taken for that of an open in flight.
TooEarly(c) == ~Known(c) /\ HasOpening

\* An event of the client that names a channel: its data go to the target, and
\* its close begins the wait for the target's reply (_channel_close).
HandleInput(c, e) ==
    /\ e[1] \in {"data", "close"}
    /\ LET closes == e[1] = "close" /\ Known(c)
       IN IF TooEarly(c)
          THEN /\ deferredIn' = Append(deferredIn, e)
               /\ UNCHANGED <<waiting, callback, applied>>
          ELSE /\ waiting' = IF closes THEN e ELSE waiting
               /\ IF closes THEN UNCHANGED callback ELSE Release(e)
               /\ applied' = IF e[1] = "data" /\ Known(c) THEN [applied EXCEPT ![c] = Append(@, e[3])] ELSE applied
               /\ UNCHANGED deferredIn
    /\ UNCHANGED <<reg, named, deferred, writes, outbox, cut, far>>

\* Event::ServerChannelOpenResult: what was held back is handled next.
HandleResult(c, e) ==
    /\ e \in {<<"opened", c>>, <<"failed", c>>}
    /\ LET live == e[1] = "opened" /\ reg[c] # "absent"
       IN /\ reg' = [reg EXCEPT ![c] = IF live THEN "open" ELSE "absent"]
          /\ named' = [named EXCEPT ![c] = live]
          /\ far' = IF e[1] = "failed" /\ far[c] = "up" THEN [far EXCEPT ![c] = "told"] ELSE far
    /\ deferred' = [deferred EXCEPT ![c] = <<>>]
    /\ deferredIn' = <<>>
    /\ UNCHANGED <<waiting, writes, outbox, callback, cut, applied>>

\* A slip: what the client sent meanwhile is replayed after a success only.
Replayed_OnSuccess(c, e) == IF e[1] = "opened" /\ reg[c] # "absent" THEN deferred[c] \o deferredIn ELSE <<>>

\* confirm_channel_open and replay_deferred_server_events
Replayed(c, e) ==
    (IF e[1] = "opened" /\ reg[c] # "absent" THEN deferred[c] ELSE <<>>) \o deferredIn

Handle(e) ==
    LET c == e[2]
    IN \/ HandleOutput(c, e)
       \/ HandleForwarded(c, e)
       \/ HandleOpen(c, e)
       \/ HandleInput(c, e)
       \/ HandleResult(c, e)

\* A slip: what was held back queues up behind what was set aside.
Again_Behind(e, rest) ==
    IF e[1] \in {"opened", "failed"} THEN rest \o Replayed(e[2], e) ELSE rest

Again(e, rest) ==
    IF e[1] \in {"opened", "failed"} THEN Replayed(e[2], e) \o rest ELSE rest

\* One turn of the loop: events set aside come first, then either queue.
Turn ==
    /\ waiting = NoEvent
    /\ \/ /\ pending # <<>>
          /\ Handle(Head(pending))
          /\ pending' = Again(Head(pending), Tail(pending))
          /\ UNCHANGED <<control, remote>>
       \/ /\ pending = <<>> /\ control # <<>>
          /\ Handle(Head(control))
          /\ pending' = Again(Head(control), <<>>)
          /\ control' = Tail(control)
          /\ UNCHANGED remote
       \/ /\ pending = <<>> /\ remote # <<>>
          /\ Handle(Head(remote))
          /\ pending' = Again(Head(remote), <<>>)
          /\ remote' = Tail(remote)
          /\ UNCHANGED control
    /\ UNCHANGED <<inbound, est, resolved, client, announcing, sent, given, early, got>>

\* send_command_and_wait sets aside what arrives before the reply.
SetAside ==
    /\ waiting # NoEvent
    /\ \/ /\ control # <<>>
          /\ pending' = Append(pending, Head(control))
          /\ control' = Tail(control)
          /\ UNCHANGED remote
       \/ /\ remote # <<>>
          /\ pending' = Append(pending, Head(remote))
          /\ remote' = Tail(remote)
          /\ UNCHANGED control
    /\ UNCHANGED <<reg, named, deferred, deferredIn, waiting, writes, wireVars, resolved, cut, peerVars, applied>>

\* The reply: the open is confirmed to the client, and only then is the
\* channel's output let through; or it is refused, or never comes.
Reply(ok) ==
    /\ waiting[1] = "open"
    /\ LET c == waiting[2]
       IN /\ reg' = [reg EXCEPT ![c] = IF ok THEN "open" ELSE "absent"]
          /\ far' = [far EXCEPT ![c] = IF ok THEN "up" ELSE "over"]
          /\ outbox' = Append(outbox, <<IF ok THEN "confirm" ELSE "reject", c>>)
          /\ pending' = IF ok THEN deferred[c] \o deferredIn \o pending ELSE pending
          /\ deferredIn' = IF ok THEN <<>> ELSE deferredIn
          /\ deferred' = [deferred EXCEPT ![c] = <<>>]
          /\ waiting' = NoEvent
    /\ UNCHANGED <<named, control, remote, writes, inbound, callback, est, resolved, cut, client, announcing, sent, given, early, got, applied>>

\* The reply to a close: the channel leaves the registry.  Without one the target
\* was not told and the channel stays, and either way the client's close is
\* answered, the oneshot being dropped with the error.
CloseReply(ok) ==
    /\ waiting[1] = "close"
    /\ announcing = NoChannel
    /\ ok \/ CloseFails
    /\ LET c == waiting[2]
       IN /\ reg' = [reg EXCEPT ![c] = IF ok THEN "absent" ELSE @]
          /\ far' = [far EXCEPT ![c] = IF ok /\ @ = "up" THEN "told" ELSE @]
    /\ Release(waiting)
    /\ waiting' = NoEvent
    /\ UNCHANGED <<named, deferred, deferredIn, pending, control, remote, writes, outbox, inbound, est, resolved, cut, client, announcing, sent, given, early, got, applied>>

----------------------------------------------------------------------------
Next ==
    \/ \E c \in Channels :
        \/ ClientOpens(c) \/ ClientSends(c) \/ ClientCloses(c)
        \/ \E a \in {"confirm", "refuse"} : ClientAnswers(c, a)
        \/ TargetOpens(c) \/ TargetSends(c) \/ TargetEnds(c)
    \/ Read \/ Dispatch \/ Write
    \/ \E r \in resolved : Resolve(r)
    \/ Turn \/ SetAside
    \/ Announce
    \/ \E ok \in BOOLEAN : Reply(ok) \/ CloseReply(ok)

\* Every task runs when it can, and the client answers an open.
Fairness ==
    /\ WF_vars(Read) /\ WF_vars(Dispatch) /\ WF_vars(Write)
    /\ WF_vars(\E r \in resolved : Resolve(r))
    /\ WF_vars(Turn) /\ WF_vars(Announce)
    /\ WF_vars(\E ok \in BOOLEAN : Reply(ok) \/ CloseReply(ok))
    /\ WF_vars(\E c \in Channels, a \in {"confirm", "refuse"} : ClientAnswers(c, a))

Spec == Init /\ [][Next]_vars /\ Fairness

----------------------------------------------------------------------------
(* Properties *)

(***************************************************************************)
(* What the client receives of a channel is what the target sent, in that  *)
(* order and without a gap, whatever was held back or set aside.  The one  *)
(* exception: output queued ahead of the news of its channel finds no      *)
(* channel and is lost (client/mod.rs, setup_server_initiated_channel).    *)
(***************************************************************************)
OutputInOrder == \A c \in Channels : \A i \in DOMAIN got[c] : got[c][i] = early[c] + i

(***************************************************************************)
(* What the target is given of a channel is what the client sent, in that  *)
(* order and without a gap: input that overtakes the news of its channel   *)
(* being open is not refused.                                              *)
(***************************************************************************)
InputInOrder == \A c \in Channels : \A i \in DOMAIN applied[c] : applied[c][i] = i

(***************************************************************************)
(* The russh task waits for the answer to a packet whose channel the       *)
(* target has closed.  The loop holds the packet back for the opens in     *)
(* flight, and the client's answer to each of them is still to be read by  *)
(* that same task: neither goes on (session.rs, handle_event).             *)
(***************************************************************************)
Crossed ==
    /\ callback # NoEvent /\ callback[2] \in cut
    /\ callback \in ToSet(deferredIn)
    /\ HasOpening
    /\ \A c \in Channels : reg[c] = "opening" => c \in Forwarded /\ est[c] \in {"none", "asked"}
================================================================================
