----------------------------- MODULE RdpSession -----------------------------
(***************************************************************************)
(* The size of the desktop in an RDP session, from when the viewer's       *)
(* credentials are accepted: the viewer-facing server on its thread, the   *)
(* control loop with its screens, the dial of the target, and the client   *)
(* that talks to the target.                                               *)
(*                                                                         *)
(* The server has a size of its own, committed by what is routed to it;    *)
(* what it tells the control loop (the negotiated size, the echo of every  *)
(* change, requests of the viewer) goes through a queue, and so does what  *)
(* it is told. Target and viewer are external: a target whose display      *)
(* control channel is up takes the size it is asked for.                   *)
(***************************************************************************)
EXTENDS Naturals, Sequences

CONSTANTS
    None,       \* no size
    Sizes,      \* the sizes
    Default,    \* the size advertised to the viewer
    Screens,    \* whether a banner or a second factor comes before the dial
    Room,       \* SERVER_INPUT_CAPACITY, with the client's own queue
    Inputs,     \* the keys pressed
    Wishes,     \* the sizes the viewer asks for
    Drives      \* the sizes the target changes to by itself

VARIABLES
    size,       \* the server's committed size
    first,      \* the size negotiated with the viewer
    late,       \* whether the target was connected before that
    events,     \* from the server to the control loop
    serverIn,   \* to the server: sizes
    at,         \* "loop", "screen", "admitting", "proxy", "over": the control loop
    screen,     \* the size as the control loop knows it
    told,       \* the size the painter of a screen believes the server has
    by,         \* what set the dial off
    dialed_at,  \* the size dialled at, until the viewer's has been compared with it
    input_rx,   \* to the client: sizes
    requested,  \* the size the target was last asked for
    pending,    \* the size it is to be asked for
    ready,      \* whether its display control channel is up
    orders,     \* what it was asked for and has not answered
    image,      \* its size
    bounced,    \* the target's own changes that were asked of it again
    made        \* the keys, wishes and changes made

viewerVars == <<size, first, late>>
loopVars == <<at, screen, told, by, dialed_at>>
clientVars == <<requested, pending, ready, orders, image>>
vars == <<viewerVars, events, serverIn, loopVars, input_rx, clientVars, bounced, made>>

Init ==
    /\ size = Default /\ first = None /\ late = FALSE /\ events = <<>> /\ serverIn = <<>>
    /\ at = IF Screens THEN "screen" ELSE "loop"
    /\ screen = Default /\ told = Default /\ by = "screen" /\ dialed_at = None
    /\ input_rx = <<>> /\ requested = None /\ pending = None /\ ready = FALSE
    /\ orders = <<>> /\ image = None
    /\ bounced = 0 /\ made = [input |-> 0, wish |-> 0, drive |-> 0]

Emit(kind, s, own) == events' = Append(events, [kind |-> kind, size |-> s, own |-> own])
Make(what, bound) == made[what] < bound /\ made' = [made EXCEPT ![what] = @ + 1]

-----------------------------------------------------------------------------
(* The server that the viewer talks to.                                    *)

\* The viewer's size is taken once; a reactivation keeps the committed one.
request_initial_size(s) ==
    /\ first = None
    /\ first' = s /\ size' = s /\ late' = (image # None)
    /\ Emit("size", s, TRUE)
    /\ UNCHANGED <<serverIn, loopVars, input_rx, clientVars, bounced, made>>

\* What is typed during the handshake comes ahead of the negotiated size.
keyboard ==
    /\ Make("input", Inputs)
    /\ Emit("input", None, TRUE)
    /\ UNCHANGED <<viewerVars, serverIn, loopVars, input_rx, clientVars, bounced>>

request_layout(s) ==
    /\ first # None /\ Make("wish", Wishes)
    /\ IF s = size THEN UNCHANGED events ELSE Emit("resize", s, TRUE)
    /\ UNCHANGED <<viewerVars, serverIn, loopVars, input_rx, clientVars, bounced>>

\* A size that is not new is skipped; a new one is committed and echoed.
route_input ==
    /\ serverIn # <<>>
    /\ serverIn' = Tail(serverIn) /\ size' = Head(serverIn)
    /\ IF size = Head(serverIn) THEN UNCHANGED events ELSE Emit("size", Head(serverIn), FALSE)
    /\ UNCHANGED <<first, late, loopVars, input_rx, clientVars, bounced, made>>

-----------------------------------------------------------------------------
(* The control loop.                                                       *)
Event == Head(events)
Take(kind) == events # <<>> /\ Event.kind = kind /\ events' = Tail(events)

\* dial_if_pending: the wait for the gate has a painter of its own.
Dialling(s, why) == at' = "admitting" /\ by' = why /\ screen' = s /\ told' = s /\ UNCHANGED dialed_at

\* Before the dial: a size or an input sets it off, a request is granted.
BeforeDial ==
    /\ at = "loop"
    /\ \/ Take("size") /\ Dialling(Event.size, "size") /\ UNCHANGED serverIn
       \/ Take("input") /\ Dialling(screen, "input") /\ UNCHANGED serverIn
       \/ /\ Take("resize") /\ Len(serverIn) < Room
          /\ serverIn' = Append(serverIn, Event.size)
          /\ UNCHANGED loopVars
    /\ UNCHANGED <<viewerVars, input_rx, clientVars, bounced, made>>

\* A screen reads the same events; it ends with a key, or with an answer elsewhere.
OnScreen ==
    /\ at \in {"screen", "admitting"}
    /\ \/ (Take("size") \/ Take("resize")) /\ screen' = Event.size
       \/ Take("input") /\ UNCHANGED screen
    /\ UNCHANGED <<viewerVars, serverIn, at, told, by, dialed_at, input_rx, clientVars, bounced, made>>

ScreenEnds ==
    /\ at = "screen"
    /\ Dialling(screen, "screen")
    /\ UNCHANGED <<viewerVars, events, serverIn, input_rx, clientVars, bounced, made>>

\* The painter has the server follow before it paints.
Paint ==
    /\ at \in {"screen", "admitting"} /\ screen # told /\ Len(serverIn) < Room
    /\ serverIn' = Append(serverIn, screen) /\ told' = screen
    /\ UNCHANGED <<viewerVars, events, at, screen, by, dialed_at, input_rx, clientVars, bounced, made>>

\* Faulty variant: the size dialled at is not kept for the comparison.
connect_backend_Forgets ==
    /\ at = "admitting"
    /\ at' = "proxy" /\ dialed_at' = None
    /\ requested' = screen
    /\ UNCHANGED <<viewerVars, events, serverIn, screen, told, by, input_rx, pending, ready, orders, image,
                   bounced, made>>

\* The gate lets the session through. A dial that a size set off is compared with
\* it at once, and agrees.
connect_backend ==
    /\ at = "admitting"
    /\ at' = "proxy"
    /\ dialed_at' = IF by = "size" THEN None ELSE screen
    /\ requested' = screen
    /\ UNCHANGED <<viewerVars, events, serverIn, screen, told, by, input_rx, pending, ready, orders, image,
                   bounced, made>>

\* Faulty variant: the comparison is not spent.
Reconcile_Again ==
    /\ at = "proxy" /\ Take("size")
    /\ screen' = Event.size /\ UNCHANGED dialed_at
    /\ IF dialed_at \notin {None, Event.size}
       THEN /\ input_rx' = Append(input_rx, Event.size)
            /\ bounced' = IF Event.own THEN bounced ELSE bounced + 1
       ELSE UNCHANGED <<input_rx, bounced>>
    /\ UNCHANGED <<viewerVars, serverIn, at, told, by, clientVars, made>>

\* The first size since the dial is compared with the one dialled at; every later
\* one echoes a change of the target.
Reconcile ==
    /\ at = "proxy" /\ Take("size")
    /\ screen' = Event.size /\ dialed_at' = None
    /\ IF dialed_at \notin {None, Event.size}
       THEN /\ input_rx' = Append(input_rx, Event.size)
            /\ bounced' = IF Event.own THEN bounced ELSE bounced + 1
       ELSE UNCHANGED <<input_rx, bounced>>
    /\ UNCHANGED <<viewerVars, serverIn, at, told, by, clientVars, made>>

\* A request of the viewer goes to the target, and so does its input.
Forward ==
    /\ at = "proxy"
    /\ \/ Take("resize") /\ input_rx' = Append(input_rx, Event.size) /\ dialed_at' = None
       \/ Take("input") /\ UNCHANGED <<input_rx, dialed_at>>
    /\ UNCHANGED <<viewerVars, serverIn, at, screen, told, by, clientVars, bounced, made>>

\* The viewer leaves, the gate refuses, or the server has gone.
End ==
    /\ at # "over"
    /\ at' = "over"
    /\ UNCHANGED <<viewerVars, events, serverIn, screen, told, by, dialed_at, input_rx, clientVars, bounced, made>>

-----------------------------------------------------------------------------
(* The client of the target (active_loop); frame_bridge passes on what it  *)
(* reports.                                                                *)

frame_bridge(s) == serverIn' = Append(serverIn, s)

\* report_size: a size that the viewer has been told is not told again.
report_size(s) ==
    /\ at = "proxy" /\ Len(serverIn) < Room
    /\ image' = s
    /\ IF s = image THEN UNCHANGED serverIn ELSE frame_bridge(s)

\* The target may connect at a size of its own choice.
Connect(s) ==
    /\ image = None /\ report_size(s)
    /\ IF s = requested THEN UNCHANGED made ELSE Make("drive", Drives)
    /\ requested' = s
    /\ UNCHANGED <<viewerVars, events, loopVars, input_rx, pending, ready, orders, bounced>>

\* Faulty variant: a size asked for before the target is ready is given up.
TakeInput_Unready ==
    /\ at = "proxy" /\ image # None /\ input_rx # <<>>
    /\ LET s == input_rx[Len(input_rx)] IN pending' = IF s = requested \/ ~ready THEN None ELSE s
    /\ input_rx' = <<>>
    /\ UNCHANGED <<viewerVars, events, serverIn, loopVars, requested, ready, orders, image, bounced, made>>

\* Whatever is queued is taken at once: of the sizes only the last one is kept.
TakeInput ==
    /\ at = "proxy" /\ image # None /\ input_rx # <<>>
    /\ LET s == input_rx[Len(input_rx)] IN pending' = IF s = requested THEN None ELSE s
    /\ input_rx' = <<>>
    /\ UNCHANGED <<viewerVars, events, serverIn, loopVars, requested, ready, orders, image, bounced, made>>

ChannelUp ==
    /\ at = "proxy" /\ image # None /\ ~ready
    /\ ready' = TRUE
    /\ UNCHANGED <<viewerVars, events, serverIn, loopVars, input_rx, requested, pending, orders, image,
                   bounced, made>>

\* A size is kept until the channel takes it.
send_resize ==
    /\ at = "proxy" /\ pending # None /\ ready
    /\ orders' = Append(orders, pending) /\ requested' = pending /\ pending' = None
    /\ UNCHANGED <<viewerVars, events, serverIn, loopVars, input_rx, ready, image, bounced, made>>

\* The target answers with a reactivation or a graphics reset.
reactivate ==
    /\ orders # <<>> /\ report_size(Head(orders))
    /\ orders' = Tail(orders)
    /\ UNCHANGED <<viewerVars, events, loopVars, input_rx, requested, pending, ready, bounced, made>>

\* The target changes its size by itself.
Drive(s) ==
    /\ image \notin {None, s} /\ Make("drive", Drives) /\ report_size(s)
    /\ UNCHANGED <<viewerVars, events, loopVars, input_rx, requested, pending, ready, orders, bounced>>

Next ==
    \/ \E s \in Sizes : request_initial_size(s) \/ request_layout(s) \/ Connect(s) \/ Drive(s)
    \/ keyboard \/ route_input
    \/ BeforeDial \/ OnScreen \/ ScreenEnds \/ Paint \/ connect_backend \/ Reconcile \/ Forward \/ End
    \/ TakeInput \/ ChannelUp \/ send_resize \/ reactivate

Spec == Init /\ [][Next]_vars

-----------------------------------------------------------------------------
Quiet ==
    /\ at = "proxy" /\ image # None /\ pending = None
    /\ events = <<>> /\ serverIn = <<>> /\ input_rx = <<>> /\ orders = <<>>

\* Once nothing is on its way any more, the viewer's server runs at the size of the
\* target: no frame exceeds the desktop it is drawn on, whichever side changed the
\* size and however the changes crossed.
Settled == Quiet /\ ~late => size = image

\* A viewer whose size was never changed since has it on the target, though the
\* target was dialled before it was known (dialed_at), or was not ready for it.
FirstSizeKept ==
    Quiet /\ first # None /\ made.wish = 0 /\ made.drive = 0 => image = first

\* A change of the target itself is asked of it again once at most, and never where
\* the viewer's size set the dial off.
FoughtOnce == bounced <= IF by = "size" THEN 0 ELSE 1

=============================================================================
