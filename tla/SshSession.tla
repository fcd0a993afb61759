------------------------------- MODULE SshSession -------------------------------
(***************************************************************************)
(* An authenticated SSH connection on its way to its target                *)
(* (warpgate-protocol-ssh/src/server: session.rs, target_menu.rs): the     *)
(* selection of a target, the administrator's gate, the dial, the question *)
(* about an unknown host key and the end.  The event loop handles one      *)
(* event at a time; menus, gates, the host key question and the client of  *)
(* the target run beside it and answer by events.  Console input goes to   *)
(* the subscription made last.                                             *)
(***************************************************************************)
EXTENDS Naturals, Sequences, SequencesExt, FiniteSets

CONSTANTS
    Shells,         \* channels the client asks for a shell on
    Targets,        \* SSH targets
    Guarded,        \* targets that need an administrator's approval
    Requested,      \* the target the login named, or None for the menu
    Keys,           \* what the person may type: enter, ctrlC, y, n
    MaxTyped,       \* bound on the packets of input
    Changes,        \* an administrator changes the verification mode
    None            \* no target, no packet

VARIABLES
    sel,        \* TargetSelection and the target it carries
    rc,         \* rc_state as the session knows it
    stamped,    \* target of target_session_id
    recorded,   \* target session each shell is recorded under, or None
    connected,  \* session_handle and client_socket are still there
    running,    \* the event loop runs
    token,      \* disconnect_token is cancelled
    shells,     \* channels with a terminal and a shell
    subs,       \* subscriptions to console input, oldest first
    packet,     \* input between its two halves of _data, or None
    control,    \* queue of the events of the client, the menus and the gates
    events,     \* queue of the target's events
    gates,      \* how many gates wait for each target
    asking,     \* host_key_trust_prompt_active
    answer,     \* the reply the handler of the target connection waits for
    mode,       \* ssh_host_key_verification
    remote,     \* the client of the target: its state and the target dialled
    commands,   \* queue of its commands
    aborting,   \* rc_abort_tx has been used
    trusted,    \* targets whose host key is known
    typed,      \* packets of input so far
    echoed,     \* an answer to the question was passed to the target (history)
    gaveUp,     \* the person broke off the wait for approval (history)
    asked,      \* the mode in which the session met an unknown key (history)
    astray      \* shells asked for after the target of another menu was dialled (history)

front == <<sel, rc, stamped, recorded, shells>>
back == <<remote, commands, aborting, trusted>>
history == <<echoed, gaveUp, asked, astray>>
vars == <<front, connected, running, token, subs, packet, control, events, gates, asking,
          answer, mode, back, typed, history>>

Modes == {"Prompt", "AutoAccept", "AutoReject", "Ignore"}
Nothing == [st |-> "none", t |-> None]
At(st, t) == [st |-> st, t |-> t]

\* _auth_accept: the selection a login leaves behind
Accepted ==
    IF Requested = None THEN At("menu", None)
    ELSE IF Requested \notin Targets THEN At("notfound", None)
    ELSE IF Requested \in Guarded THEN At("pending", Requested) ELSE At("found", Requested)

Init ==
    /\ sel = Accepted /\ rc = "NotInitialized"
    /\ stamped = IF Accepted.st = "found" THEN Accepted.t ELSE None
    /\ recorded = [c \in Shells |-> None] /\ shells = {}
    /\ connected = TRUE /\ running = TRUE /\ token = FALSE
    /\ subs = <<>> /\ packet = None /\ control = <<>> /\ events = <<>>
    /\ gates = [t \in Targets |-> 0] /\ asking = FALSE /\ answer = "none" /\ mode = "Prompt"
    /\ remote = At("idle", None) /\ commands = <<>> /\ aborting = FALSE /\ trusted = {}
    /\ typed = 0 /\ echoed = FALSE /\ gaveUp = FALSE /\ asked = {} /\ astray = {}

-----------------------------------------------------------------------------
(* The client.                                                             *)

\* russh waits for the answer to a callback before it reads the next packet.
Quiet == connected /\ packet = None /\ \A i \in DOMAIN control : control[i][1] \notin {"shell", "data", "gone"}

AskShell(c) ==
    /\ running /\ Quiet /\ c \notin shells
    /\ control' = Append(control, <<"shell", c>>)
    /\ UNCHANGED <<front, connected, running, token, subs, packet, events, gates, asking, answer, mode, back, typed, history>>

Type(c, k) ==
    /\ running /\ Quiet /\ c \in shells /\ typed < MaxTyped
    /\ typed' = typed + 1 /\ control' = Append(control, <<"data", c, k>>)
    /\ UNCHANGED <<front, connected, running, token, subs, packet, events, gates, asking, answer, mode, back, history>>

\* The client goes away, or its socket is shut down: the task that passes its events
\* on cancels the token.
Gone ==
    /\ running /\ <<"gone">> \notin Range(control)
    /\ token' = TRUE /\ control' = Append(control, <<"gone">>)
    /\ UNCHANGED <<front, connected, running, subs, packet, events, gates, asking, answer, mode, back, typed, history>>

\* Mutant: the channels are closed and the socket is left to the client.
Shutdown_Forgotten == ~connected /\ FALSE /\ Gone

\* disconnect_server leaves a task behind that shuts the socket down.
Shutdown == ~connected /\ Gone

-----------------------------------------------------------------------------
(* Pieces of the handlers.                                                 *)

request_disconnect ==
    /\ aborting' = TRUE
    /\ commands' = IF rc \in {"NotInitialized", "Disconnected"} THEN commands ELSE Append(commands, <<"disconnect">>)
disconnect_server == connected' = FALSE
Stop == request_disconnect /\ disconnect_server

\* Mutant: what was asked for before the target session exists is forgotten.
Stamp_Later(t) == stamped' = t /\ UNCHANGED recorded

\* start_pending_recordings: every shell that has waited is recorded now
Stamp(t) ==
    /\ stamped' = t
    /\ recorded' = [c \in Shells |-> IF c \in shells /\ recorded[c] = None THEN t ELSE recorded[c]]

\* maybe_connect_remote and connect_remote, with the selection s
Dial(s) ==
    IF rc # "NotInitialized" THEN sel' = s /\ UNCHANGED <<rc, commands, gates>>
    ELSE CASE s.st = "pending" ->
                /\ sel' = At("awaiting", s.t) /\ gates' = [gates EXCEPT ![s.t] = @ + 1]
                /\ UNCHANGED <<rc, commands>>
           [] s.st = "found" ->
                /\ sel' = At("connected", s.t) /\ rc' = "Connecting"
                /\ commands' = Append(commands, <<"connect", s.t>>)
                /\ UNCHANGED gates
           [] s.st \in {"menu", "awaiting", "connected"} -> sel' = s /\ UNCHANGED <<rc, commands, gates>>
           [] OTHER -> sel' = Nothing /\ UNCHANGED <<rc, commands, gates>>
\* The target that the client was told to dial, and None before.
Dialled ==
    LET connects == SelectSeq(commands, LAMBDA m : m[1] = "connect")
    IN IF connects = <<>> THEN remote.t ELSE Head(connects)[2]

Dialable == rc # "NotInitialized" \/ sel.st \notin {"none", "notfound"}

-----------------------------------------------------------------------------
(* The events of the client.                                               *)

\* A shell, exec or subsystem request.  A target that was not found ends the
\* session, and a request that cannot dial is dropped where it stands.
ShellRequest(c) ==
    /\ Dial(sel)
    /\ connected' = (connected /\ ~(rc = "NotInitialized" /\ sel.st = "notfound"))
    /\ IF Dialable
       THEN /\ shells' = shells \cup {c}
            /\ recorded' = [recorded EXCEPT ![c] = stamped]
            /\ subs' = IF sel.st = "menu" THEN Append(subs, [of |-> "menu", inbox |-> <<>>]) ELSE subs
       ELSE UNCHANGED <<shells, recorded, subs>>
    /\ astray' = IF Dialled \notin {None, stamped} THEN astray \cup {c} ELSE astray
    /\ UNCHANGED <<stamped, running, token, packet, asking, answer, remote, aborting, trusted, echoed, gaveUp, asked>>

\* Ctrl-C while the target is dialled or the session is held.
Interrupt ==
    /\ token' = TRUE /\ request_disconnect
    /\ gaveUp' = (gaveUp \/ sel.st = "awaiting")
    /\ IF sel.st = "awaiting" THEN sel' = Nothing /\ disconnect_server ELSE UNCHANGED <<sel, connected>>
    /\ UNCHANGED <<rc, stamped, recorded, shells, running, subs, packet, gates, asking, answer,
                   remote, trusted, echoed, asked, astray>>

Interrupts(k) == k = "ctrlC" /\ (rc = "Connecting" \/ sel.st = "awaiting")

\* The first half of _data: the input goes to the subscription made last.
Input(k) ==
    /\ subs' = IF subs = <<>> THEN subs ELSE [subs EXCEPT ![Len(subs)].inbox = Append(@, k)]
    /\ packet' = [k |-> k, prompted |-> asking]
    /\ UNCHANGED <<front, connected, running, token, gates, asking, answer, back, history>>

\* The second half: what is typed at a question or at the menu stays here.
Forward ==
    /\ running /\ packet # None
    /\ echoed' = (echoed \/ (packet.prompted /\ ~asking /\ sel.st # "menu"))
    /\ commands' = IF asking \/ sel.st = "menu" THEN commands ELSE Append(commands, <<"data", packet.k>>)
    /\ packet' = None
    /\ UNCHANGED <<front, connected, running, token, subs, control, events, gates, asking, answer, mode,
                   remote, aborting, trusted, typed, gaveUp, asked, astray>>

\* A choice made at a menu is authorized anew, and starts a target session.
Selected(t) ==
    /\ IF t \in Guarded THEN UNCHANGED <<stamped, recorded>> ELSE Stamp(t)
    /\ Dial(At(IF t \in Guarded THEN "pending" ELSE "found", t))
    /\ UNCHANGED <<shells, connected, running, token, subs, packet, asking, answer, remote, aborting, trusted, history>>

\* The menu was left, the target is no longer allowed, or an administrator
\* closes the session.
Denied ==
    /\ Stop
    /\ UNCHANGED <<front, running, token, subs, packet, gates, asking, answer, remote, trusted, history>>

\* Mutant: whether the person is still waiting is not asked.
Resolved_Late(t) ==
    /\ IF t = None THEN Stop /\ sel' = Nothing /\ UNCHANGED <<rc, stamped, recorded, gates>>
       ELSE Stamp(t) /\ Dial(At("found", t)) /\ UNCHANGED <<connected, aborting>>
    /\ UNCHANGED <<shells, running, token, subs, packet, asking, answer, remote, trusted, history>>

\* Event::AdminApprovalResolved
Resolved(t) ==
    /\ IF sel.st # "awaiting" THEN UNCHANGED <<sel, rc, stamped, recorded, gates, connected, aborting, commands>>
       ELSE IF t = None THEN Stop /\ sel' = Nothing /\ UNCHANGED <<rc, stamped, recorded, gates>>
       ELSE Stamp(t) /\ Dial(At("found", t)) /\ UNCHANGED <<connected, aborting>>
    /\ UNCHANGED <<shells, running, token, subs, packet, asking, answer, remote, trusted, history>>

\* The loop ends, the session is dropped and with it every subscription.
SessionEnd ==
    /\ running' = FALSE /\ aborting' = TRUE
    /\ subs' = <<>> /\ answer' = IF answer = "asked" THEN "dropped" ELSE answer
    /\ UNCHANGED <<front, connected, token, packet, gates, asking, remote, commands, trusted, history>>

Control ==
    /\ running /\ packet = None /\ control # <<>>
    /\ control' = Tail(control)
    /\ LET e == Head(control) IN
          \/ e[1] = "shell" /\ ShellRequest(e[2])
          \/ e[1] = "data" /\ Interrupts(e[3]) /\ Interrupt
          \/ e[1] = "data" /\ ~Interrupts(e[3]) /\ Input(e[3])
          \/ e[1] = "selected" /\ Selected(e[2])
          \/ e[1] \in {"selected", "left", "close"} /\ Denied
          \/ e[1] = "resolved" /\ Resolved(e[2])
          \/ e[1] = "gone" /\ SessionEnd
    /\ UNCHANGED <<events, mode, typed>>

-----------------------------------------------------------------------------
(* The events of the target.                                               *)

\* handle_unknown_host_key: the mode decides, or the person is asked where
\* there is a terminal to ask at; a reply that is dropped counts as a failure.
UnknownHostKey ==
    /\ asked' = asked \cup {mode}
    /\ IF mode \in {"AutoAccept", "AutoReject"}
       THEN /\ answer' = IF mode = "AutoAccept" THEN "yes" ELSE "no"
            /\ UNCHANGED <<asking, subs, commands, aborting>>
       ELSE IF shells = {}
       THEN answer' = "dropped" /\ request_disconnect /\ UNCHANGED <<asking, subs>>
       ELSE /\ asking' = TRUE /\ subs' = Append(subs, [of |-> "question", inbox |-> <<>>])
            /\ UNCHANGED <<answer, commands, aborting>>
    /\ UNCHANGED <<front, connected, running, token, packet, gates, remote, trusted, echoed, gaveUp, astray>>

StateChanged(st) ==
    /\ rc' = st /\ connected' = (connected /\ st # "Disconnected")
    /\ UNCHANGED <<sel, stamped, recorded, shells, running, token, subs, packet, gates, asking, answer, back, history>>

Target ==
    /\ running /\ packet = None /\ events # <<>>
    /\ events' = Tail(events)
    /\ LET e == Head(events) IN
          \/ e = "unknown" /\ UnknownHostKey
          \/ e \in {"Connected", "Disconnected"} /\ StateChanged(e)
          \/ e = "error" /\ UNCHANGED <<front, connected, running, token, subs, packet, gates, asking, answer, back, history>>
          \/ e = "done" /\ SessionEnd
    /\ UNCHANGED <<control, mode, typed>>

-----------------------------------------------------------------------------
(* The tasks beside the loop.                                              *)

Taken(i) == [subs EXCEPT ![i].inbox = Tail(@)]
Dropped(i) == RemoveAt(subs, i)

\* run_target_menu_loop
MenuLoop(i) ==
    /\ subs[i].of = "menu" /\ subs[i].inbox # <<>>
    /\ LET k == Head(subs[i].inbox) IN
          \/ /\ k = "enter" /\ subs' = Dropped(i)
             /\ \E t \in Targets : control' = Append(control, <<"selected", t>>)
          \/ k = "ctrlC" /\ subs' = Dropped(i) /\ control' = Append(control, <<"left">>)
          \/ k \notin {"enter", "ctrlC"} /\ subs' = Taken(i) /\ UNCHANGED control
    /\ UNCHANGED <<front, connected, running, token, packet, events, gates, asking, answer, mode, back, typed, history>>

\* The task that waits for the answer to the question.
Question(i) ==
    /\ subs[i].of = "question" /\ subs[i].inbox # <<>>
    /\ LET k == Head(subs[i].inbox) IN
          IF k \in {"y", "n"}
          THEN /\ answer' = IF k = "y" THEN "yes" ELSE "no"
               /\ asking' = FALSE /\ subs' = Dropped(i)
          ELSE subs' = Taken(i) /\ UNCHANGED <<answer, asking>>
    /\ UNCHANGED <<front, connected, running, token, packet, control, events, gates, mode, back, typed, history>>

\* spawn_admin_approval_gate: the decision, or the token that is cancelled.
Gate(t) ==
    /\ running /\ gates[t] > 0
    /\ gates' = [gates EXCEPT ![t] = @ - 1]
    /\ \E approved \in {t, None} :
          /\ token => approved = None
          /\ control' = Append(control, <<"resolved", approved>>)
    /\ UNCHANGED <<front, connected, running, token, subs, packet, events, asking, answer, mode, back, typed, history>>

AdminClose ==
    /\ running /\ <<"close">> \notin Range(control) /\ connected
    /\ token' = TRUE /\ control' = Append(control, <<"close">>)
    /\ UNCHANGED <<front, connected, running, subs, packet, events, gates, asking, answer, mode, back, typed, history>>

ChangeMode ==
    /\ Changes /\ running /\ mode' \in Modes \ {mode}
    /\ UNCHANGED <<front, connected, running, token, subs, packet, control, events, gates, asking, answer, back, typed, history>>

-----------------------------------------------------------------------------
(* The client of the target, as far as the session sees it.                *)

Says(es) == events' = IF running THEN events \o es ELSE events
Ends(es) == Says(es \o <<"Disconnected", "done">>)

RemoteIdle == UNCHANGED <<front, connected, running, token, subs, packet, control, gates, asking, mode, typed, history>>

\* The abort channel and the Disconnect command end it.
RemoteStop ==
    /\ remote.st # "ended"
    /\ \/ aborting /\ UNCHANGED commands
       \/ commands # <<>> /\ Head(commands) = <<"disconnect">> /\ commands' = Tail(commands)
    /\ \/ remote.st = "idle" /\ UNCHANGED events
       \/ remote.st \in {"dialling", "verified"} /\ Ends(<<"error">>)
       \/ remote.st = "up" /\ Ends(<<>>)
    /\ remote' = [remote EXCEPT !.st = "ended"]
    /\ UNCHANGED <<aborting, trusted, answer>> /\ RemoteIdle

RemoteCommand ==
    /\ remote.st # "ended" /\ commands # <<>> /\ Head(commands)[1] # "disconnect"
    /\ commands' = Tail(commands)
    /\ remote' = IF Head(commands)[1] = "connect" THEN At("dialling", Head(commands)[2]) ELSE remote
    /\ UNCHANGED <<events, aborting, trusted, answer>> /\ RemoteIdle

\* check_server_key
CheckServerKey ==
    /\ remote.st = "dialling" /\ answer = "none"
    /\ IF mode = "Ignore" \/ remote.t \in trusted
       THEN remote' = [remote EXCEPT !.st = "verified"] /\ UNCHANGED <<events, answer>>
       ELSE answer' = "asked" /\ Says(<<"unknown">>) /\ UNCHANGED remote
    /\ UNCHANGED <<commands, aborting, trusted>> /\ RemoteIdle

KeyAnswered ==
    /\ remote.st = "dialling" /\ answer \in {"yes", "no", "dropped"}
    /\ IF answer = "yes"
       THEN /\ remote' = [remote EXCEPT !.st = "verified"] /\ trusted' = trusted \cup {remote.t}
            /\ UNCHANGED events
       ELSE remote' = [remote EXCEPT !.st = "ended"] /\ Ends(<<"error">>) /\ UNCHANGED trusted
    /\ UNCHANGED <<commands, aborting, answer>> /\ RemoteIdle

RemoteUp ==
    /\ remote.st = "verified"
    /\ \/ remote' = [remote EXCEPT !.st = "up"] /\ Says(<<"Connected">>)
       \/ remote' = [remote EXCEPT !.st = "ended"] /\ Ends(<<"error">>)
    /\ UNCHANGED <<commands, aborting, trusted, answer>> /\ RemoteIdle

RemoteLost ==
    /\ remote.st = "up" /\ remote' = [remote EXCEPT !.st = "ended"] /\ Ends(<<>>)
    /\ UNCHANGED <<commands, aborting, trusted, answer>> /\ RemoteIdle

-----------------------------------------------------------------------------

Client == \E c \in Shells : AskShell(c) \/ \E k \in Keys : Type(c, k)
Tasks == (\E i \in DOMAIN subs : MenuLoop(i) \/ Question(i)) \/ \E t \in Targets : Gate(t)
Remote == RemoteStop \/ RemoteCommand \/ CheckServerKey \/ KeyAnswered \/ RemoteUp

Next ==
    \/ Client \/ Gone \/ Control \/ Forward \/ Target \/ Tasks \/ AdminClose \/ ChangeMode
    \/ Remote \/ RemoteLost

\* The loop and the tasks run; a socket that was shut down is noticed.
Fairness ==
    /\ WF_vars(Control) /\ WF_vars(Forward) /\ WF_vars(Target) /\ WF_vars(Remote)
    /\ WF_vars(Shutdown)

Spec == Init /\ [][Next]_vars
FairSpec == Spec /\ Fairness

-----------------------------------------------------------------------------
(* Properties.                                                             *)

\* Every shell of a session that has reached its target is recorded under the
\* target session of the target it talks to, whenever it was asked for: before
\* the gate, at the menu or later (stamp_approved_target, pending_recordings).
\* The one exception: a shell asked for after a second menu has started a target
\* session of its own, while the target of the first is dialled, is recorded
\* under the session started last (handle_menu_event, Selected).
RecordedAsDialled ==
    remote.st = "up" => \A c \in shells \ astray : recorded[c] = remote.t

\* A wait the person broke off admits to nothing, even where the decision was
\* already under way (Event::AdminApprovalResolved).
GivenUpForGood == gaveUp => stamped = None

=============================================================================
