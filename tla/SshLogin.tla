------------------------------- MODULE SshLogin -------------------------------
(***************************************************************************)
(* The keyboard-interactive rounds of an SSH login that needs an approval  *)
(* in the browser (warpgate-protocol-ssh/src/server/session.rs).  Each     *)
(* request of the client is one round; the server carries a wait from one  *)
(* round to the next.  With web_auth_auto_continue a round has no prompts, *)
(* so that the client answers it by itself, and the server holds each for  *)
(* a while; otherwise the person presses Enter.  A connection may start    *)
(* only MAX_WEB_AUTH_WAITS waits, however it changes its user name.        *)
(***************************************************************************)
EXTENDS Naturals

CONSTANTS
    Principals,     \* pairs of user and target the client can name
    AutoContinue,   \* ssh.web_auth_auto_continue
    MaxWaits,       \* MAX_WEB_AUTH_WAITS
    CounterMax,     \* where the counter of waits saturates: 255
    Budget,         \* ssh.web_auth_wait_timeout, in ticks
    Cadence,        \* WEB_AUTH_POLL_CADENCE, in ticks
    Otp,            \* the users need a one-time password as well
    Restless        \* the client may change its user, and use other methods

Unset == Budget + 1

\* What keyboard_interactive_state carries: own says that the wait belongs to
\* the attempt the connection is on now, left what remains of its budget.
NoWait == [on |-> FALSE, own |-> FALSE, left |-> Unset, urlShown |-> FALSE, farewell |-> FALSE]

VARIABLES
    who,            \* principal of the cached AuthState
    otpDone,        \* its one-time password has been accepted
    web,            \* its approval: open, approved or rejected
    otpSent,        \* carried: the prompt for the one-time password went out
    wait,           \* carried: the wait for the browser
    used,           \* web_auth_waits_used
    held,           \* ticks for which the server still holds the round, or idle
    reply,          \* last answer to the client
    waits,          \* history: waits started
    urls            \* history: times the approval URL was printed

vars == <<who, otpDone, web, otpSent, wait, used, held, reply, waits, urls>>

Idle == Cadence + 1

Lesser(a, b) == IF a < b THEN a ELSE b

Init ==
    /\ who = "none"
    /\ otpDone = FALSE
    /\ web = "open"
    /\ otpSent = FALSE
    /\ wait = NoWait
    /\ used = 0
    /\ held = Idle
    /\ reply = "none"
    /\ waits = 0
    /\ urls = 0

Serving == reply # "accept" /\ held = Idle

TotpOutstanding(done) == Otp /\ ~done

\* The verdict of try_auth_lazy: a rejection in the browser is final.
Verdict(done, w) ==
    CASE w = "rejected" -> "rejected"
      [] w = "approved" /\ ~TotpOutstanding(done) -> "accepted"
      [] OTHER -> "need"

\* get_auth_state: a new attempt for another user or target.  A wait that is
\* carried along stays bound to the attempt it was started for.
Switch(p) == [wait EXCEPT !.own = @ /\ who = p]

\* The reply ends the exchange, and what was carried is dropped.
Ends(answer) ==
    /\ reply' = answer
    /\ otpSent' = FALSE
    /\ wait' = NoWait
    /\ held' = Idle

----------------------------------------------------------------------------
(* A round: _auth_keyboard_interactive *)

\* A slip: the counter of waits wraps around.
BumpWaits_Wraps == (used + 1) % (CounterMax + 1)

BumpWaits == Lesser(used + 1, CounterMax)

Capped == BumpWaits > MaxWaits

\* A slip: a wait that belongs to another attempt is replaced free of charge.
RoundCreatesWait_Carried(carried, done) ==
    ~carried.farewell /\ (TotpOutstanding(done) \/ ~carried.on)

\* The budget of waits is charged when a round starts one.
RoundCreatesWait(carried, done) ==
    ~carried.farewell /\ (TotpOutstanding(done) \/ ~carried.own)

\* A slip: the round that asks for the one-time password prints the URL and
\* does not say so.
FreshWait_UrlAgain(done) ==
    [on |-> TRUE, own |-> TRUE, left |-> Unset, urlShown |-> ~TotpOutstanding(done), farewell |-> FALSE]

FreshWait(done) ==
    [on |-> TRUE, own |-> TRUE, left |-> Unset, urlShown |-> TRUE, farewell |-> FALSE]

\* Blocks 2 and 3 of web_approval_round_auto: the URL goes out, with the prompt
\* for the one-time password while that is missing.
StartWait(done) ==
    /\ wait' = FreshWait(done)
    /\ otpSent' = TotpOutstanding(done)
    /\ reply' = "partial"
    /\ waits' = waits + 1
    /\ urls' = urls + 1
    /\ UNCHANGED held

\* Block 4: the server holds the round until the approval or the next poll.
\* The budget of time starts with the first round that is held.
Hold(carried) ==
    LET left == IF carried.left = Unset THEN Budget ELSE carried.left
    IN /\ wait' = [carried EXCEPT !.left = left]
       /\ held' = Lesser(Cadence, left)
       /\ otpSent' = FALSE
       /\ reply' = "none"
       /\ UNCHANGED <<waits, urls>>

AutoRound(carried, done) ==
    LET charged == RoundCreatesWait(carried, done)
        refused == carried.farewell \/ (charged /\ Capped)
    IN /\ used' = IF charged THEN BumpWaits ELSE used
       /\ \/ refused /\ Ends("reject") /\ UNCHANGED <<waits, urls>>
          \/ ~refused /\ (TotpOutstanding(done) \/ ~carried.own) /\ StartWait(done)
          \/ ~refused /\ ~(TotpOutstanding(done) \/ ~carried.own) /\ Hold(carried)

\* web_approval_round_manual: every round is charged.
ManualRound(done) ==
    /\ used' = BumpWaits
    /\ \/ Capped /\ Ends("reject") /\ UNCHANGED <<waits, urls>>
       \/ /\ ~Capped
          /\ reply' = "partial"
          /\ otpSent' = TotpOutstanding(done)
          /\ waits' = waits + 1
          /\ urls' = urls + 1
          /\ UNCHANGED <<wait, held>>

\* The approval is there and the one-time password is not: its prompt only.
OtpRound(carried) ==
    /\ wait' = carried
    /\ otpSent' = TRUE
    /\ reply' = "partial"
    /\ UNCHANGED <<used, held, waits, urls>>

\* One keyboard-interactive request for p; its answer to the prompt for the
\* one-time password, if that was sent, is right or wrong.
KeyboardInteractive(p, right) ==
    LET same == who = p
        done == (same /\ otpDone) \/ right
        w == IF same THEN web ELSE "open"
        verdict == Verdict(done, w)
        dropped == verdict = "need" /\ w = "open" /\ ~AutoContinue /\ Capped
    IN /\ Serving
       /\ Restless \/ same \/ who = "none"
       /\ right => Otp /\ otpSent
       /\ who' = IF dropped THEN "dropped" ELSE p
       /\ otpDone' = done
       /\ web' = w
       /\ \/ verdict = "accepted" /\ Ends("accept") /\ UNCHANGED <<used, waits, urls>>
          \/ verdict = "rejected" /\ Ends("reject") /\ UNCHANGED <<used, waits, urls>>
          \/ verdict = "need" /\ w = "approved" /\ OtpRound(Switch(p))
          \/ verdict = "need" /\ w = "open" /\ AutoContinue /\ AutoRound(Switch(p), done)
          \/ verdict = "need" /\ w = "open" /\ ~AutoContinue /\ ManualRound(done)

\* A request with a password or a key, which leaves the rounds alone.
OtherMethod(p) ==
    LET same == who = p
        verdict == Verdict(same /\ otpDone, IF same THEN web ELSE "open")
    IN /\ Restless
       /\ Serving
       /\ who' = p
       /\ otpDone' = (same /\ otpDone)
       /\ web' = IF same THEN web ELSE "open"
       /\ wait' = Switch(p)
       /\ reply' = IF verdict = "accepted" THEN "accept" ELSE "reject"
       /\ UNCHANGED <<otpSent, used, held, waits, urls>>

----------------------------------------------------------------------------
(* The end of a held round: the signal, or the sleep; then the verdict *)

NeedAgain ==
    /\ held' = Idle
    /\ reply' = "partial"
    /\ UNCHANGED <<otpSent, waits>>

\* A slip: the text that says "not confirmed" is sent, and forgotten.
Farewell_Forgotten ==
    /\ NeedAgain
    /\ UNCHANGED <<wait, urls>>

\* The budget is spent: the text goes out in one more round, and the next one
\* is refused.
Farewell ==
    /\ NeedAgain
    /\ wait' = [wait EXCEPT !.farewell = TRUE]
    /\ UNCHANGED urls

PollAgain ==
    /\ NeedAgain
    /\ wait' = [wait EXCEPT !.urlShown = TRUE]
    /\ urls' = IF wait.urlShown THEN urls ELSE urls + 1

\* next_web_auth_step on the verdict, never on the signal.
Wake ==
    /\ held # Idle
    /\ held = 0 \/ web # "open"
    /\ \/ Verdict(otpDone, web) = "accepted" /\ Ends("accept") /\ UNCHANGED <<waits, urls>>
       \/ Verdict(otpDone, web) = "rejected" /\ Ends("reject") /\ UNCHANGED <<waits, urls>>
       \/ Verdict(otpDone, web) = "need" /\ wait.left = 0 /\ Farewell
       \/ Verdict(otpDone, web) = "need" /\ wait.left > 0 /\ PollAgain
    /\ UNCHANGED <<who, otpDone, web, used>>

----------------------------------------------------------------------------
\* The person decides in the browser.
Browser(d) ==
    /\ who \in Principals
    /\ web = "open"
    /\ web' = d
    /\ UNCHANGED <<who, otpDone, otpSent, wait, used, held, reply, waits, urls>>

\* Time passes, but not past the end of a held round.
Running == wait.left \in 1..Budget

Tick ==
    /\ held # 0
    /\ held # Idle \/ Running
    /\ held' = IF held = Idle THEN Idle ELSE held - 1
    /\ wait' = IF Running THEN [wait EXCEPT !.left = @ - 1] ELSE wait
    /\ UNCHANGED <<who, otpDone, web, otpSent, used, reply, waits, urls>>

Next ==
    \/ \E p \in Principals : OtherMethod(p) \/ \E right \in BOOLEAN : KeyboardInteractive(p, right)
    \/ Wake
    \/ \E d \in {"approved", "rejected"} : Browser(d)
    \/ Tick

\* The client answers a round it was sent, the server's timers fire, and time
\* goes on.
Answers == reply = "partial" /\ \E p \in Principals, right \in BOOLEAN : KeyboardInteractive(p, right)
Fairness ==
    /\ WF_vars(Answers)
    /\ WF_vars(Wake)
    /\ WF_vars(Tick)

Spec == Init /\ [][Next]_vars /\ Fairness

----------------------------------------------------------------------------
(* Properties *)

TypeOK ==
    /\ who \in Principals \cup {"none", "dropped"}
    /\ otpDone \in BOOLEAN /\ otpSent \in BOOLEAN
    /\ web \in {"open", "approved", "rejected"}
    /\ wait \in [on : BOOLEAN, own : BOOLEAN, left : 0..Unset, urlShown : BOOLEAN, farewell : BOOLEAN]
    /\ used \in 0..CounterMax
    /\ held \in 0..Idle
    /\ reply \in {"none", "partial", "accept", "reject"}
    /\ waits \in Nat /\ urls \in Nat

(***************************************************************************)
(* A connection starts no more waits than it may, whether it stays with    *)
(* one user, alternates between two to have its wait thrown away, gets the *)
(* one-time password wrong, or uses other methods in between.              *)
(***************************************************************************)
WaitsCapped == waits <= MaxWaits

(***************************************************************************)
(* The URL is printed once for a wait, not again when the round that asks  *)
(* for the one-time password is followed by rounds without prompts.        *)
(***************************************************************************)
UrlOnce == urls <= waits

(***************************************************************************)
(* What the rounds of a client that answers them come to: it is let in or  *)
(* refused, and the not-confirmed message is not followed by another round.*)
(* Only the one-time password may be tried for ever once the approval is   *)
(* there; what bounds that is login protection.                            *)
(***************************************************************************)
RoundOver == reply \in {"accept", "reject"} \/ (web = "approved" /\ TotpOutstanding(otpDone))
================================================================================
