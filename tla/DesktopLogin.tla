---------------------------- MODULE DesktopLogin ----------------------------
(***************************************************************************)
(* The login of a native desktop viewer (RDP, VNC): the password that it   *)
(* sends, the second factors that a holding screen collects from its       *)
(* keyboard or awaits from a browser, the login banner, the gate of an     *)
(* administrator's approval, and the dial of the target.                   *)
(*                                                                         *)
(* The person's browser, the login protection and the administrator act at *)
(* any time: between two looks at the state of the login as well.          *)
(* The logins with a ticket are those of Approvals.                        *)
(***************************************************************************)
EXTENDS Naturals, Sequences, AuthState

CONSTANTS
    Protocol,   \* "rdp" or "vnc"
    Remembered, \* whether an earlier approval of the person is remembered
    Banner,     \* whether a login banner is configured
    Digits,     \* OTP_DIGITS
    MaxWrong,   \* MAX_OTP_ATTEMPTS
    Attempts    \* how often the viewer sends credentials

VARIABLES
    at,         \* what the connection waits for
    auth,       \* the state of the login: at first no credential is valid
    known,      \* whether the store has it
    read,       \* the results that the holding screen's subscription has received
    prompt,     \* what the screen asks for: "nothing", "otp", "web"
    entered,    \* the digits in the field
    wrong,      \* the wrong codes on this screen
    failed,     \* the failed attempts recorded since the last login
    locked,     \* whether the user is locked or the address blocked
    attempts,   \* the credentials sent
    granted     \* whether the gate has let the session through

screenVars == <<prompt, entered, wrong, read>>
vars == <<at, auth, known, screenVars, failed, locked, attempts, granted>>

Held == at = "held"
Before == {"handshake", "accepted", "interactive", "verify", "prompted", "held", "finalize", "size", "banner",
           "admitting", "dial"}

Init ==
    /\ at = "handshake" /\ auth = NewAttempt("u", "t") /\ known = FALSE /\ read = 0
    /\ prompt = "nothing" /\ entered = 0 /\ wrong = 0
    /\ failed = 0 /\ locked = FALSE /\ attempts = 0 /\ granted = FALSE

-----------------------------------------------------------------------------
(* The others.                                                             *)

\* The person answers in a browser, for as long as the store has the state.
Approve ==
    /\ known /\ NeedsWebApproval(auth)
    /\ auth' = AddWebUserApproval(auth)
    /\ UNCHANGED <<at, known, screenVars, failed, locked, attempts, granted>>

Decline ==
    /\ known /\ ~auth.rejected
    /\ auth' = Reject(auth)
    /\ UNCHANGED <<at, known, screenVars, failed, locked, attempts, granted>>

\* A state that is too old leaves the store; who holds it goes on with it.
Vacuum ==
    /\ known
    /\ known' = FALSE
    /\ UNCHANGED <<at, auth, screenVars, failed, locked, attempts, granted>>

Lock ==
    /\ ~locked
    /\ locked' = TRUE
    /\ UNCHANGED <<at, auth, known, screenVars, failed, attempts, granted>>

-----------------------------------------------------------------------------
(* The credentials of the viewer (authenticate).                           *)

\* RDP denies and waits for the next; VNC says so and ends.
Deny == at' = IF Protocol = "rdp" THEN "handshake" ELSE "over"

\* The count is best effort: what cannot be recorded is passed over.
record_failed_attempt == failed' \in {failed, failed + 1}

Send ==
    /\ at = "handshake" /\ attempts < Attempts
    /\ attempts' = attempts + 1

Refused ==
    /\ Send
    /\ \/ locked /\ UNCHANGED <<auth, known, failed>>
       \/ record_failed_attempt /\ auth' = NewAttempt("u", "t") /\ known' = TRUE
    /\ Deny
    /\ UNCHANGED <<screenVars, locked, granted>>

Collectable == {"Totp", Web}

\* A valid password; an approval that is remembered is used if one is needed.
AfterPassword ==
    LET s == SubmitCredential(NewAttempt("u", "t"), "Password")
    IN  IF Remembered /\ NeedsWebApproval(s) THEN AddWebUserApprovalViaGraceBypass(s) ELSE s

\* Faulty variant: the failed attempts are forgotten with the right password.
Password_Clears ==
    /\ Send /\ ~locked
    /\ auth' = AfterPassword /\ known' = TRUE
    /\ LET v == Verify(auth') IN
       /\ failed' = 0
       /\ CASE v.verdict = "accepted" -> at' = "accepted"
            [] v.verdict = "need" /\ v.kinds \subseteq Collectable -> at' = "interactive"
            [] OTHER -> Deny
    /\ UNCHANGED <<screenVars, locked, granted>>

Password ==
    /\ Send /\ ~locked
    /\ auth' = AfterPassword /\ known' = TRUE
    /\ LET v == Verify(auth') IN
       /\ failed' = IF v.verdict = "accepted" THEN 0 ELSE failed
       /\ CASE v.verdict = "accepted" -> at' = "accepted"
            [] v.verdict = "need" /\ v.kinds \subseteq Collectable -> at' = "interactive"
            [] OTHER -> Deny
    /\ UNCHANGED <<screenVars, locked, granted>>

\* from_auth_state: a state that was accepted a moment ago may be rejected by now.
\* Then the target is authorised, or not. An RDP viewer is told to start its session
\* and, without a banner, the dial waits for its size.
Identify ==
    /\ at = "accepted"
    /\ \/ Deny
       \/ /\ Verify(auth).verdict = "accepted"
          /\ at' = IF Protocol = "vnc" THEN "admitting" ELSE IF Banner THEN "banner" ELSE "size"
    /\ UNCHANGED <<auth, known, screenVars, failed, locked, attempts, granted>>

-----------------------------------------------------------------------------
(* The holding screen (run_hold_screen, OtpEntry).                         *)

\* The subscription is made before the state is looked at for the first time.
Subscribe ==
    /\ at = "interactive"
    /\ IF known
       THEN /\ at' = "verify" /\ read' = Len(auth.sent)
            /\ wrong' = 0 /\ entered' = 0 /\ prompt' = "nothing"
       ELSE at' = "over" /\ UNCHANGED screenVars
    /\ UNCHANGED <<auth, known, failed, locked, attempts, granted>>

\* auth_prompt: a code is asked for first.
Look ==
    /\ at = "verify"
    /\ LET v == Verify(auth) IN
       /\ at' = CASE v.verdict = "accepted" -> "finalize"
                  [] v.verdict = "need" /\ v.kinds \cap Collectable # {} -> "prompted"
                  [] OTHER -> "over"
       /\ failed' = IF v.verdict = "accepted" THEN 0 ELSE failed
       /\ prompt' = CASE "Totp" \in v.kinds -> "otp"
                      [] "Totp" \notin v.kinds /\ Web \in v.kinds -> "web"
                      [] OTHER -> "nothing"
    /\ UNCHANGED <<auth, known, entered, wrong, read, locked, attempts, granted>>

\* Faulty variant: the screen subscribes when it starts to wait.
Prompted_Subscribes ==
    /\ at = "prompted"
    /\ at' = "held" /\ read' = Len(auth.sent)
    /\ UNCHANGED <<auth, known, prompt, entered, wrong, failed, locked, attempts, granted>>

\* The prompt is put together, with its URL, before the wait starts.
Prompted ==
    /\ at = "prompted"
    /\ at' = "held"
    /\ UNCHANGED <<auth, known, screenVars, failed, locked, attempts, granted>>

\* Faulty variant: one more wrong code is taken.
TooManyFailures_One(n) == n > MaxWrong
TooManyFailures(n) == n >= MaxWrong

\* A completed field, or an early Enter: only a whole code can be right, and none
\* is while the user is locked or the address blocked.
Submit(n) ==
    /\ entered' = 0
    /\ \/ /\ n = Digits /\ ~locked
          /\ auth' = SubmitCredential(auth, "Totp") /\ at' = "verify"
          /\ UNCHANGED <<wrong, failed>>
       \/ /\ wrong' = wrong + 1 /\ record_failed_attempt
          /\ at' = IF TooManyFailures(wrong') THEN "over" ELSE "held"
          /\ UNCHANGED auth

Key(k) ==
    /\ Held /\ prompt = "otp"
    /\ LET n == CASE k = "digit" /\ entered < Digits -> entered + 1
                  [] k = "backspace" /\ entered > 0 -> entered - 1
                  [] OTHER -> entered
       IN  IF (k = "digit" /\ n = Digits) \/ (k = "enter" /\ n > 0)
           THEN Submit(n)
           ELSE entered' = n /\ UNCHANGED <<at, auth, wrong, failed>>
    /\ UNCHANGED <<known, prompt, read, locked, attempts, granted>>

\* Something was sent while a browser was waited for: the state is looked at again.
Woken ==
    /\ Held /\ prompt = "web" /\ read < Len(auth.sent)
    /\ read' = read + 1 /\ at' = "verify"
    /\ UNCHANGED <<auth, known, prompt, entered, wrong, failed, locked, attempts, granted>>

Deadline ==
    /\ Held
    /\ at' = "over"
    /\ UNCHANGED <<auth, known, screenVars, failed, locked, attempts, granted>>

\* finalize_user_auth; VNC clears the failed attempts a second time.
Finalize ==
    /\ at = "finalize"
    /\ \/ at' = "over" /\ UNCHANGED failed
       \/ /\ at' = IF Protocol = "rdp" /\ Banner THEN "banner" ELSE "admitting"
          /\ failed' = IF Protocol = "vnc" THEN 0 ELSE failed
    /\ UNCHANGED <<auth, known, screenVars, locked, attempts, granted>>

-----------------------------------------------------------------------------
(* From the login to the target.                                           *)

\* RDP: the size of the viewer, or its first input, sets the dial off.
Sized ==
    /\ at = "size"
    /\ at' = "admitting"
    /\ UNCHANGED <<auth, known, screenVars, failed, locked, attempts, granted>>

Acknowledge ==
    /\ at = "banner"
    /\ at' = IF Protocol = "rdp" THEN "admitting" ELSE "dial"
    /\ UNCHANGED <<auth, known, screenVars, failed, locked, attempts, granted>>

\* Faulty variant: the dial does not wait for the answer.
Admit_Unasked ==
    /\ at = "admitting"
    /\ \E yes \in BOOLEAN : granted' = yes
    /\ at' = IF Protocol = "vnc" /\ Banner THEN "banner" ELSE "dial"
    /\ UNCHANGED <<auth, known, screenVars, failed, locked, attempts>>

\* The gate answers (admit_target_session, external here).
Admit ==
    /\ at = "admitting"
    /\ \E yes \in BOOLEAN :
          /\ granted' = yes
          /\ at' = IF ~yes THEN "over" ELSE IF Protocol = "vnc" /\ Banner THEN "banner" ELSE "dial"
    /\ UNCHANGED <<auth, known, screenVars, failed, locked, attempts>>

Dial ==
    /\ at = "dial"
    /\ at' \in {"proxy", "over"}
    /\ UNCHANGED <<auth, known, screenVars, failed, locked, attempts, granted>>

\* The viewer leaves, or an administrator closes the session.
Leave ==
    /\ at \notin {"over"}
    /\ at' = "over"
    /\ UNCHANGED <<auth, known, screenVars, failed, locked, attempts, granted>>

\* VNC bounds everything up to the relay, RDP only its waits for an event.
HandshakeTimeout ==
    /\ at \in IF Protocol = "vnc" THEN Before ELSE {"handshake", "size"}
    /\ at' = "over"
    /\ UNCHANGED <<auth, known, screenVars, failed, locked, attempts, granted>>

Next ==
    \/ Approve \/ Decline \/ Vacuum \/ Lock
    \/ Refused \/ Password \/ Identify
    \/ Subscribe \/ Look \/ Prompted \/ Woken \/ Deadline \/ Finalize
    \/ \E k \in {"digit", "backspace", "enter"} : Key(k)
    \/ Sized \/ Acknowledge \/ Admit \/ Dial \/ Leave \/ HandshakeTimeout

Spec == Init /\ [][Next]_vars

-----------------------------------------------------------------------------
\* A target is reached only after a login with everything that its policy asks for,
\* the password included, and through the gate: whatever the browser, the lock and
\* the viewer do in between (control_loop, negotiate_and_authorize).
OnlyAccepted ==
    /\ at \in {"finalize", "size", "banner", "admitting", "dial", "proxy"} =>
         "Password" \in auth.valid /\ IsSufficient(auth.valid).verdict = "accepted"
    /\ at \in {"dial", "proxy"} => granted

\* A screen that waits for a browser has been told, or will be, of every answer
\* that came since it looked at the state: none is lost between the look and the
\* wait (run_hold_screen subscribes first).
NoneMissed ==
    Held /\ prompt = "web" /\ ~NeedsWebApproval(auth) => read < Len(auth.sent)

\* No screen takes more than MAX_OTP_ATTEMPTS wrong codes.
CodesCapped == wrong <= MaxWrong /\ (Held => wrong < MaxWrong)

\* Failed attempts are forgotten only by a whole login: not by the password of one
\* that still lacks a factor.
OnlyLoginForgives == failed' < failed => IsSufficient(auth'.valid).verdict = "accepted"

=============================================================================
