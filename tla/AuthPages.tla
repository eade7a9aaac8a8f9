------------------------------- MODULE AuthPages -------------------------------
(***************************************************************************)
(* features/auth/pages: LoginPage, VerifyEmailPage and ForgotPasswordPage, *)
(* with GoogleSignInButton and the router they move in.                    *)
(*                                                                         *)
(* One page is mounted at a time and has its own state; a call outlives    *)
(* the page that made it, and what its answer does to an unmounted page is *)
(* lost, but a navigate() in it is not.  navigate() to the page that is    *)
(* mounted changes location.state, which the page reads only once.         *)
(* Text fields hold an e-mail, a phone number or nothing; a code or a      *)
(* password passes its validator or does not.                              *)
(***************************************************************************)
EXTENDS Integers, FiniteSetsExt

CONSTANTS
    Emails,
    Phone,          \* the phone number of an account without e-mail
    Blank,
    COOLDOWN,       \* RESEND_COOLDOWN_SECONDS and OTP_RESEND_COOLDOWN, in ticks
    MaxCalls,       \* bound: API calls
    MaxVisits       \* bound: pages mounted, but for those an answer opens

TextAssumption == Phone \notin Emails /\ Blank \notin Emails \cup {Phone}
BoundAssumption == COOLDOWN \in Nat \ {0} /\ MaxCalls \in Nat /\ MaxVisits \in Nat \ {0}

VARIABLES
    accounts,   \* e-mails with an account
    verified,   \* accounts with email_verified
    reset,      \* accounts whose password was reset
    age,        \* age[e]: ticks since a verification code was sent to e
    call,       \* call[c]: API call c
    calls,      \* API calls made
    page,
    visit,      \* mounts so far
    email,      \* the e-mail or identifier in the form
    step,       \* of ForgotPasswordPage
    error,
    notice,     \* what is announced, and for which e-mail
    busy,
    cooldown,
    asked       \* history: e-mails this page was told a code was sent for

server == <<accounts, verified, reset, age>>
ui == <<page, visit, email, step, error, notice, busy, cooldown, asked>>
vars == <<server, call, calls, ui>>

-----------------------------------------------------------------------------
(* Data *)

Texts == Emails \cup {Phone, Blank}
Pages == {"login", "register", "verify", "forgot", "home"}
CallIds == 1..MaxCalls

Kinds == {"login", "google", "verify", "resend", "request", "confirm"}
Call == [kind : Kinds, state : {"none", "sent", "ok", "unverified", "failed", "done"},
         email : Texts, visit : 0..(MaxVisits + MaxCalls), again : BOOLEAN, mailed : BOOLEAN]
NoCall == [kind |-> "login", state |-> "none", email |-> Blank, visit |-> 0,
           again |-> FALSE, mailed |-> FALSE]

Notice == [about : {"nothing", "verified", "reset", "registered", "resent"}, email : Texts]
Say(about, e) == [about |-> about, email |-> e]
Silent == Say("nothing", Blank)

Init ==
    /\ accounts \in SUBSET Emails
    /\ verified = {}
    /\ reset = {}
    /\ age \in [Emails -> {0, COOLDOWN}]
    /\ call = [c \in CallIds |-> NoCall]
    /\ calls = 0
    /\ page = "login"
    /\ visit = 1
    /\ email = Blank
    /\ step = "email"
    /\ error = FALSE
    /\ notice = Silent
    /\ busy = FALSE
    /\ cooldown = 0
    /\ asked = {}

-----------------------------------------------------------------------------
(* The router *)

(* A page mounts with its initial state: LoginPage and VerifyEmailPage     *)
(* read an e-mail from location.state, LoginPage a notice too.             *)
Mount(p, e, n) ==
    /\ page' = p
    /\ visit' = visit + 1
    /\ email' = e
    /\ step' = "email"
    /\ error' = FALSE
    /\ notice' = n
    /\ busy' = FALSE
    /\ cooldown' = 0
    /\ asked' = {}

\* What remains to do where the page stays as it is.
Settle(err, n) ==
    /\ error' = err
    /\ notice' = n
    /\ busy' = FALSE
    /\ UNCHANGED <<page, visit, email, step, cooldown, asked>>

Navigate(p, e, n) == IF p = page THEN UNCHANGED ui ELSE Mount(p, e, n)

(* A link or the browser: without a state. *)
Go(p) ==
    /\ p # page /\ p # "home"
    /\ visit < MaxVisits
    /\ Mount(p, Blank, Silent)
    /\ UNCHANGED <<server, call, calls>>

(* RegisterPage, or the phone-only end of it. *)
Registered ==
    /\ page = "register" /\ visit < MaxVisits
    /\ \/ \E e \in Emails \ accounts :
            /\ accounts' = accounts \cup {e}
            /\ age' = [age EXCEPT ![e] = 0]
            /\ Mount("verify", e, Silent)
       \/ UNCHANGED <<accounts, age>> /\ Mount("login", Blank, Say("registered", Blank))
    /\ UNCHANGED <<verified, reset, call, calls>>

-----------------------------------------------------------------------------
(* Forms *)

(* LoginPage clears the error with every edit; the others do not. *)
Type(e) ==
    /\ page \in {"login", "verify"} \/ (page = "forgot" /\ step = "email")
    /\ e # email
    /\ e = Phone => page = "login"
    /\ email' = e
    /\ error' = (error /\ page # "login")
    /\ UNCHANGED <<server, call, calls, page, visit, step, notice, busy, cooldown,
                   asked>>

Post(kind) ==
    /\ calls < MaxCalls
    /\ calls' = calls + 1
    /\ call' = [call EXCEPT ![calls + 1] =
                  [kind |-> kind, state |-> "sent", email |-> email, visit |-> visit,
                   again |-> email \in asked \cap accounts, mailed |-> FALSE]]

(* A field does not pass its validator: nothing is sent, and the notice of *)
(* VerifyEmailPage is gone all the same.                                   *)
Rejected ==
    /\ error' = TRUE
    /\ notice' = IF page = "verify" THEN Silent ELSE notice
    /\ UNCHANGED <<call, calls, busy>>

Accepted(kind) ==
    /\ email # Blank
    /\ Post(kind)
    /\ error' = FALSE
    /\ notice' = IF page = "forgot" THEN notice ELSE Silent
    /\ busy' = TRUE

(* The validators of an e-mail are all there is to fail, or others are     *)
(* (hasOther) and may.                                                     *)
Submit(kind, hasOther) ==
    /\ ~busy
    /\ \/ Accepted(kind)
       \/ (hasOther \/ email = Blank) /\ Rejected
    /\ UNCHANGED <<server, page, visit, email, step, cooldown, asked>>

Login == page = "login" /\ Submit("login", TRUE)

Verify == page = "verify" /\ Submit("verify", TRUE)

\* Regression: the countdown does not disable the button.
ResendAtOnce == page = "verify" /\ Submit("resend", FALSE)

Resend ==
    /\ page = "verify" /\ cooldown = 0
    /\ Submit("resend", FALSE)

RequestStep ==
    /\ page = "forgot" /\ step = "email"
    /\ Submit("request", FALSE)

ConfirmStep ==
    /\ page = "forgot" /\ step = "code"
    /\ Submit("confirm", TRUE)

(* GoogleSignInButton on the two pages that show it: not disabled by busy. *)
GoogleSignIn ==
    /\ page \in {"login", "register"}
    /\ Post("google")
    /\ UNCHANGED <<server, ui>>

-----------------------------------------------------------------------------
(* The API *)

(* The views: EmailOTP has them in detail. *)
MayMail(e) == age[e] = COOLDOWN

Serve(c) ==
    LET k == call[c] IN
    /\ k.state = "sent"
    /\ \/ /\ call' = [call EXCEPT ![c].state = "failed"]
          /\ UNCHANGED server
       \/ /\ k.kind = "login" /\ k.email \in accounts \ verified
          /\ call' = [call EXCEPT ![c].state = "unverified"]
          /\ UNCHANGED server
       \/ /\ k.kind = "login" => k.email \in verified \cup {Phone}
          /\ k.kind \in {"verify", "confirm"} => k.email \in accounts
          /\ LET mails == k.kind = "resend" /\ k.email \in accounts \ verified /\ MayMail(k.email) IN
               /\ call' = [call EXCEPT ![c].state = "ok", ![c].mailed = mails]
               /\ age' = IF mails THEN [age EXCEPT ![k.email] = 0] ELSE age
          /\ verified' = IF k.kind \in {"verify", "confirm"} THEN verified \cup {k.email} ELSE verified
          /\ reset' = IF k.kind = "confirm" THEN reset \cup {k.email} ELSE reset
          /\ UNCHANGED accounts
    /\ UNCHANGED <<calls, ui>>

\* Regression: the effect does not stop at zero.
CountDownOn == IF cooldown = 0 THEN -1 ELSE cooldown - 1

CountDown == IF cooldown = 0 THEN 0 ELSE cooldown - 1

(* A second passes; the countdown's timer may be late. *)
Tick ==
    /\ \E late \in BOOLEAN : cooldown' = IF late THEN cooldown ELSE CountDown
    /\ age' = [e \in Emails |-> Min({age[e] + 1, COOLDOWN})]
    /\ age' # age \/ cooldown' # cooldown
    /\ UNCHANGED <<accounts, verified, reset, call, calls, page, visit, email, step, error,
                   notice, busy, asked>>

-----------------------------------------------------------------------------
(* Answers *)

Alive(c) == call[c].visit = visit

Close(c) == call' = [call EXCEPT ![c].state = "done"] /\ UNCHANGED <<server, calls>>

(* setError() and finally: nothing where the page is gone. *)
Fails(c) ==
    /\ call[c].state = "failed"
    /\ Close(c)
    /\ IF ~Alive(c) THEN UNCHANGED ui
       ELSE IF call[c].kind = "google"
            THEN error' = TRUE /\ UNCHANGED <<page, visit, email, step, notice, busy, cooldown, asked>>
            ELSE Settle(TRUE, notice)

(* login(): into the application, or to the code that is missing. *)
SignedIn(c) ==
    /\ call[c].kind \in {"login", "google"} /\ call[c].state \in {"ok", "unverified"}
    /\ Close(c)
    /\ IF call[c].state = "ok"
       THEN Navigate("home", Blank, Silent)
       ELSE Navigate("verify", call[c].email, Silent)

\* Regression: the e-mail in the field when the answer comes.
AnsweredEmailNow(c) == IF page = "verify" THEN email ELSE call[c].email

(* The e-mail of the closure that made the call. *)
AnsweredEmail(c) == call[c].email

(* verifyEmail() and confirmPasswordReset(): on to the login page. *)
Confirmed(c) ==
    /\ call[c].kind \in {"verify", "confirm"} /\ call[c].state = "ok"
    /\ Close(c)
    /\ LET about == IF call[c].kind = "verify" THEN "verified" ELSE "reset" IN
         IF page = "login"
         THEN UNCHANGED ui
         ELSE Mount("login", AnsweredEmail(c), Say(about, AnsweredEmail(c)))

(* Resent: the countdown starts. *)
Resent(c) ==
    /\ call[c].kind = "resend" /\ call[c].state = "ok"
    /\ Close(c)
    /\ IF ~Alive(c) THEN UNCHANGED ui
       ELSE /\ notice' = Say("resent", call[c].email)
            /\ busy' = FALSE
            /\ cooldown' = COOLDOWN
            /\ asked' = asked \cup {call[c].email}
            /\ UNCHANGED <<page, visit, email, step, error>>

\* Regression: the button stays disabled for the second form.
RequestedBusy(c) ==
    /\ call[c].kind = "request" /\ call[c].state = "ok"
    /\ Close(c)
    /\ IF Alive(c) THEN step' = "code" ELSE UNCHANGED step
    /\ UNCHANGED <<page, visit, email, error, notice, busy, cooldown, asked>>

(* requestStep(): the second form, for the e-mail in the field by now. *)
Requested(c) ==
    /\ call[c].kind = "request" /\ call[c].state = "ok"
    /\ Close(c)
    /\ IF Alive(c) THEN step' = "code" /\ busy' = FALSE ELSE UNCHANGED <<step, busy>>
    /\ UNCHANGED <<page, visit, email, error, notice, cooldown, asked>>

-----------------------------------------------------------------------------
(* Specification *)

Answer(c) == Fails(c) \/ SignedIn(c) \/ Confirmed(c) \/ Resent(c) \/ Requested(c)

Next ==
    \/ \E p \in Pages : Go(p)
    \/ Registered
    \/ \E e \in Texts : Type(e)
    \/ Login \/ Verify \/ Resend \/ RequestStep \/ ConfirmStep \/ GoogleSignIn
    \/ \E c \in CallIds : Serve(c) \/ Answer(c)
    \/ Tick

Spec == Init /\ [][Next]_vars

-----------------------------------------------------------------------------
(* Properties *)

(* Type invariant. *)
TypeOK ==
    /\ accounts \subseteq Emails /\ verified \subseteq Emails /\ reset \subseteq Emails
    /\ age \in [Emails -> 0..COOLDOWN]
    /\ call \in [CallIds -> Call]
    /\ calls \in 0..MaxCalls
    /\ page \in Pages /\ visit \in 1..(MaxVisits + MaxCalls)
    /\ email \in Texts
    /\ step \in {"email", "code"}
    /\ error \in BOOLEAN /\ notice \in Notice /\ busy \in BOOLEAN
    /\ cooldown \in 0..COOLDOWN
    /\ asked \subseteq Emails

(* "Email verified." and "Password updated." on the login page are true of *)
(* the e-mail that is filled in with them, whatever was typed or visited   *)
(* while the call was under way.                                           *)
NoticesAreTrue ==
    /\ notice.about = "verified" => notice.email \in verified
    /\ notice.about = "reset" => notice.email \in reset

(* Once a page has announced a code, its button does not ask for another   *)
(* that the server would not send: the countdown, which starts with the    *)
(* answer, ends after the cooldown, which starts with the code.  Only the  *)
(* late request of a page that has been left can have one sent meanwhile.  *)
Overtaken(c) ==
    \E d \in CallIds : /\ call[d].mailed /\ call[d].email = call[c].email
                       /\ call[d].visit # call[c].visit
ResendIsServed ==
    \A c \in CallIds :
        call[c].kind = "resend" /\ call[c].state = "ok" /\ call[c].again =>
            call[c].mailed \/ call[c].email \in verified \/ Overtaken(c)

(* A request of the page is under way, and its button is off.  It ends,   *)
(* whatever the server answers and wherever the visitor has gone.          *)
Unsettled == busy

=============================================================================
