----------------------------- MODULE ErrorContract -----------------------------
(***************************************************************************)
(* The error contract, from the exception a view raises or a throttle's    *)
(* refusal, through REST framework's envelope, nginx and lib/api/client.ts *)
(* (ApiError, errorMessage), to what the calling page tells its user.      *)
(*                                                                         *)
(* Time runs in half seconds, so that a wait need not be a whole number of *)
(* seconds.  What a counter counts is left out (FixedWindow, ScopedRate):  *)
(* it refuses until some moment.                                           *)
(***************************************************************************)
EXTENDS Naturals, FiniteSetsExt

CONSTANTS
    Counters,   \* the throttles of a view
    MaxWait,    \* bound: how long a counter refuses
    MaxTime     \* bound: steps of the clock

ContractAssumption == MaxWait \in Nat \ {0} /\ MaxTime \in Nat

VARIABLES
    now,
    until,      \* until[c]: when counter c lets requests pass again
    site,       \* the page that calls: its catch block
    call,       \* what has become of the call
    answer,     \* the error answer, as ApiError has it
    shown,      \* what the page says, and since when
    refusal     \* ghost: when the call was refused, and until when

vars == <<now, until, site, call, answer, shown, refusal>>

-----------------------------------------------------------------------------
(* Data *)

(* ReviewDetailPage and its like show errorMessage(); a list has a text of *)
(* its own for whatever goes wrong.                                        *)
Sites == {"login", "action", "list"}

NoRetry == 0                   \* retryAfter = null

(* What the view raises.  A string given to ValidationError becomes a list *)
(* of one text, a serializer's errors a text for each field.               *)
Raisable(s) ==
    CASE s = "login" -> {"credentials", "unverified", "detail"}
      [] s = "action" -> {"text", "fields", "detail"}
      [] OTHER -> {"text", "detail"}

Status(cause) ==
    CASE cause \in {"text", "fields"} -> 400
      [] cause = "credentials" -> 401
      [] cause \in {"unverified", "detail"} -> 403
      [] cause \in {"throttled", "edge"} -> 429
      [] cause = "crash" -> 500
      [] OTHER -> 0

Body(cause) ==
    CASE cause = "text" -> "list"
      [] cause = "fields" -> "fields"
      [] cause \in {"credentials", "detail", "throttled"} -> "detail"
      [] cause = "unverified" -> "code"
      [] OTHER -> "none"

Quiet == [says |-> "nothing", seconds |-> NoRetry, at |-> 0]
NoAnswer == [cause |-> "none", status |-> 0, body |-> "none", retryAfter |-> NoRetry]

Init ==
    /\ now = 0
    /\ until = [c \in Counters |-> 0]
    /\ site \in Sites
    /\ call = "idle"
    /\ answer = NoAnswer
    /\ shown = Quiet
    /\ refusal = [at |-> 0, until |-> 0]

-----------------------------------------------------------------------------
(* The server *)

(* Other requests use a counter up. *)
Exhaust(c) ==
    /\ until[c] <= now
    /\ \E d \in 1..MaxWait : until' = [until EXCEPT ![c] = now + d]
    /\ UNCHANGED <<now, site, call, answer, shown, refusal>>

Refusing == {c \in Counters : now < until[c]}

(* The page calls; the counters are asked before the view. *)
Call ==
    /\ call = "idle"
    /\ IF Refusing = {}
       THEN /\ call' = "admitted"
            /\ UNCHANGED refusal
       ELSE /\ call' = "refused"
            /\ refusal' = [at |-> now, until |-> Max({until[c] : c \in Refusing})]
    /\ answer' = NoAnswer
    /\ shown' = Quiet            \* setError("")
    /\ UNCHANGED <<now, until, site>>

Answer(cause, retryAfter) ==
    /\ call' = "answered"
    /\ answer' = [cause |-> cause, status |-> Status(cause), body |-> Body(cause),
                  retryAfter |-> retryAfter]

(* The view raises, or does not foresee what happens. *)
Raise ==
    /\ call = "admitted"
    /\ \E cause \in Raisable(site) \cup {"crash"} : Answer(cause, NoRetry)
    /\ UNCHANGED <<now, until, site, shown, refusal>>

Succeed ==
    /\ call = "admitted"
    /\ call' = "idle"
    /\ UNCHANGED <<now, until, site, answer, shown, refusal>>

\* Regression: the wait is cut to whole seconds.
waitInt(reset_at) == IF reset_at < now THEN 0 ELSE 2 * ((reset_at - now) \div 2)

(* wait(): the clock is read again, so that it may be over. *)
wait(reset_at) == IF reset_at < now THEN 0 ELSE reset_at - now

(* throttled_exception_handler(): a wait of 0 gets no header. *)
RetryHeader(halves) == (halves + 1) \div 2

Refuse ==
    /\ call = "refused"
    /\ Answer("throttled", RetryHeader(wait(refusal.until)))
    /\ UNCHANGED <<now, until, site, shown, refusal>>

(* nginx answers for the server, or nobody does. *)
Edge ==
    /\ call \in {"admitted", "refused"}
    /\ \E cause \in {"edge", "lost"} : Answer(cause, NoRetry)
    /\ UNCHANGED <<now, until, site, shown, refusal>>

-----------------------------------------------------------------------------
(* The browser *)

\* Regression: Number(null) is 0, and 0 becomes 1.
retryAfterOfNull == IF answer.retryAfter = NoRetry THEN 1 ELSE answer.retryAfter

(* request(): the header, when there is one and it is a number. *)
retryAfter == answer.retryAfter

errorMessage ==
    CASE answer.status = 0 -> "network"
      [] answer.status = 429 -> IF retryAfter = NoRetry THEN "later" ELSE "wait"
      [] answer.status \notin {0, 429} /\ answer.body \in {"detail", "code", "fields"} -> "reason"
      [] OTHER -> "fallback"

\* Regression: without the return, the page goes on to its own message.
LoginMessageGoesOn == IF answer.status = 429 THEN errorMessage ELSE "credentials"

(* LoginPage's catch block. *)
LoginMessage ==
    CASE answer.status = 403 /\ answer.body = "code" -> "verify"
      [] answer.status = 429 -> errorMessage
      [] OTHER -> "credentials"

(* An unverified e-mail takes the user to /verify-email. *)
Show ==
    /\ call = "answered"
    /\ LET says == CASE site = "login" -> LoginMessage
                     [] site = "action" -> errorMessage
                     [] OTHER -> "fallback"
       IN  shown' = [says |-> says, at |-> now,
                     seconds |-> IF says = "wait" THEN retryAfter ELSE NoRetry]
    /\ call' = IF site = "login" /\ answer.body = "code" THEN "verify" ELSE "idle"
    /\ UNCHANGED <<now, until, site, answer, refusal>>

Pass ==
    /\ now < MaxTime
    /\ now' = now + 1
    /\ UNCHANGED <<until, site, call, answer, shown, refusal>>

Next ==
    \/ Call \/ Raise \/ Succeed \/ Refuse \/ Edge \/ Show \/ Pass
    \/ \E c \in Counters : Exhaust(c)

Spec == Init /\ [][Next]_vars

-----------------------------------------------------------------------------
(* Properties *)

Says == {"nothing", "network", "wait", "later", "reason", "fallback", "credentials", "verify"}

(* Type invariant; the verify screen is reached with its message only, and *)
(* seconds are named by the message that waits only.                       *)
TypeOK ==
    /\ now \in 0..MaxTime
    /\ until \in [Counters -> 0..(MaxTime + MaxWait)]
    /\ site \in Sites
    /\ call \in {"idle", "admitted", "refused", "answered", "verify"}
    /\ answer.retryAfter \in 0..MaxWait
    /\ shown \in [says : Says, seconds : 0..MaxWait, at : 0..MaxTime]
    /\ (shown.says = "verify") = (call = "verify")
    /\ (shown.says = "wait") = (shown.seconds # NoRetry)

(* errorMessage() and LoginPage never name a cause that was not there: a   *)
(* page speaks of the network when no answer came, of a wait when the      *)
(* server named one, of a verification when that is what is missing.       *)
MessageIsOfCause ==
    /\ shown.says = "network" => answer.cause = "lost"
    /\ shown.says = "later" => answer.cause \in {"throttled", "edge"}
    /\ shown.says = "wait" => answer.cause = "throttled"
    /\ shown.says = "verify" => answer.cause = "unverified"
    /\ shown.says = "reason" => answer.body # "none"

(* ARCHITECTURE.md 6.2: "the SPA renders the exact wait".  Whoever waits   *)
(* for the seconds the page names is past every counter's refusal, and a   *)
(* shorter time in whole seconds would not have been enough.               *)
WaitIsExact ==
    shown.says = "wait" =>
        /\ shown.at + 2 * shown.seconds >= refusal.until
        /\ refusal.at + 2 * shown.seconds < refusal.until + 2

(* ARCHITECTURE.md 6.2: every error the server's own code answers with     *)
(* has field messages or a detail, the two shapes errorMessage() can       *)
(* read. One raised with a text has neither.                               *)
EnvelopeKept == answer.cause \in {"text", "fields", "credentials", "unverified", "detail"} =>
                    answer.body \in {"fields", "detail", "code"}

(* ARCHITECTURE.md 6.2: network failures get a friendly message. Not at    *)
(* the login page.                                                         *)
NetworkIsNamed ==
    answer.cause = "lost" /\ shown # Quiet => shown.says = "network"

(* README: "The SPA shows the Retry-After wait time when it receives a     *)
(* 429", on whatever page. A list does not.                                *)
WaitIsShown ==
    answer.status = 429 /\ answer.retryAfter # NoRetry /\ shown # Quiet =>
        shown.says = "wait"

=============================================================================
