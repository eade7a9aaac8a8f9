------------------------------- MODULE EmailOTP -------------------------------
(***************************************************************************)
(* services/otp.py and the views that call it: registration, resend,       *)
(* password-reset request, e-mail verification and password-reset          *)
(* confirmation, as gunicorn workers interleave them over PostgreSQL.      *)
(*                                                                         *)
(* A code is issued in one transaction under the row lock of its user; the *)
(* mail goes out after the commit.  Verification takes no lock: it reads   *)
(* the newest code, claims an attempt and consumes the code in three       *)
(* statements, each atomic by itself.  The clock can advance, and a worker *)
(* can be killed, between any two steps.                                   *)
(***************************************************************************)
EXTENDS Naturals, FiniteSets

CONSTANTS
    Users,
    NoUser,
    Codes,          \* the six-digit codes
    NoCode,
    Workers,
    NoWorker,
    TTL,            \* OTP_TTL
    Cooldown,       \* OTP_RESEND_COOLDOWN
    PurgeAfter,     \* OTP_PURGE_AFTER
    MaxAttempts,    \* OTP_MAX_ATTEMPTS
    MaxOtps,        \* bound: codes issued in a behaviour
    MaxRequests,    \* bound: requests in a behaviour
    MaxTime,        \* bound: clock
    MaxFaults       \* bound: killed workers and failed mails

ASSUME UserAssumption == NoUser \notin Users
ASSUME CodeAssumption == NoCode \notin Codes /\ Codes # {}
ASSUME WorkerAssumption == NoWorker \notin Workers
ASSUME TimeAssumption ==
    /\ TTL \in Nat /\ Cooldown \in Nat /\ PurgeAfter \in Nat
    /\ Cooldown <= TTL
ASSUME BoundAssumption ==
    /\ MaxAttempts \in Nat /\ MaxOtps \in Nat
    /\ MaxRequests \in Nat /\ MaxTime \in Nat /\ MaxFaults \in Nat

VARIABLES
    account,    \* account[u]: the committed User row
    otp,        \* otp[i]: the EmailOTP row with primary key i
    last,       \* the newest primary key
    emailLog,   \* emailLog[i]: the EmailLog entry about code i
    lock,       \* lock[u]: the worker whose transaction holds the user row
    pc,         \* pc[w]: where worker w stands in its request
    req,        \* req[w]: the request worker w is serving
    inst,       \* inst[w]: the EmailOTP instance verify_otp() read, and when
    now,        \* timezone.now()
    arrivals,   \* requests accepted so far
    faults,     \* workers killed and mails failed so far
    guesses,    \* history: comparisons made with each code
    accepts     \* history: times each code was accepted

tables == <<account, otp, last>>
history == <<guesses, accepts>>
bounds == <<arrivals, faults>>
vars == <<account, otp, last, emailLog, lock, pc, req, inst, now, arrivals,
          faults, guesses, accepts>>

-----------------------------------------------------------------------------
(* Data *)

Ids == 1..MaxOtps
NoId == 0

Issuing == {"register", "resend", "forgot"}
Checking == {"verify", "reset"}
Op == Issuing \cup Checking

Purpose == {"verify_email", "reset_password"}

\* Regression: the name of the request is stored for its purpose.
PurposeIsOp(op) == op

(* The purpose a view passes to the service. *)
PurposeOf(op) ==
    IF op \in {"register", "resend", "verify"} THEN "verify_email" ELSE "reset_password"

\* password names the reset code it was set with, NoId at registration.
Account == [exists : BOOLEAN, verified : BOOLEAN, password : Ids \cup {NoId}]

\* "live" is consumed_at IS NULL; via tells issue_otp() from request_otp().
Otp == [state : {"free", "live", "consumed", "purged"}, user : Users \cup {NoUser},
        purpose : Purpose, code : Codes \cup {NoCode}, sent : Nat, expires : Nat,
        attempts : Nat, via : Op]

FreeOtp == [state |-> "free", user |-> NoUser, purpose |-> "verify_email",
            code |-> NoCode, sent |-> 0, expires |-> 0, attempts |-> 0,
            via |-> "register"]

Request == [op : Op, user : Users, code : Codes \cup {NoCode}]
NoRequest == [op |-> "none", user |-> NoUser, code |-> NoCode]

Instance == [id : Ids \cup {NoId}, attempts : Nat, at : Nat]
NoInstance == [id |-> NoId, attempts |-> 0, at |-> 0]

Stage == {"idle", "insert", "issue", "issuing", "mail", "mailed",
          "check", "found", "matched", "accepted"}

\* An account may be there already, verified (by Google, an administrator or
\* an earlier code) or not (its codes purged since).
Init ==
    /\ account \in [Users -> {a \in Account : a.password = NoId /\ (a.verified => a.exists)}]
    /\ otp = [i \in Ids |-> FreeOtp]
    /\ last = 0
    /\ emailLog = [i \in Ids |-> "none"]
    /\ lock = [u \in Users |-> NoWorker]
    /\ pc = [w \in Workers |-> "idle"]
    /\ req = [w \in Workers |-> NoRequest]
    /\ inst = [w \in Workers |-> NoInstance]
    /\ now = 0
    /\ arrivals = 0
    /\ faults = 0
    /\ guesses = [i \in Ids |-> 0]
    /\ accepts = [i \in Ids |-> 0]

Live(i) == otp[i].state = "live"

(* Row i is a code of user u for purpose p. *)
Belongs(i, u, p) == otp[i].user = u /\ otp[i].purpose = p

\* Regression: codes of either purpose are looked up.
ActiveAnyPurpose(i, u, p) == Live(i) /\ otp[i].user = u /\ otp[i].expires > now

\* Regression: consumed codes are excluded, expired ones are not.
ActiveThoughExpired(i, u, p) == Live(i) /\ Belongs(i, u, p)

Active(i, u, p) == Live(i) /\ Belongs(i, u, p) /\ otp[i].expires > now

(* latest_active(): the newest unconsumed, unexpired code, or none. *)
LatestActive(u, p) ==
    IF \E i \in Ids : Active(i, u, p)
    THEN CHOOSE i \in Ids : Active(i, u, p) /\ \A j \in Ids : Active(j, u, p) => j <= i
    ELSE NoId

(* request_otp() refuses while the newest code was sent less than Cooldown *)
(* ago; issue_otp(), which registration calls, never does.                 *)
CoolingDown(r) ==
    LET i == LatestActive(r.user, PurposeOf(r.op)) IN
        /\ r.op # "register"
        /\ i # NoId
        /\ now - otp[i].sent < Cooldown

-----------------------------------------------------------------------------
(* Requests *)

Answer(w) ==
    /\ pc' = [pc EXCEPT ![w] = "idle"]
    /\ req' = [req EXCEPT ![w] = NoRequest]
    /\ inst' = [inst EXCEPT ![w] = NoInstance]

Goto(w, label) ==
    /\ pc' = [pc EXCEPT ![w] = label]
    /\ UNCHANGED req

FirstStage(op) ==
    CASE op = "register" -> "insert"
      [] op \in {"resend", "forgot"} -> "issue"
      [] OTHER -> "check"

(* What the serializer or the view's first lookup of the account requires; *)
(* a request that fails it changes nothing and is left out.                *)
Welcome(r) ==
    /\ (r.op = "register") <=> ~account[r.user].exists
    /\ r.op = "resend" => ~account[r.user].verified
    /\ (r.code = NoCode) <=> (r.op \in Issuing)

Arrive(w) ==
    /\ pc[w] = "idle"
    /\ arrivals < MaxRequests
    /\ \E r \in Request :
        /\ Welcome(r)
        /\ req' = [req EXCEPT ![w] = r]
        /\ pc' = [pc EXCEPT ![w] = FirstStage(r.op)]
    /\ arrivals' = arrivals + 1
    /\ UNCHANGED <<tables, emailLog, lock, inst, now, faults, history>>

(* RegisterSerializer.create(): the unique index refuses the second of two *)
(* registrations of an address.                                            *)
InsertUser(w) ==
    /\ pc[w] = "insert"
    /\ IF account[req[w].user].exists
       THEN Answer(w) /\ UNCHANGED account
       ELSE /\ account' = [account EXCEPT ![req[w].user].exists = TRUE]
            /\ Goto(w, "issue")
            /\ UNCHANGED inst
    /\ UNCHANGED <<otp, last, emailLog, lock, now, bounds, history>>

-----------------------------------------------------------------------------
(* Issuing a code *)

\* Regression: get() for select_for_update().get().
TakeUserUnlocked(w) ==
    /\ pc[w] = "issue"
    /\ last < MaxOtps
    /\ ~CoolingDown(req[w])
    /\ lock' = [lock EXCEPT ![req[w].user] = w]
    /\ Goto(w, "issuing")
    /\ UNCHANGED <<tables, emailLog, inst, now, bounds, history>>

(* The user row is locked and the cooldown checked ... *)
TakeUser(w) ==
    /\ pc[w] = "issue"
    /\ lock[req[w].user] = NoWorker
    /\ last < MaxOtps
    /\ ~CoolingDown(req[w])
    /\ lock' = [lock EXCEPT ![req[w].user] = w]
    /\ Goto(w, "issuing")
    /\ UNCHANGED <<tables, emailLog, inst, now, bounds, history>>

(* ... or the request ends without a new code. *)
RefuseUser(w) ==
    /\ pc[w] = "issue"
    /\ lock[req[w].user] = NoWorker
    /\ CoolingDown(req[w])
    /\ Answer(w)
    /\ UNCHANGED <<tables, emailLog, lock, now, bounds, history>>

(* The row _issue_otp_db() inserts. *)
NewOtp(r, code) ==
    [state |-> "live", user |-> r.user, purpose |-> PurposeOf(r.op), code |-> code,
     sent |-> now, expires |-> now + TTL, attempts |-> 0, via |-> r.op]

\* Regression: predecessors are left to expire.
CommitIssueOnly(w) ==
    /\ pc[w] = "issuing"
    /\ last < MaxOtps
    /\ \E code \in Codes : otp' = [otp EXCEPT ![last + 1] = NewOtp(req[w], code)]
    /\ last' = last + 1
    /\ inst' = [inst EXCEPT ![w] = [id |-> last + 1, attempts |-> 0, at |-> now]]
    /\ lock' = [lock EXCEPT ![req[w].user] = NoWorker]
    /\ Goto(w, "mail")
    /\ UNCHANGED <<account, emailLog, now, bounds, history>>

(* _issue_otp_db(): the live codes for this purpose are consumed and a new *)
(* one is inserted; the commit frees the user row.                         *)
CommitIssue(w) ==
    /\ pc[w] = "issuing"
    /\ last < MaxOtps
    /\ \E code \in Codes :
        otp' = [i \in Ids |->
                   CASE i = last + 1 -> NewOtp(req[w], code)
                     [] Live(i) /\ Belongs(i, req[w].user, PurposeOf(req[w].op))
                            -> [otp[i] EXCEPT !.state = "consumed"]
                     [] OTHER -> otp[i]]
    /\ last' = last + 1
    /\ inst' = [inst EXCEPT ![w] = [id |-> last + 1, attempts |-> 0, at |-> now]]
    /\ lock' = [lock EXCEPT ![req[w].user] = NoWorker]
    /\ Goto(w, "mail")
    /\ UNCHANGED <<account, emailLog, now, bounds, history>>

SendMail(w) ==
    /\ pc[w] = "mail"
    /\ emailLog' = [emailLog EXCEPT ![inst[w].id] = "sent"]
    /\ Goto(w, "mailed")
    /\ UNCHANGED <<tables, lock, inst, now, bounds, history>>

(* send_mail() raises: the failure is logged, the code stays live, and the *)
(* view answers as if nothing had happened.                                *)
MailFails(w) ==
    /\ pc[w] = "mail"
    /\ faults < MaxFaults
    /\ faults' = faults + 1
    /\ emailLog' = [emailLog EXCEPT ![inst[w].id] = "failed"]
    /\ Answer(w)
    /\ UNCHANGED <<tables, lock, now, arrivals, history>>

(* _purge_old() runs for one issuance in ten. *)
SkipPurge(w) ==
    /\ pc[w] = "mailed"
    /\ Answer(w)
    /\ UNCHANGED <<tables, emailLog, lock, now, bounds, history>>

Purge(w) ==
    /\ pc[w] = "mailed"
    /\ otp' = [i \in Ids |->
                  IF otp[i].state # "free" /\ otp[i].expires + PurgeAfter < now
                  THEN [otp[i] EXCEPT !.state = "purged"] ELSE otp[i]]
    /\ Answer(w)
    /\ UNCHANGED <<account, last, emailLog, lock, now, bounds, history>>

-----------------------------------------------------------------------------
(* Checking a code *)

(* verify_otp(): one unlocked read of the newest active code. *)
Lookup(w) ==
    /\ pc[w] = "check"
    /\ LET i == LatestActive(req[w].user, PurposeOf(req[w].op)) IN
        IF i = NoId
        THEN Answer(w)
        ELSE /\ inst' = [inst EXCEPT ![w] =
                            [id |-> i, attempts |-> otp[i].attempts, at |-> now]]
             /\ Goto(w, "found")
    /\ UNCHANGED <<tables, emailLog, lock, now, bounds, history>>

(* The attempt is counted; the comparison is with the instance read above. *)
Compare(w, i) ==
    /\ guesses' = [guesses EXCEPT ![i] = @ + 1]
    /\ IF otp[i].code = req[w].code
       THEN Goto(w, "matched") /\ UNCHANGED inst
       ELSE Answer(w)

\* Regression: attempts are checked and incremented on the instance.
ClaimStale(w) ==
    /\ pc[w] = "found"
    /\ LET i == inst[w].id IN
        IF Live(i) /\ inst[w].attempts < MaxAttempts
        THEN /\ otp' = [otp EXCEPT ![i].attempts = inst[w].attempts + 1]
             /\ Compare(w, i)
        ELSE Answer(w) /\ UNCHANGED <<otp, guesses>>
    /\ UNCHANGED <<account, last, emailLog, lock, now, bounds, accepts>>

(* The conditional UPDATE that counts an attempt. *)
Claim(w) ==
    /\ pc[w] = "found"
    /\ LET i == inst[w].id IN
        IF Live(i) /\ otp[i].attempts < MaxAttempts
        THEN /\ otp' = [otp EXCEPT ![i].attempts = @ + 1]
             /\ Compare(w, i)
        ELSE Answer(w) /\ UNCHANGED <<otp, guesses>>
    /\ UNCHANGED <<account, last, emailLog, lock, now, bounds, accepts>>

\* Regression: the result of the consuming UPDATE is not looked at.
ConsumeUnconditional(w) ==
    /\ pc[w] = "matched"
    /\ LET i == inst[w].id IN
        /\ otp' = [otp EXCEPT ![i].state = "consumed"]
        /\ accepts' = [accepts EXCEPT ![i] = @ + 1]
        /\ Goto(w, "accepted") /\ UNCHANGED inst
    /\ UNCHANGED <<account, last, emailLog, lock, now, bounds, guesses>>

(* The conditional UPDATE that consumes the code: the row it finds live is *)
(* accepted.                                                               *)
Consume(w) ==
    /\ pc[w] = "matched"
    /\ LET i == inst[w].id IN
        IF Live(i)
        THEN /\ otp' = [otp EXCEPT ![i].state = "consumed"]
             /\ accepts' = [accepts EXCEPT ![i] = @ + 1]
             /\ Goto(w, "accepted") /\ UNCHANGED inst
        ELSE Answer(w) /\ UNCHANGED <<otp, accepts>>
    /\ UNCHANGED <<account, last, emailLog, lock, now, bounds, guesses>>

(* VerifyEmailView; the UPDATE of the user waits for its row. *)
SetVerified(w) ==
    /\ pc[w] = "accepted" /\ req[w].op = "verify"
    /\ lock[req[w].user] = NoWorker
    /\ account' = [account EXCEPT ![req[w].user].verified = TRUE]
    /\ Answer(w)
    /\ UNCHANGED <<otp, last, emailLog, lock, now, bounds, history>>

(* PasswordResetConfirmView: the new password, and the mark that the code  *)
(* reached its owner.                                                      *)
SetPassword(w) ==
    /\ pc[w] = "accepted" /\ req[w].op = "reset"
    /\ lock[req[w].user] = NoWorker
    /\ account' = [account EXCEPT ![req[w].user].password = inst[w].id,
                                  ![req[w].user].verified = TRUE]
    /\ Answer(w)
    /\ UNCHANGED <<otp, last, emailLog, lock, now, bounds, history>>

(* validate_password() refuses the new password: the code is gone.         *)
WeakPassword(w) ==
    /\ pc[w] = "accepted" /\ req[w].op = "reset"
    /\ Answer(w)
    /\ UNCHANGED <<tables, emailLog, lock, now, bounds, history>>

-----------------------------------------------------------------------------
(* Specification *)

(* The worker is killed: PostgreSQL rolls its transaction back.            *)
Crash(w) ==
    /\ pc[w] # "idle"
    /\ faults < MaxFaults
    /\ faults' = faults + 1
    /\ lock' = [u \in Users |-> IF lock[u] = w THEN NoWorker ELSE lock[u]]
    /\ Answer(w)
    /\ UNCHANGED <<tables, emailLog, now, arrivals, history>>

Tick ==
    /\ now < MaxTime
    /\ now' = now + 1
    /\ UNCHANGED <<tables, emailLog, lock, pc, req, inst, bounds, history>>

Issue(w) ==
    \/ InsertUser(w) \/ TakeUser(w) \/ RefuseUser(w) \/ CommitIssue(w)
    \/ SendMail(w) \/ MailFails(w) \/ SkipPurge(w) \/ Purge(w)

Check(w) ==
    \/ Lookup(w) \/ Claim(w) \/ Consume(w)
    \/ SetVerified(w) \/ SetPassword(w) \/ WeakPassword(w)

Next ==
    \/ \E w \in Workers : Arrive(w) \/ Issue(w) \/ Check(w) \/ Crash(w)
    \/ Tick

Spec == Init /\ [][Next]_vars

-----------------------------------------------------------------------------
(* Properties *)

TypeOK ==
    /\ account \in [Users -> Account]
    /\ otp \in [Ids -> Otp]
    /\ last \in 0..MaxOtps
    /\ emailLog \in [Ids -> {"none", "sent", "failed"}]
    /\ lock \in [Users -> Workers \cup {NoWorker}]
    /\ pc \in [Workers -> Stage]
    /\ req \in [Workers -> Request \cup {NoRequest}]
    /\ inst \in [Workers -> Instance]
    /\ now \in Nat /\ arrivals \in Nat /\ faults \in Nat
    /\ guesses \in [Ids -> Nat]
    /\ accepts \in [Ids -> Nat]

SameSlot(i, j) == Belongs(i, otp[j].user, otp[j].purpose)

(* At any time at most one code per account and purpose can be accepted:   *)
(* issuing a code invalidates every earlier one, also when two requests    *)
(* for a code overlap.                                                     *)
OneLiveCode ==
    \A i, j \in Ids : Live(i) /\ Live(j) /\ SameSlot(i, j) => i = j

(* A code is accepted once, however many requests present it at once.      *)
SingleUse == \A i \in Ids : accepts[i] <= 1

(* No code is compared with more than MaxAttempts guesses, also when they  *)
(* are made at once.                                                       *)
GuessesBounded == \A i \in Ids : guesses[i] <= MaxAttempts

(* The code that is accepted is the newest of its slot at that moment,     *)
(* although it was looked up two statements earlier.                       *)
OnlyNewestAccepted ==
    [][\A i \in Ids : accepts'[i] # accepts[i]
          => \A j \in Ids : otp[j].state # "free" /\ SameSlot(j, i) => j <= i]_vars

(* A request that comes after a code has expired is never accepted with    *)
(* it.  (One that looked the code up just before may be accepted after.)   *)
NoExpiredCode ==
    \A w \in Workers : pc[w] = "accepted" => inst[w].at < otp[inst[w].id].expires

(* Code j of a slot, if it was requested, follows the one before it by a   *)
(* cooldown, unless that one was used: requests that overlap mail one code.*)
Successive(i, j) ==
    /\ i < j /\ otp[j].state # "free" /\ SameSlot(i, j)
    /\ ~\E k \in Ids : i < k /\ k < j /\ SameSlot(k, j)

CooldownKept ==
    \A i, j \in Ids :
        Successive(i, j) /\ otp[j].via # "register"
            => accepts[i] > 0 \/ otp[j].sent >= otp[i].sent + Cooldown

(* A password is set only with an accepted reset code of that account, and *)
(* never twice with the same one.                                          *)
PasswordNeedsCode ==
    [][\A u \in Users :
          account'[u].password # account[u].password
              => LET i == account'[u].password IN
                    /\ Belongs(i, u, "reset_password")
                    /\ accepts[i] = 1
                    /\ \A v \in Users : account[v].password # i]_vars

-----------------------------------------------------------------------------
(* Refinement: the tables implement OneTimeCode, slot by slot. *)

Slots == Users \X Purpose

LiveIn(s) == {i \in Ids : Live(i) /\ Belongs(i, s[1], s[2])}

LiveMap == [s \in Slots |-> IF LiveIn(s) = {} THEN NoId ELSE CHOOSE i \in LiveIn(s) : TRUE]
TriesMap == [s \in Slots |-> IF LiveIn(s) = {} THEN 0 ELSE otp[LiveMap[s]].attempts]

Service == INSTANCE OneTimeCode WITH
    live <- LiveMap, tries <- TriesMap,
    issued <- {i \in Ids : otp[i].state # "free"},
    spent <- {i \in Ids : accepts[i] > 0}

(* Interleaved requests behave like one code per slot, guessed at a        *)
(* bounded number of times and accepted once.                              *)
OneTimeCodeSpec == Service!Spec

=============================================================================
