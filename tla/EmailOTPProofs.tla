--------------------------- MODULE EmailOTPProofs ---------------------------
(***************************************************************************)
(* Theorems about EmailOTP, for every number of users, codes and workers,  *)
(* every lifetime, cooldown and limit, and every bound.                    *)
(***************************************************************************)
EXTENDS EmailOTP, TLAPS

-----------------------------------------------------------------------------
(* The inductive invariant *)

Issued(i) == otp[i].state # "free"

(* The last code issued for its account and purpose. *)
Newest(i) == \A j \in Ids : Issued(j) /\ SameSlot(j, i) => j <= i

(* What a row's columns and its history say of each other. *)
RowInv ==
    \A i \in Ids :
        /\ Issued(i) <=> i <= last
        /\ Issued(i) => /\ otp[i].user \in Users
                        /\ otp[i].expires = otp[i].sent + TTL
                        /\ otp[i].sent <= now
        /\ ~Issued(i) => otp[i].attempts = 0
        /\ otp[i].state = "purged" => otp[i].expires < now
        /\ guesses[i] = otp[i].attempts
        /\ otp[i].attempts <= MaxAttempts
        /\ accepts[i] <= 1
        /\ Live(i) \/ ~Issued(i) => accepts[i] = 0

(* Only the newest code of a slot is live; if it was consumed, that is     *)
(* because it was accepted.                                                *)
NewestInv ==
    \A i \in Ids :
        /\ Live(i) => Newest(i)
        /\ Newest(i) /\ otp[i].state = "consumed" => accepts[i] = 1

(* The code a worker holds is the one its request asked for. *)
HoldsItsCode(w) ==
    /\ pc[w] # "idle" => req[w] \in Request
    /\ pc[w] \in {"mail", "mailed", "found", "matched", "accepted"}
           => inst[w].id \in 1..last
    /\ pc[w] \in {"found", "matched", "accepted"}
           => /\ Belongs(inst[w].id, req[w].user, PurposeOf(req[w].op))
              /\ inst[w].at < otp[inst[w].id].expires
    /\ pc[w] = "matched" => otp[inst[w].id].attempts > 0

WorkerInv == \A w \in Workers : HoldsItsCode(w)

(* A code that was accepted serves one request, until its password is set. *)
AcceptedInv ==
    /\ \A w \in Workers : pc[w] = "accepted" =>
        /\ accepts[inst[w].id] = 1
        /\ \A v \in Workers \ {w} : pc[v] = "accepted" => inst[v].id # inst[w].id
        /\ \A u \in Users : account[u].password # inst[w].id
    /\ \A u \in Users : account[u].password # NoId
          => account[u].password \in 1..last /\ accepts[account[u].password] = 1

(* The transaction that issues a code has the row of its user ... *)
LockInv == \A w \in Workers : pc[w] = "issuing" => lock[req[w].user] = w

(* ... so the cooldown it checked is still over. *)
Rested(i) == accepts[i] > 0 \/ otp[i].sent + Cooldown <= now

RestedInv ==
    \A w \in Workers : pc[w] = "issuing" /\ req[w].op # "register" =>
        \A i \in Ids :
            /\ Issued(i) /\ Newest(i)
            /\ Belongs(i, req[w].user, PurposeOf(req[w].op))
            => Rested(i)

IInv ==
    /\ TypeOK /\ RowInv /\ NewestInv /\ WorkerInv /\ AcceptedInv /\ LockInv
    /\ RestedInv /\ CooldownKept

-----------------------------------------------------------------------------
(* Type correctness *)

LEMMA PurposeType == ASSUME NEW op \in Op PROVE PurposeOf(op) \in Purpose
  BY DEF PurposeOf, Purpose

LEMMA RequestShape ==
    ASSUME NEW r \in Request
    PROVE  r.op \in Op /\ r.user \in Users /\ r.code \in Codes \cup {NoCode}
  BY DEF Request

LEMMA AnswerType ==
    ASSUME TypeOK, NEW w \in Workers, Answer(w)
    PROVE  /\ pc' \in [Workers -> Stage]
           /\ req' \in [Workers -> Request \cup {NoRequest}]
           /\ inst' \in [Workers -> Instance]
  BY DEF TypeOK, Answer, Stage, Instance, NoInstance, NoId

LEMMA GotoType ==
    ASSUME TypeOK, NEW w \in Workers, NEW label \in Stage, Goto(w, label)
    PROVE  /\ pc' \in [Workers -> Stage]
           /\ req' \in [Workers -> Request \cup {NoRequest}]
  BY DEF TypeOK, Goto

(* The row _issue_otp_db() inserts is typed. *)
LEMMA NewOtpType ==
    ASSUME TypeOK, NEW r \in Request, NEW code \in Codes
    PROVE  NewOtp(r, code) \in Otp
  <1>1. now + TTL \in Nat /\ now \in Nat
    BY TimeAssumption DEF TypeOK
  <1> QED
    BY <1>1, RequestShape, PurposeType DEF NewOtp, Otp

(* A change of one column leaves a row typed. *)
LEMMA RowEdits ==
    ASSUME NEW row \in Otp
    PROVE  /\ [row EXCEPT !.state = "consumed"] \in Otp
           /\ [row EXCEPT !.state = "purged"] \in Otp
           /\ [row EXCEPT !.attempts = @ + 1] \in Otp
           /\ row.attempts \in Nat /\ row.sent \in Nat /\ row.expires \in Nat
  BY DEF Otp

(* A worker that holds a code holds one that was issued. *)
LEMMA HeldCode ==
    ASSUME TypeOK, WorkerInv, NEW w \in Workers,
           pc[w] \in {"mail", "mailed", "found", "matched", "accepted"}
    PROVE  inst[w].id \in Ids /\ inst[w].id \in 1..last
  BY BoundAssumption DEF TypeOK, WorkerInv, HoldsItsCode, Ids

(* The columns of a row whose state or whose attempts were updated.        *)
SameColumns(new, row) ==
    /\ new.user = row.user /\ new.purpose = row.purpose /\ new.code = row.code
    /\ new.sent = row.sent /\ new.expires = row.expires /\ new.via = row.via

LEMMA ConsumedEdit ==
    ASSUME NEW row \in Otp
    PROVE  /\ SameColumns([row EXCEPT !.state = "consumed"], row)
           /\ [row EXCEPT !.state = "consumed"].state = "consumed"
           /\ [row EXCEPT !.state = "consumed"].attempts = row.attempts
  BY DEF Otp, SameColumns

LEMMA PurgedEdit ==
    ASSUME NEW row \in Otp
    PROVE  /\ SameColumns([row EXCEPT !.state = "purged"], row)
           /\ [row EXCEPT !.state = "purged"].state = "purged"
           /\ [row EXCEPT !.state = "purged"].attempts = row.attempts
  BY DEF Otp, SameColumns

LEMMA AttemptsEdit ==
    ASSUME NEW row \in Otp
    PROVE  /\ SameColumns([row EXCEPT !.attempts = @ + 1], row)
           /\ [row EXCEPT !.attempts = @ + 1].state = row.state
           /\ [row EXCEPT !.attempts = @ + 1].attempts = row.attempts + 1
  BY DEF Otp, SameColumns

(* latest_active() returns a code of that account and purpose that can     *)
(* still be accepted, and none only if there is none.                      *)
LEMMA LatestActiveFound ==
    ASSUME TypeOK, NewestInv, NEW u \in Users, NEW p \in Purpose
    PROVE  /\ LatestActive(u, p) \in Ids \cup {NoId}
           /\ LatestActive(u, p) # NoId
                 => LatestActive(u, p) \in Ids /\ Active(LatestActive(u, p), u, p)
           /\ \A i \in Ids : Active(i, u, p) => LatestActive(u, p) = i
  <1>1. CASE ~ \E i \in Ids : Active(i, u, p)
    BY <1>1 DEF LatestActive
  <1>2. ASSUME NEW i \in Ids, Active(i, u, p)
        PROVE  /\ LatestActive(u, p) = i
               /\ \A j \in Ids : Active(j, u, p) => i = j
    <2>1. \A j, k \in Ids : Active(j, u, p) /\ Active(k, u, p) => k <= j
      BY DEF NewestInv, Newest, Active, Live, Issued, SameSlot, Belongs
    <2>2. \A j \in Ids : Active(j, u, p) => i = j
      BY <1>2, <2>1 DEF Ids
    <2>3. i \in Ids /\ Active(i, u, p) /\ \A j \in Ids : Active(j, u, p) => j <= i
      BY <1>2, <2>1
    <2> QED
      BY <2>2, <2>3 DEF LatestActive
  <1> QED
    BY <1>1, <1>2 DEF NoId, Ids

LEMMA InitType == Init => TypeOK
  <1> SUFFICES ASSUME Init PROVE TypeOK
    OBVIOUS
  <1>1. FreeOtp \in Otp
    BY DEF FreeOtp, Otp, Purpose, Op, Issuing
  <1>2. account \in [Users -> Account] /\ last \in 0..MaxOtps
    BY BoundAssumption DEF Init
  <1> QED
    BY <1>1, <1>2 DEF Init, TypeOK, Stage, Instance, NoInstance, NoId

(* Every step of the service keeps the state typed. *)
LEMMA StepType ==
    ASSUME TypeOK, WorkerInv, Next
    PROVE  TypeOK'
  <1>1. ASSUME NEW w \in Workers, Arrive(w)
        PROVE  TypeOK'
    <2>1. PICK r \in Request : req' = [req EXCEPT ![w] = r]
                               /\ pc' = [pc EXCEPT ![w] = FirstStage(r.op)]
      BY <1>1 DEF Arrive
    <2>2. FirstStage(r.op) \in Stage
      BY <2>1, RequestShape DEF FirstStage, Stage, Op, Issuing, Checking
    <2> QED
      BY <1>1, <2>1, <2>2 DEF Arrive, TypeOK, tables, history
  <1>2. ASSUME NEW w \in Workers, InsertUser(w)
        PROVE  TypeOK'
    <2>1. "issue" \in Stage /\ req[w].user \in Users
      BY <1>2, RequestShape DEF WorkerInv, HoldsItsCode, InsertUser, Stage
    <2>2. account' \in [Users -> Account]
      <3> DEFINE row == [account[req[w].user] EXCEPT !.exists = TRUE]
      <3>1. account \in [Users -> Account] /\ account[req[w].user] \in Account
        BY <2>1 DEF TypeOK
      <3>2. row \in Account
        BY <3>1 DEF Account
      <3>3. account' = account \/ account' = [account EXCEPT ![req[w].user] = row]
        BY <1>2 DEF InsertUser
      <3> HIDE DEF row
      <3> QED
        BY <2>1, <3>1, <3>2, <3>3
    <2>3. inst' \in [Workers -> Instance] /\ pc' \in [Workers -> Stage]
          /\ req' \in [Workers -> Request \cup {NoRequest}]
      BY <1>2, <2>1, AnswerType, GotoType DEF InsertUser, TypeOK
    <2> QED
      BY <1>2, <2>2, <2>3 DEF InsertUser, TypeOK, bounds, history
  <1>3. ASSUME NEW w \in Workers, TakeUser(w)
        PROVE  TypeOK'
    <2>1. "issuing" \in Stage
      BY DEF Stage
    <2> QED
      BY <1>3, <2>1, GotoType DEF TakeUser, TypeOK, tables, bounds, history
  <1>4. ASSUME NEW w \in Workers, RefuseUser(w)
        PROVE  TypeOK'
    BY <1>4, AnswerType DEF RefuseUser, TypeOK, tables, bounds, history
  <1>5. ASSUME NEW w \in Workers, CommitIssue(w)
        PROVE  TypeOK'
    <2>1. req[w] \in Request /\ "mail" \in Stage
      BY <1>5 DEF WorkerInv, HoldsItsCode, CommitIssue, Stage
    <2>2. last + 1 \in Ids /\ last' = last + 1 /\ now \in Nat
      BY <1>5, BoundAssumption DEF CommitIssue, TypeOK, Ids
    <2>3. otp' \in [Ids -> Otp]
      BY <1>5, <2>1, NewOtpType, RowEdits DEF CommitIssue, TypeOK
    <2>4. last' \in 0..MaxOtps
      BY <2>2 DEF Ids
    <2>5. inst' \in [Workers -> Instance]
      BY <1>5, <2>2 DEF CommitIssue, TypeOK, Instance
    <2> QED
      BY <1>5, <2>1, <2>3, <2>4, <2>5, GotoType
      DEF CommitIssue, TypeOK, bounds, history
  <1>6. ASSUME NEW w \in Workers, SendMail(w) \/ MailFails(w) \/ SkipPurge(w)
        PROVE  TypeOK'
    <2>1. "mailed" \in Stage
      BY DEF Stage
    <2> QED
      BY <1>6, <2>1, GotoType, AnswerType
      DEF SendMail, MailFails, SkipPurge, TypeOK, tables, bounds, history
  <1>7. ASSUME NEW w \in Workers, Purge(w)
        PROVE  TypeOK'
    BY <1>7, AnswerType, RowEdits DEF Purge, TypeOK, bounds, history
  <1>8. ASSUME NEW w \in Workers, Lookup(w)
        PROVE  TypeOK'
    <2> DEFINE i == LatestActive(req[w].user, PurposeOf(req[w].op))
    <2>1. "found" \in Stage /\ now \in Nat
      BY DEF Stage, TypeOK
    <2>2. CASE i = NoId
      BY <1>8, <2>2, AnswerType DEF Lookup, TypeOK, tables, bounds, history
    <2>3. CASE i # NoId
      <3>1. i \in Ids
        BY <2>3 DEF LatestActive
      <3>2. otp[i].attempts \in Nat
        BY <3>1, RowEdits DEF TypeOK
      <3>3. [id |-> i, attempts |-> otp[i].attempts, at |-> now] \in Instance
        BY <2>1, <3>1, <3>2 DEF Instance
      <3> HIDE DEF i
      <3>4. inst' \in [Workers -> Instance]
        BY <1>8, <2>3, <3>3 DEF Lookup, TypeOK, i
      <3>5. Goto(w, "found")
        BY <1>8, <2>3 DEF Lookup, i
      <3> QED
        BY <1>8, <2>1, <3>4, <3>5, GotoType DEF Lookup, TypeOK, tables, bounds, history
    <2> QED
      BY <2>2, <2>3
  <1>9. ASSUME NEW w \in Workers, Claim(w)
        PROVE  TypeOK'
    <2> DEFINE i == inst[w].id
    <2>1. i \in Ids /\ "matched" \in Stage
      BY <1>9, HeldCode DEF Claim, Stage
    <2>2. otp' \in [Ids -> Otp] /\ guesses' \in [Ids -> Nat]
      <3> DEFINE row == [otp[i] EXCEPT !.attempts = @ + 1]
      <3>1. otp \in [Ids -> Otp] /\ guesses \in [Ids -> Nat] /\ otp[i] \in Otp
        BY <2>1 DEF TypeOK
      <3>2. row \in Otp
        BY <3>1, RowEdits
      <3>3. \/ otp' = otp /\ guesses' = guesses
            \/ otp' = [otp EXCEPT ![i] = row] /\ guesses' = [guesses EXCEPT ![i] = @ + 1]
        BY <1>9 DEF Claim, Compare
      <3> HIDE DEF row, i
      <3> QED
        BY <2>1, <3>1, <3>2, <3>3
    <2>3. inst' \in [Workers -> Instance] /\ pc' \in [Workers -> Stage]
          /\ req' \in [Workers -> Request \cup {NoRequest}]
      BY <1>9, <2>1, GotoType, AnswerType DEF Claim, Compare, TypeOK
    <2> QED
      BY <1>9, <2>2, <2>3 DEF Claim, TypeOK, bounds
  <1>10. ASSUME NEW w \in Workers, Consume(w)
         PROVE  TypeOK'
    <2> DEFINE i == inst[w].id
    <2>1. i \in Ids /\ "accepted" \in Stage
      BY <1>10, HeldCode DEF Consume, Stage
    <2>2. otp' \in [Ids -> Otp] /\ accepts' \in [Ids -> Nat]
      <3> DEFINE row == [otp[i] EXCEPT !.state = "consumed"]
      <3>1. otp \in [Ids -> Otp] /\ accepts \in [Ids -> Nat] /\ otp[i] \in Otp
        BY <2>1 DEF TypeOK
      <3>2. row \in Otp
        BY <3>1, RowEdits
      <3>3. \/ otp' = otp /\ accepts' = accepts
            \/ otp' = [otp EXCEPT ![i] = row] /\ accepts' = [accepts EXCEPT ![i] = @ + 1]
        BY <1>10 DEF Consume
      <3> HIDE DEF row, i
      <3> QED
        BY <2>1, <3>1, <3>2, <3>3
    <2>3. inst' \in [Workers -> Instance] /\ pc' \in [Workers -> Stage]
          /\ req' \in [Workers -> Request \cup {NoRequest}]
      BY <1>10, <2>1, GotoType, AnswerType DEF Consume, TypeOK
    <2> QED
      BY <1>10, <2>2, <2>3 DEF Consume, TypeOK, bounds
  <1>11. ASSUME NEW w \in Workers, SetVerified(w) \/ SetPassword(w)
         PROVE  TypeOK'
    <2> DEFINE u == req[w].user
               i == inst[w].id
    <2>1. i \in Ids /\ u \in Users
      BY <1>11, HeldCode, RequestShape DEF WorkerInv, HoldsItsCode, SetVerified, SetPassword
    <2>2. account' \in [Users -> Account]
      <3> DEFINE row == [account[u] EXCEPT !.verified = TRUE]
                 reset == [account[u] EXCEPT !.password = i, !.verified = TRUE]
      <3>1. account \in [Users -> Account] /\ account[u] \in Account
        BY <2>1 DEF TypeOK
      <3>2. row \in Account /\ reset \in Account
        BY <2>1, <3>1 DEF Account
      <3>3. \/ account' = [account EXCEPT ![u] = row]
            \/ account' = [account EXCEPT ![u] = reset]
        BY <1>11, <2>1, <3>1 DEF SetVerified, SetPassword
      <3> HIDE DEF row, reset, u, i
      <3> QED
        BY <2>1, <3>1, <3>2, <3>3
    <2> QED
      BY <1>11, <2>2, AnswerType
      DEF SetVerified, SetPassword, TypeOK, bounds, history
  <1>12. ASSUME NEW w \in Workers, WeakPassword(w)
         PROVE  TypeOK'
    BY <1>12, AnswerType DEF WeakPassword, TypeOK, tables, bounds, history
  <1>13. ASSUME NEW w \in Workers, Crash(w)
         PROVE  TypeOK'
    BY <1>13, AnswerType DEF Crash, TypeOK, tables, history
  <1>14. CASE Tick
    BY <1>14 DEF Tick, TypeOK, tables, bounds, history
  <1> QED
    BY <1>1, <1>2, <1>3, <1>4, <1>5, <1>6, <1>7, <1>8, <1>9, <1>10, <1>11,
       <1>12, <1>13, <1>14
    DEF Next, Issue, Check

-----------------------------------------------------------------------------
(* What a step does to the rows *)

rows == <<otp, last, now, guesses, accepts>>

(* Only five steps write what the rows' invariants are about. *)
LEMMA RowSteps ==
    ASSUME Next
    PROVE  \/ UNCHANGED rows
           \/ Tick
           \/ \E w \in Workers : CommitIssue(w) \/ Claim(w) \/ Consume(w) \/ Purge(w)
  BY DEF Next, Arrive, Issue, Check, InsertUser, TakeUser, RefuseUser, SendMail,
         MailFails, SkipPurge, Lookup, SetVerified, SetPassword, WeakPassword,
         Crash, rows, tables, history

(* What each of them does to each row. *)
LEMMA CommitIssueRows ==
    ASSUME TypeOK, RowInv, NEW w \in Workers, CommitIssue(w)
    PROVE  /\ last + 1 \in Ids /\ last' = last + 1
           /\ UNCHANGED <<now, guesses, accepts>>
           /\ ~Issued(last + 1)
           /\ \E code \in Codes : otp'[last + 1] = NewOtp(req[w], code)
           /\ \A i \in Ids \ {last + 1} :
                 /\ SameColumns(otp'[i], otp[i]) /\ otp'[i].attempts = otp[i].attempts
                 /\ IF Live(i) /\ Belongs(i, req[w].user, PurposeOf(req[w].op))
                    THEN otp'[i].state = "consumed"
                    ELSE otp'[i].state = otp[i].state
  <1>1. last + 1 \in Ids /\ last' = last + 1 /\ ~Issued(last + 1)
    BY BoundAssumption DEF CommitIssue, TypeOK, RowInv, Ids
  <1>2. UNCHANGED <<now, guesses, accepts>>
    BY DEF CommitIssue, history
  <1>3. \E code \in Codes : otp'[last + 1] = NewOtp(req[w], code)
    BY <1>1 DEF CommitIssue, Issued, Live
  <1>4. ASSUME NEW i \in Ids \ {last + 1}
        PROVE  /\ SameColumns(otp'[i], otp[i]) /\ otp'[i].attempts = otp[i].attempts
               /\ IF Live(i) /\ Belongs(i, req[w].user, PurposeOf(req[w].op))
                  THEN otp'[i].state = "consumed"
                  ELSE otp'[i].state = otp[i].state
    <2>1. otp[i] \in Otp
      BY DEF TypeOK
    <2>2. IF Live(i) /\ Belongs(i, req[w].user, PurposeOf(req[w].op))
          THEN otp'[i] = [otp[i] EXCEPT !.state = "consumed"]
          ELSE otp'[i] = otp[i]
      BY <1>4 DEF CommitIssue
    <2> QED
      BY <2>1, <2>2, ConsumedEdit DEF SameColumns
  <1> QED
    BY <1>1, <1>2, <1>3, <1>4

LEMMA ClaimRows ==
    ASSUME TypeOK, WorkerInv, NEW w \in Workers, Claim(w)
    PROVE  /\ UNCHANGED <<last, now, accepts>>
           /\ inst[w].id \in Ids
           /\ \A j \in Ids \ {inst[w].id} : otp'[j] = otp[j] /\ guesses'[j] = guesses[j]
           /\ LET i == inst[w].id IN
                \/ otp'[i] = otp[i] /\ guesses'[i] = guesses[i] /\ pc'[w] = "idle"
                \/ /\ Live(i) /\ otp[i].attempts < MaxAttempts
                   /\ SameColumns(otp'[i], otp[i]) /\ otp'[i].state = otp[i].state
                   /\ otp'[i].attempts = otp[i].attempts + 1
                   /\ guesses'[i] = guesses[i] + 1
  <1> DEFINE i == inst[w].id
  <1>1. i \in Ids /\ UNCHANGED <<last, now, accepts>>
    BY HeldCode DEF Claim
  <1>2. otp[i] \in Otp
    BY <1>1 DEF TypeOK
  <1>3. \/ otp' = otp /\ guesses' = guesses /\ pc'[w] = "idle"
        \/ /\ Live(i) /\ otp[i].attempts < MaxAttempts
           /\ otp' = [otp EXCEPT ![i] = [otp[i] EXCEPT !.attempts = @ + 1]]
           /\ guesses' = [guesses EXCEPT ![i] = @ + 1]
    BY DEF Claim, Compare, Answer, TypeOK
  <1> QED
    BY <1>1, <1>2, <1>3, AttemptsEdit DEF TypeOK

LEMMA ConsumeRows ==
    ASSUME TypeOK, WorkerInv, NEW w \in Workers, Consume(w)
    PROVE  /\ UNCHANGED <<last, now, guesses>>
           /\ inst[w].id \in Ids
           /\ \A j \in Ids \ {inst[w].id} : otp'[j] = otp[j] /\ accepts'[j] = accepts[j]
           /\ LET i == inst[w].id IN
                \/ otp'[i] = otp[i] /\ accepts'[i] = accepts[i] /\ pc'[w] = "idle"
                \/ /\ Live(i) /\ otp'[i].state = "consumed"
                   /\ SameColumns(otp'[i], otp[i]) /\ otp'[i].attempts = otp[i].attempts
                   /\ accepts'[i] = accepts[i] + 1
  <1> DEFINE i == inst[w].id
  <1>1. i \in Ids /\ UNCHANGED <<last, now, guesses>>
    BY HeldCode DEF Consume
  <1>2. otp[i] \in Otp
    BY <1>1 DEF TypeOK
  <1>3. \/ otp' = otp /\ accepts' = accepts /\ pc'[w] = "idle"
        \/ /\ Live(i)
           /\ otp' = [otp EXCEPT ![i] = [otp[i] EXCEPT !.state = "consumed"]]
           /\ accepts' = [accepts EXCEPT ![i] = @ + 1]
    BY DEF Consume, Answer, TypeOK
  <1> QED
    BY <1>1, <1>2, <1>3, ConsumedEdit DEF TypeOK

LEMMA PurgeRows ==
    ASSUME TypeOK, NEW w \in Workers, Purge(w)
    PROVE  /\ UNCHANGED <<last, now, guesses, accepts>>
           /\ \A i \in Ids :
                 \/ otp'[i] = otp[i]
                 \/ /\ Issued(i) /\ otp[i].expires < now
                    /\ otp'[i].state = "purged"
                    /\ SameColumns(otp'[i], otp[i]) /\ otp'[i].attempts = otp[i].attempts
  <1>1. UNCHANGED <<last, now, guesses, accepts>>
    BY DEF Purge, history
  <1>2. ASSUME NEW i \in Ids, otp'[i] # otp[i]
        PROVE  /\ Issued(i) /\ otp[i].expires < now
               /\ otp'[i].state = "purged"
               /\ SameColumns(otp'[i], otp[i]) /\ otp'[i].attempts = otp[i].attempts
    <2>1. otp[i] \in Otp /\ otp[i].expires \in Nat /\ now \in Nat
      BY RowEdits DEF TypeOK
    <2>2. /\ Issued(i) /\ otp[i].expires + PurgeAfter < now
          /\ otp'[i] = [otp[i] EXCEPT !.state = "purged"]
      BY <1>2 DEF Purge, Issued
    <2> QED
      BY <2>1, <2>2, PurgedEdit, TimeAssumption
  <1> QED
    BY <1>1, <1>2

(* A row, once issued, keeps what it was issued with. *)
Kept(i) ==
    /\ otp'[i].state # "free"
    /\ otp'[i].state = "live" => otp[i].state = "live"
    /\ SameColumns(otp'[i], otp[i])
    /\ otp'[i].attempts >= otp[i].attempts
    /\ accepts'[i] >= accepts[i]

LEMMA RowsKept ==
    ASSUME TypeOK, RowInv, WorkerInv, Next
    PROVE  /\ last' >= last /\ now' >= now
           /\ \A i \in Ids : Issued(i) => Kept(i)
  <1>1. /\ last \in Nat /\ now \in Nat
        /\ \A i \in Ids : otp[i].attempts \in Nat /\ accepts[i] \in Nat
    <2>1. \A i \in Ids : otp[i] \in Otp /\ accepts[i] \in Nat
      BY DEF TypeOK
    <2>2. \A i \in Ids : otp[i].attempts \in Nat
      BY <2>1, RowEdits
    <2>3. last \in Nat /\ now \in Nat
      BY BoundAssumption DEF TypeOK
    <2> QED
      BY <2>1, <2>2, <2>3
  <1>2. CASE UNCHANGED rows
    BY <1>1, <1>2 DEF rows, Kept, Issued, SameColumns
  <1>3. CASE Tick
    BY <1>1, <1>3 DEF Tick, tables, history, Kept, Issued, SameColumns
  <1>4. ASSUME NEW w \in Workers, CommitIssue(w)
        PROVE  /\ last' >= last /\ now' >= now
               /\ \A i \in Ids : Issued(i) => Kept(i)
    BY <1>1, <1>4, CommitIssueRows DEF Kept, Issued
  <1>5. ASSUME NEW w \in Workers, Claim(w)
        PROVE  /\ last' >= last /\ now' >= now
               /\ \A i \in Ids : Issued(i) => Kept(i)
    BY <1>1, <1>5, ClaimRows DEF Kept, Issued, SameColumns
  <1>6. ASSUME NEW w \in Workers, Consume(w)
        PROVE  /\ last' >= last /\ now' >= now
               /\ \A i \in Ids : Issued(i) => Kept(i)
    BY <1>1, <1>6, ConsumeRows DEF Kept, Issued, Live, SameColumns
  <1>7. ASSUME NEW w \in Workers, Purge(w)
        PROVE  /\ last' >= last /\ now' >= now
               /\ \A i \in Ids : Issued(i) => Kept(i)
    BY <1>1, <1>7, PurgeRows DEF Kept, Issued, SameColumns
  <1> QED
    BY <1>2, <1>3, <1>4, <1>5, <1>6, <1>7, RowSteps

-----------------------------------------------------------------------------
(* The rows' invariants are preserved *)

(* The columns of a state that the arithmetic below needs the type of. *)
LEMMA RowTypes ==
    ASSUME TypeOK
    PROVE  /\ last \in Nat /\ now \in Nat
           /\ \A i \in Ids :
                 /\ i \in Nat
                 /\ otp[i].sent \in Nat /\ otp[i].expires \in Nat
                 /\ otp[i].attempts \in Nat
                 /\ accepts[i] \in Nat /\ guesses[i] \in Nat
  <1>1. last \in Nat /\ now \in Nat
    BY BoundAssumption DEF TypeOK
  <1>2. \A i \in Ids : otp[i] \in Otp /\ accepts[i] \in Nat /\ guesses[i] \in Nat
    BY DEF TypeOK
  <1>3. \A i \in Ids : otp[i].sent \in Nat /\ otp[i].expires \in Nat /\ otp[i].attempts \in Nat
    BY <1>2, RowEdits
  <1>4. \A i \in Ids : i \in Nat
    BY DEF Ids
  <1> QED
    BY <1>1, <1>2, <1>3, <1>4

LEMMA RowStep ==
    ASSUME TypeOK, RowInv, WorkerInv, Next
    PROVE  RowInv'
  <1> USE RowTypes
  <1>1. CASE UNCHANGED rows
    BY <1>1 DEF rows, RowInv, Issued, Live
  <1>2. CASE Tick
    BY <1>2 DEF Tick, tables, history, RowInv, Issued, Live
  <1>3. ASSUME NEW w \in Workers, CommitIssue(w)
        PROVE  RowInv'
    <2>1. req[w] \in Request /\ req[w].user \in Users
      BY <1>3, RequestShape DEF CommitIssue, WorkerInv, HoldsItsCode
    <2>2. PICK code \in Codes : otp'[last + 1] = NewOtp(req[w], code)
      BY <1>3, CommitIssueRows
    <2>3. /\ otp'[last + 1].state = "live" /\ otp'[last + 1].user \in Users
          /\ otp'[last + 1].sent = now /\ otp'[last + 1].expires = now + TTL
          /\ otp'[last + 1].attempts = 0
      BY <2>1, <2>2 DEF NewOtp
    <2>4. /\ guesses[last + 1] = 0 /\ accepts[last + 1] = 0
      BY <1>3, CommitIssueRows DEF RowInv
    <2>5. ASSUME NEW i \in Ids
          PROVE  RowInv!(i)'
      BY <1>3, <2>3, <2>4, CommitIssueRows, BoundAssumption
      DEF RowInv, Issued, Live, SameColumns
    <2> QED
      BY <2>5 DEF RowInv
  <1>4. ASSUME NEW w \in Workers, Claim(w)
        PROVE  RowInv'
    BY <1>4, ClaimRows, BoundAssumption DEF RowInv, Issued, Live, SameColumns
  <1>5. ASSUME NEW w \in Workers, Consume(w)
        PROVE  RowInv'
    BY <1>5, ConsumeRows DEF RowInv, Issued, Live, SameColumns
  <1>6. ASSUME NEW w \in Workers, Purge(w)
        PROVE  RowInv'
    BY <1>6, PurgeRows DEF RowInv, Issued, Live, SameColumns
  <1> QED
    BY <1>1, <1>2, <1>3, <1>4, <1>5, <1>6, RowSteps

(* A step that issues nothing leaves the order of the codes alone. *)
SameOrder ==
    \A i \in Ids : SameColumns(otp'[i], otp[i]) /\ (otp'[i].state = "free" <=> ~Issued(i))

LEMMA OrderKept ==
    ASSUME TypeOK, RowInv, WorkerInv, Next, ~ \E w \in Workers : CommitIssue(w)
    PROVE  SameOrder
  <1>1. CASE UNCHANGED rows \/ Tick
    BY <1>1 DEF rows, Tick, tables, SameOrder, SameColumns, Issued
  <1>2. ASSUME NEW w \in Workers, Claim(w)
        PROVE  SameOrder
    BY <1>2, ClaimRows DEF SameOrder, SameColumns, Issued
  <1>3. ASSUME NEW w \in Workers, Consume(w)
        PROVE  SameOrder
    BY <1>3, ConsumeRows DEF SameOrder, SameColumns, Issued, Live
  <1>4. ASSUME NEW w \in Workers, Purge(w)
        PROVE  SameOrder
    BY <1>4, PurgeRows DEF SameOrder, SameColumns, Issued
  <1> QED
    BY <1>1, <1>2, <1>3, <1>4, RowSteps

LEMMA NewestKept ==
    ASSUME SameOrder, NEW i \in Ids
    PROVE  Newest(i)' <=> Newest(i)
  BY DEF SameOrder, SameColumns, Newest, Issued, SameSlot, Belongs

LEMMA NewestStep ==
    ASSUME TypeOK, RowInv, NewestInv, WorkerInv, Next
    PROVE  NewestInv'
  <1>1. ASSUME NEW w \in Workers, CommitIssue(w)
        PROVE  NewestInv'
    <2>0. PICK n \in Ids, u \in Users, p \in Purpose :
              n = last + 1 /\ u = req[w].user /\ p = PurposeOf(req[w].op)
      BY <1>1, CommitIssueRows, RequestShape, PurposeType
      DEF WorkerInv, HoldsItsCode, CommitIssue
    <2>1. /\ \A i \in Ids : i \in Nat
          /\ ~Issued(n) /\ accepts' = accepts
          /\ \A i \in Ids \ {n} :
                /\ SameColumns(otp'[i], otp[i])
                /\ IF Live(i) /\ Belongs(i, u, p)
                   THEN otp'[i].state = "consumed"
                   ELSE otp'[i].state = otp[i].state
          /\ \E code \in Codes : otp'[n] = NewOtp(req[w], code)
      BY <1>1, <2>0, CommitIssueRows DEF Ids
    <2>2. /\ otp'[n].state = "live" /\ otp'[n].user = u /\ otp'[n].purpose = p
          /\ \A i \in Ids : Issued(i)' <=> i <= n
      <3>1. RowInv' /\ last' = n
        BY <1>1, <2>0, RowStep, CommitIssueRows
      <3> QED
        BY <2>0, <2>1, <3>1 DEF NewOtp, RowInv
    <2>3. Newest(n)'
      BY <2>2 DEF Newest
    <2>4. ASSUME NEW i \in Ids \ {n}, Issued(i)', Belongs(i, u, p)
          PROVE  ~Newest(i)' /\ ~Live(i)'
      <3>1. i < n /\ SameSlot(n, i)' /\ Issued(n)'
        BY <2>1, <2>2, <2>4 DEF SameSlot, Belongs, SameColumns
      <3>2. ~Newest(i)'
        BY <2>1, <3>1 DEF Newest
      <3>3. ~Live(i)'
        BY <2>1, <2>4 DEF Live
      <3> QED
        BY <3>2, <3>3
    <2>5. ASSUME NEW i \in Ids \ {n}, Issued(i)', ~Belongs(i, u, p)
          PROVE  /\ Newest(i)' <=> Newest(i)
                 /\ otp'[i].state = otp[i].state /\ accepts'[i] = accepts[i]
      <3>1. otp'[i].state = otp[i].state /\ accepts'[i] = accepts[i]
        BY <2>1, <2>5
      <3>2. ~SameSlot(n, i)'
        BY <2>1, <2>2, <2>5 DEF SameSlot, Belongs, SameColumns
      <3>3. \A j \in Ids \ {n} : Issued(j)' <=> Issued(j)
        BY <2>1 DEF Issued, Live
      <3>4. \A j \in Ids \ {n} : SameSlot(j, i)' <=> SameSlot(j, i)
        BY <2>1 DEF SameSlot, Belongs, SameColumns
      <3> QED
        BY <2>1, <3>1, <3>2, <3>3, <3>4 DEF Newest
    <2>6. ASSUME NEW i \in Ids \ {n}
          PROVE  /\ Live(i)' => Newest(i)'
                 /\ Newest(i)' /\ (otp[i].state = "consumed")' => (accepts[i] = 1)'
      BY <2>4, <2>5 DEF NewestInv, Live, Issued
    <2> QED
      BY <2>1, <2>2, <2>3, <2>6 DEF NewestInv, Live
  <1>2. CASE ~ \E w \in Workers : CommitIssue(w)
    <2>1. \A i \in Ids : Newest(i)' <=> Newest(i)
      BY <1>2, OrderKept, NewestKept
    <2>2. CASE UNCHANGED rows \/ Tick
      BY <2>1, <2>2 DEF rows, Tick, tables, history, NewestInv, Live
    <2>3. ASSUME NEW w \in Workers, Claim(w)
          PROVE  NewestInv'
      BY <2>1, <2>3, ClaimRows DEF NewestInv, Live
    <2>4. ASSUME NEW w \in Workers, Consume(w)
          PROVE  NewestInv'
      BY <2>1, <2>4, ConsumeRows DEF NewestInv, Live, RowInv
    <2>5. ASSUME NEW w \in Workers, Purge(w)
          PROVE  NewestInv'
      BY <2>1, <2>5, PurgeRows DEF NewestInv, Live
    <2> QED
      BY <1>2, <2>2, <2>3, <2>4, <2>5, RowSteps
  <1> QED
    BY <1>1, <1>2

-----------------------------------------------------------------------------
(* The workers' invariants are preserved *)

Untouched(w) == pc'[w] = pc[w] /\ req'[w] = req[w] /\ inst'[w] = inst[w]

(* A step of one worker leaves the requests of the others alone. *)
LEMMA OthersUntouched ==
    ASSUME TypeOK, NEW w \in Workers, Arrive(w) \/ Issue(w) \/ Check(w) \/ Crash(w)
    PROVE  \A v \in Workers \ {w} : Untouched(v)
  <1>1. CASE Arrive(w) \/ Crash(w)
    BY <1>1 DEF Arrive, Crash, Answer, TypeOK, Untouched
  <1>2. CASE Issue(w)
    BY <1>2 DEF Issue, InsertUser, TakeUser, RefuseUser, CommitIssue, SendMail,
                MailFails, SkipPurge, Purge, Answer, Goto, TypeOK, Untouched
  <1>3. CASE Check(w)
    BY <1>3 DEF Check, Lookup, Claim, Compare, Consume, SetVerified, SetPassword,
                WeakPassword, Answer, Goto, TypeOK, Untouched
  <1> QED
    BY <1>1, <1>2, <1>3

(* A worker that takes no step holds its code through every step. *)
LEMMA UntouchedHolds ==
    ASSUME TypeOK, RowInv, WorkerInv, Next, NEW w \in Workers, Untouched(w)
    PROVE  HoldsItsCode(w)'
  <1>1. /\ last' >= last /\ last \in Nat /\ last' \in Nat
        /\ \A i \in Ids : Issued(i) => Kept(i)
    BY RowTypes, RowsKept, StepType, BoundAssumption DEF TypeOK
  <1>2. HoldsItsCode(w)
    BY DEF WorkerInv
  <1>3. CASE pc[w] \in {"mail", "mailed", "found", "matched", "accepted"}
    <2> DEFINE i == inst[w].id
    <2>1. i \in Ids /\ i \in 1..last /\ i \in 1..last'
      BY <1>1, <1>3, HeldCode
    <2>2. Issued(i)
      BY <2>1 DEF RowInv
    <2>3. Kept(i) /\ otp[i].attempts \in Nat /\ otp'[i].attempts \in Nat
      <3>1. Kept(i) /\ otp[i] \in Otp /\ otp'[i] \in Otp
        BY <1>1, <2>1, <2>2, StepType DEF TypeOK
      <3> QED
        BY <3>1, RowEdits
    <2> QED
      BY <1>2, <2>1, <2>3 DEF HoldsItsCode, Untouched, Kept, SameColumns, Belongs
  <1>4. CASE pc[w] \notin {"mail", "mailed", "found", "matched", "accepted"}
    BY <1>2, <1>4 DEF HoldsItsCode, Untouched
  <1> QED
    BY <1>3, <1>4

LEMMA WorkerStep ==
    ASSUME TypeOK, RowInv, NewestInv, WorkerInv, Next
    PROVE  WorkerInv'
  <1>1. CASE Tick
    <2>1. \A w \in Workers : Untouched(w)
      BY <1>1 DEF Tick, Untouched
    <2> QED
      BY <2>1, UntouchedHolds DEF WorkerInv
  <1>2. ASSUME NEW w \in Workers, Arrive(w) \/ Issue(w) \/ Check(w) \/ Crash(w)
        PROVE  WorkerInv'
    <2>1. SUFFICES HoldsItsCode(w)'
      BY <1>2, OthersUntouched, UntouchedHolds DEF WorkerInv
    <2>2. CASE Answer(w)
      BY <2>2 DEF Answer, HoldsItsCode, TypeOK
    <2>3. CASE Arrive(w)
      BY <2>3 DEF Arrive, FirstStage, HoldsItsCode, TypeOK
    <2>4. ASSUME InsertUser(w) \/ TakeUser(w), ~Answer(w)
          PROVE  HoldsItsCode(w)'
      BY <2>4 DEF InsertUser, TakeUser, Goto, HoldsItsCode, WorkerInv, TypeOK
    <2>5. CASE CommitIssue(w)
      <3>1. /\ pc'[w] = "mail" /\ req'[w] = req[w] /\ pc[w] = "issuing"
            /\ inst'[w].id = last + 1 /\ last' = last + 1
        BY <2>5 DEF CommitIssue, Goto, TypeOK
      <3>2. last \in Nat
        BY RowTypes
      <3> QED
        BY <3>1, <3>2 DEF HoldsItsCode, WorkerInv
    <2>6. CASE SendMail(w)
      <3>1. /\ pc'[w] = "mailed" /\ req'[w] = req[w] /\ pc[w] = "mail"
            /\ inst' = inst /\ last' = last
        BY <2>6 DEF SendMail, Goto, TypeOK, tables
      <3> QED
        BY <3>1 DEF HoldsItsCode, WorkerInv
    <2>7. ASSUME Lookup(w), ~Answer(w)
          PROVE  HoldsItsCode(w)'
      <3> DEFINE u == req[w].user
                 p == PurposeOf(req[w].op)
                 i == LatestActive(u, p)
      <3>1. req[w] \in Request /\ u \in Users /\ p \in Purpose
        BY <2>7, RequestShape, PurposeType DEF Lookup, WorkerInv, HoldsItsCode
      <3>2. i # NoId
        BY <2>7 DEF Lookup
      <3>3. i \in Ids /\ Active(i, u, p)
        BY <3>1, <3>2, LatestActiveFound
      <3>4. i \in 1..last
        BY <3>3, RowTypes DEF RowInv, Active, Live, Issued, Ids
      <3>5. /\ pc'[w] = "found" /\ req' = req /\ UNCHANGED <<otp, last>>
            /\ inst'[w].id = i /\ inst'[w].at = now
        BY <2>7 DEF Lookup, Goto, TypeOK, tables
      <3>6. otp[i].expires > now /\ Belongs(i, u, p)
        BY <3>3 DEF Active
      <3>7. otp[i].expires \in Nat /\ now \in Nat
        BY <3>3, RowTypes
      <3> HIDE DEF i
      <3> QED
        BY <3>1, <3>4, <3>5, <3>6, <3>7 DEF HoldsItsCode, Belongs
    <2>8. ASSUME Claim(w), ~Answer(w)
          PROVE  HoldsItsCode(w)'
      <3> DEFINE i == inst[w].id
      <3>1. /\ pc[w] = "found" /\ pc'[w] = "matched" /\ req' = req /\ inst' = inst
            /\ last' = last
        BY <2>8 DEF Claim, Compare, Goto, TypeOK
      <3>2. /\ i \in Ids /\ SameColumns(otp'[i], otp[i])
            /\ otp'[i].attempts = otp[i].attempts + 1
        BY <2>8, <3>1, ClaimRows
      <3>3. otp[i].attempts \in Nat
        BY <3>2, RowTypes
      <3> QED
        BY <3>1, <3>2, <3>3 DEF HoldsItsCode, WorkerInv, Belongs, SameColumns
    <2>9. ASSUME Consume(w), ~Answer(w)
          PROVE  HoldsItsCode(w)'
      <3> DEFINE i == inst[w].id
      <3>1. /\ pc[w] = "matched" /\ pc'[w] = "accepted" /\ req' = req /\ inst' = inst
            /\ last' = last
        BY <2>9 DEF Consume, Goto, TypeOK
      <3>2. i \in Ids /\ SameColumns(otp'[i], otp[i])
        BY <2>9, <3>1, ConsumeRows
      <3> QED
        BY <3>1, <3>2 DEF HoldsItsCode, WorkerInv, Belongs, SameColumns
    <2> QED
      BY <1>2, <2>2, <2>3, <2>4, <2>5, <2>6, <2>7, <2>8, <2>9
      DEF Issue, Check, RefuseUser, MailFails, SkipPurge, Purge, SetVerified,
          SetPassword, WeakPassword, Crash
  <1> QED
    BY <1>1, <1>2 DEF Next

(* A code is accepted for one request, and sets one password. *)
LEMMA AcceptedStep ==
    ASSUME TypeOK, RowInv, NewestInv, WorkerInv, AcceptedInv, Next
    PROVE  AcceptedInv'
  <1>1. /\ \A i \in Ids : accepts[i] \in Nat
        /\ \A i \in Ids : accepts'[i] \in Nat
        /\ \A i \in Ids : accepts'[i] <= 1
        /\ last \in Nat /\ last' \in Nat /\ last <= last'
    BY RowTypes, StepType, RowStep, RowsKept, BoundAssumption DEF TypeOK, RowInv
  <1>2. \A i \in 1..last : i \in Ids /\ i \in 1..last' /\ (accepts[i] = 1 => accepts'[i] = 1)
    <2>1. ASSUME NEW i \in 1..last
          PROVE  i \in Ids /\ i \in 1..last' /\ Issued(i)
      BY <1>1, <2>1, BoundAssumption DEF TypeOK, Ids, RowInv
    <2> QED
      BY <1>1, <2>1, RowsKept DEF Kept
  <1>3. \A w \in Workers : pc[w] = "accepted" => inst[w].id \in 1..last
    BY DEF WorkerInv, HoldsItsCode
  <1>4. ASSUME \A w \in Workers : pc'[w] = "accepted" => pc[w] = "accepted" /\ Untouched(w),
               \A u \in Users : account'[u].password = account[u].password
        PROVE  AcceptedInv'
    BY <1>2, <1>3, <1>4 DEF AcceptedInv, Untouched
  <1>5. CASE Tick
    BY <1>4, <1>5 DEF Tick, tables, Untouched
  <1>6. ASSUME NEW w \in Workers, Arrive(w) \/ Issue(w) \/ Check(w) \/ Crash(w)
        PROVE  AcceptedInv'
    <2>1. \A v \in Workers \ {w} : Untouched(v)
      BY <1>6, OthersUntouched
    <2>2. CASE Consume(w) /\ ~Answer(w)
      <3> DEFINE i == inst[w].id
      <3>1. /\ pc[w] = "matched" /\ pc'[w] = "accepted" /\ inst' = inst
            /\ account' = account /\ last' = last
        BY <2>2 DEF Consume, Goto, TypeOK
      <3>2. /\ i \in Ids /\ Live(i) /\ accepts'[i] = accepts[i] + 1
            /\ \A j \in Ids \ {i} : accepts'[j] = accepts[j]
        BY <2>2, <3>1, ConsumeRows
      <3>3. accepts[i] = 0 /\ accepts'[i] = 1
        BY <3>2 DEF RowInv
      <3>4. /\ \A v \in Workers : pc[v] = "accepted" => inst[v].id # i
            /\ \A u \in Users : account[u].password # i
        BY <3>2, <3>3 DEF AcceptedInv, NoId, Ids
      <3>5. \A j \in 1..last : accepts[j] = 1 => accepts'[j] = 1
        BY <1>2
      <3> QED
        BY <1>3, <2>1, <3>1, <3>3, <3>4, <3>5 DEF AcceptedInv, Untouched
    <2>3. CASE SetPassword(w)
      <3> DEFINE i == inst[w].id
                 x == req[w].user
      <3>1. /\ pc[w] = "accepted" /\ pc' = [pc EXCEPT ![w] = "idle"]
            /\ UNCHANGED <<last, accepts>>
        BY <2>3 DEF SetPassword, Answer, history
      <3>2. i \in 1..last /\ accepts[i] = 1 /\ x \in Users
        BY <1>3, <2>3, <3>1, RequestShape DEF AcceptedInv, WorkerInv, HoldsItsCode
      <3>3. /\ account'[x].password = i
            /\ \A u \in Users \ {x} : account'[u] = account[u]
        <4>1. account[x] \in Account
          BY <3>2 DEF TypeOK
        <4> QED
          BY <2>3, <3>2, <4>1 DEF SetPassword, TypeOK, Account
      <3>4. \A v \in Workers : pc'[v] = "accepted" =>
                v # w /\ pc[v] = "accepted" /\ inst'[v] = inst[v] /\ inst[v].id # i
        BY <2>1, <3>1 DEF Untouched, TypeOK, AcceptedInv
      <3> HIDE DEF i, x
      <3> QED
        BY <3>1, <3>2, <3>3, <3>4 DEF AcceptedInv
    <2>4. ASSUME ~SetPassword(w), ~(Consume(w) /\ ~Answer(w))
          PROVE  /\ pc'[w] # "accepted"
                 /\ \A u \in Users : account'[u].password = account[u].password
      <3>1. pc'[w] # "accepted"
        BY <1>6, <2>4
        DEF Arrive, FirstStage, Crash, Issue, InsertUser, TakeUser, RefuseUser,
            CommitIssue, SendMail, MailFails, SkipPurge, Purge, Check, Lookup, Claim,
            Compare, Consume, SetVerified, WeakPassword, Answer, Goto, TypeOK
      <3>2. account' # account => InsertUser(w) \/ SetVerified(w)
        BY <1>6, <2>4
        DEF Arrive, Crash, Issue, TakeUser, RefuseUser, CommitIssue, SendMail,
            MailFails, SkipPurge, Purge, Check, Lookup, Claim, Consume,
            WeakPassword, tables
      <3>3. ASSUME account' # account
            PROVE  \A u \in Users : account'[u].password = account[u].password
        <4>1. req[w].user \in Users
          BY <3>2, <3>3, RequestShape
          DEF InsertUser, SetVerified, WorkerInv, HoldsItsCode
        <4>2. account[req[w].user] \in Account /\ \A u \in Users : account[u] \in Account
          BY <4>1 DEF TypeOK
        <4> QED
          BY <3>2, <3>3, <4>1, <4>2 DEF InsertUser, SetVerified, TypeOK, Account
      <3> QED
        BY <3>1, <3>3
    <2> QED
      BY <1>4, <2>1, <2>2, <2>3, <2>4 DEF Untouched
  <1> QED
    BY <1>5, <1>6 DEF Next

-----------------------------------------------------------------------------
(* The lock of the user row, and the cooldown checked under it *)

(* Where a transaction that issues a code comes from. *)
LEMMA IssuingFrom ==
    ASSUME TypeOK, Next, NEW w \in Workers, pc'[w] = "issuing"
    PROVE  \/ TakeUser(w)
           \/ /\ pc[w] = "issuing" /\ Untouched(w)
              /\ ~CommitIssue(w) /\ ~Crash(w)
  <1>1. CASE Tick
    BY <1>1 DEF Tick, Untouched, CommitIssue, Crash, Goto, Answer, TypeOK
  <1>2. ASSUME NEW v \in Workers, Arrive(v) \/ Issue(v) \/ Check(v) \/ Crash(v)
        PROVE  \/ TakeUser(w)
               \/ /\ pc[w] = "issuing" /\ Untouched(w)
                  /\ ~CommitIssue(w) /\ ~Crash(w)
    <2>1. ~CommitIssue(w) /\ ~Crash(w)
      BY DEF CommitIssue, Crash, Goto, Answer, TypeOK
    <2>2. CASE v # w
      BY <1>2, <2>1, <2>2, OthersUntouched DEF Untouched
    <2>3. CASE v = w
      BY <1>2, <2>3
      DEF Arrive, FirstStage, Crash, Issue, InsertUser, TakeUser, RefuseUser,
          CommitIssue, SendMail, MailFails, SkipPurge, Purge, Check, Lookup, Claim,
          Compare, Consume, SetVerified, SetPassword, WeakPassword, Answer, Goto, TypeOK
    <2> QED
      BY <2>2, <2>3
  <1> QED
    BY <1>1, <1>2 DEF Next

LEMMA LockStep ==
    ASSUME TypeOK, WorkerInv, LockInv, Next
    PROVE  LockInv'
  <1> SUFFICES ASSUME NEW w \in Workers, pc'[w] = "issuing"
               PROVE  lock'[req'[w].user] = w
    BY DEF LockInv
  <1>1. CASE TakeUser(w)
    <2>1. req[w].user \in Users
      BY <1>1, RequestShape DEF TakeUser, WorkerInv, HoldsItsCode
    <2> QED
      BY <1>1, <2>1 DEF TakeUser, Goto, TypeOK
  <1>2. CASE pc[w] = "issuing" /\ Untouched(w) /\ ~CommitIssue(w) /\ ~Crash(w)
    <2>1. req[w].user \in Users /\ lock[req[w].user] = w
      BY <1>2, RequestShape DEF WorkerInv, HoldsItsCode, LockInv
    <2>2. CASE lock' = lock
      BY <1>2, <2>1, <2>2 DEF Untouched
    <2>3. ASSUME NEW v \in Workers, TakeUser(v)
          PROVE  lock'[req'[w].user] = w
      BY <1>2, <2>1, <2>3, WorkerAssumption DEF Untouched, TakeUser, TypeOK
    <2>4. ASSUME NEW v \in Workers, CommitIssue(v)
          PROVE  lock'[req'[w].user] = w
      <3>1. v # w
        BY <1>2, <2>4
      <3>2. lock[req[v].user] = v
        BY <2>4 DEF LockInv, CommitIssue
      <3> QED
        BY <1>2, <2>1, <2>4, <3>1, <3>2 DEF Untouched, CommitIssue, TypeOK
    <2>5. ASSUME NEW v \in Workers, Crash(v)
          PROVE  lock'[req'[w].user] = w
      <3>1. v # w
        BY <1>2, <2>5
      <3> QED
        BY <1>2, <2>1, <2>5, <3>1 DEF Untouched, Crash, TypeOK
    <2>6. ASSUME lock' # lock
          PROVE  \E v \in Workers : TakeUser(v) \/ CommitIssue(v) \/ Crash(v)
      BY <2>6
      DEF Next, Arrive, Issue, Check, InsertUser, RefuseUser, SendMail, MailFails,
          SkipPurge, Purge, Lookup, Claim, Consume, SetVerified, SetPassword,
          WeakPassword, Tick
    <2> QED
      BY <2>2, <2>3, <2>4, <2>5, <2>6
  <1> QED
    BY <1>1, <1>2, IssuingFrom

(* A request that was not refused comes a cooldown after the newest code, *)
(* or after that code was used.                                            *)
LEMMA NotRefused ==
    ASSUME TypeOK, RowInv, NewestInv, NEW r \in Request, r.op # "register",
           ~CoolingDown(r), NEW i \in Ids, Issued(i), Newest(i),
           Belongs(i, r.user, PurposeOf(r.op))
    PROVE  Rested(i)
  <1>1. /\ r.user \in Users /\ PurposeOf(r.op) \in Purpose
        /\ now \in Nat /\ otp[i].sent \in Nat /\ otp[i].expires \in Nat
    BY RequestShape, PurposeType, RowTypes
  <1>2. otp[i].expires = otp[i].sent + TTL /\ otp[i].sent <= now
    BY DEF RowInv
  <1>3. CASE Active(i, r.user, PurposeOf(r.op))
    <2>1. LatestActive(r.user, PurposeOf(r.op)) = i /\ i # NoId
      BY <1>1, <1>3, LatestActiveFound DEF NoId, Ids
    <2>2. ~(now - otp[i].sent < Cooldown)
      BY <2>1 DEF CoolingDown
    <2> QED
      BY <1>1, <1>2, <2>2, TimeAssumption DEF Rested
  <1>4. CASE Live(i) /\ ~(otp[i].expires > now)
    BY <1>1, <1>2, <1>4, TimeAssumption DEF Rested
  <1>5. CASE otp[i].state = "consumed"
    BY <1>5 DEF NewestInv, Rested
  <1>6. CASE otp[i].state = "purged"
    <2>1. otp[i].expires < now
      BY <1>6 DEF RowInv
    <2> QED
      BY <1>1, <1>2, <2>1, TimeAssumption DEF Rested
  <1>7. otp[i].state \in {"live", "consumed", "purged"}
    <2>1. otp[i] \in Otp
      BY DEF TypeOK
    <2> QED
      BY <2>1 DEF Otp, Issued
  <1> QED
    BY <1>3, <1>4, <1>5, <1>6, <1>7 DEF Active, Live

(* Once rested, a code stays so. *)
LEMMA StaysRested ==
    ASSUME TypeOK, RowInv, WorkerInv, Next, NEW i \in Ids, Issued(i), Rested(i)
    PROVE  Rested(i)'
  <1>1. /\ now \in Nat /\ now' \in Nat /\ now' >= now
        /\ accepts[i] \in Nat /\ accepts'[i] \in Nat /\ accepts'[i] >= accepts[i]
        /\ otp[i].sent \in Nat /\ otp'[i].sent = otp[i].sent
    BY RowTypes, StepType, RowsKept DEF TypeOK, Kept, SameColumns
  <1> QED
    BY <1>1, TimeAssumption DEF Rested

LEMMA RestedStep ==
    ASSUME TypeOK, RowInv, NewestInv, WorkerInv, LockInv, RestedInv, Next
    PROVE  RestedInv'
  <1> SUFFICES ASSUME NEW w \in Workers, pc'[w] = "issuing", req'[w].op # "register",
                      NEW i \in Ids, Issued(i)', Newest(i)',
                      otp'[i].user = req'[w].user,
                      otp'[i].purpose = PurposeOf(req'[w].op)
               PROVE  Rested(i)'
    BY DEF RestedInv, Belongs
  <1>1. CASE TakeUser(w)
    <2>1. /\ req' = req /\ UNCHANGED rows /\ ~CoolingDown(req[w])
          /\ req[w] \in Request
      BY <1>1 DEF TakeUser, Goto, rows, tables, history, WorkerInv, HoldsItsCode
    <2>2. Issued(i) /\ Newest(i) /\ Belongs(i, req[w].user, PurposeOf(req[w].op))
      BY <2>1 DEF rows, Issued, Newest, SameSlot, Belongs
    <2>3. Rested(i)
      BY <2>1, <2>2, NotRefused
    <2> QED
      BY <2>2, <2>3, StaysRested
  <1>2. CASE pc[w] = "issuing" /\ Untouched(w) /\ ~CommitIssue(w)
    <2>1. req[w].user \in Users /\ lock[req[w].user] = w
      BY <1>2, RequestShape DEF WorkerInv, HoldsItsCode, LockInv
    <2>2. ASSUME Issued(i), Newest(i), Belongs(i, req[w].user, PurposeOf(req[w].op))
          PROVE  Rested(i)'
      BY <1>2, <2>2, StaysRested DEF RestedInv, Untouched
    <2>3. ASSUME NEW v \in Workers, CommitIssue(v)
          PROVE  Rested(i)'
      <3>1. v # w
        BY <1>2, <2>3
      <3>2. req[v].user # req[w].user
        BY <2>1, <2>3, <3>1 DEF LockInv, CommitIssue
      <3>3. i # last + 1
        <4>1. \E code \in Codes : otp'[last + 1] = NewOtp(req[v], code)
          BY <2>3, CommitIssueRows
        <4>2. otp'[last + 1].user = req[v].user
          BY <4>1 DEF NewOtp
        <4> QED
          BY <1>2, <3>2, <4>2 DEF Untouched
      <3>4. Issued(i) /\ Belongs(i, req[w].user, PurposeOf(req[w].op))
        BY <1>2, <2>3, <3>3, CommitIssueRows
        DEF Issued, Live, Belongs, SameColumns, Untouched
      <3>5. \A j \in Ids : Issued(j) /\ SameSlot(j, i) => Issued(j)' /\ SameSlot(j, i)'
        <4>1. \A j \in Ids : Issued(j) => j # last + 1
          BY <2>3, CommitIssueRows
        <4> QED
          BY <2>3, <3>3, <4>1, CommitIssueRows
          DEF Issued, Live, SameSlot, Belongs, SameColumns
      <3>6. Newest(i)
        BY <3>5 DEF Newest
      <3> QED
        BY <2>2, <3>4, <3>6
    <2>4. CASE ~ \E v \in Workers : CommitIssue(v)
      <3>1. SameOrder
        BY <2>4, OrderKept
      <3>2. Issued(i) /\ Belongs(i, req[w].user, PurposeOf(req[w].op)) /\ Newest(i)
        BY <1>2, <3>1, NewestKept DEF SameOrder, SameColumns, Issued, Belongs, Untouched
      <3> QED
        BY <2>2, <3>2
    <2> QED
      BY <2>3, <2>4
  <1> QED
    BY <1>1, <1>2, IssuingFrom

LEMMA CooldownStep ==
    ASSUME TypeOK, RowInv, NewestInv, WorkerInv, LockInv, RestedInv, CooldownKept, Next
    PROVE  CooldownKept'
  <1>0. \A i \in Ids : i \in Nat /\ accepts[i] \in Nat /\ otp[i].sent \in Nat
    BY RowTypes
  <1> SUFFICES ASSUME NEW i \in Ids, NEW j \in Ids, Successive(i, j)',
                      otp'[j].via # "register"
               PROVE  (accepts[i] > 0 \/ otp[j].sent >= otp[i].sent + Cooldown)'
    BY DEF CooldownKept
  <1>1. ASSUME NEW w \in Workers, CommitIssue(w)
        PROVE  (accepts[i] > 0 \/ otp[j].sent >= otp[i].sent + Cooldown)'
    <2>1. PICK n \in Ids : n = last + 1 /\ ~Issued(n)
      BY <1>1, CommitIssueRows
    <2>2. /\ \A k \in Ids \ {n} : SameColumns(otp'[k], otp[k])
          /\ \A k \in Ids \ {n} : Issued(k)' <=> Issued(k)
          /\ accepts' = accepts /\ now' = now
      BY <1>1, <2>1, CommitIssueRows DEF Issued, Live
    <2>3. \A k \in Ids : Issued(k)' <=> k <= n
      <3>1. RowInv' /\ last' = n
        BY <1>1, <2>1, RowStep, CommitIssueRows
      <3> QED
        BY <3>1 DEF RowInv
    <2>4. i < j /\ j <= n /\ i # n
      BY <1>0, <2>1, <2>3 DEF Successive, Issued
    <2>5. CASE j # n
      <3>1. Successive(i, j)
        BY <1>0, <2>2, <2>4, <2>5 DEF Successive, SameSlot, Belongs, SameColumns, Issued
      <3> QED
        BY <2>2, <2>4, <2>5, <3>1 DEF CooldownKept, SameColumns
    <2>6. CASE j = n
      <3>1. /\ otp'[n].user = req[w].user /\ otp'[n].purpose = PurposeOf(req[w].op)
            /\ otp'[n].via = req[w].op /\ otp'[n].sent = now
        <4>1. \E code \in Codes : otp'[n] = NewOtp(req[w], code)
          BY <1>1, <2>1, CommitIssueRows
        <4> QED
          BY <4>1 DEF NewOtp
      <3>2. Issued(i) /\ Belongs(i, req[w].user, PurposeOf(req[w].op))
        BY <1>0, <2>1, <2>2, <2>3, <2>4, <2>6, <3>1
        DEF Successive, SameSlot, Belongs, SameColumns
      <3>3. Newest(i)
        <4> SUFFICES ASSUME NEW k \in Ids, Issued(k), SameSlot(k, i), i < k
                     PROVE  FALSE
          BY <1>0 DEF Newest
        <4>1. k # n /\ k < n
          BY <1>0, <2>1, <2>2, <2>3
        <4>2. SameSlot(k, j)'
          BY <2>2, <2>6, <3>1, <3>2, <4>1 DEF SameSlot, Belongs, SameColumns
        <4> QED
          BY <2>6, <4>1, <4>2 DEF Successive
      <3>4. Rested(i)
        BY <1>1, <2>6, <3>1, <3>2, <3>3 DEF RestedInv, CommitIssue
      <3> QED
        BY <2>2, <2>4, <2>6, <3>1, <3>4 DEF Rested, SameColumns
    <2> QED
      BY <2>5, <2>6
  <1>2. CASE ~ \E w \in Workers : CommitIssue(w)
    <2>1. SameOrder
      BY <1>2, OrderKept
    <2>2. Successive(i, j) /\ Issued(i)
      <3>1. Successive(i, j)
        BY <2>1 DEF SameOrder, Successive, SameSlot, Belongs, SameColumns, Issued
      <3> QED
        BY <1>0, <3>1, RowTypes DEF Successive, RowInv, Issued
    <2>3. accepts'[i] >= accepts[i] /\ accepts'[i] \in Nat
      BY <2>2, RowsKept, StepType DEF Kept, TypeOK
    <2> QED
      BY <1>0, <2>1, <2>2, <2>3 DEF CooldownKept, SameOrder, SameColumns
  <1> QED
    BY <1>1, <1>2

-----------------------------------------------------------------------------
(* Invariance *)

LEMMA InitIInv == Init => IInv
  <1> SUFFICES ASSUME Init PROVE IInv
    OBVIOUS
  <1>1. TypeOK
    BY InitType
  <1>2. /\ \A i \in Ids : i \in Nat /\ i > 0
        /\ \A i \in Ids : otp[i] = FreeOtp /\ guesses[i] = 0 /\ accepts[i] = 0
        /\ last = 0
        /\ \A w \in Workers : pc[w] = "idle"
    BY DEF Init, Ids
  <1>3. RowInv
    BY <1>2, BoundAssumption DEF RowInv, Issued, Live, FreeOtp
  <1>4. NewestInv
    BY <1>2 DEF NewestInv, Live, FreeOtp
  <1>5. WorkerInv /\ LockInv /\ RestedInv
    BY <1>2 DEF WorkerInv, HoldsItsCode, LockInv, RestedInv
  <1>6. AcceptedInv
    BY <1>2 DEF Init, AcceptedInv, Account
  <1>7. CooldownKept
    BY <1>2 DEF CooldownKept, Successive, FreeOtp
  <1> QED
    BY <1>1, <1>3, <1>4, <1>5, <1>6, <1>7 DEF IInv

LEMMA StepIInv == IInv /\ [Next]_vars => IInv'
  <1> SUFFICES ASSUME IInv, [Next]_vars PROVE IInv'
    OBVIOUS
  <1>1. CASE Next
    BY <1>1, StepType, RowStep, NewestStep, WorkerStep, AcceptedStep, LockStep,
       RestedStep, CooldownStep DEF IInv
  <1>2. CASE UNCHANGED vars
    <2>1. TypeOK'
      BY <1>2 DEF IInv, TypeOK, vars
    <2>2. RowInv' /\ NewestInv' /\ CooldownKept'
      BY <1>2 DEF IInv, RowInv, NewestInv, CooldownKept, Successive, Newest, Issued,
                  Live, SameSlot, Belongs, vars
    <2>3. WorkerInv' /\ AcceptedInv' /\ LockInv'
      BY <1>2 DEF IInv, WorkerInv, HoldsItsCode, AcceptedInv, LockInv, Belongs, vars
    <2>4. RestedInv'
      BY <1>2 DEF IInv, RestedInv, Rested, Issued, Newest, SameSlot, Belongs, vars
    <2> QED
      BY <2>1, <2>2, <2>3, <2>4 DEF IInv
  <1> QED
    BY <1>1, <1>2

(* The inductive invariant holds in every reachable state. *)
THEOREM Invariance == Spec => []IInv
  BY InitIInv, StepIInv, PTL DEF Spec

-----------------------------------------------------------------------------
(* Safety *)

(* Every reachable state is typed: the rows, requests and instances are    *)
(* what models/email_otp.py and the views declare.                         *)
THEOREM TypeCorrect == Spec => []TypeOK
  BY Invariance, PTL DEF IInv

(* However requests for a code overlap, at most one code per account and   *)
(* purpose can be accepted.                                                *)
THEOREM OneLiveCodeHolds == Spec => []OneLiveCode
  <1>1. IInv => OneLiveCode
    <2> SUFFICES ASSUME IInv, NEW i \in Ids, NEW j \in Ids,
                        Live(i), Live(j), SameSlot(i, j)
                 PROVE  i = j
      BY DEF OneLiveCode
    <2>1. i <= j
      BY DEF IInv, NewestInv, Newest, Live, Issued
    <2>2. j <= i
      BY DEF IInv, NewestInv, Newest, Live, Issued, SameSlot, Belongs
    <2> QED
      BY <2>1, <2>2 DEF Ids
  <1> QED
    BY <1>1, Invariance, PTL

(* A code is accepted once, however many requests present it at once: the  *)
(* consuming UPDATE of verify_otp() finds one row live.                    *)
THEOREM SingleUseHolds == Spec => []SingleUse
  <1>1. IInv => SingleUse
    BY DEF IInv, RowInv, SingleUse
  <1> QED
    BY <1>1, Invariance, PTL

(* No code is compared with more guesses than OTP_MAX_ATTEMPTS.            *)
THEOREM GuessesBoundedHolds == Spec => []GuessesBounded
  <1>1. IInv => GuessesBounded
    BY DEF IInv, RowInv, GuessesBounded
  <1> QED
    BY <1>1, Invariance, PTL

(* A request that comes after a code's expiry is not accepted with it.     *)
THEOREM NoExpiredCodeHolds == Spec => []NoExpiredCode
  <1>1. IInv => NoExpiredCode
    BY DEF IInv, WorkerInv, HoldsItsCode, NoExpiredCode
  <1> QED
    BY <1>1, Invariance, PTL

(* Requests for a code that overlap cannot get around the cooldown.        *)
THEOREM CooldownHolds == Spec => []CooldownKept
  BY Invariance, PTL DEF IInv

(* The code that is accepted is the newest of its slot, although it was    *)
(* looked up without a lock.                                               *)
THEOREM OnlyNewestHolds == Spec => OnlyNewestAccepted
  <1> DEFINE P == \A i \in Ids : accepts'[i] # accepts[i]
                     => \A j \in Ids : otp[j].state # "free" /\ SameSlot(j, i) => j <= i
  <1>1. IInv /\ [Next]_vars => [P]_vars
    <2> SUFFICES ASSUME IInv, Next, NEW i \in Ids, accepts'[i] # accepts[i]
                 PROVE  Newest(i)
      BY DEF Newest, Issued
    <2>1. PICK w \in Workers : Consume(w)
      BY RowSteps DEF rows, Tick, history, CommitIssue, Claim, Purge
    <2>2. i = inst[w].id /\ Live(i)
      BY <2>1, ConsumeRows DEF IInv
    <2> QED
      BY <2>2 DEF IInv, NewestInv
  <1>2. Spec => [][P]_vars
    BY <1>1, Invariance, PTL DEF Spec
  <1> QED
    BY <1>2 DEF OnlyNewestAccepted

(* A password is set with an accepted reset code of its account, and a     *)
(* code sets one password.                                                 *)
THEOREM PasswordHolds == Spec => PasswordNeedsCode
  <1> DEFINE P == \A u \in Users :
                    account'[u].password # account[u].password
                      => LET i == account'[u].password IN
                            /\ Belongs(i, u, "reset_password")
                            /\ accepts[i] = 1
                            /\ \A v \in Users : account[v].password # i
  <1>1. IInv /\ [Next]_vars => [P]_vars
    <2> SUFFICES ASSUME IInv, Next, NEW u \in Users,
                        account'[u].password # account[u].password
                 PROVE  LET i == account'[u].password IN
                            /\ Belongs(i, u, "reset_password")
                            /\ accepts[i] = 1
                            /\ \A v \in Users : account[v].password # i
      OBVIOUS
    <2>1. PICK w \in Workers : InsertUser(w) \/ SetVerified(w) \/ SetPassword(w)
      BY DEF Next, Arrive, Issue, Check, TakeUser, RefuseUser, CommitIssue, SendMail,
             MailFails, SkipPurge, Purge, Lookup, Claim, Consume, WeakPassword, Crash,
             Tick, tables
    <2>2. req[w].user \in Users /\ \A v \in Users : account[v] \in Account
      BY <2>1, RequestShape
      DEF IInv, WorkerInv, HoldsItsCode, TypeOK, InsertUser, SetVerified, SetPassword
    <2>3. SetPassword(w) /\ u = req[w].user
      BY <2>1, <2>2 DEF InsertUser, SetVerified, SetPassword, IInv, TypeOK, Account
    <2>4. account'[u].password = inst[w].id
      BY <2>2, <2>3 DEF SetPassword, IInv, TypeOK, Account
    <2>5. PurposeOf(req[w].op) = "reset_password" /\ pc[w] = "accepted"
      BY <2>3 DEF SetPassword, PurposeOf
    <2> QED
      BY <2>3, <2>4, <2>5 DEF IInv, WorkerInv, HoldsItsCode, AcceptedInv
  <1>2. Spec => [][P]_vars
    BY <1>1, Invariance, PTL DEF Spec
  <1> QED
    BY <1>2 DEF PasswordNeedsCode

-----------------------------------------------------------------------------
(* Refinement *)

LiveAt(i, s) == Live(i) /\ Belongs(i, s[1], s[2])

(* What the mapped variables say of the rows. *)
MapFacts ==
    \A s \in Slots :
        /\ \A i \in Ids : LiveMap[s] = i <=> LiveAt(i, s)
        /\ LiveMap[s] \in Ids \cup {NoId}
        /\ TriesMap[s] = IF LiveMap[s] = NoId THEN 0 ELSE otp[LiveMap[s]].attempts

LEMMA MapsRead == IInv => MapFacts
  <1> SUFFICES ASSUME IInv, NEW s \in Slots
               PROVE  /\ \A i \in Ids : LiveMap[s] = i <=> LiveAt(i, s)
                      /\ LiveMap[s] \in Ids \cup {NoId}
                      /\ TriesMap[s] = IF LiveMap[s] = NoId THEN 0
                                       ELSE otp[LiveMap[s]].attempts
    BY DEF MapFacts
  <1>1. \A i \in Ids : i # NoId
    BY DEF Ids, NoId
  <1>2. LiveIn(s) = {i \in Ids : LiveAt(i, s)}
    BY DEF LiveIn, LiveAt
  <1>3. \A i, j \in Ids : LiveAt(i, s) /\ LiveAt(j, s) => i = j
    <2>1. \A i, j \in Ids : LiveAt(i, s) /\ LiveAt(j, s) => i <= j
      BY DEF IInv, NewestInv, Newest, LiveAt, Live, Issued, SameSlot, Belongs
    <2> QED
      BY <2>1 DEF Ids
  <1>4. CASE LiveIn(s) = {}
    BY <1>1, <1>2, <1>4 DEF LiveMap, TriesMap
  <1>5. ASSUME NEW i \in LiveIn(s)
        PROVE  LiveMap[s] = i /\ TriesMap[s] = otp[i].attempts
    <2>1. (CHOOSE j \in LiveIn(s) : TRUE) = i
      BY <1>2, <1>3, <1>5
    <2>2. LiveMap[s] = i
      BY <1>5, <2>1 DEF LiveMap
    <2> QED
      BY <1>5, <2>2 DEF TriesMap
  <1> QED
    BY <1>1, <1>2, <1>3, <1>4, <1>5

(* A slot whose live code stays live and gets no attempt looks the same.   *)
LEMMA SlotKept ==
    ASSUME MapFacts, MapFacts', NEW s \in Slots,
           \A i \in Ids : LiveAt(i, s)' <=> LiveAt(i, s),
           \A i \in Ids : LiveAt(i, s) => otp'[i].attempts = otp[i].attempts
    PROVE  LiveMap'[s] = LiveMap[s] /\ TriesMap'[s] = TriesMap[s]
  <1>1. \A i \in Ids : LiveMap'[s] = i <=> LiveMap[s] = i
    BY DEF MapFacts
  <1>2. LiveMap'[s] \in Ids \cup {NoId} /\ LiveMap[s] \in Ids \cup {NoId}
    BY DEF MapFacts
  <1>3. LiveMap'[s] = LiveMap[s]
    BY <1>1, <1>2
  <1> QED
    BY <1>2, <1>3 DEF MapFacts

(* A step that writes one slot writes the mapped variables there. *)
LEMMA SlotWritten ==
    ASSUME NEW s \in Slots, NEW x, NEW y, LiveMap'[s] = x, TriesMap'[s] = y,
           \A t \in Slots \ {s} : LiveMap'[t] = LiveMap[t] /\ TriesMap'[t] = TriesMap[t]
    PROVE  /\ LiveMap' = [LiveMap EXCEPT ![s] = x]
           /\ TriesMap' = [TriesMap EXCEPT ![s] = y]
  <1> DEFINE f == LiveMap  g == TriesMap
  <1>1. /\ f = [t \in Slots |-> f[t]] /\ f' = [t \in Slots |-> f'[t]]
        /\ g = [t \in Slots |-> g[t]] /\ g' = [t \in Slots |-> g'[t]]
    BY DEF LiveMap, TriesMap
  <1> HIDE DEF f, g
  <1>2. /\ f'[s] = x /\ g'[s] = y
        /\ \A t \in Slots \ {s} : f'[t] = f[t] /\ g'[t] = g[t]
    BY DEF f, g
  <1>3. f' = [f EXCEPT ![s] = x] /\ g' = [g EXCEPT ![s] = y]
    BY <1>1, <1>2
  <1> QED
    BY <1>3 DEF f, g

LEMMA SlotsKept ==
    ASSUME \A t \in Slots : LiveMap'[t] = LiveMap[t] /\ TriesMap'[t] = TriesMap[t]
    PROVE  LiveMap' = LiveMap /\ TriesMap' = TriesMap
  <1> DEFINE f == LiveMap  g == TriesMap
  <1>1. /\ f = [t \in Slots |-> f[t]] /\ f' = [t \in Slots |-> f'[t]]
        /\ g = [t \in Slots |-> g[t]] /\ g' = [t \in Slots |-> g'[t]]
    BY DEF LiveMap, TriesMap
  <1> HIDE DEF f, g
  <1>2. \A t \in Slots : f'[t] = f[t] /\ g'[t] = g[t]
    BY DEF f, g
  <1>3. f' = f /\ g' = g
    BY <1>1, <1>2
  <1> QED
    BY <1>3 DEF f, g

IssuedIds == {i \in Ids : otp[i].state # "free"}
SpentIds == {i \in Ids : accepts[i] > 0}

(* A live code is in one slot. *)
LEMMA OneSlot ==
    ASSUME TypeOK, RowInv, NEW i \in Ids, Issued(i)
    PROVE  /\ <<otp[i].user, otp[i].purpose>> \in Slots
           /\ \A t \in Slots : Belongs(i, t[1], t[2])
                 <=> t = <<otp[i].user, otp[i].purpose>>
  <1>1. otp[i].user \in Users /\ otp[i].purpose \in Purpose
    <2>1. otp[i] \in Otp
      BY DEF TypeOK
    <2> QED
      BY <2>1 DEF RowInv, Otp
  <1> QED
    BY <1>1 DEF Slots, Belongs

(* A step that writes no row and accepts no code is invisible. *)
LEMMA StutterRefines ==
    ASSUME UNCHANGED <<otp, accepts>>
    PROVE  UNCHANGED Service!vars
  <1>1. LiveMap' = LiveMap /\ TriesMap' = TriesMap
    BY DEF LiveMap, TriesMap, LiveIn, Live, Belongs
  <1> QED
    BY <1>1 DEF Service!vars

LEMMA CommitIssueRefines ==
    ASSUME IInv, IInv', MapFacts, MapFacts', NEW w \in Workers, CommitIssue(w)
    PROVE  \E s \in Slots : \E i \in Ids : Service!Issue(s, i)
  <1>1. PICK n \in Ids, u \in Users, p \in Purpose :
            n = last + 1 /\ u = req[w].user /\ p = PurposeOf(req[w].op)
    BY CommitIssueRows, RequestShape, PurposeType
    DEF IInv, WorkerInv, HoldsItsCode, CommitIssue
  <1>2. /\ ~Issued(n) /\ accepts' = accepts
        /\ \A i \in Ids \ {n} :
              /\ SameColumns(otp'[i], otp[i]) /\ otp'[i].attempts = otp[i].attempts
              /\ IF Live(i) /\ Belongs(i, u, p)
                 THEN otp'[i].state = "consumed"
                 ELSE otp'[i].state = otp[i].state
    BY <1>1, CommitIssueRows DEF IInv
  <1>3. PICK code \in Codes : otp'[n] = NewOtp(req[w], code)
    BY <1>1, CommitIssueRows DEF IInv
  <1>4. /\ otp'[n].state = "live" /\ otp'[n].user = u /\ otp'[n].purpose = p
        /\ otp'[n].attempts = 0
    BY <1>1, <1>3 DEF NewOtp
  <1>5. PICK s \in Slots : s[1] = u /\ s[2] = p
    <2>1. <<u, p>> \in Slots /\ <<u, p>>[1] = u /\ <<u, p>>[2] = p
      BY DEF Slots
    <2> QED
      BY <2>1
  <1>6. LiveMap'[s] = n /\ TriesMap'[s] = 0
    <2>1. LiveAt(n, s)'
      BY <1>4, <1>5 DEF LiveAt, Live, Belongs
    <2>2. LiveMap'[s] = n
      BY <2>1 DEF MapFacts
    <2> QED
      BY <1>4, <2>2 DEF MapFacts, NoId, Ids
  <1>7. ASSUME NEW t \in Slots \ {s}
        PROVE  LiveMap'[t] = LiveMap[t] /\ TriesMap'[t] = TriesMap[t]
    <2>1. ~(t[1] = u /\ t[2] = p)
      BY <1>5, <1>7 DEF Slots
    <2>2. \A i \in Ids : LiveAt(i, t)' <=> LiveAt(i, t)
      <3>1. ~LiveAt(n, t)' /\ ~LiveAt(n, t)
        BY <1>2, <1>4, <2>1 DEF LiveAt, Live, Issued, Belongs
      <3>2. \A i \in Ids \ {n} : LiveAt(i, t)' <=> LiveAt(i, t)
        BY <1>2, <2>1 DEF LiveAt, Live, Belongs, SameColumns
      <3> QED
        BY <3>1, <3>2
    <2>3. \A i \in Ids : LiveAt(i, t) => otp'[i].attempts = otp[i].attempts
      BY <1>2 DEF LiveAt, Live, Issued
    <2> QED
      BY <2>2, <2>3, SlotKept
  <1>8. /\ LiveMap' = [LiveMap EXCEPT ![s] = n]
        /\ TriesMap' = [TriesMap EXCEPT ![s] = 0]
    BY <1>6, <1>7, SlotWritten
  <1>9. /\ n \notin IssuedIds /\ IssuedIds' = IssuedIds \cup {n}
        /\ SpentIds' = SpentIds
    BY <1>2, <1>4 DEF IssuedIds, SpentIds, Issued, Live
  <1>10. Service!Issue(s, n)
    BY <1>8, <1>9 DEF Service!Issue, IssuedIds, SpentIds
  <1> QED
    BY <1>10

LEMMA ClaimRefines ==
    ASSUME IInv, IInv', MapFacts, MapFacts', NEW w \in Workers, Claim(w)
    PROVE  (\E s \in Slots : Service!Guess(s)) \/ UNCHANGED Service!vars
  <1>1. PICK i \in Ids : i = inst[w].id
    BY ClaimRows DEF IInv
  <1>2. /\ accepts' = accepts
        /\ \A j \in Ids \ {i} : otp'[j] = otp[j]
    BY <1>1, ClaimRows DEF IInv
  <1>3. CASE otp'[i] = otp[i]
    <2>1. otp \in [Ids -> Otp] /\ otp' \in [Ids -> Otp]
      BY DEF IInv, TypeOK
    <2>2. otp' = otp
      BY <1>2, <1>3, <2>1
    <2> QED
      BY <1>2, <2>2, StutterRefines
  <1>4. CASE otp'[i] # otp[i]
    <2>1. /\ Live(i) /\ otp[i].attempts < MaxAttempts
          /\ SameColumns(otp'[i], otp[i]) /\ otp'[i].state = otp[i].state
          /\ otp'[i].attempts = otp[i].attempts + 1
      BY <1>1, <1>4, ClaimRows DEF IInv
    <2>2. PICK s \in Slots : /\ Belongs(i, s[1], s[2])
                             /\ \A t \in Slots : Belongs(i, t[1], t[2]) => t = s
      BY <2>1, OneSlot DEF IInv, Live, Issued
    <2>3. \A t \in Slots : \A j \in Ids : LiveAt(j, t)' <=> LiveAt(j, t)
      BY <1>2, <2>1 DEF LiveAt, Live, Belongs, SameColumns
    <2>4. LiveMap[s] = i /\ TriesMap[s] = otp[i].attempts
      BY <2>1, <2>2 DEF MapFacts, LiveAt, NoId, Ids
    <2>5. LiveMap'[s] = i /\ TriesMap'[s] = otp[i].attempts + 1
      <3>1. LiveAt(i, s)'
        BY <2>1, <2>2, <2>3 DEF LiveAt
      <3> QED
        BY <2>1, <3>1 DEF MapFacts, NoId, Ids
    <2>6. ASSUME NEW t \in Slots \ {s}
          PROVE  LiveMap'[t] = LiveMap[t] /\ TriesMap'[t] = TriesMap[t]
      <3>1. ~LiveAt(i, t)
        BY <2>2 DEF LiveAt
      <3> QED
        BY <1>2, <2>3, <3>1, SlotKept
    <2>7. /\ LiveMap' = [LiveMap EXCEPT ![s] = i]
          /\ TriesMap' = [TriesMap EXCEPT ![s] = otp[i].attempts + 1]
      BY <2>5, <2>6, SlotWritten
    <2>8. LiveMap' = LiveMap
      <3>1. \A t \in Slots : LiveMap'[t] = LiveMap[t]
        BY <2>4, <2>5, <2>6
      <3> QED
        BY <2>4, <2>7, <3>1 DEF LiveMap
    <2>9. IssuedIds' = IssuedIds /\ SpentIds' = SpentIds
      BY <1>2, <2>1 DEF IssuedIds, SpentIds
    <2>10. LiveMap[s] # NoId /\ TriesMap[s] < MaxAttempts
      BY <2>1, <2>4 DEF NoId, Ids
    <2>11. TriesMap' = [TriesMap EXCEPT ![s] = TriesMap[s] + 1]
      BY <2>4, <2>7
    <2>12. Service!Guess(s)
      BY <2>8, <2>9, <2>10, <2>11 DEF Service!Guess, IssuedIds, SpentIds
    <2> QED
      BY <2>12
  <1> QED
    BY <1>3, <1>4

LEMMA ConsumeRefines ==
    ASSUME IInv, IInv', MapFacts, MapFacts', NEW w \in Workers, Consume(w)
    PROVE  (\E s \in Slots : Service!Accept(s)) \/ UNCHANGED Service!vars
  <1>1. PICK i \in Ids : i = inst[w].id
    BY ConsumeRows DEF IInv
  <1>2. \A j \in Ids \ {i} : otp'[j] = otp[j] /\ accepts'[j] = accepts[j]
    BY <1>1, ConsumeRows DEF IInv
  <1>3. CASE otp'[i] = otp[i] /\ accepts'[i] = accepts[i]
    <2>1. /\ otp \in [Ids -> Otp] /\ otp' \in [Ids -> Otp]
          /\ accepts \in [Ids -> Nat] /\ accepts' \in [Ids -> Nat]
      BY DEF IInv, TypeOK
    <2>2. otp' = otp /\ accepts' = accepts
      BY <1>2, <1>3, <2>1
    <2> QED
      BY <2>2, StutterRefines
  <1>4. CASE ~(otp'[i] = otp[i] /\ accepts'[i] = accepts[i])
    <2>1. /\ Live(i) /\ otp'[i].state = "consumed"
          /\ SameColumns(otp'[i], otp[i]) /\ otp'[i].attempts = otp[i].attempts
          /\ accepts'[i] = accepts[i] + 1
      BY <1>1, <1>4, ConsumeRows DEF IInv
    <2>2. PICK s \in Slots : /\ Belongs(i, s[1], s[2])
                             /\ \A t \in Slots : Belongs(i, t[1], t[2]) => t = s
      BY <2>1, OneSlot DEF IInv, Live, Issued
    <2>3. accepts[i] = 0 /\ accepts'[i] = 1
      BY <2>1 DEF IInv, RowInv
    <2>4. otp[i].attempts > 0
      <3>1. pc[w] = "matched"
        BY DEF Consume
      <3> QED
        BY <1>1, <3>1 DEF IInv, WorkerInv, HoldsItsCode
    <2>5. LiveMap[s] = i /\ TriesMap[s] = otp[i].attempts /\ i # NoId
      BY <2>1, <2>2 DEF MapFacts, LiveAt, NoId, Ids
    <2>6. LiveMap'[s] = NoId /\ TriesMap'[s] = 0
      <3>1. \A j \in Ids : ~LiveAt(j, s)'
        <4>1. ~LiveAt(i, s)'
          BY <2>1 DEF LiveAt, Live
        <4>2. \A j \in Ids \ {i} : ~LiveAt(j, s)
          BY <2>5 DEF MapFacts
        <4> QED
          BY <1>2, <4>1, <4>2 DEF LiveAt, Live, Belongs
      <3>2. LiveMap'[s] = NoId
        BY <3>1 DEF MapFacts
      <3> QED
        BY <3>2 DEF MapFacts
    <2>7. ASSUME NEW t \in Slots \ {s}
          PROVE  LiveMap'[t] = LiveMap[t] /\ TriesMap'[t] = TriesMap[t]
      <3>1. ~LiveAt(i, t) /\ ~LiveAt(i, t)'
        BY <2>1, <2>2 DEF LiveAt, Live
      <3>2. \A j \in Ids : LiveAt(j, t)' <=> LiveAt(j, t)
        BY <1>2, <3>1 DEF LiveAt, Live, Belongs
      <3> QED
        BY <1>2, <3>1, <3>2, SlotKept
    <2>8. /\ LiveMap' = [LiveMap EXCEPT ![s] = NoId]
          /\ TriesMap' = [TriesMap EXCEPT ![s] = 0]
      BY <2>6, <2>7, SlotWritten
    <2>9. /\ IssuedIds' = IssuedIds /\ SpentIds' = SpentIds \cup {i} /\ i \notin SpentIds
      BY <1>2, <2>1, <2>3 DEF IssuedIds, SpentIds, Live
    <2>10. Service!Accept(s)
      BY <2>4, <2>5, <2>8, <2>9 DEF Service!Accept, IssuedIds, SpentIds
    <2> QED
      BY <2>10
  <1> QED
    BY <1>3, <1>4

LEMMA PurgeRefines ==
    ASSUME IInv, IInv', MapFacts, MapFacts', NEW w \in Workers, Purge(w)
    PROVE  Service!Purge
  <1>1. /\ accepts' = accepts
        /\ \A i \in Ids : \/ otp'[i] = otp[i]
                          \/ /\ Issued(i) /\ otp'[i].state = "purged"
                             /\ SameColumns(otp'[i], otp[i])
                             /\ otp'[i].attempts = otp[i].attempts
    BY PurgeRows DEF IInv
  <1> DEFINE S == {s \in Slots : LiveMap'[s] = NoId}
  <1>2. ASSUME NEW s \in Slots \ S
        PROVE  LiveMap'[s] = LiveMap[s] /\ TriesMap'[s] = TriesMap[s]
    <2>1. PICK i \in Ids : LiveMap'[s] = i
      BY <1>2 DEF MapFacts
    <2>2. LiveAt(i, s)'
      BY <2>1 DEF MapFacts
    <2>3. LiveAt(i, s) /\ otp'[i] = otp[i]
      BY <1>1, <2>2 DEF LiveAt, Live, Belongs
    <2>4. LiveMap[s] = i
      BY <2>3 DEF MapFacts
    <2> QED
      BY <2>1, <2>3, <2>4 DEF MapFacts
  <1>3. ASSUME NEW s \in S
        PROVE  LiveMap'[s] = NoId /\ TriesMap'[s] = 0
    BY <1>3 DEF MapFacts
  <1>4. /\ LiveMap' = [s \in Slots |-> IF s \in S THEN NoId ELSE LiveMap[s]]
        /\ TriesMap' = [s \in Slots |-> IF s \in S THEN 0 ELSE TriesMap[s]]
    <2> DEFINE f == LiveMap  g == TriesMap
    <2>1. f' = [t \in Slots |-> f'[t]] /\ g' = [t \in Slots |-> g'[t]]
      BY DEF LiveMap, TriesMap
    <2>2. /\ \A s \in Slots \ S : f'[s] = f[s] /\ g'[s] = g[s]
          /\ \A s \in S : f'[s] = NoId /\ g'[s] = 0
      BY <1>2, <1>3
    <2> HIDE DEF f, g, S
    <2>3. /\ f' = [s \in Slots |-> IF s \in S THEN NoId ELSE f[s]]
          /\ g' = [s \in Slots |-> IF s \in S THEN 0 ELSE g[s]]
      BY <2>1, <2>2
    <2> QED
      BY <2>3 DEF f, g
  <1>5. IssuedIds' = IssuedIds /\ SpentIds' = SpentIds
    BY <1>1 DEF IssuedIds, SpentIds, Issued
  <1>6. S \in SUBSET Slots
    OBVIOUS
  <1> HIDE DEF S
  <1> QED
    BY <1>4, <1>5, <1>6 DEF Service!Purge, IssuedIds, SpentIds

(* Interleaved, failing and killed requests implement OneTimeCode: one     *)
(* code per account and purpose, a bounded number of guesses, one          *)
(* acceptance, which is of the current code.                               *)
THEOREM Refinement == Spec => OneTimeCodeSpec
  <1>1. Init => Service!Init
    <2> SUFFICES ASSUME Init PROVE Service!Init
      OBVIOUS
    <2>1. \A i \in Ids : ~Live(i) /\ otp[i].state = "free" /\ accepts[i] = 0
      BY DEF Init, Live, FreeOtp
    <2>2. \A s \in Slots : LiveIn(s) = {}
      BY <2>1 DEF LiveIn
    <2>3. /\ LiveMap = [s \in Slots |-> NoId] /\ TriesMap = [s \in Slots |-> 0]
      BY <2>2 DEF LiveMap, TriesMap
    <2>4. IssuedIds = {} /\ SpentIds = {}
      BY <2>1 DEF IssuedIds, SpentIds
    <2> QED
      BY <2>3, <2>4 DEF Service!Init, IssuedIds, SpentIds
  <1>2. MapFacts /\ MapFacts' /\ IInv /\ IInv' /\ [Next]_vars
            => [Service!Next]_(Service!vars)
    <2> SUFFICES ASSUME MapFacts, MapFacts', IInv, IInv', [Next]_vars
                 PROVE  Service!Next \/ UNCHANGED Service!vars
      OBVIOUS
    <2>1. CASE UNCHANGED <<otp, accepts>>
      BY <2>1, StutterRefines
    <2>2. CASE \E w \in Workers : CommitIssue(w) \/ Claim(w) \/ Consume(w) \/ Purge(w)
      BY <2>2, CommitIssueRefines, ClaimRefines, ConsumeRefines, PurgeRefines
      DEF Service!Next
    <2> QED
      BY <2>1, <2>2, RowSteps DEF vars, rows, Tick, tables, history
  <1> QED
    BY <1>1, <1>2, MapsRead, StepIInv, Invariance, PTL
    DEF Spec, OneTimeCodeSpec, Service!Spec

=============================================================================
