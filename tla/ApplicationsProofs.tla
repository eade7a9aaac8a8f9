------------------------- MODULE ApplicationsProofs -------------------------
(***************************************************************************)
(* Theorems about Applications, for every number of users, applications,   *)
(* documents and workers, and every bound.                                 *)
(***************************************************************************)
EXTENDS Applications, FiniteSetTheorems, TLAPS

-----------------------------------------------------------------------------
(* Requests and rows *)

(* What the components of a request are. *)
LEMMA RequestShape ==
    ASSUME NEW r \in Request
    PROVE  /\ r.user \in Users
           /\ r.app \in Apps
           /\ r.op \in {"create", "update", "submit", "upload", "remove", "review"}
           /\ r.op = "create" => r.arg \in Form
           /\ r.op = "update" => r.arg \in Fields \X Values
           /\ r.op \in {"upload", "remove"} => r.arg \in Docs
           /\ r.op = "review" => r.arg \in Decisions
  BY DEF Request

(* The row of an application that does not exist is typed like any other.  *)
LEMMA AbsentRowType == AbsentRow \in Row
  <1>1. (CHOOSE v \in Values : TRUE) \in Values
    BY FieldAssumption
  <1> QED
    BY <1>1 DEF AbsentRow, Row, Status, Form

(* A decision names a status a review may set. *)
LEMMA OutcomeType ==
    ASSUME NEW d \in Decisions
    PROVE  Outcome[d] \in {"approved", "rejected", "resubmission_requested"}
  BY DEF Decisions, Outcome

-----------------------------------------------------------------------------
(* The inductive invariant *)

Holds(w) == pc[w] \in {"locked", "stored"}

(* Where a worker stands determines what it may be serving. *)
StageInv ==
    \A w \in Workers :
        /\ pc[w] # "idle" => req[w] \in Request
        /\ pc[w] = "idle" => req[w] = NoRequest
        /\ pc[w] \in {"read", "locked", "stored", "hook", "cleanup"}
               => req[w].op # "create"
        /\ pc[w] \in {"stored", "cleanup"} => req[w].op = "upload"
        /\ pc[w] = "hook" => req[w].op = "remove"

(* A row is locked by exactly the worker whose transaction is on it. *)
LockInv ==
    \A a \in Apps, w \in Workers :
        lock[a] = w <=> (Holds(w) /\ req[w].app = a)

(* What a request checked when it got the row still holds. *)
CheckedInv ==
    \A w \in Workers :
        Holds(w) => Admissible(req[w], rows[req[w].app], docs[req[w].app])

(* An application being created does not exist yet, under this or any      *)
(* other request.                                                          *)
CreateInv ==
    \A w \in Workers : req[w].op = "create" =>
        /\ rows[req[w].app].status = "absent"
        /\ \A v \in Workers \ {w} :
              req[v].op = "create" => req[v].app # req[w].app

(* A stale instance is editable, and its owner is the row's. *)
SnapInv ==
    \A w \in Workers :
        pc[w] \in {"read", "locked"} /\ req[w].op = "update" =>
            /\ snap[w].status \in Editable
            /\ snap[w].owner = rows[req[w].app].owner
            /\ rows[req[w].app].status # "absent"

IInv == TypeOK /\ StageInv /\ LockInv /\ CheckedInv /\ CreateInv /\ SnapInv

-----------------------------------------------------------------------------
(* Type correctness *)

(* The initial state is typed. *)
LEMMA InitType == Init => TypeOK
  <1> SUFFICES ASSUME Init PROVE TypeOK
    OBVIOUS
  <1> QED
    BY AbsentRowType, UserAssumption DEF Init, TypeOK, Stage

(* The ways a step ends keep the types of what they write. *)
LEMMA AnswerType ==
    ASSUME TypeOK, NEW w \in Workers, Answer(w)
    PROVE  /\ pc' \in [Workers -> Stage]
           /\ req' \in [Workers -> Request \cup {NoRequest}]
           /\ snap' \in [Workers -> Row]
  BY AbsentRowType DEF TypeOK, Answer, Stage

LEMMA GotoType ==
    ASSUME TypeOK, NEW w \in Workers, NEW label \in Stage, Goto(w, label)
    PROVE  /\ pc' \in [Workers -> Stage]
           /\ req' \in [Workers -> Request \cup {NoRequest}]
           /\ snap' \in [Workers -> Row]
  BY DEF TypeOK, Goto

LEMMA UnlockType ==
    ASSUME TypeOK, NEW w \in Workers, Unlock(w)
    PROVE  lock' \in [Apps -> Workers \cup {NoWorker}]
  BY DEF TypeOK, Unlock

LEMMA LogType ==
    ASSUME TypeOK, NEW w \in Workers, req[w] \in Request,
           NEW action \in Action, Log(w, action)
    PROVE  audit' \in [Apps -> Seq(Entry)]
  <1>1. [action |-> action, actor |-> req[w].user] \in Entry
    BY RequestShape DEF Entry
  <1>2. req[w].app \in Apps
    BY RequestShape
  <1>3. Append(audit[req[w].app], [action |-> action, actor |-> req[w].user]) \in Seq(Entry)
    BY <1>1, <1>2 DEF TypeOK
  <1> QED
    BY <1>3 DEF TypeOK, Log

(* What the three transactions on a row write is a row. *)
LEMMA CreatedRowType ==
    ASSUME NEW r \in Request, r.op = "create"
    PROVE  [status |-> "draft", owner |-> r.user, form |-> r.arg,
            reviewer |-> NoUser] \in Row
  BY RequestShape DEF Row, Status, Editable

LEMMA SavedRowType ==
    ASSUME TypeOK, NEW w \in Workers, req[w] \in Request, req[w].op = "update"
    PROVE  SavedRow(w) \in Row
  <1>1. snap[w] \in Row /\ snap[w].form \in [Fields -> Values]
    BY DEF TypeOK, Row, Form
  <1>2. req[w].arg[1] \in Fields /\ req[w].arg[2] \in Values
    BY RequestShape
  <1>3. [snap[w].form EXCEPT ![req[w].arg[1]] = req[w].arg[2]] \in [Fields -> Values]
    BY <1>1, <1>2
  <1> QED
    BY <1>1, <1>3 DEF SavedRow, Row, Form

LEMMA StatusRowType ==
    ASSUME NEW row \in Row, NEW s \in Status
    PROVE  [row EXCEPT !.status = s] \in Row
  BY DEF Row

LEMMA ReviewedRowType ==
    ASSUME NEW row \in Row, NEW s \in Status, NEW u \in Users
    PROVE  [row EXCEPT !.status = s, !.reviewer = u] \in Row
  BY DEF Row

(* A worker that takes a step of a request is serving one. *)
LEMMA Busy ==
    ASSUME TypeOK, StageInv, NEW w \in Workers,
           Advance(w) \/ GetRow(w) \/ Fail(w)
    PROVE  pc[w] # "idle" /\ req[w] \in Request
  BY DEF StageInv, TypeOK, Advance, GetRow, Fail, Create, GetObject, CommitUpdate,
         CommitSubmit, CommitReview, StoreFile, CommitUpload, CommitRemove, DropFile,
         TakeRow, RefuseRow, Abort, DropFails, Crash

(* Every step keeps the types; the stages say which argument a request     *)
(* carries.                                                                *)
LEMMA NextType == TypeOK /\ StageInv /\ [Next]_vars => TypeOK'
  <1> SUFFICES ASSUME TypeOK, StageInv, [Next]_vars
               PROVE  TypeOK'
    OBVIOUS
  <1> USE AbsentRowType
  <1>1. CASE UNCHANGED vars
    BY <1>1 DEF TypeOK, vars
  <1>2. ASSUME NEW w \in Workers, Arrive(w)
        PROVE  TypeOK'
    BY <1>2 DEF TypeOK, Arrive, Stage, db
  <1>3. ASSUME NEW w \in Workers, Advance(w) \/ GetRow(w) \/ Fail(w)
        PROVE  TypeOK'
    <2>0. pc[w] # "idle" /\ req[w] \in Request
      BY <1>3, Busy
    <2> USE <2>0, RequestShape
    <2>1. CASE Create(w)
      BY <2>1, AnswerType, LogType, CreatedRowType DEF TypeOK, Create, Action
    <2>2. CASE GetObject(w)
      BY <2>2, AnswerType DEF TypeOK, GetObject, Stage, db
    <2>3. CASE CommitUpdate(w)
      BY <2>3, AnswerType, LogType, UnlockType, SavedRowType DEF TypeOK, CommitUpdate, Action
    <2>4. CASE CommitSubmit(w)
      <3>1. [rows[req[w].app] EXCEPT !.status = "submitted"] \in Row
        BY StatusRowType DEF TypeOK, Status
      <3>2. rows' \in [Apps -> Row]
        BY <2>4, <3>1 DEF TypeOK, CommitSubmit
      <3> QED
        BY <2>4, <3>2, AnswerType, LogType, UnlockType DEF TypeOK, CommitSubmit, Action
    <2>5. CASE CommitReview(w)
      <3>0. req[w].arg \in Decisions
        BY <2>5 DEF CommitReview
      <3>1. Outcome[req[w].arg] \in Status /\ Outcome[req[w].arg] \in Action
        BY <3>0, OutcomeType DEF Status, Editable, Closed, Action
      <3>2. [rows[req[w].app] EXCEPT !.status = Outcome[req[w].arg],
                                     !.reviewer = req[w].user] \in Row
        BY <3>1, ReviewedRowType DEF TypeOK
      <3>3. rows' \in [Apps -> Row]
        BY <2>5, <3>2 DEF TypeOK, CommitReview
      <3> QED
        BY <2>5, <3>1, <3>3, AnswerType, LogType, UnlockType DEF TypeOK, CommitReview
    <2>6. CASE StoreFile(w)
      BY <2>6, GotoType DEF TypeOK, StoreFile, Stage, db
    <2>7. CASE CommitUpload(w)
      <3>1. req[w].arg \in Docs
        BY <2>7 DEF StageInv, CommitUpload
      <3>2. docs' \in [Apps -> SUBSET Docs]
        BY <2>7, <3>1 DEF TypeOK, CommitUpload
      <3> QED
        BY <2>7, <3>2, AnswerType, LogType, UnlockType DEF TypeOK, CommitUpload, Action
    <2>8. CASE CommitRemove(w)
      <3>1. docs' \in [Apps -> SUBSET Docs]
        BY <2>8 DEF TypeOK, CommitRemove
      <3> QED
        BY <2>8, <3>1, GotoType, LogType, UnlockType DEF TypeOK, CommitRemove, Action, Stage
    <2>9. CASE DropFile(w)
      BY <2>9, AnswerType DEF TypeOK, DropFile, db
    <2>10. CASE TakeRow(w)
      BY <2>10, GotoType DEF TypeOK, TakeRow, Stage, db
    <2>11. CASE RefuseRow(w)
      BY <2>11, AnswerType DEF TypeOK, RefuseRow, db
    <2>12. CASE Abort(w)
      BY <2>12, AnswerType, GotoType, UnlockType DEF TypeOK, Abort, Stage, db
    <2>13. CASE DropFails(w)
      BY <2>13, AnswerType DEF TypeOK, DropFails, db
    <2>14. CASE Crash(w)
      BY <2>14, AnswerType DEF TypeOK, Crash, db
    <2> QED
      BY <1>3, <2>1, <2>2, <2>3, <2>4, <2>5, <2>6, <2>7, <2>8, <2>9, <2>10, <2>11,
         <2>12, <2>13, <2>14 DEF Advance, GetRow, Fail
  <1>4. ASSUME NEW u \in Users, ChangeRole(u)
        PROVE  TypeOK'
    BY <1>4 DEF TypeOK, ChangeRole, db
  <1> QED
    BY <1>1, <1>2, <1>3, <1>4 DEF Next

-----------------------------------------------------------------------------
(* Stages and locks *)

(* The stage of a request fits its operation, in every next state. *)
LEMMA NextStage == TypeOK /\ StageInv /\ [Next]_vars => StageInv'
  <1> SUFFICES ASSUME TypeOK, StageInv, [Next]_vars
               PROVE  StageInv'
    OBVIOUS
  <1>1. CASE UNCHANGED vars
    BY <1>1 DEF StageInv, vars
  <1>2. ASSUME NEW w \in Workers, Arrive(w)
        PROVE  StageInv'
    BY <1>2 DEF TypeOK, StageInv, Arrive
  <1>3. ASSUME NEW w \in Workers, Advance(w) \/ GetRow(w) \/ Fail(w)
        PROVE  StageInv'
    <2>1. Answer(w) => StageInv'
      BY DEF TypeOK, StageInv, Answer
    <2>2. CASE Create(w) \/ CommitUpdate(w) \/ CommitSubmit(w) \/ CommitReview(w)
               \/ CommitUpload(w) \/ DropFile(w) \/ RefuseRow(w) \/ DropFails(w) \/ Crash(w)
      BY <2>1, <2>2 DEF Create, CommitUpdate, CommitSubmit, CommitReview, CommitUpload,
            DropFile, RefuseRow, DropFails, Crash
    <2>3. CASE GetObject(w)
      BY <2>1, <2>3 DEF TypeOK, StageInv, GetObject
    <2>4. CASE TakeRow(w)
      BY <2>4 DEF TypeOK, StageInv, TakeRow, Goto
    <2>5. CASE StoreFile(w)
      BY <2>5 DEF TypeOK, StageInv, StoreFile, Goto
    <2>6. CASE CommitRemove(w)
      BY <2>6 DEF TypeOK, StageInv, CommitRemove, Goto
    <2>7. CASE Abort(w)
      BY <2>1, <2>7 DEF TypeOK, StageInv, Abort, Goto
    <2> QED
      BY <1>3, <2>2, <2>3, <2>4, <2>5, <2>6, <2>7 DEF Advance, GetRow, Fail
  <1>4. ASSUME NEW u \in Users, ChangeRole(u)
        PROVE  StageInv'
    BY <1>4 DEF StageInv, ChangeRole
  <1> QED
    BY <1>1, <1>2, <1>3, <1>4 DEF Next

(* A row is locked by the worker whose transaction is on it, and by no     *)
(* other.                                                                  *)
LEMMA NextLock == TypeOK /\ StageInv /\ LockInv /\ [Next]_vars => LockInv'
  <1> SUFFICES ASSUME TypeOK, StageInv, LockInv, [Next]_vars
               PROVE  LockInv'
    OBVIOUS
  <1> USE WorkerAssumption DEF Holds
  <1>1. CASE UNCHANGED vars
    BY <1>1 DEF LockInv, vars
  <1>2. ASSUME NEW w \in Workers, Arrive(w)
        PROVE  LockInv'
    BY <1>2 DEF TypeOK, LockInv, Arrive
  <1>3. ASSUME NEW w \in Workers, Advance(w) \/ GetRow(w) \/ Fail(w)
        PROVE  LockInv'
    <2>0. pc[w] # "idle" /\ req[w] \in Request /\ req[w].app \in Apps
      BY <1>3, Busy, RequestShape
    <2>1. Answer(w) /\ Unlock(w) /\ Holds(w) => LockInv'
      BY <2>0 DEF TypeOK, LockInv, Answer, Unlock
    <2>2. Answer(w) /\ UNCHANGED lock /\ ~Holds(w) => LockInv'
      BY <2>0 DEF TypeOK, LockInv, Answer
    <2>3. ASSUME NEW label \in Stage, Goto(w, label), Unlock(w), Holds(w),
                 label \notin {"locked", "stored"}
          PROVE  LockInv'
      BY <2>0, <2>3 DEF TypeOK, LockInv, Goto, Unlock
    <2>4. CASE CommitUpdate(w) \/ CommitSubmit(w) \/ CommitReview(w) \/ CommitUpload(w)
      BY <2>1, <2>4 DEF CommitUpdate, CommitSubmit, CommitReview, CommitUpload
    <2>5. CASE Create(w) \/ DropFile(w) \/ RefuseRow(w) \/ DropFails(w)
      BY <2>2, <2>5 DEF Create, DropFile, RefuseRow, DropFails
    <2>6. CASE GetObject(w)
      BY <2>0, <2>2, <2>6 DEF TypeOK, LockInv, GetObject
    <2>7. CASE TakeRow(w)
      BY <2>0, <2>7 DEF TypeOK, LockInv, TakeRow, Goto
    <2>8. CASE StoreFile(w)
      BY <2>0, <2>8 DEF TypeOK, LockInv, StoreFile, Goto
    <2>9. CASE CommitRemove(w)
      BY <2>3, <2>9 DEF CommitRemove, Stage
    <2>10. CASE Abort(w)
      BY <2>1, <2>3, <2>10 DEF Abort, Stage
    <2>11. CASE Crash(w)
      BY <2>0, <2>11 DEF TypeOK, LockInv, Crash, Answer
    <2> QED
      BY <1>3, <2>4, <2>5, <2>6, <2>7, <2>8, <2>9, <2>10, <2>11 DEF Advance, GetRow, Fail
  <1>4. ASSUME NEW u \in Users, ChangeRole(u)
        PROVE  LockInv'
    BY <1>4 DEF LockInv, ChangeRole
  <1> QED
    BY <1>1, <1>2, <1>3, <1>4 DEF Next

-----------------------------------------------------------------------------
(* What a transaction has checked stays true *)

(* An application with a transaction on it exists. *)
LEMMA HeldExists ==
    ASSUME StageInv, CheckedInv, NEW w \in Workers, Holds(w)
    PROVE  rows[req[w].app].status # "absent"
  BY DEF StageInv, CheckedInv, Holds, Admissible, LockedEditable, Reviewable, Editable

(* A step only changes its own worker's control state. *)
LEMMA OwnControl ==
    ASSUME TypeOK, NEW w \in Workers, NEW v \in Workers, v # w,
           Arrive(w) \/ Advance(w) \/ GetRow(w) \/ Fail(w)
    PROVE  pc'[v] = pc[v] /\ req'[v] = req[v] /\ snap'[v] = snap[v]
  BY DEF TypeOK, Arrive, Advance, GetRow, Fail, Create, GetObject, CommitUpdate, CommitSubmit,
         CommitReview, StoreFile, CommitUpload, CommitRemove, DropFile, TakeRow, RefuseRow,
         Abort, DropFails, Crash, Answer, Goto

(* The tables change only at the application a worker holds, or at one it  *)
(* creates.                                                                *)
LEMMA OwnRow ==
    ASSUME TypeOK, StageInv, NEW w \in Workers,
           Arrive(w) \/ Advance(w) \/ GetRow(w) \/ Fail(w),
           NEW a \in Apps, rows'[a] # rows[a] \/ docs'[a] # docs[a] \/ audit'[a] # audit[a]
    PROVE  /\ a = req[w].app
           /\ \/ Holds(w)
              \/ req[w].op = "create" /\ docs' = docs
  BY DEF TypeOK, db, Holds, Arrive, Advance, GetRow, Fail, Create, GetObject,
         CommitUpdate, CommitSubmit, CommitReview, StoreFile, CommitUpload, CommitRemove,
         DropFile, TakeRow, RefuseRow, Abort, DropFails, Crash, Log

(* A transaction's row and documents change only by its own steps.         *)
LEMMA OthersKeepRow ==
    ASSUME TypeOK, StageInv, LockInv, CheckedInv, CreateInv,
           NEW w \in Workers, NEW v \in Workers, v # w, Holds(v),
           Arrive(w) \/ Advance(w) \/ GetRow(w) \/ Fail(w)
    PROVE  rows'[req[v].app] = rows[req[v].app] /\ docs'[req[v].app] = docs[req[v].app]
  <1>1. req[v].app \in Apps
    BY RequestShape DEF StageInv, Holds
  <1>2. rows[req[v].app].status # "absent"
    BY HeldExists
  <1>3. ~(Holds(w) /\ req[v].app = req[w].app)
    BY <1>1 DEF LockInv
  <1>4. ~(req[w].op = "create" /\ req[v].app = req[w].app)
    BY <1>2 DEF CreateInv
  <1> QED
    BY <1>1, <1>3, <1>4, OwnRow

(* What a request checked when it got the row holds until it gives it up.  *)
LEMMA NextChecked ==
    TypeOK /\ StageInv /\ LockInv /\ CheckedInv /\ CreateInv /\ [Next]_vars
        => CheckedInv'
  <1> SUFFICES ASSUME TypeOK, StageInv, LockInv, CheckedInv, CreateInv, [Next]_vars,
                      NEW v \in Workers, Holds(v)'
               PROVE  Admissible(req'[v], rows'[req'[v].app], docs'[req'[v].app])
    BY DEF CheckedInv
  <1>1. CASE UNCHANGED vars
    BY <1>1 DEF CheckedInv, Holds, vars
  <1>2. ASSUME NEW w \in Workers, Arrive(w) \/ Advance(w) \/ GetRow(w) \/ Fail(w)
        PROVE  Admissible(req'[v], rows'[req'[v].app], docs'[req'[v].app])
    <2>1. CASE v # w
      BY <1>2, <2>1, OwnControl, OthersKeepRow DEF CheckedInv, Holds
    <2>2. CASE v = w
      <3>1. CASE TakeRow(w)
        BY <3>1, <2>2 DEF TypeOK, TakeRow, Goto, db
      <3>2. CASE StoreFile(w)
        BY <3>2, <2>2 DEF TypeOK, StoreFile, Goto, db, CheckedInv, Holds
      <3>3. CASE ~TakeRow(w) /\ ~StoreFile(w)
        BY <3>3, <2>2, <1>2 DEF TypeOK, Holds, Arrive, Advance, GetRow, Fail, Create,
              GetObject, CommitUpdate, CommitSubmit, CommitReview, CommitUpload,
              CommitRemove, DropFile, RefuseRow, Abort, DropFails, Crash, Answer, Goto
      <3> QED
        BY <3>1, <3>2, <3>3
    <2> QED
      BY <2>1, <2>2
  <1>3. ASSUME NEW u \in Users, ChangeRole(u)
        PROVE  Admissible(req'[v], rows'[req'[v].app], docs'[req'[v].app])
    BY <1>3 DEF CheckedInv, Holds, ChangeRole, db
  <1> QED
    BY <1>1, <1>2, <1>3 DEF Next

-----------------------------------------------------------------------------
(* Creations and stale instances *)

(* An application that is being created does not exist until it is.        *)
LEMMA NextCreate ==
    TypeOK /\ StageInv /\ CheckedInv /\ CreateInv /\ [Next]_vars => CreateInv'
  <1> SUFFICES ASSUME TypeOK, StageInv, CheckedInv, CreateInv, [Next]_vars
               PROVE  CreateInv'
    OBVIOUS
  <1>1. CASE UNCHANGED vars
    BY <1>1 DEF CreateInv, vars
  <1>2. ASSUME NEW w \in Workers, Arrive(w)
        PROVE  CreateInv'
    BY <1>2 DEF TypeOK, CreateInv, Arrive, FreshApp, db
  <1>3. ASSUME NEW w \in Workers, Advance(w) \/ GetRow(w) \/ Fail(w)
        PROVE  CreateInv'
    <2>1. \A v \in Workers : req'[v].op = "create" => req[v].op = "create" /\ req'[v] = req[v]
      <3>1. req'[w] = req[w] \/ req'[w] = NoRequest
        BY <1>3 DEF TypeOK, Advance, GetRow, Fail, Create, GetObject, CommitUpdate,
              CommitSubmit, CommitReview, StoreFile, CommitUpload, CommitRemove, DropFile,
              TakeRow, RefuseRow, Abort, DropFails, Crash, Answer, Goto
      <3> QED
        BY <1>3, <3>1, OwnControl DEF NoRequest
    <2>2. ASSUME NEW v \in Workers, req'[v].op = "create"
          PROVE  rows'[req[v].app].status = "absent"
      <3>1. req[v].op = "create" /\ rows[req[v].app].status = "absent" /\ req[v].app \in Apps
        BY <2>1, <2>2, RequestShape DEF CreateInv, StageInv, NoRequest
      <3>2. CASE v # w
        BY <1>3, <3>1, <3>2, OwnRow, HeldExists DEF CreateInv
      <3>3. CASE v = w
        <4>1. ~Create(w)
          BY <2>2, <3>3 DEF Create, Answer, NoRequest, TypeOK
        <4>2. ~Holds(w)
          BY <3>1, <3>3 DEF Holds, StageInv
        <4> QED
          BY <1>3, <3>1, <3>3, <4>1, <4>2 DEF TypeOK, db, Holds, Advance, GetRow, Fail,
                GetObject, CommitUpdate, CommitSubmit, CommitReview, StoreFile,
                CommitUpload, CommitRemove, DropFile, TakeRow, RefuseRow, Abort,
                DropFails, Crash
      <3> QED
        BY <3>2, <3>3
    <2> QED
      BY <2>1, <2>2 DEF CreateInv
  <1>4. ASSUME NEW u \in Users, ChangeRole(u)
        PROVE  CreateInv'
    BY <1>4 DEF CreateInv, ChangeRole, db
  <1> QED
    BY <1>1, <1>2, <1>3, <1>4 DEF Next

(* An application keeps its owner, and does not disappear, whichever       *)
(* instance a PATCH writes back.                                           *)
LEMMA OwnerKept ==
    ASSUME TypeOK, StageInv, CreateInv, SnapInv, [Next]_vars,
           NEW a \in Apps, rows[a].status # "absent"
    PROVE  rows'[a].owner = rows[a].owner /\ rows'[a].status # "absent"
  <1>1. CASE rows'[a] = rows[a]
    BY <1>1
  <1>2. ASSUME NEW w \in Workers, Arrive(w) \/ Advance(w) \/ GetRow(w) \/ Fail(w),
               rows'[a] # rows[a]
        PROVE  rows'[a].owner = rows[a].owner /\ rows'[a].status # "absent"
    <2>0. req[w].app = a /\ rows[a] \in Row
      BY <1>2, OwnRow DEF TypeOK
    <2>1. CASE CommitUpdate(w)
      <3>1. rows'[a] = SavedRow(w)
        BY <2>0, <2>1 DEF TypeOK, CommitUpdate
      <3>2. snap[w] \in Row
        BY DEF TypeOK
      <3>3. SavedRow(w).owner = snap[w].owner /\ SavedRow(w).status = snap[w].status
        BY <3>2 DEF SavedRow, Row
      <3> QED
        BY <2>0, <2>1, <3>1, <3>3 DEF SnapInv, CommitUpdate, Editable
    <2>2. CASE CommitSubmit(w)
      BY <2>0, <2>2 DEF TypeOK, CommitSubmit, Row
    <2>3. CASE CommitReview(w)
      <3>1. req[w].arg \in Decisions
        BY <2>3, RequestShape DEF StageInv, CommitReview
      <3>2. rows'[a] = [rows[a] EXCEPT !.status = Outcome[req[w].arg],
                                       !.reviewer = req[w].user]
        BY <2>0, <2>3 DEF TypeOK, CommitReview
      <3> QED
        BY <2>0, <3>1, <3>2, OutcomeType DEF Row
    <2>4. CASE Create(w)
      BY <2>0, <2>4 DEF Create, CreateInv
    <2> QED
      BY <1>2, <2>1, <2>2, <2>3, <2>4 DEF db, Arrive, Advance, GetRow, Fail,
            GetObject, StoreFile, CommitUpload, CommitRemove, DropFile, TakeRow,
            RefuseRow, Abort, DropFails, Crash
  <1> QED
    BY <1>1, <1>2 DEF Next, ChangeRole, vars, db

(* An instance that a PATCH will write back was editable when it was read, *)
(* and has the row's owner.                                                *)
LEMMA NextSnap ==
    TypeOK /\ StageInv /\ CreateInv /\ SnapInv /\ [Next]_vars => SnapInv'
  <1> SUFFICES ASSUME TypeOK, StageInv, CreateInv, SnapInv, [Next]_vars,
                      NEW v \in Workers, pc'[v] \in {"read", "locked"}, req'[v].op = "update"
               PROVE  /\ snap'[v].status \in Editable
                      /\ snap'[v].owner = rows'[req'[v].app].owner
                      /\ rows'[req'[v].app].status # "absent"
    BY DEF SnapInv
  <1>1. CASE pc[v] \in {"read", "locked"} /\ req'[v] = req[v] /\ snap'[v] = snap[v]
    <2>1. req[v].app \in Apps
      BY <1>1, RequestShape DEF StageInv
    <2> QED
      BY <1>1, <2>1, OwnerKept DEF SnapInv
  <1>2. ASSUME NEW w \in Workers, Arrive(w) \/ Advance(w) \/ GetRow(w) \/ Fail(w)
        PROVE  \/ pc[v] \in {"read", "locked"} /\ req'[v] = req[v] /\ snap'[v] = snap[v]
               \/ v = w /\ GetObject(w)
    <2>1. CASE v # w
      BY <1>2, <2>1, OwnControl
    <2>2. CASE v = w
      BY <1>2, <2>2 DEF TypeOK, Arrive, Advance, GetRow, Fail, Create, CommitUpdate,
            CommitSubmit, CommitReview, StoreFile, CommitUpload, CommitRemove, DropFile,
            TakeRow, RefuseRow, Abort, DropFails, Crash, Answer, Goto
    <2> QED
      BY <2>1, <2>2
  <1>3. ASSUME GetObject(v)
        PROVE  /\ snap'[v].status \in Editable
               /\ snap'[v].owner = rows'[req'[v].app].owner
               /\ rows'[req'[v].app].status # "absent"
    BY <1>3 DEF TypeOK, GetObject, Visible, Answer, db, Editable
  <1> QED
    BY <1>1, <1>2, <1>3 DEF Next, ChangeRole, vars

-----------------------------------------------------------------------------
(* Type correctness, and the invariant it rests on *)

(* The initial state satisfies the invariant. *)
LEMMA InitInv == Init => IInv
  <1> SUFFICES ASSUME Init PROVE IInv
    OBVIOUS
  <1> QED
    BY InitType, WorkerAssumption DEF Init, IInv, StageInv, LockInv, CheckedInv, CreateInv,
       SnapInv, Holds, NoRequest

(* The invariant is inductive. *)
LEMMA NextInv == IInv /\ [Next]_vars => IInv'
  BY NextType, NextStage, NextLock, NextChecked, NextCreate, NextSnap DEF IInv

(* The invariant holds in every reachable state. *)
THEOREM Invariance == Spec => []IInv
  BY InitInv, NextInv, PTL DEF Spec

(* Rows, requests and audit entries keep their types: no interleaving      *)
(* brings a row to a status the model does not list.                       *)
THEOREM TypeCorrect == Spec => []TypeOK
  <1>1. IInv => TypeOK
    BY DEF IInv
  <1> QED
    BY <1>1, Invariance, PTL

-----------------------------------------------------------------------------
(* Every step is at most one transaction on one application *)

Same(a) == rows'[a] = rows[a] /\ docs'[a] = docs[a] /\ audit'[a] = audit[a]

Logged(a, u, action) ==
    audit'[a] = Append(audit[a], [action |-> action, actor |-> u])

Created(a, u) ==
    /\ rows[a].status = "absent"
    /\ \E f \in Form : rows'[a] = [status |-> "draft", owner |-> u, form |-> f,
                                   reviewer |-> NoUser]
    /\ docs'[a] = docs[a]
    /\ Logged(a, u, "created")

Updated(a, u) ==
    /\ rows[a].status \in Editable
    /\ rows'[a].status \in Editable
    /\ rows'[a].owner = rows[a].owner
    /\ docs'[a] = docs[a]
    /\ Logged(a, u, "updated")

Submitted(a, u) ==
    /\ rows[a].status \in Editable
    /\ Complete(rows[a], docs[a])
    /\ rows'[a] = [rows[a] EXCEPT !.status = "submitted"]
    /\ docs'[a] = docs[a]
    /\ Logged(a, u, "submitted")

Reviewed(a, u) ==
    /\ rows[a].status = "submitted"
    /\ rows[a].owner # u
    /\ \E o \in {"approved", "rejected", "resubmission_requested"} :
          /\ rows'[a] = [rows[a] EXCEPT !.status = o, !.reviewer = u]
          /\ Logged(a, u, o)
    /\ docs'[a] = docs[a]

Uploaded(a, u) ==
    /\ rows[a].status \in Editable
    /\ UnderCap(docs[a])
    /\ rows'[a] = rows[a]
    /\ \E d \in Docs : docs'[a] = docs[a] \cup {d}
    /\ Logged(a, u, "document_uploaded")

Removed(a, u) ==
    /\ rows[a].status \in Editable
    /\ rows'[a] = rows[a]
    /\ \E d \in docs[a] : docs'[a] = docs[a] \ {d}
    /\ Logged(a, u, "document_removed")

Transaction(a, u) ==
    \/ Created(a, u) \/ Updated(a, u) \/ Submitted(a, u)
    \/ Reviewed(a, u) \/ Uploaded(a, u) \/ Removed(a, u)

(* However requests interleave, a step changes the tables as one of the    *)
(* six transactions would if it ran alone, its checks true when it takes   *)
(* effect.  A PATCH is the exception the form of Updated shows: of the row *)
(* it writes, only the owner and that the status is editable are known.    *)
LEMMA Transactions ==
    ASSUME IInv, [Next]_vars
    PROVE  \/ \A b \in Apps : Same(b)
           \/ \E a \in Apps, u \in Users :
                 Transaction(a, u) /\ \A b \in Apps \ {a} : Same(b)
  <1> USE DEF IInv
  <1>1. CASE UNCHANGED db
    BY <1>1 DEF Same, db
  <1>2. ASSUME NEW w \in Workers, Arrive(w) \/ Advance(w) \/ GetRow(w) \/ Fail(w)
        PROVE  \/ UNCHANGED db
               \/ /\ Transaction(req[w].app, req[w].user)
                  /\ \A b \in Apps \ {req[w].app} : Same(b)
                  /\ req[w].app \in Apps /\ req[w].user \in Users
    <2>0. \A b \in Apps : b # req[w].app => Same(b)
      BY <1>2, OwnRow DEF Same
    <2>1. SUFFICES ASSUME db' # db
                   PROVE  /\ Transaction(req[w].app, req[w].user)
                          /\ req[w].app \in Apps /\ req[w].user \in Users
      BY <2>0
    <2>2. /\ ~Arrive(w) /\ pc[w] # "idle" /\ req[w] \in Request
          /\ req[w].app \in Apps /\ req[w].user \in Users
          /\ rows[req[w].app] \in Row
      BY <1>2, <2>1, Busy, RequestShape DEF Arrive, db, TypeOK
    <2>3. CASE Create(w)
      <3>1. req[w].arg \in Form
        BY <2>2, <2>3, RequestShape DEF Create
      <3>2. Created(req[w].app, req[w].user)
        BY <2>2, <2>3, <3>1 DEF TypeOK, CreateInv, Create, Log, Created, Logged
      <3> QED
        BY <2>2, <3>2 DEF Transaction
    <2>4. CASE CommitUpdate(w)
      <3>1. rows'[req[w].app] = SavedRow(w) /\ snap[w] \in Row
        BY <2>2, <2>4 DEF TypeOK, CommitUpdate
      <3>2. SavedRow(w).owner = snap[w].owner /\ SavedRow(w).status = snap[w].status
        BY <3>1 DEF SavedRow, Row
      <3>3. rows[req[w].app].status \in Editable
        BY <2>4 DEF CheckedInv, Holds, Admissible, LockedEditable, CommitUpdate
      <3>4. Updated(req[w].app, req[w].user)
        BY <2>2, <2>4, <3>1, <3>2, <3>3 DEF TypeOK, SnapInv, CommitUpdate, Log, Updated, Logged
      <3> QED
        BY <2>2, <3>4 DEF Transaction
    <2>5. CASE CommitSubmit(w)
      <3>1. rows[req[w].app].status \in Editable /\ Complete(rows[req[w].app], docs[req[w].app])
        BY <2>5 DEF CheckedInv, Holds, Admissible, LockedEditable, CommitSubmit
      <3>2. Submitted(req[w].app, req[w].user)
        BY <2>2, <2>5, <3>1 DEF TypeOK, CommitSubmit, Log, Submitted, Logged
      <3> QED
        BY <2>2, <3>2 DEF Transaction
    <2>6. CASE CommitReview(w)
      <3>1. rows[req[w].app].status = "submitted" /\ rows[req[w].app].owner # req[w].user
        BY <2>6 DEF CheckedInv, Holds, Admissible, Reviewable, CommitReview
      <3>2. req[w].arg \in Decisions
        BY <2>2, <2>6, RequestShape DEF CommitReview
      <3>3. Reviewed(req[w].app, req[w].user)
        BY <2>2, <2>6, <3>1, <3>2, OutcomeType DEF TypeOK, CommitReview, Log, Reviewed, Logged
      <3> QED
        BY <2>2, <3>3 DEF Transaction
    <2>7. CASE CommitUpload(w)
      <3>1. req[w].op = "upload" /\ req[w].arg \in Docs
        BY <2>2, <2>7, RequestShape DEF StageInv, CommitUpload
      <3>2. rows[req[w].app].status \in Editable /\ UnderCap(docs[req[w].app])
        BY <2>7, <3>1 DEF CheckedInv, Holds, Admissible, LockedEditable, CommitUpload
      <3>3. Uploaded(req[w].app, req[w].user)
        BY <2>2, <2>7, <3>1, <3>2 DEF TypeOK, CommitUpload, Log, Uploaded, Logged
      <3> QED
        BY <2>2, <3>3 DEF Transaction
    <2>8. CASE CommitRemove(w)
      <3>1. rows[req[w].app].status \in Editable /\ req[w].arg \in docs[req[w].app]
        BY <2>8 DEF CheckedInv, Holds, Admissible, LockedEditable, CommitRemove
      <3>2. Removed(req[w].app, req[w].user)
        BY <2>2, <2>8, <3>1 DEF TypeOK, CommitRemove, Log, Removed, Logged
      <3> QED
        BY <2>2, <3>2 DEF Transaction
    <2> QED
      BY <1>2, <2>1, <2>2, <2>3, <2>4, <2>5, <2>6, <2>7, <2>8 DEF Advance, GetRow, Fail, db,
            GetObject, StoreFile, DropFile, TakeRow, RefuseRow, Abort, DropFails, Crash
  <1> QED
    BY <1>1, <1>2 DEF Next, ChangeRole, vars, db

-----------------------------------------------------------------------------
(* Decided and submitted applications *)

(* What happens to one application in a step. *)
LEMMA OneTransaction ==
    ASSUME IInv, [Next]_vars, NEW a \in Apps
    PROVE  Same(a) \/ \E u \in Users : Transaction(a, u)
  BY Transactions

(* A review is the only transaction on an application that is not editable;*)
(* none is left once it is decided.                                        *)
LEMMA OnlyReview ==
    ASSUME IInv, [Next]_vars, NEW a \in Apps,
           rows[a].status \notin Editable \cup {"absent"}
    PROVE  \/ Same(a)
           \/ rows[a].status = "submitted" /\ \E u \in Users : Reviewed(a, u)
  <1>1. CASE Same(a)
    BY <1>1
  <1>2. ASSUME NEW u \in Users, Transaction(a, u)
        PROVE  rows[a].status = "submitted" /\ Reviewed(a, u)
    <2>1. Reviewed(a, u)
      BY <1>2 DEF Transaction, Created, Updated, Submitted, Uploaded, Removed
    <2> QED
      BY <2>1 DEF Reviewed
  <1> QED
    BY <1>1, <1>2, OneTransaction

(* The status each transaction leaves. *)
LEMMA StatusAfter ==
    ASSUME NEW a \in Apps, rows[a] \in Row, NEW u \in Users
    PROVE  /\ Created(a, u) => rows'[a].status = "draft"
           /\ Updated(a, u) => rows'[a].status \in Editable
           /\ Submitted(a, u) => rows'[a].status = "submitted"
           /\ Uploaded(a, u) \/ Removed(a, u) => rows'[a].status = rows[a].status
                                               /\ rows[a].status \in Editable
  <1>1. Created(a, u) => rows'[a].status = "draft"
    BY DEF Created
  <1>2. Updated(a, u) => rows'[a].status \in Editable
    BY DEF Updated
  <1>3. Submitted(a, u) => rows'[a].status = "submitted"
    BY DEF Submitted, Row
  <1>4. Uploaded(a, u) \/ Removed(a, u) => rows'[a].status = rows[a].status
                                        /\ rows[a].status \in Editable
    BY DEF Uploaded, Removed
  <1> QED
    BY <1>1, <1>2, <1>3, <1>4

(* No pending PATCH, upload or removal changes the form or the documents   *)
(* of an application that is under review or decided.                      *)
THEOREM DossierIsFrozen == Spec => DossierFrozen
  <1>1. ASSUME IInv, [Next]_vars, NEW a \in Apps,
               rows[a].status \notin Editable \cup {"absent"}
        PROVE  rows'[a].form = rows[a].form /\ docs'[a] = docs[a]
    <2>1. rows[a] \in Row
      BY <1>1 DEF IInv, TypeOK
    <2> QED
      BY <1>1, <2>1, OnlyReview DEF Same, Reviewed, Row
  <1>2. IInv /\ [Next]_vars =>
           [\A a \in Apps :
               rows[a].status \notin Editable \cup {"absent"}
                   => /\ rows'[a].form = rows[a].form
                      /\ docs'[a] = docs[a]]_vars
    BY <1>1
  <1> QED
    BY <1>2, Invariance, PTL DEF Spec, DossierFrozen

(* No request changes the row of an approved or rejected application.      *)
THEOREM DecisionsAreFinal == Spec => DecisionIsFinal
  <1>1. ASSUME IInv, [Next]_vars, NEW a \in Apps, rows[a].status \in Closed
        PROVE  rows'[a] = rows[a]
    BY <1>1, OnlyReview DEF Same, Closed, Editable
  <1>2. IInv /\ [Next]_vars =>
           [\A a \in Apps : rows[a].status \in Closed => rows'[a] = rows[a]]_vars
    BY <1>1
  <1> QED
    BY <1>2, Invariance, PTL DEF Spec, DecisionIsFinal

(* An application under review or decided has a document, and the ID it    *)
(* was submitted with had not expired.                                     *)
THEOREM ReviewedAreComplete == Spec => []UnderReviewIsComplete
  <1>1. Init => UnderReviewIsComplete
    BY DEF Init, UnderReviewIsComplete, AbsentRow
  <1>2. ASSUME IInv, UnderReviewIsComplete, [Next]_vars
        PROVE  UnderReviewIsComplete'
    <2> SUFFICES ASSUME NEW a \in Apps, rows'[a].status \notin Editable \cup {"absent"}
                 PROVE  docs'[a] # {} /\ rows'[a].form[IdExpiry] \notin Expired
      BY DEF UnderReviewIsComplete
    <2>0. rows[a] \in Row
      BY <1>2 DEF IInv, TypeOK
    <2>1. CASE Same(a)
      BY <1>2, <2>1 DEF Same, UnderReviewIsComplete
    <2>2. CASE \E u \in Users : Submitted(a, u)
      BY <2>0, <2>2 DEF Submitted, Complete, Row
    <2>3. CASE \E u \in Users : Reviewed(a, u)
      BY <1>2, <2>0, <2>3 DEF Reviewed, UnderReviewIsComplete, Row, Editable
    <2>4. CASE \E u \in Users : Created(a, u) \/ Updated(a, u) \/ Uploaded(a, u) \/ Removed(a, u)
      BY <2>0, <2>4, StatusAfter DEF Editable
    <2> QED
      BY <1>2, <2>1, <2>2, <2>3, <2>4, OneTransaction DEF Transaction
  <1> QED
    BY <1>1, <1>2, Invariance, PTL DEF Spec

(* The last audit entry of a decided application is its decision, by the   *)
(* reviewer its row names, who is not its owner.                           *)
THEOREM DecisionsAreAttributed == Spec => []DecisionAttributed
  <1>1. Init => DecisionAttributed
    BY DEF Init, DecisionAttributed, AbsentRow, Closed
  <1>2. ASSUME IInv, DecisionAttributed, [Next]_vars
        PROVE  DecisionAttributed'
    <2> SUFFICES ASSUME NEW a \in Apps, rows'[a].status \in Closed
                 PROVE  /\ audit'[a] # <<>>
                        /\ audit'[a][Len(audit'[a])] =
                               [action |-> rows'[a].status, actor |-> rows'[a].reviewer]
                        /\ rows'[a].reviewer # rows'[a].owner
      BY DEF DecisionAttributed
    <2>0. rows[a] \in Row /\ audit[a] \in Seq(Entry)
      BY <1>2 DEF IInv, TypeOK
    <2>1. CASE Same(a)
      BY <1>2, <2>1 DEF Same, DecisionAttributed
    <2>2. ASSUME NEW u \in Users, Reviewed(a, u)
          PROVE  /\ audit'[a] # <<>>
                 /\ audit'[a][Len(audit'[a])] =
                        [action |-> rows'[a].status, actor |-> rows'[a].reviewer]
                 /\ rows'[a].reviewer # rows'[a].owner
      <3>1. PICK o \in {"approved", "rejected", "resubmission_requested"} :
               /\ rows'[a] = [rows[a] EXCEPT !.status = o, !.reviewer = u]
               /\ Logged(a, u, o)
        BY <2>2 DEF Reviewed
      <3>2. rows'[a].status = o /\ rows'[a].reviewer = u /\ rows'[a].owner = rows[a].owner
        BY <2>0, <3>1 DEF Row
      <3>3. [action |-> o, actor |-> u] \in Entry
        BY DEF Entry, Action
      <3>4. audit'[a] # <<>> /\ audit'[a][Len(audit'[a])] = [action |-> o, actor |-> u]
        BY <2>0, <3>1, <3>3 DEF Logged
      <3> QED
        BY <2>2, <3>2, <3>4 DEF Reviewed
    <2>3. ASSUME NEW u \in Users,
                 Created(a, u) \/ Updated(a, u) \/ Submitted(a, u) \/ Uploaded(a, u) \/ Removed(a, u)
          PROVE  rows'[a].status \notin Closed
      BY <2>0, <2>3, StatusAfter DEF Editable, Closed
    <2> QED
      BY <1>2, <2>1, <2>2, <2>3, OneTransaction DEF Transaction
  <1> QED
    BY <1>1, <1>2, Invariance, PTL DEF Spec

-----------------------------------------------------------------------------
(* The audit trail explains the status *)

(* The phase an entry leads to is all of the editable statuses or none.    *)
LEMMA PhaseIsWhole ==
    ASSUME NEW action \in Action \ Silent, NEW s \in Editable, s \in PhaseAfter(action)
    PROVE  PhaseAfter(action) = Editable
  BY DEF PhaseAfter, Action, Silent, Editable

(* What appending an entry does to a trail. *)
LEMMA AppendEntry ==
    ASSUME NEW s \in Seq(Entry), NEW e \in Entry
    PROVE  /\ Len(Append(s, e)) = Len(s) + 1
           /\ Append(s, e)[Len(s) + 1] = e
           /\ \A i \in 1..Len(s) : Append(s, e)[i] = s[i]
  OBVIOUS

(* An entry that changes no phase keeps the explanation, when the status   *)
(* stays editable.                                                         *)
LEMMA SilentEntry ==
    ASSUME NEW a \in Apps, NEW u \in Users, NEW action \in Silent, Logged(a, u, action),
           audit[a] \in Seq(Entry), AuditExplainsStatus,
           rows[a].status \in Editable, rows'[a].status \in Editable,
           NEW i \in 1..Len(audit'[a]), audit'[a][i].action \notin Silent,
           \A j \in (i + 1)..Len(audit'[a]) : audit'[a][j].action \in Silent
    PROVE  rows'[a].status \in PhaseAfter(audit'[a][i].action)
  <1> DEFINE e == [action |-> action, actor |-> u]
  <1>1. e \in Entry
    BY DEF Entry, Action, Silent
  <1>2. /\ Len(audit'[a]) = Len(audit[a]) + 1
        /\ audit'[a][Len(audit[a]) + 1] = e
        /\ \A k \in 1..Len(audit[a]) : audit'[a][k] = audit[a][k]
    BY <1>1, AppendEntry DEF Logged
  <1>3. Len(audit[a]) \in Nat
    OBVIOUS
  <1>4. i \in 1..Len(audit[a])
    BY <1>2, <1>3
  <1>5. \A j \in (i + 1)..Len(audit[a]) : audit[a][j].action \in Silent
    BY <1>2, <1>3, <1>4
  <1>6. audit[a][i].action \in Action \ Silent /\ audit'[a][i].action = audit[a][i].action
    <2>1. audit[a][i] \in Entry /\ audit'[a][i] = audit[a][i]
      BY <1>2, <1>4
    <2> QED
      BY <2>1 DEF Entry
  <1>7. rows[a].status \in PhaseAfter(audit[a][i].action)
    BY <1>4, <1>5, <1>6 DEF AuditExplainsStatus
  <1> QED
    BY <1>6, <1>7, PhaseIsWhole

(* An entry that names the new phase is its own explanation: no earlier    *)
(* entry is the last one that counts.                                      *)
LEMMA TellingEntry ==
    ASSUME NEW a \in Apps, NEW u \in Users, NEW action \in Action \ Silent,
           Logged(a, u, action), audit[a] \in Seq(Entry),
           rows'[a].status \in PhaseAfter(action),
           NEW i \in 1..Len(audit'[a]),
           \A j \in (i + 1)..Len(audit'[a]) : audit'[a][j].action \in Silent
    PROVE  rows'[a].status \in PhaseAfter(audit'[a][i].action)
  <1> DEFINE e == [action |-> action, actor |-> u]
  <1>1. e \in Entry
    BY DEF Entry
  <1>2. Len(audit'[a]) = Len(audit[a]) + 1 /\ audit'[a][Len(audit[a]) + 1] = e
    BY <1>1, AppendEntry DEF Logged
  <1>3. Len(audit[a]) \in Nat
    OBVIOUS
  <1>4. i = Len(audit[a]) + 1
    BY <1>2, <1>3
  <1> QED
    BY <1>2, <1>4

(* Replaying the last status-changing entry of an application's trail      *)
(* always gives the phase its row is in.                                   *)
THEOREM AuditExplains == Spec => []AuditExplainsStatus
  <1>1. Init => AuditExplainsStatus
    BY DEF Init, AuditExplainsStatus
  <1>2. ASSUME IInv, AuditExplainsStatus, [Next]_vars
        PROVE  AuditExplainsStatus'
    <2> SUFFICES ASSUME NEW a \in Apps, NEW i \in 1..Len(audit'[a]),
                        audit'[a][i].action \notin Silent,
                        \A j \in (i + 1)..Len(audit'[a]) : audit'[a][j].action \in Silent
                 PROVE  rows'[a].status \in PhaseAfter(audit'[a][i].action)
      BY DEF AuditExplainsStatus
    <2>0. rows[a] \in Row /\ audit[a] \in Seq(Entry)
      BY <1>2 DEF IInv, TypeOK
    <2>1. CASE Same(a)
      BY <1>2, <2>1 DEF Same, AuditExplainsStatus
    <2>2. ASSUME NEW u \in Users, Updated(a, u)
          PROVE  rows'[a].status \in PhaseAfter(audit'[a][i].action)
      BY <1>2, <2>0, <2>2, SilentEntry DEF Updated, Silent
    <2>3. ASSUME NEW u \in Users, Uploaded(a, u)
          PROVE  rows'[a].status \in PhaseAfter(audit'[a][i].action)
      <3>1. rows[a].status \in Editable /\ rows'[a].status \in Editable
            /\ Logged(a, u, "document_uploaded")
        BY <2>3 DEF Uploaded
      <3> QED
        BY <1>2, <2>0, <3>1, SilentEntry DEF Silent
    <2>4. ASSUME NEW u \in Users, Removed(a, u)
          PROVE  rows'[a].status \in PhaseAfter(audit'[a][i].action)
      <3>1. rows[a].status \in Editable /\ rows'[a].status \in Editable
            /\ Logged(a, u, "document_removed")
        BY <2>4 DEF Removed
      <3> QED
        BY <1>2, <2>0, <3>1, SilentEntry DEF Silent
    <2>5. ASSUME NEW u \in Users, Created(a, u)
          PROVE  rows'[a].status \in PhaseAfter(audit'[a][i].action)
      <3>1. Logged(a, u, "created") /\ rows'[a].status \in PhaseAfter("created")
        BY <2>0, <2>5, StatusAfter DEF Created, PhaseAfter, Editable
      <3> QED
        BY <2>0, <3>1, TellingEntry DEF Action, Silent
    <2>6. ASSUME NEW u \in Users, Submitted(a, u)
          PROVE  rows'[a].status \in PhaseAfter(audit'[a][i].action)
      <3>1. Logged(a, u, "submitted") /\ rows'[a].status \in PhaseAfter("submitted")
        BY <2>0, <2>6, StatusAfter DEF Submitted, PhaseAfter
      <3> QED
        BY <2>0, <3>1, TellingEntry DEF Action, Silent
    <2>7. ASSUME NEW u \in Users, Reviewed(a, u)
          PROVE  rows'[a].status \in PhaseAfter(audit'[a][i].action)
      <3>1. PICK o \in {"approved", "rejected", "resubmission_requested"} :
               /\ rows'[a] = [rows[a] EXCEPT !.status = o, !.reviewer = u]
               /\ Logged(a, u, o)
        BY <2>7 DEF Reviewed
      <3>2. rows'[a].status = o
        BY <2>0, <3>1 DEF Row
      <3>3. o \in PhaseAfter(o) /\ o \in Action \ Silent
        BY DEF PhaseAfter, Editable, Action, Silent
      <3> QED
        BY <2>0, <3>1, <3>2, <3>3, TellingEntry
    <2> QED
      BY <1>2, <2>1, <2>2, <2>3, <2>4, <2>5, <2>6, <2>7, OneTransaction DEF Transaction
  <1> QED
    BY <1>1, <1>2, Invariance, PTL DEF Spec

-----------------------------------------------------------------------------
(* Files and entries: a document the database lists always has its file,   *)
(* although storage is not transactional; only faults leave files behind;  *)
(* and the audit trail accounts for the documents.                         *)

(* An upload in flight has a document id of its own, which no application  *)
(* lists yet; once it has stored the file, the file stays.                 *)
UploadInv ==
    \A w \in Workers : req[w].op = "upload" =>
        /\ \A a \in Apps : req[w].arg \notin docs[a]
        /\ \A v \in Workers \ {w} :
              req[v].op = "upload" => req[v].arg # req[w].arg
        /\ pc[w] = "stored" => req[w].arg \in files

(* A removal past its commit drops a file that nothing refers to.          *)
HookInv ==
    \A w \in Workers : pc[w] = "hook" =>
        /\ \A a \in Apps : req[w].arg \notin docs[a]
        /\ \A v \in Workers : req[v].op = "upload" => req[v].arg # req[w].arg

(* A document belongs to one application. *)
DisjointInv ==
    \A a, b \in Apps : a # b => docs[a] \cap docs[b] = {}

FileInv == UploadInv /\ HookInv /\ DisjointInv /\ DocumentHasFile

-----------------------------------------------------------------------------
(* A worker keeps the request it serves until it answers it, and enters    *)
(* the stages that own a file only by the step that creates the debt.      *)
LEMMA RequestKept ==
    ASSUME TypeOK, NEW w \in Workers, Advance(w) \/ GetRow(w) \/ Fail(w), NEW v \in Workers
    PROVE  /\ req'[v] = req[v] \/ (req'[v] = NoRequest /\ pc'[v] = "idle")
           /\ pc'[v] = "stored" => pc[v] = "stored" \/ (v = w /\ StoreFile(w))
           /\ pc'[v] = "hook" => pc[v] = "hook" \/ (v = w /\ CommitRemove(w))
  <1>1. CASE v # w
    BY <1>1, OwnControl
  <1>2. CASE v = w
    BY <1>2 DEF TypeOK, Advance, GetRow, Fail, Create, GetObject, CommitUpdate,
          CommitSubmit, CommitReview, StoreFile, CommitUpload, CommitRemove, DropFile,
          TakeRow, RefuseRow, Abort, DropFails, Crash, Answer, Goto
  <1> QED
    BY <1>1, <1>2

(* Two steps write the document table, two the document store. *)
LEMMA FourSteps ==
    ASSUME NEW w \in Workers, Advance(w) \/ GetRow(w) \/ Fail(w)
    PROVE  /\ docs' = docs \/ CommitUpload(w) \/ CommitRemove(w)
           /\ files' = files \/ StoreFile(w) \/ DropFile(w)
  BY DEF db, Advance, GetRow, Fail, Create, GetObject, CommitUpdate, CommitSubmit,
         CommitReview, StoreFile, CommitUpload, CommitRemove, DropFile, TakeRow,
         RefuseRow, Abort, DropFails, Crash

(* Each step keeps the four facts. *)
LEMMA NextFile == TypeOK /\ StageInv /\ LockInv /\ CheckedInv /\ FileInv /\ [Next]_vars => FileInv'
  <1> SUFFICES ASSUME TypeOK, StageInv, LockInv, CheckedInv, FileInv, [Next]_vars
               PROVE  FileInv'
    OBVIOUS
  <1> USE DEF FileInv
  <1>1. CASE UNCHANGED vars
    BY <1>1 DEF UploadInv, HookInv, DisjointInv, DocumentHasFile, vars
  <1>2. ASSUME NEW u \in Users, ChangeRole(u)
        PROVE  FileInv'
    BY <1>2 DEF UploadInv, HookInv, DisjointInv, DocumentHasFile, ChangeRole, db
  <1>3. ASSUME NEW w \in Workers, Arrive(w)
        PROVE  FileInv'
    <2>1. PICK r \in Request :
             /\ r.op = "upload" => FreshDoc(r.arg)
             /\ req' = [req EXCEPT ![w] = r]
      BY <1>3 DEF Arrive
    <2>2. /\ docs' = docs /\ files' = files
          /\ pc' = [pc EXCEPT ![w] = "arrived"]
      BY <1>3 DEF Arrive, db
    <2>3. pc[w] = "idle"
      BY <1>3 DEF Arrive
    <2>4. \A v \in Workers \ {w} : req'[v] = req[v] /\ pc'[v] = pc[v]
      BY <2>1, <2>2 DEF TypeOK
    <2>5. req'[w] = r /\ pc'[w] = "arrived"
      BY <2>1, <2>2 DEF TypeOK
    <2>6. UploadInv'
      BY <2>1, <2>2, <2>4, <2>5 DEF UploadInv, FreshDoc
    <2>7. HookInv'
      <3> SUFFICES ASSUME NEW v \in Workers, pc'[v] = "hook"
                   PROVE  /\ \A a \in Apps : req'[v].arg \notin docs'[a]
                          /\ \A x \in Workers : req'[x].op = "upload" => req'[x].arg # req'[v].arg
        BY DEF HookInv
      <3>1. v # w /\ pc[v] = "hook" /\ req'[v] = req[v] /\ req[v].op = "remove"
        BY <2>4, <2>5 DEF StageInv
      <3> QED
        BY <3>1, <2>1, <2>2, <2>4, <2>5 DEF HookInv, FreshDoc
    <2> QED
      BY <2>2, <2>6, <2>7 DEF DisjointInv, DocumentHasFile
  <1>4. ASSUME NEW w \in Workers, Advance(w) \/ GetRow(w) \/ Fail(w)
        PROVE  FileInv'
    <2>0. req[w] \in Request /\ req[w].app \in Apps
      BY <1>4, Busy, RequestShape
    <2>1. \A v \in Workers : req'[v].op = "upload" => req'[v] = req[v]
      BY <1>4, RequestKept DEF NoRequest
    <2>2. CASE CommitUpload(w)
      <3>1. /\ req[w].op = "upload" /\ pc[w] = "stored" /\ req[w].arg \in files
        BY <2>2 DEF CommitUpload, StageInv, UploadInv
      <3>2. /\ docs' = [docs EXCEPT ![req[w].app] = @ \cup {req[w].arg}]
            /\ files' = files /\ req'[w] = NoRequest /\ pc'[w] = "idle"
        BY <2>2 DEF CommitUpload, Answer, TypeOK
      <3>3. \A a \in Apps : docs'[a] \subseteq docs[a] \cup {req[w].arg}
        BY <3>2 DEF TypeOK
      <3>4. UploadInv'
        BY <2>1, <3>1, <3>2, <3>3, <1>4, RequestKept DEF UploadInv, NoRequest, StoreFile
      <3>5. HookInv'
        <4> SUFFICES ASSUME NEW v \in Workers, pc'[v] = "hook"
                     PROVE  /\ \A a \in Apps : req'[v].arg \notin docs'[a]
                            /\ \A x \in Workers :
                                  req'[x].op = "upload" => req'[x].arg # req'[v].arg
          BY DEF HookInv
        <4>1. v # w
          BY <3>2
        <4>2. pc[v] = "hook" /\ req'[v] = req[v]
          BY <1>4, <4>1, OwnControl
        <4> QED
          BY <2>1, <3>1, <3>3, <4>2 DEF HookInv
      <3>6. DisjointInv'
        BY <2>0, <3>1, <3>2 DEF DisjointInv, UploadInv, TypeOK
      <3>7. DocumentHasFile'
        BY <3>1, <3>2, <3>3 DEF DocumentHasFile
      <3> QED
        BY <3>4, <3>5, <3>6, <3>7
    <2>3. CASE CommitRemove(w)
      <3>1. /\ docs' = [docs EXCEPT ![req[w].app] = @ \ {req[w].arg}]
            /\ files' = files /\ req' = req /\ pc' = [pc EXCEPT ![w] = "hook"]
        BY <2>3 DEF CommitRemove, Goto
      <3>2. \A a \in Apps : docs'[a] \subseteq docs[a]
        BY <3>1 DEF TypeOK
      <3>3. req[w].arg \in docs[req[w].app]
        BY <2>3 DEF CommitRemove, CheckedInv, Holds, Admissible
      <3>4. \A a \in Apps : req[w].arg \notin docs'[a]
        BY <2>0, <3>1, <3>3 DEF DisjointInv, TypeOK
      <3>5. UploadInv'
        BY <3>1, <3>2 DEF UploadInv, TypeOK
      <3>6. HookInv'
        BY <2>0, <3>1, <3>2, <3>3, <3>4 DEF HookInv, UploadInv, TypeOK
      <3>7. DisjointInv' /\ DocumentHasFile'
        BY <3>1, <3>2 DEF DisjointInv, DocumentHasFile
      <3> QED
        BY <3>5, <3>6, <3>7
    <2>4. CASE StoreFile(w)
      <3>1. /\ docs' = docs /\ req' = req
            /\ files' = files \cup {req[w].arg} /\ pc' = [pc EXCEPT ![w] = "stored"]
        BY <2>4 DEF StoreFile, Goto, db
      <3> QED
        BY <3>1 DEF UploadInv, HookInv, DisjointInv, DocumentHasFile, TypeOK
    <2>5. CASE DropFile(w)
      <3>1. /\ docs' = docs /\ files' = files \ {req[w].arg}
            /\ req'[w] = NoRequest /\ pc'[w] = "idle"
        BY <2>5 DEF DropFile, Answer, db, TypeOK
      <3>2. /\ \A a \in Apps : req[w].arg \notin docs[a]
            /\ \A v \in Workers \ {w} : req[v].op = "upload" => req[v].arg # req[w].arg
        BY <2>5 DEF DropFile, StageInv, UploadInv, HookInv
      <3>3. UploadInv'
        BY <2>1, <3>1, <3>2, <1>4, RequestKept DEF UploadInv, StoreFile, NoRequest
      <3>4. HookInv'
        BY <1>4, <2>1, <3>1, RequestKept DEF HookInv, CommitRemove
      <3>5. DisjointInv' /\ DocumentHasFile'
        BY <3>1, <3>2 DEF DisjointInv, DocumentHasFile
      <3> QED
        BY <3>3, <3>4, <3>5
    <2>6. CASE ~CommitUpload(w) /\ ~CommitRemove(w) /\ ~StoreFile(w) /\ ~DropFile(w)
      <3>1. docs' = docs /\ files' = files
        BY <1>4, <2>6, FourSteps
      <3>2. UploadInv'
        BY <1>4, <2>1, <2>6, <3>1, RequestKept DEF UploadInv
      <3>3. HookInv'
        BY <1>4, <2>1, <2>6, <3>1, RequestKept DEF HookInv
      <3> QED
        BY <3>1, <3>2, <3>3 DEF DisjointInv, DocumentHasFile
    <2> QED
      BY <2>2, <2>3, <2>4, <2>5, <2>6
  <1> QED
    BY <1>1, <1>2, <1>3, <1>4 DEF Next

LEMMA FileInvariance == Spec => []FileInv
  <1>1. Init => FileInv
    BY DEF Init, FileInv, UploadInv, HookInv, DisjointInv, DocumentHasFile, NoRequest
  <1>2. IInv /\ FileInv /\ [Next]_vars => FileInv'
    BY NextFile DEF IInv
  <1> QED
    BY <1>1, <1>2, Invariance, PTL DEF Spec

(* A listed document can be downloaded in every reachable state: no        *)
(* rollback, crash, failed clean-up or late on_commit hook removes a file  *)
(* that a committed row names.                                             *)
THEOREM DocumentsHaveFiles == Spec => []DocumentHasFile
  <1>1. FileInv => DocumentHasFile
    BY DEF FileInv
  <1> QED
    BY <1>1, FileInvariance, PTL

-----------------------------------------------------------------------------
(* Files nobody owns *)

Unowned == {f \in files : ~Owned(f)}

(* A file keeps its owner until it is removed, or a fault leaves it.       *)
LEMMA OwnedKept ==
    ASSUME TypeOK, StageInv, NEW w \in Workers, Advance(w) \/ GetRow(w) \/ Fail(w),
           NEW f, Owned(f), f \in files'
    PROVE  Owned(f)' \/ (f = req[w].arg /\ faults' = faults + 1)
  <1>1. CASE \E a \in Apps : f \in docs[a]
    <2>1. CASE CommitRemove(w)
      <3>1. /\ docs' = [docs EXCEPT ![req[w].app] = @ \ {req[w].arg}]
            /\ req' = req /\ pc'[w] = "hook"
        BY <2>1 DEF CommitRemove, Goto, TypeOK
      <3>2. (\E a \in Apps : f \in docs'[a]) \/ f = req[w].arg
        BY <1>1, <3>1 DEF TypeOK
      <3> QED
        BY <3>1, <3>2 DEF Owned
    <2>2. CASE CommitUpload(w)
      <3>1. docs' = [docs EXCEPT ![req[w].app] = @ \cup {req[w].arg}]
        BY <2>2 DEF CommitUpload
      <3>2. \E a \in Apps : f \in docs'[a]
        BY <1>1, <3>1 DEF TypeOK
      <3> QED
        BY <3>2 DEF Owned
    <2>3. CASE docs' = docs
      BY <1>1, <2>3 DEF Owned
    <2> QED
      BY <2>1, <2>2, <2>3, FourSteps
  <1>2. ASSUME NEW v \in Workers, pc[v] \in {"stored", "hook", "cleanup"}, req[v].arg = f
        PROVE  Owned(f)' \/ (f = req[w].arg /\ faults' = faults + 1)
    <2>1. CASE v # w
      <3>1. pc'[v] = pc[v] /\ req'[v] = req[v]
        BY <2>1, OwnControl
      <3> QED
        BY <1>2, <3>1 DEF Owned
    <2>2. CASE v = w
      <3>1. CASE CommitUpload(w)
        <4>1. docs'[req[w].app] = docs[req[w].app] \cup {f} /\ req[w].app \in Apps
          BY <1>2, <2>2, <3>1, Busy, RequestShape DEF CommitUpload, TypeOK
        <4> QED
          BY <4>1 DEF Owned
      <3>2. CASE DropFile(w)
        BY <1>2, <2>2, <3>2 DEF DropFile
      <3>3. CASE Abort(w) /\ pc[w] = "stored"
        <4>1. req' = req /\ pc'[w] = "cleanup"
          BY <3>3 DEF Abort, Goto, TypeOK
        <4> QED
          BY <1>2, <2>2, <4>1 DEF Owned
      <3>4. CASE DropFails(w) \/ Crash(w)
        BY <1>2, <2>2, <3>4 DEF DropFails, Crash
      <3>5. CommitUpload(w) \/ DropFile(w) \/ (Abort(w) /\ pc[w] = "stored")
            \/ DropFails(w) \/ Crash(w)
        BY <1>2, <2>2 DEF Advance, GetRow, Fail, Create, GetObject, CommitUpdate,
           CommitSubmit, CommitReview, StoreFile, CommitRemove, TakeRow, RefuseRow, Abort
      <3> QED
        BY <3>1, <3>2, <3>3, <3>4, <3>5
    <2> QED
      BY <2>1, <2>2
  <1> QED
    BY <1>1, <1>2 DEF Owned

(* At most one more file is left behind by a step, and then by a fault.    *)
LEMMA OneLeak ==
    ASSUME TypeOK, StageInv, NEW w \in Workers, Advance(w) \/ GetRow(w) \/ Fail(w)
    PROVE  /\ files' \subseteq files \cup {req[w].arg}
           /\ Unowned' \subseteq Unowned \cup {req[w].arg}
           /\ (Unowned' \subseteq Unowned /\ faults' = faults) \/ faults' = faults + 1
  <1>1. files' \subseteq files \/ StoreFile(w)
    BY FourSteps DEF DropFile
  <1>2. ASSUME StoreFile(w), NEW f, f = req[w].arg
        PROVE  files' = files \cup {f} /\ Owned(f)'
    <2>1. files' = files \cup {f} /\ req'[w].arg = f /\ pc'[w] = "stored"
      BY <1>2 DEF StoreFile, Goto, TypeOK
    <2> QED
      BY <2>1 DEF Owned
  <1>3. faults' = faults \/ faults' = faults + 1
    BY DEF Advance, GetRow, Fail, Create, GetObject, CommitUpdate, CommitSubmit, CommitReview,
       StoreFile, CommitUpload, CommitRemove, DropFile, TakeRow, RefuseRow, Abort, DropFails, Crash
  <1>4. ASSUME NEW f \in Unowned', f \notin Unowned
        PROVE  f = req[w].arg /\ faults' = faults + 1
    <2>1. f \in files' /\ ~Owned(f)'
      BY <1>4 DEF Unowned
    <2>2. f \in files
      BY <1>1, <1>2, <2>1
    <2>3. Owned(f)
      BY <1>4, <2>2 DEF Unowned
    <2> QED
      BY <2>1, <2>3, OwnedKept
  <1> QED
    BY <1>1, <1>2, <1>3, <1>4

(* Each fault leaves one file at most that nobody is going to remove,      *)
(* whatever the interleaving: storage does not fill with orphans while     *)
(* nothing fails.                                                          *)
THEOREM FilesAreAccountedFor == Spec => []FilesAccountedFor
  <1> DEFINE Inv == IsFiniteSet(files) /\ FilesAccountedFor
  <1>1. Init => Inv
    <2>1. Init => files = {} /\ {f \in files : ~Owned(f)} = {} /\ faults = 0
      BY DEF Init
    <2> QED
      BY <2>1, FS_EmptySet DEF FilesAccountedFor
  <1>2. ASSUME TypeOK, TypeOK', StageInv, Inv, [Next]_vars PROVE Inv'
    <2>1. FilesAccountedFor <=> Cardinality(Unowned) <= faults
      BY DEF FilesAccountedFor, Unowned
    <2>2. FilesAccountedFor' <=> Cardinality(Unowned') <= faults'
      BY DEF FilesAccountedFor, Unowned
    <2>3. IsFiniteSet(Unowned) /\ Cardinality(Unowned) \in Nat /\ faults \in Nat
      BY <1>2, FS_Subset, FS_CardinalityType DEF Unowned, TypeOK
    <2>4. CASE files' = files /\ Unowned' = Unowned /\ faults' = faults
      BY <1>2, <2>1, <2>2, <2>4
    <2>5. ASSUME NEW w \in Workers, Advance(w) \/ GetRow(w) \/ Fail(w)
          PROVE  Inv'
      <3> DEFINE d == req[w].arg
                 Grown == Unowned \cup {d}
      <3>1. /\ files' \subseteq files \cup {d} /\ Unowned' \subseteq Grown
            /\ (Unowned' \subseteq Unowned /\ faults' = faults) \/ faults' = faults + 1
        BY <1>2, <2>5, OneLeak
      <3> HIDE DEF d
      <3>2. IsFiniteSet(files')
        BY <1>2, <3>1, FS_AddElement, FS_Subset
      <3>3. IsFiniteSet(Grown) /\ Cardinality(Grown) <= Cardinality(Unowned) + 1
            /\ Cardinality(Grown) \in Nat
        BY <2>3, FS_AddElement, FS_CardinalityType
      <3> HIDE DEF Grown
      <3>4. Cardinality(Unowned') <= Cardinality(Grown) /\ Cardinality(Unowned') \in Nat
        BY <3>1, <3>3, FS_Subset, FS_CardinalityType
      <3>5. Unowned' \subseteq Unowned => Cardinality(Unowned') <= Cardinality(Unowned)
        BY <2>3, FS_Subset
      <3>6. Cardinality(Unowned') <= faults'
        BY <1>2, <2>1, <2>3, <3>1, <3>3, <3>4, <3>5
      <3> QED
        BY <2>2, <3>2, <3>6
    <2>6. ASSUME NEW w \in Workers, Arrive(w) PROVE Inv'
      <3>1. files' = files /\ docs' = docs /\ faults' = faults
        BY <2>6 DEF Arrive, db
      <3>2. pc[w] = "idle" /\ pc' = [pc EXCEPT ![w] = "arrived"]
            /\ \A v \in Workers \ {w} : req'[v] = req[v]
        BY <1>2, <2>6 DEF Arrive, TypeOK
      <3>3. \A v \in Workers : pc'[v] \in {"stored", "hook", "cleanup"}
              <=> v # w /\ pc[v] \in {"stored", "hook", "cleanup"}
        BY <1>2, <3>2 DEF TypeOK
      <3>4. \A f : Owned(f) => Owned(f)'
        BY <3>1, <3>2, <3>3 DEF Owned
      <3>5. Unowned' \subseteq Unowned
        BY <3>1, <3>4 DEF Unowned
      <3>6. Cardinality(Unowned') <= Cardinality(Unowned) /\ Cardinality(Unowned') \in Nat
        BY <2>3, <3>5, FS_Subset, FS_CardinalityType
      <3> QED
        BY <1>2, <2>1, <2>2, <2>3, <3>1, <3>6
    <2>7. ASSUME UNCHANGED <<docs, files, pc, req, faults>> PROVE Inv'
      <3>1. Unowned' = Unowned
        BY <2>7 DEF Unowned, Owned
      <3> QED
        BY <2>4, <2>7, <3>1
    <2> QED
      BY <1>2, <2>5, <2>6, <2>7 DEF Next, ChangeRole, vars, db
  <1>3. IInv => TypeOK /\ StageInv
    BY DEF IInv
  <1> QED
    BY <1>1, <1>2, <1>3, Invariance, PTL DEF Spec

-----------------------------------------------------------------------------
(* The trail counts the documents *)

(* What a step does to the documents and the trail of an application. *)
LEMMA DocumentStep ==
    ASSUME IInv, FileInv, [Next]_vars, NEW a \in Apps
    PROVE  \/ docs'[a] = docs[a] /\ audit'[a] = audit[a]
           \/ \E u \in Users, x \in Action \ {"document_uploaded", "document_removed"} :
                docs'[a] = docs[a] /\ Logged(a, u, x)
           \/ \E u \in Users, d \in Docs \ docs[a] :
                docs'[a] = docs[a] \cup {d} /\ Logged(a, u, "document_uploaded")
           \/ \E u \in Users, d \in docs[a] :
                docs'[a] = docs[a] \ {d} /\ Logged(a, u, "document_removed")
  <1> USE DEF IInv
  <1> DEFINE Quiet == docs'[a] = docs[a] /\ audit'[a] = audit[a]
             Other == \E u \in Users, x \in Action \ {"document_uploaded", "document_removed"} :
                        docs'[a] = docs[a] /\ Logged(a, u, x)
  <1>1. CASE UNCHANGED <<docs, audit>>
    BY <1>1
  <1>2. ASSUME NEW w \in Workers, Create(w) \/ CommitUpdate(w) \/ CommitSubmit(w) \/ CommitReview(w)
        PROVE  Quiet \/ Other
    <2>1. req[w] \in Request /\ req[w].user \in Users /\ req[w].app \in Apps
      BY <1>2, Busy, RequestShape DEF Advance
    <2>2. PICK x \in Action \ {"document_uploaded", "document_removed"} : Log(w, x)
      <3>1. CASE CommitReview(w)
        <4>1. req[w].arg \in Decisions
          BY <2>1, <3>1, RequestShape DEF CommitReview
        <4> QED
          BY <3>1, <4>1, OutcomeType DEF CommitReview, Action
      <3> QED
        BY <1>2, <3>1 DEF Create, CommitUpdate, CommitSubmit, Action
    <2>3. docs' = docs
      BY <1>2 DEF Create, CommitUpdate, CommitSubmit, CommitReview
    <2>4. IF a = req[w].app THEN Logged(a, req[w].user, x) ELSE audit'[a] = audit[a]
      BY <2>1, <2>2 DEF Log, Logged, TypeOK
    <2> QED
      BY <2>1, <2>3, <2>4
  <1>3. ASSUME NEW w \in Workers, CommitUpload(w)
        PROVE  \/ Quiet
               \/ \E u \in Users, d \in Docs \ docs[a] :
                    docs'[a] = docs[a] \cup {d} /\ Logged(a, u, "document_uploaded")
    <2>1. req[w] \in Request /\ req[w].user \in Users /\ req[w].app \in Apps /\ req[w].op = "upload"
      BY <1>3, Busy, RequestShape DEF Advance, StageInv, CommitUpload
    <2>2. req[w].arg \in Docs /\ req[w].arg \notin docs[a]
      BY <2>1, RequestShape DEF FileInv, UploadInv
    <2>3. IF a = req[w].app
          THEN docs'[a] = docs[a] \cup {req[w].arg} /\ Logged(a, req[w].user, "document_uploaded")
          ELSE Quiet
      BY <1>3, <2>1 DEF CommitUpload, Log, Logged, TypeOK
    <2> QED
      BY <2>1, <2>2, <2>3
  <1>4. ASSUME NEW w \in Workers, CommitRemove(w)
        PROVE  \/ Quiet
               \/ \E u \in Users, d \in docs[a] :
                    docs'[a] = docs[a] \ {d} /\ Logged(a, u, "document_removed")
    <2>1. req[w] \in Request /\ req[w].user \in Users /\ req[w].app \in Apps
      BY <1>4, Busy, RequestShape DEF Advance
    <2>2. req[w].arg \in docs[req[w].app]
      BY <1>4 DEF CommitRemove, CheckedInv, Holds, Admissible
    <2>3. IF a = req[w].app
          THEN docs'[a] = docs[a] \ {req[w].arg} /\ Logged(a, req[w].user, "document_removed")
          ELSE Quiet
      BY <1>4, <2>1 DEF CommitRemove, Log, Logged, TypeOK
    <2> QED
      BY <2>1, <2>2, <2>3
  <1>5. ASSUME NEW w \in Workers, Arrive(w) \/ Advance(w) \/ GetRow(w) \/ Fail(w),
               ~(Create(w) \/ CommitUpdate(w) \/ CommitSubmit(w) \/ CommitReview(w)),
               ~CommitUpload(w), ~CommitRemove(w)
        PROVE  UNCHANGED <<docs, audit>>
    BY <1>5 DEF Arrive, Advance, GetRow, Fail, GetObject, StoreFile, DropFile, TakeRow, RefuseRow,
       Abort, DropFails, Crash, db
  <1> QED
    BY <1>1, <1>2, <1>3, <1>4, <1>5 DEF Next, ChangeRole, vars, db

(* A new entry is counted once, under its own action. *)
LEMMA EntriesAfter ==
    ASSUME NEW a \in Apps, NEW u \in Users, NEW x \in Action, Logged(a, u, x),
           audit[a] \in Seq(Entry), NEW y \in Action
    PROVE  /\ IsFiniteSet(Entries(a, y))
           /\ Cardinality(Entries(a, y)) \in Nat
           /\ Cardinality(Entries(a, y)')
                = Cardinality(Entries(a, y)) + (IF x = y THEN 1 ELSE 0)
  <1> DEFINE e == [action |-> x, actor |-> u]
             n == Len(audit[a])
  <1>1. e \in Entry /\ e.action = x
    BY DEF Entry
  <1>2. /\ Len(audit'[a]) = n + 1 /\ audit'[a][n + 1] = e
        /\ \A i \in 1..n : audit'[a][i] = audit[a][i]
    BY <1>1, AppendEntry DEF Logged
  <1>3. n \in Nat
    OBVIOUS
  <1> HIDE DEF e, n
  <1>4. Entries(a, y) = {i \in 1..n : audit[a][i].action = y}
    BY DEF Entries, n
  <1>5. Entries(a, y)' = {i \in 1..(n + 1) : audit'[a][i].action = y}
    BY <1>2 DEF Entries
  <1>6. IsFiniteSet(Entries(a, y)) /\ Cardinality(Entries(a, y)) \in Nat
    <2>1. IsFiniteSet(1..n)
      BY <1>3, FS_Interval
    <2> QED
      BY <1>4, <2>1, FS_Subset, FS_CardinalityType
  <1>7. n + 1 \notin Entries(a, y)
    BY <1>3, <1>4
  <1>8. Entries(a, y)' = IF x = y THEN Entries(a, y) \cup {n + 1} ELSE Entries(a, y)
    BY <1>1, <1>2, <1>3, <1>4, <1>5
  <1>9. CASE x = y
    <2>1. Entries(a, y)' = Entries(a, y) \cup {n + 1}
      BY <1>8, <1>9
    <2>2. Cardinality(Entries(a, y) \cup {n + 1}) = Cardinality(Entries(a, y)) + 1
      BY <1>6, <1>7, FS_AddElement
    <2> QED
      BY <1>6, <1>9, <2>1, <2>2
  <1>10. CASE x # y
    <2>1. Entries(a, y)' = Entries(a, y)
      BY <1>8, <1>10
    <2> QED
      BY <1>6, <1>10, <2>1
  <1> QED
    BY <1>9, <1>10

(* The audit trail of an application, however its requests interleave and  *)
(* whatever is rolled back, accounts for every document it lists.          *)
THEOREM AuditCountsDocuments == Spec => []AuditAccountsForDocuments
  <1> DEFINE Up(a) == Entries(a, "document_uploaded")
             Down(a) == Entries(a, "document_removed")
             Counted(a) == /\ IsFiniteSet(docs[a])
                           /\ Cardinality(Up(a)) = Cardinality(docs[a]) + Cardinality(Down(a))
             Inv == \A a \in Apps : Counted(a)
  <1>1. Init => Inv
    <2> SUFFICES ASSUME Init, NEW a \in Apps PROVE Counted(a)
      OBVIOUS
    <2>1. docs[a] = {} /\ Up(a) = {} /\ Down(a) = {}
      BY DEF Init, Entries
    <2> QED
      BY <2>1, FS_EmptySet
  <1>2. ASSUME IInv, FileInv, Inv, [Next]_vars PROVE Inv'
    <2> SUFFICES ASSUME NEW a \in Apps PROVE Counted(a)'
      OBVIOUS
    <2> DEFINE up == Cardinality(Up(a))
               down == Cardinality(Down(a))
               size == Cardinality(docs[a])
    <2>0. audit[a] \in Seq(Entry) /\ "document_uploaded" \in Action /\ "document_removed" \in Action
      BY <1>2 DEF IInv, TypeOK, Action
    <2>1. IsFiniteSet(docs[a]) /\ size \in Nat /\ up = size + down
      BY <1>2, FS_CardinalityType
    <2>2. CASE docs'[a] = docs[a] /\ audit'[a] = audit[a]
      BY <2>1, <2>2 DEF Entries
    <2>3. ASSUME NEW u \in Users, NEW x \in Action, Logged(a, u, x)
          PROVE  /\ up \in Nat /\ down \in Nat
                 /\ Cardinality(Up(a)') = up + (IF x = "document_uploaded" THEN 1 ELSE 0)
                 /\ Cardinality(Down(a)') = down + (IF x = "document_removed" THEN 1 ELSE 0)
      BY <2>0, <2>3, EntriesAfter
    <2> HIDE DEF Up, Down, up, down
    <2>4. ASSUME NEW u \in Users, NEW x \in Action \ {"document_uploaded", "document_removed"},
                 docs'[a] = docs[a], Logged(a, u, x)
          PROVE  Counted(a)'
      <3>1. Cardinality(Up(a)') = up /\ Cardinality(Down(a)') = down
        BY <2>3, <2>4
      <3> QED
        BY <2>1, <2>4, <3>1
    <2>5. ASSUME NEW u \in Users, NEW d \in Docs \ docs[a],
                 docs'[a] = docs[a] \cup {d}, Logged(a, u, "document_uploaded")
          PROVE  Counted(a)'
      <3>1. IsFiniteSet(docs'[a]) /\ Cardinality(docs'[a]) = size + 1
        BY <2>1, <2>5, FS_AddElement
      <3>2. Cardinality(Up(a)') = up + 1 /\ Cardinality(Down(a)') = down
            /\ up \in Nat /\ down \in Nat
        BY <2>0, <2>3, <2>5
      <3> QED
        BY <2>1, <3>1, <3>2
    <2>6. ASSUME NEW u \in Users, NEW d \in docs[a],
                 docs'[a] = docs[a] \ {d}, Logged(a, u, "document_removed")
          PROVE  Counted(a)'
      <3>1. IsFiniteSet(docs'[a]) /\ Cardinality(docs'[a]) = size - 1
        BY <2>1, <2>6, FS_RemoveElement
      <3>2. Cardinality(Up(a)') = up /\ Cardinality(Down(a)') = down + 1
            /\ up \in Nat /\ down \in Nat
        BY <2>0, <2>3, <2>6
      <3> QED
        BY <2>1, <3>1, <3>2
    <2> QED
      BY <1>2, <2>2, <2>4, <2>5, <2>6, DocumentStep
  <1>3. Inv => AuditAccountsForDocuments
    BY DEF AuditAccountsForDocuments
  <1> QED
    BY <1>1, <1>2, <1>3, Invariance, FileInvariance, PTL DEF Spec

-----------------------------------------------------------------------------
(* The document cap *)

(* Concurrent uploads never take an application beyond the cap; its        *)
(* documents are finitely many.                                            *)
CapInv == \A a \in Apps : IsFiniteSet(docs[a]) /\ Cardinality(docs[a]) <= Cap

(* The cap is inductive because an upload counts under the row lock.       *)
LEMMA NextCap == IInv /\ CapInv /\ [Next]_vars => CapInv'
  <1> SUFFICES ASSUME IInv, CapInv, [Next]_vars, NEW a \in Apps
               PROVE  IsFiniteSet(docs'[a]) /\ Cardinality(docs'[a]) <= Cap
    BY DEF CapInv
  <1>0. IsFiniteSet(docs[a]) /\ Cardinality(docs[a]) \in Nat /\ Cardinality(docs[a]) <= Cap
    BY FS_CardinalityType DEF CapInv
  <1>1. CASE docs'[a] = docs[a]
    BY <1>0, <1>1
  <1>2. ASSUME NEW u \in Users, Uploaded(a, u)
        PROVE  IsFiniteSet(docs'[a]) /\ Cardinality(docs'[a]) <= Cap
    <2>1. PICK d \in Docs : docs'[a] = docs[a] \cup {d}
      BY <1>2 DEF Uploaded
    <2>2. Cardinality(docs[a]) < Cap
      BY <1>2 DEF Uploaded, UnderCap
    <2>3. /\ IsFiniteSet(docs[a] \cup {d})
          /\ \/ Cardinality(docs[a] \cup {d}) = Cardinality(docs[a])
             \/ Cardinality(docs[a] \cup {d}) = Cardinality(docs[a]) + 1
      BY <1>0, FS_AddElement
    <2> QED
      BY <1>0, <2>1, <2>2, <2>3, CapAssumption
  <1>3. ASSUME NEW u \in Users, Removed(a, u)
        PROVE  IsFiniteSet(docs'[a]) /\ Cardinality(docs'[a]) <= Cap
    <2>1. PICK d \in docs[a] : docs'[a] = docs[a] \ {d}
      BY <1>3 DEF Removed
    <2>2. /\ IsFiniteSet(docs[a] \ {d})
          /\ Cardinality(docs[a] \ {d}) = Cardinality(docs[a]) - 1
      BY <1>0, FS_RemoveElement
    <2> QED
      BY <1>0, <2>1, <2>2, CapAssumption
  <1>4. ASSUME NEW u \in Users, Created(a, u) \/ Updated(a, u) \/ Submitted(a, u) \/ Reviewed(a, u)
        PROVE  docs'[a] = docs[a]
    BY <1>4 DEF Created, Updated, Submitted, Reviewed
  <1> QED
    BY <1>1, <1>2, <1>3, <1>4, OneTransaction DEF Transaction, Same

(* At most Cap documents per application, in every reachable state.        *)
THEOREM CapHolds == Spec => []CapInv
  <1>1. Init => CapInv
    BY FS_EmptySet, CapAssumption DEF Init, CapInv
  <1> QED
    BY <1>1, NextCap, Invariance, PTL DEF Spec

THEOREM DocumentCapHolds == Spec => []DocumentCap
  <1>1. CapInv => DocumentCap
    BY DEF CapInv, DocumentCap
  <1> QED
    BY <1>1, CapHolds, PTL

-----------------------------------------------------------------------------
(* Refinement *)

(* The phase of each group of statuses. *)
LEMMA Phases ==
    ASSUME NEW s
    PROVE  /\ s \in Editable => PhaseOf(s) = "open"
           /\ s = "submitted" => PhaseOf(s) = "review"
           /\ s \in {"absent", "approved", "rejected"} => PhaseOf(s) = s
  BY DEF PhaseOf, Editable

(* A step that leaves the other rows alone changes the mapped variables at *)
(* its own application only.                                               *)
LEMMA MapsAt ==
    ASSUME TypeOK, TypeOK', NEW a \in Apps, \A b \in Apps \ {a} : Same(b)
    PROVE  /\ PhaseMap' = [PhaseMap EXCEPT ![a] = PhaseOf(rows'[a].status)]
           /\ OwnerMap' = [OwnerMap EXCEPT ![a] = rows'[a].owner]
           /\ FormMap' = [FormMap EXCEPT ![a] = rows'[a].form]
           /\ DeciderMap' = [DeciderMap EXCEPT ![a] =
                                IF rows'[a].status \in Closed
                                THEN rows'[a].reviewer ELSE NoUser]
           /\ docs' = [docs EXCEPT ![a] = docs'[a]]
  <1>1. \A b \in Apps \ {a} : rows'[b] = rows[b] /\ docs'[b] = docs[b]
    BY DEF Same
  <1>2. PhaseMap' = [PhaseMap EXCEPT ![a] = PhaseOf(rows'[a].status)]
    BY <1>1 DEF PhaseMap
  <1>3. OwnerMap' = [OwnerMap EXCEPT ![a] = rows'[a].owner]
    BY <1>1 DEF OwnerMap
  <1>4. FormMap' = [FormMap EXCEPT ![a] = rows'[a].form]
    BY <1>1 DEF FormMap
  <1>5. DeciderMap' = [DeciderMap EXCEPT ![a] = IF rows'[a].status \in Closed
                                                THEN rows'[a].reviewer ELSE NoUser]
    BY <1>1 DEF DeciderMap
  <1>6. docs' = [docs EXCEPT ![a] = docs'[a]]
    BY <1>1 DEF TypeOK
  <1> QED
    BY <1>2, <1>3, <1>4, <1>5, <1>6

(* A mapped variable that such a step does not change at its application   *)
(* either does not change at all.                                          *)
LEMMA PhaseKept ==
    ASSUME NEW a \in Apps, \A b \in Apps \ {a} : Same(b),
           PhaseOf(rows'[a].status) = PhaseOf(rows[a].status)
    PROVE  PhaseMap' = PhaseMap
  <1>1. \A b \in Apps : PhaseOf(rows'[b].status) = PhaseOf(rows[b].status)
    BY DEF Same
  <1> QED
    BY <1>1 DEF PhaseMap

LEMMA ApplicantKept ==
    ASSUME NEW a \in Apps, \A b \in Apps \ {a} : Same(b),
           rows'[a].owner = rows[a].owner
    PROVE  OwnerMap' = OwnerMap
  <1>1. \A b \in Apps : rows'[b].owner = rows[b].owner
    BY DEF Same
  <1> QED
    BY <1>1 DEF OwnerMap

LEMMA FormKept ==
    ASSUME NEW a \in Apps, \A b \in Apps \ {a} : Same(b),
           rows'[a].form = rows[a].form
    PROVE  FormMap' = FormMap
  <1>1. \A b \in Apps : rows'[b].form = rows[b].form
    BY DEF Same
  <1> QED
    BY <1>1 DEF FormMap

LEMMA DeciderKept ==
    ASSUME NEW a \in Apps, \A b \in Apps \ {a} : Same(b),
           rows[a].status \notin Closed, rows'[a].status \notin Closed
    PROVE  DeciderMap' = DeciderMap
  <1>1. \A b \in Apps :
           (IF rows'[b].status \in Closed THEN rows'[b].reviewer ELSE NoUser)
         = (IF rows[b].status \in Closed THEN rows[b].reviewer ELSE NoUser)
    BY DEF Same
  <1> QED
    BY <1>1 DEF DeciderMap

LEMMA DocsKept ==
    ASSUME NEW a \in Apps, \A b \in Apps \ {a} : Same(b),
           TypeOK, TypeOK', docs'[a] = docs[a]
    PROVE  docs' = docs
  <1>1. \A b \in Apps : docs'[b] = docs[b]
    BY DEF Same
  <1> QED
    BY <1>1 DEF TypeOK

(* The initial tables map to the abstract initial state. *)
LEMMA InitRefines == Init => Lifecycle!Init
  <1> SUFFICES ASSUME Init PROVE Lifecycle!Init
    OBVIOUS
  <1>1. AbsentRow.status = "absent" /\ AbsentRow.owner = NoUser /\ AbsentRow.form \in Form
    BY AbsentRowType DEF AbsentRow, Row
  <1>2. PhaseMap = [b \in Apps |-> "absent"]
    BY <1>1, Phases DEF Init, PhaseMap
  <1>3. OwnerMap = [b \in Apps |-> NoUser]
    BY <1>1 DEF Init, OwnerMap
  <1>4. FormMap \in [Apps -> Form]
    BY <1>1 DEF Init, FormMap
  <1>5. DeciderMap = [b \in Apps |-> NoUser]
    BY <1>1 DEF Init, DeciderMap, Closed
  <1>6. docs = [b \in Apps |-> {}]
    BY DEF Init
  <1> QED
    BY <1>2, <1>3, <1>4, <1>5, <1>6 DEF Lifecycle!Init

(* Each transaction maps to the abstract action it implements. *)
LEMMA TransactionRefines ==
    ASSUME IInv, CapInv, CapInv', TypeOK', NEW a \in Apps, NEW u \in Users,
           Transaction(a, u), \A b \in Apps \ {a} : Same(b)
    PROVE  Lifecycle!Next
  <1>0. rows[a] \in Row /\ rows'[a] \in Row /\ docs'[a] \in SUBSET Docs /\ TypeOK
    BY DEF IInv, TypeOK
  <1>1. /\ PhaseMap[a] = PhaseOf(rows[a].status)
        /\ OwnerMap[a] = rows[a].owner
        /\ FormMap[a] = rows[a].form
    BY DEF PhaseMap, OwnerMap, FormMap
  <1>2. Cardinality(docs'[a]) <= Cap
    BY DEF CapInv
  <1>3. \/ Updated(a, u) \/ Uploaded(a, u) \/ Removed(a, u)
        => Lifecycle!Amend(a, rows'[a].form, docs'[a])
    <2> SUFFICES ASSUME Updated(a, u) \/ Uploaded(a, u) \/ Removed(a, u)
                 PROVE  Lifecycle!Amend(a, rows'[a].form, docs'[a])
      OBVIOUS
    <2>1. rows[a].status \in Editable /\ rows'[a].status \in Editable
          /\ rows'[a].owner = rows[a].owner
      BY <1>0, StatusAfter DEF Updated, Uploaded, Removed
    <2>2. PhaseOf(rows[a].status) = "open" /\ PhaseOf(rows'[a].status) = "open"
      BY <2>1, Phases
    <2>3. rows[a].status \notin Closed /\ rows'[a].status \notin Closed
      BY <2>1 DEF Editable, Closed
    <2>4. PhaseMap' = PhaseMap /\ OwnerMap' = OwnerMap /\ DeciderMap' = DeciderMap
      <3>1. PhaseMap' = PhaseMap
        BY <2>2, PhaseKept
      <3>2. OwnerMap' = OwnerMap
        BY <2>1, ApplicantKept
      <3>3. DeciderMap' = DeciderMap
        BY <2>3, DeciderKept
      <3> QED
        BY <3>1, <3>2, <3>3
    <2>5. FormMap' = [FormMap EXCEPT ![a] = rows'[a].form]
          /\ docs' = [docs EXCEPT ![a] = docs'[a]]
      BY <1>0, MapsAt
    <2> QED
      BY <1>1, <1>2, <2>2, <2>4, <2>5 DEF Lifecycle!Amend, Cardinality, Lifecycle!Cardinality
  <1>4. ASSUME Created(a, u)
        PROVE  Lifecycle!Open(a, u, rows'[a].form)
    <2>1. /\ rows[a].status = "absent" /\ docs'[a] = docs[a]
          /\ rows'[a].status = "draft" /\ rows'[a].owner = u
      BY <1>4 DEF Created
    <2>2. PhaseOf(rows[a].status) = "absent" /\ PhaseOf(rows'[a].status) = "open"
      BY <2>1, Phases DEF Editable
    <2>3. rows[a].status \notin Closed /\ rows'[a].status \notin Closed
      BY <2>1 DEF Closed
    <2>4. DeciderMap' = DeciderMap /\ docs' = docs
      BY <1>0, <2>1, <2>3, DeciderKept, DocsKept
    <2>5. /\ PhaseMap' = [PhaseMap EXCEPT ![a] = "open"]
          /\ OwnerMap' = [OwnerMap EXCEPT ![a] = u]
          /\ FormMap' = [FormMap EXCEPT ![a] = rows'[a].form]
      BY <1>0, <2>1, <2>2, MapsAt
    <2> QED
      BY <1>1, <2>2, <2>4, <2>5 DEF Lifecycle!Open
  <1>5. ASSUME Submitted(a, u)
        PROVE  Lifecycle!Submit(a)
    <2>1. /\ rows[a].status \in Editable /\ rows'[a].status = "submitted"
          /\ rows'[a].owner = rows[a].owner /\ rows'[a].form = rows[a].form
          /\ docs'[a] = docs[a] /\ docs[a] # {}
          /\ rows[a].form[IdExpiry] \notin Expired
      BY <1>0, <1>5 DEF Submitted, Complete, Row
    <2>2. PhaseOf(rows[a].status) = "open" /\ PhaseOf(rows'[a].status) = "review"
      BY <2>1, Phases
    <2>3. rows[a].status \notin Closed /\ rows'[a].status \notin Closed
      BY <2>1 DEF Editable, Closed
    <2>4. OwnerMap' = OwnerMap /\ FormMap' = FormMap /\ DeciderMap' = DeciderMap /\ docs' = docs
      <3>1. OwnerMap' = OwnerMap
        BY <2>1, ApplicantKept
      <3>2. FormMap' = FormMap
        BY <2>1, FormKept
      <3>3. DeciderMap' = DeciderMap
        BY <2>3, DeciderKept
      <3>4. docs' = docs
        BY <1>0, <2>1, DocsKept
      <3> QED
        BY <3>1, <3>2, <3>3, <3>4
    <2>5. PhaseMap' = [PhaseMap EXCEPT ![a] = "review"]
      BY <1>0, <2>2, MapsAt
    <2> QED
      BY <1>1, <2>1, <2>2, <2>4, <2>5 DEF Lifecycle!Submit
  <1>6. ASSUME Reviewed(a, u)
        PROVE  Lifecycle!Return(a, u) \/ \E o \in Lifecycle!Final : Lifecycle!Decide(a, u, o)
    <2>1. PICK o \in {"approved", "rejected", "resubmission_requested"} :
             rows'[a] = [rows[a] EXCEPT !.status = o, !.reviewer = u]
      BY <1>6 DEF Reviewed
    <2>2. /\ rows'[a].status = o /\ rows'[a].reviewer = u
          /\ rows'[a].owner = rows[a].owner /\ rows'[a].form = rows[a].form
      BY <1>0, <2>1 DEF Row
    <2>3. rows[a].status = "submitted" /\ rows[a].owner # u /\ docs'[a] = docs[a]
      BY <1>6 DEF Reviewed
    <2>4. PhaseOf(rows[a].status) = "review"
      BY <2>3, Phases
    <2>5. OwnerMap' = OwnerMap /\ FormMap' = FormMap /\ docs' = docs
      <3>1. OwnerMap' = OwnerMap
        BY <2>2, ApplicantKept
      <3>2. FormMap' = FormMap
        BY <2>2, FormKept
      <3>3. docs' = docs
        BY <1>0, <2>3, DocsKept
      <3> QED
        BY <3>1, <3>2, <3>3
    <2>6. CASE o = "resubmission_requested"
      <3>1. PhaseOf(rows'[a].status) = "open"
        BY <2>2, <2>6, Phases DEF Editable
      <3>2. DeciderMap' = DeciderMap
        BY <2>2, <2>3, <2>6, DeciderKept DEF Closed
      <3>3. PhaseMap' = [PhaseMap EXCEPT ![a] = "open"]
        BY <1>0, <3>1, MapsAt
      <3> QED
        BY <1>1, <2>3, <2>4, <2>5, <3>2, <3>3 DEF Lifecycle!Return
    <2>7. CASE o \in {"approved", "rejected"}
      <3>1. PhaseOf(rows'[a].status) = o
        BY <2>2, <2>7, Phases
      <3>2. DeciderMap' = [DeciderMap EXCEPT ![a] = u]
        BY <1>0, <2>2, <2>7, MapsAt DEF Closed
      <3>3. PhaseMap' = [PhaseMap EXCEPT ![a] = o]
        BY <1>0, <3>1, MapsAt
      <3>4. Lifecycle!Decide(a, u, o)
        BY <1>1, <2>3, <2>4, <2>5, <3>2, <3>3 DEF Lifecycle!Decide
      <3> QED
        BY <2>7, <3>4 DEF Lifecycle!Final
    <2> QED
      BY <2>6, <2>7
  <1>7. rows'[a].form \in Form
    BY <1>0 DEF Row
  <1> QED
    BY <1>0, <1>3, <1>4, <1>5, <1>6, <1>7 DEF Transaction, Lifecycle!Next

(* A step outside the tables is a stuttering step of the lifecycle. *)
LEMMA StutterRefines ==
    ASSUME TypeOK, TypeOK', \A b \in Apps : Same(b)
    PROVE  UNCHANGED Lifecycle!vars
  <1>1. rows' = rows /\ docs' = docs
    BY DEF TypeOK, Same
  <1> QED
    BY <1>1 DEF Lifecycle!vars, PhaseMap, OwnerMap, FormMap, DeciderMap

(* The requests implement the lifecycle of ARCHITECTURE 4.5 (its two       *)
(* editable statuses merged), however they interleave and wherever they    *)
(* fail.                                                                   *)
THEOREM Refinement == Spec => LifecycleSpec
  <1>1. IInv /\ CapInv /\ [Next]_vars => [Lifecycle!Next]_(Lifecycle!vars)
    <2> SUFFICES ASSUME IInv, CapInv, [Next]_vars
                 PROVE  Lifecycle!Next \/ UNCHANGED Lifecycle!vars
      OBVIOUS
    <2>1. TypeOK /\ TypeOK' /\ CapInv'
      BY NextInv, NextCap DEF IInv
    <2> QED
      BY <2>1, Transactions, TransactionRefines, StutterRefines
  <1> QED
    BY <1>1, InitRefines, Invariance, CapHolds, PTL DEF Spec, LifecycleSpec, Lifecycle!Spec

=============================================================================
