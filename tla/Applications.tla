---------------------------- MODULE Applications ----------------------------
(***************************************************************************)
(* KYCApplicationViewSet: the requests that create, edit, submit, document *)
(* and review an application, as gunicorn workers interleave them over one *)
(* PostgreSQL database (READ COMMITTED, no ATOMIC_REQUESTS) and one        *)
(* document store.                                                         *)
(*                                                                         *)
(* A request is a short program: it is authenticated (the role is read     *)
(* once), get_object() loads a snapshot of the row, select_for_update()    *)
(* waits for the row and checks it again, the writes become visible at     *)
(* commit, which also frees the row.  Nothing of a transaction is visible  *)
(* before commit except what it does to the document store, which is not   *)
(* transactional: a file is written before the commit of its row and       *)
(* removed after the commit that deletes its row.  A worker can be killed  *)
(* between any two steps.                                                  *)
(***************************************************************************)
EXTENDS Naturals, Sequences, FiniteSets

CONSTANTS
    Users,              \* accounts; the role is the set "reviewers"
    NoUser,
    Apps,               \* application ids
    NoApp,
    Docs,               \* document ids, each with a file of its own
    Fields,             \* fields of the application form
    Values,             \* values of a field
    IdExpiry,           \* the field that holds the ID's expiry date
    Expired,            \* values of IdExpiry that are dates before today
    Workers,            \* gunicorn workers, one request each
    NoWorker,
    Cap,                \* MAX_DOCUMENTS_PER_APPLICATION
    InitialReviewers,   \* accounts that start as admin or super_admin
    MaxRequests,        \* bound: requests in a behaviour
    MaxFaults           \* bound: killed workers and storage errors

ASSUME UserAssumption == NoUser \notin Users /\ InitialReviewers \subseteq Users
ASSUME AppAssumption == NoApp \notin Apps
ASSUME WorkerAssumption == NoWorker \notin Workers
ASSUME FieldAssumption == IdExpiry \in Fields /\ Values # {}
ASSUME CapAssumption == Cap \in Nat
ASSUME BoundAssumption == MaxRequests \in Nat /\ MaxFaults \in Nat

VARIABLES
    rows,       \* rows[a]: the committed KYCApplication row
    docs,       \* docs[a]: the committed Document rows of application a
    audit,      \* audit[a]: the committed AuditLog rows, oldest first
    reviewers,  \* users whose committed role is admin or super_admin
    files,      \* document files in storage
    lock,       \* lock[a]: the worker whose transaction holds the row
    pc,         \* pc[w]: where worker w stands in its request
    req,        \* req[w]: the request worker w is serving
    snap,       \* snap[w]: the instance get_object() gave an update
    arrivals,   \* requests accepted so far
    faults      \* workers killed and storage errors so far

db == <<rows, docs, audit>>
vars == <<rows, docs, audit, reviewers, files, lock, pc, req, snap,
          arrivals, faults>>

-----------------------------------------------------------------------------
(* Data *)

Editable == {"draft", "resubmission_requested"}
Closed == {"approved", "rejected"}
Status == {"absent", "submitted"} \cup Editable \cup Closed

Decisions == {"approve", "reject", "request_resubmission"}

\* Regression: the status that migration 0007 removed is still in the mapping.
OutcomeUnderReview == [approve |-> "approved", reject |-> "rejected",
                       request_resubmission |-> "under_review"]

Outcome == [approve |-> "approved", reject |-> "rejected",
            request_resubmission |-> "resubmission_requested"]

Form == [Fields -> Values]

\* reviewer stands for reviewer, review_notes and reviewed_at, which are
\* always written together; submitted_at follows status.
Row == [status : Status, owner : Users \cup {NoUser}, form : Form,
        reviewer : Users \cup {NoUser}]

AbsentRow == [status |-> "absent", owner |-> NoUser,
              form |-> [x \in Fields |-> CHOOSE v \in Values : TRUE],
              reviewer |-> NoUser]

Action == {"created", "updated", "submitted", "document_uploaded",
           "document_removed", "approved", "rejected", "resubmission_requested"}

Entry == [action : Action, actor : Users]

Stage == {"idle", "arrived", "read", "locked", "stored", "hook", "cleanup"}

\* A PATCH names one field; an upload names the document it creates.
Request ==
    [op : {"create"}, user : Users, app : Apps, arg : Form]
    \cup [op : {"update"}, user : Users, app : Apps, arg : Fields \X Values]
    \cup [op : {"submit"}, user : Users, app : Apps, arg : {"none"}]
    \cup [op : {"upload", "remove"}, user : Users, app : Apps, arg : Docs]
    \cup [op : {"review"}, user : Users, app : Apps, arg : Decisions]

NoRequest == [op |-> "none", user |-> NoUser, app |-> NoApp, arg |-> "none"]

Init ==
    /\ rows = [a \in Apps |-> AbsentRow]
    /\ docs = [a \in Apps |-> {}]
    /\ audit = [a \in Apps |-> <<>>]
    /\ reviewers = InitialReviewers
    /\ files = {}
    /\ lock = [a \in Apps |-> NoWorker]
    /\ pc = [w \in Workers |-> "idle"]
    /\ req = [w \in Workers |-> NoRequest]
    /\ snap = [w \in Workers |-> AbsentRow]
    /\ arrivals = 0
    /\ faults = 0

-----------------------------------------------------------------------------
(* Checks *)

(* Reviewers may only review; everyone else may do everything but review.  *)
MayCall(u, op) == (op = "review") <=> (u \in reviewers)

(* The ids of applications and documents, and file names, are fresh UUIDs: *)
(* not used, and not about to be.                                          *)
FreshApp(a) ==
    /\ rows[a].status = "absent"
    /\ \A w \in Workers : ~(req[w].op = "create" /\ req[w].app = a)

FreshDoc(d) ==
    /\ d \notin files
    /\ \A a \in Apps : d \notin docs[a]
    /\ \A w \in Workers : ~(req[w].op \in {"upload", "remove"} /\ req[w].arg = d)

(* ApplicationSerializer: a new application needs a current ID. *)
Valid(r) == r.op = "create" => r.arg[IdExpiry] \notin Expired

(* get_object(): a reviewer sees every application, an applicant its own;  *)
(* the update serializer also rejects a snapshot that is not editable.     *)
Visible(r, row) ==
    /\ row.status # "absent"
    /\ r.op # "review" => row.owner = r.user
    /\ r.op = "update" => row.status \in Editable

\* Regression: the status is trusted from get_object(), not read again.
LockedOwnOnly(r, row) == row.owner = r.user

(* _locked_editable(): checked on the locked row. *)
LockedEditable(r, row) == row.owner = r.user /\ row.status \in Editable

\* Regression: <= for <.
UnderCapOffByOne(D) == Cardinality(D) <= Cap

(* Room for one more document. *)
UnderCap(D) == Cardinality(D) < Cap

\* Regression: the document check is left to the form wizard.
CompleteNoDocument(row, D) == row.form[IdExpiry] \notin Expired

(* submit(): documents.exists() and the expiry date of the locked row. *)
Complete(row, D) == D # {} /\ row.form[IdExpiry] \notin Expired

\* Regression: self-review is left to the role check.
ReviewableByOwner(r, row) == row.status = "submitted"

\* Regression: a decided application can be decided again.
ReviewableAgain(r, row) == row.owner # r.user /\ row.status \notin Editable

(* review(): not one's own application, and only a submitted one. *)
Reviewable(r, row) == row.owner # r.user /\ row.status = "submitted"

(* What a request requires of the row it has locked. *)
Admissible(r, row, D) ==
    CASE r.op = "update" -> LockedEditable(r, row)
      [] r.op = "submit" -> LockedEditable(r, row) /\ Complete(row, D)
      [] r.op = "upload" -> LockedEditable(r, row) /\ UnderCap(D)
      [] r.op = "remove" -> LockedEditable(r, row) /\ r.arg \in D
      [] r.op = "review" -> Reviewable(r, row)
      [] OTHER -> FALSE

-----------------------------------------------------------------------------
(* Requests *)

(* The worker answers and is ready for another request. *)
Answer(w) ==
    /\ pc' = [pc EXCEPT ![w] = "idle"]
    /\ req' = [req EXCEPT ![w] = NoRequest]
    /\ snap' = [snap EXCEPT ![w] = AbsentRow]

(* The worker goes on to its next step. *)
Goto(w, label) ==
    /\ pc' = [pc EXCEPT ![w] = label]
    /\ UNCHANGED <<req, snap>>

Unlock(w) == lock' = [lock EXCEPT ![req[w].app] = NoWorker]

\* Regression: document operations no longer write to the audit trail.
LogNotDocuments(w, action) ==
    audit' = IF action \in {"document_uploaded", "document_removed"}
             THEN audit
             ELSE [audit EXCEPT ![req[w].app] =
                      Append(@, [action |-> action, actor |-> req[w].user])]

\* Regression: a review is logged like an edit.
LogPlainUpdate(w, action) ==
    audit' = [audit EXCEPT ![req[w].app] =
                  Append(@, [action |-> IF req[w].op = "review"
                                        THEN "updated" ELSE action,
                             actor |-> req[w].user])]

(* log_action(): one audit entry, in the transaction that it describes. *)
Log(w, action) ==
    audit' = [audit EXCEPT ![req[w].app] =
                  Append(@, [action |-> action, actor |-> req[w].user])]

(* Authentication and the view's permission classes let a request in; a    *)
(* request they refuse changes nothing and is left out.                    *)
Arrive(w) ==
    /\ pc[w] = "idle"
    /\ arrivals < MaxRequests
    /\ \E r \in Request :
        /\ MayCall(r.user, r.op)
        /\ Valid(r)
        /\ r.op = "create" => FreshApp(r.app)
        /\ r.op = "upload" => FreshDoc(r.arg)
        /\ req' = [req EXCEPT ![w] = r]
    /\ pc' = [pc EXCEPT ![w] = "arrived"]
    /\ arrivals' = arrivals + 1
    /\ UNCHANGED <<db, reviewers, files, lock, snap, faults>>

(* perform_create(): the row and its first audit entry in one transaction. *)
Create(w) ==
    /\ pc[w] = "arrived" /\ req[w].op = "create"
    /\ rows' = [rows EXCEPT ![req[w].app] =
                   [status |-> "draft", owner |-> req[w].user,
                    form |-> req[w].arg, reviewer |-> NoUser]]
    /\ Log(w, "created")
    /\ Answer(w)
    /\ UNCHANGED <<docs, reviewers, files, lock, arrivals, faults>>

(* get_object(): 404 or 400, or a snapshot, which only PATCH uses again.   *)
GetObject(w) ==
    /\ pc[w] = "arrived" /\ req[w].op # "create"
    /\ LET row == rows[req[w].app] IN
        IF Visible(req[w], row)
        THEN /\ pc' = [pc EXCEPT ![w] = "read"]
             /\ snap' = [snap EXCEPT ![w] =
                            IF req[w].op = "update" THEN row ELSE @]
             /\ UNCHANGED req
        ELSE Answer(w)
    /\ UNCHANGED <<db, reviewers, files, lock, arrivals, faults>>

\* Regression: get() for select_for_update().get().
TakeRowUnlocked(w) ==
    /\ pc[w] = "read"
    /\ Admissible(req[w], rows[req[w].app], docs[req[w].app])
    /\ lock' = [lock EXCEPT ![req[w].app] = w]
    /\ Goto(w, "locked")
    /\ UNCHANGED <<db, reviewers, files, arrivals, faults>>

(* select_for_update() gets the row, and the row passes the checks ...     *)
TakeRow(w) ==
    /\ pc[w] = "read"
    /\ lock[req[w].app] = NoWorker
    /\ Admissible(req[w], rows[req[w].app], docs[req[w].app])
    /\ lock' = [lock EXCEPT ![req[w].app] = w]
    /\ Goto(w, "locked")
    /\ UNCHANGED <<db, reviewers, files, arrivals, faults>>

(* ... or fails one: the transaction rolls back and gives the row up.      *)
RefuseRow(w) ==
    /\ pc[w] = "read"
    /\ lock[req[w].app] = NoWorker
    /\ ~Admissible(req[w], rows[req[w].app], docs[req[w].app])
    /\ Answer(w)
    /\ UNCHANGED <<db, reviewers, files, lock, arrivals, faults>>

(* PATCH: serializer.save() writes every column of the instance that       *)
(* get_object() loaded before the lock, with the one field it changes.     *)
SavedRow(w) ==
    [snap[w] EXCEPT !.form = [@ EXCEPT ![req[w].arg[1]] = req[w].arg[2]]]

CommitUpdate(w) ==
    /\ pc[w] = "locked" /\ req[w].op = "update"
    /\ rows' = [rows EXCEPT ![req[w].app] = SavedRow(w)]
    /\ Log(w, "updated")
    /\ Unlock(w)
    /\ Answer(w)
    /\ UNCHANGED <<docs, reviewers, files, arrivals, faults>>

CommitSubmit(w) ==
    /\ pc[w] = "locked" /\ req[w].op = "submit"
    /\ rows' = [rows EXCEPT ![req[w].app].status = "submitted"]
    /\ Log(w, "submitted")
    /\ Unlock(w)
    /\ Answer(w)
    /\ UNCHANGED <<docs, reviewers, files, arrivals, faults>>

(* apply_review(): the audit actions are named like the statuses.          *)
CommitReview(w) ==
    /\ pc[w] = "locked" /\ req[w].op = "review"
    /\ rows' = [rows EXCEPT ![req[w].app].status = Outcome[req[w].arg],
                            ![req[w].app].reviewer = req[w].user]
    /\ Log(w, Outcome[req[w].arg])
    /\ Unlock(w)
    /\ Answer(w)
    /\ UNCHANGED <<docs, reviewers, files, arrivals, faults>>

-----------------------------------------------------------------------------
(* Documents *)

(* document.save() puts the file in storage before it inserts the row.     *)
StoreFile(w) ==
    /\ pc[w] = "locked" /\ req[w].op = "upload"
    /\ files' = files \cup {req[w].arg}
    /\ Goto(w, "stored")
    /\ UNCHANGED <<db, reviewers, lock, arrivals, faults>>

CommitUpload(w) ==
    /\ pc[w] = "stored"
    /\ docs' = [docs EXCEPT ![req[w].app] = @ \cup {req[w].arg}]
    /\ Log(w, "document_uploaded")
    /\ Unlock(w)
    /\ Answer(w)
    /\ UNCHANGED <<rows, reviewers, files, arrivals, faults>>

\* Regression: the post_delete receiver is no longer connected.
CommitRemoveNoHook(w) ==
    /\ pc[w] = "locked" /\ req[w].op = "remove"
    /\ docs' = [docs EXCEPT ![req[w].app] = @ \ {req[w].arg}]
    /\ Log(w, "document_removed")
    /\ Unlock(w)
    /\ Answer(w)
    /\ UNCHANGED <<rows, reviewers, files, arrivals, faults>>

(* The row goes; the file is left to the on_commit hook. *)
CommitRemove(w) ==
    /\ pc[w] = "locked" /\ req[w].op = "remove"
    /\ docs' = [docs EXCEPT ![req[w].app] = @ \ {req[w].arg}]
    /\ Log(w, "document_removed")
    /\ Unlock(w)
    /\ Goto(w, "hook")
    /\ UNCHANGED <<rows, reviewers, files, arrivals, faults>>

\* Regression: post_delete removes the file at once, not on commit.
AbortWithoutFile(w) ==
    /\ pc[w] \in {"locked", "stored"}
    /\ faults < MaxFaults
    /\ faults' = faults + 1
    /\ Unlock(w)
    /\ files' = IF req[w].op = "remove" THEN files \ {req[w].arg} ELSE files
    /\ IF pc[w] = "stored" THEN Goto(w, "cleanup") ELSE Answer(w)
    /\ UNCHANGED <<db, reviewers, arrivals>>

\* Regression: the transaction is opened by hand and an exception skips the
\* rollback.
AbortKeepsRow(w) ==
    /\ pc[w] \in {"locked", "stored"}
    /\ faults < MaxFaults
    /\ faults' = faults + 1
    /\ IF pc[w] = "stored" THEN Goto(w, "cleanup") ELSE Answer(w)
    /\ UNCHANGED <<db, reviewers, files, lock, arrivals>>

(* An exception inside the transaction rolls it back; an upload that has   *)
(* stored its file still has to remove it.                                 *)
Abort(w) ==
    /\ pc[w] \in {"locked", "stored"}
    /\ faults < MaxFaults
    /\ faults' = faults + 1
    /\ Unlock(w)
    /\ IF pc[w] = "stored" THEN Goto(w, "cleanup") ELSE Answer(w)
    /\ UNCHANGED <<db, reviewers, files, arrivals>>

(* The on_commit hook of a removal, or the clean-up of a failed upload.    *)
DropFile(w) ==
    /\ pc[w] \in {"hook", "cleanup"}
    /\ files' = files \ {req[w].arg}
    /\ Answer(w)
    /\ UNCHANGED <<db, reviewers, lock, arrivals, faults>>

(* Storage refuses the removal: the error is logged or answered, the file  *)
(* stays.                                                                  *)
DropFails(w) ==
    /\ pc[w] \in {"hook", "cleanup"}
    /\ faults < MaxFaults
    /\ faults' = faults + 1
    /\ Answer(w)
    /\ UNCHANGED <<db, reviewers, files, lock, arrivals>>

(* The worker is killed: PostgreSQL rolls its transaction back.            *)
Crash(w) ==
    /\ pc[w] # "idle"
    /\ faults < MaxFaults
    /\ faults' = faults + 1
    /\ lock' = [a \in Apps |-> IF lock[a] = w THEN NoWorker ELSE lock[a]]
    /\ Answer(w)
    /\ UNCHANGED <<db, reviewers, files, arrivals>>

(* A super admin promotes or demotes an account. *)
ChangeRole(u) ==
    /\ reviewers' = IF u \in reviewers THEN reviewers \ {u} ELSE reviewers \cup {u}
    /\ UNCHANGED <<db, files, lock, pc, req, snap, arrivals, faults>>

-----------------------------------------------------------------------------
(* Specification *)

(* The steps a worker takes by itself once it holds a request, apart from  *)
(* waiting for the row.                                                    *)
Advance(w) ==
    \/ Create(w) \/ GetObject(w)
    \/ CommitUpdate(w) \/ CommitSubmit(w) \/ CommitReview(w)
    \/ StoreFile(w) \/ CommitUpload(w) \/ CommitRemove(w) \/ DropFile(w)

GetRow(w) == TakeRow(w) \/ RefuseRow(w)

Fail(w) == Abort(w) \/ DropFails(w) \/ Crash(w)

Next ==
    \/ \E w \in Workers : Arrive(w) \/ Advance(w) \/ GetRow(w) \/ Fail(w)
    \/ \E u \in Users : ChangeRole(u)

Spec == Init /\ [][Next]_vars

(* A worker keeps running, and PostgreSQL grants a row lock in the order   *)
(* of its queue, so that no waiter is passed over for ever.                *)
Fairness == \A w \in Workers : WF_vars(Advance(w)) /\ SF_vars(GetRow(w))

FairSpec == Spec /\ Fairness

-----------------------------------------------------------------------------
(* Properties *)

(* Every variable keeps its type; a row only has one of the five statuses. *)
TypeOK ==
    /\ rows \in [Apps -> Row]
    /\ docs \in [Apps -> SUBSET Docs]
    /\ audit \in [Apps -> Seq(Entry)]
    /\ reviewers \subseteq Users
    /\ files \subseteq Docs
    /\ lock \in [Apps -> Workers \cup {NoWorker}]
    /\ pc \in [Workers -> Stage]
    /\ req \in [Workers -> Request \cup {NoRequest}]
    /\ snap \in [Workers -> Row]
    /\ arrivals \in Nat
    /\ faults \in Nat

(* What a reviewer reads is what was submitted: neither the form nor the   *)
(* documents of an application change, by any pending PATCH, upload or     *)
(* removal, while it is under review or after it is decided.               *)
DossierFrozen ==
    [][\A a \in Apps :
          rows[a].status \notin Editable \cup {"absent"}
              => /\ rows'[a].form = rows[a].form
                 /\ docs'[a] = docs[a]]_vars

(* An approval or a rejection stands: no request in flight when it was     *)
(* taken, and no later one, changes the row.                               *)
DecisionIsFinal ==
    [][\A a \in Apps : rows[a].status \in Closed => rows'[a] = rows[a]]_vars

(* The last line of a decided application's audit trail is that decision,  *)
(* by the reviewer the row names, who is not the applicant (promotions     *)
(* between any two steps included).                                        *)
DecisionAttributed ==
    \A a \in Apps :
        rows[a].status \in Closed =>
            /\ audit[a] # <<>>
            /\ audit[a][Len(audit[a])] =
                   [action |-> rows[a].status, actor |-> rows[a].reviewer]
            /\ rows[a].reviewer # rows[a].owner

(* A reviewer never finds an application without a document or with an ID  *)
(* that had expired when it was submitted.                                 *)
UnderReviewIsComplete ==
    \A a \in Apps :
        rows[a].status \notin Editable \cup {"absent"}
            => /\ docs[a] # {}
               /\ rows[a].form[IdExpiry] \notin Expired

(* Concurrent uploads never take an application beyond the cap.            *)
DocumentCap == \A a \in Apps : Cardinality(docs[a]) <= Cap

(* A document that the database lists can be downloaded: its file is in    *)
(* storage, whatever failed or was rolled back around it.                  *)
DocumentHasFile == \A a \in Apps : docs[a] \subseteq files

(* Every file in storage belongs to a document, or to a request that is    *)
(* about to insert its row or remove the file; each fault leaks one file   *)
(* at most.                                                                *)
Owned(f) ==
    \/ \E a \in Apps : f \in docs[a]
    \/ \E w \in Workers : pc[w] \in {"stored", "hook", "cleanup"} /\ req[w].arg = f

FilesAccountedFor == Cardinality({f \in files : ~Owned(f)}) <= faults

(* The audit trail tells whether an application is editable, under review  *)
(* or decided: replaying its last status-changing entry gives the phase.   *)
(* (It cannot tell draft from resubmission_requested: see ReviewStands.)   *)
PhaseAfter(action) ==
    CASE action \in {"created", "resubmission_requested"} -> Editable
      [] action = "submitted" -> {"submitted"}
      [] OTHER -> {action}

Silent == {"updated", "document_uploaded", "document_removed"}

AuditExplainsStatus ==
    \A a \in Apps : \A i \in 1..Len(audit[a]) :
        /\ audit[a][i].action \notin Silent
        /\ \A j \in (i + 1)..Len(audit[a]) : audit[a][j].action \in Silent
        => rows[a].status \in PhaseAfter(audit[a][i].action)

(* The trail also accounts for the documents: uploads less removals.       *)
Entries(a, action) == {i \in 1..Len(audit[a]) : audit[a][i].action = action}

AuditAccountsForDocuments ==
    \A a \in Apps :
        Cardinality(Entries(a, "document_uploaded"))
            = Cardinality(docs[a]) + Cardinality(Entries(a, "document_removed"))

(* Every request is answered: no worker waits for ever for a row.          *)
RequestsAnswered == \A w \in Workers : pc[w] # "idle" ~> pc[w] = "idle"

(* ReviewDetailPage tells the reviewer that a decision cannot be undone:   *)
(* what request_resubmission wrote should stand until the owner submits    *)
(* again.  A PATCH that loaded the draft before it undoes it.              *)
ReviewStands ==
    [][\A a \in Apps :
          rows[a].status = "resubmission_requested"
              => \/ rows'[a].status = "submitted"
                 \/ /\ rows'[a].status = rows[a].status
                    /\ rows'[a].reviewer = rows[a].reviewer]_vars

-----------------------------------------------------------------------------
(* Refinement: committed rows implement ApplicationLifecycle. *)

PhaseOf(status) ==
    CASE status \in Editable -> "open"
      [] status = "submitted" -> "review"
      [] OTHER -> status

PhaseMap == [b \in Apps |-> PhaseOf(rows[b].status)]
OwnerMap == [b \in Apps |-> rows[b].owner]
FormMap == [b \in Apps |-> rows[b].form]
DeciderMap == [b \in Apps |-> IF rows[b].status \in Closed
                              THEN rows[b].reviewer ELSE NoUser]

Lifecycle == INSTANCE ApplicationLifecycle WITH
    Forms <- Form,
    InvalidForms <- {f \in Form : f[IdExpiry] \in Expired},
    phase <- PhaseMap, owner <- OwnerMap, form <- FormMap, decider <- DeciderMap

(* Whatever the interleaving, the requests implement the lifecycle that    *)
(* ARCHITECTURE 4.5 draws, with its two editable statuses merged.          *)
LifecycleSpec == Lifecycle!Spec

=============================================================================
