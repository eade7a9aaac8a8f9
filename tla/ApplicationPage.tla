---------------------------- MODULE ApplicationPage ----------------------------
(***************************************************************************)
(* features/applications/pages/ApplicationDetailPage.tsx with its sections *)
(* (DocumentList, AuditTrail), Pagination, Modal and api/applications.ts.  *)
(*                                                                         *)
(* The address may change from one application to another with the page    *)
(* mounted.  The page's own user is the applicant of Mine; a reviewer      *)
(* decides meanwhile.  Every change of an application writes one audit     *)
(* entry, so its version is also the length of its trail, and a page of    *)
(* the trail holds one entry.                                              *)
(***************************************************************************)
EXTENDS Integers

CONSTANTS
    Apps,
    Mine,           \* the applications whose applicant is the user
    NoApp,          \* nothing loaded
    MaxDocuments,
    MaxLoads,       \* bound: load() and loadAudit() calls, each
    MaxVersions,    \* bound: changes of one application
    MaxMoves,       \* bound: changes of address
    MaxFaults       \* bound: calls that fail on the way

AppsAssumption == Apps # {} /\ Mine \subseteq Apps /\ NoApp \notin Apps
BoundAssumption ==
    /\ MaxDocuments \in Nat \ {0} /\ MaxLoads \in Nat \ {0} /\ MaxVersions \in Nat \ {0}
    /\ MaxMoves \in Nat /\ MaxFaults \in Nat

VARIABLES
    dossier,        \* dossier[a]: application a on the server
    route,          \* id, of the address
    app,
    error,
    loads,          \* load() calls
    loadRef,        \* loadRequestRef
    audit,          \* the entries shown: whose, which page, of which version
    auditPage,
    auditError,
    audits,         \* loadAudit() calls
    auditRef,       \* auditRequestRef
    busy,
    action,         \* what runAction runs
    notice,
    actionError,
    file,           \* the chosen file
    confirming,     \* confirmingSubmit
    acked,          \* history: acked[a], the version of a the user was told of
    moves, faults   \* bounds

auditState == <<audit, auditPage, auditError, audits, auditRef>>
form == <<notice, actionError, file, confirming>>
bounds == <<moves, faults>>
vars == <<dossier, route, app, error, auditState, loads, loadRef, busy, action, form,
          acked, bounds>>

-----------------------------------------------------------------------------
(* Data *)

Statuses == {"draft", "submitted", "resubmission_requested", "approved", "rejected"}
EditableStatuses == {"draft", "resubmission_requested"}
Versions == 0..MaxVersions
Dossier == [status : Statuses, documents : 0..MaxDocuments, version : Versions]
Shown == [of : Apps \cup {NoApp}, status : Statuses, documents : 0..MaxDocuments,
          version : Versions]
Nothing == [of |-> NoApp, status |-> "draft", documents |-> 0, version |-> 0]
Snapshot(a) == [of |-> a, status |-> dossier[a].status, documents |-> dossier[a].documents,
                version |-> dossier[a].version]

Ids == 1..MaxLoads
CallStates == {"none", "sent", "ok", "failed", "done"}
LoadCall == [state : CallStates, of : Apps, at : Apps, answer : Shown]
AuditPages == 1..(MaxVersions + 1)
Trail == [of : Apps \cup {NoApp}, page : AuditPages, next : BOOLEAN, prev : BOOLEAN]
NoTrail == [of |-> NoApp, page |-> 1, next |-> FALSE, prev |-> FALSE]
AuditCall == [state : CallStates, of : Apps, page : AuditPages, answer : Trail]

Kinds == {"upload", "remove", "submit"}
Action == [state : {"idle", "sent", "ok", "failed", "reloading"}, kind : Kinds, of : Apps,
           page : AuditPages, version : Versions, load : 0..MaxLoads, audit : 0..MaxLoads]
Files == {"none", "valid", "invalid"}

AnyApp == CHOOSE a \in Apps : TRUE
NoLoad == [state |-> "none", of |-> AnyApp, at |-> AnyApp, answer |-> Nothing]
NoAudit == [state |-> "none", of |-> AnyApp, page |-> 1, answer |-> NoTrail]
Idle == [state |-> "idle", kind |-> "upload", of |-> AnyApp, page |-> 1, version |-> 0,
         load |-> 0, audit |-> 0]

-----------------------------------------------------------------------------
(* load(), loadAudit() and their effects *)

\* Bound: what the action under way will still need.
Reserved == IF action.state \in {"sent", "ok"} THEN 1 ELSE 0

Load(a, here) ==
    /\ loadRef < MaxLoads
    /\ loadRef' = loadRef + 1
    /\ loads' = [loads EXCEPT ![loadRef + 1] =
                   [NoLoad EXCEPT !.state = "sent", !.of = a, !.at = here]]

LoadAudit(a, p) ==
    /\ auditRef < MaxLoads
    /\ auditRef' = auditRef + 1
    /\ audits' = [audits EXCEPT ![auditRef + 1] =
                    [NoAudit EXCEPT !.state = "sent", !.of = a, !.page = p]]
    /\ auditError' = FALSE

Init ==
    /\ dossier \in [Apps -> {d \in Dossier : /\ d.version = 1
                                             /\ d.status \in {"draft", "submitted"}
                                             /\ d.status = "submitted" => d.documents > 0}]
    /\ route \in Apps
    /\ app = Nothing
    /\ error = FALSE
    /\ loads = [i \in Ids |-> IF i = 1 THEN [NoLoad EXCEPT !.state = "sent", !.of = route, !.at = route]
                              ELSE NoLoad]
    /\ loadRef = 1
    /\ audit = NoTrail
    /\ auditPage = 1
    /\ auditError = FALSE
    /\ audits = [i \in Ids |-> IF i = 1 THEN [NoAudit EXCEPT !.state = "sent", !.of = route]
                               ELSE NoAudit]
    /\ auditRef = 1
    /\ busy = FALSE
    /\ action = Idle
    /\ notice = "none"
    /\ actionError = FALSE
    /\ file = "none"
    /\ confirming = FALSE
    /\ acked = [a \in Apps |-> 0]
    /\ moves = 0
    /\ faults = 0

\* Regression: the page of the application before stays until the next is there.
MoveKeeping(a) ==
    /\ a # route
    /\ moves < MaxMoves /\ loadRef + Reserved < MaxLoads /\ auditRef + Reserved < MaxLoads
    /\ moves' = moves + 1
    /\ route' = a
    /\ Load(a, a)
    /\ auditPage' = 1
    /\ LoadAudit(a, 1)
    /\ UNCHANGED <<dossier, app, error, audit, busy, action, form, acked, faults>>

(* Back or forward to another application: the effects on id. *)
Move(a) ==
    /\ a # route
    /\ moves < MaxMoves /\ loadRef + Reserved < MaxLoads /\ auditRef + Reserved < MaxLoads
    /\ moves' = moves + 1
    /\ route' = a
    /\ app' = Nothing
    /\ error' = FALSE
    /\ Load(a, a)
    /\ auditPage' = 1
    /\ LoadAudit(a, 1)
    /\ UNCHANGED <<dossier, audit, busy, action, form, acked, faults>>

ServeLoad(i) ==
    /\ loads[i].state = "sent"
    /\ loads' = [loads EXCEPT ![i].state = "ok", ![i].answer = Snapshot(loads[i].of)]
    /\ UNCHANGED <<dossier, route, app, error, auditState, loadRef, busy, action, form,
                   acked, bounds>>

FailLoad(i) ==
    /\ loads[i].state = "sent"
    /\ faults < MaxFaults
    /\ faults' = faults + 1
    /\ loads' = [loads EXCEPT ![i].state = "failed"]
    /\ UNCHANGED <<dossier, route, app, error, auditState, loadRef, busy, action, form,
                   acked, moves>>

\* Regression: the answers are taken as they come.
AnyLoad(i) == i \in Ids

(* requestId === loadRequestRef.current *)
NewestLoad(i) == i = loadRef

\* Regression: an answer that comes too late is not told from a failure.
ReceiveLoadOrFail(i) ==
    /\ loads[i].state \in {"ok", "failed"}
    /\ loads' = [loads EXCEPT ![i].state = "done"]
    /\ app' = IF loads[i].state = "ok" /\ NewestLoad(i) THEN loads[i].answer ELSE app
    /\ UNCHANGED <<dossier, route, error, auditState, loadRef, busy, action, form, acked,
                   bounds>>

(* load() resumes. *)
ReceiveLoad(i) ==
    /\ loads[i].state \in {"ok", "failed"}
    /\ loads' = [loads EXCEPT ![i].state = "done"]
    /\ app' = IF loads[i].state = "ok" /\ NewestLoad(i) THEN loads[i].answer ELSE app
    /\ error' = (error \/ (loads[i].state = "failed" /\ NewestLoad(i)))
    /\ UNCHANGED <<dossier, route, auditState, loadRef, busy, action, form, acked, bounds>>

(* The audit action of the view: pages past the end are refused. *)
ServeAudit(i) ==
    LET c == audits[i]
        n == dossier[c.of].version
    IN /\ c.state = "sent"
       /\ audits' = [audits EXCEPT ![i] =
                       IF c.page = 1 \/ c.page <= n
                       THEN [c EXCEPT !.state = "ok",
                                      !.answer = [of |-> c.of, page |-> c.page,
                                                  next |-> c.page < n, prev |-> c.page > 1]]
                       ELSE [c EXCEPT !.state = "failed"]]
       /\ UNCHANGED <<dossier, route, app, error, audit, auditPage, auditError, auditRef,
                      loads, loadRef, busy, action, form, acked, bounds>>

FailAudit(i) ==
    /\ audits[i].state = "sent"
    /\ faults < MaxFaults
    /\ faults' = faults + 1
    /\ audits' = [audits EXCEPT ![i].state = "failed"]
    /\ UNCHANGED <<dossier, route, app, error, audit, auditPage, auditError, auditRef,
                   loads, loadRef, busy, action, form, acked, moves>>

\* Regression: the answers are taken as they come.
AnyAudit(i) == i \in Ids

(* requestId === auditRequestRef.current *)
NewestAudit(i) == i = auditRef

(* loadAudit() resumes. *)
ReceiveAudit(i) ==
    /\ audits[i].state \in {"ok", "failed"}
    /\ audits' = [audits EXCEPT ![i].state = "done"]
    /\ audit' = IF audits[i].state = "ok" /\ NewestAudit(i) THEN audits[i].answer ELSE audit
    /\ auditError' = (auditError \/ (audits[i].state = "failed" /\ NewestAudit(i)))
    /\ UNCHANGED <<dossier, route, app, error, auditPage, auditRef, loads, loadRef, busy,
                   action, form, acked, bounds>>

-----------------------------------------------------------------------------
(* What the page lets its user do *)

Visible == ~error /\ app # Nothing
Editable == app.status \in EditableStatuses
IsOwner == app.of \in Mine

\* Regression: Math.max(1, ...) is left out.
PreviousUnclamped == auditPage - 1

Previous == IF auditPage > 1 THEN auditPage - 1 ELSE 1

(* Prev and Next of the trail, never disabled by a load.  The effect on    *)
(* auditPage loads every page but the first.                               *)
TurnAudit ==
    /\ Visible
    /\ \/ audit.prev /\ auditPage' = Previous
       \/ audit.next /\ auditPage <= MaxVersions /\ auditPage' = auditPage + 1
    /\ IF auditPage' \in {1, auditPage} THEN UNCHANGED <<audits, auditRef, auditError>>
       ELSE auditRef + Reserved < MaxLoads /\ LoadAudit(route, auditPage')
    /\ UNCHANGED <<dossier, route, app, error, audit, loads, loadRef, busy, action, form,
                   acked, bounds>>

ChooseFile(f) ==
    /\ Visible /\ Editable /\ IsOwner
    /\ file # f
    /\ file' = f
    /\ UNCHANGED <<dossier, route, app, error, auditState, loads, loadRef, busy, action,
                   notice, actionError, confirming, acked, bounds>>

(* runAction() up to its await, with the id and the page of this render. *)
Run(kind) ==
    /\ Visible
    /\ ~busy
    /\ loadRef < MaxLoads /\ auditRef < MaxLoads /\ dossier[route].version < MaxVersions
    /\ busy' = TRUE
    /\ notice' = "none"
    /\ actionError' = FALSE
    /\ action' = [Idle EXCEPT !.state = "sent", !.kind = kind, !.of = route, !.page = auditPage]
    /\ UNCHANGED <<dossier, route, app, error, auditState, loads, loadRef, file, acked, bounds>>

Upload ==
    /\ Editable /\ IsOwner
    /\ file = "valid"
    /\ Run("upload")
    /\ UNCHANGED confirming

(* The Remove button of DocumentList. *)
Remove ==
    /\ Editable /\ IsOwner
    /\ app.documents > 0
    /\ Run("remove")
    /\ UNCHANGED confirming

OpenConfirm ==
    /\ Visible /\ Editable /\ IsOwner
    /\ ~busy /\ app.documents > 0
    /\ confirming' = TRUE
    /\ UNCHANGED <<dossier, route, app, error, auditState, loads, loadRef, busy, action,
                   notice, actionError, file, acked, bounds>>

(* Cancel, Escape, the cross and the backdrop. *)
CloseConfirm ==
    /\ Visible /\ confirming
    /\ confirming' = FALSE
    /\ UNCHANGED <<dossier, route, app, error, auditState, loads, loadRef, busy, action,
                   notice, actionError, file, acked, bounds>>

(* confirmSubmit() *)
Confirm ==
    /\ confirming
    /\ Run("submit")
    /\ UNCHANGED confirming

-----------------------------------------------------------------------------
(* The action's call and what follows it *)

Allowed(d, kind) ==
    /\ d.status \in EditableStatuses
    /\ kind = "upload" => d.documents < MaxDocuments
    /\ kind # "upload" => d.documents > 0

After(d, kind) ==
    [d EXCEPT !.version = @ + 1,
              !.status = IF kind = "submit" THEN "submitted" ELSE @,
              !.documents = CASE kind = "upload" -> @ + 1
                              [] kind = "remove" -> @ - 1
                              [] OTHER -> @]

(* The views of documents and submit: done, refused, or done and the       *)
(* answer lost.                                                            *)
ServeAction ==
    LET d == dossier[action.of] IN
        /\ action.state = "sent"
        /\ IF action.of \in Mine /\ Allowed(d, action.kind)
           THEN /\ dossier' = [dossier EXCEPT ![action.of] = After(d, action.kind)]
                /\ \/ /\ action' = [action EXCEPT !.state = "ok", !.version = d.version + 1]
                      /\ UNCHANGED faults
                   \/ /\ faults < MaxFaults
                      /\ faults' = faults + 1
                      /\ action' = [action EXCEPT !.state = "failed"]
           ELSE /\ action' = [action EXCEPT !.state = "failed"]
                /\ UNCHANGED <<dossier, faults>>
        /\ UNCHANGED <<route, app, error, auditState, loads, loadRef, busy, form, acked, moves>>

FailAction ==
    /\ action.state = "sent"
    /\ faults < MaxFaults
    /\ faults' = faults + 1
    /\ action' = [action EXCEPT !.state = "failed"]
    /\ UNCHANGED <<dossier, route, app, error, auditState, loads, loadRef, busy, form,
                   acked, moves>>

\* Regression: the page is not read again.
ActionDoneWithoutReload ==
    /\ action.state = "ok"
    /\ notice' = action.kind
    /\ file' = IF action.kind = "upload" THEN "none" ELSE file
    /\ acked' = [acked EXCEPT ![action.of] = action.version]
    /\ action' = [action EXCEPT !.state = "reloading", !.load = loadRef, !.audit = auditRef]
    /\ UNCHANGED <<dossier, route, app, error, auditState, loads, loadRef, busy,
                   actionError, confirming, bounds>>

(* The notice, and both reads of the application the action was for. *)
ActionDone ==
    /\ action.state = "ok"
    /\ notice' = action.kind
    /\ file' = IF action.kind = "upload" THEN "none" ELSE file
    /\ acked' = [acked EXCEPT ![action.of] = action.version]
    /\ Load(action.of, route)
    /\ LoadAudit(action.of, action.page)
    /\ action' = [action EXCEPT !.state = "reloading", !.load = loadRef + 1,
                                !.audit = auditRef + 1]
    /\ UNCHANGED <<dossier, route, app, error, audit, auditPage, busy, actionError,
                   confirming, bounds>>

\* Regression: setBusy(false) is left out of the error path.
FinishBusy(failed) ==
    /\ busy' = failed
    /\ action' = Idle
    /\ actionError' = (actionError \/ failed)
    /\ confirming' = (confirming /\ action.kind # "submit")
    /\ UNCHANGED <<dossier, route, app, error, auditState, loads, loadRef, notice, file, acked, bounds>>

(* catch and finally, and the rest of confirmSubmit(). *)
Finish(failed) ==
    /\ busy' = FALSE
    /\ action' = Idle
    /\ actionError' = (actionError \/ failed)
    /\ confirming' = (confirming /\ action.kind # "submit")
    /\ UNCHANGED <<dossier, route, app, error, auditState, loads, loadRef, notice, file, acked, bounds>>

ActionRefused == action.state = "failed" /\ Finish(TRUE)

Reloaded ==
    /\ action.state = "reloading"
    /\ loads[action.load].state = "done"
    /\ audits[action.audit].state = "done"
    /\ Finish(FALSE)

(* A reviewer decides, and may be followed by others. *)
Review(a) ==
    /\ dossier[a].status = "submitted"
    /\ dossier[a].version + (IF action.of = a THEN Reserved ELSE 0) < MaxVersions
    /\ \E s \in {"resubmission_requested", "approved", "rejected"} :
         dossier' = [dossier EXCEPT ![a].status = s, ![a].version = @ + 1]
    /\ UNCHANGED <<route, app, error, auditState, loads, loadRef, busy, action, form,
                   acked, bounds>>

-----------------------------------------------------------------------------
(* Specification *)

System ==
    \/ \E i \in Ids : ServeLoad(i) \/ ReceiveLoad(i) \/ ServeAudit(i) \/ ReceiveAudit(i)
    \/ ServeAction \/ ActionDone \/ ActionRefused \/ Reloaded

Next ==
    \/ System
    \/ \E i \in Ids : FailLoad(i) \/ FailAudit(i)
    \/ FailAction
    \/ \E a \in Apps : Move(a) \/ Review(a)
    \/ TurnAudit
    \/ \E f \in Files : ChooseFile(f)
    \/ Upload \/ Remove \/ OpenConfirm \/ CloseConfirm \/ Confirm

Spec == Init /\ [][Next]_vars

-----------------------------------------------------------------------------
(* Properties *)

(* Type invariant. *)
TypeOK ==
    /\ dossier \in [Apps -> Dossier]
    /\ route \in Apps
    /\ app \in Shown
    /\ error \in BOOLEAN
    /\ loads \in [Ids -> LoadCall]
    /\ loadRef \in Ids
    /\ audit \in Trail
    /\ auditPage \in AuditPages
    /\ auditError \in BOOLEAN
    /\ audits \in [Ids -> AuditCall]
    /\ auditRef \in Ids
    /\ busy \in BOOLEAN
    /\ action \in Action
    /\ notice \in Kinds \cup {"none"}
    /\ actionError \in BOOLEAN
    /\ file \in Files
    /\ confirming \in BOOLEAN
    /\ acked \in [Apps -> Versions]
    /\ moves \in 0..MaxMoves
    /\ faults \in 0..MaxFaults

(* The page shows the application of its address, whatever order the       *)
(* answers come in.  The one exception is an action begun before the       *)
(* address changed: runAction's load() is of the old render, and counts as *)
(* the newest.                                                             *)
Strayed(i) == loads[i].at # loads[i].of /\ loads[i].answer = app
ShownIsOfAddress == app # Nothing => app.of = route \/ \E i \in Ids : Strayed(i)

(* Once the newest load() has its answer, what is shown includes every     *)
(* change the user was told of: no older answer lands on a newer one, and  *)
(* "Document uploaded." does not stand over a list without it.             *)
AcknowledgedIsShown ==
    Visible /\ loads[loadRef].state = "done" => app.version >= acked[app.of]

(* The trail shown without an error is the one asked for last, however     *)
(* fast its pages are turned and whatever is reloaded meanwhile.           *)
TrailIsNewestAsked ==
    audits[auditRef].state = "done" /\ ~auditError =>
        audit.of = audits[auditRef].of /\ audit.page = audits[auditRef].page

(* ARCHITECTURE 7.3 on pagination "which guards against out-of-order       *)
(* responses": with the answers in, the entries are of the page the        *)
(* pager names. They are not: nothing is loaded on the way back to page    *)
(* 1.                                                                      *)
TrailMatchesPager ==
    audits[auditRef].state = "done" /\ ~auditError => audit.page = auditPage

(* Nothing but the loader is shown, or an action holds the buttons.  Both  *)
(* end, whatever fails and wherever the user goes.                         *)
Unsettled == (app = Nothing /\ ~error) \/ busy

=============================================================================
