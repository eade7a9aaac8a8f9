------------------------------- MODULE ReviewPage -------------------------------
(***************************************************************************)
(* features/review/pages/ReviewDetailPage.tsx between the review queue and *)
(* the server.  Other reviewers decide too, and applicants resubmit what   *)
(* was returned.  The page reads an application and then its audit trail   *)
(* under one request number.  A decision's call outlives the page: its     *)
(* success still navigates to the queue.                                   *)
(***************************************************************************)
EXTENDS Integers

CONSTANTS
    Apps,
    Queue,          \* the address /review
    NoApp,
    MaxLoads,       \* bound: load() calls of one mount
    MaxRounds,      \* bound: resubmissions of one application
    MaxMoves,       \* bound: changes of address
    MaxCalls,       \* bound: decisions sent
    MaxFaults       \* bound: calls that fail on the way

NamesAssumption == Apps # {} /\ {Queue, NoApp} \cap Apps = {} /\ Queue # NoApp
BoundAssumption ==
    /\ MaxLoads \in Nat \ {0} /\ MaxRounds \in Nat /\ MaxMoves \in Nat
    /\ MaxCalls \in Nat /\ MaxFaults \in Nat

VARIABLES
    dossier,        \* dossier[a]: application a on the server
    route,
    mount,          \* which mount of the page this is
    app, trail,     \* the application shown, and whose audit entries
    auditError,
    decision, notes,
    error,
    busy,
    loads, loadRef, \* load() calls of this mount, loadRequestRef
    calls, sent,    \* decisions sent, and how many
    moves, faults   \* bounds

shown == <<app, trail, auditError>>
entered == <<decision, notes>>
bounds == <<moves, faults>>
vars == <<dossier, route, mount, shown, entered, error, busy, loads, loadRef, calls, sent,
          bounds>>

-----------------------------------------------------------------------------
(* Data *)

Decisions == {"approve", "reject", "request_resubmission"}
Statuses == {"submitted", "resubmission_requested", "final"}
Rounds == 0..MaxRounds
Dossier == [status : Statuses, round : Rounds]
Shown == [of : Apps \cup {NoApp}, status : Statuses, round : Rounds]
Nothing == [of |-> NoApp, status |-> "submitted", round |-> 0]
Snapshot(a) == [of |-> a, status |-> dossier[a].status, round |-> dossier[a].round]

LoadIds == 1..MaxLoads
Load == [state : {"none", "sent", "ok", "failed", "auditing", "auditOk", "auditFailed", "done"},
         of : Apps \cup {NoApp}, answer : Shown]
NoLoad == [state |-> "none", of |-> NoApp, answer |-> Nothing]
FirstLoad(a) == [i \in LoadIds |-> IF i = 1 THEN [NoLoad EXCEPT !.state = "sent", !.of = a]
                                   ELSE NoLoad]

CallIds == 1..MaxCalls
Call == [state : {"none", "sent", "ok", "failed", "done"}, of : Apps \cup {NoApp},
         decision : Decisions, mount : 0..(MaxMoves + MaxCalls)]
NoCall == [state |-> "none", of |-> NoApp, decision |-> "approve", mount |-> 0]

(* useState()'s initial values. *)
Blank ==
    /\ app' = Nothing /\ trail' = NoApp /\ auditError' = FALSE
    /\ decision' = "approve" /\ notes' = FALSE
    /\ error' = "none" /\ busy' = FALSE

Init ==
    /\ dossier = [a \in Apps |-> [status |-> "submitted", round |-> 0]]
    /\ route = Queue
    /\ mount = 0
    /\ app = Nothing /\ trail = NoApp /\ auditError = FALSE
    /\ decision = "approve" /\ notes = FALSE
    /\ error = "none" /\ busy = FALSE
    /\ loads = [i \in LoadIds |-> NoLoad] /\ loadRef = 0
    /\ calls = [c \in CallIds |-> NoCall] /\ sent = 0
    /\ moves = 0 /\ faults = 0

-----------------------------------------------------------------------------
(* Moving about *)

(* From the queue, whose links are the submitted applications. *)
Open(a) ==
    /\ route = Queue /\ moves < MaxMoves
    /\ moves' = moves + 1
    /\ route' = a
    /\ mount' = mount + 1
    /\ Blank
    /\ loads' = FirstLoad(a) /\ loadRef' = 1
    /\ UNCHANGED <<dossier, calls, sent, faults>>

(* The page unmounts: what its load() would still do is lost. *)
Unmount ==
    /\ route' = Queue
    /\ Blank
    /\ loads' = [i \in LoadIds |-> NoLoad] /\ loadRef' = 0
    /\ UNCHANGED mount

Leave == route # Queue /\ Unmount /\ UNCHANGED <<dossier, calls, sent, bounds>>

\* Regression: the page of before stays until the next is there.
MoveKeeping(a) ==
    /\ route \in Apps \ {a} /\ moves < MaxMoves /\ loadRef < MaxLoads
    /\ moves' = moves + 1
    /\ route' = a
    /\ error' = "none"
    /\ loadRef' = loadRef + 1
    /\ loads' = [loads EXCEPT ![loadRef + 1] = [NoLoad EXCEPT !.state = "sent", !.of = a]]
    /\ UNCHANGED <<dossier, mount, shown, entered, busy, calls, sent, faults>>

(* Back or forward to another application: the effect on id.  The decision *)
(* and the notes stay, and so do the audit entries.                        *)
Move(a) ==
    /\ route \in Apps \ {a} /\ moves < MaxMoves /\ loadRef < MaxLoads
    /\ moves' = moves + 1
    /\ route' = a
    /\ app' = Nothing
    /\ error' = "none"
    /\ loadRef' = loadRef + 1
    /\ loads' = [loads EXCEPT ![loadRef + 1] = [NoLoad EXCEPT !.state = "sent", !.of = a]]
    /\ UNCHANGED <<dossier, mount, trail, auditError, entered, busy, calls, sent, faults>>

-----------------------------------------------------------------------------
(* load() *)

Serve(i) ==
    /\ \/ /\ loads[i].state = "sent"
          /\ loads' = [loads EXCEPT ![i].state = "ok", ![i].answer = Snapshot(loads[i].of)]
       \/ /\ loads[i].state = "auditing"
          /\ loads' = [loads EXCEPT ![i].state = "auditOk"]
    /\ UNCHANGED <<dossier, route, mount, shown, entered, error, busy, loadRef, calls, sent,
                   bounds>>

Fail(i) ==
    /\ faults < MaxFaults
    /\ faults' = faults + 1
    /\ \/ loads[i].state = "sent" /\ loads' = [loads EXCEPT ![i].state = "failed"]
       \/ loads[i].state = "auditing" /\ loads' = [loads EXCEPT ![i].state = "auditFailed"]
    /\ UNCHANGED <<dossier, route, mount, shown, entered, error, busy, loadRef, calls, sent,
                   moves>>

\* Regression: the answers are taken as they come.
AnyLoad(i) == i \in LoadIds

(* requestId === loadRequestRef.current *)
Newest(i) == i = loadRef

(* The application has come, and the trail is asked for. *)
ReceiveApp(i) ==
    /\ loads[i].state = "ok"
    /\ IF Newest(i)
       THEN /\ app' = loads[i].answer
            /\ auditError' = FALSE
            /\ loads' = [loads EXCEPT ![i].state = "auditing"]
       ELSE /\ loads' = [loads EXCEPT ![i].state = "done"]
            /\ UNCHANGED <<app, auditError>>
    /\ UNCHANGED <<dossier, route, mount, trail, entered, error, busy, loadRef, calls, sent,
                   bounds>>

\* Regression: a failed load is only logged.
ReceiveErrorQuietly(i) ==
    /\ loads[i].state = "failed"
    /\ loads' = [loads EXCEPT ![i].state = "done"]
    /\ UNCHANGED <<dossier, route, mount, shown, entered, error, busy, loadRef, calls, sent,
                   bounds>>

ReceiveError(i) ==
    /\ loads[i].state = "failed"
    /\ loads' = [loads EXCEPT ![i].state = "done"]
    /\ error' = IF Newest(i) THEN "load" ELSE error
    /\ UNCHANGED <<dossier, route, mount, shown, entered, busy, loadRef, calls, sent, bounds>>

ReceiveTrail(i) ==
    /\ loads[i].state \in {"auditOk", "auditFailed"}
    /\ loads' = [loads EXCEPT ![i].state = "done"]
    /\ trail' = IF Newest(i) /\ loads[i].state = "auditOk" THEN loads[i].of ELSE trail
    /\ auditError' = (auditError \/ (Newest(i) /\ loads[i].state = "auditFailed"))
    /\ UNCHANGED <<dossier, route, mount, app, entered, error, busy, loadRef, calls, sent,
                   bounds>>

-----------------------------------------------------------------------------
(* The decision *)

FormShown == app # Nothing /\ app.status = "submitted"

Enter(d, n) ==
    /\ FormShown
    /\ <<d, n>> # <<decision, notes>>
    /\ decision' = d /\ notes' = n
    /\ UNCHANGED <<dossier, route, mount, shown, error, busy, loads, loadRef, calls, sent,
                   bounds>>

(* validateReviewNotes() *)
NotesMissing == decision # "approve" /\ ~notes

(* onSubmit() up to its await. *)
Submit ==
    /\ FormShown /\ ~busy
    /\ IF NotesMissing
       THEN error' = "notes" /\ UNCHANGED <<busy, calls, sent>>
       ELSE /\ sent < MaxCalls
            /\ sent' = sent + 1
            /\ calls' = [calls EXCEPT ![sent + 1] =
                 [state |-> "sent", of |-> route, decision |-> decision,
                  mount |-> mount]]
            /\ busy' = TRUE
            /\ error' = "none"
    /\ UNCHANGED <<dossier, route, mount, shown, entered, loads, loadRef, bounds>>

\* Regression: a return keeps the name of the decision.
OutcomeAsAsked(d) == IF d = "request_resubmission" THEN d ELSE "final"

(* apply_review() *)
Outcome(d) == IF d = "request_resubmission" THEN "resubmission_requested" ELSE "final"

(* The review view: refused unless submitted; the answer may be lost. *)
ServeDecision(c) ==
    LET a == calls[c].of IN
        /\ calls[c].state = "sent"
        /\ IF dossier[a].status = "submitted"
           THEN /\ dossier' = [dossier EXCEPT ![a].status = Outcome(calls[c].decision)]
                /\ \/ calls' = [calls EXCEPT ![c].state = "ok"] /\ UNCHANGED faults
                   \/ /\ faults < MaxFaults /\ faults' = faults + 1
                      /\ calls' = [calls EXCEPT ![c].state = "failed"]
           ELSE /\ calls' = [calls EXCEPT ![c].state = "failed"]
                /\ UNCHANGED <<dossier, faults>>
        /\ UNCHANGED <<route, mount, shown, entered, error, busy, loads, loadRef, sent, moves>>

(* navigate("/review"), wherever the reviewer is now. *)
DecisionTaken(c) ==
    /\ calls[c].state = "ok"
    /\ calls' = [calls EXCEPT ![c].state = "done"]
    /\ IF route = Queue
       THEN UNCHANGED <<route, mount, shown, entered, error, busy, loads, loadRef>>
       ELSE Unmount
    /\ UNCHANGED <<dossier, sent, bounds>>

\* Regression: setBusy(false) is left out.
DecisionRefusedBusy(c) ==
    /\ calls[c].state = "failed"
    /\ calls' = [calls EXCEPT ![c].state = "done"]
    /\ error' = IF calls[c].mount = mount /\ route # Queue THEN "review" ELSE error
    /\ UNCHANGED <<dossier, route, mount, shown, entered, busy, loads, loadRef, sent, bounds>>

DecisionRefused(c) ==
    /\ calls[c].state = "failed"
    /\ calls' = [calls EXCEPT ![c].state = "done"]
    /\ IF calls[c].mount = mount /\ route # Queue
       THEN error' = "review" /\ busy' = FALSE
       ELSE UNCHANGED <<error, busy>>
    /\ UNCHANGED <<dossier, route, mount, shown, entered, loads, loadRef, sent, bounds>>

-----------------------------------------------------------------------------
(* The others *)

DecideElsewhere(a, d) ==
    /\ dossier[a].status = "submitted"
    /\ dossier' = [dossier EXCEPT ![a].status = Outcome(d)]
    /\ UNCHANGED <<route, mount, shown, entered, error, busy, loads, loadRef,
                   calls, sent, bounds>>

(* The applicant edits and resubmits. *)
Resubmit(a) ==
    /\ dossier[a].status = "resubmission_requested" /\ dossier[a].round < MaxRounds
    /\ dossier' = [dossier EXCEPT ![a].status = "submitted", ![a].round = @ + 1]
    /\ UNCHANGED <<route, mount, shown, entered, error, busy, loads, loadRef,
                   calls, sent, bounds>>

-----------------------------------------------------------------------------
(* Specification *)

LoadStep(i) == Serve(i) \/ ReceiveApp(i) \/ ReceiveError(i) \/ ReceiveTrail(i)
CallStep(c) == ServeDecision(c) \/ DecisionTaken(c) \/ DecisionRefused(c)

Next ==
    \/ \E a \in Apps : Open(a) \/ Move(a) \/ Resubmit(a)
    \/ \E a \in Apps, d \in Decisions : DecideElsewhere(a, d)
    \/ Leave
    \/ \E i \in LoadIds : LoadStep(i) \/ Fail(i)
    \/ \E d \in Decisions, n \in BOOLEAN : Enter(d, n)
    \/ Submit
    \/ \E c \in CallIds : CallStep(c)

Spec == Init /\ [][Next]_vars

-----------------------------------------------------------------------------
(* Properties *)

(* Type invariant. *)
TypeOK ==
    /\ dossier \in [Apps -> Dossier]
    /\ route \in Apps \cup {Queue}
    /\ mount \in 0..(MaxMoves + MaxCalls)
    /\ app \in Shown /\ trail \in Apps \cup {NoApp} /\ auditError \in BOOLEAN
    /\ decision \in Decisions /\ notes \in BOOLEAN
    /\ error \in {"none", "load", "notes", "review"} /\ busy \in BOOLEAN
    /\ loads \in [LoadIds -> Load] /\ loadRef \in 0..MaxLoads
    /\ calls \in [CallIds -> Call] /\ sent \in 0..MaxCalls
    /\ moves \in 0..MaxMoves /\ faults \in 0..MaxFaults

(* The form decides on the application the reviewer reads: onSubmit sends  *)
(* the id of the address, so what is shown has to be of the address in     *)
(* whatever order the answers come.                                        *)
ShownIsOfAddress == app # Nothing => app.of = route

(* Once load() is over, the audit entries under an application are its own *)
(* or an error says that they could not be read.                           *)
TrailIsOfAddress ==
    /\ app # Nothing /\ loads[loadRef].state = "done" /\ ~auditError
    => trail = route

(* Nothing but the loader is shown, or a decision is under way.  Every     *)
(* address opened shows its application or that it could not be read, and  *)
(* a reviewer who decides is taken to the queue or can try again.          *)
Unsettled == (route # Queue /\ app = Nothing /\ error = "none") \/ busy

=============================================================================
