---------------------------- MODULE ApplicationForm ----------------------------
(***************************************************************************)
(* features/applications/pages/ApplicationFormPage.tsx, at the addresses   *)
(* /applications/new and /applications/:id/edit.  React keeps the page     *)
(* mounted between the two.                                                *)
(*                                                                         *)
(* The form's data is told apart by whose it is: prefilled from the user's *)
(* profile, or an application's.  A field's value passes its validator in  *)
(* validateApplication() or does not.                                      *)
(***************************************************************************)
EXTENDS Integers

CONSTANTS
    Apps,           \* the user's applications
    New, Away,      \* the addresses /applications/new and all others
    Profile,        \* whose data the prefilled form has
    BlurFields,     \* fields with an onBlur
    PickFields,     \* fields without: selects, dates and the phone number
    MaxMoves,       \* bound: changes of address, each with a run of the effect
    MaxCalls,       \* bound: saves
    MaxFaults       \* bound: calls that fail on the way

NamesAssumption ==
    /\ {New, Away} \cap Apps = {} /\ New # Away /\ Profile \notin Apps
    /\ BlurFields \cap PickFields = {}
BoundAssumption == MaxMoves \in Nat /\ MaxCalls \in Nat /\ MaxFaults \in Nat

VARIABLES
    editable,       \* editable[a]: the server still lets a be edited
    writes,         \* history: the saves the server has done
    route,
    mount,          \* which mount of the page this is
    moved,          \* history: the address changed since the page was mounted
    warned,         \* history: load() of this address ended in an error
    loadingExisting,
    loads,          \* loads[n]: the call of the effect's run n
    origin,         \* whose data the form has
    form,           \* form[f]: the field passes its validator
    fieldErrors,
    error, busy,
    calls, sent,    \* saves
    moves, faults   \* bounds

Fields == BlurFields \cup PickFields
server == <<editable, writes>>
place == <<route, mount, moved, warned>>
fields == <<origin, form, fieldErrors>>
bounds == <<moves, faults>>
vars == <<server, place, loadingExisting, loads, fields, error, busy, calls, sent, bounds>>

-----------------------------------------------------------------------------
(* Data *)

Routes == Apps \cup {New, Away}
Origins == Apps \cup {Profile}
LoadIds == 1..MaxMoves
Load == [state : {"none", "sent", "ok", "locked", "failed"}, app : Apps \cup {New}]
NoLoad == [state |-> "none", app |-> New]
CallIds == 1..MaxCalls
Call == [state : {"none", "sent", "ok", "failed", "done"}, to : Apps \cup {New},
         of : Origins, mount : 0..MaxMoves, early : BOOLEAN, warned : BOOLEAN]
Saves == [to : Apps \cup {New}, of : Origins, early : BOOLEAN, warned : BOOLEAN]
NoCall == [state |-> "none", to |-> New, of |-> Profile, mount |-> 0,
           early |-> FALSE, warned |-> FALSE]

Init ==
    /\ editable \in [Apps -> BOOLEAN]
    /\ writes = {}
    /\ route = Away
    /\ mount = 0
    /\ moved = FALSE /\ warned = FALSE
    /\ loadingExisting = FALSE
    /\ loads = [n \in LoadIds |-> NoLoad]
    /\ origin = Profile
    /\ form = [f \in Fields |-> FALSE]
    /\ fieldErrors = {}
    /\ error = FALSE /\ busy = FALSE
    /\ calls = [c \in CallIds |-> NoCall] /\ sent = 0
    /\ moves = 0 /\ faults = 0

-----------------------------------------------------------------------------
(* Coming to the page and leaving it *)

(* The effect on id: there is nothing to read for a new application. *)
Read(r) ==
    loads' = [loads EXCEPT ![moves + 1] =
                IF r = New THEN NoLoad ELSE [state |-> "sent", app |-> r]]

\* Regression: the form is shown while the application is read.
OpenShowing(r) ==
    /\ route = Away /\ r # Away /\ moves < MaxMoves
    /\ moves' = moves + 1
    /\ route' = r
    /\ mount' = mount + 1
    /\ moved' = FALSE /\ warned' = FALSE
    /\ loadingExisting' = FALSE
    /\ Read(r)
    /\ origin' = Profile
    /\ form' \in [Fields -> BOOLEAN]
    /\ fieldErrors' = {}
    /\ error' = FALSE /\ busy' = FALSE
    /\ UNCHANGED <<server, calls, sent, faults>>

(* The page mounts; the profile may leave fields empty. *)
Open(r) ==
    /\ route = Away /\ r # Away /\ moves < MaxMoves
    /\ moves' = moves + 1
    /\ route' = r
    /\ mount' = mount + 1
    /\ moved' = FALSE /\ warned' = FALSE
    /\ loadingExisting' = (r # New)
    /\ Read(r)
    /\ origin' = Profile
    /\ form' \in [Fields -> BOOLEAN]
    /\ fieldErrors' = {}
    /\ error' = FALSE /\ busy' = FALSE
    /\ UNCHANGED <<server, calls, sent, faults>>

(* Cancel, or any link: the page unmounts. *)
Unmount ==
    /\ route' = Away
    /\ loadingExisting' = FALSE
    /\ fieldErrors' = {} /\ error' = FALSE /\ busy' = FALSE
    /\ UNCHANGED <<mount, moved, warned, loads, origin, form>>

Leave == route # Away /\ Unmount /\ UNCHANGED <<server, calls, sent, bounds>>

(* "New application" in the rail, or back and forward: the effect on id    *)
(* runs again, and nothing else changes.                                   *)
Move(r) ==
    /\ route # Away /\ r \notin {route, Away} /\ moves < MaxMoves
    /\ moves' = moves + 1
    /\ route' = r
    /\ moved' = TRUE /\ warned' = FALSE
    /\ Read(r)
    /\ UNCHANGED <<server, mount, loadingExisting, fields, error, busy, calls, sent, faults>>

-----------------------------------------------------------------------------
(* The effect *)

\* Regression: only the unmounted page ignores an answer.
CancelledAway(n) == route = Away

(* The clean-up of every run but the last has set its cancelled. *)
Cancelled(n) == route = Away \/ n # moves

ServeLoad(n) ==
    /\ loads[n].state = "sent"
    /\ \/ /\ loads' = [loads EXCEPT ![n].state =
                            IF editable[loads[n].app] THEN "ok" ELSE "locked"]
          /\ UNCHANGED faults
       \/ /\ faults < MaxFaults /\ faults' = faults + 1
          /\ loads' = [loads EXCEPT ![n].state = "failed"]
    /\ UNCHANGED <<server, place, loadingExisting, fields, error, busy, calls, sent, moves>>

\* Regression: an early return skips setLoadingExisting(false).
LoadedUnlessLocked(n) ==
    loadingExisting' = (loadingExisting /\ loads[n].state = "locked")

Loaded(n) == loadingExisting' = FALSE

(* A stored value may fail today's rules: its expiry may be over.  Errors  *)
(* of before are left.                                                     *)
ReceiveLoad(n) ==
    /\ loads[n].state \in {"ok", "locked", "failed"}
    /\ loads' = [loads EXCEPT ![n] = NoLoad]
    /\ \/ Cancelled(n) /\ UNCHANGED <<loadingExisting, warned, origin, form, error>>
       \/ /\ ~Cancelled(n) /\ loads[n].state = "ok"
          /\ Loaded(n)
          /\ origin' = loads[n].app
          /\ form' \in [Fields -> BOOLEAN]
          /\ UNCHANGED <<warned, error>>
       \/ /\ ~Cancelled(n) /\ loads[n].state # "ok"
          /\ Loaded(n)
          /\ error' = TRUE /\ warned' = TRUE
          /\ UNCHANGED <<origin, form>>
    /\ UNCHANGED <<server, route, mount, moved, fieldErrors, busy, calls, sent, bounds>>

-----------------------------------------------------------------------------
(* The form *)

FormShown == route # Away /\ ~loadingExisting

(* The form's Button: it is disabled while it shows that it is loading. *)
Pressable == FormShown /\ ~busy

(* The fields drawn as invalid, with their message. *)
Marked == fieldErrors

\* Regression: a field's message is left for the next blur.
TypeKeepsError(f, ok) ==
    /\ FormShown
    /\ form' = [form EXCEPT ![f] = ok]
    /\ UNCHANGED <<server, place, loadingExisting, loads, origin, fieldErrors, error, busy,
                   calls, sent, bounds>>

(* set() *)
Type(f, ok) ==
    /\ FormShown
    /\ form' = [form EXCEPT ![f] = ok]
    /\ fieldErrors' = fieldErrors \ {f}
    /\ UNCHANGED <<server, place, loadingExisting, loads, origin, error, busy, calls, sent,
                   bounds>>

(* blur() *)
Blur(f) ==
    /\ FormShown
    /\ fieldErrors' = IF form[f] THEN fieldErrors \ {f} ELSE fieldErrors \cup {f}
    /\ UNCHANGED <<server, place, loadingExisting, loads, origin, form, error, busy, calls,
                   sent, bounds>>

(* validateApplication() *)
Invalid == {f \in Fields : ~form[f]}

(* The application of the address has been asked for and is not there yet. *)
Reading == \E n \in LoadIds : n = moves /\ loads[n].state # "none"

(* onSubmit() up to its await. *)
Submit ==
    /\ Pressable
    /\ error' = FALSE
    /\ IF Invalid # {}
       THEN fieldErrors' = Invalid /\ UNCHANGED <<busy, calls, sent>>
       ELSE /\ sent < MaxCalls
            /\ sent' = sent + 1
            /\ calls' = [calls EXCEPT ![sent + 1] =
                 [state |-> "sent", to |-> route, of |-> origin,
                  mount |-> mount, early |-> moved /\ Reading, warned |-> warned]]
            /\ busy' = TRUE
            /\ UNCHANGED fieldErrors
    /\ UNCHANGED <<server, place, loadingExisting, loads, origin, form, bounds>>

Accepted(k) == IF k.to = New THEN TRUE ELSE editable[k.to]
Write(k) == [to |-> k.to, of |-> k.of, early |-> k.early, warned |-> k.warned]

(* POST or PATCH, refused when the application cannot be edited. *)
ServeSave(c) ==
    /\ calls[c].state = "sent"
    /\ IF Accepted(calls[c])
       THEN /\ writes' = writes \cup {Write(calls[c])}
            /\ calls' = [calls EXCEPT ![c].state = "ok"]
       ELSE /\ calls' = [calls EXCEPT ![c].state = "failed"]
            /\ UNCHANGED writes
    /\ UNCHANGED <<editable, place, loadingExisting, loads, fields, error, busy, sent, bounds>>

(* The call, or its answer, is lost. *)
LoseSave(c) ==
    /\ calls[c].state \in {"sent", "ok"}
    /\ faults < MaxFaults /\ faults' = faults + 1
    /\ calls' = [calls EXCEPT ![c].state = "failed"]
    /\ UNCHANGED <<server, place, loadingExisting, loads, fields, error, busy, sent, moves>>

(* navigate() to the application, wherever the user is now. *)
Saved(c) ==
    /\ calls[c].state = "ok"
    /\ calls' = [calls EXCEPT ![c].state = "done"]
    /\ IF route = Away
       THEN UNCHANGED <<place, loadingExisting, loads, fields, error, busy>>
       ELSE Unmount
    /\ UNCHANGED <<server, sent, bounds>>

\* Regression: the finally block is left out.
RefusedBusy(c) ==
    /\ calls[c].state = "failed"
    /\ calls' = [calls EXCEPT ![c].state = "done"]
    /\ error' = (error \/ (route # Away /\ calls[c].mount = mount))
    /\ UNCHANGED <<server, place, loadingExisting, loads, fields, busy, sent, bounds>>

Refused(c) ==
    /\ calls[c].state = "failed"
    /\ calls' = [calls EXCEPT ![c].state = "done"]
    /\ IF route # Away /\ calls[c].mount = mount
       THEN error' = TRUE /\ busy' = FALSE
       ELSE UNCHANGED <<error, busy>>
    /\ UNCHANGED <<server, place, loadingExisting, loads, fields, sent, bounds>>

(* It is submitted, or returned, meanwhile. *)
Flip(a) ==
    /\ editable' = [editable EXCEPT ![a] = ~@]
    /\ UNCHANGED <<writes, place, loadingExisting, loads, fields, error, busy, calls,
                   sent, bounds>>

-----------------------------------------------------------------------------
(* Specification *)

CallStep(c) == ServeSave(c) \/ Saved(c) \/ Refused(c)

Next ==
    \/ \E r \in Routes : Open(r) \/ Move(r)
    \/ Leave
    \/ \E n \in LoadIds : ServeLoad(n) \/ ReceiveLoad(n)
    \/ \E f \in Fields, ok \in BOOLEAN : Type(f, ok)
    \/ \E f \in BlurFields : Blur(f)
    \/ Submit
    \/ \E c \in CallIds : CallStep(c) \/ LoseSave(c)
    \/ \E a \in Apps : Flip(a)

Spec == Init /\ [][Next]_vars

-----------------------------------------------------------------------------
(* Properties *)

(* Type invariant. *)
TypeOK ==
    /\ editable \in [Apps -> BOOLEAN]
    /\ writes \subseteq Saves
    /\ route \in Routes /\ mount \in 0..MaxMoves /\ moved \in BOOLEAN /\ warned \in BOOLEAN
    /\ loadingExisting \in BOOLEAN /\ loads \in [LoadIds -> Load]
    /\ \A n \in LoadIds : loads[n].state # "none" => loads[n].app \in Apps
    /\ origin \in Origins /\ form \in [Fields -> BOOLEAN] /\ fieldErrors \subseteq Fields
    /\ error \in BOOLEAN /\ busy \in BOOLEAN
    /\ calls \in [CallIds -> Call] /\ sent \in 0..MaxCalls
    /\ moves \in 0..MaxMoves /\ faults \in 0..MaxFaults

(* An application is overwritten with its own data, edited: not with the   *)
(* profile the form started from, and not with another application that    *)
(* was read late.  The exceptions are a page that has said that it could   *)
(* not read the application, and offers the form nevertheless, and a save  *)
(* pressed on a page kept mounted across a change of address before the    *)
(* application of the new address is there.                                *)
UpdateIsOfLoaded ==
    \A w \in writes : w.to \in Apps => w.of = w.to \/ w.warned \/ w.early

(* The same without the second exception.  It does not hold: the form of   *)
(* the old address stays open until the new application has been read.     *)
NoEarlySave == \A w \in writes : w.to \in Apps => w.of = w.to \/ w.warned

(* A message stands only under a value that its validator refuses, unless  *)
(* another application's data was read under it.                           *)
ErrorsAreTrue == ~moved => \A f \in Marked : ~form[f]

(* README on users: profile details "can be provided at signup and         *)
(* prefill the KYC application form": a new application starts from the    *)
(* profile. It does not: from the edit page, the form keeps the edited     *)
(* application's data.                                                     *)
NewFormIsPrefilled == route = New /\ FormShown => origin = Profile

(* The loader is shown for an application to edit, or it is being saved.   *)
(* The form appears, and saving it leads away or can be tried again.       *)
Unsettled == (route \in Apps /\ loadingExisting) \/ busy

=============================================================================
