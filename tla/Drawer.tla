-------------------------------- MODULE Drawer ---------------------------------
(***************************************************************************)
(* components/ui/Drawer.tsx: DrawerForm in its DrawerShell, opened and     *)
(* closed by a page that keeps it mounted.  The shell can be dismissed     *)
(* while a submission is under way; onSubmit() then goes on without it.    *)
(***************************************************************************)
EXTENDS Naturals, FiniteSets

CONSTANTS
    Fields,
    Values,         \* what a field can hold
    Valid,          \* what validate() takes
    Submissions,    \* bound: onSubmit() calls
    Openings        \* bound: how often the page opens the drawer

DrawerAssumption ==
    /\ Valid \subseteq Values
    /\ Submissions \in Nat \ {0} /\ Openings \in Nat \ {0}

VARIABLES
    initial,       \* the page's values for a new form
    open,
    openings,      \* bound
    values,
    errors,        \* the fields with an error
    busy,
    serverError,
    submitted      \* submitted[i]: onSubmit() call i

form == <<values, errors, serverError>>
vars == <<initial, open, openings, form, busy, submitted>>

-----------------------------------------------------------------------------

SubmissionIds == 1..Submissions
UnderWay == {i \in SubmissionIds : submitted[i] = "sent"}
Unused == {i \in SubmissionIds : submitted[i] = "none"}

Init ==
    /\ initial \in [Fields -> Values]
    /\ open = FALSE
    /\ openings = 0
    /\ values = initial
    /\ errors = {}
    /\ busy = FALSE
    /\ serverError = FALSE
    /\ submitted = [i \in SubmissionIds |-> "none"]

\* Regression: the effect on open makes the drawer idle as well.
OpenDrawerIdle ==
    /\ ~open /\ openings < Openings
    /\ open' = TRUE
    /\ openings' = openings + 1
    /\ values' = initial /\ errors' = {} /\ serverError' = FALSE /\ busy' = FALSE
    /\ UNCHANGED <<initial, submitted>>

(* openDrawer(), and the effect on open. *)
OpenDrawer ==
    /\ ~open /\ openings < Openings
    /\ open' = TRUE
    /\ openings' = openings + 1
    /\ values' = initial /\ errors' = {} /\ serverError' = FALSE
    /\ UNCHANGED <<initial, busy, submitted>>

(* The backdrop, the cross and Cancel: none is disabled by busy. *)
Dismiss ==
    /\ open
    /\ open' = FALSE
    /\ UNCHANGED <<initial, openings, form, busy, submitted>>

\* Regression: an error stays until the next submit.
SetKeepsError(f, value) ==
    /\ open
    /\ values' = [values EXCEPT ![f] = value]
    /\ UNCHANGED <<initial, open, openings, errors, busy, serverError, submitted>>

(* set(): the field's error goes with its old value. *)
Set(f, value) ==
    /\ open
    /\ values' = [values EXCEPT ![f] = value]
    /\ errors' = errors \ {f}
    /\ UNCHANGED <<initial, open, openings, busy, serverError, submitted>>

\* Regression: the problems of the form are reported as one.
ProblemsOfForm == IF \A f \in Fields : values[f] \in Valid THEN {} ELSE {"form"}

Problems == {f \in Fields : values[f] \notin Valid}

(* Button's loading attribute disables it; Enter submits through it. *)
Idle == open /\ ~busy

(* submit() up to its await. *)
Submit ==
    /\ Idle
    /\ errors' = Problems
    /\ IF Problems # {}
       THEN UNCHANGED <<busy, serverError, submitted>>
       ELSE /\ serverError' = FALSE
            /\ busy' = TRUE
            /\ \E i \in Unused : submitted' = [submitted EXCEPT ![i] = "sent"]
    /\ UNCHANGED <<initial, open, openings, values>>

(* onSubmit() is done: onClose(), whichever opening is on the screen. *)
Succeed(i) ==
    /\ submitted[i] = "sent"
    /\ submitted' = [submitted EXCEPT ![i] = "done"]
    /\ open' = FALSE
    /\ busy' = FALSE
    /\ UNCHANGED <<initial, openings, form>>

\* Regression: busy is reset only on success.
FailBusy(i) ==
    /\ submitted[i] = "sent"
    /\ submitted' = [submitted EXCEPT ![i] = "done"]
    /\ serverError' = TRUE
    /\ UNCHANGED <<initial, open, openings, values, errors, busy>>

(* The catch and finally blocks. *)
Fail(i) ==
    /\ submitted[i] = "sent"
    /\ submitted' = [submitted EXCEPT ![i] = "done"]
    /\ serverError' = TRUE
    /\ busy' = FALSE
    /\ UNCHANGED <<initial, open, openings, values, errors>>

Answer(i) == Succeed(i) \/ Fail(i)

Next ==
    \/ OpenDrawer \/ Dismiss \/ Submit
    \/ \E f \in Fields, value \in Values : Set(f, value)
    \/ \E i \in SubmissionIds : Answer(i)

Spec == Init /\ [][Next]_vars

-----------------------------------------------------------------------------
(* Properties *)

(* Type invariant. *)
TypeOK ==
    /\ initial \in [Fields -> Values]
    /\ open \in BOOLEAN
    /\ openings \in 0..Openings
    /\ values \in [Fields -> Values]
    /\ errors \subseteq Fields
    /\ busy \in BOOLEAN
    /\ serverError \in BOOLEAN
    /\ submitted \in [SubmissionIds -> {"none", "sent", "done"}]

(* A form is submitted once at a time, also when the drawer is dismissed   *)
(* and opened again while its submission is still under way: that the      *)
(* effect on open leaves busy alone is what keeps a second click out.      *)
OneAtATime == Cardinality(UnderWay) <= 1 /\ (busy <=> UnderWay # {})

(* An error shown at a field is true of what the field holds, however the  *)
(* drawer is closed, opened and filled in between.                         *)
ErrorsAreTrue == open => \A f \in errors : values[f] \notin Valid

(* Saving ends, whether or not the drawer is still there. *)
Unsettled == busy

=============================================================================
