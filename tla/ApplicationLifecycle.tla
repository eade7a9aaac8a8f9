------------------------ MODULE ApplicationLifecycle ------------------------
(***************************************************************************)
(* What the application API promises, without requests, locks or           *)
(* snapshots: every step is one committed transaction on one application.  *)
(*                                                                         *)
(* The phases merge the two editable statuses (draft and                   *)
(* resubmission_requested): the code keeps the boundary between editable,  *)
(* under review and decided, and Applications.tla shows why it does not    *)
(* keep the boundary between the two editable statuses.                    *)
(***************************************************************************)
EXTENDS Naturals, FiniteSets

CONSTANTS
    Users,      \* accounts
    NoUser,     \* "no reviewer yet" / "no owner yet"
    Apps,       \* application ids
    Forms,      \* contents of the form fields
    InvalidForms,   \* the forms whose ID document has expired
    Docs,       \* document ids
    Cap         \* MAX_DOCUMENTS_PER_APPLICATION

VARIABLES
    phase,      \* phase[a]: absent, open, review, approved or rejected
    owner,      \* owner[a]: the applicant
    form,       \* form[a]: the form fields
    docs,       \* docs[a]: the supporting documents
    decider     \* decider[a]: who took the final decision

vars == <<phase, owner, form, docs, decider>>

Final == {"approved", "rejected"}

Init ==
    /\ phase = [a \in Apps |-> "absent"]
    /\ owner = [a \in Apps |-> NoUser]
    /\ form \in [Apps -> Forms]
    /\ docs = [a \in Apps |-> {}]
    /\ decider = [a \in Apps |-> NoUser]

(* An applicant opens an application; it has no documents yet. *)
Open(a, u, f) ==
    /\ phase[a] = "absent"
    /\ phase' = [phase EXCEPT ![a] = "open"]
    /\ owner' = [owner EXCEPT ![a] = u]
    /\ form' = [form EXCEPT ![a] = f]
    /\ UNCHANGED <<docs, decider>>

(* The form or the documents change, only while the application is open,   *)
(* and never beyond the cap.                                               *)
Amend(a, f, D) ==
    /\ phase[a] = "open"
    /\ Cardinality(D) <= Cap
    /\ form' = [form EXCEPT ![a] = f]
    /\ docs' = [docs EXCEPT ![a] = D]
    /\ UNCHANGED <<phase, owner, decider>>

(* A dossier enters review with a document and an unexpired ID. *)
Submit(a) ==
    /\ phase[a] = "open"
    /\ docs[a] # {}
    /\ form[a] \notin InvalidForms
    /\ phase' = [phase EXCEPT ![a] = "review"]
    /\ UNCHANGED <<owner, form, docs, decider>>

(* A reviewer sends the application back to its owner. *)
Return(a, u) ==
    /\ phase[a] = "review"
    /\ u # owner[a]
    /\ phase' = [phase EXCEPT ![a] = "open"]
    /\ UNCHANGED <<owner, form, docs, decider>>

(* A reviewer who is not the owner decides, once and for all. *)
Decide(a, u, outcome) ==
    /\ phase[a] = "review"
    /\ u # owner[a]
    /\ phase' = [phase EXCEPT ![a] = outcome]
    /\ decider' = [decider EXCEPT ![a] = u]
    /\ UNCHANGED <<owner, form, docs>>

Next ==
    \E a \in Apps :
        \/ \E u \in Users, f \in Forms : Open(a, u, f)
        \/ \E f \in Forms, D \in SUBSET Docs : Amend(a, f, D)
        \/ Submit(a)
        \/ \E u \in Users : Return(a, u)
        \/ \E u \in Users, outcome \in Final : Decide(a, u, outcome)

Spec == Init /\ [][Next]_vars

=============================================================================
