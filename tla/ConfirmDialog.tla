----------------------------- MODULE ConfirmDialog -----------------------------
(***************************************************************************)
(* components/ui/ConfirmDialog.tsx: the one dialog of the application, and *)
(* the confirm() calls that wait for it.  A page may call confirm() while  *)
(* an earlier question is still shown: the newer one takes its place.      *)
(* A handler, the render and the effects it triggers are one step.         *)
(***************************************************************************)
EXTENDS Naturals

CONSTANTS
    Calls,     \* confirm() calls a session makes, in the order of their numbers
    Texts,     \* what can be typed, blank ends trimmed
    Blank      \* the empty input; as a requirement, that nothing has to be typed

CallsAssumption == Calls \in Nat \ {0}
TextsAssumption == Blank \in Texts

VARIABLES
    called,     \* calls made so far
    required,   \* required[c]: requireTypedText of call c
    promise,    \* promise[c]: what call c waits for
    pending,    \* the call whose question is shown, 0 for none
    typed,
    busy,
    entered     \* ghost: entered[c], the input while the question of c was shown

vars == <<called, required, promise, pending, typed, busy, entered>>

-----------------------------------------------------------------------------

CallIds == 1..Calls

Init ==
    /\ called = 0
    /\ required \in [CallIds -> Texts]
    /\ promise = [c \in CallIds |-> "unasked"]
    /\ pending = 0
    /\ typed = Blank
    /\ busy = FALSE
    /\ entered = [c \in CallIds |-> Blank]

\* Regression: the effect clears only busy.
ResetBusy == busy' = FALSE /\ UNCHANGED typed

(* The effect on pending. *)
Reset == typed' = Blank /\ busy' = FALSE

(* confirm(): the question replaces the one that is shown, if any. *)
Confirm ==
    /\ called < Calls
    /\ called' = called + 1
    /\ promise' = [promise EXCEPT ![called + 1] = "waiting"]
    /\ pending' = called + 1
    /\ Reset
    /\ UNCHANGED <<required, entered>>

NeedsTyped == pending # 0 /\ required[pending] # Blank

TypedOk == NeedsTyped => typed = required[pending]

\* Regression: the updater of close() returns the current question.
CloseShown(value) ==
    /\ promise' = [promise EXCEPT ![pending] = value]
    /\ UNCHANGED <<pending, typed, busy>>

\* Regression: close() answers the call it was created for.
CloseFirst(value) ==
    /\ promise' = [promise EXCEPT ![CHOOSE c \in CallIds :
                                      promise[c] = "waiting" /\ \A d \in CallIds :
                                         promise[d] = "waiting" => c <= d] = value]
    /\ pending' = 0
    /\ Reset

(* close(): resolve() of the current call, and no question any more. *)
Close(value) ==
    /\ promise' = [promise EXCEPT ![pending] = value]
    /\ pending' = 0
    /\ Reset

(* The input, which is there only for a question that asks for a text. *)
Type(text) ==
    /\ NeedsTyped
    /\ typed' = text
    /\ entered' = [entered EXCEPT ![pending] = text]
    /\ UNCHANGED <<called, required, promise, pending, busy>>

(* onSubmit() and the button's disabled attribute.  setBusy(true), close()  *)
(* and setBusy(false) are one handler.                                     *)
Submit ==
    /\ pending # 0
    /\ TypedOk
    /\ Close("yes")
    /\ UNCHANGED <<called, required, entered>>

(* Cancel, Escape and the backdrop. *)
Dismiss ==
    /\ pending # 0
    /\ Close("no")
    /\ UNCHANGED <<called, required, entered>>

Next == Confirm \/ (\E text \in Texts : Type(text)) \/ Submit \/ Dismiss

Spec == Init /\ [][Next]_vars

-----------------------------------------------------------------------------
(* Properties *)

(* Type invariant; a question that is shown is one that waits. *)
TypeOK ==
    /\ called \in 0..Calls
    /\ required \in [CallIds -> Texts]
    /\ promise \in [CallIds -> {"unasked", "waiting", "yes", "no"}]
    /\ pending \in 0..called
    /\ pending # 0 => promise[pending] = "waiting"
    /\ typed \in Texts
    /\ busy \in BOOLEAN
    /\ entered \in [CallIds -> Texts]

(* An action that asks for a text is confirmed only with that text, and    *)
(* typed into its own question: what was typed for the question before it  *)
(* does not count, even when one replaces the other.                       *)
YesIsTyped ==
    \A c \in CallIds : promise[c] = "yes" => entered[c] = required[c]

(* A click answers the call whose question the user sees.  A call whose    *)
(* question was replaced is never answered for it.                         *)
AnswerIsForShown ==
    \A c \in CallIds :
        promise[c] = "waiting" /\ promise'[c] # "waiting" => c = pending

=============================================================================
