---------------------------- MODULE RegisterWizard ----------------------------
(***************************************************************************)
(* features/auth/pages/RegisterPage.tsx: the registration wizard.          *)
(*                                                                         *)
(* Its fields are kept by kind: first_name stands for the names with a     *)
(* blur handler and for gender, middle_name is the name without one, and   *)
(* address_line1 stands for the optional fields.  The value of a field is  *)
(* kept by what its validator tells apart.  A text field reports its blur  *)
(* before the click that took the focus is handled; Enter submits without  *)
(* a blur, and so does an input that leaves the screen.                    *)
(***************************************************************************)
EXTENDS Naturals, Sequences, FiniteSetsExt

CONSTANTS
    Values,         \* Values[f]: what can be typed into field f
    MaxSubmits      \* bound: registrations sent

FieldKey == {"email", "phone", "password", "confirm_password",
             "first_name", "middle_name", "address_line1"}

ValuesAssumption ==
    DOMAIN Values = FieldKey /\ \A f \in FieldKey : "" \in Values[f]
SubmitsAssumption == MaxSubmits \in Nat

VARIABLES
    form,
    fieldErrors,    \* fieldErrors[f]: who objects to f, if anyone
    touched,        \* touched.confirm_password, the one that is read
    step,           \* from 1
    focus,
    error,
    busy,
    call,           \* the register() call under way
    page,           \* where the visitor is
    submits         \* bound

vars == <<form, fieldErrors, touched, step, focus, error, busy, call, page, submits>>

-----------------------------------------------------------------------------
(* Data *)

STEPS == << {"email", "phone", "password", "confirm_password"},
            {"first_name", "middle_name"},
            {"address_line1"} >>

Last == Len(STEPS)
StepOf(f) == CHOOSE i \in DOMAIN STEPS : f \in STEPS[i]

(* The input with autoFocus. *)
AutoFocus(i) ==
    IF i = 1 THEN "email" ELSE IF i = 2 THEN "first_name" ELSE "address_line1"

Nobody == "nobody"
NoField == "none"
NoErrors == [f \in FieldKey |-> Nobody]

INITIAL == [f \in FieldKey |-> ""]
Outcomes == {"none", "sent", "created", "refused", "failed"}
NoCall == [state |-> "none", form |-> INITIAL, objections |-> {}]

Init ==
    /\ form = INITIAL
    /\ fieldErrors = NoErrors
    /\ touched = FALSE
    /\ step = 1
    /\ focus = AutoFocus(1)
    /\ error = FALSE
    /\ busy = FALSE
    /\ call = NoCall
    /\ page = "register"
    /\ submits = 0

-----------------------------------------------------------------------------
(* Validators *)

(* FIELD_VALIDATORS: a name has to start with a capital. *)
Invalid(g, f) ==
    \/ f \in {"email", "phone"} /\ g[f] = "bad"
    \/ f = "password" /\ g[f] \in {"", "weak"}
    \/ f = "confirm_password" /\ (g[f] = "" \/ g[f] # g["password"])
    \/ f = "first_name" /\ g[f] \in {"", "ann"}
    \/ f = "middle_name" /\ g[f] = "ann"

\* Regression: the rule that spans two fields is left out.
StepProblemsPerField(g, i) == {f \in STEPS[i] : Invalid(g, f)}

(* computeStepErrors(): one contact at least. *)
StepProblems(g, i) ==
    {f \in STEPS[i] : Invalid(g, f)}
        \cup (IF i = 1 /\ g["email"] = "" /\ g["phone"] = "" THEN {"email"} ELSE {})

canRegister == \A i \in DOMAIN STEPS : StepProblems(form, i) = {}

(* capitalizeFirst() *)
Capitalised(v) == IF v = "ann" THEN "Ann" ELSE v

-----------------------------------------------------------------------------
(* Fields *)

Here == page = "register"

Enter(f) ==
    /\ Here
    /\ focus = NoField
    /\ f \in STEPS[step]
    /\ focus' = f
    /\ UNCHANGED <<form, fieldErrors, touched, step, error, busy, call, page, submits>>

\* Regression: the objection stays while its field is being corrected.
SetKeepsError(f, v) ==
    /\ Here
    /\ focus = f
    /\ v # form[f]
    /\ form' = [form EXCEPT ![f] = v]
    /\ UNCHANGED <<fieldErrors, touched, step, focus, error, busy, call, page, submits>>

(* set(key) *)
Set(f, v) ==
    /\ Here
    /\ focus = f
    /\ v # form[f]
    /\ form' = [form EXCEPT ![f] = v]
    /\ fieldErrors' = [fieldErrors EXCEPT ![f] = Nobody]
    /\ UNCHANGED <<touched, step, focus, error, busy, call, page, submits>>

(* The fields the page gives an onBlur. *)
Blurs == {"email", "password", "confirm_password", "first_name"}

Verdict(g, f) == IF Invalid(g, f) THEN "validator" ELSE Nobody

\* Regression: leaving the password does not look at its confirmation again.
BlurErrorsOwn(f, g) == [fieldErrors EXCEPT ![f] = Verdict(g, f)]

BlurErrors(f, g) ==
    IF f = "password" /\ touched
    THEN [fieldErrors EXCEPT ![f] = Verdict(g, f),
                             !["confirm_password"] = Verdict(g, "confirm_password")]
    ELSE [fieldErrors EXCEPT ![f] = Verdict(g, f)]

(* The focus is lost, and blur(key) runs where there is one. *)
Blur ==
    /\ Here
    /\ focus # NoField
    /\ focus' = NoField
    /\ IF focus \in Blurs
       THEN LET g == IF focus = "first_name"
                     THEN [form EXCEPT ![focus] = Capitalised(@)] ELSE form IN
            /\ form' = g
            /\ fieldErrors' = BlurErrors(focus, g)
            /\ touched' = (touched \/ focus = "confirm_password")
       ELSE UNCHANGED <<form, fieldErrors, touched>>
    /\ UNCHANGED <<step, error, busy, call, page, submits>>

-----------------------------------------------------------------------------
(* Steps *)

MoveTo(i) == step' = i /\ focus' = AutoFocus(i)

ShowStep(i) == error' = FALSE /\ MoveTo(i) /\ fieldErrors' = NoErrors

(* goToStep(): the markers on top, and "Go to" the first step with a       *)
(* problem on the last one.                                                *)
GoToStep(i) ==
    /\ Here /\ focus = NoField
    /\ ~busy /\ i # step
    /\ ShowStep(i)
    /\ UNCHANGED <<form, touched, busy, call, page, submits>>

Back ==
    /\ Here /\ focus = NoField
    /\ ~busy /\ step > 1
    /\ ShowStep(step - 1)
    /\ UNCHANGED <<form, touched, busy, call, page, submits>>

\* Regression: the button is there on every step.
NextAnywhere ==
    /\ Here /\ ~busy
    /\ error' = FALSE
    /\ MoveTo(step + 1)
    /\ UNCHANGED <<form, fieldErrors, touched, busy, call, page, submits>>

(* onSubmit() before the last step, clicked or by Enter: nothing is        *)
(* validated, and no error is cleared but the one for the whole form.      *)
Next ==
    /\ Here /\ ~busy
    /\ step < Last
    /\ error' = FALSE
    /\ MoveTo(step + 1)
    /\ UNCHANGED <<form, fieldErrors, touched, busy, call, page, submits>>

(* The button is only there without a problem in any step, so the loop of  *)
(* onSubmit() over the errors of the steps finds none.                     *)
MayCreate == canRegister

Create ==
    /\ Here /\ ~busy
    /\ step = Last /\ MayCreate
    /\ submits < MaxSubmits
    /\ submits' = submits + 1
    /\ error' = FALSE
    /\ busy' = TRUE
    /\ call' = [NoCall EXCEPT !.state = "sent", !.form = form]
    /\ UNCHANGED <<form, fieldErrors, touched, step, focus, page>>

-----------------------------------------------------------------------------
(* The answer *)

(* The register view creates the account, objects to some fields, or does  *)
(* neither: another answer, or none.  A 400 may name no field of the form. *)
Serve ==
    /\ call.state = "sent"
    /\ \/ call' = [call EXCEPT !.state = "created"]
       \/ \E o \in SUBSET {"email", "phone", "password", "first_name"} :
             call' = [call EXCEPT !.state = "refused", !.objections = o]
       \/ call' = [call EXCEPT !.state = "failed"]
    /\ UNCHANGED <<form, fieldErrors, touched, step, focus, error, busy, page, submits>>

(* navigate(): to the code for the e-mail that was sent, or to the login. *)
Created ==
    /\ call.state = "created"
    /\ call' = NoCall
    /\ busy' = FALSE
    /\ page' = IF call.form["email"] # "" THEN "verify-email" ELSE "login"
    /\ UNCHANGED <<form, fieldErrors, touched, step, focus, error, submits>>

\* Regression: the last step with an objection is shown.
ObjectionStepLast(o) == Max({StepOf(f) : f \in o})

ObjectionStep(o) == Min({StepOf(f) : f \in o})

\* Regression: the early return is not covered by a finally block.
RefusedBusy ==
    /\ call.state = "refused" /\ call.objections # {}
    /\ call' = NoCall
    /\ fieldErrors' = [f \in FieldKey |-> IF f \in call.objections THEN "server" ELSE Nobody]
    /\ MoveTo(ObjectionStep(call.objections))
    /\ UNCHANGED <<form, touched, error, busy, page, submits>>

(* The objections replace the errors of before. *)
Refused ==
    /\ call.state = "refused" /\ call.objections # {}
    /\ call' = NoCall
    /\ fieldErrors' = [f \in FieldKey |-> IF f \in call.objections THEN "server" ELSE Nobody]
    /\ MoveTo(ObjectionStep(call.objections))
    /\ busy' = FALSE
    /\ UNCHANGED <<form, touched, error, page, submits>>

Failed ==
    /\ call.state = "failed" \/ (call.state = "refused" /\ call.objections = {})
    /\ call' = NoCall
    /\ error' = TRUE
    /\ busy' = FALSE
    /\ UNCHANGED <<form, fieldErrors, touched, step, focus, page, submits>>

(* GoogleSignInButton, on any step and whatever is under way; a failure    *)
(* shows its message.                                                      *)
Google ==
    /\ Here
    /\ focus = NoField
    /\ \/ page' = "home" /\ UNCHANGED error
       \/ error' = TRUE /\ UNCHANGED page
    /\ UNCHANGED <<form, fieldErrors, touched, step, focus, busy, call, submits>>

-----------------------------------------------------------------------------
(* Specification *)

Answer == Created \/ Refused \/ Failed

Edit == \E f \in FieldKey : Enter(f) \/ \E v \in Values[f] : Set(f, v)

NextState ==
    \/ Edit \/ Blur
    \/ \E i \in DOMAIN STEPS : GoToStep(i)
    \/ Back \/ Next \/ Create
    \/ Serve \/ Answer
    \/ Google

Spec == Init /\ [][NextState]_vars

-----------------------------------------------------------------------------
(* Properties *)

(* Type invariant. *)
TypeOK ==
    /\ form \in [FieldKey -> {"Ann"} \cup UNION {Values[f] : f \in FieldKey}]
    /\ fieldErrors \in [FieldKey -> {Nobody, "validator", "server"}]
    /\ touched \in BOOLEAN
    /\ step \in DOMAIN STEPS
    /\ focus \in FieldKey \cup {NoField}
    /\ error \in BOOLEAN /\ busy \in BOOLEAN
    /\ call.state \in Outcomes /\ call.objections \subseteq FieldKey
    /\ page \in {"register", "verify-email", "login", "home"}
    /\ submits \in 0..MaxSubmits

(* What is registered passed every validator and has a contact, although   *)
(* no step is checked when it is left and any step can be skipped.         *)
RegisteredIsValid ==
    call.state # "none" =>
        /\ \A f \in FieldKey : ~Invalid(call.form, f)
        /\ call.form["email"] # "" \/ call.form["phone"] # ""

(* An error of a validator on the screen is still one: neither an edit of  *)
(* the field nor one of the password it confirms leaves it behind, but for *)
(* the moment the password is being typed.                                 *)
ShownErrorsAreTrue ==
    \A f \in STEPS[step] :
        Here /\ fieldErrors[f] = "validator" =>
            Invalid(form, f) \/ (f = "confirm_password" /\ focus = "password")

(* The server's objections are not lost on another step: the answer to a   *)
(* refused registration leaves an error where the visitor looks, and no    *)
(* earlier step has one.                                                   *)
RefusalIsShown ==
    busy /\ ~busy' /\ page' = "register" =>
        \/ error'
        \/ /\ \E f \in STEPS[step'] : fieldErrors'[f] = "server"
           /\ \A i \in 1..(step' - 1) : \A f \in STEPS[i] : fieldErrors'[f] = Nobody

(* ARCHITECTURE.md 7.3: "every field reports the moment it loses focus".   *)
(* Fields without a blur handler do not.                                   *)
LeftFieldReports ==
    Here /\ focus # NoField /\ focus' = NoField /\ Invalid(form', focus)
        => fieldErrors'[focus] # Nobody

(* Busy ends with every answer: the page is left, or can be sent again. *)
Unsettled == busy

=============================================================================
