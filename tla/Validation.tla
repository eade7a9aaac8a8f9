------------------------------ MODULE Validation ------------------------------
(***************************************************************************)
(* lib/validation.ts against the backend's serializers: one field of a     *)
(* form on its way from the keyboard to the database, and to the login     *)
(* form for the two that sign in.                                          *)
(*                                                                         *)
(* A text is kept by what the two sides measure of it: UTF-16 units        *)
(* (JavaScript's length) and code points (Python's) of its trimmed part,   *)
(* the blanks around it, and the features its validators look for.         *)
(* libphonenumber, Django's e-mail and password validators and the         *)
(* blocklist both tiers share are features too.                            *)
(***************************************************************************)
EXTENDS Integers, FieldKinds

CONSTANTS
    Inputs(_),      \* Inputs(f): values of field f
    Skews           \* local date of the browser, in days from the server's

CountryAssumption == Inputs("country") \subseteq CountrySelect
SkewAssumption == Skews \subseteq {-1, 0, 1} /\ 0 \in Skews

VARIABLES
    field,
    value,
    local,      \* the browser's date; the server's is 0
    blurred,    \* the field has been left since the last edit
    stage

vars == <<field, value, local, blurred, stage>>

-----------------------------------------------------------------------------
(* Data *)

LIMITS == [name |-> 150, full_name |-> 255, postal_code |-> 20,
           state |-> 100, country |-> 100]
PASSWORD_MIN_LENGTH == 8
OTP_LENGTH == 6
MAX_FILE_SIZE == 5
DOB_MIN == -2        \* scaled down: days before the server's date

Fields == Names \cup Required \cup Optional \cup Dates \cup
          {"email", "phone", "password", "new_password", "login_password", "code",
           "gender", "file", "notes"}

Length(v) == v.units + v.blanks
isBlank(v) == v.units = 0

(* The browser's own date. *)
todayISO == local

-----------------------------------------------------------------------------
(* The browser's validators: TRUE is a message *)

validateRequired(v, limit) == isBlank(v) \/ Length(v) > limit

validateOptional(v, limit) == Length(v) > limit

\* Regression: the limit is left to the server.
validateNameAnyLength(v, required) ==
    IF isBlank(v) THEN required ELSE v.chars = "others" \/ v.first = "lower"

(* The charset lets letters with combining marks pass. *)
validateName(v, required) ==
    IF isBlank(v) THEN required
    ELSE v.units > LIMITS.name \/ v.chars = "others" \/ v.first = "lower"

validateEmail(v) == isBlank(v) \/ v.shape = "none"

isDisposableEmail(v) == v.listed

validateRegistrationEmail(v) == validateEmail(v) \/ isDisposableEmail(v)

(* The "+" form of a number that libphonenumber knows. *)
validateE164Phone(v) == isBlank(v) \/ ~v.known

\* Regression: numbers of seven digits are not let in.
validatePhoneLong(v) == isBlank(v) \/ v.units > 30 \/ v.digits \notin 8..15

validatePhone(v) == isBlank(v) \/ v.units > 30 \/ v.digits \notin 7..15

validateIdentifier(f, v) == IF f = "email" THEN validateEmail(v) ELSE validatePhone(v)

(* A part of the server's list. *)
COMMON_PASSWORDS == {"listed"}

validatePassword(v) ==
    \/ Length(v) < PASSWORD_MIN_LENGTH
    \/ v.kind = "numeric" /\ v.blanks = 0
    \/ v.kind \in COMMON_PASSWORDS /\ v.blanks = 0

One(condition) == IF condition THEN 1 ELSE 0

\* Regression: small and capital letters score one each.
PasswordStrengthPerClass(v) ==
    One(Length(v) >= 8) + One(Length(v) >= 12) + 2 * One(v.mixed) + One(v.special)

(* The score: mixed has small and capital letters, special digits and      *)
(* other characters.                                                       *)
PasswordStrength(v) ==
    One(Length(v) >= 8) + One(Length(v) >= 12) + One(v.mixed) + One(v.special)

validateLoginPassword(v) == Length(v) = 0

(* The inputs for it let digits pass only. *)
validateOtp(v) == isBlank(v) \/ v.units # OTP_LENGTH

validateGender(v) == v.option \notin {"male", "female", "other", "prefer_not_to_say"}

(* An ISO string of DateOfBirthInput, compared with todayISO(). *)
validateOptionalDateOfBirth(v) == v.given /\ (v.day > todayISO \/ v.day < DOB_MIN)

validateDateOfBirth(v) == ~v.given \/ validateOptionalDateOfBirth(v)

(* Any date will do, a past one too. *)
validateIdExpiry(v) == FALSE

validateUploadFile(v) == v.ext \notin {".jpg", ".jpeg", ".png", ".pdf"} \/ v.size > MAX_FILE_SIZE

validateReviewNotes(v) == v.decision # "approve" /\ isBlank(v)

(* FIELD_VALIDATORS, validateApplication() and the forms with one field. *)
Problem(f, v) ==
    CASE f \in Required -> validateRequired(v, LIMITS[f])
      [] f \in Optional -> validateOptional(v, LIMITS[f])
      [] f \in Names -> validateName(v, f = "first_name")
      [] f = "email" -> ~isBlank(v) /\ validateRegistrationEmail(v)
      [] f = "phone" -> ~isBlank(v) /\ validateE164Phone(v)
      [] f \in {"password", "new_password"} -> validatePassword(v)
      [] f = "login_password" -> validateLoginPassword(v)
      [] f = "code" -> validateOtp(v)
      [] f = "gender" -> validateGender(v)
      [] f = "date_of_birth" -> validateOptionalDateOfBirth(v)
      [] f = "application_date_of_birth" -> validateDateOfBirth(v)
      [] f = "id_expiry" -> validateIdExpiry(v)
      [] f = "file" -> validateUploadFile(v)
      [] OTHER -> validateReviewNotes(v)

-----------------------------------------------------------------------------
(* The backend's serializers, after CharField has trimmed the text *)

validate_person_name(v, required) ==
    IF v.points = 0 THEN required ELSE v.points > 150 \/ v.chars # "letters"

(* EmailField and validate_email(). *)
validate_email(v) == v.points > 0 /\ (v.shape # "django" \/ v.listed)

(* PasswordField and AUTH_PASSWORD_VALIDATORS. *)
validate_password(v) == v.points < 8 \/ v.kind # "plain"

(* PasswordResetConfirmView takes the password as it is typed; Django's    *)
(* list of common passwords is asked about the trimmed one even so.        *)
validate_new_password(v) ==
    \/ v.points + v.blanks < 8
    \/ v.kind \in {"listed", "common", "similar"}
    \/ v.kind = "numeric" /\ v.blanks = 0

validate_dob(v) == v.day > 0 \/ v.day < DOB_MIN

(* Only of a new application. *)
validate_id_expiry(v) == v.given /\ v.day < 0

(* Document.clean() and validate_file_content(). *)
clean(v) ==
    \/ v.ext \notin {".jpg", ".jpeg", ".png", ".pdf"} \/ v.size > 5
    \/ v.content # "matches"

(* What the serializer says of the value by itself.  That an e-mail or a   *)
(* phone number is taken depends on other accounts: see RegisterWizard's   *)
(* objections.  The e-mail column's length is kept by the input's          *)
(* maxLength, which cuts what is typed or pasted.                          *)
Objection(f, v) ==
    CASE f \in Required -> v.points = 0 \/ v.points > LIMITS[f]
      [] f \in Optional -> v.points > LIMITS[f]
      [] f \in Names -> validate_person_name(v, f = "first_name")
      [] f = "email" -> validate_email(v)
      [] f = "phone" -> v.points > 0 /\ ~v.known
      [] f = "password" -> validate_password(v)
      [] f = "new_password" -> validate_new_password(v)
      [] f \in {"login_password", "code"} -> v.points = 0
      [] f = "gender" -> v.option \notin {"male", "female", "other", "prefer_not_to_say"}
      [] f = "date_of_birth" -> v.given /\ validate_dob(v)
      [] f = "application_date_of_birth" -> ~v.given \/ validate_dob(v)
      [] f = "id_expiry" -> validate_id_expiry(v)
      [] f = "file" -> clean(v)
      [] OTHER -> v.decision # "approve" /\ v.points = 0

(* What becomes the account's password, and what a later login compares    *)
(* when the same is typed: CharField trims it.                             *)
StoredPassword(f, v) == IF f = "new_password" THEN v ELSE [v EXCEPT !.blanks = 0]
LoginPassword(v) == [v EXCEPT !.blanks = 0]

-----------------------------------------------------------------------------
(* A field's way *)

\* Regression: the blanks in front of the name are not skipped.
capitalizeFirstChar(v) ==
    IF v.first = "lower" /\ v.blanks = 0 THEN [v EXCEPT !.first = "upper"] ELSE v

capitalizeFirst(v) == IF v.first = "lower" THEN [v EXCEPT !.first = "upper"] ELSE v

Init ==
    /\ field \in Fields
    /\ value \in Inputs(field)
    /\ local \in Skews
    /\ blurred = FALSE
    /\ stage = "typed"

Retype ==
    /\ stage # "sent"
    /\ value' \in Inputs(field) \ {value}
    /\ blurred' = FALSE
    /\ stage' = "typed"
    /\ UNCHANGED <<field, local>>

(* The onBlur of the names that have one: the middle name has none. *)
Blur ==
    /\ stage = "typed" /\ ~blurred
    /\ blurred' = TRUE
    /\ value' = IF field = "first_name" THEN capitalizeFirst(value) ELSE value
    /\ UNCHANGED <<field, local, stage>>

Submit ==
    /\ stage = "typed"
    /\ ~Problem(field, value)
    /\ stage' = "sent"
    /\ UNCHANGED <<field, value, local, blurred>>

Serve ==
    /\ stage = "sent"
    /\ stage' = IF Objection(field, value) THEN "refused" ELSE "stored"
    /\ UNCHANGED <<field, value, local, blurred>>

Next == Retype \/ Blur \/ Submit \/ Serve

Spec == Init /\ [][Next]_vars

-----------------------------------------------------------------------------
(* What no document promises anything of is left out of these: marks that  *)
(* combine, e-mails only Django refuses, passwords with blanks around them *)
(* or outside the browser's knowledge of the server's lists, identity      *)
(* documents that have expired, files that are not what their name says,   *)
(* a browser that is a day ahead.                                          *)
Trimmed(v) ==
    /\ v.units \in Nat /\ v.points \in Nat /\ v.blanks \in Nat
    /\ v.points <= v.units /\ (v.points = 0 => v.units = 0)

EverydayPassword(v) ==
    /\ v.units = v.points /\ v.blanks = 0 /\ v.kind \in {"plain", "numeric", "listed"}
    /\ v.kind = "numeric" => ~v.mixed /\ ~v.special
    /\ v.kind = "listed" => v.units <= 10 /\ ~v.special

IsEveryday(f, v) ==
    /\ f \notin Dates \cup {"gender", "file"} => Trimmed(v)
    /\ f \in Names => v \in [units : Nat, points : Nat, blanks : Nat,
                              chars : {"letters", "others"}, first : {"lower", "upper", "other"}]
    /\ f = "email" => v.shape \in {"django", "none"}
    /\ f = "phone" => (v.known => v.digits \in 7..15 /\ v.units = v.digits + 1)
    /\ f \in {"password", "new_password"} => EverydayPassword(v)
    /\ f = "login_password" => v.blanks = 0
    /\ f \in Dates => v.day \in Int
    /\ f = "id_expiry" => (v.given => v.day >= 0)
    /\ f = "file" => v.content = "matches"

EverydayInputs ==
    /\ \A f \in Fields : \A v \in Inputs(f) : IsEveryday(f, v)
    /\ Skews \subseteq {-1, 0}

-----------------------------------------------------------------------------
(* Properties *)

(* ARCHITECTURE.md 8: "users never trigger a backend validation error from *)
(* the SPA": what passes the browser's validators passes the serializers,  *)
(* although the two measure texts, passwords and days differently.         *)
BackendNeverObjects == stage # "refused"

(* "so the validator never fights the user": when a name has been left,    *)
(* what still displeases the browser would displease the backend too.      *)
BlurSettlesNames ==
    field = "first_name" /\ stage = "typed" /\ blurred /\ Problem(field, value) =>
        Objection(field, value) \/ value.units # value.points

(* ARCHITECTURE.md 7.3: "Name inputs auto-capitalize on blur". The         *)
(* middle name does not.                                                   *)
NamesAreCapitalised == field \in Names /\ blurred => value.first # "lower"

(* Whoever has registered gets past the login form with the same e-mail or *)
(* phone number, although that form has validators of its own.             *)
RegisteredMaySignIn ==
    stage = "stored" /\ field \in {"email", "phone"} /\ ~isBlank(value) =>
        ~validateIdentifier(field, value)

(* The bar below a new password never says "Good" or "Strong" of one that  *)
(* the form refuses.                                                       *)
StrongIsAccepted ==
    field \in {"password", "new_password"} /\ PasswordStrength(value) >= 3 =>
        ~Problem(field, value)

(* "Password updated. You can sign in now.": the password that has been    *)
(* registered or chosen anew opens the account.                            *)
PasswordOpens ==
    stage = "stored" /\ field \in {"password", "new_password"} =>
        LoginPassword(value) = StoredPassword(field, value)

=============================================================================
