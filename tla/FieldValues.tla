------------------------------ MODULE FieldValues -----------------------------
(* Values of the fields of Validation around every limit.  Everyday leaves *)
(* out what no document promises anything of: combining marks, common and  *)
(* similar passwords, blanks around a password, dates a day off, files     *)
(* whose content is not what their name says.                              *)
EXTENDS FieldKinds

Lengths == {0, 1, 7, 8, 20, 21, 30, 31, 100, 101, 150, 151, 255, 256}

Texts == {[units |-> p + s, points |-> p, blanks |-> b] :
            p \in Lengths, s \in {0, 1}, b \in {0, 2}}
Text == {t \in Texts : t.points = 0 => t.units = 0}

NameValues(charsets) ==
    {[units |-> t.units, points |-> t.points, blanks |-> t.blanks,
      chars |-> c, first |-> f] :
        t \in {t \in Text : t.points > 0}, c \in charsets, f \in {"lower", "upper", "other"}}
    \cup {[units |-> 0, points |-> 0, blanks |-> b, chars |-> "letters", first |-> "other"] :
            b \in {0, 2}}

EmailValues(shapes) ==
    {[units |-> t.units, points |-> t.points, blanks |-> t.blanks,
      shape |-> s, listed |-> l] :
        t \in {t \in Text : t.points \in 7..100}, s \in shapes, l \in BOOLEAN}
    \cup {[units |-> 0, points |-> 0, blanks |-> b, shape |-> "none", listed |-> FALSE] :
            b \in {0, 2}}

\* The shortest numbers in the plans of libphonenumber have 7 digits.
PhoneValues ==
    {[units |-> d + 1, points |-> d + 1, blanks |-> 0, digits |-> d, known |-> k] :
        d \in 7..15, k \in BOOLEAN}
    \cup {[units |-> n, points |-> n, blanks |-> 0, digits |-> n, known |-> FALSE] :
            n \in {0, 3, 16, 31}}

\* No number and no password of the common list has letters of both cases
\* and other characters; those of the browser's list have 5 to 10 characters.
PasswordValues(kinds, pads) ==
    {v \in {[units |-> p, points |-> p, blanks |-> b, kind |-> k, mixed |-> m, special |-> s] :
               p \in {0, 1, 7, 8, 12}, b \in pads, k \in kinds, m \in BOOLEAN, s \in BOOLEAN} :
        /\ v.kind = "numeric" => ~v.mixed /\ v.special = (v.blanks > 0)
        /\ v.kind = "listed" => v.points \in {7, 8} /\ (v.special => v.blanks > 0)
        /\ v.points < 2 => ~v.mixed /\ (v.special => v.blanks > 0)}

DayValues(days) == {[given |-> TRUE, day |-> d] : d \in days} \cup {[given |-> FALSE, day |-> 0]}

CountryValues == {c \in COUNTRIES : c.units \in {4, 44}} \cup {[units |-> 0, points |-> 0, blanks |-> 0]}

FileValues(contents) ==
    {[ext |-> e, size |-> s, content |-> c] :
        e \in {".pdf", ".jpg", ".png", ".exe", ""}, s \in {1, 5, 6}, c \in contents}

NoteValues ==
    {[units |-> n, points |-> n, blanks |-> b, decision |-> d] :
        n \in {0, 1}, b \in {0, 2}, d \in {"approve", "reject", "request_resubmission"}}

GenderValues == {[option |-> o] : o \in {"", "male", "female", "other", "prefer_not_to_say"}}

ValuesOf(f, all) ==
    CASE f \in Names -> NameValues(IF all THEN {"letters", "marks", "others"} ELSE {"letters", "others"})
      [] f = "email" -> EmailValues(IF all THEN {"django", "loose", "none"} ELSE {"django", "none"})
      [] f = "phone" -> PhoneValues
      [] f = "code" -> {[units |-> n, points |-> n, blanks |-> 0] : n \in {0, 5, 6, 7}}
      [] f = "login_password" -> PasswordValues({"plain"}, IF all THEN {0, 2} ELSE {0})
      [] f \in {"password", "new_password"} ->
            IF all THEN PasswordValues({"plain", "numeric", "listed", "common", "similar"}, {0, 2})
            ELSE PasswordValues({"plain", "numeric", "listed"}, {0})
      [] f = "gender" -> GenderValues
      [] f = "country" -> CountryValues
      [] f = "id_expiry" -> DayValues(IF all THEN -3..2 ELSE 0..2)
      [] f \in Dates -> DayValues(-3..2)
      [] f = "file" -> FileValues(IF all THEN {"matches", "differs"} ELSE {"matches"})
      [] f = "notes" -> NoteValues
      [] OTHER -> Text

Everyday(f) == ValuesOf(f, FALSE)
All(f) == ValuesOf(f, TRUE)

\* The browser's date, in days from the server's.
SameDay == {0, -1}
AnyDay == {-1, 0, 1}

=============================================================================
