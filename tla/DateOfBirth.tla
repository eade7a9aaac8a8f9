------------------------------ MODULE DateOfBirth ------------------------------
(***************************************************************************)
(* components/form/DateOfBirthInput.tsx: three selects that hold the parts *)
(* of a date, and the form's value, which they tell it with onChange().    *)
(* A part, or a whole value, that is not chosen is 0 or NoDate.  The parts *)
(* are read from the value on mounting only.                               *)
(***************************************************************************)
EXTENDS Integers

CONSTANTS
    YEARS,          \* the years offered
    NoDate

YearsAssumption == YEARS \subseteq 1900..2200 /\ YEARS # {}

VARIABLES
    parts,
    value           \* the form's date_of_birth

vars == <<parts, value>>

-----------------------------------------------------------------------------
(* Dates *)

Date == [year : YEARS, month : 1..12, day : 1..31]
NoDateAssumption == NoDate \notin Date
Parts == [year : YEARS \cup {0}, month : 0..12, day : 0..31]

\* Regression: every fourth year is a leap year.
DaysInMonthJulian(year, month) ==
    CASE month = 2 -> IF year % 4 = 0 THEN 29 ELSE 28
      [] month \in {4, 6, 9, 11} -> 30
      [] OTHER -> 31

(* new Date(year, month, 0).getDate() *)
daysInMonth(year, month) ==
    CASE month = 2 -> IF year % 4 = 0 /\ (year % 100 # 0 \/ year % 400 = 0) THEN 29 ELSE 28
      [] month \in {4, 6, 9, 11} -> 30
      [] OTHER -> 31

(* parseISO() *)
parseISO(v) == IF v = NoDate THEN [year |-> 0, month |-> 0, day |-> 0] ELSE v

Complete(p) == p.year # 0 /\ p.month # 0 /\ p.day # 0

Clamp(p) ==
    IF Complete(p) /\ p.day > daysInMonth(p.year, p.month)
    THEN [p EXCEPT !.day = daysInMonth(p.year, p.month)] ELSE p

(* The days offered. *)
maxDay == IF parts.year # 0 /\ parts.month # 0 THEN daysInMonth(parts.year, parts.month) ELSE 31

-----------------------------------------------------------------------------
(* The input *)

Real(d) == d.day <= daysInMonth(d.year, d.month)

Init ==
    /\ value \in {d \in Date : Real(d)} \cup {NoDate}
    /\ parts = parseISO(value)

\* Regression: the form is told complete dates only.
UpdateWhenComplete(p) ==
    /\ parts' = Clamp(p)
    /\ value' = IF Complete(p) THEN Clamp(p) ELSE value

(* update() *)
Update(p) ==
    /\ parts' = Clamp(p)
    /\ value' = IF Complete(p) THEN Clamp(p) ELSE NoDate

PickDay(d) == d \in 0..maxDay /\ Update([parts EXCEPT !.day = d])
PickYear(y) == Update([parts EXCEPT !.year = y])

\* Regression: the option's value is counted from the name's index twice.
PickMonthShifted(m) == Update([parts EXCEPT !.month = m + 1])

PickMonth(m) == Update([parts EXCEPT !.month = m])

(* The wizard's step, or the form, is left and shown again. *)
Remount == parts' = parseISO(value) /\ UNCHANGED value

Next ==
    \/ \E d \in 0..31 : PickDay(d)
    \/ \E m \in 0..12 : PickMonth(m)
    \/ \E y \in YEARS \cup {0} : PickYear(y)
    \/ Remount

Spec == Init /\ [][Next]_vars

-----------------------------------------------------------------------------
(* Reference: days are numbered, and a month ends where the next begins. *)

DayNumber(y, m, d) ==
    LET yy == IF m <= 2 THEN y - 1 ELSE y
        mm == IF m <= 2 THEN m + 9 ELSE m - 3
    IN 365 * yy + yy \div 4 - yy \div 100 + yy \div 400 + (153 * mm + 2) \div 5 + d

MonthEnd(y, m) ==
    IF m = 12 THEN DayNumber(y + 1, 1, 1) - 1 ELSE DayNumber(y, m + 1, 1) - 1

-----------------------------------------------------------------------------
(* Properties *)

(* Type invariant. *)
TypeOK == parts \in Parts /\ value \in Date \cup {NoDate}

(* The form only ever holds a date of the calendar: changing the month or  *)
(* the year under the 29th, 30th or 31st leaves no 1900-02-29 behind.      *)
ValueIsADate ==
    value # NoDate => DayNumber(value.year, value.month, value.day)
                        <= MonthEnd(value.year, value.month)

(* What the three selects show is what the form holds: a date once all are *)
(* chosen, nothing as soon as one is not, and the day is among the options *)
(* the select has.                                                         *)
ShownIsValue ==
    /\ value = (IF Complete(parts) THEN parts ELSE NoDate)
    /\ parts.day <= maxDay

=============================================================================
