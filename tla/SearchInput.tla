------------------------------ MODULE SearchInput ------------------------------
(***************************************************************************)
(* components/ui/SearchInput.tsx: what is typed, the timer that hands it   *)
(* to the page, and the page's value, which other controls may set too.    *)
(***************************************************************************)
EXTENDS Naturals

CONSTANTS
    Texts,    \* what can be typed
    Blank,    \* the empty input
    Pause     \* delayMs, in steps of the clock

SearchAssumption == Blank \in Texts /\ Pause \in Nat \ {0}

VARIABLES
    value,     \* the page's
    draft,
    timers,    \* timers under way: what each will hand over, and when
    quiet,     \* ghost: steps since the last key, up to Pause
    cleared    \* ghost: the cross was the last control used

vars == <<value, draft, timers, quiet, cleared>>

-----------------------------------------------------------------------------

Timer == [text : Texts, left : 0..Pause]

Init ==
    /\ value \in Texts
    /\ draft = value
    /\ timers = {}
    /\ quiet = Pause
    /\ cleared = FALSE

\* Regression: the timer of the key before is not cleared.
ScheduleAnother(text) == timers' = timers \cup {[text |-> text, left |-> Pause]}

\* Regression: the delay starts with the first key.
ScheduleOnce(text) ==
    timers' = IF timers = {} THEN {[text |-> text, left |-> Pause]}
              ELSE {[t EXCEPT !.text = text] : t \in timers}

(* clearTimeout() and setTimeout() *)
Schedule(text) == timers' = {[text |-> text, left |-> Pause]}

(* schedule() *)
Type(text) ==
    /\ text # draft
    /\ draft' = text
    /\ Schedule(text)
    /\ quiet' = 0
    /\ cleared' = FALSE
    /\ UNCHANGED value

\* Regression: the effect on value is left out.
OnChangeUnseen(text) == value' = text /\ UNCHANGED draft

(* The page takes the text; the effect on value follows if it has changed. *)
OnChange(text) ==
    /\ value' = text
    /\ draft' = IF text = value THEN draft ELSE text

Fire(t) ==
    /\ t.left = 0
    /\ timers' = timers \ {t}
    /\ OnChange(t.text)
    /\ UNCHANGED <<quiet, cleared>>

\* Regression: the cross does not clear the timer.
ClearLate ==
    /\ draft # Blank
    /\ draft' = Blank /\ value' = Blank
    /\ cleared' = TRUE
    /\ UNCHANGED <<timers, quiet>>

(* The cross. *)
Clear ==
    /\ draft # Blank
    /\ timers' = {}
    /\ draft' = Blank /\ value' = Blank
    /\ cleared' = TRUE
    /\ UNCHANGED quiet

(* Another control of the page sets the value: its timer is left running. *)
SetValue(text) ==
    /\ text # value
    /\ OnChange(text)
    /\ cleared' = FALSE
    /\ UNCHANGED <<timers, quiet>>

(* A step of the clock; a timer that is due may be late. *)
Pass ==
    /\ quiet' = IF quiet < Pause THEN quiet + 1 ELSE quiet
    /\ timers' = {[t EXCEPT !.left = IF @ > 0 THEN @ - 1 ELSE 0] : t \in timers}
    /\ UNCHANGED <<value, draft, cleared>>

Next ==
    \/ \E text \in Texts : Type(text) \/ SetValue(text)
    \/ \E t \in timers : Fire(t)
    \/ Clear \/ Pass

Spec == Init /\ [][Next]_vars

-----------------------------------------------------------------------------
(* Properties *)

(* Type invariant; there is never more than one timer. *)
TypeOK ==
    /\ value \in Texts /\ draft \in Texts
    /\ timers \subseteq Timer
    /\ \A t, u \in timers : t = u
    /\ quiet \in 0..Pause
    /\ cleared \in BOOLEAN

(* The input shows what the page searches for as soon as no timer is left, *)
(* whoever has set which of them in the meantime.                          *)
SettledShowsValue == timers = {} => draft = value

(* "never fire a fetch per keystroke": a timer hands a text over only      *)
(* after a pause.                                                          *)
HandedOverAfterPause == \A t \in timers : Fire(t) => quiet = Pause

(* Clearing the search lasts: no timer brings the old text back.           *)
ClearedStaysClear == cleared => value = Blank

=============================================================================
