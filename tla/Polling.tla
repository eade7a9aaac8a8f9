-------------------------------- MODULE Polling --------------------------------
(***************************************************************************)
(* hooks/usePolling.ts: one caller, its timer, and the loads under way.    *)
(* A change of state, the render and the effects it triggers are one step. *)
(* Time is counted in intervals; the jitter of half a second only means    *)
(* that a timer that is due goes off at any moment after.                  *)
(***************************************************************************)
EXTENDS Naturals

CONSTANTS
    Values,       \* what the fetcher can return
    Null,         \* data before the first answer
    MaxBackoff,   \* maxBackoffMs, in intervals
    LoadsKept     \* bound: loads told apart; the answer of an older one is not followed

ValuesAssumption == Null \notin Values
PollingBoundAssumption == MaxBackoff \in Nat \ {0} /\ LoadsKept \in Nat /\ LoadsKept >= 3

VARIABLES
    enabled,     \* the caller's switch
    hidden,      \* document.hidden
    tick,        \* number of the latest load
    loads,       \* loads[i]: load i, "sent" until it is answered
    timer,       \* intervals left, or Off
    failures,    \* in a row, counted up to 4 as the delay counts them
    data,
    error,
    loading,
    refreshing,
    shownBy,     \* ghost: the load data and error are from
    waited       \* ghost: intervals since that load was answered

caller == <<enabled, hidden>>
shown == <<data, error, shownBy>>
vars == <<caller, tick, loads, timer, failures, shown, loading, refreshing, waited>>

-----------------------------------------------------------------------------
(* Data *)

Loads == 0..(LoadsKept - 1)
Off == MaxBackoff + 1
AtMost(m, n) == IF m < n THEN m ELSE n

\* Regression: maxBackoffMs is not applied.
DelayUncapped(f) == 2 ^ AtMost(f, 4)

(* The delay of the timer effect: doubled by every failure up to the fourth. *)
Delay(f) == AtMost(MaxBackoff, 2 ^ AtMost(f, 4))

\* tick + 1; load 0 is only ever the first.
NextTick == IF tick + 1 \in Loads THEN tick + 1 ELSE 1

-----------------------------------------------------------------------------
(* The effects *)

(* The timer effect: what was armed is cleared, and armed anew if visible. *)
Arm(f) == timer' = IF enabled' /\ ~hidden' THEN Delay(f) ELSE Off

\* Regression: the timer effect does not depend on failures.
ArmOnAnswerUnlessFailed(value, f) ==
    IF value # data THEN Arm(f) ELSE UNCHANGED timer

(* An answer runs the timer effect again if it changes data or failures. *)
ArmOnAnswer(value, f) ==
    IF value # data \/ f # failures \/ f > 0 THEN Arm(f) ELSE UNCHANGED timer

(* The load effect for load i. *)
StartLoad(i) ==
    /\ loads' = [loads EXCEPT ![i] = "sent"]
    /\ IF i = 0 /\ data = Null
       THEN loading' = TRUE /\ UNCHANGED refreshing
       ELSE refreshing' = TRUE /\ UNCHANGED loading

\* Regression: the timer effect does not depend on tick.
TickUnarmed ==
    /\ tick' = NextTick
    /\ timer' = Off
    /\ IF enabled THEN StartLoad(NextTick) ELSE UNCHANGED <<loads, loading, refreshing>>
    /\ UNCHANGED <<caller, failures, shown, waited>>

(* setTick(t => t + 1), and both effects. *)
Tick ==
    /\ tick' = NextTick
    /\ UNCHANGED caller
    /\ Arm(failures)
    /\ IF enabled THEN StartLoad(NextTick) ELSE UNCHANGED <<loads, loading, refreshing>>
    /\ UNCHANGED <<failures, shown, waited>>

-----------------------------------------------------------------------------
(* The hook *)

Init ==
    /\ enabled \in BOOLEAN
    /\ hidden \in BOOLEAN
    /\ tick = 0
    /\ loads = [i \in Loads |-> IF enabled /\ i = 0 THEN "sent" ELSE "none"]
    /\ timer = IF enabled /\ ~hidden THEN Delay(0) ELSE Off
    /\ failures = 0
    /\ data = Null
    /\ error = FALSE
    /\ loading = TRUE
    /\ refreshing = FALSE
    /\ shownBy = 0
    /\ waited = 0

(* setTimeout goes off, whether or not the tab has been hidden since. *)
Fire ==
    /\ timer = 0
    /\ Tick

(* refresh(), by a click. *)
Refresh ==
    /\ ~hidden
    /\ Tick

Pass ==
    /\ timer \in 1..MaxBackoff \/ waited < MaxBackoff
    /\ timer' = IF timer \in 1..MaxBackoff THEN timer - 1 ELSE timer
    /\ waited' = AtMost(waited + 1, MaxBackoff)
    /\ UNCHANGED <<caller, tick, loads, failures, shown, loading, refreshing>>

\* Regression: a load is not cancelled by the next one.
CountsAnyway(i) == enabled

(* cancelled is still false: neither a later tick nor enabled ended the load. *)
Counts(i) == enabled /\ i = tick

\* Regression: the finally block resets loading alone.
LoadedFirst == loading' = FALSE /\ UNCHANGED refreshing

(* The finally block. *)
Loaded == loading' = FALSE /\ refreshing' = FALSE

Succeed(i, value) ==
    /\ loads[i] = "sent"
    /\ loads' = [loads EXCEPT ![i] = "none"]
    /\ UNCHANGED <<caller, tick>>
    /\ IF Counts(i)
       THEN /\ data' = value /\ error' = FALSE /\ shownBy' = i
            /\ failures' = 0
            /\ waited' = 0
            /\ ArmOnAnswer(value, 0)
            /\ Loaded
       ELSE UNCHANGED <<shown, failures, waited, timer, loading, refreshing>>

Fail(i) ==
    /\ loads[i] = "sent"
    /\ loads' = [loads EXCEPT ![i] = "none"]
    /\ UNCHANGED <<caller, tick, data>>
    /\ IF Counts(i)
       THEN /\ error' = TRUE /\ shownBy' = i
            /\ failures' = AtMost(failures + 1, 4)
            /\ waited' = 0
            /\ ArmOnAnswer(data, failures')
            /\ Loaded
       ELSE UNCHANGED <<error, shownBy, failures, waited, timer, loading, refreshing>>

-----------------------------------------------------------------------------
(* The browser and the caller *)

Hide ==
    /\ ~hidden
    /\ hidden' = TRUE
    /\ UNCHANGED <<enabled, tick, loads, timer, failures, shown, loading, refreshing, waited>>

(* onVisible, which is listened to while enabled. *)
Show ==
    /\ hidden
    /\ hidden' = FALSE
    /\ IF enabled
       THEN /\ tick' = NextTick
            /\ timer' = Delay(failures)
            /\ StartLoad(NextTick)
            /\ UNCHANGED <<enabled, failures, shown, waited>>
       ELSE UNCHANGED <<enabled, tick, loads, timer, failures, shown, loading, refreshing,
                        waited>>

(* The caller's switch: off cancels the load and the timer, on starts both. *)
Switch ==
    /\ enabled' = ~enabled
    /\ UNCHANGED hidden
    /\ Arm(failures)
    /\ IF enabled
       THEN /\ loads' = [loads EXCEPT ![tick] = "none"]
            /\ UNCHANGED <<loading, refreshing>>
       ELSE StartLoad(tick)
    /\ UNCHANGED <<tick, failures, shown, waited>>

(* The caller's fetcher changes: the load under way is cancelled, so that  *)
(* nothing comes of its answer, and the tick has another; no timer is set. *)
ChangeFetcher ==
    /\ enabled
    /\ StartLoad(tick)
    /\ UNCHANGED <<caller, tick, timer, failures, shown, waited>>

-----------------------------------------------------------------------------
(* Specification *)

Answer(i) == Fail(i) \/ \E value \in Values : Succeed(i, value)

Next ==
    \/ Fire \/ Refresh \/ Pass
    \/ \E i \in Loads : Answer(i)
    \/ Hide \/ Show \/ Switch \/ ChangeFetcher

Spec == Init /\ [][Next]_vars

-----------------------------------------------------------------------------
(* Properties *)

(* Type invariant. *)
TypeOK ==
    /\ enabled \in BOOLEAN /\ hidden \in BOOLEAN
    /\ tick \in Loads
    /\ loads \in [Loads -> {"none", "sent"}]
    /\ timer \in 0..Off
    /\ failures \in 0..4
    /\ data \in Values \cup {Null}
    /\ error \in BOOLEAN /\ loading \in BOOLEAN /\ refreshing \in BOOLEAN
    /\ shownBy \in Loads
    /\ waited \in 0..MaxBackoff

(* The hook shows that it is busy exactly while the load that counts is    *)
(* under way, whatever cancels the loads before it and however it ends.    *)
BusyIsLoad ==
    enabled => (loading \/ refreshing <=> loads[tick] = "sent")

(* What is shown comes from the newest load at the time: the answer of a   *)
(* load that a tick, a return to the tab or the caller cancelled is not.   *)
NewestIsShown == shownBy' # shownBy => shownBy' = tick

(* The hook's "back off on repeated fetch failures": after so many in a    *)
(* row, the timer starts no load before their delay has passed.            *)
BackoffIsKept == Fire => failures = 0 \/ waited >= Delay(failures)

(* Every tick starts a load; as long as the tab is visible and the hook    *)
(* enabled, loads go on, also at the longest delay. A fetcher that keeps   *)
(* changing may set the timer back each time, with a load of its own.      *)
Visible == enabled /\ ~hidden
NewLoad == tick' # tick \/ (loads[tick] = "none" /\ loads'[tick] = "sent")

(* "Professional live regions pause while the tab is hidden": no timer     *)
(* starts a load then. One does: hiding the tab clears no timer.           *)
PausedWhileHidden == Fire => ~hidden

=============================================================================
