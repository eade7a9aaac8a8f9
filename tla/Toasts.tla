-------------------------------- MODULE Toasts ---------------------------------
(***************************************************************************)
(* components/ui/Toast.tsx: the stack of notices, one timer each.          *)
(***************************************************************************)
EXTENDS Naturals, Sequences, SequencesExt

CONSTANTS
    Notices,    \* bound: notify() calls
    Life        \* DISMISS_MS, in steps of the clock

ToastsAssumption == Notices \in Nat \ {0} /\ Life \in Nat \ {0}

VARIABLES
    items,      \* the ids shown, oldest first
    nextId,     \* idRef
    timers,     \* timers[id]: steps left, Done once it has gone off or not yet started
    dismissed   \* ghost: the ids the user has clicked away

vars == <<items, nextId, timers, dismissed>>

-----------------------------------------------------------------------------

Ids == 1..Notices
Done == Life + 1

Init ==
    /\ items = <<>>
    /\ nextId = 1
    /\ timers = [id \in Ids |-> Done]
    /\ dismissed = {}

\* Regression: four are kept besides the newest one.
LastFour == IF Len(items) <= 4 THEN items ELSE SubSeq(items, Len(items) - 3, Len(items))

(* prev.slice(-3) *)
LastThree == IF Len(items) <= 3 THEN items ELSE SubSeq(items, Len(items) - 2, Len(items))

\* Regression: one timer serves the stack; a newer notice takes it over.
StartTimerAlone == timers' = [id \in Ids |-> IF id = nextId THEN Life ELSE Done]

StartTimer == timers' = [timers EXCEPT ![nextId] = Life]

(* notify() *)
Notify ==
    /\ nextId \in Ids
    /\ nextId' = nextId + 1
    /\ items' = Append(LastThree, nextId)
    /\ StartTimer
    /\ UNCHANGED dismissed

\* Regression: a timer removes the oldest notice.
WithoutFirst(id) == IF items = <<>> THEN items ELSE Tail(items)

(* dismiss(): the others stay; no id is shown twice. *)
Without(id) ==
    IF id \in ToSet(items)
    THEN RemoveAt(items, CHOOSE m \in 1..Len(items) : items[m] = id)
    ELSE items

(* The cross of a notice.  Its timer goes on, and will find nothing. *)
Dismiss(id) ==
    /\ id \in ToSet(items)
    /\ items' = Without(id)
    /\ dismissed' = dismissed \cup {id}
    /\ UNCHANGED <<nextId, timers>>

Expire(id) ==
    /\ timers[id] = 0
    /\ timers' = [timers EXCEPT ![id] = Done]
    /\ items' = Without(id)
    /\ UNCHANGED <<nextId, dismissed>>

(* A step of the clock; timers that are due go off first. *)
Pass ==
    /\ \E id \in Ids : timers[id] \in 1..Life
    /\ \A id \in Ids : timers[id] # 0
    /\ timers' = [id \in Ids |-> IF timers[id] = Done THEN Done ELSE timers[id] - 1]
    /\ UNCHANGED <<items, nextId, dismissed>>

Next == Notify \/ Pass \/ \E id \in Ids : Dismiss(id) \/ Expire(id)

Spec == Init /\ [][Next]_vars

-----------------------------------------------------------------------------
(* Properties *)

(* Type invariant; at most four notices, in the order they came in. *)
TypeOK ==
    /\ items \in Seq(Ids) /\ Len(items) <= 4
    /\ \A m, n \in 1..Len(items) : m < n => items[m] < items[n]
    /\ nextId \in 1..(Notices + 1)
    /\ timers \in [Ids -> 0..Done]
    /\ dismissed \subseteq Ids

(* A notice stays for its time: only its own cross, its own timer or four  *)
(* newer notices take it away.                                             *)
NoticeIsKept ==
    \A id \in Ids :
        /\ id < nextId /\ timers[id] # Done /\ id \notin dismissed /\ id + 4 >= nextId
        => id \in ToSet(items)

(* A notice is shown; every notice has a timer that takes it away. *)
Unsettled == items # <<>>

=============================================================================
