------------------------------ MODULE FixedWindow ------------------------------
(***************************************************************************)
(* FixedWindowThrottle (common/throttles.py) over LightweightDatabaseCache *)
(* (common/cache.py), for one e-mail and address: requests of many         *)
(* workers, whose add() and incr() are statements of their own, with rows  *)
(* that expire, clean-ups, and a database that may fail.                   *)
(***************************************************************************)
EXTENDS Naturals, FiniteSets

CONSTANTS
    Requests,
    Max,          \* max_attempts
    Window,       \* window_seconds, in steps of the clock
    MaxTime,      \* bound: steps of the clock
    MaxFaults     \* bound: statements that fail

WindowAssumption ==
    /\ Max \in Nat \ {0} /\ Window \in Nat \ {0}
    /\ MaxTime \in Nat /\ MaxFaults \in Nat

VARIABLES
    now,
    row,        \* row[b]: the counter of window b, count 0 for no row
    request,    \* request[r]: the statement r is at, its window, and its time
    faults,     \* bound
    inTime      \* ghost: the requests admitted before their window was over

vars == <<now, row, request, faults, inTime>>

-----------------------------------------------------------------------------

Windows == 0..(MaxTime \div Window)
NoRow == [count |-> 0, expires |-> 0]
Expired(b) == row[b].count = 0 \/ row[b].expires < now

Init ==
    /\ now = 0
    /\ row = [b \in Windows |-> NoRow]
    /\ request = [r \in Requests |-> [at |-> "idle", window |-> 0, arrived |-> 0]]
    /\ faults = 0
    /\ inTime = {}

\* Regression: the key does not name the window.
WindowFirst == 0

(* bucket *)
WindowNow == now \div Window

Arrive(r) ==
    /\ request[r].at = "idle"
    /\ request' = [request EXCEPT ![r] = [at |-> "add", window |-> WindowNow,
                                           arrived |-> now]]
    /\ UNCHANGED <<now, row, faults, inTime>>

(* What the request's statement leads to. *)
Goto(r, at) ==
    /\ request' = [request EXCEPT ![r].at = at]
    /\ inTime' = IF at = "admitted" /\ now \div Window = request[r].window
                 THEN inTime \cup {r} ELSE inTime

Verdict(count) == IF count <= Max THEN "admitted" ELSE "denied"

(* INSERT ... ON CONFLICT DO UPDATE ... WHERE expires < now *)
Store(b) ==
    /\ Expired(b)
    /\ row' = [row EXCEPT ![b] = [count |-> 1, expires |-> now + Window]]

(* add(): also when it fails the row may have been stored. *)
Add(r) ==
    /\ request[r].at = "add"
    /\ \/ Store(request[r].window) /\ Goto(r, Verdict(1))
       \/ ~Expired(request[r].window) /\ Goto(r, "incr") /\ UNCHANGED row
    /\ UNCHANGED <<now, faults>>

(* incr(): the row under its lock, or ValueError. *)
Incr(r) ==
    /\ request[r].at = "incr"
    /\ LET b == request[r].window IN
         IF Expired(b)
         THEN Goto(r, "again") /\ UNCHANGED row
         ELSE /\ row' = [row EXCEPT ![b].count = @ + 1]
              /\ Goto(r, Verdict(row[b].count + 1))
    /\ UNCHANGED <<now, faults>>

(* The except branch: one more add(), or the request is refused. *)
AddAgain(r) ==
    /\ request[r].at = "again"
    /\ \/ Store(request[r].window) /\ Goto(r, "admitted")
       \/ ~Expired(request[r].window) /\ Goto(r, "denied") /\ UNCHANGED row
    /\ UNCHANGED <<now, faults>>

\* Regression: only ValueError is caught.
AfterFaultRaised(at) ==
    IF at = "add" THEN "incr" ELSE IF at = "incr" THEN "error" ELSE "denied"

\* Regression: an unavailable counter lets the request pass.
AfterFaultOpen(at) == IF at = "add" THEN "incr" ELSE "admitted"

(* A failed add() is only not inserted; a failed incr() is caught. *)
AfterFault(at) == IF at = "add" THEN "incr" ELSE IF at = "incr" THEN "again" ELSE "denied"

(* The database fails, before or after it has done the statement's work. *)
Fault(r) ==
    /\ request[r].at \in {"add", "incr", "again"}
    /\ faults < MaxFaults
    /\ faults' = faults + 1
    /\ Goto(r, AfterFault(request[r].at))
    /\ LET b == request[r].window IN
         \/ UNCHANGED row
         \/ request[r].at # "incr" /\ Store(b)
         \/ request[r].at = "incr" /\ ~Expired(b) /\ row' = [row EXCEPT ![b].count = @ + 1]
    /\ UNCHANGED now

(* Some set() or add() of another key cleans up. *)
CleanUp ==
    /\ \E b \in Windows : row[b].count > 0 /\ Expired(b)
    /\ row' = [b \in Windows |-> IF Expired(b) THEN NoRow ELSE row[b]]
    /\ UNCHANGED <<now, request, faults, inTime>>

Pass ==
    /\ now < MaxTime
    /\ now' = now + 1
    /\ UNCHANGED <<row, request, faults, inTime>>

Serve(r) == Add(r) \/ Incr(r) \/ AddAgain(r)

Next ==
    \/ \E r \in Requests : Arrive(r) \/ Serve(r) \/ Fault(r)
    \/ CleanUp \/ Pass

Spec == Init /\ [][Next]_vars

-----------------------------------------------------------------------------
(* Properties *)

(* Type invariant; a counter that is there has counted somebody. *)
TypeOK ==
    /\ now \in 0..MaxTime
    /\ row \in [Windows -> [count : Nat, expires : Nat]]
    /\ request \in [Requests -> [at : {"idle", "add", "incr", "again", "admitted", "denied"},
                                 window : Windows, arrived : 0..MaxTime]]
    /\ faults \in 0..MaxFaults
    /\ inTime \subseteq {r \in Requests : request[r].at = "admitted"}

(* "Atomic and fail-closed": of the requests that arrive and are decided   *)
(* in one window, at most Max are admitted, however their statements       *)
(* interleave, whatever fails and whatever a clean-up deletes.             *)
WindowLimit ==
    \A b \in Windows : Cardinality({r \in inTime : request[r].window = b}) <= Max

(* A lock-out ends with its window: whoever is the first to arrive in a    *)
(* new one is admitted, unless the database fails.                         *)
NewWindowAdmits ==
    \A r \in Requests :
        request[r].at = "denied" /\ faults = 0
        => \E q \in Requests \ {r} :
              /\ request[q].at # "idle"
              /\ request[q].arrived \div Window = request[r].arrived \div Window

=============================================================================
