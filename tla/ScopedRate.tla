------------------------------- MODULE ScopedRate ------------------------------
(***************************************************************************)
(* The other throttles of common/throttles.py (WriteThrottle, the per-IP   *)
(* AnonRateThrottles, DownloadThrottle), for one key: they leave           *)
(* allow_request() to the framework, which reads a list of times from the  *)
(* cache, drops the old ones, and writes it back with one time more.       *)
(***************************************************************************)
EXTENDS Naturals, Sequences, SequencesExt, FiniteSets

CONSTANTS
    Requests,
    Limit,          \* num_requests of the scope's rate
    Duration,       \* of the rate, in steps of the clock
    Together,       \* bound: requests of the key that are served at a time
    MaxTime,        \* bound: steps of the clock
    MaxFaults       \* bound: statements that fail

RateAssumption ==
    /\ Limit \in Nat \ {0} /\ Duration \in Nat \ {0} /\ Together \in Nat \ {0}
    /\ MaxTime \in Nat /\ MaxFaults \in Nat

VARIABLES
    now,
    stored,     \* the row of the key: its list of times, newest first
    expires,    \* and when it expires
    request,    \* request[r]: how far r is, its time and the list it has read
    faults      \* bound

vars == <<now, stored, expires, request, faults>>

-----------------------------------------------------------------------------

Idle == [at |-> "idle", time |-> 0, history |-> <<>>]
UnderWay == {r \in Requests : request[r].at = "write"}

Init ==
    /\ now = 0
    /\ stored = <<>>
    /\ expires = 0
    /\ request = [r \in Requests |-> Idle]
    /\ faults = 0

(* LightweightDatabaseCache.get() *)
Cached == IF expires < now THEN <<>> ELSE stored

\* Regression: the oldest time is dropped whatever its age.
RecentButOne(history) == IF history = <<>> THEN <<>> ELSE Front(history)

(* What is left of a list whose end is popped as long as its place is not  *)
(* one of these.                                                           *)
PoppedTo(history, places) ==
    SubSeq(history, 1, IF places = {} THEN 0 ELSE Max(places))

\* Regression: < for <=.
RecentAndOneMore(history) ==
    PoppedTo(history, {n \in DOMAIN history : history[n] + Duration >= now})

(* while history[-1] <= now - duration: history.pop() *)
Young(history) == {n \in DOMAIN history : history[n] + Duration > now}
Recent(history) == PoppedTo(history, Young(history))

\* Regression: the time of the request that reaches the limit is not kept.
FullLate(history) == Len(history) > Limit

Full(history) == Len(history) >= Limit

(* allow_request() up to the write: a full list refuses the request. *)
Read(r) ==
    /\ request[r].at = "idle"
    /\ Cardinality(UnderWay) < Together
    /\ LET history == Recent(Cached) IN
         request' = [request EXCEPT ![r] =
            IF Full(history) THEN [at |-> "denied", time |-> now, history |-> <<>>]
            ELSE [at |-> "write", time |-> now, history |-> history]]
    /\ UNCHANGED <<now, stored, expires, faults>>

(* throttle_success(): the list, with the time of the request in front. *)
Write(r) ==
    /\ request[r].at = "write"
    /\ stored' = <<request[r].time>> \o request[r].history
    /\ expires' = now + Duration
    /\ request' = [request EXCEPT ![r].at = "admitted", ![r].history = <<>>]
    /\ UNCHANGED <<now, faults>>

(* get() raises, and the request fails. *)
FailRead(r) ==
    /\ request[r].at = "idle"
    /\ faults < MaxFaults
    /\ faults' = faults + 1
    /\ request' = [request EXCEPT ![r].at = "failed"]
    /\ UNCHANGED <<now, stored, expires>>

(* set() catches the error and returns FALSE, which nobody looks at. *)
FailWrite(r) ==
    /\ request[r].at = "write"
    /\ faults < MaxFaults
    /\ faults' = faults + 1
    /\ request' = [request EXCEPT ![r].at = "admitted", ![r].history = <<>>]
    /\ UNCHANGED <<now, stored, expires>>

Pass ==
    /\ now < MaxTime
    /\ now' = now + 1
    /\ UNCHANGED <<stored, expires, request, faults>>

Next ==
    \/ \E r \in Requests : Read(r) \/ Write(r) \/ FailRead(r) \/ FailWrite(r)
    \/ Pass

Spec == Init /\ [][Next]_vars

-----------------------------------------------------------------------------
(* Properties *)

Admitted == {r \in Requests : request[r].at = "admitted"}

(* Type invariant; the times are kept in their order. *)
TypeOK ==
    /\ now \in 0..MaxTime
    /\ stored \in Seq(0..MaxTime) /\ Len(stored) <= Limit
    /\ expires \in Nat
    /\ request \in [Requests -> [at : {"idle", "write", "admitted", "denied", "failed"},
                                 time : 0..MaxTime, history : Seq(0..MaxTime)]]
    /\ faults \in 0..MaxFaults

(* "Scoped rate counters (Postgres cache, atomic)": no span of one         *)
(* Duration sees more than Limit admitted requests.  It holds as long as   *)
(* the requests of a key come one at a time and every write succeeds.      *)
RateKept ==
    \A t \in 0..MaxTime :
        Cardinality({r \in Admitted : request[r].time \in t..(t + Duration - 1)}) <= Limit

(* A request is refused only for others admitted within one Duration, so a *)
(* key that stays quiet for that long is let in again.                     *)
RefusedForOthers ==
    \A r \in Requests :
        request[r].at = "denied"
        => Cardinality({q \in Admitted : request[q].time <= request[r].time
                                         /\ request[q].time + Duration > request[r].time})
             >= Limit

=============================================================================
