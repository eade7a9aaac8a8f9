----------------------------- MODULE OneTimeCode -----------------------------
(***************************************************************************)
(* What the OTP service promises for each account and purpose, without     *)
(* requests, locks or clocks: one code at a time, a bounded number of      *)
(* guesses at it, and one acceptance, which ends it.                       *)
(***************************************************************************)
EXTENDS Naturals

CONSTANTS
    Slots,          \* pairs of an account and a purpose
    Ids,            \* codes ever issued
    NoId,
    MaxAttempts     \* OTP_MAX_ATTEMPTS

VARIABLES
    live,       \* live[s]: the code of slot s that can be accepted
    tries,      \* tries[s]: guesses at it so far
    issued,     \* codes issued so far
    spent       \* codes accepted so far

vars == <<live, tries, issued, spent>>

Init ==
    /\ live = [s \in Slots |-> NoId]
    /\ tries = [s \in Slots |-> 0]
    /\ issued = {}
    /\ spent = {}

(* A new code replaces the slot's current one, used or not. *)
Issue(s, i) ==
    /\ i \notin issued
    /\ issued' = issued \cup {i}
    /\ live' = [live EXCEPT ![s] = i]
    /\ tries' = [tries EXCEPT ![s] = 0]
    /\ UNCHANGED spent

Guess(s) ==
    /\ live[s] # NoId
    /\ tries[s] < MaxAttempts
    /\ tries' = [tries EXCEPT ![s] = @ + 1]
    /\ UNCHANGED <<live, issued, spent>>

(* A guess at the current code was right, and no other has been accepted.  *)
Accept(s) ==
    /\ live[s] # NoId
    /\ live[s] \notin spent
    /\ tries[s] > 0
    /\ spent' = spent \cup {live[s]}
    /\ live' = [live EXCEPT ![s] = NoId]
    /\ tries' = [tries EXCEPT ![s] = 0]
    /\ UNCHANGED issued

(* A purge may end the expired codes of several slots at once. *)
Purge ==
    \E S \in SUBSET Slots :
        /\ live' = [s \in Slots |-> IF s \in S THEN NoId ELSE live[s]]
        /\ tries' = [s \in Slots |-> IF s \in S THEN 0 ELSE tries[s]]
        /\ UNCHANGED <<issued, spent>>

Next ==
    \/ \E s \in Slots : Guess(s) \/ Accept(s) \/ \E i \in Ids : Issue(s, i)
    \/ Purge

Spec == Init /\ [][Next]_vars

=============================================================================
