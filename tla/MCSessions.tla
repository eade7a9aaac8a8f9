------------------------------ MODULE MCSessions ------------------------------
(* Instances of Sessions for TLC. *)
EXTENDS Sessions, TLC

Symmetry == Permutations(Calls)

PasswordChanged == \E u \in Users : password[u] > 0
OneCall == \A t \in Tabs : Cardinality({c \in Calls : task[t][c] # Idle}) <= 1

(* A second loss and a password change are explored with one call at a     *)
(* time, the change with one loss only and without expiry: it refuses the  *)
(* access tokens of before by itself.                                      *)
Explored ==
    /\ lost > 1 => OneCall
    /\ PasswordChanged => OneCall /\ lost <= 1 /\ expired = {}

=============================================================================
