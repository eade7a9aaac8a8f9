------------------------------ MODULE MCEmailOTP ------------------------------
(***************************************************************************)
(* A small instance of EmailOTP for TLC.                                   *)
(***************************************************************************)
EXTENDS EmailOTP, TLC

CONSTANTS user, w1, w2, c1, c2

MCUsers == {user}
MCWorkers == {w1, w2}
MCCodes == {c1, c2}

Symmetry == Permutations(MCWorkers) \cup Permutations(MCCodes)

=============================================================================
