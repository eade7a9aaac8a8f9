--------------------------- MODULE MCApplications ---------------------------
(***************************************************************************)
(* Small instances of Applications for TLC.                                *)
(***************************************************************************)
EXTENDS Applications, TLC

CONSTANTS owner, other, w1, w2, a1, d1, d2

MCUsers == {owner, other}
MCInitialReviewers == {other}
MCApps == {a1}
MCDocs == {d1, d2}
MCWorkers == {w1, w2}
MCFields == {"id_expiry"}
MCValues == {"current", "past"}
MCExpired == {"past"}

Symmetry == Permutations(MCWorkers) \cup Permutations(MCDocs)

=============================================================================
