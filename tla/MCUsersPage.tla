------------------------------ MODULE MCUsersPage ------------------------------
(* An instance of UsersPage for TLC.                                       *)
EXTENDS UsersPage, TLC

TwoTexts == {"", "ann"}
TwoRoles == {"", "admin"}
AllFilters == [search : TwoTexts, role : TwoRoles]

AccountSymmetry == Permutations(Accounts)

DialogUsed ==
    resetTarget # NoAccount \/ typed # NoAccount \/ reset # NoReset \/ changed # NoAccount

(* What is explored: one filter at a time, and either the list in breadth, *)
(* or a write and the requests around it, or the dialog over a list that   *)
(* is hardly touched.                                                      *)
Explored ==
    /\ selection.role # "" => searchInput = "" /\ selection.search = ""
    /\ DialogUsed => requestId <= 1 /\ version = 0 /\ form = "blank"
    /\ ~DialogUsed => writes <= 1
    /\ writes > 0 => requestId <= 3

=============================================================================
