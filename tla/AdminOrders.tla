----------------------------- MODULE AdminOrders -----------------------------
(* What the requests of the instances of UserAdmin may ask for. *)
EXTENDS Naturals

\* Three accounts, and who is a super admin to begin with.
Accounts == 1..3
SomeSupers == {{1}, {1, 2}, {1, 2, 3}}
OneSuper == {{1}}

Update(actor, target, role, active) ==
    [kind |-> "update", actor |-> actor, target |-> target, role |-> role, active |-> active]
Password(actor, target) == [kind |-> "password", actor |-> actor, target |-> target]

\* Most of what any of them may ask of any other.
AllOrders ==
    [r \in Accounts |->
        {Update(a, t, "other", "keep") : a \in Accounts, t \in Accounts}
        \cup {Update(a, t, "keep", "off") : a \in {1, 2}, t \in Accounts}
        \cup {Update(a, 3, "super_admin", "keep") : a \in {1, 2}}
        \cup {Update(a, 2, "keep", "on") : a \in {1, 3}}
        \cup {Password(1, 2), Password(3, 1)}]

\* Two requests come to wait for each other.
CrossOrders ==
    [r \in Accounts |->
        {Update(3, 2, "super_admin", "keep"), Update(3, 2, "keep", "off"),
         Update(3, 1, "other", "keep"), Update(2, 3, "other", "keep")}]

\* One super admin promotes two others, takes both back, and is demoted by one
\* of them, in whatever order the five get there.
Five == 1..5
HandOver ==
    [r \in Five |->
        CASE r = 1 -> {Update(1, 2, "super_admin", "keep")}
          [] r = 2 -> {Update(1, 3, "super_admin", "keep")}
          [] r = 3 -> {Update(1, 2, "other", "keep")}
          [] r = 4 -> {Update(1, 3, "other", "keep")}
          [] r = 5 -> {Update(2, 1, "other", "keep")}]

\* A password is reset while the account is changed.
Two == 1..2
Resets ==
    [r \in Two |->
        {Password(1, 2), Update(1, 2, "keep", "off"), Update(3, 2, "other", "keep")}]

=============================================================================
