------------------------------- MODULE UserAdmin -------------------------------
(***************************************************************************)
(* UserManagementViewSet (views/users.py): requests of super admins that   *)
(* change roles and switches, and reset passwords, at READ COMMITTED.      *)
(*                                                                         *)
(* A statement sees what is committed when it starts.  SELECT FOR UPDATE   *)
(* takes the rows its snapshot found one after the other; a row that has   *)
(* been changed while it waited is tested again, and skipped if it does    *)
(* not qualify any more.  An UPDATE waits for the row's lock.  Creating a  *)
(* user is an INSERT whose unique keys decide, and left out.               *)
(***************************************************************************)
EXTENDS Integers, FiniteSets

CONSTANTS
    Users,        \* primary keys
    Requests,
    Orders,       \* Orders[r]: what request r may ask for, see Order
    FirstSupers,  \* the sets of super admins there may be to begin with
    MaxAborts     \* bound: requests that die

Roles == {"super_admin", "other"}
Keep == "keep"

\* PATCH of role and is_active, Keep for a field that is not sent; or a
\* password reset, which is a POST of its own.
Order == [kind : {"update"}, actor : Users, target : Users,
          role : Roles \cup {Keep}, active : {"on", "off", Keep}]
         \cup [kind : {"password"}, actor : Users, target : Users]

UserAdminAssumption ==
    /\ Users \subseteq Nat
    /\ Requests \subseteq Nat \ {0}
    /\ Orders \in [Requests -> SUBSET Order]
    /\ FirstSupers \subseteq (SUBSET Users) \ {{}}
    /\ MaxAborts \in Nat

VARIABLES
    users,      \* the table, as committed
    locks,      \* locks[u]: the request that holds the row of u, or nobody
    request,    \* request[r]: how far r has got
    aborts,     \* bound
    reset       \* ghost: reset[u], the password of u as it was last answered for

vars == <<users, locks, request, aborts, reset>>

-----------------------------------------------------------------------------
(* Data *)

User == [role : Roles, active : BOOLEAN, password : Requests \cup {0}]

Nobody == 0
Unsent == [at |-> "unsent"]
Refused == [at |-> "refused"]
Granted == [at |-> "granted"]

IsSuper(user) == user.role = "super_admin" /\ user.active
Supers(table) == {u \in Users : IsSuper(table[u])}

Instance(user, order) ==
    [user EXCEPT !.role = IF order.role = Keep THEN @ ELSE order.role,
                 !.active = IF order.active = Keep THEN @ ELSE order.active = "on"]

LockedBy(r) == [u \in Users |-> IF locks[u] = r THEN Nobody ELSE locks[u]]
Free(r, u) == locks[u] \in {Nobody, r}

Move(r, at) == request' = [request EXCEPT ![r].at = at]

-----------------------------------------------------------------------------
(* Requests *)

Init ==
    /\ \E first \in FirstSupers :
         users = [u \in Users |-> [role |-> IF u \in first THEN "super_admin" ELSE "other",
                                  active |-> TRUE, password |-> 0]]
    /\ locks = [u \in Users |-> Nobody]
    /\ request = [r \in Requests |-> Unsent]
    /\ aborts = 0
    /\ reset = [u \in Users |-> 0]

(* Authentication and permission, get_object(), the check of oneself, and  *)
(* validation: the instance is the row as it is now.  Requests are alike,  *)
(* so they come in the order of their numbers.                             *)
Receive(r, order) ==
    /\ request[r].at = "unsent"
    /\ \A q \in Requests : q < r => request[q].at # "unsent"
    /\ IsSuper(users[order.actor])
    /\ request' = [request EXCEPT ![r] =
         IF order.actor = order.target THEN Refused
         ELSE IF order.kind = "update"
         THEN [at |-> "select", kind |-> "update", target |-> order.target,
               instance |-> Instance(users[order.target], order), wanted |-> {}]
         ELSE [at |-> "save", kind |-> "password", target |-> order.target]]
    /\ UNCHANGED <<users, locks, aborts, reset>>

\* Regression: the rows are not locked.
SelectUnlocked(r) ==
    /\ request[r].at = "select"
    /\ request' = [request EXCEPT ![r].at = "lock", ![r].wanted = {}]
    /\ UNCHANGED <<users, locks, aborts, reset>>

(* select_for_update() starts: the rows it found, to be taken by pk. *)
Select(r) ==
    /\ request[r].at = "select"
    /\ request' = [request EXCEPT ![r].at = "lock", ![r].wanted = Supers(users)]
    /\ UNCHANGED <<users, locks, aborts, reset>>

Lock(r) ==
    /\ request[r].at = "lock"
    /\ LET w == request[r].wanted IN
        \/ /\ w = {}
           /\ Move(r, "save")
           /\ UNCHANGED locks
        \/ \E u \in w :
             /\ \A v \in w : u <= v
             /\ Free(r, u)
             /\ locks' = IF IsSuper(users[u]) THEN [locks EXCEPT ![u] = r] ELSE locks
             /\ request' = [request EXCEPT ![r].wanted = w \ {u}]
    /\ UNCHANGED <<users, aborts, reset>>

(* serializer.save(): an UPDATE of every column, not visible to others yet. *)
Save(r) ==
    /\ request[r].at = "save" /\ request[r].kind = "update"
    /\ Free(r, request[r].target)
    /\ locks' = [locks EXCEPT ![request[r].target] = r]
    /\ Move(r, "count")
    /\ UNCHANGED <<users, aborts, reset>>

(* The table as the transaction of r sees it. *)
Seen(r) == [users EXCEPT ![request[r].target] = request[r].instance]

\* Regression: the exception leaves the transaction open.
RollBackOpen(r) ==
    /\ request' = [request EXCEPT ![r] = Refused]
    /\ UNCHANGED <<users, locks, reset>>

RollBack(r) ==
    /\ locks' = LockedBy(r)
    /\ request' = [request EXCEPT ![r] = Refused]
    /\ UNCHANGED <<users, reset>>

\* Regression: whoever is left of the super admins is not counted again.
CountNobody(r) ==
    /\ request[r].at = "count"
    /\ Move(r, "commit")
    /\ UNCHANGED <<users, locks, aborts, reset>>

(* exists(), and the ValidationError that rolls the transaction back. *)
Count(r) ==
    /\ request[r].at = "count"
    /\ IF Supers(Seen(r)) = {}
       THEN RollBack(r)
       ELSE Move(r, "commit") /\ UNCHANGED <<users, locks, reset>>
    /\ UNCHANGED aborts

Commit(r) ==
    /\ request[r].at = "commit"
    /\ users' = Seen(r)
    /\ locks' = LockedBy(r)
    /\ request' = [request EXCEPT ![r] = Granted]
    /\ UNCHANGED <<aborts, reset>>

(* set_password(): an UPDATE of that column alone, and the answer. *)
SavePassword(r) ==
    /\ request[r].at = "save" /\ request[r].kind = "password"
    /\ locks[request[r].target] = Nobody
    /\ users' = [users EXCEPT ![request[r].target].password = r]
    /\ reset' = [reset EXCEPT ![request[r].target] = r]
    /\ request' = [request EXCEPT ![r] = Granted]
    /\ UNCHANGED <<locks, aborts>>

(* The row r cannot have. *)
WaitsFor(r) ==
    {u \in Users :
        /\ request[r].at \in {"lock", "save"} /\ request[r].kind = "update"
        /\ ~Free(r, u)
        /\ \/ request[r].at = "lock" /\ u \in request[r].wanted
                /\ \A v \in request[r].wanted : u <= v
           \/ request[r].at = "save" /\ u = request[r].target}

Blocks(q, r) == \E u \in WaitsFor(r) : locks[u] = q

(* Transactions that wait for each other: the database ends one of them. *)
Deadlock(r) ==
    /\ \E S \in SUBSET Requests :
         r \in S /\ \A q \in S : \E p \in S : Blocks(p, q)
    /\ RollBack(r)
    /\ UNCHANGED aborts

(* The worker dies, or its connection does. *)
Abort(r) ==
    /\ request[r].at \in {"select", "lock", "save", "count", "commit"}
    /\ aborts < MaxAborts
    /\ aborts' = aborts + 1
    /\ RollBack(r)

Work(r) ==
    \/ Select(r) \/ Lock(r) \/ Save(r) \/ Count(r) \/ Commit(r)
    \/ SavePassword(r) \/ Deadlock(r)

Next == \E r \in Requests :
    (\E order \in Orders[r] : Receive(r, order)) \/ Work(r) \/ Abort(r)

Spec == Init /\ [][Next]_vars

-----------------------------------------------------------------------------
(* Properties *)

(* Type invariant; a request that has been answered holds no row. *)
TypeOK ==
    /\ users \in [Users -> User]
    /\ locks \in [Users -> Requests \cup {Nobody}]
    /\ \A r \in Requests : request[r].at \in {"unsent", "select", "lock", "save", "count",
                                             "commit", "refused", "granted"}
    /\ aborts \in 0..MaxAborts
    /\ reset \in [Users -> Requests \cup {0}]
    /\ \A u \in Users :
         locks[u] # Nobody => request[locks[u]].at \in {"lock", "save", "count", "commit"}

(* "The last active super admin is protected": however requests to demote  *)
(* and to deactivate interleave, somebody is left to undo them.            *)
LastSuperAdminStays == Supers(users) # {}

(* test_set_password: once "Password updated." has been answered, that is  *)
(* the password of the account, whatever else is saved of it meanwhile.    *)
PasswordStands == \A u \in Users : users[u].password = reset[u]

(* Requests sent and not answered. *)
UnderWay == {r \in Requests : request[r].at \notin {"unsent", "refused", "granted"}}

=============================================================================
