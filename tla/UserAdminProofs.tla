--------------------------- MODULE UserAdminProofs ---------------------------
(***************************************************************************)
(* Theorems about UserAdmin, for any accounts, requests and orders: what   *)
(* the row locks and the recount of perform_update() guarantee, and the    *)
(* hypothesis without which they do not.                                   *)
(***************************************************************************)
EXTENDS UserAdmin, TLAPS

-----------------------------------------------------------------------------
(* The inductive invariant *)

Pending ==
    [at : {"select", "lock", "save", "count", "commit"}, kind : {"update"}, target : Users,
     instance : User, wanted : SUBSET Users]
PasswordSave == [at : {"save"}, kind : {"password"}, target : Users]
Answered == {Unsent, Refused, Granted}

RequestInv == request \in [Requests -> Answered \cup Pending \cup PasswordSave]

(* Only a PATCH under way holds rows; from its UPDATE on it holds that of  *)
(* its target.                                                             *)
LockInv ==
    \A r \in Requests :
        /\ \A u \in Users : locks[u] = r => request[r] \in Pending /\ request[r].at # "select"
        /\ request[r] \in Pending /\ request[r].at \in {"count", "commit"}
           => locks[request[r].target] = r

RowInv == TypeOK /\ RequestInv /\ LockInv

(* Nobody is made a super admin, nor switched on again: every PATCH takes  *)
(* the role away or switches the account off.                              *)
OnlyDemotions ==
    \A r \in Requests : \A order \in Orders[r] :
        order.kind = "update" => order.role = "other" \/ order.active = "off"

(* The super admins there are when a PATCH counts were there when it       *)
(* looked for them, so that it has locked them all; and whoever its        *)
(* recount found stays until it commits.                                   *)
Covers(r) ==
    /\ ~IsSuper(request[r].instance)
    /\ request[r].at = "lock" =>
         \A u \in Supers(users) : u \in request[r].wanted \/ locks[u] = r
    /\ request[r].at \in {"save", "count", "commit"} =>
         \A u \in Supers(users) : locks[u] = r
    /\ request[r].at = "commit" => \E u \in Supers(users) : u # request[r].target

CoverInv == \A r \in Requests : request[r] \in Pending => Covers(r)

DemotionInv == RowInv /\ CoverInv /\ LastSuperAdminStays

-----------------------------------------------------------------------------
(* Requests *)

Step(r) == (\E order \in Orders[r] : Receive(r, order)) \/ Work(r) \/ Abort(r)

LEMMA RequestShape ==
    ASSUME RequestInv, NEW r \in Requests
    PROVE  /\ request[r].at \in {"select", "lock", "count", "commit"} => request[r] \in Pending
           /\ request[r].at = "save" => request[r] \in Pending \cup PasswordSave
           /\ request[r] \in Pending <=> /\ request[r].at \notin {"unsent", "refused", "granted"}
                                         /\ request[r].kind = "update"
           /\ request[r] \in Pending => /\ request[r].at \in {"select", "lock", "save", "count", "commit"}
                                        /\ request[r].target \in Users
                                        /\ request[r].instance \in User
                                        /\ request[r].wanted \in SUBSET Users
           /\ request[r] \in PasswordSave => request[r].at = "save" /\ request[r].target \in Users
  <1>1. request[r] \in Answered \cup Pending \cup PasswordSave
    BY DEF RequestInv
  <1>2. CASE request[r] \in Answered
    <2>1. request[r].at \in {"unsent", "refused", "granted"}
      BY <1>2 DEF Answered, Unsent, Refused, Granted
    <2>2. request[r] \notin Pending /\ request[r] \notin PasswordSave
      BY <2>1 DEF Pending, PasswordSave
    <2> QED
      BY <2>1, <2>2
  <1>3. CASE request[r] \in Pending
    BY <1>3 DEF Pending, PasswordSave
  <1>4. CASE request[r] \in PasswordSave
    BY <1>4 DEF Pending, PasswordSave
  <1> QED
    BY <1>1, <1>2, <1>3, <1>4

(* The instance a PATCH will save is an account. *)
LEMMA InstanceType ==
    ASSUME UserAdminAssumption, NEW r \in Requests, NEW order \in Orders[r],
           order.kind = "update", NEW user \in User
    PROVE  /\ Instance(user, order) \in User
           /\ order.role = "other" \/ order.active = "off" => ~IsSuper(Instance(user, order))
  <1>1. order \in Order
    BY DEF UserAdminAssumption
  <1>2. order.role \in Roles \cup {Keep} /\ order.active \in {"on", "off", Keep}
    BY <1>1 DEF Order
  <1> QED
    BY <1>2 DEF Instance, User, Roles, Keep, IsSuper

(* A request does not touch what other requests are at or hold. *)
LEMMA OthersKept ==
    ASSUME UserAdminAssumption, RowInv, NEW r \in Requests, Step(r),
           NEW q \in Requests \ {r}
    PROVE  request'[q] = request[q] /\ \A u \in Users : locks'[u] = q <=> locks[u] = q
  <1>1. /\ locks \in [Users -> Requests \cup {Nobody}]
        /\ q # Nobody /\ q # r /\ DOMAIN locks = Users /\ DOMAIN request = Requests
    BY DEF RowInv, RequestInv, TypeOK, UserAdminAssumption, Nobody
  <1>2. CASE \E order \in Orders[r] : Receive(r, order)
    BY <1>2 DEF Receive
  <1>3. ASSUME RollBack(r) PROVE request'[q] = request[q] /\ \A u \in Users : locks'[u] = q <=> locks[u] = q
    BY <1>1, <1>3 DEF RollBack, LockedBy
  <1>4. CASE Select(r)
    BY <1>1, <1>4 DEF Select
  <1>5. CASE Lock(r)
    <2>1. request'[q] = request[q]
      BY <1>1, <1>5 DEF Lock, Move
    <2>2. locks' = locks \/ \E u \in Users : Free(r, u) /\ locks' = [locks EXCEPT ![u] = r]
      <3>1. request[r] \in Pending
        BY <1>5, RequestShape DEF Lock, RowInv
      <3> QED
        BY <1>5, <3>1 DEF Lock, Pending
    <2> QED
      BY <1>1, <2>1, <2>2 DEF Free
  <1>6. CASE Save(r)
    BY <1>1, <1>6 DEF Save, Free, Move
  <1>7. CASE Count(r)
    BY <1>1, <1>3, <1>7 DEF Count, Move
  <1>8. CASE Commit(r)
    BY <1>1, <1>8 DEF Commit, LockedBy
  <1>9. CASE SavePassword(r)
    BY <1>9 DEF SavePassword
  <1>10. CASE Deadlock(r) \/ Abort(r)
    BY <1>3, <1>10 DEF Deadlock, Abort
  <1> QED
    BY <1>2, <1>4, <1>5, <1>6, <1>7, <1>8, <1>9, <1>10 DEF Step, Work

(* Typing of a table with one row replaced. *)
LEMMA SeenType ==
    ASSUME UserAdminAssumption, RowInv, NEW r \in Requests, request[r] \in Pending
    PROVE  /\ Seen(r) \in [Users -> User]
           /\ Seen(r)[request[r].target] = request[r].instance
           /\ \A u \in Users : u # request[r].target => Seen(r)[u] = users[u]
           /\ request[r].target \in Users /\ request[r].instance \in User
  <1>1. request[r].target \in Users /\ request[r].instance \in User
    BY RequestShape DEF RowInv
  <1>2. users \in [Users -> User]
    BY DEF RowInv, TypeOK
  <1> QED
    BY <1>1, <1>2 DEF Seen

(* What a request is at after its step, and which rows it holds then. *)
Held(r) == {u \in Users : locks[u] = r}

LEMMA OwnStep ==
    ASSUME UserAdminAssumption, RowInv, NEW r \in Requests, Step(r)
    PROVE  /\ users' \in [Users -> User]
           /\ locks' \in [Users -> Requests \cup {Nobody}]
           /\ request' \in [Requests -> Answered \cup Pending \cup PasswordSave]
           /\ aborts' \in 0..MaxAborts
           /\ reset' \in [Users -> Requests \cup {0}]
           /\ \A u \in Users : locks'[u] = r => request'[r] \in Pending /\ request'[r].at # "select"
           /\ request'[r] \in Pending /\ request'[r].at \in {"count", "commit"}
                => locks'[request'[r].target] = r
  <1>1. /\ users \in [Users -> User]
        /\ locks \in [Users -> Requests \cup {Nobody}]
        /\ request \in [Requests -> Answered \cup Pending \cup PasswordSave]
        /\ aborts \in 0..MaxAborts /\ MaxAborts \in Nat
        /\ reset \in [Users -> Requests \cup {0}]
        /\ r # Nobody
    BY DEF RowInv, RequestInv, TypeOK, UserAdminAssumption, Nobody
  <1>2. /\ \A u \in Users : locks[u] = r => request[r] \in Pending /\ request[r].at # "select"
        /\ request[r] \in Pending /\ request[r].at \in {"count", "commit"}
           => locks[request[r].target] = r
    BY DEF RowInv, LockInv
  <1>3. CASE \E order \in Orders[r] : Receive(r, order)
    <2>1. PICK order \in Orders[r] : Receive(r, order)
      BY <1>3
    <2>2. order \in Order
      BY DEF UserAdminAssumption
    <2>3. order.actor \in Users /\ order.target \in Users /\ order.kind \in {"update", "password"}
      BY <2>2 DEF Order
    <2>4. request[r].at = "unsent"
      BY <2>1 DEF Receive
    <2>5. \A u \in Users : locks[u] # r
      <3>1. request[r] \notin Pending
        BY <2>4 DEF Pending
      <3> QED
        BY <1>2, <3>1
    <2>6. /\ users' = users /\ locks' = locks /\ aborts' = aborts /\ reset' = reset
          /\ request' = [request EXCEPT ![r] =
               IF order.actor = order.target THEN Refused
               ELSE IF order.kind = "update"
               THEN [at |-> "select", kind |-> "update", target |-> order.target,
                     instance |-> Instance(users[order.target], order), wanted |-> {}]
               ELSE [at |-> "save", kind |-> "password", target |-> order.target]]
      BY <2>1 DEF Receive
    <2>7. request'[r] \in Answered \/ request'[r] \in PasswordSave
          \/ (request'[r] \in Pending /\ request'[r].at = "select")
      <3>1. CASE order.actor = order.target
        BY <1>1, <2>6, <3>1 DEF Answered
      <3>2. CASE order.actor # order.target /\ order.kind = "update"
        <4>1. Instance(users[order.target], order) \in User
          BY <1>1, <2>3, <3>2, InstanceType
        <4> HIDE DEF Instance
        <4> QED
          BY <1>1, <2>3, <2>6, <3>2, <4>1 DEF Pending
      <3>3. CASE order.actor # order.target /\ order.kind # "update"
        BY <1>1, <2>3, <2>6, <3>3 DEF PasswordSave
      <3> QED
        BY <3>1, <3>2, <3>3
    <2>8. request' \in [Requests -> Answered \cup Pending \cup PasswordSave]
      BY <1>1, <2>6, <2>7
    <2>9. request'[r] \in Pending => request'[r].at = "select"
      <3>1. request'[r] \in Answered => request'[r] \notin Pending
        BY DEF Answered, Unsent, Refused, Granted, Pending
      <3>2. request'[r] \in PasswordSave => request'[r] \notin Pending
        BY DEF PasswordSave, Pending
      <3> QED
        BY <2>7, <3>1, <3>2
    <2> QED
      BY <1>1, <2>5, <2>6, <2>8, <2>9
  <1>4. ASSUME RollBack(r), aborts' \in 0..MaxAborts
        PROVE  /\ users' \in [Users -> User]
               /\ locks' \in [Users -> Requests \cup {Nobody}]
               /\ request' \in [Requests -> Answered \cup Pending \cup PasswordSave]
               /\ aborts' \in 0..MaxAborts
               /\ reset' \in [Users -> Requests \cup {0}]
               /\ \A u \in Users : locks'[u] # r
               /\ request'[r] \notin Pending
    <2>1. Refused \in Answered /\ Refused \notin Pending
      BY DEF Answered, Refused, Pending
    <2> QED
      BY <1>1, <1>4, <2>1 DEF RollBack, LockedBy
  <1>5. CASE Select(r)
    <2>1. /\ request[r].at = "select" /\ request[r] \in Pending
          /\ request' = [request EXCEPT ![r].at = "lock", ![r].wanted = Supers(users)]
          /\ users' = users /\ locks' = locks /\ aborts' = aborts /\ reset' = reset
      BY <1>5, RequestShape DEF Select, RowInv
    <2>2. Supers(users) \in SUBSET Users
      BY DEF Supers
    <2>3. request'[r] \in Pending /\ request'[r].at = "lock"
      BY <1>1, <2>1, <2>2 DEF Pending
    <2> QED
      BY <1>1, <1>2, <2>1, <2>3
  <1>6. CASE Lock(r)
    <2>1. /\ request[r].at = "lock" /\ request[r] \in Pending
          /\ users' = users /\ aborts' = aborts /\ reset' = reset
      BY <1>6, RequestShape DEF Lock, RowInv
    <2>2. \/ request' = [request EXCEPT ![r].at = "save"] /\ locks' = locks
          \/ \E u \in request[r].wanted :
                /\ locks' = IF IsSuper(users[u]) THEN [locks EXCEPT ![u] = r] ELSE locks
                /\ request' = [request EXCEPT ![r].wanted = request[r].wanted \ {u}]
      BY <1>6 DEF Lock, Move
    <2>3. request[r].wanted \in SUBSET Users
      BY <2>1 DEF Pending
    <2>4. locks' \in [Users -> Requests \cup {Nobody}]
      BY <1>1, <2>2, <2>3
    <2>5. request'[r] \in Pending /\ request'[r].at \in {"lock", "save"}
          /\ request' \in [Requests -> Answered \cup Pending \cup PasswordSave]
      <3>1. CASE request' = [request EXCEPT ![r].at = "save"]
        BY <1>1, <2>1, <3>1 DEF Pending
      <3>2. CASE \E u \in request[r].wanted :
                   request' = [request EXCEPT ![r].wanted = request[r].wanted \ {u}]
        BY <1>1, <2>1, <2>3, <3>2 DEF Pending
      <3> QED
        BY <2>2, <3>1, <3>2
    <2> QED
      BY <1>1, <2>1, <2>4, <2>5
  <1>7. CASE Save(r)
    <2>1. /\ request[r] \in Pending
          /\ users' = users /\ aborts' = aborts /\ reset' = reset
          /\ locks' = [locks EXCEPT ![request[r].target] = r]
          /\ request' = [request EXCEPT ![r].at = "count"]
      BY <1>7, RequestShape DEF Save, RowInv, Move
    <2>2. request'[r] \in Pending /\ request'[r].at = "count" /\ request'[r].target = request[r].target
          /\ request[r].target \in Users
      BY <1>1, <2>1 DEF Pending
    <2> QED
      BY <1>1, <2>1, <2>2
  <1>8. CASE Count(r)
    <2>1. request[r] \in Pending /\ request[r].at = "count" /\ aborts' = aborts
      BY <1>8, RequestShape DEF Count, RowInv
    <2>2. CASE RollBack(r)
      BY <1>1, <1>4, <2>1, <2>2
    <2>3. CASE /\ request' = [request EXCEPT ![r].at = "commit"]
               /\ users' = users /\ locks' = locks /\ reset' = reset
      <3>1. request'[r] \in Pending /\ request'[r].at = "commit" /\ request'[r].target = request[r].target
        BY <1>1, <2>1, <2>3 DEF Pending
      <3> QED
        BY <1>1, <1>2, <2>1, <2>3, <3>1
    <2> QED
      BY <1>8, <2>2, <2>3 DEF Count, Move
  <1>9. CASE Commit(r)
    <2>1. /\ request[r] \in Pending /\ aborts' = aborts /\ reset' = reset /\ users' = Seen(r)
          /\ locks' = LockedBy(r) /\ request' = [request EXCEPT ![r] = Granted]
      BY <1>9, RequestShape DEF Commit, RowInv
    <2>2. Granted \in Answered /\ Granted \notin Pending
      BY DEF Answered, Granted, Pending
    <2>3. locks' \in [Users -> Requests \cup {Nobody}] /\ \A u \in Users : locks'[u] # r
      BY <1>1, <2>1 DEF LockedBy
    <2> QED
      BY <1>1, <2>1, <2>2, <2>3, SeenType
  <1>10. CASE SavePassword(r)
    <2>1. /\ request[r].at = "save" /\ request[r].kind = "password"
          /\ users' = [users EXCEPT ![request[r].target].password = r]
          /\ reset' = [reset EXCEPT ![request[r].target] = r]
          /\ request' = [request EXCEPT ![r] = Granted]
          /\ locks' = locks /\ aborts' = aborts
      BY <1>10 DEF SavePassword
    <2>2. request[r] \notin Pending /\ request[r].target \in Users
      BY <2>1, RequestShape DEF RowInv
    <2>3. Granted \in Answered /\ Granted \notin Pending
      BY DEF Answered, Granted, Pending
    <2>4. users' \in [Users -> User]
      BY <1>1, <2>1, <2>2 DEF User
    <2> QED
      BY <1>1, <1>2, <2>1, <2>2, <2>3, <2>4
  <1>11. CASE Deadlock(r)
    BY <1>1, <1>4, <1>11 DEF Deadlock
  <1>12. CASE Abort(r)
    <2>1. aborts' \in 0..MaxAborts
      BY <1>1, <1>12 DEF Abort
    <2> QED
      BY <1>4, <1>12, <2>1 DEF Abort
  <1> QED
    BY <1>3, <1>5, <1>6, <1>7, <1>8, <1>9, <1>10, <1>11, <1>12 DEF Step, Work

LEMMA RowsKept ==
    ASSUME UserAdminAssumption, RowInv, NEW r \in Requests, Step(r)
    PROVE  RowInv'
  <1>1. RequestInv'
    BY OwnStep DEF RequestInv, Answered, Pending, PasswordSave, User
  <1>2. LockInv'
    <2>1. ASSUME NEW q \in Requests \ {r}
          PROVE  /\ \A u \in Users : locks'[u] = q => request'[q] \in Pending /\ request'[q].at # "select"
                 /\ request'[q] \in Pending /\ request'[q].at \in {"count", "commit"}
                    => locks'[request'[q].target] = q
      <3>1. request'[q] = request[q] /\ \A u \in Users : locks'[u] = q <=> locks[u] = q
        BY <2>1, OthersKept
      <3>2. request[q] \in Pending => request[q].target \in Users
        BY DEF Pending
      <3> QED
        BY <3>1, <3>2 DEF RowInv, LockInv
    <2>2. Pending' = Pending
      BY DEF Pending, User
    <2> QED
      BY <2>1, <2>2, OwnStep DEF LockInv
  <1>3. TypeOK'
    <2>1. \A q \in Requests : request'[q].at \in {"unsent", "select", "lock", "save", "count",
                                                  "commit", "refused", "granted"}
      <3> TAKE q \in Requests
      <3>1. request'[q] \in Answered \cup Pending \cup PasswordSave
        BY OwnStep
      <3> QED
        BY <3>1 DEF Answered, Unsent, Refused, Granted, Pending, PasswordSave
    <2>2. \A u \in Users : locks'[u] # Nobody => request'[locks'[u]].at \in {"lock", "save", "count", "commit"}
      <3> TAKE u \in Users
      <3> HAVE locks'[u] # Nobody
      <3> DEFINE q == locks'[u]
      <3>1. q \in Requests
        BY OwnStep
      <3>2. request'[q] \in Pending /\ request'[q].at # "select"
        <4>1. LockInv' /\ Pending' = Pending
          BY <1>2 DEF Pending, User
        <4> QED
          BY <3>1, <4>1 DEF LockInv
      <3> QED
        BY <3>2 DEF Pending
    <2> QED
      BY <2>1, <2>2, OwnStep DEF TypeOK, User
  <1> QED
    BY <1>1, <1>2, <1>3 DEF RowInv

-----------------------------------------------------------------------------
(* Demotions *)

(* A step of r leaves the super admins there are, but for the target of a  *)
(* change it commits; and nobody joins them.                               *)
LEMMA SupersAfter ==
    ASSUME UserAdminAssumption, RowInv, CoverInv, NEW r \in Requests, Step(r)
    PROVE  /\ ~Commit(r) => Supers(users)' = Supers(users)
           /\ Commit(r) => /\ request[r] \in Pending /\ request[r].at = "commit"
                           /\ Supers(users)' = Supers(users) \ {request[r].target}
  <1>1. users \in [Users -> User]
    BY DEF RowInv, TypeOK
  <1>2. CASE Commit(r)
    <2>1. request[r] \in Pending /\ request[r].at = "commit" /\ users' = Seen(r)
      BY <1>2, RequestShape DEF Commit, RowInv
    <2>2. ~IsSuper(request[r].instance)
      BY <2>1 DEF CoverInv, Covers
    <2>3. \A u \in Users : IsSuper(users'[u]) <=> IsSuper(users[u]) /\ u # request[r].target
      <3> TAKE u \in Users
      <3> HIDE DEF IsSuper
      <3> QED
        BY <2>1, <2>2, SeenType
    <2>4. Supers(users)' = {u \in Users : IsSuper(users'[u])}
      BY DEF Supers, IsSuper
    <2> HIDE DEF IsSuper
    <2> QED
      BY <1>2, <2>1, <2>3, <2>4 DEF Supers
  <1>3. CASE SavePassword(r)
    <2>1. users' = [users EXCEPT ![request[r].target].password = r]
      BY <1>3 DEF SavePassword
    <2>2. \A u \in Users : users'[u].role = users[u].role /\ users'[u].active = users[u].active
      BY <1>1, <2>1 DEF User
    <2>3. Supers(users)' = Supers(users)
      BY <2>2 DEF Supers, IsSuper
    <2>4. ~Commit(r)
      BY <1>3 DEF SavePassword, Commit
    <2> QED
      BY <2>3, <2>4
  <1>4. CASE ~Commit(r) /\ ~SavePassword(r)
    <2>1. users' = users
      BY <1>4 DEF Step, Work, Receive, Select, Lock, Save, Count, Deadlock, Abort, RollBack
    <2> QED
      BY <1>4, <2>1 DEF Supers, IsSuper
  <1> QED
    BY <1>2, <1>3, <1>4

(* What another request covers stays covered. *)
LEMMA OthersCovered ==
    ASSUME UserAdminAssumption, RowInv, CoverInv, NEW r \in Requests, Step(r),
           NEW q \in Requests \ {r}, request'[q] \in Pending
    PROVE  Covers(q)'
  <1>1. request'[q] = request[q] /\ \A u \in Users : locks'[u] = q <=> locks[u] = q
    BY OthersKept
  <1>2. Covers(q)
    BY <1>1 DEF CoverInv
  <1>3. Supers(users)' \subseteq Supers(users) /\ Supers(users) \subseteq Users
    BY SupersAfter DEF Supers
  <1>4. request[q].at = "commit" => \E u \in Supers(users)' : u # request[q].target
    <2> SUFFICES ASSUME request[q].at = "commit"
                 PROVE  \E u \in Supers(users)' : u # request[q].target
      OBVIOUS
    <2>1. PICK u \in Supers(users) : u # request[q].target
      BY <1>2 DEF Covers
    <2>2. locks[u] = q
      BY <1>2, <2>1 DEF Covers
    <2>3. Commit(r) => u # request[r].target
      <3> SUFFICES ASSUME Commit(r) PROVE locks[request[r].target] = r
        BY <2>2
      <3> QED
        BY SupersAfter DEF RowInv, LockInv
    <2> QED
      BY <2>1, <2>3, SupersAfter
  <1>5. ~IsSuper(request'[q].instance)
    BY <1>1, <1>2 DEF Covers
  <1>6. request'[q].at = "lock" =>
          \A u \in Supers(users)' : u \in request'[q].wanted \/ locks'[u] = q
    BY <1>1, <1>2, <1>3 DEF Covers
  <1>7. request'[q].at \in {"save", "count", "commit"} =>
          \A u \in Supers(users)' : locks'[u] = q
    BY <1>1, <1>2, <1>3 DEF Covers
  <1> QED
    BY <1>1, <1>4, <1>5, <1>6, <1>7 DEF Covers, IsSuper

LEMMA OwnCovered ==
    ASSUME UserAdminAssumption, OnlyDemotions, RowInv, CoverInv, NEW r \in Requests, Step(r),
           request'[r] \in Pending
    PROVE  Covers(r)'
  <1>1. /\ users \in [Users -> User] /\ DOMAIN request = Requests /\ DOMAIN locks = Users
    BY DEF RowInv, RequestInv, TypeOK
  <1>2. Supers(users) \subseteq Users
    BY DEF Supers
  <1>3. CASE \E order \in Orders[r] : Receive(r, order)
    <2>1. PICK order \in Orders[r] : Receive(r, order)
      BY <1>3
    <2>2. request' = [request EXCEPT ![r] =
               IF order.actor = order.target THEN Refused
               ELSE IF order.kind = "update"
               THEN [at |-> "select", kind |-> "update", target |-> order.target,
                     instance |-> Instance(users[order.target], order), wanted |-> {}]
               ELSE [at |-> "save", kind |-> "password", target |-> order.target]]
      BY <2>1 DEF Receive
    <2>3. Refused \notin Pending
      BY DEF Refused, Pending
    <2>4. order.target \in Users
      <3>1. order \in Order
        BY DEF UserAdminAssumption
      <3> QED
        BY <3>1 DEF Order
    <2>5. order.kind = "update"
      <3> SUFFICES ASSUME order.kind # "update" PROVE FALSE
        OBVIOUS
      <3>1. request'[r] = [at |-> "save", kind |-> "password", target |-> order.target]
        BY <1>1, <2>2, <2>3
      <3> QED
        BY <3>1 DEF Pending
    <2>6. order.actor # order.target
      BY <1>1, <2>2, <2>3
    <2>7. request'[r] = [at |-> "select", kind |-> "update", target |-> order.target,
                         instance |-> Instance(users[order.target], order), wanted |-> {}]
      <3> HIDE DEF Instance
      <3> QED
        BY <1>1, <2>2, <2>5, <2>6
    <2>8. ~IsSuper(Instance(users[order.target], order))
      <3>1. order.role = "other" \/ order.active = "off"
        BY <2>5 DEF OnlyDemotions
      <3> HIDE DEF Instance, IsSuper
      <3> QED
        BY <1>1, <2>4, <2>5, <3>1, InstanceType
    <2>9. request'[r].at = "select" /\ ~IsSuper(request'[r].instance)
      <3> HIDE DEF Instance, IsSuper
      <3> QED
        BY <2>7, <2>8
    <2> QED
      BY <2>9 DEF Covers, IsSuper
  <1>4. ASSUME RollBack(r) PROVE FALSE
    <2>1. request'[r] = Refused
      BY <1>1, <1>4 DEF RollBack
    <2> QED
      BY <2>1 DEF Refused, Pending
  <1>5. CASE Select(r)
    <2>1. /\ request[r].at = "select" /\ request[r] \in Pending /\ users' = users
          /\ request' = [request EXCEPT ![r].at = "lock", ![r].wanted = Supers(users)]
      BY <1>5, RequestShape DEF Select, RowInv
    <2>2. /\ request'[r].at = "lock" /\ request'[r].wanted = Supers(users)
          /\ request'[r].instance = request[r].instance
      BY <1>1, <2>1 DEF Pending
    <2>3. Supers(users)' = Supers(users) /\ ~IsSuper(request[r].instance)
      BY <2>1 DEF Supers, IsSuper, CoverInv, Covers
    <2> QED
      BY <2>2, <2>3 DEF Covers, IsSuper
  <1>6. CASE Lock(r)
    <2>1. /\ request[r].at = "lock" /\ request[r] \in Pending /\ users' = users
          /\ request[r].wanted \in SUBSET Users
      BY <1>6, RequestShape DEF Lock, RowInv
    <2>2. /\ ~IsSuper(request[r].instance)
          /\ \A u \in Supers(users) : u \in request[r].wanted \/ locks[u] = r
          /\ Supers(users)' = Supers(users)
      BY <2>1 DEF CoverInv, Covers, Supers, IsSuper
    <2>3. CASE request[r].wanted = {} /\ request' = [request EXCEPT ![r].at = "save"] /\ locks' = locks
      <3>1. request'[r].at = "save" /\ request'[r].instance = request[r].instance
        BY <1>1, <2>1, <2>3 DEF Pending
      <3> QED
        BY <2>2, <2>3, <3>1 DEF Covers, IsSuper
    <2>4. CASE \E u \in request[r].wanted :
                /\ locks' = IF IsSuper(users[u]) THEN [locks EXCEPT ![u] = r] ELSE locks
                /\ request' = [request EXCEPT ![r].wanted = request[r].wanted \ {u}]
      <3>1. PICK u \in request[r].wanted :
                /\ locks' = IF IsSuper(users[u]) THEN [locks EXCEPT ![u] = r] ELSE locks
                /\ request' = [request EXCEPT ![r].wanted = request[r].wanted \ {u}]
        BY <2>4
      <3>2. /\ request'[r].at = "lock" /\ request'[r].instance = request[r].instance
            /\ request'[r].wanted = request[r].wanted \ {u}
        BY <1>1, <2>1, <3>1 DEF Pending
      <3>3. u \in Supers(users) => locks'[u] = r
        BY <1>1, <1>2, <3>1 DEF Supers
      <3>4. \A v \in Users : locks[v] = r => locks'[v] = r
        BY <1>1, <3>1
      <3>5. \A v \in Supers(users) : v \in request'[r].wanted \/ locks'[v] = r
        BY <1>2, <2>2, <3>2, <3>3, <3>4
      <3> QED
        BY <2>2, <3>2, <3>5 DEF Covers, IsSuper
    <2> QED
      BY <1>6, <2>3, <2>4 DEF Lock, Move
  <1>7. CASE Save(r)
    <2>1. /\ request[r] \in Pending /\ request[r].at = "save" /\ users' = users
          /\ locks' = [locks EXCEPT ![request[r].target] = r]
          /\ request' = [request EXCEPT ![r].at = "count"]
      BY <1>7, RequestShape DEF Save, RowInv, Move
    <2>2. /\ ~IsSuper(request[r].instance)
          /\ \A u \in Supers(users) : locks[u] = r
          /\ Supers(users)' = Supers(users)
      BY <2>1 DEF CoverInv, Covers, Supers, IsSuper
    <2>3. request'[r].at = "count" /\ request'[r].instance = request[r].instance
      BY <1>1, <2>1 DEF Pending
    <2>4. \A u \in Supers(users) : locks'[u] = r
      BY <1>1, <1>2, <2>1, <2>2
    <2> QED
      BY <2>2, <2>3, <2>4 DEF Covers, IsSuper
  <1>8. CASE Count(r)
    <2>1. request[r] \in Pending /\ request[r].at = "count"
      BY <1>8, RequestShape DEF Count, RowInv
    <2>2. /\ Supers(Seen(r)) # {} /\ users' = users /\ locks' = locks
          /\ request' = [request EXCEPT ![r].at = "commit"]
      BY <1>4, <1>8 DEF Count, Move
    <2>3. /\ ~IsSuper(request[r].instance)
          /\ \A u \in Supers(users) : locks[u] = r
          /\ Supers(users)' = Supers(users)
      BY <2>1, <2>2 DEF CoverInv, Covers, Supers, IsSuper
    <2>4. /\ request'[r].at = "commit" /\ request'[r].instance = request[r].instance
          /\ request'[r].target = request[r].target
      BY <1>1, <2>1, <2>2 DEF Pending
    <2>5. PICK u \in Users : IsSuper(Seen(r)[u])
      BY <2>2 DEF Supers
    <2>6. u # request[r].target /\ u \in Supers(users)
      <3> HIDE DEF IsSuper
      <3>1. u # request[r].target
        BY <2>1, <2>3, <2>5, SeenType
      <3> QED
        BY <2>1, <2>5, <3>1, SeenType DEF Supers
    <2>7. \A v \in Supers(users)' : locks'[v] = r
      BY <2>2, <2>3
    <2> QED
      BY <2>3, <2>4, <2>6, <2>7 DEF Covers, IsSuper
  <1>9. CASE Commit(r) \/ SavePassword(r)
    <2>1. request'[r] = Granted
      BY <1>1, <1>9 DEF Commit, SavePassword
    <2> QED
      BY <2>1 DEF Granted, Pending
  <1>10. CASE Deadlock(r) \/ Abort(r)
    BY <1>4, <1>10 DEF Deadlock, Abort
  <1> QED
    BY <1>3, <1>5, <1>6, <1>7, <1>8, <1>9, <1>10 DEF Step, Work

LEMMA DemotionStep ==
    ASSUME UserAdminAssumption, OnlyDemotions, DemotionInv, NEW r \in Requests, Step(r)
    PROVE  DemotionInv'
  <1>1. RowInv'
    BY RowsKept DEF DemotionInv
  <1>2. CoverInv'
    <2>1. Pending' = Pending
      BY DEF Pending, User
    <2>2. ASSUME NEW q \in Requests, request'[q] \in Pending PROVE Covers(q)'
      BY <2>2, OwnCovered, OthersCovered DEF DemotionInv
    <2> QED
      BY <2>1, <2>2 DEF CoverInv
  <1>3. Supers(users)' # {}
    <2>1. CASE Commit(r)
      <3>1. PICK u \in Supers(users) : u # request[r].target
        BY <2>1, SupersAfter DEF DemotionInv, CoverInv, Covers
      <3> QED
        BY <2>1, <3>1, SupersAfter DEF DemotionInv
    <2>2. CASE ~Commit(r)
      BY <2>2, SupersAfter DEF DemotionInv, LastSuperAdminStays
    <2> QED
      BY <2>1, <2>2
  <1>4. LastSuperAdminStays'
    BY <1>3 DEF LastSuperAdminStays, Supers, IsSuper
  <1> QED
    BY <1>1, <1>2, <1>4 DEF DemotionInv

-----------------------------------------------------------------------------
(* Theorems *)

LEMMA InitRows ==
    ASSUME UserAdminAssumption, Init
    PROVE  RowInv /\ (\A r \in Requests : request[r] \notin Pending) /\ LastSuperAdminStays
  <1>1. \A r \in Requests : request[r] = Unsent /\ request[r] \notin Pending
    BY DEF Init, Unsent, Pending
  <1>2. PICK first \in FirstSupers :
         users = [u \in Users |-> [role |-> IF u \in first THEN "super_admin" ELSE "other",
                                  active |-> TRUE, password |-> 0]]
    BY DEF Init
  <1>3. users \in [Users -> User]
    BY <1>2 DEF User, Roles
  <1>4. locks = [u \in Users |-> Nobody] /\ \A r \in Requests : r # Nobody
    BY DEF Init, Nobody, UserAdminAssumption
  <1>5. RequestInv
    BY <1>1 DEF Init, RequestInv, Answered
  <1>6. LockInv
    BY <1>1, <1>4 DEF LockInv
  <1>7. TypeOK
    <2>1. \A r \in Requests : request[r].at = "unsent"
      BY <1>1 DEF Unsent
    <2>2. aborts \in 0..MaxAborts /\ reset \in [Users -> Requests \cup {0}]
      BY DEF Init, UserAdminAssumption
    <2> QED
      BY <1>3, <1>4, <2>1, <2>2 DEF TypeOK
  <1>8. PICK u \in first : u \in Users
    <2>1. first \in SUBSET Users /\ first # {}
      BY DEF UserAdminAssumption
    <2> QED
      BY <2>1
  <1>9. u \in Supers(users)
    BY <1>2, <1>8 DEF Supers, IsSuper
  <1> QED
    BY <1>1, <1>5, <1>6, <1>7, <1>9 DEF RowInv, LastSuperAdminStays

LEMMA Stutter ==
    ASSUME UNCHANGED vars
    PROVE  (RowInv => RowInv') /\ (DemotionInv => DemotionInv')
  <1>1. /\ users' = users /\ locks' = locks /\ request' = request
        /\ aborts' = aborts /\ reset' = reset
    BY DEF vars
  <1>2. RowInv => RowInv'
    BY <1>1 DEF RowInv, TypeOK, RequestInv, LockInv, Answered, Pending, PasswordSave, User
  <1>3. CoverInv => CoverInv'
    BY <1>1 DEF CoverInv, Covers, Pending, User, Supers, IsSuper
  <1>4. LastSuperAdminStays => LastSuperAdminStays'
    BY <1>1 DEF LastSuperAdminStays, Supers, IsSuper
  <1> QED
    BY <1>2, <1>3, <1>4 DEF DemotionInv

LEMMA DemotionInit == ASSUME UserAdminAssumption, Init PROVE DemotionInv
  BY InitRows DEF DemotionInv, CoverInv

LEMMA DemotionNext ==
    ASSUME UserAdminAssumption, OnlyDemotions, DemotionInv, [Next]_vars
    PROVE  DemotionInv'
  BY DemotionStep, Stutter DEF Next, Step

LEMMA RowsNext == ASSUME UserAdminAssumption, RowInv, [Next]_vars PROVE RowInv'
  BY RowsKept, Stutter DEF Next, Step

(* The rows, their locks and the requests keep their types, whatever is    *)
(* asked for: no request that has been answered, refused, rolled back or   *)
(* aborted holds a row, and one about to commit holds its target's.        *)
THEOREM RowsAreHeldByPending ==
    ASSUME UserAdminAssumption PROVE Spec => []RowInv
  <1>1. Init => RowInv
    BY InitRows
  <1>2. RowInv /\ [Next]_vars => RowInv'
    BY RowsNext
  <1> QED
    BY <1>1, <1>2, PTL DEF Spec

(* As long as nobody is made a super admin or switched on again, the last  *)
(* active super admin stays, however many demotions and deactivations      *)
(* interleave, wait for each other's rows, deadlock or die: perform_update *)
(* locks what its snapshot finds and counts again. The hypothesis is what  *)
(* the code lacks: a promotion between a snapshot and its locks breaks it. *)
THEOREM DemotionsLeaveOne ==
    ASSUME UserAdminAssumption, OnlyDemotions PROVE Spec => []LastSuperAdminStays
  <1>1. Init => DemotionInv
    BY DemotionInit
  <1>2. DemotionInv /\ [Next]_vars => DemotionInv'
    BY DemotionNext
  <1>3. DemotionInv => LastSuperAdminStays
    BY DEF DemotionInv
  <1> QED
    BY <1>1, <1>2, <1>3, PTL DEF Spec

=============================================================================
