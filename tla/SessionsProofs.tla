----------------------------- MODULE SessionsProofs -----------------------------
(***************************************************************************)
(* Theorems about Sessions, for any tabs, users, calls and bounds: what    *)
(* single-flight refreshes, rotation and a password change guarantee.      *)
(***************************************************************************)
EXTENDS Sessions, FiniteSetTheorems, WellFoundedInduction, TLAPS

-----------------------------------------------------------------------------
(* The inductive invariant *)

(* A refresh under way in a tab is the one that pending names, and the     *)
(* tasks that wait are waiting for it, to send a request again.            *)
FlightIn(t) ==
    /\ pending[t] # "none" => flight[t][pending[t]].stage # "none"
    /\ \A k \in Tasks :
         /\ flight[t][k].stage # "none" => pending[t] = k
         /\ task[t][k].stage = "wait" =>
              /\ pending[t] # "none"
              /\ task[t][k].on = pending[t]
              /\ task[t][k].next \in {"me", "meAgain", "callAgain"}

FlightInv == \A t \in Tabs : FlightIn(t)

Issued(k) == k # NoToken => tokens[k].state # "free"

(* Whoever holds a token holds one that was minted; a request that is past *)
(* its check has one, and somebody signs in.                               *)
FlightHolds(f) ==
    /\ Issued(f.cookie) /\ Issued(f.got)
    /\ f.stage \in {"checked", "granted"} => f.cookie # NoToken

TaskHolds(r) ==
    /\ Issued(r.cookie) /\ Issued(r.got)
    /\ r.stage = "signin" => r.user \in Users

HolderInv ==
    /\ Issued(cookie)
    /\ \A t \in Tabs, k \in Tasks : FlightHolds(flight[t][k]) /\ TaskHolds(task[t][k])

(* So does a refresh that was given up and is still to be handled. *)
LateInv == \A n \in Slots : FlightHolds(late[n])

(* A token keeps the claim of the sign-in it stems from, which was the     *)
(* password of its user at that time.                                      *)
ClaimInv ==
    \A k \in Ids :
        tokens[k].state # "free" =>
            /\ Owner(k) \in Users
            /\ tokens[k].pw = since[k]
            /\ tokens[k].pw <= password[Owner(k)]

SessionInv == TypeOK /\ FlightInv /\ HolderInv /\ LateInv /\ ClaimInv

-----------------------------------------------------------------------------
(* Operators *)

LEMMA SmallestExists ==
    ASSUME NEW S \in SUBSET Nat, S # {}
    PROVE  \E k \in S : \A j \in S : k <= j
  <1> DEFINE R == StrictSubsetOrdering(Nat)
             T == {0..k : k \in S}
  <1>1. \A k \in Nat : IsFiniteSet(0..k) /\ 0..k \in SUBSET Nat
    BY FS_Interval
  <1>2. T \subseteq FiniteSubsetsOf(Nat) /\ T # {}
    BY <1>1 DEF FiniteSubsetsOf
  <1>3. IsWellFoundedOn(R, FiniteSubsetsOf(Nat))
    BY FS_StrictSubsetOrderingWellFounded
  <1>4. \E x \in T : \A y \in T : ~(<<y, x>> \in R)
    <2> HIDE DEF R, T
    <2> QED
      BY <1>2, <1>3, WFMin
  <1>5. PICK k \in S : \A j \in S : ~(<<0..j, 0..k>> \in R)
    BY <1>4
  <1>6. ASSUME NEW j \in S, ~(k <= j) PROVE FALSE
    <2>1. 0..j \in SUBSET Nat /\ 0..k \in SUBSET Nat
      BY <1>1
    <2>2. 0..j \subseteq 0..k /\ k \in 0..k /\ k \notin 0..j
      BY <1>6
    <2>3. <<0..j, 0..k>> \in R
      BY <2>1, <2>2 DEF StrictSubsetOrdering
    <2> QED
      BY <1>5, <2>3
  <1> QED
    BY <1>5, <1>6

LEMMA NewestIsFree ==
    ASSUME Free # {}
    PROVE  Newest \in Free
  <1>1. Free \in SUBSET Nat
    BY BoundsAssumption DEF Free, Ids
  <1>2. \E k \in Free : \A j \in Free : k <= j
    BY <1>1, SmallestExists
  <1> QED
    BY <1>2 DEF Newest

LEMMA TaskNames ==
    /\ "none" \notin Tasks
    /\ "init" \in Tasks /\ "login" \in Tasks /\ "logout" \in Tasks
    /\ Calls \subseteq Tasks
    /\ "login" \notin Calls /\ "init" \notin Calls /\ "logout" \notin Calls
  BY CallsAssumption DEF Tasks

LEMMA BlankTypes ==
    /\ Idle \in Task /\ NoFlight \in Flight /\ FreeRow \in Row
    /\ NoToken \in Token /\ Ids \subseteq Token
    /\ Idle.stage = "idle" /\ Idle.got = NoToken /\ Idle.cookie = NoToken
    /\ NoFlight.stage = "none" /\ NoFlight.got = NoToken /\ NoFlight.cookie = NoToken
  BY DEF Idle, Task, Stage, Token, NoToken, Tasks, NoFlight, Flight, FreeRow, Row

(* The records of requests and refreshes that the actions put in place. *)
LEMMA RequestTypes ==
    ASSUME NEW b \in Token, NEW next \in Stage, NEW on \in Tasks
    PROVE  /\ [Idle EXCEPT !.stage = next, !.bearer = b] \in Task
           /\ [Idle EXCEPT !.stage = "wait", !.on = on, !.next = next] \in Task
           /\ \A u \in Users : [Idle EXCEPT !.stage = "signin", !.user = u] \in Task
           /\ \A c \in Token :
                [Idle EXCEPT !.stage = "logout", !.bearer = b, !.cookie = c] \in Task
           /\ [NoFlight EXCEPT !.stage = "sent", !.cookie = b] \in Flight
  BY DEF Idle, Task, Stage, Token, NoToken, NoFlight, Flight

-----------------------------------------------------------------------------
(* What the client module does to its tab *)

(* Only task k of tab t is replaced. *)
LEMMA BecomeStep ==
    ASSUME TypeOK, NEW t \in Tabs, NEW k \in Tasks, NEW r \in Task, Become(t, k, r)
    PROVE  /\ task' \in [Tabs -> [Tasks -> Task]]
           /\ task'[t][k] = r
           /\ \A s \in Tabs, j \in Tasks : s # t \/ j # k => task'[s][j] = task[s][j]
  BY DEF TypeOK, Become

LEMMA AwaitTypes ==
    ASSUME TypeOK, NEW t \in Tabs, NEW k \in Tasks, NEW next \in Stage, AwaitRefresh(t, k, next)
    PROVE  /\ task' \in [Tabs -> [Tasks -> Task]]
           /\ flight' \in [Tabs -> [Tasks -> Flight]]
           /\ pending' \in [Tabs -> Tasks \cup {"none"}]
  <1> DEFINE starter == IF pending[t] = "none" THEN k ELSE pending[t]
  <1>1. starter \in Tasks
    BY DEF TypeOK
  <1>2. [Idle EXCEPT !.stage = "wait", !.on = starter, !.next = next] \in Task
    BY <1>1, BlankTypes, RequestTypes
  <1>3. task' \in [Tabs -> [Tasks -> Task]]
    BY <1>2, BecomeStep DEF AwaitRefresh
  <1>4. [NoFlight EXCEPT !.stage = "sent", !.cookie = cookie] \in Flight
    BY <1>1, BlankTypes, RequestTypes DEF TypeOK
  <1> QED
    BY <1>1, <1>3, <1>4 DEF AwaitRefresh, TypeOK

LEMMA SettleTypes ==
    ASSUME TypeOK, NEW t \in Tabs, NEW k \in Tasks, NEW got \in Token,
           RefreshSucceeds(t, k, got) \/ RefreshFails(t, k)
    PROVE  /\ task' \in [Tabs -> [Tasks -> Task]]
           /\ flight' \in [Tabs -> [Tasks -> Flight]]
           /\ pending' \in [Tabs -> Tasks \cup {"none"}]
           /\ access' \in [Tabs -> Token]
           /\ user' \in [Tabs -> Users \cup {NoUser}]
           /\ loading' \in [Tabs -> BOOLEAN]
  <1>1. flight' \in [Tabs -> [Tasks -> Flight]] /\ pending' \in [Tabs -> Tasks \cup {"none"}]
    <2>1. Settled(t, k)
      BY DEF RefreshSucceeds, RefreshFails
    <2> QED
      BY <2>1, BlankTypes DEF TypeOK, Settled
  <1>2. access' \in [Tabs -> Token]
    BY BlankTypes DEF TypeOK, RefreshSucceeds, RefreshFails
  <1>3. user' \in [Tabs -> Users \cup {NoUser}] /\ loading' \in [Tabs -> BOOLEAN]
    <2>1. CASE RefreshSucceeds(t, k, got)
      BY <2>1 DEF TypeOK, RefreshSucceeds
    <2>2. CASE RefreshFails(t, k)
      <3>1. loading' \in [Tabs -> BOOLEAN]
        BY <2>2 DEF TypeOK, RefreshFails
      <3>2. user' \in [Tabs -> Users \cup {NoUser}]
        BY <2>2 DEF TypeOK, RefreshFails
      <3> QED
        BY <3>1, <3>2
    <2> QED
      BY <2>1, <2>2
  <1>4. task' \in [Tabs -> [Tasks -> Task]]
    <2>1. \A j \in Tasks : task[t][j] \in Task /\ task[t][j].next \in Stage
      BY DEF TypeOK, Task
    <2>2. \A j \in Tasks : [Idle EXCEPT !.stage = task[t][j].next, !.bearer = got] \in Task
      BY <2>1, TaskNames, RequestTypes
    <2>3. CASE RefreshSucceeds(t, k, got)
      BY <2>1, <2>2, <2>3 DEF TypeOK, RefreshSucceeds
    <2>4. CASE RefreshFails(t, k)
      BY <2>1, <2>4, BlankTypes DEF TypeOK, RefreshFails
    <2> QED
      BY <2>3, <2>4
  <1> QED
    BY <1>1, <1>2, <1>3, <1>4

-----------------------------------------------------------------------------
(* Types *)

LEMMA MintTypes ==
    ASSUME TypeOK, Free # {}, NEW u \in Users \cup {NoUser}, NEW pw \in Nat
    PROVE  /\ Newest \in Ids /\ tokens[Newest].state = "free"
           /\ Mint(Newest, u, pw) \in [Ids -> Row]
           /\ Mint(Newest, u, pw)[Newest] = [state |-> "good", user |-> u, pw |-> pw]
           /\ \A k \in Ids : k # Newest => Mint(Newest, u, pw)[k] = tokens[k]
  <1>1. Newest \in Ids /\ tokens[Newest].state = "free"
    BY NewestIsFree DEF Free
  <1>2. [state |-> "good", user |-> u, pw |-> pw] \in Row
    BY DEF Row
  <1> QED
    BY <1>1, <1>2 DEF Mint, TypeOK

LEMMA FreeIsNotEmpty == Cardinality(Free) > Reserve => Free # {}
  BY FS_EmptySet, BoundsAssumption

LEMMA VerdictTypes ==
    ASSUME NEW c
    PROVE  /\ Verdict(c) \in {"checked", "refused", "dropped"}
           /\ Verdict(c) = "checked" <=> c # NoToken /\ Good(c) /\ ClaimHolds(c)
           /\ Verdict(c) = "refused" <=> c = NoToken \/ ~Good(c)
  BY DEF Verdict

LEMMA RotationTypes ==
    ASSUME TypeOK, NEW c \in Ids, Rotation(c)
    PROVE  Newest \in Ids /\ tokens' \in [Ids -> Row] /\ since' \in [Ids -> Nat]
  <1> DEFINE m == Mint(Newest, Owner(c), tokens[c].pw)
  <1>1. Owner(c) \in Users \cup {NoUser} /\ tokens[c].pw \in Nat
    BY DEF TypeOK, Row, Owner
  <1>2. Free # {} /\ Newest \in Ids /\ m \in [Ids -> Row]
    BY <1>1, MintTypes DEF Rotation
  <1>3. tokens' = [m EXCEPT ![c].state = IF @ = "good" THEN "rotated" ELSE @]
    BY DEF Rotation
  <1>4. m[c] \in Row
    BY <1>2
  <1>5. tokens' \in [Ids -> Row]
    <2> HIDE DEF m
    <2>1. [m[c] EXCEPT !.state = IF m[c].state = "good" THEN "rotated" ELSE m[c].state] \in Row
      BY <1>4 DEF Row
    <2> QED
      BY <1>2, <1>3, <2>1
  <1>6. since' \in [Ids -> Nat]
    BY <1>2 DEF Rotation, TypeOK
  <1> QED
    BY <1>2, <1>5, <1>6

(* The refresh view: a flight moves on, and a token is rotated. *)
LEMMA RefreshTypes ==
    ASSUME TypeOK, NEW t \in Tabs, NEW k \in Tasks,
           \/ RefreshCheck(t, k)
           \/ RefreshRotate(t, k) /\ flight[t][k].cookie # NoToken
    PROVE  TypeOK'
  <1>1. flight[t][k] \in Flight
    BY DEF TypeOK
  <1>2. CASE RefreshCheck(t, k)
    <2> DEFINE x == Verdict(flight[t][k].cookie)
    <2>1. x \in {"checked", "refused", "dropped"}
      BY VerdictTypes
    <2>2. flight' = [flight EXCEPT ![t][k].stage = x]
      BY <1>2 DEF RefreshCheck
    <2> HIDE DEF x
    <2>3. [flight[t][k] EXCEPT !.stage = x] \in Flight
      BY <1>1, <2>1 DEF Flight
    <2>4. flight' \in [Tabs -> [Tasks -> Flight]]
      BY <2>2, <2>3 DEF TypeOK
    <2> QED
      BY <1>2, <2>4 DEF RefreshCheck, server, history, TypeOK
  <1>3. CASE RefreshRotate(t, k) /\ flight[t][k].cookie # NoToken
    <2>1. flight[t][k].cookie \in Ids
      BY <1>1, <1>3 DEF Flight, Token
    <2>2. Newest \in Ids /\ tokens' \in [Ids -> Row] /\ since' \in [Ids -> Nat]
      BY <1>3, <2>1, RotationTypes DEF RefreshRotate
    <2>3. [flight[t][k] EXCEPT !.stage = "granted", !.got = Newest] \in Flight
      BY <1>1, <2>2 DEF Flight, Token
    <2>4. flight' \in [Tabs -> [Tasks -> Flight]]
      BY <1>3, <2>3 DEF RefreshRotate, TypeOK
    <2> QED
      BY <1>3, <2>2, <2>4 DEF RefreshRotate, TypeOK
  <1> QED
    BY <1>2, <1>3

(* A refresh that is given up keeps its slot until it is handled. *)
LEMMA AbandonTypes ==
    ASSUME TypeOK, NEW f \in Flight, f.stage = "granted" => f.cookie # NoToken, Abandon(f)
    PROVE  /\ late' \in [Slots -> Flight] /\ lost' \in Nat /\ lostFrom' \subseteq Ids
           /\ \A n \in Slots :
                late'[n] = late[n] \/ (late'[n] = f /\ f.stage \in {"sent", "checked"})
  <1>1. lost + 1 \in Slots /\ lost' \in Nat
    BY BoundsAssumption DEF Abandon, TypeOK, Slots
  <1>2. lostFrom' \subseteq Ids
    BY DEF Abandon, TypeOK, Flight, Token
  <1>3. CASE late' = late
    <2>1. late' \in [Slots -> Flight] /\ \A n \in Slots : late'[n] = late[n]
      BY <1>3 DEF TypeOK
    <2> QED
      BY <1>1, <1>2, <2>1
  <1>4. CASE f.stage \in {"sent", "checked"} /\ late' = [late EXCEPT ![lost + 1] = f]
    <2> DEFINE n == lost + 1
    <2>1. n \in Slots /\ late' = [late EXCEPT ![n] = f]
      BY <1>1, <1>4
    <2> HIDE DEF n
    <2> QED
      BY <1>1, <1>2, <1>4, <2>1 DEF TypeOK
  <1> QED
    BY <1>3, <1>4 DEF Abandon

LEMMA LateTypes ==
    ASSUME TypeOK, NEW n \in Slots,
           LateCheck(n) \/ (LateRotate(n) /\ late[n].cookie # NoToken)
    PROVE  TypeOK'
  <1>1. late[n] \in Flight
    BY DEF TypeOK
  <1>2. CASE LateCheck(n)
    <2>1. [late[n] EXCEPT !.stage = "checked"] \in Flight
      BY <1>1 DEF Flight
    <2>2. late' \in [Slots -> Flight]
      BY <1>2, <2>1, BlankTypes DEF LateCheck, TypeOK
    <2> QED
      BY <1>2, <2>2 DEF LateCheck, history, TypeOK
  <1>3. CASE LateRotate(n) /\ late[n].cookie # NoToken
    <2>1. late[n].cookie \in Ids
      BY <1>1, <1>3 DEF Flight, Token
    <2>2. tokens' \in [Ids -> Row] /\ since' \in [Ids -> Nat]
      BY <1>3, <2>1, RotationTypes DEF LateRotate
    <2>3. late' \in [Slots -> Flight] /\ lostFrom' \subseteq Ids
      BY <1>3, <2>1, BlankTypes DEF LateRotate, TypeOK
    <2> QED
      BY <1>3, <2>2, <2>3 DEF LateRotate, TypeOK
  <1> QED
    BY <1>2, <1>3

LEMMA AnswerTypes ==
    ASSUME TypeOK, NEW t \in Tabs, NEW k \in Tasks, RefreshAnswer(t, k) \/ RefreshLost(t, k),
           flight[t][k].stage = "granted" => flight[t][k].cookie # NoToken
    PROVE  TypeOK'
  <1>1. flight[t][k] \in Flight /\ flight[t][k].got \in Token
    BY DEF TypeOK, Flight
  <1>2. \E got \in Token : RefreshSucceeds(t, k, got) \/ RefreshFails(t, k)
    BY <1>1 DEF RefreshAnswer, RefreshLost
  <1>3. /\ task' \in [Tabs -> [Tasks -> Task]]
        /\ flight' \in [Tabs -> [Tasks -> Flight]]
        /\ pending' \in [Tabs -> Tasks \cup {"none"}]
        /\ access' \in [Tabs -> Token]
        /\ user' \in [Tabs -> Users \cup {NoUser}]
        /\ loading' \in [Tabs -> BOOLEAN]
    BY <1>2, SettleTypes
  <1>4. CASE RefreshAnswer(t, k)
    <2>1. cookie' \in Token
      BY <1>1, <1>4, BlankTypes DEF RefreshAnswer, TypeOK
    <2>2. UNCHANGED <<tokens, expired, password, revoking, late, atLogin, lostFrom, since, lost,
                      opens>>
      BY <1>4 DEF RefreshAnswer, server, history
    <2> QED
      BY <1>3, <2>1, <2>2 DEF TypeOK
  <1>5. CASE RefreshLost(t, k)
    <2>1. UNCHANGED <<tokens, expired, password, revoking, cookie, atLogin, since, opens>>
      BY <1>5 DEF RefreshLost
    <2>2. late' \in [Slots -> Flight] /\ lost' \in Nat /\ lostFrom' \subseteq Ids
      BY <1>1, <1>5, AbandonTypes DEF RefreshLost
    <2> QED
      BY <1>3, <2>1, <2>2 DEF TypeOK
  <1> QED
    BY <1>4, <1>5

(* The tasks and the refresh of a page that has just been loaded. *)
LEMMA BootTypes ==
    ASSUME TypeOK, NEW t \in Tabs, Boot(t)
    PROVE  /\ task' \in [Tabs -> [Tasks -> Task]]
           /\ flight' \in [Tabs -> [Tasks -> Flight]]
           /\ pending' \in [Tabs -> Tasks \cup {"none"}]
           /\ pending'[t] = "init"
           /\ \A k \in Tasks : k # "init" => flight'[t][k] = NoFlight /\ task'[t][k] = Idle
           /\ flight'[t]["init"] = [NoFlight EXCEPT !.stage = "sent", !.cookie = cookie]
           /\ task'[t]["init"] = [Idle EXCEPT !.stage = "wait", !.on = "init", !.next = "me"]
           /\ \A s \in Tabs : s # t =>
                /\ pending'[s] = pending[s] /\ flight'[s] = flight[s] /\ task'[s] = task[s]
  <1> DEFINE sent == [NoFlight EXCEPT !.stage = "sent", !.cookie = cookie]
             waits == [Idle EXCEPT !.stage = "wait", !.on = "init", !.next = "me"]
  <1>1. sent \in Flight /\ waits \in Task
    <2>1. cookie \in Token /\ "me" \in Stage
      BY DEF TypeOK, Stage
    <2> QED
      BY <2>1, TaskNames, RequestTypes
  <1>2. /\ pending' = [pending EXCEPT ![t] = "init"]
        /\ flight' = [flight EXCEPT ![t] = [k \in Tasks |-> IF k = "init" THEN sent ELSE NoFlight]]
        /\ task' = [task EXCEPT ![t] = [k \in Tasks |-> IF k = "init" THEN waits ELSE Idle]]
    BY DEF Boot
  <1> HIDE DEF sent, waits
  <1>3. /\ task' \in [Tabs -> [Tasks -> Task]]
        /\ flight' \in [Tabs -> [Tasks -> Flight]]
        /\ pending' \in [Tabs -> Tasks \cup {"none"}]
    BY <1>1, <1>2, BlankTypes, TaskNames DEF TypeOK
  <1>4. /\ flight'[t]["init"] = sent /\ task'[t]["init"] = waits
        /\ \A k \in Tasks : k # "init" => flight'[t][k] = NoFlight /\ task'[t][k] = Idle
        /\ \A s \in Tabs : s # t => flight'[s] = flight[s] /\ task'[s] = task[s]
    BY <1>2, TaskNames DEF TypeOK
  <1>5. pending'[t] = "init" /\ \A s \in Tabs : s # t => pending'[s] = pending[s]
    BY <1>2 DEF TypeOK
  <1> QED
    BY <1>3, <1>4, <1>5 DEF sent, waits

LEMMA VisitorTypes ==
    ASSUME TypeOK, HolderInv, NEW t \in Tabs, Visitor(t) \/ Redirect(t)
    PROVE  TypeOK'
  <1>1. CASE Open(t)
    <2>1. /\ task' \in [Tabs -> [Tasks -> Task]]
          /\ flight' \in [Tabs -> [Tasks -> Flight]]
          /\ pending' \in [Tabs -> Tasks \cup {"none"}]
      BY <1>1, BootTypes DEF Open
    <2>2. access' \in [Tabs -> Token] /\ user' \in [Tabs -> Users \cup {NoUser}]
      BY <1>1, BlankTypes DEF Open, TypeOK
    <2>3. loading' \in [Tabs -> BOOLEAN] /\ atLogin' \in [Tabs -> BOOLEAN] /\ opens' \in Nat
      <3>1. loading' = [loading EXCEPT ![t] = TRUE] /\ opens' = opens + 1
        BY <1>1 DEF Open
      <3>2. PICK there \in BOOLEAN : atLogin' = [atLogin EXCEPT ![t] = there]
        BY <1>1 DEF Open
      <3>3. loading' \in [Tabs -> BOOLEAN] /\ opens' \in Nat
        BY <3>1 DEF TypeOK
      <3>4. atLogin' \in [Tabs -> BOOLEAN]
        BY <3>2 DEF TypeOK
      <3> QED
        BY <3>3, <3>4
    <2>4. UNCHANGED <<tokens, expired, password, revoking, cookie, since>>
      BY <1>1 DEF Open
    <2>5. late' \in [Slots -> Flight] /\ lost' \in Nat /\ lostFrom' \subseteq Ids
      <3>1. CASE UNCHANGED <<late, lostFrom, lost>>
        BY <3>1 DEF TypeOK
      <3>2. CASE pending[t] # "none" /\ Abandon(flight[t][pending[t]])
        <4>1. pending[t] \in Tasks /\ flight[t][pending[t]] \in Flight
          BY <3>2 DEF TypeOK
        <4>2. flight[t][pending[t]].stage = "granted" => flight[t][pending[t]].cookie # NoToken
          BY <4>1 DEF HolderInv, FlightHolds
        <4> QED
          BY <3>2, <4>1, <4>2, AbandonTypes
      <3> QED
        BY <1>1, <3>1, <3>2 DEF Open
    <2> QED
      BY <2>1, <2>2, <2>3, <2>4, <2>5 DEF TypeOK
  <1>2. ASSUME NEW u \in Users, SignIn(t, u) PROVE TypeOK'
    <2>1. [Idle EXCEPT !.stage = "signin", !.user = u] \in Task
      BY BlankTypes, TaskNames, RequestTypes DEF Stage
    <2>2. task' \in [Tabs -> [Tasks -> Task]]
      BY <1>2, <2>1, TaskNames, BecomeStep DEF SignIn
    <2> QED
      BY <1>2, <2>2 DEF SignIn, server, history, TypeOK
  <1>3. ASSUME NEW c \in Calls, Call(t, c) PROVE TypeOK'
    <2>1. [Idle EXCEPT !.stage = "call", !.bearer = access[t]] \in Task
      BY BlankTypes, TaskNames, RequestTypes DEF Stage, TypeOK
    <2>2. task' \in [Tabs -> [Tasks -> Task]]
      BY <1>3, <2>1, TaskNames, BecomeStep DEF Call, Send
    <2> QED
      BY <1>3, <2>2 DEF Call, server, history, TypeOK
  <1>4. CASE Logout(t)
    <2>1. [Idle EXCEPT !.stage = "logout", !.bearer = access[t], !.cookie = cookie] \in Task
      BY BlankTypes, TaskNames, RequestTypes DEF Stage, TypeOK
    <2>2. task' \in [Tabs -> [Tasks -> Task]]
      BY <1>4, <2>1, TaskNames, BecomeStep DEF Logout
    <2>3. access' \in [Tabs -> Token] /\ user' \in [Tabs -> Users \cup {NoUser}]
      BY <1>4, BlankTypes DEF Logout, TypeOK
    <2> QED
      BY <1>4, <2>2, <2>3 DEF Logout, server, history, TypeOK
  <1>5. CASE Redirect(t)
    BY <1>5 DEF Redirect, server, history, TypeOK
  <1> QED
    BY <1>1, <1>2, <1>3, <1>4, <1>5 DEF Visitor

LEMMA LoginTypes ==
    ASSUME TypeOK, NEW t \in Tabs, SignInHandled(t) \/ SignInAnswered(t),
           task[t]["login"].stage = "signin" => task[t]["login"].user \in Users
    PROVE  TypeOK'
  <1>1. "login" \in Tasks /\ task[t]["login"] \in Task
    BY TaskNames DEF TypeOK
  <1>2. CASE SignInHandled(t)
    <2> DEFINE u == task[t]["login"].user
    <2>1. u \in Users /\ password[u] \in Nat
      BY <1>2 DEF SignInHandled, TypeOK
    <2>2. CASE /\ Cardinality(Free) > Reserve
               /\ tokens' = Mint(Newest, u, password[u])
               /\ since' = [since EXCEPT ![Newest] = password[u]]
               /\ task' = [task EXCEPT ![t]["login"].stage = "minted",
                                       ![t]["login"].got = Newest]
      <3>1. Newest \in Ids /\ tokens' \in [Ids -> Row]
        BY <2>1, <2>2, FreeIsNotEmpty, MintTypes
      <3>2. since' \in [Ids -> Nat]
        BY <2>1, <2>2, <3>1 DEF TypeOK
      <3>3. [task[t]["login"] EXCEPT !.stage = "minted", !.got = Newest] \in Task
        BY <1>1, <3>1, BlankTypes DEF Task, Stage
      <3>4. task' \in [Tabs -> [Tasks -> Task]]
        BY <1>1, <2>2, <3>3 DEF TypeOK
      <3> QED
        BY <1>2, <3>1, <3>2, <3>4 DEF SignInHandled, TypeOK
    <2>3. CASE Become(t, "login", Idle) /\ UNCHANGED <<tokens, since>>
      <3>1. task' \in [Tabs -> [Tasks -> Task]]
        BY <1>1, <2>3, BlankTypes, BecomeStep
      <3> QED
        BY <1>2, <2>3, <3>1 DEF SignInHandled, TypeOK
    <2> QED
      BY <1>2, <2>2, <2>3 DEF SignInHandled
  <1>3. CASE SignInAnswered(t)
    <2>1. task[t]["login"].got \in Token
      BY <1>1 DEF Task
    <2>2. [Idle EXCEPT !.stage = "me", !.bearer = task[t]["login"].got] \in Task
      BY <2>1, TaskNames, RequestTypes DEF Stage
    <2>3. task' \in [Tabs -> [Tasks -> Task]]
      BY <1>1, <1>3, <2>2, BecomeStep DEF SignInAnswered
    <2> QED
      BY <1>3, <2>1, <2>3 DEF SignInAnswered, server, history, TypeOK
  <1> QED
    BY <1>2, <1>3

LEMMA MeTypes ==
    ASSUME TypeOK, NEW t \in Tabs, NEW k \in {"init", "login"}, MeAnswer(t, k)
    PROVE  TypeOK'
  <1> DEFINE r == task[t][k]
  <1>1. k \in Tasks /\ r \in Task /\ r.bearer \in Token
    BY TaskNames DEF TypeOK, Task
  <1>2. UNCHANGED <<tokens, expired, password, revoking, late, cookie, lostFrom, since, opens>>
    BY DEF MeAnswer, server, history
  <1>3. lost' \in Nat
    BY DEF MeAnswer, TypeOK
  <1>4. CASE Authentic(r.bearer) /\ MeSucceeds(t, k)
    <2>1. Owner(r.bearer) \in Users \cup {NoUser}
      BY <1>1, <1>4 DEF Authentic, Owner, Token, TypeOK, Row
    <2>2. task' \in [Tabs -> [Tasks -> Task]]
      BY <1>1, <1>4, BlankTypes, BecomeStep DEF MeSucceeds
    <2>3. user' \in [Tabs -> Users \cup {NoUser}]
      BY <1>4, <2>1 DEF MeSucceeds, TypeOK
    <2>4. loading' \in [Tabs -> BOOLEAN] /\ atLogin' \in [Tabs -> BOOLEAN]
      <3>1. loading' \in [Tabs -> BOOLEAN]
        BY <1>4 DEF MeSucceeds, TypeOK
      <3>2. atLogin' \in [Tabs -> BOOLEAN]
        BY <1>4 DEF MeSucceeds, TypeOK
      <3> QED
        BY <3>1, <3>2
    <2> QED
      BY <1>2, <1>3, <1>4, <2>2, <2>3, <2>4 DEF MeSucceeds, TypeOK
  <1>5. CASE AwaitRefresh(t, k, "meAgain") /\ UNCHANGED <<access, user, loading, atLogin>>
    <2>1. "meAgain" \in Stage
      BY DEF Stage
    <2> QED
      BY <1>1, <1>2, <1>3, <1>5, <2>1, AwaitTypes DEF TypeOK
  <1>6. CASE MeThrows(t, k)
    <2>1. task' \in [Tabs -> [Tasks -> Task]]
      BY <1>1, <1>6, BlankTypes, BecomeStep DEF MeThrows
    <2>2. access' \in [Tabs -> Token] /\ user' \in [Tabs -> Users \cup {NoUser}]
      BY <1>6, BlankTypes DEF MeThrows, TypeOK
    <2>3. loading' \in [Tabs -> BOOLEAN]
      BY <1>6 DEF MeThrows, TypeOK
    <2> QED
      BY <1>2, <1>3, <1>6, <2>1, <2>2, <2>3 DEF MeThrows, TypeOK
  <1> QED
    BY <1>4, <1>5, <1>6 DEF MeAnswer

LEMMA CallTypes ==
    ASSUME TypeOK, NEW t \in Tabs, NEW c \in Calls, CallAnswer(t, c)
    PROVE  TypeOK'
  <1>1. c \in Tasks /\ "callAgain" \in Stage
    BY TaskNames DEF Stage
  <1>2. /\ task' \in [Tabs -> [Tasks -> Task]]
        /\ flight' \in [Tabs -> [Tasks -> Flight]]
        /\ pending' \in [Tabs -> Tasks \cup {"none"}]
    <2>1. CASE AwaitRefresh(t, c, "callAgain")
      BY <1>1, <2>1, AwaitTypes
    <2>2. CASE Become(t, c, Idle) /\ UNCHANGED <<pending, flight>>
      BY <1>1, <2>2, BlankTypes, BecomeStep DEF TypeOK
    <2> QED
      BY <2>1, <2>2 DEF CallAnswer
  <1> QED
    BY <1>2 DEF CallAnswer, server, history, TypeOK

LEMMA LogoutTypes ==
    ASSUME TypeOK, NEW t \in Tabs, LogoutHandled(t) \/ LogoutAnswer(t)
    PROVE  TypeOK'
  <1> DEFINE r == task[t]["logout"]
  <1>1. "logout" \in Tasks /\ r \in Task /\ r.cookie \in Token
    BY TaskNames DEF TypeOK, Task
  <1>2. CASE LogoutHandled(t)
    <2>1. tokens' \in [Ids -> Row]
      <3>1. CASE r.cookie # NoToken
        <4>1. r.cookie \in Ids /\ tokens[r.cookie] \in Row
          BY <1>1, <3>1 DEF Token, TypeOK
        <4>2. [tokens[r.cookie] EXCEPT !.state =
                 IF tokens[r.cookie].state = "good" THEN "revoked" ELSE tokens[r.cookie].state]
              \in Row
          BY <4>1 DEF Row
        <4> QED
          BY <1>2, <4>1, <4>2 DEF LogoutHandled, TypeOK
      <3>2. CASE r.cookie = NoToken
        BY <1>2, <3>2 DEF LogoutHandled, TypeOK
      <3> QED
        BY <3>1, <3>2
    <2>2. PICK g \in Token :
            task' = [task EXCEPT ![t]["logout"].stage = "loggedOut", ![t]["logout"].got = g]
      BY <1>2, BlankTypes DEF LogoutHandled, TypeOK
    <2>3. [r EXCEPT !.stage = "loggedOut", !.got = g] \in Task
      BY <1>1 DEF Task, Stage
    <2>4. task' \in [Tabs -> [Tasks -> Task]]
      BY <1>1, <2>2, <2>3 DEF TypeOK
    <2> QED
      BY <1>2, <2>1, <2>4 DEF LogoutHandled, history, TypeOK
  <1>3. CASE LogoutAnswer(t)
    <2>1. task' \in [Tabs -> [Tasks -> Task]]
      BY <1>1, <1>3, BlankTypes, BecomeStep DEF LogoutAnswer
    <2>2. cookie' \in Token
      BY <1>3, BlankTypes DEF LogoutAnswer, TypeOK
    <2> QED
      BY <1>3, <2>1, <2>2 DEF LogoutAnswer, server, history, TypeOK
  <1> QED
    BY <1>2, <1>3

LEMMA ElsewhereTypes ==
    ASSUME TypeOK, Elsewhere
    PROVE  TypeOK'
  <1>1. ASSUME NEW k \in Ids, Expire(k) PROVE TypeOK'
    BY <1>1 DEF Expire, history, TypeOK
  <1>2. ASSUME NEW k \in Ids, Revoke(k) PROVE TypeOK'
    <2>1. [tokens[k] EXCEPT !.state = IF tokens[k].state = "good" THEN "revoked" ELSE tokens[k].state]
          \in Row
      BY DEF TypeOK, Row
    <2>2. tokens' \in [Ids -> Row]
      BY <1>2, <2>1 DEF Revoke, TypeOK
    <2> QED
      BY <1>2, <2>2 DEF Revoke, history, TypeOK
  <1>3. ASSUME NEW u \in Users, ChangePassword(u) PROVE TypeOK'
    <2>1. password' \in [Users -> Nat] /\ revoking' \subseteq Ids
      BY <1>3 DEF ChangePassword, TypeOK
    <2> QED
      BY <1>3, <2>1 DEF ChangePassword, history, TypeOK
  <1>4. CASE RevokeCutShort
    BY <1>4 DEF RevokeCutShort, history, TypeOK
  <1> QED
    BY <1>1, <1>2, <1>3, <1>4 DEF Elsewhere

LEMMA InitTypes == Init => TypeOK
  <1> SUFFICES ASSUME Init PROVE TypeOK
    OBVIOUS
  <1>1. PICK u \in Users, has \in BOOLEAN :
          /\ cookie = IF has THEN 1 ELSE NoToken
          /\ tokens = [k \in Ids |-> IF has /\ k = 1
                                     THEN [state |-> "good", user |-> u, pw |-> 0]
                                     ELSE FreeRow]
    BY DEF Init
  <1>2. 1 \in Ids
    BY BoundsAssumption DEF Ids
  <1>3. [state |-> "good", user |-> u, pw |-> 0] \in Row
    BY DEF Row
  <1>4. cookie \in Token /\ tokens \in [Ids -> Row]
    BY <1>1, <1>2, <1>3, BlankTypes
  <1> QED
    BY <1>4, BlankTypes DEF Init, TypeOK

-----------------------------------------------------------------------------
(* One refresh at a time in a tab *)

(* Steps that start and settle no refresh put no task in wait. *)
LEMMA FlightStays ==
    ASSUME FlightInv, UNCHANGED pending,
           \A t \in Tabs, k \in Tasks :
             /\ flight'[t][k].stage = "none" <=> flight[t][k].stage = "none"
             /\ task'[t][k] = task[t][k] \/ task'[t][k].stage # "wait",
           TypeOK
    PROVE  FlightInv'
  <1>1. \A t \in Tabs : pending[t] \in Tasks \cup {"none"}
    BY DEF TypeOK
  <1> QED
    BY <1>1 DEF FlightInv, FlightIn

LEMMA AwaitStep ==
    ASSUME TypeOK, FlightInv, NEW t \in Tabs, NEW k \in Tasks,
           NEW next \in {"me", "meAgain", "callAgain"}, AwaitRefresh(t, k, next)
    PROVE  FlightInv'
  <1> DEFINE starter == IF pending[t] = "none" THEN k ELSE pending[t]
  <1>1. starter \in Tasks /\ k # "none"
    BY TaskNames DEF TypeOK
  <1>2. next \in Stage
    BY DEF Stage
  <1>3. /\ pending'[t] = starter
        /\ \A s \in Tabs : s # t => pending'[s] = pending[s]
    BY DEF AwaitRefresh, TypeOK
  <1>4. /\ task'[t][k] = [Idle EXCEPT !.stage = "wait", !.on = starter, !.next = next]
        /\ \A s \in Tabs, j \in Tasks : s # t \/ j # k => task'[s][j] = task[s][j]
    <2>1. [Idle EXCEPT !.stage = "wait", !.on = starter, !.next = next] \in Task
      BY <1>1, <1>2, BlankTypes, RequestTypes
    <2> QED
      BY <2>1, BecomeStep DEF AwaitRefresh
  <1>5. task'[t][k].on = starter /\ task'[t][k].next = next
    BY <1>4 DEF Idle
  <1>6. \A s \in Tabs : pending[s] \in Tasks \cup {"none"}
    BY DEF TypeOK
  <1>7. \A s \in Tabs, j \in Tasks : s # t => flight'[s][j] = flight[s][j]
    BY DEF AwaitRefresh, TypeOK
  <1>8. ASSUME NEW s \in Tabs, s # t PROVE FlightIn(s)'
    BY <1>3, <1>4, <1>6, <1>7, <1>8 DEF FlightInv, FlightIn
  <1>9. FlightIn(t)'
    <2>1. CASE pending[t] = "none"
      <3>1. flight' = [flight EXCEPT ![t][k] = [NoFlight EXCEPT !.stage = "sent", !.cookie = cookie]]
            /\ pending'[t] = k /\ starter = k
        BY <1>3, <2>1 DEF AwaitRefresh
      <3>2. /\ flight'[t][k].stage = "sent"
            /\ \A j \in Tasks : j # k => flight'[t][j] = flight[t][j]
        BY <3>1 DEF TypeOK, NoFlight
      <3>3. \A j \in Tasks : flight[t][j].stage = "none" /\ task[t][j].stage # "wait"
        BY <2>1, TaskNames DEF FlightInv, FlightIn
      <3>4. task'[t][k].on = k /\ task'[t][k].next \in {"me", "meAgain", "callAgain"}
        BY <1>5, <3>1
      <3>5. \A j \in Tasks : j # k => task'[t][j].stage # "wait" /\ flight'[t][j].stage = "none"
        BY <1>4, <3>2, <3>3
      <3> HIDE DEF starter
      <3> QED
        BY <1>1, <3>1, <3>2, <3>4, <3>5 DEF FlightIn
    <2>2. CASE pending[t] # "none"
      <3>1. UNCHANGED flight /\ pending'[t] = pending[t] /\ starter = pending[t]
        BY <1>3, <2>2 DEF AwaitRefresh
      <3>2. FlightIn(t)
        BY DEF FlightInv
      <3> QED
        BY <1>1, <1>4, <1>5, <2>2, <3>1, <3>2 DEF FlightIn
    <2> QED
      BY <2>1, <2>2
  <1> QED
    BY <1>8, <1>9 DEF FlightInv

LEMMA BootStep ==
    ASSUME TypeOK, FlightInv, NEW t \in Tabs, Boot(t)
    PROVE  FlightInv'
  <1>1. /\ pending'[t] = "init"
        /\ flight'[t]["init"].stage = "sent"
        /\ task'[t]["init"].on = "init" /\ task'[t]["init"].next = "me"
    BY BootTypes DEF Idle, NoFlight
  <1>2. \A k \in Tasks : k # "init" => flight'[t][k].stage = "none" /\ task'[t][k].stage = "idle"
    BY BootTypes, BlankTypes
  <1>3. FlightIn(t)'
    BY <1>1, <1>2, TaskNames DEF FlightIn
  <1>4. \A s \in Tabs : s # t =>
          pending'[s] = pending[s] /\ flight'[s] = flight[s] /\ task'[s] = task[s]
    BY BootTypes
  <1>5. ASSUME NEW s \in Tabs, s # t PROVE FlightIn(s)'
    BY <1>4, <1>5 DEF FlightInv, FlightIn
  <1> QED
    BY <1>3, <1>5 DEF FlightInv

LEMMA SettleStep ==
    ASSUME TypeOK, FlightInv, NEW t \in Tabs, NEW k \in Tasks, NEW got \in Token,
           flight[t][k].stage # "none",
           RefreshSucceeds(t, k, got) \/ RefreshFails(t, k)
    PROVE  FlightInv'
  <1>1. Settled(t, k)
    BY DEF RefreshSucceeds, RefreshFails
  <1>2. pending[t] = k
    BY DEF FlightInv, FlightIn
  <1>3. /\ \A s \in Tabs : pending'[s] = IF s = t THEN "none" ELSE pending[s]
        /\ flight'[t][k].stage = "none"
        /\ \A s \in Tabs, j \in Tasks : s # t \/ j # k => flight'[s][j] = flight[s][j]
    BY <1>1, BlankTypes DEF Settled, TypeOK
  <1>4. \A j \in Tasks : j # k => flight'[t][j].stage = "none"
    BY <1>2, <1>3 DEF FlightInv, FlightIn
  <1>5. \A s \in Tabs, j \in Tasks : s # t => task'[s][j] = task[s][j]
    BY DEF RefreshSucceeds, RefreshFails, TypeOK
  <1>6. \A j \in Tasks : task'[t][j].stage # "wait"
    <2> SUFFICES ASSUME NEW j \in Tasks PROVE task'[t][j].stage # "wait"
      OBVIOUS
    <2>1. j \in Waiting(t, k) <=> task[t][j].stage = "wait"
      BY <1>2 DEF Waiting, FlightInv, FlightIn
    <2>2. task[t][j].stage = "wait" => task[t][j].next \in {"me", "meAgain", "callAgain"}
      BY DEF FlightInv, FlightIn
    <2>3. CASE RefreshSucceeds(t, k, got)
      <3>1. task'[t][j] = IF j \in Waiting(t, k)
                          THEN [Idle EXCEPT !.stage = task[t][j].next, !.bearer = got]
                          ELSE task[t][j]
        BY <2>3 DEF RefreshSucceeds, TypeOK
      <3>2. [Idle EXCEPT !.stage = task[t][j].next, !.bearer = got].stage = task[t][j].next
        BY DEF Idle
      <3> QED
        BY <2>1, <2>2, <3>1, <3>2
    <2>4. CASE RefreshFails(t, k)
      <3>1. task'[t][j] = IF j \in Waiting(t, k) THEN Idle ELSE task[t][j]
        BY <2>4 DEF RefreshFails, TypeOK
      <3> QED
        BY <2>1, <3>1, BlankTypes
    <2> QED
      BY <2>3, <2>4
  <1>7. \A s \in Tabs : pending[s] \in Tasks \cup {"none"}
    BY DEF TypeOK
  <1> QED
    BY <1>3, <1>4, <1>5, <1>6, <1>7 DEF FlightInv, FlightIn

(* A task replaced by one that does not wait, and flights that stay. *)
LEMMA BecomeKeepsFlight ==
    ASSUME TypeOK, FlightInv, NEW t \in Tabs, NEW k \in Tasks, NEW r \in Task,
           Become(t, k, r), r.stage # "wait", UNCHANGED <<pending, flight>>
    PROVE  FlightInv'
  <1>1. \A s \in Tabs, j \in Tasks : task'[s][j] = task[s][j] \/ task'[s][j].stage # "wait"
    BY BecomeStep
  <1> QED
    BY <1>1, FlightStays

LEMMA FlightStep ==
    ASSUME TypeOK, FlightInv, [Next]_vars
    PROVE  FlightInv'
  <1>1. ASSUME NEW t \in Tabs, NEW k \in Tasks, RefreshCheck(t, k) \/ RefreshRotate(t, k)
        PROVE  FlightInv'
    <2>1. UNCHANGED <<pending, task>>
      BY <1>1 DEF RefreshCheck, RefreshRotate
    <2>2. \A s \in Tabs, j \in Tasks : s # t \/ j # k => flight'[s][j] = flight[s][j]
      BY <1>1 DEF RefreshCheck, RefreshRotate, TypeOK
    <2>3. flight[t][k].stage \in {"sent", "checked"} /\ flight'[t][k].stage # "none"
      <3>1. flight[t][k] \in Flight
        BY DEF TypeOK
      <3>2. CASE RefreshCheck(t, k)
        <4>1. flight'[t][k].stage = Verdict(flight[t][k].cookie) /\ flight[t][k].stage = "sent"
          BY <3>1, <3>2 DEF RefreshCheck, TypeOK, Flight
        <4> QED
          BY <4>1, VerdictTypes
      <3>3. CASE RefreshRotate(t, k)
        BY <3>1, <3>3 DEF RefreshRotate, TypeOK, Flight
      <3> QED
        BY <1>1, <3>2, <3>3
    <2>4. \A s \in Tabs, j \in Tasks : flight'[s][j].stage = "none" <=> flight[s][j].stage = "none"
      BY <2>2, <2>3
    <2> QED
      BY <2>1, <2>4, FlightStays
  <1>2. ASSUME NEW t \in Tabs, NEW k \in Tasks, RefreshAnswer(t, k) \/ RefreshLost(t, k)
        PROVE  FlightInv'
    <2>1. flight[t][k].stage # "none" /\ flight[t][k].got \in Token
      BY <1>2 DEF RefreshAnswer, RefreshLost, TypeOK, Flight
    <2>2. RefreshSucceeds(t, k, flight[t][k].got) \/ RefreshFails(t, k)
      BY <1>2 DEF RefreshAnswer, RefreshLost
    <2> QED
      BY <2>1, <2>2, SettleStep
  <1>3. ASSUME NEW t \in Tabs, NEW k \in {"init", "login"}, MeAnswer(t, k)
        PROVE  FlightInv'
    <2>1. k \in Tasks
      BY TaskNames
    <2>2. CASE AwaitRefresh(t, k, "meAgain")
      BY <2>1, <2>2, AwaitStep
    <2>3. CASE Become(t, k, Idle) /\ UNCHANGED <<pending, flight>>
      BY <2>1, <2>3, BlankTypes, BecomeKeepsFlight
    <2> QED
      BY <1>3, <2>2, <2>3 DEF MeAnswer, MeSucceeds, MeThrows
  <1>4. ASSUME NEW t \in Tabs, NEW c \in Calls, CallAnswer(t, c)
        PROVE  FlightInv'
    <2>1. c \in Tasks
      BY TaskNames
    <2>2. CASE AwaitRefresh(t, c, "callAgain")
      BY <2>1, <2>2, AwaitStep
    <2>3. CASE Become(t, c, Idle) /\ UNCHANGED <<pending, flight>>
      BY <2>1, <2>3, BlankTypes, BecomeKeepsFlight
    <2> QED
      BY <1>4, <2>2, <2>3 DEF CallAnswer
  <1>5. ASSUME NEW t \in Tabs, SignInHandled(t) \/ LogoutHandled(t)
        PROVE  FlightInv'
    <2>1. UNCHANGED <<pending, flight>>
      BY <1>5 DEF SignInHandled, LogoutHandled
    <2>2. PICK k \in {"login", "logout"}, x \in {"idle", "minted", "loggedOut"} :
            /\ task'[t][k].stage = x
            /\ \A s \in Tabs, j \in Tasks : s # t \/ j # k => task'[s][j] = task[s][j]
      <3>1. task[t]["login"] \in Task /\ task[t]["logout"] \in Task
        BY TaskNames DEF TypeOK
      <3>2. CASE LogoutHandled(t)
        BY <3>1, <3>2, TaskNames DEF LogoutHandled, TypeOK, Task
      <3>3. CASE Become(t, "login", Idle)
        BY <3>3, TaskNames, BlankTypes, BecomeStep
      <3>4. CASE task' = [task EXCEPT ![t]["login"].stage = "minted", ![t]["login"].got = Newest]
        BY <3>1, <3>4, TaskNames DEF TypeOK, Task
      <3> QED
        BY <1>5, <3>2, <3>3, <3>4 DEF SignInHandled
    <2>3. \A s \in Tabs, j \in Tasks : task'[s][j] = task[s][j] \/ task'[s][j].stage # "wait"
      BY <2>2
    <2> QED
      BY <2>1, <2>3, FlightStays
  <1>6. ASSUME NEW t \in Tabs, SignInAnswered(t) PROVE FlightInv'
    <2>0. task[t]["login"].got \in Token
      BY TaskNames DEF TypeOK, Task
    <2>1. [Idle EXCEPT !.stage = "me", !.bearer = task[t]["login"].got] \in Task
      BY <2>0, TaskNames, RequestTypes DEF Stage
    <2>2. [Idle EXCEPT !.stage = "me", !.bearer = task[t]["login"].got].stage = "me"
      BY DEF Idle
    <2> QED
      BY <1>6, <2>1, <2>2, TaskNames, BecomeKeepsFlight DEF SignInAnswered
  <1>7. ASSUME NEW t \in Tabs, LogoutAnswer(t) PROVE FlightInv'
    BY <1>7, TaskNames, BlankTypes, BecomeKeepsFlight DEF LogoutAnswer
  <1>8. ASSUME NEW t \in Tabs, Open(t) PROVE FlightInv'
    BY <1>8, BootStep DEF Open
  <1>9. ASSUME NEW t \in Tabs, NEW u \in Users, SignIn(t, u) PROVE FlightInv'
    <2>1. [Idle EXCEPT !.stage = "signin", !.user = u] \in Task
      BY BlankTypes, TaskNames, RequestTypes DEF Stage
    <2>2. [Idle EXCEPT !.stage = "signin", !.user = u].stage = "signin"
      BY DEF Idle
    <2> QED
      BY <1>9, <2>1, <2>2, TaskNames, BecomeKeepsFlight DEF SignIn
  <1>10. ASSUME NEW t \in Tabs, NEW c \in Calls, Call(t, c) PROVE FlightInv'
    <2>1. [Idle EXCEPT !.stage = "call", !.bearer = access[t]] \in Task
      BY BlankTypes, TaskNames, RequestTypes DEF Stage, TypeOK
    <2>2. [Idle EXCEPT !.stage = "call", !.bearer = access[t]].stage = "call"
      BY DEF Idle
    <2> QED
      BY <1>10, <2>1, <2>2, TaskNames, BecomeKeepsFlight DEF Call, Send
  <1>11. ASSUME NEW t \in Tabs, Logout(t) PROVE FlightInv'
    <2>1. [Idle EXCEPT !.stage = "logout", !.bearer = access[t], !.cookie = cookie] \in Task
      BY BlankTypes, TaskNames, RequestTypes DEF Stage, TypeOK
    <2>2. [Idle EXCEPT !.stage = "logout", !.bearer = access[t], !.cookie = cookie].stage = "logout"
      BY DEF Idle
    <2> QED
      BY <1>11, <2>1, <2>2, TaskNames, BecomeKeepsFlight DEF Logout
  <1>12. ASSUME \/ \E t \in Tabs : Redirect(t)
                \/ \E n \in Slots : LateCheck(n) \/ LateRotate(n)
                \/ Elsewhere \/ UNCHANGED vars
         PROVE  FlightInv'
    <2>1. UNCHANGED <<pending, flight, task>>
      BY <1>12 DEF Redirect, LateCheck, LateRotate, Elsewhere, Expire, Revoke, ChangePassword,
         RevokeCutShort, vars
    <2> QED
      BY <2>1, FlightStays
  <1> QED
    BY <1>1, <1>2, <1>3, <1>4, <1>5, <1>6, <1>7, <1>8, <1>9, <1>10, <1>11, <1>12
       DEF Next, Network, Visitor

LEMMA TypeStep ==
    ASSUME TypeOK, HolderInv, LateInv, [Next]_vars
    PROVE  TypeOK'
  <1>1. ASSUME NEW t \in Tabs, NEW k \in Tasks,
               RefreshCheck(t, k) \/ RefreshRotate(t, k) \/ RefreshAnswer(t, k) \/ RefreshLost(t, k)
        PROVE  TypeOK'
    <2>1. flight[t][k].stage \in {"checked", "granted"} => flight[t][k].cookie # NoToken
      BY DEF HolderInv, FlightHolds
    <2>2. RefreshRotate(t, k) => flight[t][k].cookie # NoToken
      BY <2>1 DEF RefreshRotate
    <2> QED
      BY <1>1, <2>1, <2>2, RefreshTypes, AnswerTypes
  <1>2. ASSUME NEW t \in Tabs, SignInHandled(t) \/ SignInAnswered(t) PROVE TypeOK'
    BY <1>2, TaskNames, LoginTypes DEF HolderInv, TaskHolds
  <1>3. CASE UNCHANGED vars
    BY <1>3 DEF vars, TypeOK
  <1>4. ASSUME NEW n \in Slots, LateCheck(n) \/ LateRotate(n) PROVE TypeOK'
    <2>1. LateRotate(n) => late[n].cookie # NoToken
      BY DEF LateRotate, LateInv, FlightHolds
    <2> QED
      BY <1>4, <2>1, LateTypes
  <1> QED
    BY <1>1, <1>2, <1>3, <1>4, MeTypes, CallTypes, LogoutTypes, VisitorTypes, ElsewhereTypes
       DEF Next, Network

-----------------------------------------------------------------------------
(* Tokens *)

(* What a step does to a token: its claims stay for good, a rotated one    *)
(* stays rotated, and only the rotation of a refresh with it makes it so.  *)
TokenKept(k) ==
    /\ tokens'[k].state # "free"
    /\ tokens'[k].user = tokens[k].user /\ tokens'[k].pw = tokens[k].pw /\ since'[k] = since[k]
    /\ tokens[k].state = "rotated" => tokens'[k].state = "rotated"
    /\ tokens'[k].state = "rotated" =>
         \/ tokens[k].state = "rotated"
         \/ \E t \in Tabs, j \in Tasks : RefreshRotate(t, j) /\ flight[t][j].cookie = k
         \/ \E n \in Slots : LateRotate(n) /\ late[n].cookie = k

(* ... and what a new one says. *)
TokenMinted(k) ==
    /\ tokens'[k].state = "good"
    /\ tokens'[k].user \in Users
    /\ tokens'[k].pw = since'[k]
    /\ tokens'[k].pw <= password[tokens'[k].user]

TokensMove ==
    \A k \in Ids : IF tokens[k].state # "free" THEN TokenKept(k)
                   ELSE tokens'[k] = tokens[k] \/ TokenMinted(k)

LEMMA StateTypes ==
    ASSUME TypeOK, NEW k \in Ids, NEW x \in {"rotated", "revoked"},
           NEW m \in [Ids -> Row]
    PROVE  LET n == [m EXCEPT ![k].state = IF @ = "good" THEN x ELSE @]
           IN  /\ n[k].state = IF m[k].state = "good" THEN x ELSE m[k].state
               /\ n[k].user = m[k].user /\ n[k].pw = m[k].pw
               /\ m[k].state = "free" => n[k] = m[k]
               /\ \A j \in Ids : j # k => n[j] = m[j]
  <1>1. m[k] \in Row
    OBVIOUS
  <1> QED
    BY <1>1 DEF Row

LEMMA RevokeMoves ==
    ASSUME TypeOK, NEW k \in Ids, UNCHANGED since,
           tokens' = [tokens EXCEPT ![k].state = IF @ = "good" THEN "revoked" ELSE @]
    PROVE  TokensMove
  <1>1. /\ tokens'[k].state = IF tokens[k].state = "good" THEN "revoked" ELSE tokens[k].state
        /\ tokens'[k].user = tokens[k].user /\ tokens'[k].pw = tokens[k].pw
        /\ tokens[k].state = "free" => tokens'[k] = tokens[k]
        /\ \A j \in Ids : j # k => tokens'[j] = tokens[j]
    BY StateTypes DEF TypeOK
  <1> QED
    BY <1>1 DEF TokensMove, TokenKept

LEMMA RotationMoves ==
    ASSUME SessionInv, NEW c \in Ids, tokens[c].state # "free", Rotation(c),
           \/ \E t \in Tabs, j \in Tasks : RefreshRotate(t, j) /\ flight[t][j].cookie = c
           \/ \E n \in Slots : LateRotate(n) /\ late[n].cookie = c
    PROVE  /\ TokensMove
           /\ Newest \in Ids /\ tokens[Newest].state = "free" /\ tokens'[Newest].state = "good"
  <1> DEFINE m == Mint(Newest, Owner(c), tokens[c].pw)
  <1> USE DEF SessionInv
  <1>1. c \in Ids /\ tokens[c].state # "free" /\ tokens[c] \in Row
    BY DEF TypeOK
  <1>2. Owner(c) \in Users /\ tokens[c].pw = since[c] /\ tokens[c].pw <= password[Owner(c)]
    BY <1>1 DEF ClaimInv
  <1>3. tokens[c].pw \in Nat /\ Free # {}
    BY <1>1 DEF Row, Rotation
  <1>4. /\ Newest \in Ids /\ tokens[Newest].state = "free"
        /\ m \in [Ids -> Row]
        /\ m[Newest] = [state |-> "good", user |-> Owner(c), pw |-> tokens[c].pw]
        /\ \A j \in Ids : j # Newest => m[j] = tokens[j]
    BY <1>2, <1>3, MintTypes
  <1>5. c # Newest
    BY <1>1, <1>4
  <1>6. tokens' = [m EXCEPT ![c].state = IF @ = "good" THEN "rotated" ELSE @]
        /\ since' = [since EXCEPT ![Newest] = since[c]]
    BY DEF Rotation
  <1>7. /\ tokens'[c].state = IF m[c].state = "good" THEN "rotated" ELSE m[c].state
        /\ tokens'[c].user = m[c].user /\ tokens'[c].pw = m[c].pw
        /\ \A j \in Ids : j # c => tokens'[j] = m[j]
    <2> HIDE DEF m
    <2> QED
      BY <1>1, <1>4, <1>6, StateTypes
  <1>8. \A j \in Ids : since'[j] = IF j = Newest THEN since[c] ELSE since[j]
    BY <1>6 DEF TypeOK
  <1>9. tokens'[Newest] = [state |-> "good", user |-> Owner(c), pw |-> tokens[c].pw]
    BY <1>4, <1>5, <1>7
  <1>10. TokenMinted(Newest)
    BY <1>2, <1>4, <1>8, <1>9 DEF TokenMinted
  <1>11. TokenKept(c)
    <2> HIDE DEF m
    <2> QED
      BY <1>1, <1>4, <1>5, <1>7, <1>8 DEF TokenKept
  <1>12. \A j \in Ids : j # c /\ j # Newest => tokens'[j] = tokens[j] /\ since'[j] = since[j]
    BY <1>4, <1>7, <1>8
  <1> HIDE DEF m
  <1>13. TokensMove
    BY <1>1, <1>4, <1>10, <1>11, <1>12 DEF TokensMove, TokenKept
  <1> QED
    BY <1>1, <1>4, <1>9, <1>13

LEMMA RotateMoves ==
    ASSUME SessionInv, NEW t \in Tabs, NEW k \in Tasks, RefreshRotate(t, k)
    PROVE  /\ TokensMove
           /\ flight[t][k].cookie \in Ids /\ Newest \in Ids
           /\ tokens[flight[t][k].cookie].state # "free" /\ tokens[Newest].state = "free"
           /\ tokens'[Newest].state = "good"
  <1> DEFINE c == flight[t][k].cookie
  <1>1. c # NoToken /\ Issued(c) /\ c \in Token
    BY DEF RefreshRotate, SessionInv, HolderInv, FlightHolds, TypeOK, Flight
  <1>2. c \in Ids /\ tokens[c].state # "free"
    BY <1>1 DEF Issued, Token
  <1>3. Rotation(c)
    BY DEF RefreshRotate
  <1> QED
    BY <1>2, <1>3, RotationMoves

LEMMA LateMoves ==
    ASSUME SessionInv, NEW n \in Slots, LateRotate(n)
    PROVE  TokensMove /\ late[n].cookie \in Ids
  <1> DEFINE c == late[n].cookie
  <1>1. c # NoToken /\ Issued(c) /\ c \in Token
    BY DEF LateRotate, SessionInv, LateInv, FlightHolds, TypeOK, Flight
  <1>2. c \in Ids /\ tokens[c].state # "free"
    BY <1>1 DEF Issued, Token
  <1>3. Rotation(c)
    BY DEF LateRotate
  <1> QED
    BY <1>2, <1>3, RotationMoves

LEMMA SignInMoves ==
    ASSUME SessionInv, NEW t \in Tabs, SignInHandled(t)
    PROVE  /\ TokensMove
           /\ \/ UNCHANGED tokens /\ Become(t, "login", Idle)
              \/ /\ Newest \in Ids /\ tokens[Newest].state = "free" /\ tokens'[Newest].state = "good"
                 /\ task' = [task EXCEPT ![t]["login"].stage = "minted",
                                         ![t]["login"].got = Newest]
  <1> USE DEF SessionInv
  <1> DEFINE u == task[t]["login"].user
  <1>1. u \in Users /\ password[u] \in Nat
    BY TaskNames DEF SignInHandled, HolderInv, TaskHolds, TypeOK
  <1>2. CASE UNCHANGED <<tokens, since>> /\ Become(t, "login", Idle)
    BY <1>2 DEF TokensMove, TokenKept
  <1>3. CASE /\ Cardinality(Free) > Reserve
             /\ tokens' = Mint(Newest, u, password[u])
             /\ since' = [since EXCEPT ![Newest] = password[u]]
             /\ task' = [task EXCEPT ![t]["login"].stage = "minted",
                                     ![t]["login"].got = Newest]
    <2>1. /\ Newest \in Ids /\ tokens[Newest].state = "free"
          /\ tokens'[Newest] = [state |-> "good", user |-> u, pw |-> password[u]]
          /\ \A k \in Ids : k # Newest => tokens'[k] = tokens[k]
      BY <1>1, <1>3, FreeIsNotEmpty, MintTypes
    <2>2. \A k \in Ids : since'[k] = IF k = Newest THEN password[u] ELSE since[k]
      BY <1>3, <2>1 DEF TypeOK
    <2>3. TokenMinted(Newest)
      BY <1>1, <2>1, <2>2 DEF TokenMinted
    <2>4. TokensMove
      BY <2>1, <2>2, <2>3 DEF TokensMove, TokenKept
    <2> QED
      BY <1>3, <2>1, <2>4
  <1> QED
    BY <1>2, <1>3 DEF SignInHandled

LEMMA TokenStep ==
    ASSUME SessionInv, [Next]_vars
    PROVE  TokensMove
  <1> USE DEF SessionInv
  <1>1. ASSUME UNCHANGED <<tokens, since>> PROVE TokensMove
    BY <1>1 DEF TokensMove, TokenKept
  <1>2. ASSUME NEW t \in Tabs, LogoutHandled(t) PROVE TokensMove
    <2> DEFINE c == task[t]["logout"].cookie
    <2>1. c \in Token /\ UNCHANGED since
      BY <1>2, TaskNames DEF TypeOK, Task, LogoutHandled, history
    <2>2. \/ UNCHANGED tokens
          \/ /\ c # NoToken
             /\ tokens' = [tokens EXCEPT ![c].state = IF @ = "good" THEN "revoked" ELSE @]
      BY <1>2 DEF LogoutHandled
    <2> HIDE DEF c
    <2> QED
      BY <1>1, <2>1, <2>2, RevokeMoves DEF Token
  <1>3. ASSUME NEW k \in Ids, Revoke(k) PROVE TokensMove
    BY <1>3, RevokeMoves DEF Revoke, history
  <1>4. ASSUME NEW t \in Tabs, NEW k \in Tasks,
               RefreshCheck(t, k) \/ RefreshAnswer(t, k) \/ RefreshLost(t, k)
        PROVE  TokensMove
    BY <1>1, <1>4 DEF RefreshCheck, RefreshAnswer, RefreshLost, server, history
  <1>5. ASSUME NEW t \in Tabs, SignInAnswered(t) \/ LogoutAnswer(t) \/ Visitor(t) \/ Redirect(t)
        PROVE  TokensMove
    BY <1>1, <1>5 DEF SignInAnswered, LogoutAnswer, Visitor, Open, SignIn, Call, Logout,
       Redirect, server, history
  <1>6. ASSUME NEW t \in Tabs, \/ \E k \in {"init", "login"} : MeAnswer(t, k)
                              \/ \E c \in Calls : CallAnswer(t, c)
        PROVE  TokensMove
    BY <1>1, <1>6 DEF MeAnswer, CallAnswer, server, history
  <1>7. ASSUME (\E k \in Ids : Expire(k)) \/ (\E u \in Users : ChangePassword(u))
               \/ RevokeCutShort \/ UNCHANGED vars
        PROVE  TokensMove
    BY <1>1, <1>7 DEF Expire, ChangePassword, RevokeCutShort, vars, history
  <1>8. ASSUME NEW n \in Slots, LateCheck(n) \/ LateRotate(n) PROVE TokensMove
    <2>1. CASE LateCheck(n)
      BY <1>1, <2>1 DEF LateCheck, history
    <2> QED
      BY <1>8, <2>1, LateMoves
  <1> QED
    BY <1>2, <1>3, <1>4, <1>5, <1>6, <1>7, <1>8, RotateMoves, SignInMoves
       DEF Next, Network, Elsewhere

LEMMA PasswordStep ==
    ASSUME TypeOK, [Next]_vars
    PROVE  \A u \in Users : password'[u] \in Nat /\ password[u] <= password'[u]
  <1>1. CASE UNCHANGED password
    BY <1>1 DEF TypeOK
  <1>2. ASSUME NEW v \in Users, ChangePassword(v)
        PROVE  \A u \in Users : password'[u] \in Nat /\ password[u] <= password'[u]
    BY <1>2 DEF ChangePassword, TypeOK
  <1>3. ASSUME NEW t \in Tabs, NEW k \in Tasks,
               RefreshCheck(t, k) \/ RefreshRotate(t, k) \/ RefreshAnswer(t, k) \/ RefreshLost(t, k)
        PROVE  UNCHANGED password
    BY <1>3 DEF RefreshCheck, RefreshRotate, RefreshAnswer, RefreshLost, server
  <1>4. ASSUME NEW t \in Tabs, \/ SignInHandled(t) \/ SignInAnswered(t)
                              \/ LogoutHandled(t) \/ LogoutAnswer(t)
        PROVE  UNCHANGED password
    BY <1>4 DEF SignInHandled, SignInAnswered, LogoutHandled, LogoutAnswer, server
  <1>5. ASSUME NEW t \in Tabs, \/ \E k \in {"init", "login"} : MeAnswer(t, k)
                              \/ \E c \in Calls : CallAnswer(t, c)
        PROVE  UNCHANGED password
    BY <1>5 DEF MeAnswer, CallAnswer, server
  <1>6. ASSUME NEW t \in Tabs, Visitor(t) \/ Redirect(t)
        PROVE  UNCHANGED password
    BY <1>6 DEF Visitor, Open, SignIn, Call, Logout, Redirect, server
  <1>7. ASSUME \/ \E k \in Ids : Expire(k) \/ Revoke(k)
               \/ \E n \in Slots : LateCheck(n) \/ LateRotate(n)
               \/ RevokeCutShort \/ UNCHANGED vars
        PROVE  UNCHANGED password
    BY <1>7 DEF Expire, Revoke, LateCheck, LateRotate, RevokeCutShort, vars
  <1>8. ASSUME NEW t \in Tabs, \/ Network(t) \/ Visitor(t) \/ Redirect(t)
                              \/ \E k \in Tasks : RefreshLost(t, k)
        PROVE  UNCHANGED password
    <2>1. CASE \E k \in Tasks : RefreshLost(t, k)
      BY <1>3, <2>1
    <2>2. CASE \E k \in Tasks : RefreshCheck(t, k) \/ RefreshRotate(t, k) \/ RefreshAnswer(t, k)
      BY <1>3, <2>2
    <2>3. CASE \/ SignInHandled(t) \/ SignInAnswered(t)
               \/ LogoutHandled(t) \/ LogoutAnswer(t)
      BY <1>4, <2>3
    <2>4. CASE \/ \E k \in {"init", "login"} : MeAnswer(t, k)
               \/ \E c \in Calls : CallAnswer(t, c)
      BY <1>5, <2>4
    <2>5. CASE Visitor(t) \/ Redirect(t)
      BY <1>6, <2>5
    <2> QED
      BY <1>8, <2>1, <2>2, <2>3, <2>4, <2>5 DEF Network
  <1> QED
    BY <1>1, <1>2, <1>7, <1>8 DEF Next, Elsewhere

LEMMA ClaimStep ==
    ASSUME SessionInv, TypeOK', [Next]_vars
    PROVE  ClaimInv'
  <1>1. TokensMove
    BY TokenStep
  <1>2. \A u \in Users : password'[u] \in Nat /\ password[u] \in Nat /\ password[u] <= password'[u]
    BY PasswordStep DEF SessionInv, TypeOK
  <1>3. ASSUME NEW k \in Ids, tokens'[k].state # "free"
        PROVE  tokens'[k].user \in Users /\ tokens'[k].pw = since'[k]
               /\ tokens'[k].pw <= password'[tokens'[k].user]
    <2>1. tokens'[k].pw \in Nat
      BY DEF TypeOK, Row
    <2>2. CASE tokens[k].state # "free"
      <3>1. tokens[k].user \in Users /\ tokens[k].pw = since[k] /\ tokens[k].pw <= password[tokens[k].user]
        BY <2>2 DEF SessionInv, ClaimInv, Owner
      <3>2. TokenKept(k)
        BY <1>1, <2>2 DEF TokensMove
      <3> QED
        BY <1>2, <2>1, <3>1, <3>2 DEF TokenKept
    <2>3. CASE tokens[k].state = "free"
      <3>1. TokenMinted(k)
        BY <1>1, <1>3, <2>3 DEF TokensMove
      <3> QED
        BY <1>2, <2>1, <3>1 DEF TokenMinted
    <2> QED
      BY <2>2, <2>3
  <1> QED
    BY <1>3 DEF ClaimInv, Owner

(* Who holds a token keeps one that was minted. *)
LEMMA IssuedKept ==
    ASSUME SessionInv, [Next]_vars, NEW k \in Token, Issued(k)
    PROVE  Issued(k)'
  <1>1. TokensMove
    BY TokenStep
  <1> QED
    BY <1>1 DEF TokensMove, TokenKept, Issued, Token

LEMMA HoldersKept ==
    ASSUME SessionInv, [Next]_vars, NEW t \in Tabs, NEW k \in Tasks
    PROVE  /\ flight'[t][k] = flight[t][k] => FlightHolds(flight[t][k])'
           /\ task'[t][k] = task[t][k] => TaskHolds(task[t][k])'
  <1>1. flight[t][k].cookie \in Token /\ flight[t][k].got \in Token
        /\ task[t][k].cookie \in Token /\ task[t][k].got \in Token
    BY DEF SessionInv, TypeOK, Flight, Task
  <1>2. FlightHolds(flight[t][k]) /\ TaskHolds(task[t][k])
    BY DEF SessionInv, HolderInv
  <1> QED
    BY <1>1, <1>2, IssuedKept DEF FlightHolds, TaskHolds

LEMMA AwaitHolds ==
    ASSUME SessionInv, [Next]_vars, UNCHANGED cookie, NEW t \in Tabs, NEW k \in Tasks,
           NEW next \in {"me", "meAgain", "callAgain"}, AwaitRefresh(t, k, next)
    PROVE  HolderInv'
  <1>1. Issued(cookie)'
    BY IssuedKept DEF SessionInv, TypeOK, HolderInv, Issued
  <1> DEFINE starter == IF pending[t] = "none" THEN k ELSE pending[t]
             sent == [NoFlight EXCEPT !.stage = "sent", !.cookie = cookie]
             waits == [Idle EXCEPT !.stage = "wait", !.on = starter, !.next = next]
  <1>2. \A s \in Tabs, j \in Tasks : flight'[s][j] = flight[s][j] \/ flight'[s][j] = sent
    BY DEF AwaitRefresh, SessionInv, TypeOK
  <1>3. \A s \in Tabs, j \in Tasks : task'[s][j] = task[s][j] \/ task'[s][j] = waits
    BY DEF AwaitRefresh, Become, SessionInv, TypeOK
  <1>4. sent.cookie = cookie /\ sent.got = NoToken /\ sent.stage = "sent"
    BY DEF NoFlight
  <1>5. waits.cookie = NoToken /\ waits.got = NoToken /\ waits.stage = "wait"
    BY DEF Idle
  <1> HIDE DEF starter, sent, waits
  <1>6. ASSUME NEW s \in Tabs, NEW j \in Tasks
        PROVE  FlightHolds(flight[s][j])' /\ TaskHolds(task[s][j])'
    <2>1. ASSUME flight'[s][j] = sent PROVE FlightHolds(flight[s][j])'
      BY <1>1, <1>4, <2>1 DEF FlightHolds, Issued
    <2>2. ASSUME task'[s][j] = waits PROVE TaskHolds(task[s][j])'
      BY <1>5, <2>2 DEF TaskHolds, Issued
    <2>3. FlightHolds(flight[s][j])'
      BY <1>2, <2>1, HoldersKept
    <2>4. TaskHolds(task[s][j])'
      BY <1>3, <2>2, HoldersKept
    <2> QED
      BY <2>3, <2>4
  <1> QED
    BY <1>1, <1>6 DEF HolderInv

LEMMA BootHolds ==
    ASSUME SessionInv, [Next]_vars, UNCHANGED cookie, NEW t \in Tabs, Boot(t)
    PROVE  HolderInv'
  <1>1. Issued(cookie)'
    BY IssuedKept DEF SessionInv, TypeOK, HolderInv, Issued
  <1>2. /\ flight'[t]["init"].cookie = cookie /\ flight'[t]["init"].got = NoToken
        /\ flight'[t]["init"].stage = "sent"
        /\ task'[t]["init"].cookie = NoToken /\ task'[t]["init"].got = NoToken
        /\ task'[t]["init"].stage = "wait"
    BY BootTypes DEF NoFlight, Idle, SessionInv
  <1>3. \A k \in Tasks : k # "init" => flight'[t][k] = NoFlight /\ task'[t][k] = Idle
    BY BootTypes DEF SessionInv
  <1>4. \A s \in Tabs : s # t => flight'[s] = flight[s] /\ task'[s] = task[s]
    BY BootTypes DEF SessionInv
  <1>5. FlightHolds(flight[t]["init"])' /\ TaskHolds(task[t]["init"])'
    BY <1>1, <1>2 DEF FlightHolds, TaskHolds, Issued
  <1>6. ASSUME NEW k \in Tasks, k # "init" PROVE FlightHolds(flight[t][k])' /\ TaskHolds(task[t][k])'
    BY <1>3, <1>6, BlankTypes DEF FlightHolds, TaskHolds, Issued
  <1>7. ASSUME NEW s \in Tabs, NEW k \in Tasks, s # t
        PROVE  FlightHolds(flight[s][k])' /\ TaskHolds(task[s][k])'
    BY <1>4, <1>7, HoldersKept
  <1> QED
    BY <1>1, <1>5, <1>6, <1>7 DEF HolderInv

(* Only one task is replaced, by one that holds no token or the cookie. *)
LEMMA BecomeHolds ==
    ASSUME SessionInv, [Next]_vars, UNCHANGED flight, Issued(cookie)',
           NEW t \in Tabs, NEW k \in Tasks, NEW r \in Task, Become(t, k, r),
           r.cookie \in {NoToken, cookie}, r.got = NoToken,
           r.stage = "signin" => r.user \in Users
    PROVE  HolderInv'
  <1>1. /\ task'[t][k] = r
        /\ \A s \in Tabs, j \in Tasks : s # t \/ j # k => task'[s][j] = task[s][j]
    BY BecomeStep DEF SessionInv
  <1>2. Issued(r.cookie)'
    BY IssuedKept DEF SessionInv, TypeOK, HolderInv, Issued
  <1>3. TaskHolds(task[t][k])'
    BY <1>1, <1>2 DEF TaskHolds, Issued
  <1> QED
    BY <1>1, <1>3, HoldersKept DEF HolderInv

(* The tasks that a refresh resumes go on with a request or end. *)
LEMMA SettleTasks ==
    ASSUME SessionInv, NEW t \in Tabs, NEW k \in Tasks, NEW got \in Token,
           RefreshSucceeds(t, k, got) \/ RefreshFails(t, k),
           NEW s \in Tabs, NEW j \in Tasks
    PROVE  \/ task'[s][j] = task[s][j]
           \/ /\ task'[s][j].cookie = NoToken /\ task'[s][j].got = NoToken
              /\ task'[s][j].stage \in {"idle", "me", "meAgain", "callAgain"}
  <1>1. CASE s # t
    BY <1>1 DEF RefreshSucceeds, RefreshFails, SessionInv, TypeOK
  <1>2. CASE s = t
    <2>1. task[t][j].stage = "wait" => task[t][j].next \in {"me", "meAgain", "callAgain"}
      BY DEF SessionInv, FlightInv, FlightIn
    <2>2. j \in Waiting(t, k) => task[t][j].stage = "wait"
      BY DEF Waiting
    <2>3. CASE RefreshSucceeds(t, k, got)
      <3>1. task'[t][j] = IF j \in Waiting(t, k)
                          THEN [Idle EXCEPT !.stage = task[t][j].next, !.bearer = got]
                          ELSE task[t][j]
        BY <2>3 DEF RefreshSucceeds, SessionInv, TypeOK
      <3>2. [Idle EXCEPT !.stage = task[t][j].next, !.bearer = got].stage = task[t][j].next
            /\ [Idle EXCEPT !.stage = task[t][j].next, !.bearer = got].cookie = NoToken
            /\ [Idle EXCEPT !.stage = task[t][j].next, !.bearer = got].got = NoToken
        BY DEF Idle
      <3> QED
        BY <1>2, <2>1, <2>2, <3>1, <3>2
    <2>4. CASE RefreshFails(t, k)
      <3>1. task'[t][j] = IF j \in Waiting(t, k) THEN Idle ELSE task[t][j]
        BY <2>4 DEF RefreshFails, SessionInv, TypeOK
      <3> QED
        BY <1>2, <3>1, BlankTypes
    <2> QED
      BY <2>3, <2>4
  <1> QED
    BY <1>1, <1>2

LEMMA SettleHolds ==
    ASSUME SessionInv, [Next]_vars, Issued(cookie)', NEW t \in Tabs, NEW k \in Tasks,
           NEW got \in Token, RefreshSucceeds(t, k, got) \/ RefreshFails(t, k)
    PROVE  HolderInv'
  <1>1. \A s \in Tabs, j \in Tasks : flight'[s][j] = flight[s][j] \/ flight'[s][j] = NoFlight
    <2>1. Settled(t, k)
      BY DEF RefreshSucceeds, RefreshFails
    <2> QED
      BY <2>1 DEF Settled, SessionInv, TypeOK
  <1>2. \A s \in Tabs, j \in Tasks :
          \/ task'[s][j] = task[s][j]
          \/ /\ task'[s][j].cookie = NoToken /\ task'[s][j].got = NoToken
             /\ task'[s][j].stage # "signin"
    BY SettleTasks
  <1>3. ASSUME NEW s \in Tabs, NEW j \in Tasks
        PROVE  FlightHolds(flight[s][j])' /\ TaskHolds(task[s][j])'
    <2>1. ASSUME flight'[s][j] = NoFlight PROVE FlightHolds(flight[s][j])'
      BY <2>1, BlankTypes DEF FlightHolds, Issued
    <2>2. ASSUME /\ task'[s][j].cookie = NoToken /\ task'[s][j].got = NoToken
                 /\ task'[s][j].stage # "signin"
          PROVE  TaskHolds(task[s][j])'
      BY <2>2 DEF TaskHolds, Issued
    <2>3. FlightHolds(flight[s][j])'
      BY <1>1, <2>1, HoldersKept
    <2>4. TaskHolds(task[s][j])'
      BY <1>2, <2>2, HoldersKept
    <2> QED
      BY <2>3, <2>4
  <1> QED
    BY <1>3 DEF HolderInv

(* The refresh view moves one flight on. *)
LEMMA RefreshMoves ==
    ASSUME TypeOK, NEW t \in Tabs, NEW k \in Tasks, RefreshCheck(t, k) \/ RefreshRotate(t, k)
    PROVE  /\ UNCHANGED <<task, cookie, pending, lostFrom>>
           /\ \A s \in Tabs, j \in Tasks : s # t \/ j # k => flight'[s][j] = flight[s][j]
           /\ flight'[t][k].cookie = flight[t][k].cookie
           /\ \/ /\ RefreshCheck(t, k) /\ UNCHANGED <<tokens, password>>
                 /\ flight'[t][k].got = flight[t][k].got
                 /\ flight'[t][k].stage = Verdict(flight[t][k].cookie)
              \/ /\ RefreshRotate(t, k)
                 /\ flight'[t][k].got = Newest /\ flight'[t][k].stage = "granted"
  <1>1. flight[t][k] \in Flight
    BY DEF TypeOK
  <1>2. CASE RefreshCheck(t, k)
    <2>1. UNCHANGED <<task, cookie, pending, lostFrom, tokens, password>>
      BY <1>2 DEF RefreshCheck, server, history
    <2>2. /\ \A s \in Tabs, j \in Tasks : s # t \/ j # k => flight'[s][j] = flight[s][j]
          /\ flight'[t][k].cookie = flight[t][k].cookie
          /\ flight'[t][k].got = flight[t][k].got
          /\ flight'[t][k].stage = Verdict(flight[t][k].cookie)
      BY <1>1, <1>2 DEF RefreshCheck, TypeOK, Flight
    <2> QED
      BY <1>2, <2>1, <2>2
  <1>3. CASE RefreshRotate(t, k)
    <2>1. UNCHANGED <<task, cookie, pending, lostFrom>>
      BY <1>3 DEF RefreshRotate
    <2>2. flight' = [flight EXCEPT ![t][k].stage = "granted", ![t][k].got = Newest]
      BY <1>3 DEF RefreshRotate
    <2>3. /\ \A s \in Tabs, j \in Tasks : s # t \/ j # k => flight'[s][j] = flight[s][j]
          /\ flight'[t][k].cookie = flight[t][k].cookie
          /\ flight'[t][k].got = Newest /\ flight'[t][k].stage = "granted"
      BY <1>1, <2>2 DEF TypeOK, Flight
    <2> QED
      BY <1>3, <2>1, <2>3
  <1> QED
    BY <1>2, <1>3

LEMMA RefreshHolds ==
    ASSUME SessionInv, [Next]_vars, Issued(cookie)', NEW t \in Tabs, NEW k \in Tasks,
           RefreshCheck(t, k) \/ RefreshRotate(t, k)
    PROVE  HolderInv'
  <1> DEFINE f == flight[t][k]
  <1>1. f \in Flight /\ f.cookie \in Token /\ f.got \in Token
    BY DEF SessionInv, TypeOK, Flight
  <1>2. /\ f.cookie # NoToken => tokens'[f.cookie].state # "free"
        /\ f.got # NoToken => tokens'[f.got].state # "free"
    <2>1. Issued(f.cookie) /\ Issued(f.got)
      BY DEF SessionInv, HolderInv, FlightHolds
    <2> HIDE DEF f
    <2> QED
      BY <1>1, <2>1, IssuedKept DEF Issued
  <1>3. /\ UNCHANGED task
        /\ \A s \in Tabs, j \in Tasks : s # t \/ j # k => flight'[s][j] = flight[s][j]
        /\ flight'[t][k].cookie = f.cookie
    BY RefreshMoves DEF SessionInv
  <1>4. FlightHolds(flight[t][k])'
    <2>1. CASE RefreshCheck(t, k)
      <3>1. flight'[t][k].got = f.got \/ RefreshRotate(t, k)
        BY RefreshMoves DEF SessionInv
      <3>2. ~RefreshRotate(t, k)
        BY <2>1 DEF RefreshCheck, RefreshRotate
      <3>3. flight'[t][k].stage \in {"checked", "granted"} => f.cookie # NoToken
        BY <3>2, VerdictTypes, RefreshMoves DEF SessionInv
      <3> QED
        BY <1>2, <1>3, <3>1, <3>2, <3>3 DEF FlightHolds, Issued
    <2>2. CASE RefreshRotate(t, k)
      <3>1. flight'[t][k].got = Newest /\ f.cookie # NoToken
        <4>1. ~RefreshCheck(t, k)
          BY <2>2 DEF RefreshCheck, RefreshRotate
        <4> QED
          BY <2>2, <4>1, RefreshMoves, RotateMoves, BoundsAssumption DEF SessionInv, Ids, NoToken
      <3>2. tokens'[Newest].state = "good"
        BY <2>2, RotateMoves
      <3> QED
        BY <1>2, <1>3, <3>1, <3>2 DEF FlightHolds, Issued
    <2> QED
      BY <2>1, <2>2
  <1>5. \A s \in Tabs, j \in Tasks : FlightHolds(flight[s][j])'
    BY <1>3, <1>4, HoldersKept
  <1> QED
    BY <1>3, <1>5, HoldersKept DEF HolderInv

LEMMA LoginHolds ==
    ASSUME SessionInv, [Next]_vars, Issued(cookie)', NEW t \in Tabs,
           SignInHandled(t) \/ LogoutHandled(t)
    PROVE  HolderInv'
  <1>1. UNCHANGED flight
    BY DEF SignInHandled, LogoutHandled
  <1>2. task[t]["login"] \in Task /\ task[t]["logout"] \in Task
    BY TaskNames DEF SessionInv, TypeOK
  <1>3. PICK k \in {"login", "logout"} :
          /\ \A s \in Tabs, j \in Tasks : s # t \/ j # k => task'[s][j] = task[s][j]
          /\ TaskHolds(task[t][k])'
    <2>1. CASE LogoutHandled(t)
      <3>1. PICK g \in {NoToken, cookie} :
              task' = [task EXCEPT ![t]["logout"].stage = "loggedOut", ![t]["logout"].got = g]
        BY <2>1 DEF LogoutHandled
      <3>2. /\ task'[t]["logout"].cookie = task[t]["logout"].cookie
            /\ task'[t]["logout"].got = g /\ task'[t]["logout"].stage = "loggedOut"
            /\ \A s \in Tabs, j \in Tasks : s # t \/ j # "logout" => task'[s][j] = task[s][j]
        BY <1>2, <3>1, TaskNames DEF SessionInv, TypeOK, Task
      <3>3. Issued(task[t]["logout"].cookie)
        BY TaskNames DEF SessionInv, HolderInv, TaskHolds
      <3>4. UNCHANGED cookie /\ task[t]["logout"].cookie \in Token
        BY <1>2, <2>1 DEF LogoutHandled, Task
      <3>5. tokens'[task[t]["logout"].cookie].state # "free" \/ task[t]["logout"].cookie = NoToken
        BY <3>3, <3>4, IssuedKept DEF Issued
      <3> QED
        BY <3>2, <3>4, <3>5 DEF TaskHolds, Issued
    <2>2. CASE SignInHandled(t)
      <3>1. CASE Become(t, "login", Idle)
        BY <3>1, BecomeStep, TaskNames, BlankTypes DEF TaskHolds, Issued, SessionInv
      <3>2. CASE /\ Newest \in Ids /\ tokens'[Newest].state = "good"
                 /\ task' = [task EXCEPT ![t]["login"].stage = "minted",
                                         ![t]["login"].got = Newest]
        <4>1. /\ task'[t]["login"].cookie = task[t]["login"].cookie
              /\ task'[t]["login"].got = Newest /\ task'[t]["login"].stage = "minted"
              /\ \A s \in Tabs, j \in Tasks : s # t \/ j # "login" => task'[s][j] = task[s][j]
          BY <1>2, <3>2, TaskNames DEF SessionInv, TypeOK, Task
        <4>2. Issued(task[t]["login"].cookie) /\ task[t]["login"].cookie \in Token
          BY <1>2, TaskNames DEF SessionInv, HolderInv, TaskHolds, Task
        <4>3. tokens'[task[t]["login"].cookie].state # "free" \/ task[t]["login"].cookie = NoToken
          BY <4>2, IssuedKept DEF Issued
        <4> QED
          BY <3>2, <4>1, <4>3 DEF TaskHolds, Issued
      <3> QED
        BY <2>2, <3>1, <3>2, SignInMoves
    <2> QED
      BY <2>1, <2>2
  <1>4. \A s \in Tabs, j \in Tasks : TaskHolds(task[s][j])'
    BY <1>3, HoldersKept
  <1> QED
    BY <1>1, <1>4, HoldersKept DEF HolderInv

LEMMA HolderStep ==
    ASSUME SessionInv, [Next]_vars
    PROVE  HolderInv'
  <1> USE DEF SessionInv
  <1>1. ASSUME UNCHANGED cookie PROVE Issued(cookie)'
    BY <1>1, IssuedKept DEF HolderInv, Issued, TypeOK
  <1>2. ASSUME NEW t \in Tabs, NEW k \in Tasks, RefreshCheck(t, k) \/ RefreshRotate(t, k)
        PROVE  HolderInv'
    BY <1>1, <1>2, RefreshMoves, RefreshHolds
  <1>3. ASSUME NEW t \in Tabs, NEW k \in Tasks, RefreshAnswer(t, k) \/ RefreshLost(t, k)
        PROVE  HolderInv'
    <2> DEFINE got == flight[t][k].got
    <2>1. got \in Token /\ Issued(got)
      BY DEF TypeOK, Flight, HolderInv, FlightHolds
    <2>2. RefreshSucceeds(t, k, got) \/ RefreshFails(t, k)
      BY <1>3 DEF RefreshAnswer, RefreshLost
    <2>3. cookie' \in {cookie, got, NoToken}
      BY <1>3 DEF RefreshAnswer, RefreshLost
    <2> HIDE DEF got
    <2>4. got # NoToken => tokens'[got].state # "free"
      BY <2>1, IssuedKept DEF Issued
    <2>5. Issued(cookie)'
      BY <1>1, <2>3, <2>4 DEF Issued
    <2> QED
      BY <2>1, <2>2, <2>5, SettleHolds
  <1>4. ASSUME NEW t \in Tabs, NEW k \in Tasks, NEW next \in {"me", "meAgain", "callAgain"},
               AwaitRefresh(t, k, next), UNCHANGED cookie
        PROVE  HolderInv'
    BY <1>4, AwaitHolds
  <1>5. ASSUME NEW t \in Tabs, NEW k \in Tasks, Become(t, k, Idle), UNCHANGED flight,
               cookie' \in {cookie, NoToken}
        PROVE  HolderInv'
    <2>1. Issued(cookie)'
      BY <1>1, <1>5 DEF Issued
    <2>2. Idle.stage # "signin"
      BY BlankTypes
    <2> QED
      BY <1>5, <2>1, <2>2, BlankTypes, BecomeHolds
  <1>6. ASSUME NEW t \in Tabs, NEW k \in {"init", "login"}, MeAnswer(t, k) PROVE HolderInv'
    <2>1. UNCHANGED cookie /\ k \in Tasks
      BY <1>6, TaskNames DEF MeAnswer
    <2>2. \/ AwaitRefresh(t, k, "meAgain")
          \/ Become(t, k, Idle) /\ UNCHANGED flight
      BY <1>6 DEF MeAnswer, MeSucceeds, MeThrows
    <2> QED
      BY <1>4, <1>5, <2>1, <2>2
  <1>7. ASSUME NEW t \in Tabs, NEW c \in Calls, CallAnswer(t, c) PROVE HolderInv'
    <2>1. UNCHANGED cookie /\ c \in Tasks
      BY <1>7, TaskNames DEF CallAnswer
    <2>2. \/ AwaitRefresh(t, c, "callAgain")
          \/ Become(t, c, Idle) /\ UNCHANGED flight
      BY <1>7 DEF CallAnswer
    <2> QED
      BY <1>4, <1>5, <2>1, <2>2
  <1>8. ASSUME NEW t \in Tabs, SignInHandled(t) \/ LogoutHandled(t) PROVE HolderInv'
    <2>1. UNCHANGED cookie
      BY <1>8 DEF SignInHandled, LogoutHandled
    <2> QED
      BY <1>1, <1>8, <2>1, LoginHolds
  <1>9. ASSUME NEW t \in Tabs, SignInAnswered(t) PROVE HolderInv'
    <2> DEFINE got == task[t]["login"].got
               r == [Idle EXCEPT !.stage = "me", !.bearer = got]
    <2>1. got \in Token /\ Issued(got)
      BY TaskNames DEF TypeOK, Task, HolderInv, TaskHolds
    <2>2. /\ r \in Task /\ r.cookie = NoToken /\ r.got = NoToken
          /\ r.stage = "signin" => r.user \in Users
      <3> HIDE DEF got
      <3>1. r \in Task
        BY <2>1, TaskNames, RequestTypes DEF Stage
      <3> QED
        BY <3>1 DEF Idle
    <2>3. cookie' = got /\ Become(t, "login", r) /\ UNCHANGED flight
      BY <1>9 DEF SignInAnswered
    <2> HIDE DEF got
    <2>4. Issued(cookie)'
      BY <2>1, <2>3, IssuedKept DEF Issued
    <2> HIDE DEF r
    <2> QED
      BY <2>2, <2>3, <2>4, TaskNames, BecomeHolds
  <1>10. ASSUME NEW t \in Tabs, LogoutAnswer(t) PROVE HolderInv'
    BY <1>5, <1>10, TaskNames DEF LogoutAnswer
  <1>11. ASSUME NEW t \in Tabs, Open(t) PROVE HolderInv'
    BY <1>11, BootHolds DEF Open
  <1>12. ASSUME NEW t \in Tabs, NEW k \in Tasks, NEW r \in Task, Become(t, k, r),
                UNCHANGED <<flight, cookie>>, r.cookie \in {NoToken, cookie}, r.got = NoToken,
                r.stage = "signin" => r.user \in Users
         PROVE  HolderInv'
    BY <1>1, <1>12, BecomeHolds
  <1>13. ASSUME NEW t \in Tabs, NEW u \in Users, SignIn(t, u) PROVE HolderInv'
    <2> DEFINE r == [Idle EXCEPT !.stage = "signin", !.user = u]
    <2>1. r \in Task /\ r.cookie = NoToken /\ r.got = NoToken /\ r.user = u
      BY BlankTypes, TaskNames, RequestTypes DEF Stage, Idle
    <2>2. Become(t, "login", r) /\ UNCHANGED <<flight, cookie>>
      BY <1>13 DEF SignIn
    <2> HIDE DEF r
    <2> QED
      BY <1>12, <2>1, <2>2, TaskNames
  <1>14. ASSUME NEW t \in Tabs, NEW c \in Calls, Call(t, c) PROVE HolderInv'
    <2> DEFINE r == [Idle EXCEPT !.stage = "call", !.bearer = access[t]]
    <2>1. r \in Task
      BY BlankTypes, TaskNames, RequestTypes DEF Stage, TypeOK
    <2>2. r.cookie = NoToken /\ r.got = NoToken /\ r.stage = "call"
      BY DEF Idle
    <2>3. Become(t, c, r) /\ UNCHANGED <<flight, cookie>>
      BY <1>14 DEF Call, Send
    <2> HIDE DEF r
    <2> QED
      BY <1>12, <2>1, <2>2, <2>3, TaskNames
  <1>15. ASSUME NEW t \in Tabs, Logout(t) PROVE HolderInv'
    <2> DEFINE r == [Idle EXCEPT !.stage = "logout", !.bearer = access[t], !.cookie = cookie]
    <2>1. r \in Task
      BY BlankTypes, TaskNames, RequestTypes DEF Stage, TypeOK
    <2>2. r.cookie = cookie /\ r.got = NoToken /\ r.stage = "logout"
      BY DEF Idle
    <2>3. Become(t, "logout", r) /\ UNCHANGED <<flight, cookie>>
      BY <1>15 DEF Logout
    <2> HIDE DEF r
    <2> QED
      BY <1>12, <2>1, <2>2, <2>3, TaskNames
  <1>16. ASSUME \/ \E t \in Tabs : Redirect(t)
                \/ \E n \in Slots : LateCheck(n) \/ LateRotate(n)
                \/ Elsewhere \/ UNCHANGED vars
         PROVE  HolderInv'
    <2>1. UNCHANGED <<cookie, flight, task>>
      BY <1>16 DEF Redirect, LateCheck, LateRotate, Elsewhere, Expire, Revoke, ChangePassword, RevokeCutShort, vars
    <2> QED
      BY <1>1, <2>1, HoldersKept DEF HolderInv
  <1> QED
    BY <1>2, <1>3, <1>6, <1>7, <1>8, <1>9, <1>10, <1>11, <1>13, <1>14, <1>15, <1>16
       DEF Next, Network, Visitor

(* A refresh is given up, moves on, or is done with. *)
LEMMA LateStep ==
    ASSUME SessionInv, [Next]_vars
    PROVE  LateInv'
  <1> USE DEF SessionInv
  <1>1. ASSUME NEW n \in Slots, NEW f \in Flight, FlightHolds(f),
               late'[n].cookie = f.cookie, late'[n].got = f.got,
               late'[n].stage \in {"checked", "granted"} => f.cookie # NoToken
        PROVE  FlightHolds(late[n])'
    <2>1. f.cookie \in Token /\ f.got \in Token /\ Issued(f.cookie) /\ Issued(f.got)
      BY <1>1 DEF Flight, FlightHolds
    <2>2. /\ f.cookie # NoToken => tokens'[f.cookie].state # "free"
          /\ f.got # NoToken => tokens'[f.got].state # "free"
      BY <2>1, IssuedKept DEF Issued
    <2> QED
      BY <1>1, <2>2 DEF FlightHolds, Issued
  <1>2. ASSUME NEW n \in Slots, late'[n] = late[n] PROVE FlightHolds(late[n])'
    <2>1. late[n] \in Flight /\ FlightHolds(late[n])
      BY DEF TypeOK, LateInv
    <2> QED
      BY <1>1, <1>2, <2>1 DEF FlightHolds
  <1>3. ASSUME UNCHANGED late PROVE LateInv'
    BY <1>2, <1>3 DEF LateInv
  <1>4. ASSUME NEW t \in Tabs, NEW k \in Tasks, Abandon(flight[t][k]) PROVE LateInv'
    <2> DEFINE f == flight[t][k]
    <2>1. f \in Flight /\ FlightHolds(f) /\ (f.stage = "granted" => f.cookie # NoToken)
      BY DEF TypeOK, HolderInv, FlightHolds
    <2>2. \A n \in Slots : late'[n] = late[n] \/ late'[n] = f
      BY <1>4, <2>1, AbandonTypes
    <2>3. f.stage \in {"checked", "granted"} => f.cookie # NoToken
      BY <2>1 DEF FlightHolds
    <2> HIDE DEF f
    <2> QED
      BY <1>1, <1>2, <2>1, <2>2, <2>3 DEF LateInv
  <1>5. ASSUME NEW n \in Slots, LateCheck(n) \/ LateRotate(n) PROVE LateInv'
    <2>1. late[n] \in Flight /\ FlightHolds(late[n])
      BY DEF TypeOK, LateInv
    <2>2. \A m \in Slots : m # n => late'[m] = late[m]
      BY <1>5 DEF LateCheck, LateRotate, TypeOK
    <2>3. \/ late'[n] = NoFlight
          \/ /\ late'[n] = [late[n] EXCEPT !.stage = "checked"]
             /\ Verdict(late[n].cookie) = "checked"
      BY <1>5 DEF LateCheck, LateRotate, TypeOK
    <2>4. CASE late'[n] = NoFlight
      BY <1>2, <2>2, <2>4, BlankTypes DEF LateInv, FlightHolds, Issued
    <2>5. CASE /\ late'[n] = [late[n] EXCEPT !.stage = "checked"]
               /\ Verdict(late[n].cookie) = "checked"
      <3>1. late[n].cookie # NoToken
        BY <2>5, VerdictTypes
      <3>2. late'[n].cookie = late[n].cookie /\ late'[n].got = late[n].got
        BY <2>1, <2>5 DEF Flight
      <3>3. FlightHolds(late[n])'
        BY <1>1, <2>1, <3>1, <3>2
      <3> QED
        BY <1>2, <2>2, <3>3 DEF LateInv
    <2> QED
      BY <2>3, <2>4, <2>5
  <1>6. ASSUME NEW t \in Tabs, Visitor(t) PROVE LateInv'
    <2>1. CASE Open(t)
      <3>1. CASE UNCHANGED late
        BY <1>3, <3>1
      <3>2. CASE pending[t] # "none" /\ Abandon(flight[t][pending[t]])
        <4>1. pending[t] \in Tasks
          BY <3>2 DEF TypeOK
        <4> QED
          BY <1>4, <3>2, <4>1
      <3> QED
        BY <2>1, <3>1, <3>2 DEF Open
    <2>2. CASE \/ \E u \in Users : SignIn(t, u)
               \/ \E c \in Calls : Call(t, c)
               \/ Logout(t)
      BY <1>3, <2>2 DEF SignIn, Call, Logout, server
    <2> QED
      BY <1>6, <2>1, <2>2 DEF Visitor
  <1>7. ASSUME NEW t \in Tabs, Network(t) \/ Redirect(t) PROVE LateInv'
    BY <1>3, <1>7 DEF Network, Redirect, RefreshCheck, RefreshRotate, RefreshAnswer, MeAnswer,
       CallAnswer, SignInHandled, SignInAnswered, LogoutHandled, LogoutAnswer, server
  <1>8. ASSUME Elsewhere \/ UNCHANGED vars PROVE LateInv'
    BY <1>3, <1>8 DEF Elsewhere, Expire, Revoke, ChangePassword, RevokeCutShort, vars
  <1>9. ASSUME NEW t \in Tabs, NEW k \in Tasks, RefreshLost(t, k) PROVE LateInv'
    BY <1>4, <1>9 DEF RefreshLost
  <1> QED
    BY <1>5, <1>6, <1>7, <1>8, <1>9 DEF Next

-----------------------------------------------------------------------------
(* Invariance *)

LEMMA SessionInit == Init => SessionInv
  <1> SUFFICES ASSUME Init PROVE SessionInv
    OBVIOUS
  <1>1. TypeOK
    BY InitTypes
  <1>2. FlightInv
    BY BlankTypes DEF Init, FlightInv, FlightIn
  <1>3. /\ cookie # NoToken => cookie = 1 /\ tokens[1].state = "good" /\ 1 \in Ids
        /\ \A k \in Ids : tokens[k].state # "free" =>
             Owner(k) \in Users /\ tokens[k].pw = 0 /\ since[k] = 0
    <2>1. PICK u \in Users, has \in BOOLEAN :
            /\ cookie = IF has THEN 1 ELSE NoToken
            /\ tokens = [k \in Ids |-> IF has /\ k = 1
                                       THEN [state |-> "good", user |-> u, pw |-> 0]
                                       ELSE FreeRow]
      BY DEF Init
    <2>2. 1 \in Ids /\ FreeRow.state = "free"
      BY BoundsAssumption DEF Ids, FreeRow
    <2> QED
      BY <2>1, <2>2 DEF Init, Owner
  <1>4. HolderInv
    <2>1. Issued(cookie)
      BY <1>3 DEF Issued
    <2>2. \A t \in Tabs, k \in Tasks : flight[t][k] = NoFlight /\ task[t][k] = Idle
      BY DEF Init
    <2> QED
      BY <2>1, <2>2, BlankTypes DEF HolderInv, FlightHolds, TaskHolds, Issued
  <1>5. LateInv
    BY BlankTypes DEF Init, LateInv, FlightHolds, Issued
  <1>6. ClaimInv
    <2>1. \A u \in Users : password[u] = 0
      BY DEF Init
    <2> QED
      BY <1>3, <2>1 DEF ClaimInv
  <1> QED
    BY <1>1, <1>2, <1>4, <1>5, <1>6 DEF SessionInv

LEMMA SessionStep ==
    ASSUME SessionInv, [Next]_vars
    PROVE  SessionInv'
  <1>1. TypeOK'
    BY TypeStep DEF SessionInv
  <1>2. FlightInv'
    BY FlightStep DEF SessionInv
  <1>3. HolderInv'
    BY HolderStep
  <1>4. LateInv'
    BY LateStep
  <1>5. ClaimInv'
    BY <1>1, ClaimStep
  <1> QED
    BY <1>1, <1>2, <1>3, <1>4, <1>5 DEF SessionInv

(* The inductive invariant holds in every state, for any number of tabs.   *)
THEOREM SessionInvariance == Spec => []SessionInv
  BY SessionInit, SessionStep, PTL DEF Spec

(* Every variable keeps its type: the tabs and the cookie jar only ever    *)
(* name tokens of the server's table, and a sign-in or a rotation always   *)
(* writes a row of it that no token has used.                              *)
THEOREM SessionTypes == Spec => []TypeOK
  <1>1. SessionInv => TypeOK
    BY DEF SessionInv
  <1> QED
    BY <1>1, SessionInvariance, PTL

(* client.ts: in every tab, whoever waits for a refresh waits for the one  *)
(* that refreshPromise holds, and it is under way: nobody waits for ever   *)
(* for a promise that has settled, whatever order the answers come in.     *)
THEOREM WaitersAreResumed == Spec => []WaitersHaveFlight
  <1>1. SessionInv => WaitersHaveFlight
    BY DEF SessionInv, FlightInv, FlightIn, WaitersHaveFlight
  <1> QED
    BY <1>1, SessionInvariance, PTL

(* CHECK_REVOKE_TOKEN: however a password change interleaves with sign-ins *)
(* and refreshes, and wherever revoke_user_sessions() is cut short, a      *)
(* token that is still honoured stems from a sign-in with this password.   *)
THEOREM PasswordChangeIsFinal == Spec => []PasswordChangeEndsSessions
  <1>1. SessionInv => PasswordChangeEndsSessions
    BY DEF SessionInv, ClaimInv, ClaimHolds, PasswordChangeEndsSessions
  <1> QED
    BY <1>1, SessionInvariance, PTL

-----------------------------------------------------------------------------
(* One tab: rotation never invalidates the session *)

OneTab == \A s, t \in Tabs : s = t

(* Rotated by a refresh whose answer was not lost. *)
Rotated(k) == k # NoToken /\ tokens[k].state = "rotated" /\ k \notin lostFrom

(* The cookie was rotated only if the answer that replaces it is on its    *)
(* way ...                                                                 *)
CookieFresh ==
    Rotated(cookie) =>
        \E t \in Tabs, k \in Tasks :
            flight[t][k].stage = "granted" /\ flight[t][k].cookie = cookie

(* ... and so was the token of a refresh, unless by that refresh.          *)
FlightFresh(f) ==
    /\ f.stage \in {"sent", "checked"} => ~Rotated(f.cookie)
    /\ f.stage = "granted" => ~Rotated(f.got)
    /\ f.stage = "refused" /\ Rotated(f.cookie) => ~ClaimHolds(f.cookie)

(* A token that a sign-in has minted is nobody else's until it is answered. *)
MintedFresh(r) ==
    r.stage = "minted" =>
        /\ r.got # NoToken /\ ~Rotated(r.got) /\ r.got # cookie
        /\ \A t \in Tabs, k \in Tasks : flight[t][k].cookie # r.got /\ flight[t][k].got # r.got

FreshInv ==
    /\ CookieFresh
    /\ \A t \in Tabs, k \in Tasks : FlightFresh(flight[t][k])
    /\ \A t \in Tabs : MintedFresh(task[t]["login"])

LEMMA SoleFlight ==
    ASSUME OneTab, FlightInv, NEW t \in Tabs, NEW k \in Tasks, flight[t][k].stage # "none",
           NEW s \in Tabs, NEW j \in Tasks, s # t \/ j # k
    PROVE  s = t /\ flight[s][j].stage = "none"
  BY DEF OneTab, FlightInv, FlightIn

(* A refresh refused for its claim stays refused for its claim. *)
LEMMA ClaimStaysLost ==
    ASSUME SessionInv, [Next]_vars, NEW k \in Ids, tokens[k].state # "free", ~ClaimHolds(k)
    PROVE  ~ClaimHolds(k)'
  <1> USE DEF SessionInv
  <1>1. TokenKept(k)
    BY TokenStep DEF TokensMove
  <1>2. /\ tokens[k].user \in Users /\ tokens[k].pw \in Nat
        /\ tokens[k].pw <= password[tokens[k].user] /\ tokens[k].pw # password[tokens[k].user]
    BY DEF ClaimInv, Owner, ClaimHolds, TypeOK, Row
  <1>3. /\ password[tokens[k].user] \in Nat /\ password'[tokens[k].user] \in Nat
        /\ password[tokens[k].user] <= password'[tokens[k].user]
    BY <1>2, PasswordStep DEF TypeOK
  <1>4. tokens[k].pw # password'[tokens[k].user]
    BY <1>2, <1>3
  <1> QED
    BY <1>1, <1>4 DEF TokenKept, ClaimHolds, Owner

NoneRotated ==
    \A k \in Ids : tokens'[k].state = "rotated" /\ k \notin lostFrom' =>
                      tokens[k].state = "rotated" /\ k \notin lostFrom

(* What was lost stays lost. *)
LEMMA LostGrows ==
    ASSUME [Next]_vars
    PROVE  lostFrom \subseteq lostFrom'
  <1>1. ASSUME NEW t \in Tabs, Network(t) \/ Redirect(t) PROVE UNCHANGED lostFrom
    BY <1>1 DEF Network, Redirect, RefreshCheck, RefreshRotate, RefreshAnswer, MeAnswer,
       CallAnswer, SignInHandled, SignInAnswered, LogoutHandled, LogoutAnswer, history
  <1>2. ASSUME NEW t \in Tabs, Visitor(t) PROVE lostFrom \subseteq lostFrom'
    BY <1>2 DEF Visitor, Open, Abandon, SignIn, Call, Logout, history
  <1>3. ASSUME NEW t \in Tabs, NEW k \in Tasks, RefreshLost(t, k) PROVE lostFrom \subseteq lostFrom'
    BY <1>3 DEF RefreshLost, Abandon
  <1>4. ASSUME NEW n \in Slots, LateCheck(n) \/ LateRotate(n) PROVE lostFrom \subseteq lostFrom'
    BY <1>4 DEF LateCheck, LateRotate, history
  <1>5. ASSUME Elsewhere \/ UNCHANGED vars PROVE UNCHANGED lostFrom
    BY <1>5 DEF Elsewhere, Expire, Revoke, ChangePassword, RevokeCutShort, vars, history
  <1> QED
    BY <1>1, <1>2, <1>3, <1>4, <1>5 DEF Next

LEMMA OnlyRefreshRotates ==
    ASSUME SessionInv, [Next]_vars, UNCHANGED flight
    PROVE  NoneRotated
  <1>1. ASSUME NEW t \in Tabs, NEW j \in Tasks, RefreshRotate(t, j) PROVE FALSE
    <2>1. flight[t][j].stage = "checked"
      BY <1>1 DEF RefreshRotate
    <2>2. ~RefreshCheck(t, j)
      BY <2>1 DEF RefreshCheck
    <2> QED
      BY <1>1, <2>1, <2>2, RefreshMoves DEF SessionInv
  <1>2. ASSUME NEW n \in Slots, LateRotate(n) PROVE late[n].cookie \in lostFrom'
    BY <1>2 DEF LateRotate
  <1> QED
    BY <1>1, <1>2, TokenStep, LostGrows DEF TokensMove, TokenKept, TokenMinted, NoneRotated

LEMMA FreshKept ==
    ASSUME SessionInv, [Next]_vars, FreshInv, NoneRotated,
           NEW t \in Tabs, NEW k \in Tasks, flight'[t][k] = flight[t][k]
    PROVE  FlightFresh(flight[t][k])'
  <1> DEFINE c == flight[t][k].cookie
             g == flight[t][k].got
  <1>1. FlightFresh(flight[t][k]) /\ Issued(c)
    BY DEF FreshInv, SessionInv, HolderInv, FlightHolds
  <1>2. c \in Token /\ g \in Token
    BY DEF SessionInv, TypeOK, Flight
  <1>3. /\ c # NoToken /\ tokens'[c].state = "rotated" /\ c \notin lostFrom' => Rotated(c)
        /\ g # NoToken /\ tokens'[g].state = "rotated" /\ g \notin lostFrom' => Rotated(g)
    BY <1>2 DEF NoneRotated, Rotated, Token
  <1>4. c # NoToken /\ tokens[c].pw # password[tokens[c].user]
        => tokens'[c].pw # password'[tokens'[c].user]
    <2> HIDE DEF c
    <2> QED
      BY <1>1, <1>2, ClaimStaysLost DEF Issued, Token, ClaimHolds, Owner
  <1>5. flight'[t][k].cookie = c /\ flight'[t][k].got = g
    OBVIOUS
  <1> QED
    BY <1>1, <1>3, <1>4, <1>5 DEF FlightFresh, Rotated, ClaimHolds, Owner

(* Steps that leave the refreshes alone, and keep the cookie or drop it. *)
LEMMA QuietStep ==
    ASSUME SessionInv, [Next]_vars, FreshInv, UNCHANGED flight,
           cookie' = cookie \/ cookie' = NoToken
    PROVE  /\ CookieFresh'
           /\ \A t \in Tabs, k \in Tasks : FlightFresh(flight[t][k])'
  <1>1. NoneRotated
    BY OnlyRefreshRotates
  <1>2. cookie \in Token
    BY DEF SessionInv, TypeOK
  <1>3. CookieFresh'
    BY <1>1, <1>2 DEF FreshInv, CookieFresh, Rotated, NoneRotated, Token
  <1> QED
    BY <1>1, <1>3, FreshKept

(* The token of a sign-in that has not been answered stays its own. *)
LEMMA MintedKept ==
    ASSUME SessionInv, [Next]_vars, FreshInv, NEW t \in Tabs, NoneRotated,
           task'[t]["login"] = task[t]["login"] \/ task'[t]["login"].stage # "minted",
           \A s \in Tabs, j \in Tasks :
             /\ flight'[s][j].cookie \in {flight[s][j].cookie, cookie, NoToken}
             /\ flight'[s][j].got \in {flight[s][j].got, NoToken},
           \/ cookie' \in {cookie, NoToken}
           \/ \E s \in Tabs, j \in Tasks : cookie' = flight[s][j].got
    PROVE  MintedFresh(task[t]["login"])'
  <1> DEFINE r == task[t]["login"]
  <1>1. CASE task'[t]["login"].stage # "minted"
    BY <1>1 DEF MintedFresh
  <1>2. CASE task'[t]["login"] = r /\ r.stage = "minted"
    <2>1. /\ r.got # NoToken /\ ~Rotated(r.got) /\ r.got # cookie
          /\ \A s \in Tabs, j \in Tasks : flight[s][j].cookie # r.got /\ flight[s][j].got # r.got
      BY <1>2 DEF FreshInv, MintedFresh
    <2>2. r.got \in Token
      BY TaskNames DEF SessionInv, TypeOK, Task
    <2>3. tokens'[r.got].state # "rotated" \/ r.got \in lostFrom'
      BY <2>1, <2>2 DEF NoneRotated, Rotated, Token
    <2>4. r.got # cookie'
      BY <2>1
    <2>5. \A s \in Tabs, j \in Tasks : flight'[s][j].cookie # r.got /\ flight'[s][j].got # r.got
      BY <2>1
    <2>6. task'[t]["login"].got = r.got
      BY <1>2
    <2> QED
      BY <2>1, <2>3, <2>4, <2>5, <2>6 DEF MintedFresh, Rotated
  <1> QED
    BY <1>1, <1>2

LEMMA CheckFresh ==
    ASSUME SessionInv, [Next]_vars, FreshInv, NEW t \in Tabs, NEW k \in Tasks, RefreshCheck(t, k)
    PROVE  FreshInv'
  <1> DEFINE c == flight[t][k].cookie
  <1>1. ~RefreshRotate(t, k) /\ flight[t][k].stage = "sent"
    BY DEF RefreshCheck, RefreshRotate
  <1>2. /\ UNCHANGED <<task, cookie, lostFrom, tokens, password>>
        /\ \A s \in Tabs, j \in Tasks : s # t \/ j # k => flight'[s][j] = flight[s][j]
        /\ flight'[t][k].cookie = c /\ flight'[t][k].got = flight[t][k].got
        /\ flight'[t][k].stage = Verdict(c)
    BY <1>1, RefreshMoves DEF SessionInv
  <1>3. NoneRotated
    BY <1>2 DEF NoneRotated
  <1>4. CookieFresh'
    <2>1. ASSUME NEW s \in Tabs, NEW j \in Tasks, flight[s][j].stage = "granted"
          PROVE  flight'[s][j] = flight[s][j]
      BY <1>1, <1>2, <2>1
    <2> QED
      BY <1>2, <2>1 DEF FreshInv, CookieFresh, Rotated
  <1>5. FlightFresh(flight[t][k])'
    <2>1. ~Rotated(c)
      BY <1>1 DEF FreshInv, FlightFresh
    <2>2. Verdict(c) # "granted"
      BY VerdictTypes
    <2> HIDE DEF c
    <2> QED
      BY <1>2, <2>1, <2>2 DEF FlightFresh, Rotated
  <1>6. \A s \in Tabs : MintedFresh(task[s]["login"])'
    <2>1. \A s \in Tabs, j \in Tasks : /\ flight'[s][j].cookie = flight[s][j].cookie
                                       /\ flight'[s][j].got = flight[s][j].got
      BY <1>2
    <2> QED
      BY <1>2, <1>3, <2>1, MintedKept
  <1>7. \A s \in Tabs, j \in Tasks : FlightFresh(flight[s][j])'
    BY <1>2, <1>3, <1>5, FreshKept
  <1> QED
    BY <1>4, <1>6, <1>7 DEF FreshInv

LEMMA RotateFresh ==
    ASSUME OneTab, SessionInv, [Next]_vars, FreshInv, NEW t \in Tabs, NEW k \in Tasks,
           RefreshRotate(t, k)
    PROVE  FreshInv'
  <1> USE DEF SessionInv
  <1>1. flight[t][k].stage = "checked"
    BY DEF RefreshRotate
  <1>2. ASSUME NEW s \in Tabs, NEW j \in Tasks, RefreshRotate(s, j)
        PROVE  /\ flight'[s][j].cookie = flight[s][j].cookie
               /\ flight'[s][j].got = Newest /\ flight'[s][j].stage = "granted"
    <2>1. ~RefreshCheck(s, j)
      BY <1>2 DEF RefreshRotate, RefreshCheck
    <2> QED
      BY <1>2, <2>1, RefreshMoves
  <1>3. /\ UNCHANGED <<task, cookie, lostFrom>>
        /\ \A s \in Tabs, j \in Tasks : s # t \/ j # k => flight'[s][j] = flight[s][j]
    BY RefreshMoves
  <1>4. \A s \in Tabs, j \in Tasks : s # t \/ j # k => flight[s][j].stage = "none"
    BY <1>1, SoleFlight
  <1>5. /\ Newest \in Ids /\ tokens[Newest].state = "free" /\ tokens'[Newest].state = "good"
        /\ TokensMove
    BY RotateMoves
  <1>6. ASSUME NEW c \in Token, c # NoToken, Issued(c), tokens'[c].state = "rotated"
        PROVE  \/ tokens[c].state = "rotated"
               \/ \E s \in Tabs, j \in Tasks : RefreshRotate(s, j) /\ flight[s][j].cookie = c
    <2>1. ASSUME NEW n \in Slots, LateRotate(n) PROVE FALSE
      <3>1. flight'[t][k] = flight[t][k]
        BY <2>1 DEF LateRotate
      <3>2. flight'[t][k].stage = "granted"
        BY <1>2
      <3> QED
        BY <1>1, <3>1, <3>2
    <2> QED
      BY <1>5, <1>6, <2>1 DEF TokensMove, TokenKept, Issued, Token
  <1>7. CookieFresh'
    <2> SUFFICES ASSUME cookie # NoToken, tokens'[cookie].state = "rotated", cookie \notin lostFrom
                 PROVE  \E s \in Tabs, j \in Tasks :
                          flight'[s][j].stage = "granted" /\ flight'[s][j].cookie = cookie
      BY <1>3 DEF CookieFresh, Rotated
    <2>1. cookie \in Token /\ Issued(cookie)
      BY DEF TypeOK, HolderInv
    <2>2. CASE tokens[cookie].state = "rotated"
      <3>1. \A s \in Tabs, j \in Tasks : flight[s][j].stage # "granted"
        BY <1>1, <1>4
      <3> QED
        BY <2>2, <3>1 DEF FreshInv, CookieFresh, Rotated
    <2>3. ASSUME NEW s \in Tabs, NEW j \in Tasks, RefreshRotate(s, j), flight[s][j].cookie = cookie
          PROVE  flight'[s][j].stage = "granted" /\ flight'[s][j].cookie = cookie
      BY <1>2, <2>3
    <2> QED
      BY <1>6, <2>1, <2>2, <2>3
  <1>8. \A s \in Tabs, j \in Tasks : FlightFresh(flight[s][j])'
    <2>1. FlightFresh(flight[t][k])'
      <3>1. flight'[t][k].got = Newest /\ flight'[t][k].stage = "granted"
        BY <1>2
      <3> QED
        BY <1>5, <3>1 DEF FlightFresh, Rotated
    <2>2. ASSUME NEW s \in Tabs, NEW j \in Tasks, s # t \/ j # k PROVE FlightFresh(flight[s][j])'
      <3>1. flight'[s][j].stage = "none"
        BY <1>3, <1>4, <2>2
      <3> QED
        BY <3>1 DEF FlightFresh
    <2> QED
      BY <2>1, <2>2
  <1>9. ASSUME NEW s \in Tabs PROVE MintedFresh(task[s]["login"])'
    <2> DEFINE r == task[s]["login"]
    <2> SUFFICES ASSUME r.stage = "minted"
                 PROVE  /\ r.got # NoToken /\ r.got # cookie
                        /\ tokens'[r.got].state # "rotated" \/ r.got \in lostFrom
                        /\ \A a \in Tabs, j \in Tasks : /\ flight'[a][j].cookie # r.got
                                                        /\ flight'[a][j].got # r.got
      BY <1>3 DEF MintedFresh, Rotated
    <2>1. /\ r.got # NoToken /\ ~Rotated(r.got) /\ r.got # cookie
          /\ \A a \in Tabs, j \in Tasks : flight[a][j].cookie # r.got /\ flight[a][j].got # r.got
      BY DEF FreshInv, MintedFresh
    <2>2. r.got \in Token /\ Issued(r.got)
      BY TaskNames DEF TypeOK, Task, HolderInv, TaskHolds
    <2> HIDE DEF r
    <2>3. tokens'[r.got].state # "rotated" \/ r.got \in lostFrom
      BY <1>6, <2>1, <2>2 DEF Rotated
    <2>4. r.got # Newest
      BY <1>5, <2>1, <2>2 DEF Issued
    <2>5. flight'[t][k].cookie # r.got /\ flight'[t][k].got # r.got
      BY <1>2, <2>1, <2>4
    <2> QED
      BY <1>3, <2>1, <2>3, <2>5
  <1> QED
    BY <1>7, <1>8, <1>9 DEF FreshInv

LEMMA SettleFresh ==
    ASSUME SessionInv, [Next]_vars, FreshInv, NEW t \in Tabs, NEW k \in Tasks,
           RefreshAnswer(t, k) \/ RefreshLost(t, k)
    PROVE  FreshInv'
  <1> DEFINE f == flight[t][k]
  <1> USE DEF SessionInv
  <1>1. f.got \in Token /\ f.stage # "none" /\ (RefreshSucceeds(t, k, f.got) \/ RefreshFails(t, k))
    BY DEF TypeOK, Flight, RefreshAnswer, RefreshLost
  <1>2. UNCHANGED tokens /\ lostFrom \subseteq lostFrom'
    BY DEF RefreshAnswer, RefreshLost, Abandon, server, history
  <1>3. NoneRotated
    BY <1>2 DEF NoneRotated
  <1>4. /\ flight'[t][k] = NoFlight
        /\ \A s \in Tabs, j \in Tasks : s # t \/ j # k => flight'[s][j] = flight[s][j]
    <2>1. Settled(t, k)
      BY <1>1 DEF RefreshSucceeds, RefreshFails
    <2> QED
      BY <2>1 DEF Settled, TypeOK
  <1>5. \A s \in Tabs : task'[s]["login"] = task[s]["login"] \/ task'[s]["login"].stage # "minted"
    <2> HIDE DEF f
    <2> QED
      BY <1>1, TaskNames, SettleTasks
  <1>6. CookieFresh'
    <2>1. CASE /\ f.stage = "granted" /\ cookie' = f.got
      <3>1. ~Rotated(f.got)
        BY <2>1 DEF FreshInv, FlightFresh
      <3> QED
        BY <1>2, <2>1, <3>1 DEF CookieFresh, Rotated
    <2>2. CASE cookie' = NoToken
      BY <2>2 DEF CookieFresh, Rotated
    <2>3. CASE /\ cookie' = cookie
               /\ f.stage # "granted" \/ lostFrom' = lostFrom \cup {f.cookie}
      <3>1. ASSUME NEW s \in Tabs, NEW j \in Tasks,
                   flight[s][j].stage = "granted", flight[s][j].cookie = cookie
            PROVE  flight'[s][j] = flight[s][j] \/ cookie \in lostFrom'
        BY <1>4, <2>3, <3>1
      <3> QED
        BY <1>2, <2>3, <3>1 DEF FreshInv, CookieFresh, Rotated
    <2> QED
      BY <2>1, <2>2, <2>3 DEF RefreshAnswer, RefreshLost, Abandon, history
  <1>7. ASSUME NEW s \in Tabs, NEW j \in Tasks PROVE FlightFresh(flight[s][j])'
    <2>1. ASSUME flight'[s][j] = NoFlight PROVE FlightFresh(flight[s][j])'
      BY <2>1, BlankTypes DEF FlightFresh
    <2> QED
      BY <1>2, <1>3, <1>4, <2>1, FreshKept
  <1>8. ASSUME NEW s \in Tabs PROVE MintedFresh(task[s]["login"])'
    <2>1. \A a \in Tabs, j \in Tasks :
            /\ flight'[a][j].cookie \in {flight[a][j].cookie, cookie, NoToken}
            /\ flight'[a][j].got \in {flight[a][j].got, NoToken}
      BY <1>4, BlankTypes
    <2>2. cookie' \in {cookie, NoToken} \/ cookie' = flight[t][k].got
      BY DEF RefreshAnswer, RefreshLost
    <2> QED
      BY <1>3, <1>5, <2>1, <2>2, MintedKept
  <1> QED
    BY <1>6, <1>7, <1>8 DEF FreshInv

LEMMA AwaitFresh ==
    ASSUME OneTab, SessionInv, [Next]_vars, FreshInv, UNCHANGED <<cookie, tokens, lostFrom>>,
           NEW t \in Tabs, NEW k \in Tasks, NEW next \in Stage, AwaitRefresh(t, k, next)
    PROVE  FreshInv'
  <1> USE DEF SessionInv
  <1>1. NoneRotated
    BY DEF NoneRotated
  <1> DEFINE starter == IF pending[t] = "none" THEN k ELSE pending[t]
             waits == [Idle EXCEPT !.stage = "wait", !.on = starter, !.next = next]
  <1>2. \A s \in Tabs : task'[s]["login"] = task[s]["login"] \/ task'[s]["login"].stage # "minted"
    <2>1. \A s \in Tabs, j \in Tasks : task'[s][j] = task[s][j] \/ task'[s][j] = waits
      BY DEF AwaitRefresh, Become, TypeOK
    <2>2. waits.stage = "wait"
      BY DEF Idle
    <2> HIDE DEF waits
    <2> QED
      BY <2>1, <2>2, TaskNames
  <1>3. CASE pending[t] # "none"
    <2>1. UNCHANGED flight
      BY <1>3 DEF AwaitRefresh
    <2>2. \A s \in Tabs : MintedFresh(task[s]["login"])'
      BY <1>1, <1>2, <2>1, MintedKept
    <2> QED
      BY <2>1, <2>2, QuietStep DEF FreshInv
  <1>4. CASE pending[t] = "none"
    <2> DEFINE sent == [NoFlight EXCEPT !.stage = "sent", !.cookie = cookie]
    <2>1. flight'[t][k] = sent
          /\ \A s \in Tabs, j \in Tasks : s # t \/ j # k => flight'[s][j] = flight[s][j]
      BY <1>4 DEF AwaitRefresh, TypeOK
    <2>2. sent.stage = "sent" /\ sent.cookie = cookie /\ sent.got = NoToken
      BY DEF NoFlight
    <2> HIDE DEF sent
    <2>3. \A s \in Tabs, j \in Tasks : flight[s][j].stage = "none"
      BY <1>4, TaskNames DEF OneTab, FlightInv, FlightIn
    <2>4. ~Rotated(cookie)
      BY <2>3 DEF FreshInv, CookieFresh
    <2>5. CookieFresh'
      BY <2>4 DEF CookieFresh, Rotated
    <2>6. FlightFresh(flight[t][k])'
      BY <2>1, <2>2, <2>4 DEF FlightFresh, Rotated
    <2>7. \A s \in Tabs, j \in Tasks : FlightFresh(flight[s][j])'
      BY <1>1, <2>1, <2>6, FreshKept
    <2>8. \A s \in Tabs, j \in Tasks :
            /\ flight'[s][j].cookie \in {flight[s][j].cookie, cookie, NoToken}
            /\ flight'[s][j].got \in {flight[s][j].got, NoToken}
      BY <2>1, <2>2
    <2>9. \A s \in Tabs : MintedFresh(task[s]["login"])'
      BY <1>1, <1>2, <2>8, MintedKept
    <2> QED
      BY <2>5, <2>7, <2>9 DEF FreshInv
  <1> QED
    BY <1>3, <1>4

(* A page that is loaded: if its refresh was granted, the answer is lost.  *)
LEMMA OpenFresh ==
    ASSUME OneTab, SessionInv, [Next]_vars, FreshInv, NEW t \in Tabs, Open(t)
    PROVE  FreshInv'
  <1> USE DEF SessionInv
  <1>1. /\ UNCHANGED <<cookie, tokens>>
        /\ pending[t] = "none" \/ Abandon(flight[t][pending[t]])
    BY DEF Open
  <1>2. \A s \in Tabs : s = t
    BY DEF OneTab
  <1>3. ~Rotated(cookie)'
    <2> SUFFICES ASSUME Rotated(cookie) PROVE cookie \in lostFrom'
      BY <1>1, LostGrows DEF Rotated
    <2>1. PICK k \in Tasks : flight[t][k].stage = "granted" /\ flight[t][k].cookie = cookie
      BY <1>2 DEF FreshInv, CookieFresh
    <2>2. pending[t] = k /\ k # "none"
      BY <2>1, TaskNames DEF FlightInv, FlightIn
    <2> QED
      BY <1>1, <2>1, <2>2 DEF Abandon
  <1>4. /\ flight'[t]["init"].stage = "sent" /\ flight'[t]["init"].cookie = cookie
        /\ \A k \in Tasks : k # "init" => flight'[t][k] = NoFlight
        /\ task'[t]["login"] = Idle
    <2>1. Boot(t)
      BY DEF Open
    <2>2. flight'[t]["init"] = [NoFlight EXCEPT !.stage = "sent", !.cookie = cookie]
      BY <2>1, BootTypes
    <2>3. /\ \A k \in Tasks : k # "init" => flight'[t][k] = NoFlight
          /\ task'[t]["login"] = Idle
      BY <2>1, TaskNames, BootTypes
    <2> QED
      BY <2>2, <2>3 DEF NoFlight
  <1>5. FlightFresh(flight[t]["init"])'
    BY <1>1, <1>3, <1>4 DEF FlightFresh, Rotated
  <1>6. ASSUME NEW k \in Tasks, k # "init" PROVE FlightFresh(flight[t][k])'
    BY <1>4, <1>6, BlankTypes DEF FlightFresh
  <1>7. MintedFresh(task[t]["login"])'
    BY <1>4, BlankTypes DEF MintedFresh
  <1>8. CookieFresh'
    BY <1>3 DEF CookieFresh
  <1> QED
    BY <1>2, <1>5, <1>6, <1>7, <1>8 DEF FreshInv

(* One task is replaced, and it is not by a sign-in that has a token. *)
LEMMA BecomeFresh ==
    ASSUME SessionInv, [Next]_vars, FreshInv, UNCHANGED flight,
           cookie' = cookie \/ cookie' = NoToken,
           NEW t \in Tabs, NEW k \in Tasks, NEW r \in Task, Become(t, k, r), r.stage # "minted"
    PROVE  FreshInv'
  <1>1. NoneRotated
    BY OnlyRefreshRotates
  <1>2. \A s \in Tabs : task'[s]["login"] = task[s]["login"] \/ task'[s]["login"].stage # "minted"
    BY BecomeStep, TaskNames DEF SessionInv
  <1>3. \A s \in Tabs : MintedFresh(task[s]["login"])'
    BY <1>1, <1>2, MintedKept
  <1> QED
    BY <1>3, QuietStep DEF FreshInv

LEMMA SignInFresh ==
    ASSUME SessionInv, [Next]_vars, FreshInv, NEW t \in Tabs, SignInHandled(t)
    PROVE  FreshInv'
  <1>1. UNCHANGED <<cookie, flight, lostFrom>>
    BY DEF SignInHandled
  <1>2. CASE Become(t, "login", Idle)
    <2>1. Idle.stage # "minted"
      BY BlankTypes
    <2> QED
      BY <1>1, <1>2, <2>1, BlankTypes, TaskNames, BecomeFresh
  <1>3. CASE /\ Newest \in Ids /\ tokens[Newest].state = "free" /\ tokens'[Newest].state = "good"
             /\ task' = [task EXCEPT ![t]["login"].stage = "minted", ![t]["login"].got = Newest]
    <2>1. NoneRotated
      BY <1>1, OnlyRefreshRotates
    <2>2. /\ task'[t]["login"].got = Newest
          /\ \A s \in Tabs : s # t => task'[s]["login"] = task[s]["login"]
      BY <1>3, TaskNames DEF SessionInv, TypeOK, Task
    <2>3. \A s \in Tabs : s # t => MintedFresh(task[s]["login"])'
      BY <1>1, <2>1, <2>2, MintedKept
    <2>4. Newest # NoToken /\ Newest # cookie
      BY <1>3, BoundsAssumption DEF SessionInv, HolderInv, Issued, Ids, NoToken
    <2>5. \A s \in Tabs, j \in Tasks : flight[s][j].cookie # Newest /\ flight[s][j].got # Newest
      BY <1>3, <2>4 DEF SessionInv, HolderInv, FlightHolds, Issued
    <2>6. MintedFresh(task[t]["login"])'
      BY <1>1, <1>3, <2>2, <2>4, <2>5 DEF MintedFresh, Rotated
    <2> QED
      BY <1>1, <2>3, <2>6, QuietStep DEF FreshInv
  <1> QED
    BY <1>2, <1>3, SignInMoves

LEMMA SignedInFresh ==
    ASSUME OneTab, SessionInv, [Next]_vars, FreshInv, NEW t \in Tabs, SignInAnswered(t)
    PROVE  FreshInv'
  <1> DEFINE got == task[t]["login"].got
             r == [Idle EXCEPT !.stage = "me", !.bearer = got]
  <1>1. cookie' = got /\ Become(t, "login", r) /\ UNCHANGED <<flight, lostFrom, tokens>>
    BY DEF SignInAnswered, server, history
  <1>2. NoneRotated
    BY <1>1 DEF NoneRotated
  <1>3. ~Rotated(got)
    BY DEF SignInAnswered, FreshInv, MintedFresh
  <1>4. CookieFresh'
    BY <1>1, <1>3 DEF CookieFresh, Rotated
  <1>5. r \in Task /\ r.stage = "me"
    <2>1. got \in Token
      BY TaskNames DEF SessionInv, TypeOK, Task
    <2> HIDE DEF got
    <2>2. r \in Task
      BY <2>1, TaskNames, RequestTypes DEF Stage
    <2> QED
      BY <2>2 DEF Idle
  <1>6. ASSUME NEW s \in Tabs PROVE MintedFresh(task[s]["login"])'
    <2>1. task'[t]["login"] = r
      <3> HIDE DEF r
      <3> QED
        BY <1>1, <1>5, TaskNames, BecomeStep DEF SessionInv
    <2>2. s = t
      BY DEF OneTab
    <2> HIDE DEF r
    <2> QED
      BY <1>5, <2>1, <2>2 DEF MintedFresh
  <1> QED
    BY <1>1, <1>2, <1>4, <1>6, FreshKept DEF FreshInv

LEMMA FreshStep ==
    ASSUME OneTab, SessionInv, [Next]_vars, FreshInv
    PROVE  FreshInv'
  <1>1. ASSUME NEW t \in Tabs, NEW k \in Tasks,
               RefreshCheck(t, k) \/ RefreshRotate(t, k) \/ RefreshAnswer(t, k) \/ RefreshLost(t, k)
        PROVE  FreshInv'
    BY <1>1, CheckFresh, RotateFresh, SettleFresh
  <1>2. ASSUME NEW t \in Tabs, SignInHandled(t) \/ SignInAnswered(t) PROVE FreshInv'
    BY <1>2, SignInFresh, SignedInFresh
  <1>3. "me" \in Stage /\ "meAgain" \in Stage /\ "callAgain" \in Stage /\ Idle.stage # "minted"
    BY BlankTypes DEF Stage
  <1>4. ASSUME NEW t \in Tabs, NEW k \in {"init", "login"}, MeAnswer(t, k) PROVE FreshInv'
    <2>1. UNCHANGED <<cookie, tokens, lostFrom>> /\ k \in Tasks
      BY <1>4, TaskNames DEF MeAnswer, server, history
    <2>2. \/ AwaitRefresh(t, k, "meAgain")
          \/ Become(t, k, Idle) /\ UNCHANGED flight
      BY <1>4 DEF MeAnswer, MeSucceeds, MeThrows
    <2> QED
      BY <1>3, <2>1, <2>2, BlankTypes, AwaitFresh, BecomeFresh
  <1>5. ASSUME NEW t \in Tabs, NEW c \in Calls, CallAnswer(t, c) PROVE FreshInv'
    <2>1. UNCHANGED <<cookie, tokens, lostFrom>> /\ c \in Tasks
      BY <1>5, TaskNames DEF CallAnswer, server, history
    <2>2. \/ AwaitRefresh(t, c, "callAgain")
          \/ Become(t, c, Idle) /\ UNCHANGED flight
      BY <1>5 DEF CallAnswer
    <2> QED
      BY <1>3, <2>1, <2>2, BlankTypes, AwaitFresh, BecomeFresh
  <1>6. ASSUME NEW t \in Tabs, LogoutHandled(t) PROVE FreshInv'
    <2>1. UNCHANGED <<cookie, flight, lostFrom>>
      BY <1>6 DEF LogoutHandled, history
    <2>2. NoneRotated
      BY <2>1, OnlyRefreshRotates
    <2>3. \A s \in Tabs : task'[s]["login"] = task[s]["login"]
      BY <1>6, TaskNames DEF LogoutHandled, SessionInv, TypeOK
    <2>4. \A s \in Tabs : MintedFresh(task[s]["login"])'
      BY <2>1, <2>2, <2>3, MintedKept
    <2> QED
      BY <2>1, <2>4, QuietStep DEF FreshInv
  <1>7. ASSUME NEW t \in Tabs, LogoutAnswer(t) PROVE FreshInv'
    <2>1. /\ UNCHANGED <<flight, lostFrom>> /\ Become(t, "logout", Idle)
          /\ cookie' = cookie \/ cookie' = NoToken
      BY <1>7 DEF LogoutAnswer, history
    <2> QED
      BY <1>3, <2>1, BlankTypes, TaskNames, BecomeFresh
  <1>8. ASSUME NEW t \in Tabs, Open(t) PROVE FreshInv'
    BY <1>8, OpenFresh
  <1>9. ASSUME NEW t \in Tabs, NEW k \in Tasks, NEW r \in Task, Become(t, k, r),
               r.stage # "minted", UNCHANGED <<flight, cookie, lostFrom>>
        PROVE  FreshInv'
    BY <1>9, BecomeFresh
  <1>10. ASSUME NEW t \in Tabs, NEW u \in Users, SignIn(t, u) PROVE FreshInv'
    <2> DEFINE r == [Idle EXCEPT !.stage = "signin", !.user = u]
    <2>1. r \in Task /\ r.stage = "signin"
      BY BlankTypes, TaskNames, RequestTypes DEF Stage, Idle
    <2>2. Become(t, "login", r) /\ UNCHANGED <<flight, cookie, lostFrom>>
      BY <1>10 DEF SignIn, history
    <2> HIDE DEF r
    <2> QED
      BY <1>9, <2>1, <2>2, TaskNames
  <1>11. ASSUME NEW t \in Tabs, NEW c \in Calls, Call(t, c) PROVE FreshInv'
    <2> DEFINE r == [Idle EXCEPT !.stage = "call", !.bearer = access[t]]
    <2>1. r \in Task
      BY BlankTypes, TaskNames, RequestTypes DEF Stage, SessionInv, TypeOK
    <2>2. r.stage = "call"
      BY DEF Idle
    <2>3. Become(t, c, r) /\ UNCHANGED <<flight, cookie, lostFrom>>
      BY <1>11 DEF Call, Send, history
    <2> HIDE DEF r
    <2> QED
      BY <1>9, <2>1, <2>2, <2>3, TaskNames
  <1>12. ASSUME NEW t \in Tabs, Logout(t) PROVE FreshInv'
    <2> DEFINE r == [Idle EXCEPT !.stage = "logout", !.bearer = access[t], !.cookie = cookie]
    <2>1. r \in Task
      BY BlankTypes, TaskNames, RequestTypes DEF Stage, SessionInv, TypeOK
    <2>2. r.stage = "logout"
      BY DEF Idle
    <2>3. Become(t, "logout", r) /\ UNCHANGED <<flight, cookie, lostFrom>>
      BY <1>12 DEF Logout, history
    <2> HIDE DEF r
    <2> QED
      BY <1>9, <2>1, <2>2, <2>3, TaskNames
  <1>13. ASSUME \/ \E t \in Tabs : Redirect(t)
                \/ \E n \in Slots : LateCheck(n) \/ LateRotate(n)
                \/ Elsewhere \/ UNCHANGED vars
         PROVE  FreshInv'
    <2>1. UNCHANGED <<cookie, flight, task>>
      BY <1>13 DEF Redirect, LateCheck, LateRotate, Elsewhere, Expire, Revoke, ChangePassword,
         RevokeCutShort, vars
    <2>2. NoneRotated
      BY <2>1, OnlyRefreshRotates
    <2>3. \A s \in Tabs : MintedFresh(task[s]["login"])'
      BY <2>1, <2>2, MintedKept
    <2> QED
      BY <2>1, <2>3, QuietStep DEF FreshInv
  <1> QED
    BY <1>1, <1>2, <1>4, <1>5, <1>6, <1>7, <1>8, <1>10, <1>11, <1>12, <1>13
       DEF Next, Network, Visitor

LEMMA FreshInit == Init => FreshInv
  <1> SUFFICES ASSUME Init PROVE FreshInv
    OBVIOUS
  <1>1. ~Rotated(cookie)
    <2>1. PICK u \in Users, has \in BOOLEAN :
            /\ cookie = IF has THEN 1 ELSE NoToken
            /\ tokens = [k \in Ids |-> IF has /\ k = 1
                                       THEN [state |-> "good", user |-> u, pw |-> 0]
                                       ELSE FreeRow]
      BY DEF Init
    <2>2. 1 \in Ids
      BY BoundsAssumption DEF Ids
    <2> QED
      BY <2>1, <2>2 DEF Rotated
  <1>2. \A t \in Tabs, k \in Tasks : flight[t][k] = NoFlight /\ task[t][k] = Idle
    BY DEF Init
  <1> QED
    BY <1>1, <1>2, BlankTypes, TaskNames DEF FreshInv, CookieFresh, FlightFresh, MintedFresh

(* "The frontend single-flights concurrent refreshes so rotation never     *)
(* invalidates the session": for one tab, and any number of requests that  *)
(* meet a 401 at once.  For two tabs it is false: they share the cookie    *)
(* and not refreshPromise (run two_tabs).                                  *)
THEOREM RotationIsSafe ==
    ASSUME OneTab
    PROVE  Spec => []RotationKeepsSession
  <1>1. Init => SessionInv /\ FreshInv
    BY SessionInit, FreshInit
  <1>2. SessionInv /\ FreshInv /\ [Next]_vars => (SessionInv /\ FreshInv)'
    BY SessionStep, FreshStep
  <1>3. FreshInv => RotationKeepsSession
    BY DEF FreshInv, FlightFresh, Rotated, RotationKeepsSession
  <1> QED
    BY <1>1, <1>2, <1>3, PTL DEF Spec

=============================================================================
