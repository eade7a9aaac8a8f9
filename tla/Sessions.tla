------------------------------- MODULE Sessions -------------------------------
(***************************************************************************)
(* The signed-in session: lib/api/client.ts, lib/api/auth.ts and useAuth   *)
(* in the browser tabs, and the login, refresh and logout views.           *)
(*                                                                         *)
(* Every tab runs its own copy of the client module, with the access token *)
(* in memory; all tabs share one cookie jar, with the refresh token.       *)
(* A login or a rotation mints token k: its refresh part goes to the       *)
(* cookie, its access part to the tab's memory.  An async function of a    *)
(* tab is a task; it stands at the request or promise it awaits, and what  *)
(* follows an answer up to the next await is one step.  Answers come in    *)
(* any order, and the cookie in a Set-Cookie header takes effect then.     *)
(* A refresh whose answer is lost, or whose page is reloaded meanwhile,    *)
(* may be handled by the server all the same, at any later time.           *)
(***************************************************************************)
EXTENDS Naturals, FiniteSets

CONSTANTS
    Tabs,
    Users,
    NoUser,
    Calls,          \* slots for concurrent requests of a tab's pages
    MaxTokens,      \* bound: tokens minted
    Reserve,        \* bound: tokens that sign-ins leave to rotations
    MaxPasswords,   \* bound: password changes
    MaxExpiries,    \* bound: access tokens that reach ACCESS_TOKEN_LIFETIME
    MaxLost,        \* bound: refreshes given up, answers lost, and revocations cut short
    MaxOpens        \* bound: page loads

ASSUME UsersAssumption == NoUser \notin Users
ASSUME CallsAssumption == Calls \cap {"init", "login", "logout", "none"} = {}
ASSUME BoundsAssumption ==
    /\ MaxTokens \in Nat \ {0} /\ Reserve \in Nat
    /\ MaxPasswords \in Nat /\ MaxExpiries \in Nat
    /\ MaxLost \in Nat /\ MaxOpens \in Nat

VARIABLES
    tokens,     \* tokens[k]: the server's view of refresh token k and its claims
    expired,    \* access tokens past their lifetime
    password,   \* password[u]: how often the password of u has changed
    revoking,   \* tokens revoke_user_sessions() has still to blacklist
    late,       \* late[n]: a refresh whose answer no tab awaits, still to be handled
    cookie,     \* the refresh token in the cookie jar
    access,     \* access[t]: accessToken of the client module
    pending,    \* pending[t]: the task that started refreshPromise, or "none"
    flight,     \* flight[t][k]: the doRefresh() that task k of tab t started
    task,       \* task[t][k]
    user,       \* user[t]: AuthProvider's user
    loading,    \* loading[t]: AuthProvider's loading
    atLogin,    \* atLogin[t]: the tab shows LoginPage
    lostFrom,   \* history: tokens rotated by a refresh whose answer was lost
    since,      \* history: since[k] is password[u] at the sign-in k stems from
    lost, opens \* bounds

server == <<tokens, expired, password, revoking, late>>
history == <<lostFrom, since>>
vars == <<tokens, expired, password, revoking, late, cookie, access, pending, flight,
          task, user, loading, atLogin, lostFrom, since, lost, opens>>

-----------------------------------------------------------------------------
(* Data *)

Ids == 1..MaxTokens
NoToken == 0
Token == Ids \cup {NoToken}
Slots == 1..MaxLost

Tasks == {"init", "login", "logout"} \cup Calls

\* "rotated" and "revoked" are both in the blacklist.
Row == [state : {"free", "good", "rotated", "revoked"},
        user : Users \cup {NoUser}, pw : Nat]
FreeRow == [state |-> "free", user |-> NoUser, pw |-> 0]

\* "dropped" is a refusal whose answer deletes the cookie.
Flight == [stage : {"none", "sent", "checked", "granted", "refused", "dropped"},
           cookie : Token, got : Token]
NoFlight == [stage |-> "none", cookie |-> NoToken, got |-> NoToken]

\* What a task awaits: its request ("again" is the request with retry = false
\* that follows a refresh), or the refresh started by task on.
Stage == {"idle", "boot", "signin", "minted", "me", "call", "wait", "meAgain",
          "callAgain", "logout", "loggedOut"}
Task == [stage : Stage, bearer : Token, cookie : Token, got : Token,
         user : Users \cup {NoUser}, on : Tasks \cup {"none"}, next : Stage]
Idle == [stage |-> "idle", bearer |-> NoToken, cookie |-> NoToken,
         got |-> NoToken, user |-> NoUser, on |-> "none", next |-> "idle"]

Good(k) == tokens[k].state = "good"
Owner(k) == tokens[k].user

(* CHECK_REVOKE_TOKEN: the claim still matches the password hash. *)
ClaimHolds(k) == tokens[k].pw = password[Owner(k)]

(* JWTAuthentication on a bearer token. *)
Authentic(a) == a # NoToken /\ a \notin expired /\ ClaimHolds(a)

Free == {k \in Ids : tokens[k].state = "free"}
Newest == CHOOSE k \in Free : \A j \in Free : k <= j

Mint(k, u, pw) == [tokens EXCEPT ![k] = [state |-> "good", user |-> u, pw |-> pw]]

Init ==
    /\ \E u \in Users, has \in BOOLEAN :
        /\ cookie = IF has THEN 1 ELSE NoToken
        /\ tokens = [k \in Ids |-> IF has /\ k = 1
                                   THEN [state |-> "good", user |-> u, pw |-> 0]
                                   ELSE FreeRow]
    /\ expired = {}
    /\ password = [u \in Users |-> 0]
    /\ revoking = {}
    /\ late = [n \in Slots |-> NoFlight]
    /\ access = [t \in Tabs |-> NoToken]
    /\ pending = [t \in Tabs |-> "none"]
    /\ flight = [t \in Tabs |-> [k \in Tasks |-> NoFlight]]
    /\ task = [t \in Tabs |-> [k \in Tasks |-> Idle]]
    /\ user = [t \in Tabs |-> NoUser]
    /\ loading = [t \in Tabs |-> TRUE]
    /\ atLogin = [t \in Tabs |-> FALSE]
    /\ lostFrom = {}
    /\ since = [k \in Ids |-> 0]
    /\ lost = 0
    /\ opens = 0

-----------------------------------------------------------------------------
(* The client module *)

Become(t, k, fields) == task' = [task EXCEPT ![t][k] = fields]

\* Regression: the header is set without a token too.
SendAlways(t, k, stage) ==
    Become(t, k, [Idle EXCEPT !.stage = stage,
                              !.bearer = IF access[t] = NoToken THEN MaxTokens + 1 ELSE access[t]])

(* A request with the access token of this moment in its header. *)
Send(t, k, stage) == Become(t, k, [Idle EXCEPT !.stage = stage, !.bearer = access[t]])

\* Regression: every 401 starts a refresh of its own.
AwaitRefreshAlone(t, k, next) ==
    /\ flight' = [flight EXCEPT ![t][k] = [NoFlight EXCEPT !.stage = "sent", !.cookie = cookie]]
    /\ pending' = [pending EXCEPT ![t] = k]
    /\ Become(t, k, [Idle EXCEPT !.stage = "wait", !.on = k, !.next = next])

(* refreshAccess(): join the refresh under way or start one. *)
AwaitRefresh(t, k, next) ==
    LET starter == IF pending[t] = "none" THEN k ELSE pending[t] IN
        /\ pending' = [pending EXCEPT ![t] = starter]
        /\ flight' = IF pending[t] = "none"
                     THEN [flight EXCEPT ![t][k] =
                               [NoFlight EXCEPT !.stage = "sent", !.cookie = cookie]]
                     ELSE flight
        /\ Become(t, k, [Idle EXCEPT !.stage = "wait", !.on = starter, !.next = next])

\* Regression: only the task that started the refresh is resumed.
WaitingStarter(t, k) == {k} \cap {j \in Tasks : task[t][j].stage = "wait"}

(* The tasks of tab t that the promise of flight k resumes. *)
Waiting(t, k) == {j \in Tasks : task[t][j].stage = "wait" /\ task[t][j].on = k}

\* Regression: refreshPromise is kept once it has settled.
SettledOnce(t, k) ==
    /\ flight' = [flight EXCEPT ![t][k] = NoFlight]
    /\ UNCHANGED pending

Settled(t, k) ==
    /\ flight' = [flight EXCEPT ![t][k] = NoFlight]
    /\ pending' = [pending EXCEPT ![t] = "none"]

(* doRefresh() returned true: each waiting request goes out again. *)
RefreshSucceeds(t, k, got) ==
    /\ Settled(t, k)
    /\ access' = [access EXCEPT ![t] = got]
    /\ task' = [task EXCEPT ![t] = [j \in Tasks |->
                  IF j \in Waiting(t, k)
                  THEN [Idle EXCEPT !.stage = task[t][j].next, !.bearer = got]
                  ELSE task[t][j]]]
    /\ UNCHANGED <<user, loading>>

\* Regression: initializeAuth() only ends loading when it was refreshed.
RefreshFailsLoading(t, k) ==
    /\ Settled(t, k)
    /\ access' = [access EXCEPT ![t] = NoToken]
    /\ task' = [task EXCEPT ![t] = [j \in Tasks |->
                  IF j \in Waiting(t, k) THEN Idle ELSE task[t][j]]]
    /\ UNCHANGED <<user, loading>>

(* doRefresh() returned false: the requests that wait are given up, and    *)
(* initializeAuth() ends.                                                  *)
RefreshFails(t, k) ==
    LET boot == "init" \in Waiting(t, k) IN
        /\ Settled(t, k)
        /\ access' = [access EXCEPT ![t] = NoToken]
        /\ task' = [task EXCEPT ![t] = [j \in Tasks |->
                      IF j \in Waiting(t, k) THEN Idle ELSE task[t][j]]]
        /\ loading' = [loading EXCEPT ![t] = IF boot THEN FALSE ELSE @]
        /\ user' = [user EXCEPT ![t] =
                      IF boot /\ task[t]["init"].next = "meAgain" THEN NoUser ELSE @]

-----------------------------------------------------------------------------
(* POST /auth/token/refresh/ *)

(* The view looks at the claim of a token that is not blacklisted, and     *)
(* deletes the cookie if it fails.  The serializer raises for a token that *)
(* is blacklisted, and that answer leaves the cookie alone.                *)
Verdict(c) ==
    IF c = NoToken \/ ~Good(c) THEN "refused"
    ELSE IF ClaimHolds(c) THEN "checked"
    ELSE "dropped"

RefreshCheck(t, k) ==
    LET f == flight[t][k] IN
        /\ f.stage = "sent"
        /\ flight' = [flight EXCEPT ![t][k].stage = Verdict(f.cookie)]
        /\ UNCHANGED <<server, cookie, access, pending, task, user, loading, atLogin,
                       history, lost, opens>>

\* Regression: the new token is made for the user, with a fresh claim.
RotationFresh(c) ==
    /\ Free # {}
    /\ tokens' = [Mint(Newest, Owner(c), password[Owner(c)]) EXCEPT ![c].state = "rotated"]
    /\ since' = [since EXCEPT ![Newest] = since[c]]

(* As a separate step, the token is blacklisted and one with the same      *)
(* claims takes its place.                                                 *)
Rotation(c) ==
    /\ Free # {}
    /\ tokens' = [Mint(Newest, Owner(c), tokens[c].pw) EXCEPT
                     ![c].state = IF @ = "good" THEN "rotated" ELSE @]
    /\ since' = [since EXCEPT ![Newest] = since[c]]

RefreshRotate(t, k) ==
    LET f == flight[t][k] IN
        /\ f.stage = "checked"
        /\ Rotation(f.cookie)
        /\ flight' = [flight EXCEPT ![t][k].stage = "granted", ![t][k].got = Newest]
        /\ UNCHANGED <<expired, password, revoking, late, cookie, access, pending, task,
                       user, loading, atLogin, lostFrom, lost, opens>>

RefreshAnswer(t, k) ==
    LET f == flight[t][k] IN
        /\ \/ f.stage = "granted" /\ cookie' = f.got /\ RefreshSucceeds(t, k, f.got)
           \/ f.stage = "refused" /\ cookie' = cookie /\ RefreshFails(t, k)
           \/ f.stage = "dropped" /\ cookie' = NoToken /\ RefreshFails(t, k)
        /\ UNCHANGED <<server, atLogin, history, lost, opens>>

(* Nobody will read the answer to f: the request is lost, its answer is,   *)
(* or the server has still to handle it.                                   *)
Abandon(f) ==
    /\ lost < MaxLost
    /\ lost' = lost + 1
    /\ \/ late' = late
       \/ f.stage \in {"sent", "checked"} /\ late' = [late EXCEPT ![lost + 1] = f]
    /\ lostFrom' = IF f.stage = "granted" THEN lostFrom \cup {f.cookie} ELSE lostFrom

(* The connection fails, or the answer is a 5xx or a 429. *)
RefreshLost(t, k) ==
    /\ flight[t][k].stage # "none"
    /\ Abandon(flight[t][k])
    /\ RefreshFails(t, k)
    /\ UNCHANGED <<tokens, expired, password, revoking, cookie, atLogin, since, opens>>

(* The server handles a refresh that was given up. *)
LateCheck(n) ==
    /\ late[n].stage = "sent"
    /\ late' = [late EXCEPT ![n] = IF Verdict(@.cookie) = "checked"
                                   THEN [@ EXCEPT !.stage = "checked"] ELSE NoFlight]
    /\ UNCHANGED <<tokens, expired, password, revoking, cookie, access, pending, flight,
                   task, user, loading, atLogin, history, lost, opens>>

LateRotate(n) ==
    /\ late[n].stage = "checked"
    /\ Rotation(late[n].cookie)
    /\ late' = [late EXCEPT ![n] = NoFlight]
    /\ lostFrom' = lostFrom \cup {late[n].cookie}
    /\ UNCHANGED <<expired, password, revoking, cookie, access, pending, flight, task,
                   user, loading, atLogin, lost, opens>>

-----------------------------------------------------------------------------
(* AuthProvider and LoginPage *)

(* initializeAuth(), in a module whose tasks and promise are new. *)
Boot(t) ==
    /\ pending' = [pending EXCEPT ![t] = "init"]
    /\ flight' = [flight EXCEPT ![t] = [k \in Tasks |->
                    IF k = "init" THEN [NoFlight EXCEPT !.stage = "sent", !.cookie = cookie]
                    ELSE NoFlight]]
    /\ task' = [task EXCEPT ![t] = [k \in Tasks |->
                  IF k = "init" THEN [Idle EXCEPT !.stage = "wait", !.on = "init", !.next = "me"]
                  ELSE Idle]]

(* A page is loaded or reloaded, at /login or elsewhere.  Its requests and *)
(* a refresh under way are given up; a sign-in or sign-out is answered     *)
(* first.                                                                  *)
Open(t) ==
    /\ opens < MaxOpens
    /\ opens' = opens + 1
    /\ task[t]["login"].stage \notin {"signin", "minted"} /\ task[t]["logout"] = Idle
    /\ IF pending[t] = "none" THEN UNCHANGED <<late, lostFrom, lost>>
       ELSE Abandon(flight[t][pending[t]])
    /\ access' = [access EXCEPT ![t] = NoToken]
    /\ user' = [user EXCEPT ![t] = NoUser]
    /\ loading' = [loading EXCEPT ![t] = TRUE]
    /\ \E there \in BOOLEAN : atLogin' = [atLogin EXCEPT ![t] = there]
    /\ Boot(t)
    /\ UNCHANGED <<tokens, expired, password, revoking, cookie, since>>

Ready(t) == ~loading[t]

(* Protected sends a visitor without a user to /login. *)
Redirect(t) ==
    /\ Ready(t) /\ user[t] = NoUser /\ ~atLogin[t]
    /\ atLogin' = [atLogin EXCEPT ![t] = TRUE]
    /\ UNCHANGED <<server, cookie, access, pending, flight, task, user, loading,
                   history, lost, opens>>

(* login(): a password or a Google credential of u; LoginPage's busy flag  *)
(* allows one at a time.                                                   *)
SignIn(t, u) ==
    /\ atLogin[t]
    /\ task[t]["login"] = Idle
    /\ Become(t, "login", [Idle EXCEPT !.stage = "signin", !.user = u])
    /\ UNCHANGED <<server, cookie, access, pending, flight, user, loading, atLogin,
                   history, lost, opens>>

(* The view accepts it and mints a token, or refuses it. *)
SignInHandled(t) ==
    LET u == task[t]["login"].user IN
        /\ task[t]["login"].stage = "signin"
        /\ \/ /\ Cardinality(Free) > Reserve
              /\ tokens' = Mint(Newest, u, password[u])
              /\ since' = [since EXCEPT ![Newest] = password[u]]
              /\ task' = [task EXCEPT ![t]["login"].stage = "minted",
                                      ![t]["login"].got = Newest]
           \/ Become(t, "login", Idle) /\ UNCHANGED <<tokens, since>>
        /\ UNCHANGED <<expired, password, revoking, late, cookie, access, pending, flight,
                       user, loading, atLogin, lostFrom, lost, opens>>

(* startSession(): setTokens() and fetchMe(). *)
SignInAnswered(t) ==
    LET k == task[t]["login"].got IN
        /\ task[t]["login"].stage = "minted"
        /\ cookie' = k
        /\ access' = [access EXCEPT ![t] = k]
        /\ Become(t, "login", [Idle EXCEPT !.stage = "me", !.bearer = k])
        /\ UNCHANGED <<server, pending, flight, user, loading, atLogin, history,
                       lost, opens>>

(* fetchMe() succeeded: setUser(), and LoginPage navigates home. *)
MeSucceeds(t, k) ==
    /\ user' = [user EXCEPT ![t] = Owner(task[t][k].bearer)]
    /\ loading' = [loading EXCEPT ![t] = IF k = "init" THEN FALSE ELSE @]
    /\ atLogin' = [atLogin EXCEPT ![t] = IF k = "login" THEN FALSE ELSE @]
    /\ Become(t, k, Idle)
    /\ UNCHANGED <<access, pending, flight>>

(* fetchMe() threw: both callers clear the token; only boot clears user. *)
MeThrows(t, k) ==
    /\ access' = [access EXCEPT ![t] = NoToken]
    /\ user' = [user EXCEPT ![t] = IF k = "init" THEN NoUser ELSE @]
    /\ loading' = [loading EXCEPT ![t] = IF k = "init" THEN FALSE ELSE @]
    /\ Become(t, k, Idle)
    /\ UNCHANGED <<pending, flight, atLogin>>

MeAnswer(t, k) ==
    LET r == task[t][k] IN
        /\ r.stage \in {"me", "meAgain"}
        /\ \/ Authentic(r.bearer) /\ MeSucceeds(t, k) /\ UNCHANGED lost
           \/ /\ ~Authentic(r.bearer)
              /\ r.stage = "me"
              /\ AwaitRefresh(t, k, "meAgain")
              /\ UNCHANGED <<access, user, loading, atLogin, lost>>
           \/ ~Authentic(r.bearer) /\ r.stage = "meAgain" /\ MeThrows(t, k) /\ UNCHANGED lost
           \/ lost < MaxLost /\ lost' = lost + 1 /\ MeThrows(t, k)
        /\ UNCHANGED <<server, cookie, history, opens>>

-----------------------------------------------------------------------------
(* Pages and logout *)

InApp(t) == Ready(t) /\ user[t] # NoUser /\ ~atLogin[t]

Call(t, c) ==
    /\ InApp(t)
    /\ task[t][c] = Idle
    /\ Send(t, c, "call")
    /\ UNCHANGED <<server, cookie, access, pending, flight, user, loading, atLogin,
                   history, lost, opens>>

(* request(): a 401 is followed by one refresh and one replay; any other   *)
(* answer, an error too, goes back to the page.                            *)
CallAnswer(t, c) ==
    LET r == task[t][c] IN
        /\ r.stage \in {"call", "callAgain"}
        /\ IF ~Authentic(r.bearer) /\ r.stage = "call"
           THEN AwaitRefresh(t, c, "callAgain")
           ELSE Become(t, c, Idle) /\ UNCHANGED <<pending, flight>>
        /\ UNCHANGED <<server, cookie, access, user, loading, atLogin, history, lost,
                       opens>>

(* logout(): the request leaves with the token of this moment, and the tab *)
(* forgets the session without waiting for the answer.                     *)
Logout(t) ==
    /\ InApp(t)
    /\ task[t]["logout"] = Idle
    /\ Become(t, "logout", [Idle EXCEPT !.stage = "logout", !.bearer = access[t],
                                        !.cookie = cookie])
    /\ access' = [access EXCEPT ![t] = NoToken]
    /\ user' = [user EXCEPT ![t] = NoUser]
    /\ UNCHANGED <<server, cookie, pending, flight, loading, atLogin, history, lost,
                   opens>>

(* LogoutView: the bearer is authenticated first, whatever the permission  *)
(* classes are, and a bad one ends the request with a 401.                 *)
LogoutHandled(t) ==
    LET r == task[t]["logout"]
        accepted == r.bearer = NoToken \/ Authentic(r.bearer)
    IN  /\ r.stage = "logout"
        /\ tokens' = IF accepted /\ r.cookie # NoToken
                     THEN [tokens EXCEPT ![r.cookie].state = IF @ = "good" THEN "revoked" ELSE @]
                     ELSE tokens
        /\ task' = [task EXCEPT ![t]["logout"].stage = "loggedOut",
                                ![t]["logout"].got = IF accepted THEN NoToken ELSE cookie]
        /\ UNCHANGED <<expired, password, revoking, late, cookie, access, pending, flight,
                       user, loading, atLogin, history, lost, opens>>

LogoutAnswer(t) ==
    LET r == task[t]["logout"] IN
        /\ r.stage = "loggedOut"
        /\ cookie' = IF r.got = NoToken THEN NoToken ELSE cookie
        /\ Become(t, "logout", Idle)
        /\ UNCHANGED <<server, access, pending, flight, user, loading, atLogin,
                       history, lost, opens>>

-----------------------------------------------------------------------------
(* Time, and the account changed from elsewhere *)

(* An access token reaches the end of its hour.  No request is under way   *)
(* that long, so the tokens in the headers of flying requests are not it.  *)
Expire(k) ==
    /\ tokens[k].state # "free" /\ k \notin expired
    /\ Cardinality(expired) < MaxExpiries
    /\ \A t \in Tabs, j \in Tasks : task[t][j].bearer # k /\ task[t][j].got # k
                                    /\ flight[t][j].got # k
    /\ expired' = expired \cup {k}
    /\ UNCHANGED <<tokens, password, revoking, late, cookie, access, pending, flight, task,
                   user, loading, atLogin, history, lost, opens>>

(* The new password is saved, and the tokens outstanding by then are       *)
(* blacklisted one after the other; the worker may die in between.         *)
ChangePassword(u) ==
    /\ password[u] < MaxPasswords
    /\ password' = [password EXCEPT ![u] = @ + 1]
    /\ revoking' = revoking \cup {k \in Ids : Good(k) /\ Owner(k) = u}
    /\ UNCHANGED <<tokens, expired, late, cookie, access, pending, flight, task, user,
                   loading, atLogin, history, lost, opens>>

Revoke(k) ==
    /\ k \in revoking
    /\ revoking' = revoking \ {k}
    /\ tokens' = [tokens EXCEPT ![k].state = IF @ = "good" THEN "revoked" ELSE @]
    /\ UNCHANGED <<expired, password, late, cookie, access, pending, flight, task, user,
                   loading, atLogin, history, lost, opens>>

RevokeCutShort ==
    /\ revoking # {}
    /\ lost < MaxLost
    /\ lost' = lost + 1
    /\ revoking' = {}
    /\ UNCHANGED <<tokens, expired, password, late, cookie, access, pending, flight, task,
                   user, loading, atLogin, history, opens>>

-----------------------------------------------------------------------------
(* Specification *)

Network(t) ==
    \/ \E k \in Tasks : RefreshCheck(t, k) \/ RefreshRotate(t, k) \/ RefreshAnswer(t, k)
    \/ \E k \in {"init", "login"} : MeAnswer(t, k)
    \/ \E c \in Calls : CallAnswer(t, c)
    \/ SignInHandled(t)
    \/ SignInAnswered(t)
    \/ LogoutHandled(t)
    \/ LogoutAnswer(t)

Visitor(t) ==
    \/ Open(t)
    \/ \E u \in Users : SignIn(t, u)
    \/ \E c \in Calls : Call(t, c)
    \/ Logout(t)

Elsewhere ==
    \/ \E k \in Ids : Expire(k) \/ Revoke(k)
    \/ \E u \in Users : ChangePassword(u)
    \/ RevokeCutShort

Next ==
    \/ \E t \in Tabs : Network(t) \/ Visitor(t) \/ Redirect(t)
                       \/ \E k \in Tasks : RefreshLost(t, k)
    \/ \E n \in Slots : LateCheck(n) \/ LateRotate(n)
    \/ Elsewhere

Spec == Init /\ [][Next]_vars

-----------------------------------------------------------------------------
(* Properties *)

(* Type invariant. *)
TypeOK ==
    /\ tokens \in [Ids -> Row]
    /\ expired \subseteq Ids
    /\ password \in [Users -> Nat]
    /\ revoking \subseteq Ids
    /\ late \in [Slots -> Flight]
    /\ cookie \in Token
    /\ access \in [Tabs -> Token]
    /\ pending \in [Tabs -> Tasks \cup {"none"}]
    /\ flight \in [Tabs -> [Tasks -> Flight]]
    /\ task \in [Tabs -> [Tasks -> Task]]
    /\ user \in [Tabs -> Users \cup {NoUser}]
    /\ loading \in [Tabs -> BOOLEAN]
    /\ atLogin \in [Tabs -> BOOLEAN]
    /\ lostFrom \subseteq Ids
    /\ since \in [Ids -> Nat]
    /\ lost \in Nat
    /\ opens \in Nat

(* "The frontend single-flights concurrent refreshes so rotation never     *)
(* invalidates the session": a refresh is never refused because its cookie *)
(* was rotated, unless the answer of that rotation was lost.               *)
RotationKeepsSession ==
    \A t \in Tabs, k \in Tasks :
        LET f == flight[t][k] IN
            f.stage = "refused" /\ f.cookie # NoToken /\ tokens[f.cookie].state = "rotated"
                => f.cookie \in lostFrom \/ ~ClaimHolds(f.cookie)

(* A password change ends every session: no token is honoured any more,    *)
(* nor any that rotation derives from it, however the change interleaves   *)
(* with refreshes and wherever the revocation stops.                       *)
PasswordChangeEndsSessions ==
    \A k \in Ids : tokens[k].state = "good" /\ ClaimHolds(k) => since[k] = password[Owner(k)]

(* A tab acts only on refreshes it awaits: every task that waits has its   *)
(* refresh under way, and it is the one the next 401 would join.           *)
WaitersHaveFlight ==
    \A t \in Tabs, k \in Tasks :
        task[t][k].stage = "wait" =>
            /\ task[t][k].on = pending[t]
            /\ flight[t][pending[t]].stage # "none"

(* "POST /api/auth/logout/ -> refresh blacklisted server-side, cookie      *)
(* cleared": once the view has answered, the token it was sent is dead.    *)
(* It is not if the access token had expired.                              *)
LogoutEndsSession ==
    \A t \in Tabs :
        LET r == task[t]["logout"] IN
            r.stage = "loggedOut" /\ r.cookie # NoToken => tokens[r.cookie].state # "good"

(* "useAuth context holds the session user": the user a quiet tab shows    *)
(* is the one its access token speaks for. It is not when a visitor        *)
(* signs in before the first load has ended.                               *)
ShownUserIsSessionUser ==
    \A t \in Tabs :
        /\ InApp(t) /\ access[t] # NoToken
        /\ \A k \in Tasks : task[t][k] = Idle
        => Owner(access[t]) = user[t]

(* In the only tab: the loader of a page that has been opened is shown, or *)
(* its call c waits for its own answer or for a refresh.                   *)
Unsettled(c) ==
    \E t \in Tabs : (opens > 0 /\ ~Ready(t)) \/ task[t][c].stage # "idle"

=============================================================================
