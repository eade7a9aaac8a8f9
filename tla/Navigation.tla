------------------------------- MODULE Navigation -------------------------------
(***************************************************************************)
(* app/router.tsx, app/guards.tsx, components/layout (Layout, AppShell)    *)
(* and useBodyScrollLock: which page an address shows to whom, the         *)
(* redirects, the rail and the sidebar of small screens.                   *)
(*                                                                         *)
(* The session comes from useAuth: it boots, and the user signs in and     *)
(* out.  A <Navigate> takes effect after the render that shows it.         *)
(***************************************************************************)
EXTENDS Naturals

CONSTANTS
    NoUser,
    MaxVisits       \* bound: addresses the user goes to

BoundAssumption == MaxVisits \in Nat

VARIABLES
    user,           \* the role of the session's user, or NoUser
    loading,        \* of useAuth
    path,
    sidebarOpen,
    overflow,       \* document.body.style.overflow
    previous,       \* what the lock will restore
    visits          \* bound

session == <<user, loading>>
scroll == <<overflow, previous>>
vars == <<session, path, sidebarOpen, scroll, visits>>

-----------------------------------------------------------------------------
(* The route table *)

Roles == {"applicant", "admin", "super_admin", "ceo"}
Reviewers == {"admin", "super_admin"}

Public == {"/login", "/register", "/verify-email", "/forgot-password", "/terms"}
Guarded == {"/", "/applications/new", "/applications/:id/edit", "/applications/:id",
            "/review", "/review/:id", "/users", "/analytics"}
Paths == Public \cup Guarded \cup {"*"}

\* Regression: the pages by id are left out of the guards.
RoleOnlyLists(p) ==
    CASE p = "/applications/new" -> {"applicant"}
      [] p = "/review" -> Reviewers
      [] p = "/users" -> {"super_admin"}
      [] p = "/analytics" -> {"ceo"}
      [] OTHER -> Roles

(* RoleOnly's roles, for the paths it wraps. *)
RoleOnly(p) ==
    CASE p \in {"/applications/new", "/applications/:id/edit"} -> {"applicant"}
      [] p \in {"/review", "/review/:id"} -> Reviewers
      [] p = "/users" -> {"super_admin"}
      [] p = "/analytics" -> {"ceo"}
      [] OTHER -> Roles

\* Regression: everyone on the staff works out of the review queue.
HomeOfStaff(u) == IF u = "applicant" THEN "/" ELSE "/review"

\* Regression: home is named after the API's list.
HomeOfApi(u) == IF u \in Reviewers THEN "/review-queue" ELSE "/"

(* HomeRoute *)
HomeRoute(u) ==
    CASE u = "ceo" -> "/analytics"
      [] u \in Reviewers -> "/review"
      [] OTHER -> "/"

(* Where the <Navigate> of a path leads; the path itself if there is none. *)
Redirect(p, u) ==
    IF p \in Guarded /\ u = NoUser THEN "/login"
    ELSE CASE p = "*" -> "/"
           [] p = "/" -> HomeRoute(u)
           [] p \in Guarded \ {"/"} /\ u \notin RoleOnly(p) -> "/"
           [] OTHER -> p

(* Protected's PageLoader. *)
Waiting(p, l) == p \in Guarded /\ l
Redirecting == ~Waiting(path, loading) /\ Redirect(path, user) # path
PageShown == ~Waiting(path, loading) /\ ~Redirecting

(* Layout, and AppShell in it, are mounted around every guarded page. *)
Shell(p, u, l) == p \in Guarded /\ ~l /\ u # NoUser

\* Regression: all of administration is one condition.
RailOfStaff(u) ==
    {"/"} \cup (IF u = "applicant" THEN {"/applications/new"} ELSE {})
          \cup (IF u \in Reviewers THEN {"/review", "/users"} ELSE {})
          \cup (IF u = "ceo" THEN {"/analytics"} ELSE {})

(* The links of the rail. *)
Rail(u) ==
    {"/"} \cup (IF u = "applicant" THEN {"/applications/new"} ELSE {})
          \cup (IF u \in Reviewers THEN {"/review"} ELSE {})
          \cup (IF u = "super_admin" THEN {"/users"} ELSE {})
          \cup (IF u = "ceo" THEN {"/analytics"} ELSE {})

(* What the pages link to besides: an applicant's dashboard, a queue. *)
PageLinks(p) ==
    CASE p = "/" -> {"/applications/new", "/applications/:id"}
      [] p = "/applications/:id" -> {"/", "/applications/:id/edit"}
      [] p = "/review" -> {"/review/:id"}
      [] p = "/review/:id" -> {"/review"}
      [] OTHER -> {}

-----------------------------------------------------------------------------
(* Steps *)

Init ==
    /\ user = NoUser
    /\ loading = TRUE
    /\ path \in Paths
    /\ sidebarOpen = FALSE
    /\ overflow = "auto" /\ previous = "auto"
    /\ visits = 0

\* Regression: the lock is not lifted when the shell is unmounted.
LockKept(was, is) ==
    CASE ~was /\ is -> previous' = overflow /\ overflow' = "hidden"
      [] was /\ ~is /\ Shell(path', user', loading') -> overflow' = previous /\ UNCHANGED previous
      [] OTHER -> UNCHANGED scroll

(* useBodyScrollLock(): the effect, and its clean-up. *)
Lock(was, is) ==
    CASE ~was /\ is -> previous' = overflow /\ overflow' = "hidden"
      [] was /\ ~is -> overflow' = previous /\ UNCHANGED previous
      [] OTHER -> UNCHANGED scroll

(* What a new session or address does to AppShell: unmounted, it forgets   *)
(* the sidebar; mounted, its effect on the address closes it.              *)
Render ==
    /\ sidebarOpen' = (sidebarOpen /\ path' = path /\ Shell(path', user', loading'))
    /\ Lock(sidebarOpen, sidebarOpen')

(* useAuth's boot is over. *)
Boot ==
    /\ loading
    /\ loading' = FALSE
    /\ user' \in Roles \cup {NoUser}
    /\ UNCHANGED <<path, visits>>
    /\ Render

(* login() or loginWithGoogle(), and the page's navigate("/"). *)
SignIn ==
    /\ path \in {"/login", "/register"}
    /\ visits < MaxVisits /\ visits' = visits + 1
    /\ user' \in Roles
    /\ path' = "/"
    /\ UNCHANGED loading
    /\ Render

(* handleLogout() *)
LogOut ==
    /\ Shell(path, user, loading)
    /\ visits < MaxVisits /\ visits' = visits + 1
    /\ user' = NoUser
    /\ path' = "/login"
    /\ UNCHANGED loading
    /\ Render

(* A link, back and forward. *)
Go(p) ==
    /\ visits < MaxVisits /\ visits' = visits + 1
    /\ path' = p
    /\ UNCHANGED session
    /\ Render

(* <Navigate replace> *)
FollowRedirect ==
    /\ Redirecting
    /\ path' = Redirect(path, user)
    /\ UNCHANGED <<session, visits>>
    /\ Render

OpenSidebar ==
    /\ Shell(path, user, loading) /\ ~sidebarOpen
    /\ sidebarOpen' = TRUE
    /\ Lock(FALSE, TRUE)
    /\ UNCHANGED <<session, path, visits>>

(* The backdrop and the cross. *)
CloseSidebar ==
    /\ sidebarOpen
    /\ sidebarOpen' = FALSE
    /\ Lock(TRUE, FALSE)
    /\ UNCHANGED <<session, path, visits>>

Next ==
    \/ Boot \/ SignIn \/ LogOut \/ FollowRedirect \/ OpenSidebar \/ CloseSidebar
    \/ \E p \in Paths : Go(p)

Spec == Init /\ [][Next]_vars

-----------------------------------------------------------------------------
(* The API behind the pages, by its permission classes. *)

Serves(p, u) ==
    CASE p \in {"/review", "/review/:id"} -> u \in Reviewers
      [] p = "/users" -> u = "super_admin"
      [] p = "/analytics" -> u = "ceo"
      [] p \in {"/applications/new", "/applications/:id/edit"} -> u \notin Reviewers
      [] OTHER -> TRUE

-----------------------------------------------------------------------------
(* Properties *)

(* Type invariant. *)
TypeOK ==
    /\ user \in Roles \cup {NoUser} /\ loading \in BOOLEAN
    /\ path \in Paths
    /\ sidebarOpen \in BOOLEAN
    /\ {overflow, previous} \subseteq {"auto", "hidden"}
    /\ visits \in 0..MaxVisits

(* A guarded page is shown only to a user whom the API behind it serves,   *)
(* so that no page is opened to an error.                                  *)
PagesAreServed == PageShown /\ path \in Guarded => user # NoUser /\ Serves(path, user)

(* Every link that a page or the rail offers leads where it says, or home: *)
(* it is not taken back.  The exception is "Edit details" for an applicant *)
(* who has become a reviewer.                                              *)
LinksLead ==
    PageShown /\ path \in Guarded =>
        \A p \in Rail(user) \cup PageLinks(path) :
            \/ p = "/"
            \/ Redirect(p, user) = p
            \/ p = "/applications/:id/edit" /\ user # "applicant"

(* The page scrolls again whatever closes the sidebar: its cross, a link,  *)
(* or the end of the session in it.                                        *)
ScrollLockedUnderSidebar ==
    (overflow = "hidden") <=> (sidebarOpen /\ Shell(path, user, loading))

(* The loader or a redirect is shown: redirects do not chase each other. *)
Unsettled == ~PageShown

=============================================================================
