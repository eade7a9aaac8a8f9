# TLA+ specifications of the KYC user-management system

This directory holds TLA+ models of the backend (Django, PostgreSQL, gunicorn)
and of the single-page application (React, TypeScript) that calls it, the TLC runs
that check them on small instances, and proofs that TLAPS checks for every instance. `PROJECT.json` maps every definition to the lines it was
translated from and lists the runs, mutants, hazards, findings and theorems.

## The system and its hard behaviours

| Component | State | Operations | What is hard | What makes it correct |
|---|---|---|---|---|
| Application API (`views/applications.py`, `models/application.py`) | `KYCApplication` rows | create, PATCH, submit, upload / remove document, review | requests of several workers interleave between `get_object()`, the row lock and the commit; PATCH saves an instance loaded before the lock; roles change under way | a dossier under review or decided is frozen; a decision is final and by another person; only complete dossiers are reviewed |
| Document storage (`models/document.py`) | `Document` rows, files on disk | save, post_delete + on_commit | the file system is not transactional; rollback, kill, failed clean-up | every listed document has its file; every leaked file is explained by a fault; the cap holds |
| Audit trail (`models/audit.py`) | `AuditLog` rows | `log_action` | must agree with what was committed | the trail explains status and documents |
| Email OTP (`services/otp.py`) | `EmailOTP`, `EmailLog` rows, mails | issue, request, verify | cooldown and attempts under concurrent requests, mail after commit, late mails, TTL | see "Email OTP" below |
| User administration (`views/users.py`) | `User` rows | PATCH role/active, set password, create | locks the rows a snapshot found, saves a stale instance, recounts; two requests wait for each other | one active super admin is left; a request ends |
| Sessions (`views/auth.py`, `common/tokens.py`, SPA `client.ts`, `auth.ts`, `useAuth.tsx`) | outstanding and blacklisted tokens, cookie, memory token, the tab's tasks | login, refresh with rotation, replay, logout, boot, revocation | calls share one refresh, answers are lost, revocation is not atomic, tabs share a cookie | a rotation never ends its session; a changed password ends those of before |
| Registration, Google sign-in (`views/auth.py`) | users, social accounts | create or link | unique constraints and one retry | one account per identity |
| Throttles (`common/throttles.py`, `common/cache.py`) | counters and histories in the cache table | add, incr, get, set, cleanup | many workers, expiry between statements, failing statements | at most N per window, fail closed; nobody is refused without cause |
| Analytics (`views/analytics.py`, `AnalyticsPage.tsx`) | none; page state | queries, load | separate queries among writers | figures agree with each other; the page settles |
| Error contract (exception handler, nginx, `client.ts`, pages) | an answer on its way | raise, render, read, show | many causes share one shape; waits are rounded twice | the message is of its cause, the wait is the server's |
| Validation (`lib/validation.ts`, `serializers/`) | what is in a field | type, leave, send | the same rule in two languages | what the form takes the backend takes |
| SPA pages (`features/*/pages`) | page state, requests under way | load, act, move to another address | late, lost and overtaking answers; state that survives a change of address | what is shown and sent is of what was asked |
| SPA shell (`router.tsx`, `guards.tsx`, `components/layout`) | route, session, sidebar | navigate, redirect, sign out | roles and sessions that change under a page | no page but the role's, redirects end, the scroll lock is let go |
| SPA component library (`hooks/`, `components/ui`) | hook state, timers | load, poll, confirm, search, toast, announce | timers, superseded calls, stale indices | a step acts on what is current |
| Django admin (`admin.py`) | application rows | status edit | unlocked read, full save | not covered by the state machine |
| Health, logging, settings | none | read-only | — | — |

Components interact through the database (row locks, unique constraints,
commits), the document store, the mail server and, on the client, through one
cookie shared by the tabs. There is no message queue and no background worker:
all concurrency is between requests, and between requests and the client.

## Modules

| Module | What it is |
|---|---|
| `ApplicationLifecycle` | abstract specification: one atomic step per committed transaction (open, amend, submit, return, decide) |
| `Applications` | the requests of `KYCApplicationViewSet` as programs of gunicorn workers over tables, row locks and the document store |
| `MCApplications` | small instances of `Applications` |
| `ApplicationsProofs` | inductive invariant; theorems on types, statuses, audit trail, files and the document cap; and the proof that `Applications` implements `ApplicationLifecycle` |
| `OneTimeCode` | abstract specification: per account and purpose one code at a time, a bounded number of guesses, one acceptance |
| `EmailOTP` | `services/otp.py` and the views that call it, as programs of workers over users, codes, the e-mail log and a clock |
| `MCEmailOTP` | a small instance of `EmailOTP` |
| `EmailOTPProofs` | inductive invariant, every safety theorem, and the proof that `EmailOTP` implements `OneTimeCode` |
| `Sessions`, `MCSessions` | tokens, cookie and tabs: the client module, `useAuth` and the auth views together |
| `PaginatedList` | `usePaginatedList` |
| `UsersPage`, `MCUsersPage` | the users page over that list: filters, updates, creation, the password dialog |
| `UsersPageProofs` | the list and the page, for any accounts, filters and bounds |
| `SessionsProofs` | invariants of refreshes, of who knows a token and of what a token claims, for any number of tabs |
| `UserAdmin` | `UserManagementViewSet` as statements over row locks |
| `AdminOrders`, `MCUserAdmin` | what requests ask for in its instances, and those that show a finding |
| `UserAdminProofs` | who holds rows; an active super admin is left as long as nobody is promoted |
| `FixedWindow`, `ScopedRate` | the two kinds of throttle over the cache table |
| `Analytics` | the figures and the page that shows them |
| `ErrorContract` | a failure from the view, the throttle or the network to the text on the page |
| `Validation`, `FieldKinds`, `FieldValues` | the validators of both sides, and values around every limit |
| `AuthPages`, `RegisterWizard`, `ApplicationPage`, `ApplicationForm`, `ReviewPage` | the pages |
| `ApplicationPageProofs` | an applicant's application page: address, acknowledged changes and trail, for any number of requests |
| `Navigation` | routes, guards, rail, sidebar and scroll lock |
| `DateOfBirth` | the three selects of a date |
| `Polling`, `InfiniteScroll`, `Announcer`, `ConfirmDialog`, `Drawer`, `CommandMenu`, `SearchInput`, `Toasts` | the hooks and dialogs of the component library, one each |
| `Parts` | instances of all of these over shared variables, mounted one at a time; what the whole must show, say, send, do and limit |
| `MCParts` | the values and bounds of each part for TLC |
| `PartsInvariants`, `PartsProofs` | an inductive invariant of each part, and the theorems about `Parts`, for any values and bounds |

### Applications

A worker `w` serves one request at a time. `pc[w]` says where it stands:

| `pc` | Where the code stands | Steps from there |
|---|---|---|
| `idle` | no request | `Arrive`: authentication, permission classes, body validation |
| `arrived` | before `get_object()` / `perform_create()` | `Create`, `GetObject` |
| `read` | before `select_for_update()` | `TakeRow` (lock granted and every check passes), `RefuseRow` (a check fails, rollback) |
| `locked` | inside the transaction, checks passed | `CommitUpdate`, `CommitSubmit`, `CommitReview`, `CommitRemove`, `StoreFile` |
| `stored` | `document.save()` has written the file, not committed | `CommitUpload` |
| `hook` | removal committed, `on_commit` hook pending | `DropFile` |
| `cleanup` | upload rolled back, `except` branch of `documents()` | `DropFile` |

`Abort` (an exception in a transaction), `DropFails` (storage refuses a
removal) and `Crash` (the worker is killed; PostgreSQL rolls back) may strike
at each of these. `ChangeRole` is a super admin changing a role between any two
steps; the request keeps the role it was authenticated with, as the code does.

PostgreSQL runs READ COMMITTED without `ATOMIC_REQUESTS`, so a transaction's
writes appear at its commit and each statement reads what is committed then.
The checks after `select_for_update()` read only the locked row and the
documents of that application, which other requests change only under the same
lock: acquiring the lock, checking, and going on is one step. `get_object()` is a
separate, earlier step, and its instance (`snap`) is kept only for PATCH, whose
`serializer.save()` writes every column of it.

Abstractions: the form is a function from fields to values of which one field,
the ID's expiry date, matters (`Expired` is the set of dates before today; the
turn of a day while an application is open only adds to what `submit` already
tells apart at its own time); `reviewer` stands for the three columns a review
writes together; an id is fresh because it is a random UUID; refused requests
that change nothing are left out. Two `MAX_*` constants bound the runs only.

### Email OTP

Five requests: `register`, `resend` and `forgot` issue a code, `verify` and
`reset` check one. `pc[w]` again says where worker `w` stands:

| `pc` | Where the code stands | Steps from there |
|---|---|---|
| `idle` | no request | `Arrive`: the serializer's and the view's first lookup of the account |
| `insert` | `RegisterSerializer.create()` | `InsertUser`: the unique index admits one of two registrations |
| `issue` | before `select_for_update()` on the user | `TakeUser` (lock granted, no cooldown), `RefuseUser` |
| `issuing` | inside the transaction | `CommitIssue`: predecessors consumed, new row, lock freed |
| `mail` | committed, mail not sent | `SendMail`, `MailFails` |
| `mailed` | before `_purge_old()` | `Purge`, `SkipPurge` (nine times in ten) |
| `check` | before `latest_active()` in `verify_otp()` | `Lookup` |
| `found` | before the UPDATE that counts an attempt | `Claim`, which also compares the code |
| `matched` | before the UPDATE that consumes the code | `Consume` |
| `accepted` | `verify_otp()` has returned true | `SetVerified`, `SetPassword`, `WeakPassword` |

`Tick` advances the clock and `Crash` kills a worker between any two of these.

Issuing holds the user row from `TakeUser` to `CommitIssue`, so the cooldown it
checked is a fact about an earlier time that must still hold at the commit.
Checking takes no lock: `Lookup`, `Claim` and `Consume` are three autonomous
statements, the last two conditional UPDATEs, and everything may happen between
them: another guess, another acceptance, a new code, expiry, a purge.

Abstractions: a code is one of a few values and the keyed hash of it is equal
exactly when the code is; `sent`, `expires` and the attempt's `at` are read at
the step that commits; a purged row is kept in state `purged`, since its id is
never used again; a password is named by the reset code it was set with; `via`
remembers which of `issue_otp()` and `request_otp()` inserted a row; `guesses`
and `accepts` are history. Requests refused before they change anything are left
out. The revocation of sessions that follows a reset belongs to `Sessions`.

What the model shows of the code without contradicting it: expiry is not looked
at again when the code is consumed, so a request that looked the code up in
time may be accepted after expiry (`NoExpiredCode` is therefore about the time of
the lookup); a mail that failed leaves its code live and its cooldown running;
a new password refused by the validators has used up its code.

### Sessions

A tab is a copy of the client module: `access[t]` is its access token, `pending[t]`
its `refreshPromise`. A task (`init`, `login`, `logout`, or one of the slots in
`Calls`) is an async function; it stands at what it awaits, and everything up to
the next `await` is one step. A 401 sends the task to `refreshAccessToken()`,
which starts a refresh or joins the one under way. On the server, a refresh is two
steps, the check against the blacklist and the rotation, and
`revoke_user_sessions()` blacklists one token after the other and may be cut
short. Answers arrive in any order, or are lost; Set-Cookie takes effect with
the answer, for all tabs. Abstractions: tokens are numbers; their signature,
claims and JSON are what `tokens[k]` says.

A refused refresh leaves the cookie as it is: for a blacklisted token the parent's
`post()` raises before the view's `elif` is reached. Only the view's own test of the
password claim answers with a deleted cookie (`Verdict`: "refused", "dropped"). A
refresh whose connection fails, or whose page is reloaded, is given up; the server may
have handled it, may never get it, or may handle it at any later time (`late`,
`LateCheck`, `LateRotate`). A reload gives up its tab's reads in the same way; a
sign-in or sign-out under way is answered before the page is reloaded.

### The users page

`UsersPage` extends `PaginatedList`, so that every step of the page is checked with
the requests of its list. `Select` is the page's effect and the hook's effect
together: a new filter on page 3 sends two requests, one of which is stale when
it is sent. A row's update and the creation form do not wait for each other, the
password dialog waits for itself only, and its answer comes back to whatever the
dialog shows by then. Abstractions: rows are the answer they came from (whose
selection, which page, how old); a password is the account it was typed for.

### Pages, shell, hooks and the throttles

Each module has one variable per piece of React state, ref or column. A handler
with the render and the effects it triggers is one step, because React runs them
before the next event; an `await`, a timer and an SQL statement end a step. Texts,
form values and files are told apart only as far as a validator or a property
does. `Validation` says what a serializer answers to a value by itself: that an e-mail
or a phone number is taken (serializers/auth.py:134) is one of `RegisterWizard`'s
objections, and the length of the e-mail column (models/user.py:78) is kept by the
input's `maxLength` (RegisterPage.tsx:351). `Polling` takes a change of the caller's
fetcher for a new load beside the timer's (`ChangeFetcher`). `UserAdmin` models READ COMMITTED: a locking SELECT finds rows in the snapshot
of its statement, waits for each in key order and tests it again when it gets it.

These parts share no state with each other. `Parts` therefore mounts one at a
time: `part` says which, and the variables `v1`, `v2`, ... are those of its module,
in their order (`Alone`, `Mounted`). The constants name what several parts or the
runs set (`Apps`, `Forms`, `Faults`, ...); `Given` is a record with the others, one
field per part, so that `MCParts` gives values and the proofs take any that
`PartsAssumption` admits. The properties of `Parts` join, by what they are about,
those the modules state:

| Property of `Parts` | Of the part | Stated in its module |
|---|---|---|
| `ShownIsAsked` | applicant | `ShownIsOfAddress`, `AcknowledgedIsShown`, `TrailIsNewestAsked` |
| | reviewer | `ShownIsOfAddress`, `TrailIsOfAddress` |
| | shell | `PagesAreServed`, `LinksLead`, `ScrollLockedUnderSidebar` |
| | list | `ShownMatchesControls`, `LoadingIsNewestRequest` |
| | birth, search, toasts, announcer, polling | `ShownIsValue`, `SettledShowsValue`, `ClearedStaysClear`, `NoticeIsKept`, `LastStands`, `BusyIsLoad` |
| `WordsAreTrue` | auth | `NoticesAreTrue`, `ResendIsServed` |
| | wizard, editor, drawer | `ShownErrorsAreTrue`, `ErrorsAreTrue` |
| | input | `BlurSettlesNames`, `StrongIsAccepted` |
| | figures, failure | `PipelineCoversTotal`, `RateIsShare`, `MessageIsOfCause`, `WaitIsExact` |
| `SentIsValid` | wizard, editor, birth | `RegisteredIsValid`, `UpdateIsOfLoaded`, `ValueIsADate` |
| | input | `BackendNeverObjects`, `RegisteredMaySignIn` |
| | dialog, drawer | `YesIsTyped`, `OneAtATime` |
| `StepsAreMeant` | wizard, dialog, menu | `RefusalIsShown`, `AnswerIsForShown`, `KeysLandOnMatch`, `PickedIsOffered` |
| | search, scroll, polling | `HandedOverAfterPause`, `CallIsNewest`, `NewestIsShown`, `BackoffIsKept` |
| `LastSuperAdminStays`, `WindowLimit` | admin, window | the same |
| `LimitsHold` | window, rate, serial | `NewWindowAdmits`, `RefusedForOthers`, `RateKept` |
| `PartsSettle` | 13 parts that wait for something | `Unsettled` of each |

A conjunction is only as good as each of its parts. Definitions headed
"Regression:" stand before the definitions they would replace; besides the one
that `PROJECT.json` names for each property, there is at least one for every
conjunct above, and with it TLC finds the property violated when only that part
is mounted.

### Runs

| Run | Instance | Shows |
|---|---|---|
| `requests` | 1 application, 2 workers, owner and reviewer, 2 documents, cap 1, 6 requests, 1 fault | every safety property, and `LifecycleSpec` |
| `answers` | the same with 4 requests, no symmetry, `FairSpec` | every request is answered |
| `lost_return` | the same with 5 requests | finds `ReviewStands` violated |
| `sessions` | 1 tab, 2 calls at a time, 3 tokens, 1 password change, 1 expiry, 2 refreshes or answers lost or given up, 2 page loads | `RotationKeepsSession`, `PasswordChangeEndsSessions`, `WaitersHaveFlight` |
| `two_tabs` | 2 tabs, 1 call each, nothing lost | finds `RotationKeepsSession` violated |
| `users_page` | 2 search texts, 2 roles, 2 pages, 4 list requests, 1 change, 2 accounts, 2 writes | rows, acknowledged changes, and the dialog's account |
| `parts` | 22 parts, bounds below | `ShownIsAsked`, `WordsAreTrue`, `SentIsValid`, `StepsAreMeant`, `LastSuperAdminStays`, `WindowLimit`, `LimitsHold` |
| `parts_settle` | 14 parts, smaller, calls that get lost, `FairSpec` | `PartsSettle`, and `ShownIsAsked` under lost calls |
| `last_super_admin` | 5 requests, 1 super admin at first | finds `LastSuperAdminStays` violated |
| `password_stands` | a password reset and one PATCH | finds `PasswordStands` violated |
| `password_opens` | every value of `FieldValues` | finds `PasswordOpens` violated |
| `codes` | 1 account, 2 workers, 2 codes, 2 issuances, 4 requests, lifetime 2, cooldown 1, 2 attempts, clock to 3, 1 fault | every safety property of `EmailOTP`, and `OneTimeCodeSpec` |

Every request takes at most one row lock and touches one application, so one
application shows every conflict; two workers show every pairwise race; six
requests suffice for create, upload, submit, return, submit, decide with any of
them overtaken by another; cap 1 with two documents lets two uploads meet at
the cap. The fault can be an exception, a refused removal or a kill at any
step. `CHECK_DEADLOCK FALSE`: the bounded number of requests runs out.

In `requests`, `DossierFrozen` and `DecisionIsFinal` are the two action properties
that stale instances, lost locks or a missing re-check would break;
`DecisionAttributed` ties the audit trail, the row and the roles together;
`UnderReviewIsComplete` is the race of submit with the removal of the last
document; `DocumentCap` the race of two uploads; `DocumentHasFile` and
`FilesAccountedFor` are the two directions of the agreement of table and store,
the latter counting one leaked file per fault at most; `AuditExplainsStatus` and
`AuditAccountsForDocuments` let the trail be replayed.

For `codes`: every property is about one account and one purpose or about two
codes of it, so one account is enough, and its two purposes show that they do
not mix. Two issuances give a predecessor and a successor; two attempts let a
third guess exceed the limit and let two guesses match at once; the clock goes
past the lifetime, so codes expire and (`PurgeAfter = 0`) are purged while a worker
holds them. Attempts, codes and workers are not bounded so in the proofs.
`CHECK_DEADLOCK FALSE` for the same reason as above.

`OneLiveCode` and `CooldownKept` are what overlapping requests for a code would
break without the user row lock or the consumption of predecessors; `SingleUse`
and `GuessesBounded` are what overlapping answers would break if attempts or
consumption were read and written on the instance; `OnlyNewestAccepted` and
`NoExpiredCode` relate an acceptance to the lookup two statements before it;
`PasswordNeedsCode` follows the accepted code to the row it changes. Nothing
here must eventually happen (a code may never be answered), so `EmailOTP` states no
fairness and no liveness.

Fairness (`FairSpec`): a worker that can take a step by itself takes it
(gunicorn runs its workers), and a worker waiting for a row that is free again
and again gets it (PostgreSQL queues lock waiters), hence strong fairness of
`GetRow`. Nothing is assumed of clients, faults or role changes.

#### Bounds of the newer runs

`sessions`: two calls let one start the refresh and the other join it, or find it
done; three tokens allow a sign-in and two rotations; two losses and two page loads
let a refresh given up by a reload be handled before, between and after the two
halves of the new page's. One tab only, because the property fails for two
(`two_tabs`). Its constraint `Explored` keeps the bounds from multiplying: a second loss and a
password change are explored with one call at a time, the change with one loss and no
expiry, since it refuses the access tokens of before by itself. The proofs need no
such constraint. `users_page`: two accounts show a dialog
abandoned for another; four requests are two pages, a filter and its second,
stale request. Its constraint `Explored` keeps the two filters, and the dialog
and a long history of the list, from multiplying: one filter is used at a time,
and the dialog over a list that has not changed; the proofs need neither.

`parts`: two addresses, dossiers or applications of which one is left for the
other; three loads of a page (the address's, the next one's, the reload after an
action); three workers at a limit of two with windows of two ticks, and one
failing statement, for the throttles; `serial` is one worker at a time and no fault,
which `RateKept` needs. `input` goes through the values of `Everyday`: around every length, blank and
character class, without those no document promises anything of (combining
marks, passwords with blanks at their ends, dates a day off between browser and
server). Calls of a page do not get lost in `parts`; in `parts_settle` one does.

For `admin`, three requests over three accounts are two that demote each other and a
third that promotes, switches on or off, or resets a password; it takes five, with
two promotions between a snapshot and its locks, to break the property
(`last_super_admin`). How far it holds is proved (below). For `window`, three
requests are the two that fill the limit and one that must be denied, and the clock
crosses two boundaries.

Fairness of `parts_settle` is weak throughout: a request that is under way is
served or lost, an answer that has come is handled, the clock goes on and a
due timer goes off, a statement that can go on does, and PostgreSQL ends one of
two transactions that wait for each other. The browser's event loop and the
database do that; users, faults and the tab's visibility are under no
obligation, and an address that the user keeps changing need not settle.
`CHECK_DEADLOCK FALSE`: visits, requests and the clock are bounded, and a page
with nothing under way rests.

### Finding: a stale PATCH undoes a returned review

`perform_update` locks the row and checks that it is editable, then saves the
instance loaded before the lock. If the application was a draft when it was
loaded, and has been submitted and returned with `request_resubmission` before
the PATCH gets the row, both the check and the save succeed, and the row goes
back to `draft` with the reviewer, notes and dates of the review erased. The
form-level status check does not help: it looks at the same stale instance.
`lost_return` produces the trace. Final decisions are not affected
(`DecisionIsFinal` holds, and is proved), which is also why the abstract
lifecycle merges `draft` and `resubmission_requested` into one phase `open`.

### Finding: the last super admin

`perform_update` locks the active super admins its statement's snapshot shows.
While two demotions wait for the row of the only one, that one makes two others
super admins and is demoted by one of them. Both demotions then find the row they
waited for no longer a super admin, lock nothing in common, and each recounts with
the other's target still in place. `select_for_update()` on a predicate does not
lock rows that come to satisfy it later.

### Finding: a PATCH brings an old password back

The same view saves every column of the instance it loaded before any lock: a
change of role or switch that was loaded before `set_password` restores the old
hash, after "Password updated." has been answered.

### Finding: a password that does not open the account

`PasswordResetConfirmView` stores `new_password` as it is in the body. The login
serializer, like the registration's, trims what is typed. A password reset to one
with a blank at its end is stored and never matches.

### Finding: of two tabs, one is refused

Single flight is per tab. When two tabs refresh at once, both send the one cookie;
the first rotates it and the second is answered 401, although the session lives: the
rotation has invalidated it for that tab. README.md:209-211 promises otherwise. The
answer leaves the cookie alone, so the first tab and its new cookie are not touched.
The second tab clears its access token and the request that met the 401 fails; if it
was loading a page, `initializeAuth()` ends without a user and `Protected` leads to
/login. Its next refresh, or a reload, succeeds with the new cookie.

### What does not hold

Statements of the documents that the models contradict. The first ones are definitions of
the modules, for whoever wants the trace; no run checks them, because they
differ from the findings above in weight and not in kind.

| Document | Code | Definition |
|---|---|---|
| ARCHITECTURE.md:381, logout blacklists the refresh token | `LogoutView` keeps the default authentication: with an expired access token it answers 401 before it runs (views/auth.py:163), and `auth.ts:96-104` does not try again | `Sessions.LogoutEndsSession` |
| ARCHITECTURE.md:539, `useAuth` holds the session's user | the first load's `fetchMe()` may answer after a sign-in and set the old user (useAuth.tsx:26) | `Sessions.ShownUserIsSessionUser` |
| ARCHITECTURE.md:551, every field reports when it is left | phone and middle name have no blur handler (RegisterPage.tsx:356, 424) | `RegisterWizard.LeftFieldReports` |
| ARCHITECTURE.md:561, name inputs are capitalised on blur | the middle name is not | `Validation.NamesAreCapitalised` |
| ARCHITECTURE.md:559, pagination guards against answers out of order | the audit trail does not use the hook; back on page 1 nothing is loaded (ApplicationDetailPage.tsx:95) | `ApplicationPage.TrailMatchesPager` |
| README.md:255, the profile prefills the form | "New application" from the edit page keeps the edited fields (ApplicationFormPage.tsx:40) | `ApplicationForm.NewFormIsPrefilled` |
| ApplicationDetailPage.tsx:48, the effect that loads the application of the address | an action on A whose answer comes after moving to B calls the `load()` of A's render, which counts as the newest and shows A under B's address (ApplicationDetailPage.tsx:120); `ShownIsOfAddress` leaves this case out (`Strayed`) | `ApplicationPage.ShownIsOfAddress` without `Strayed` |
| ApplicationFormPage.tsx:59, the effect that reads the application to edit | after a change of address the old form stays open until the new application has come (`loadingExisting` is not set again), and a save pressed by then writes it over the new one (ApplicationFormPage.tsx:145) | `ApplicationForm.NoEarlySave` |
| the same effect, `setLoadingExisting(false)` at its end | moving to /applications/new while an application is read cancels the run that would end the loader, and it stays; `Unsettled` leaves this case out | — |
| usePolling.ts:5, live regions pause in a hidden tab | a timer armed before goes off (usePolling.ts:42) | `Polling.PausedWhileHidden` |
| ARCHITECTURE.md:464, the error envelope | `ValidationError` with a text is a bare list (views/users.py:81), which `errorMessage()` skips | `ErrorContract.EnvelopeKept` |
| ARCHITECTURE.md:468, network failures have a message | at the login page they read as a wrong password (LoginPage.tsx:83) | `ErrorContract.NetworkIsNamed` |
| README.md:318, the SPA shows the wait of a 429 | a list shows its fixed text (usePaginatedList.ts:31) | `ErrorContract.WaitIsShown` |
| ARCHITECTURE.md:568, the form never triggers a backend validation error | a name with a combining mark does (validation.ts:42, serializers/fields.py:13): `BackendNeverObjects` of every value | `Validation.BackendNeverObjects` |
| ARCHITECTURE.md:267, 644, scoped counters are atomic and fail closed | history is read and written back in two statements (throttles.py:126), a failed write is ignored (cache.py:106): `RateKept` of several workers, or with a fault | `ScopedRate.RateKept` |
| ARCHITECTURE.md:554, document delete asks first | it does not (ApplicationDetailPage.tsx:158) | — |
| Drawer.tsx:18, Escape dismisses | nothing listens for it (Drawer.tsx:32) | — |
| useInfiniteScroll.ts:4, the sentinel's arrival runs the callback | one rendered after the effect is never observed (useInfiniteScroll.ts:35) | — |
| useAnnouncer.ts:7, no event is silent | a page left within 30 ms takes its region along (useAnnouncer.ts:29) | — |
| README.md:285, a password reset does not revoke JWTs already issued | it revokes the refresh tokens (views/auth.py:409), which `PasswordChangeEndsSessions` shows | — |

### Proofs: Applications

All for arbitrary sets of users, applications, documents, workers and fields,
any cap and any bounds; the assumptions are the `ASSUME`s of `Applications`.

The inductive invariant `IInv` (`ApplicationsProofs`) is

- `TypeOK`;
- `StageInv`: the stage of a worker fits the operation it serves;
- `LockInv`: `lock[a] = w` exactly when `w`'s transaction is on `a`, which gives
  mutual exclusion;
- `CheckedInv`: what a request checked when it got the row is still true: the
  others cannot change a locked row or its documents;
- `CreateInv`: an application being created does not exist and no other worker
  creates it, so a creation cannot disturb a locked row;
- `SnapInv`: the stale instance of a PATCH is editable and has the row's owner.

The safety properties are not inductive without it: that `CommitReview` writes
only a submitted row is `CheckedInv`, not a guard of the step. From `IInv`,
lemma `Transactions` shows that every step leaves the tables alone or changes
them, at one application, as one of six transactions would if it ran alone. The
theorems about dossiers, decisions and audit trail follow from that lemma
without looking at workers again, and so does `Refinement`, whose mapping
forgets workers, locks and snapshots.

Files: `DocumentHasFile` adds to `IInv` who may hold a reference to a file
(`UploadInv`, `HookInv`, `DisjointInv`): one document, or one request about to
insert its row or to remove it. `FilesAccountedFor` counts the others. Every step
either leaves their set alone, shrinks it, or is a fault that adds at most one file;
the proof finds which, and needs that the set is finite in every reachable state.

Audit: `AuditAccountsForDocuments` compares cardinalities of index sets of a growing
trail, so its proof needs what an appended entry does to them (`Entries` grows by
the new index or stays), and that documents are added and removed one at a time
(`DocumentStep`, from `Transactions`).

The cap follows from the row lock: an upload that commits has counted under it
(`CheckedInv`). Only `RequestsAnswered` (liveness) is left to TLC.

### Proofs: Email OTP

For arbitrary sets of users, codes and workers, any lifetime, cooldown (not longer
than the lifetime), purge age, limit of attempts and bounds; the assumptions are the
`ASSUME`s of `EmailOTP`. `IInv` (`EmailOTPProofs`) is

- `TypeOK`;
- `RowInv`: a row's columns agree with each other and with its history; above
  all, `attempts` counts the guesses, and a live row was never accepted;
- `NewestInv`: only the newest code of an account and purpose is live, and if the
  newest one is consumed, it was accepted: single use and replacement are one fact;
- `WorkerInv`: the code a worker holds is of the account and purpose it asked for
  and was alive when it looked, which the later UPDATEs do not check again;
- `AcceptedInv`: an accepted code serves one worker, and no password yet;
- `LockInv`: the transaction that issues a code has its user row;
- `RestedInv`: hence the cooldown it checked is still over, although workers
  that check codes change the rows without that lock;
- `CooldownKept` itself.

Five steps write rows (issue, claim, consume, purge, none), which lemma `RowSteps`
separates from the rest; each part is shown to survive them and, by
`OthersUntouched`, the steps of other workers. That the cooldown is no longer than
the lifetime is needed by `RestedInv`: `request_otp()` looks at live codes only,
so a longer cooldown would end with the code. `Refinement` maps an account and
purpose to its live code and that code's attempts (`MapFacts`: there is at most
one), and forgets workers, locks, mails and the clock.

Every property of `codes` is proved.

### Proofs: the users page

For any accounts, texts, roles, slots and bounds, from the `ASSUME`s of
`PaginatedList` and `UsersPage`. `HookInv` says of the list: requests beyond
`requestId` were not sent, those before it may be in any state but only the
newest counts; while it is under way the list is loading; and it asks for the
selection and page of the controls. The last is why `ShownMatchesControls` is
inductive: every step that changes a control sends a request. `PageInv` adds
`SearchInv`, that a search that differs from the text in the field has its timer
running, and `DialogInv`: what was typed was typed for the account in the dialog,
a reset under way carries its own target, and once accepted that target is the
account changed. Lemmas show separately that the list's own steps, the page's
steps and the dialog's each keep their part.

Proved: `UTypeOK`, `ShownMatchesControls`, `RowsMatchFilters`,
`RowsContainAcknowledged`, `PasswordGoesToItsAccount`, `ReportNamesAccount`, and
for the list alone `LoadingIsNewestRequest`. `RowsContainAcknowledged` needs
`FreshInv` on top of `PageInv`: no write, acknowledged or not, is newer than the
server's data, and an answer to the newest request is no older than the newest
acknowledged write. It is inductive because an acknowledgement, the one step that
raises `acked`, starts a newer request, so that no answer cut out before it counts.

### Proofs: the parts

All for any values and bounds, from `PartsAssumption`, which joins the modules' own
assumptions. Because a behaviour is of the part that is mounted (`OwnStep`), the
inductive invariant `Inv` of `Parts` says of each part what that part keeps true of
itself, and `InvInit` and `InvNext` follow from one lemma per part for the initial
states (`...Init`) and one for the steps (`...Step`). The theorems read their property
off `Inv`. None of the properties is inductive as it stands; what each
part's invariant adds is the reason the code is right:

| Part | What its invariant adds |
|---|---|
| auth | a page has one call of its own under way and is busy meanwhile; the age of the code it announced and the countdown that is left make up the cooldown |
| wizard | an error the validator left at a field of this step or a later one is of what is in it, but for a confirmation whose password is being typed |
| editor | what is being read for the address is its application; the form that is shown, every call and every save at an application are of it, unless the user was warned or the save was pressed before the application of a changed address had come |
| reviewer, list | requests that were not sent yet, the newest one, and that it asks for what is on screen |
| applicant | the invariant of `ApplicationPageProofs`, by instantiation |
| shell | who has locked the page's scroll, and what it was before |
| birth | the day is within its month |
| input | what has been sent is what the browser's validator accepted, trimmed as it was checked |
| figures | those counted by status existed when the total was taken, and each is counted once |
| failure | what a counter promises at most, and that a refusal on its way is of a counter that still says so |
| dialog | one question is waiting, the one shown; what is typed was typed for it |
| drawer, menu, search, toasts, announcer, polling | one submission under way while busy; a highlight that is a number; one timer, of the text in the field; a stack in the order of its ids; a message for each timer, the last for the last; the pause that is left and the one gone by make up the back-off |
| window | see "the throttle" |
| rate | each time in a list is that of a request of its own that was let in, and lists fall from newest to oldest, whichever write came last |
| serial | whoever was let in within the last duration has a place of his own in the list, and the row outlives him |
| admin | the rows held, from `UserAdminProofs` |

`StepsMeant` is an action property: `Inv` and a step give it, part by part.
`WordsTrue` and `SentValid` have one hypothesis, `Input!EverydayInputs`, for the fields
by themselves: the texts, files and dates are those that the documents
promise anything of (`IsEveryday`, of any length: trimmed, without combining marks in
names, dates the same day in browser and server or a day earlier). It is needed:
outside it `BackendNeverObjects` is false (see "What does not hold"). That the values
of the runs satisfy it is `EverydayIsEveryday`, an ASSUME that TLC evaluates.
`SuperAdminStays` has `OnlyDemotions`, see "user administration".

The types (`TypesCorrect`) are part of most of these invariants; `Typed` has those of
the others. Some need an invariant of their own, because the bound in the type is not
the bound in a guard: a page of `auth` can open beyond `Visits` by the answer of a call,
so their number is at most `Visits` and the calls that are done (`AuthMore`, by
cardinality); a message of `announcer` names a page mounted so far; the form of `wizard`
holds texts of its fields or the name that Google gave.

Dates (`MonthLength`): the days of a month by the rule of leap years, which
`DateOfBirth` uses, are the distance of two firsts in a count of days that knows the
calendar in another way (`DayNumber`), for any year between 1900 and 2200, by arithmetic
on quotients.

The limits (`LimitsAreHeld`): for `rate`, a refusal reads a full list of times no older
than one duration; since they are of different requests, as many were let in. That
argument needs no atomicity, which is why `RefusedForOthers` holds for any
interleaving and any fault. The converse, `RateKept`, needs that every request let in
is in the list, which the read and the write of one request at a time give and two at a
time do not.

What the attempts showed of the model and its properties:

- `ResendIsServed` is false for a page that has been left: its late request can have a
  code sent, so that the countdown of the next page starts later than the server's.
  The property now leaves out such a request (`Overtaken`); no run had reached
  it, because it takes three calls.
- The framework's throttle pops times off the end of its list until one is young. The
  model filtered the list, which is the same only for a list in its order; it pops now.
- The menu's matches were built with a filter on sequences, of which nothing can be
  proved here; they are now the places of the options that match, in their order.

### Proofs: sessions

For any number of tabs, calls, tokens, users and bounds, from the `ASSUME`s of
`Sessions`. `SessionInv` (`SessionsProofs`) is

- `TypeOK`;
- `FlightInv`: in every tab, a refresh under way is the one `refreshPromise` holds,
  so that there is one at most, and whoever waits, waits for it;
- `HolderInv`: cookies, refreshes and tasks hold tokens that were issued. Without
  it a rotation could write over the row of a token in use, and types would be all
  that is left; `LateInv` says the same of the refreshes that were given up and are
  still to be handled;
- `ClaimInv`: a token carries the password its user had at the sign-in it stems
  from. Rotation copies the claim and not the current password, which is what makes
  `PasswordChangeEndsSessions` inductive: wherever `revoke_user_sessions()` is cut
  short, the claim of a token that is left no longer matches.

`WaitersHaveFlight` and `PasswordChangeEndsSessions` follow. `RotationKeepsSession`
is proved under `OneTab`, with `FreshInv`: the cookie in the jar was
rotated only if the answer that replaces it is on its way, was lost or was given up; the
token a refresh has sent was rotated only if such an answer was lost or given up; and a token that a sign-in minted is nobody else's until its answer has
come. `OneTab` is not a convenience: the property is false for two tabs, which is the
finding of `two_tabs`, and the step of the proof that fails is a second tab's refresh
that sends the same cookie.

### Proofs: the throttle

For any limit, width of window, workers and number of faults, in `PartsInvariants`
("A fixed window"); `WindowAssumption` says that they are numbers, the limit and the
width not zero. `WindowLimit` by itself is not inductive. `WindowRowInv` says of the current
window and those to come that a row is there only for the current one and outlives
it, so that no clean-up deletes it, and that its counter is at least the number of
requests let through. `WindowBucketInv` ties a request to the window of its arrival: the
key is built once, and a request that is served late counts where it arrived. For a
window gone by nothing counts any more, which is why the property counts those that
are let through in time. `WindowStartInv` (a counter other than zero has admitted somebody,
while nothing failed) gives `NewWindowAdmits`.

### Proofs: user administration

For any accounts, requests, orders and number of aborts, from
`UserAdminAssumption`. `RowsAreHeldByPending` holds whatever is asked for.
`DemotionsLeaveOne` has one more hypothesis, `OnlyDemotions`: every PATCH takes a
role away or switches an account off. Then super admins only get fewer, so that every
account that is one now was one in every earlier snapshot, and the row lock does
what it is meant to: `CoverInv` says that a request past its locks holds the row of
every super admin there is, its own target included, and one about to commit knows
another that is left. A promotion between the snapshot and the locks makes
`CoverInv` false, and `last_super_admin` shows that the property goes with it: the
hypothesis marks exactly how far the code's protection reaches.

The first attempt at this proof showed a slip of the model, since mended: the set of
possible first super admins was parenthesised so that it admitted none.

### Proofs: the application page

For any applications, versions and bounds (`Assumptions`, those of `ApplicationPage`).
`LoadInv` says that the newest `load()` was sent from the address on screen, that
requests beyond it were not sent, and that an answer is of the application asked for;
`VersionInv` that nobody is told of a version the server does not have, and that the
answer to the newest `load()` has every version anybody was told of, because an
acknowledgement starts a newer one. `TrailInv` is the same for the audit trail.
With the three properties themselves they are inductive: `AddressIsShown`,
`AcknowledgedChangesAreShown`, `NewestTrailIsShown`.
`PartsProofs` takes them over for the part `applicant` of `Parts`.

### Not proved

- Liveness (`RequestsAnswered`, `PartsSettle`) and whatever needs ENABLED: TLC only.
- `BackendNeverObjects` beyond everyday inputs: it is false there.
- The statements of "What does not hold", which no run checks.

## Plan

Done: every module of the inventory, and a proof of every safety property the
runs check.

Left: a model of account linking with the unique indexes it rests on;
`Applications` composed with the Django admin; liveness of more than small
instances, when a prover for ENABLED is at hand.

## Not modelled

- Django admin: it saves the row as its form showed it; a model would show that
  save, and no document promises more of it.
- Google sign-in's linking of accounts and the retry of public IDs: both are
  decided by unique indexes and by what Google asserts.
- File contents and downloads, mail texts, logging, health checks, settings.
- Rendering: layout, icons, skeletons, cards, the strength meter's colours.
- A reload while a sign-in or sign-out is under way, and storage shared by tabs
  other than the cookie.
- No page uses `useConfirmDialog`, `DrawerForm`, `CommandMenu`, `SearchInput`,
  `useToast`, `usePolling`, `useInfiniteScroll` or `useAnnouncer` yet: these are
  modelled as libraries, over everything a caller may do.
