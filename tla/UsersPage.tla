------------------------------- MODULE UsersPage -------------------------------
(***************************************************************************)
(* features/users/pages/UsersPage.tsx over usePaginatedList: the search    *)
(* field and its debounce, the role filter, updates from the rows, the     *)
(* creation form and the password dialog.                                  *)
(*                                                                         *)
(* A row's update and the creation form are not disabled while a request   *)
(* of theirs is under way, so several can be; the dialog's button is.      *)
(***************************************************************************)
EXTENDS PaginatedList, FiniteSets

CONSTANTS
    Texts,          \* what can stand in the search field
    Roles,          \* values of the role filter
    Accounts,       \* users in the rows
    NoAccount,
    Writes,         \* slots for updates and creations under way
    MaxWrites       \* bound: updates, creations and password resets

ASSUME FilterAssumption == Selections = [search : Texts, role : Roles]
ASSUME AccountAssumption == NoAccount \notin Accounts
ASSUME WriteBoundAssumption == MaxWrites \in Nat

VARIABLES
    searchInput,
    timer,          \* the debounce timer is running
    message,        \* what was done, and to whom
    formError,
    form,           \* the creation form: blank, with problems, or valid
    write,          \* write[w]: the update or creation in slot w
    resetTarget,
    typed,          \* the account the password in the dialog was typed for
    resetError,
    resetting,
    reset,          \* the setUserPassword() call under way
    acked,          \* history: data version of the newest acknowledged write
    changed,        \* history: the account whose password was changed last
    writes          \* bound

pageState == <<searchInput, timer, message, formError, form, write>>
dialog == <<resetTarget, typed, resetError, resetting, reset, changed>>
list == <<pages, selection, shown, pageNum, loading, error, requestId, requests, failures>>
allVars == <<vars, pageState, dialog, acked, writes>>

-----------------------------------------------------------------------------
(* Data *)

Maybe == Accounts \cup {NoAccount}

Message == [about : {"nothing", "created", "updated", "password"}, who : Maybe]
Say(about, who) == [about |-> about, who |-> who]

Write == [state : {"none", "sent", "accepted", "refused"},
          kind : {"update", "create"}, version : Nat]
NoWrite == [state |-> "none", kind |-> "update", version |-> 0]

Reset == [state : {"none", "sent", "accepted", "refused"}, target : Maybe, typed : Maybe]
NoReset == [state |-> "none", target |-> NoAccount, typed |-> NoAccount]

UInit ==
    /\ Init
    /\ selection.search = "" /\ selection.role = ""
    /\ searchInput = ""
    /\ timer = TRUE
    /\ message = Say("nothing", NoAccount)
    /\ formError = FALSE
    /\ form = "blank"
    /\ write = [w \in Writes |-> NoWrite]
    /\ resetTarget = NoAccount
    /\ typed = NoAccount
    /\ resetError = FALSE
    /\ resetting = FALSE
    /\ reset = NoReset
    /\ acked = 0
    /\ changed = NoAccount
    /\ writes = 0

-----------------------------------------------------------------------------
(* Filters *)

\* Regression: pages are counted from 0 when a filter goes back to the first.
SelectFromZero(s) ==
    /\ s # selection
    /\ selection' = s
    /\ pageNum' = 0
    /\ Load(s, 0)

(* A new fetcher: the hook's effect loads the page of before with it, then *)
(* the page's effect goes to page 1, which loads again.                    *)
Select(s) ==
    /\ s # selection
    /\ selection' = s
    /\ pageNum' = 1
    /\ IF pageNum = 1
       THEN Load(s, 1)
       ELSE /\ requestId + 1 < MaxRequests
            /\ requestId' = requestId + 2
            /\ requests' = [requests EXCEPT ![requestId + 1] = Sent(s, pageNum),
                                            ![requestId + 2] = Sent(s, 1)]
            /\ error' = FALSE
            /\ loading' = TRUE

\* Regression: the debounce effect does not depend on the text.
TypeUntimed(x) ==
    /\ x # searchInput
    /\ searchInput' = x
    /\ UNCHANGED <<vars, timer, message, formError, form, write, dialog, acked, writes>>

Type(x) ==
    /\ x # searchInput
    /\ searchInput' = x
    /\ timer' = TRUE
    /\ UNCHANGED <<vars, message, formError, form, write, dialog, acked, writes>>

(* 300 ms without a keystroke: setSearch(searchInput). *)
Debounced ==
    /\ timer
    /\ timer' = FALSE
    /\ LET s == [selection EXCEPT !.search = searchInput] IN
           IF s = selection
           THEN UNCHANGED <<selection, pageNum, loading, error, requestId, requests>>
           ELSE Select(s)
    /\ UNCHANGED <<server, shown, failures, searchInput, message, formError, form,
                   write, dialog, acked, writes>>

FilterRole(r) ==
    /\ Select([selection EXCEPT !.role = r])
    /\ UNCHANGED <<server, shown, failures, pageState, dialog, acked, writes>>

-----------------------------------------------------------------------------
(* Updates and creations *)

Send(w, kind) ==
    /\ write[w].state = "none"
    /\ writes < MaxWrites
    /\ writes' = writes + 1
    /\ write' = [write EXCEPT ![w] = [NoWrite EXCEPT !.state = "sent", !.kind = kind]]

(* A row's role select or its activation button. *)
Update(w) ==
    /\ shown # Empty
    /\ Send(w, "update")
    /\ UNCHANGED <<vars, searchInput, timer, message, formError, form, dialog, acked>>

Fill(f) ==
    /\ f # form
    /\ form' = f
    /\ UNCHANGED <<vars, searchInput, timer, message, formError, write, dialog, acked,
                   writes>>

(* submit(): only a form without problems is sent. *)
Create(w) ==
    /\ form = "valid"
    /\ Send(w, "create")
    /\ formError' = FALSE
    /\ UNCHANGED <<vars, searchInput, timer, message, form, dialog, acked>>

(* The users view commits it or refuses it. *)
ServeWrite(w) ==
    /\ write[w].state = "sent"
    /\ \/ /\ version < MaxChanges
          /\ version' = version + 1
          /\ write' = [write EXCEPT ![w].state = "accepted", ![w].version = version + 1]
       \/ write' = [write EXCEPT ![w].state = "refused"] /\ UNCHANGED version
    /\ UNCHANGED <<list, searchInput, timer, message, formError, form, dialog, acked,
                   writes>>

\* Regression: the list is not fetched again.
RefreshNever == UNCHANGED <<requestId, requests, error, loading>>

(* setRefresh(): a new fetcher for the same selection and page. *)
Refresh == Load(selection, pageNum)

WriteDone(w) ==
    /\ write[w].state \in {"accepted", "refused"}
    /\ write' = [write EXCEPT ![w] = NoWrite]
    /\ IF write[w].state = "accepted"
       THEN /\ message' = Say(IF write[w].kind = "create" THEN "created" ELSE "updated", NoAccount)
            /\ formError' = IF write[w].kind = "update" THEN FALSE ELSE formError
            /\ form' = IF write[w].kind = "create" THEN "blank" ELSE form
            /\ acked' = IF write[w].version > acked THEN write[w].version ELSE acked
            /\ Refresh
       ELSE /\ formError' = TRUE
            /\ UNCHANGED <<message, form, acked, requestId, requests, error, loading>>
    /\ UNCHANGED <<server, selection, shown, pageNum, failures, searchInput, timer,
                   dialog, writes>>

-----------------------------------------------------------------------------
(* The password dialog *)

\* Regression: what was typed before is left in the dialog.
OpenResetAsItIs(a) ==
    /\ resetTarget = NoAccount
    /\ resetTarget' = a
    /\ UNCHANGED <<typed, resetError, resetting, reset, changed>>
    /\ UNCHANGED <<vars, pageState, acked, writes>>

(* openReset(): the dialog covers the rows, so it is closed. *)
OpenReset(a) ==
    /\ resetTarget = NoAccount
    /\ resetTarget' = a
    /\ typed' = NoAccount
    /\ resetError' = FALSE
    /\ UNCHANGED <<resetting, reset, changed>>
    /\ UNCHANGED <<vars, pageState, acked, writes>>

TypePassword ==
    /\ resetTarget # NoAccount
    /\ typed' = resetTarget
    /\ UNCHANGED <<vars, pageState, resetTarget, resetError, resetting, reset, changed,
                   acked, writes>>

(* Cancel, Escape or the backdrop. *)
CloseReset ==
    /\ resetTarget # NoAccount
    /\ resetTarget' = NoAccount
    /\ UNCHANGED <<vars, pageState, typed, resetError, resetting, reset, changed, acked,
                   writes>>

(* confirmReset(): the target and the password of this moment are sent. *)
ConfirmReset ==
    /\ resetTarget # NoAccount /\ ~resetting
    /\ IF typed = NoAccount
       THEN resetError' = TRUE /\ UNCHANGED <<resetting, reset, writes>>
       ELSE /\ writes < MaxWrites
            /\ writes' = writes + 1
            /\ resetError' = FALSE
            /\ resetting' = TRUE
            /\ reset' = [state |-> "sent", target |-> resetTarget, typed |-> typed]
    /\ UNCHANGED <<vars, pageState, resetTarget, typed, changed, acked>>

ServeReset ==
    /\ reset.state = "sent"
    /\ \/ /\ reset' = [reset EXCEPT !.state = "accepted"]
          /\ changed' = reset.target
       \/ reset' = [reset EXCEPT !.state = "refused"] /\ UNCHANGED changed
    /\ UNCHANGED <<vars, pageState, resetTarget, typed, resetError, resetting, acked, writes>>

\* Regression: the answer is reported for the account the dialog shows now.
ResetReportNow == Say("password", resetTarget)

(* The closure of the call still has the account it was made for. *)
ResetReport == Say("password", reset.target)

(* Success closes the dialog, whichever account it shows by then. *)
ResetDone ==
    /\ reset.state \in {"accepted", "refused"}
    /\ reset' = NoReset
    /\ resetting' = FALSE
    /\ IF reset.state = "accepted"
       THEN /\ message' = ResetReport
            /\ formError' = FALSE
            /\ resetTarget' = NoAccount
            /\ UNCHANGED resetError
       ELSE resetError' = TRUE /\ UNCHANGED <<message, formError, resetTarget>>
    /\ UNCHANGED <<vars, searchInput, timer, form, write, typed, changed, acked, writes>>

-----------------------------------------------------------------------------
(* Specification *)

ListMoves == ListStep /\ UNCHANGED <<pageState, dialog, acked, writes>>

UNext ==
    \/ ListMoves
    \/ \E x \in Texts : Type(x)
    \/ Debounced
    \/ \E r \in Roles : FilterRole(r)
    \/ \E w \in Writes : Update(w) \/ Create(w) \/ ServeWrite(w) \/ WriteDone(w)
    \/ \E f \in {"problems", "valid"} : Fill(f)
    \/ \E a \in Accounts : OpenReset(a)
    \/ TypePassword \/ CloseReset \/ ConfirmReset \/ ServeReset \/ ResetDone

USpec == UInit /\ [][UNext]_allVars

-----------------------------------------------------------------------------
(* Properties *)

(* Type invariant. *)
UTypeOK ==
    /\ TypeOK
    /\ searchInput \in Texts
    /\ timer \in BOOLEAN
    /\ message \in Message
    /\ formError \in BOOLEAN
    /\ form \in {"blank", "problems", "valid"}
    /\ write \in [Writes -> Write]
    /\ resetTarget \in Maybe
    /\ typed \in Maybe
    /\ resetError \in BOOLEAN
    /\ resetting \in BOOLEAN
    /\ reset \in Reset
    /\ acked \in Nat
    /\ changed \in Maybe
    /\ writes \in Nat

(* "User updated." is followed by rows that contain the update: a list     *)
(* fetched before it was committed does not end up on the screen, however  *)
(* the answers of lists and updates overtake each other.                   *)
RowsContainAcknowledged == ~loading /\ ~error => shown.version >= acked

(* Once the debounce has fired, the rows are those of the text in the      *)
(* field and of the role in the filter.                                    *)
RowsMatchFilters ==
    ~loading /\ ~error /\ ~timer =>
        /\ shown.of.search = searchInput /\ shown.of.role = selection.role
        /\ shown.page = pageNum

(* A password typed for one account is never sent for another, in whatever *)
(* order the dialog is opened, abandoned and opened again.                 *)
PasswordGoesToItsAccount == reset.state # "none" => reset.typed = reset.target

(* "Password updated for ..." names the account whose password changed,    *)
(* even if the dialog was closed or shows another account by then.         *)
ReportNamesAccount ==
    [][message' # message /\ message'.about = "password" => message'.who = changed]_allVars

=============================================================================
