----------------------------- MODULE PaginatedList -----------------------------
(***************************************************************************)
(* hooks/usePaginatedList.ts with components/ui/Pagination.tsx, as         *)
(* DashboardPage and ReviewQueuePage use them; UsersPage extends it.       *)
(*                                                                         *)
(* A fetcher is the selection it asks for and a revision: React calls      *)
(* load() again whenever either, or the page number, has changed.  The     *)
(* event handler, the render and the effects that follow are one step;     *)
(* requests are answered in any order, or fail.                            *)
(***************************************************************************)
EXTENDS Naturals

CONSTANTS
    Selections,     \* what a fetcher can ask for: search text and role
    MaxPages,       \* bound: pages of a list
    MaxRequests,    \* bound: load() calls
    MaxChanges,     \* bound: changes of the data on the server
    MaxFaults       \* bound: requests that fail

ASSUME SelectionsAssumption == Selections # {}
ASSUME ListBoundAssumption ==
    /\ MaxPages \in Nat \ {0} /\ MaxRequests \in Nat \ {0}
    /\ MaxChanges \in Nat /\ MaxFaults \in Nat

VARIABLES
    pages,      \* pages[s]: pages the server has for selection s
    version,    \* changes made to the data so far
    selection,  \* what the current fetcher asks for
    shown,      \* items, hasNext and hasPrev: the answer they are from
    pageNum,
    loading,
    error,
    requestId,  \* requestIdRef
    requests,   \* requests[i]: load() call i
    failures    \* bound

server == <<pages, version>>
vars == <<pages, version, selection, shown, pageNum, loading, error, requestId,
          requests, failures>>

-----------------------------------------------------------------------------
(* Data *)

RequestIds == 1..MaxRequests
PageNumbers == 1..(MaxPages + 1)

\* What an answer says: whose page it is, how old, and data.next and .previous.
Answer == [of : Selections, page : PageNumbers, version : Nat,
           next : BOOLEAN, prev : BOOLEAN]

Request == [state : {"none", "sent", "answered", "failed", "done"},
            of : Selections, page : PageNumbers,
            version : Nat, next : BOOLEAN, prev : BOOLEAN]

Anything == CHOOSE s \in Selections : TRUE
NoRequest == [state |-> "none", of |-> Anything, page |-> 1, version |-> 0,
              next |-> FALSE, prev |-> FALSE]

AnswerOf(r) == [of |-> r.of, page |-> r.page, version |-> r.version,
                next |-> r.next, prev |-> r.prev]

(* items is empty until the first answer. *)
Empty == AnswerOf(NoRequest)

Done == [NoRequest EXCEPT !.state = "done"]
Sent(s, p) == [NoRequest EXCEPT !.state = "sent", !.of = s, !.page = p]

-----------------------------------------------------------------------------
(* The hook *)

\* Regression: setLoading(true) is left to the caller.
LoadQuietly(s, p) ==
    /\ requestId < MaxRequests
    /\ requestId' = requestId + 1
    /\ requests' = [requests EXCEPT ![requestId + 1] = Sent(s, p)]
    /\ error' = FALSE
    /\ UNCHANGED loading

(* load(): the newest request is the only one that will count. *)
Load(s, p) ==
    /\ requestId < MaxRequests
    /\ requestId' = requestId + 1
    /\ requests' = [requests EXCEPT ![requestId + 1] = Sent(s, p)]
    /\ error' = FALSE
    /\ loading' = TRUE

Init ==
    /\ pages \in [Selections -> 1..MaxPages]
    /\ version = 0
    /\ selection \in Selections
    /\ shown = Empty
    /\ pageNum = 1
    /\ loading = TRUE
    /\ error = FALSE
    /\ requestId = 1
    /\ requests = [i \in RequestIds |-> IF i = 1 THEN Sent(selection, 1) ELSE NoRequest]
    /\ failures = 0

(* The list view counts, cuts a page out, and refuses a page past the end. *)
Serve(i) ==
    LET r == requests[i] IN
        /\ r.state = "sent"
        /\ requests' =
             [requests EXCEPT ![i] =
                IF r.page = 1 \/ r.page <= pages[r.of]
                THEN [r EXCEPT !.state = "answered", !.version = version,
                               !.next = r.page < pages[r.of], !.prev = r.page > 1]
                ELSE [r EXCEPT !.state = "failed"]]
        /\ UNCHANGED <<server, selection, shown, pageNum, loading, error, requestId,
                       failures>>

Fail(i) ==
    /\ requests[i].state = "sent"
    /\ failures < MaxFaults
    /\ failures' = failures + 1
    /\ requests' = [requests EXCEPT ![i].state = "failed"]
    /\ UNCHANGED <<server, selection, shown, pageNum, loading, error, requestId>>

\* Regression: an answer counts unless a newer one has been shown.
NewestOrOlder(i) == i <= requestId

(* requestId === requestIdRef.current *)
Newest(i) == i = requestId

(* load() resumes with data.  Its older siblings only return. *)
Receive(i) ==
    /\ requests[i].state = "answered"
    /\ requests' = [requests EXCEPT ![i] = Done]
    /\ IF Newest(i)
       THEN shown' = AnswerOf(requests[i]) /\ loading' = FALSE
       ELSE UNCHANGED <<shown, loading>>
    /\ UNCHANGED <<server, selection, pageNum, error, requestId, failures>>

\* Regression: the finally block is left out.
ReceiveErrorLoading(i) ==
    /\ requests[i].state = "failed"
    /\ requests' = [requests EXCEPT ![i] = Done]
    /\ error' = IF Newest(i) THEN TRUE ELSE error
    /\ UNCHANGED <<server, selection, shown, pageNum, loading, requestId, failures>>

(* The items of before stay under the error. *)
ReceiveError(i) ==
    /\ requests[i].state = "failed"
    /\ requests' = [requests EXCEPT ![i] = Done]
    /\ IF Newest(i) THEN error' = TRUE /\ loading' = FALSE ELSE UNCHANGED <<error, loading>>
    /\ UNCHANGED <<server, selection, shown, pageNum, requestId, failures>>

-----------------------------------------------------------------------------
(* Pagination *)

\* Regression: the effect on the page number is not run.
TurnQuietly(p) ==
    /\ pageNum' = p
    /\ UNCHANGED <<requestId, requests, loading, error>>

(* setPageNum() of another page, and the effect it triggers. *)
Turn(p) ==
    /\ p # pageNum
    /\ pageNum' = p
    /\ Load(selection, p)

\* Regression: the page number is not kept above 0 when hasPrev is stale.
PrevPageUnclamped ==
    /\ shown.prev /\ ~loading
    /\ Turn(pageNum - 1)
    /\ UNCHANGED <<server, selection, shown, failures>>

(* The two buttons, with their disabled attributes. *)
PrevPage ==
    /\ shown.prev /\ ~loading
    /\ pageNum > 1
    /\ Turn(pageNum - 1)
    /\ UNCHANGED <<server, selection, shown, failures>>

NextPage ==
    /\ shown.next /\ ~loading
    /\ pageNum <= MaxPages
    /\ Turn(pageNum + 1)
    /\ UNCHANGED <<server, selection, shown, failures>>

(* Others add and remove entries. *)
Change(s) ==
    /\ version < MaxChanges
    /\ version' = version + 1
    /\ \E n \in 1..MaxPages : pages' = [pages EXCEPT ![s] = n]
    /\ UNCHANGED <<selection, shown, pageNum, loading, error, requestId, requests,
                   failures>>

-----------------------------------------------------------------------------
(* Specification *)

Deliver(i) == Serve(i) \/ Receive(i) \/ ReceiveError(i)

ListStep ==
    \/ \E i \in RequestIds : Deliver(i) \/ Fail(i)
    \/ PrevPage
    \/ NextPage
    \/ \E s \in Selections : Change(s)

Spec == Init /\ [][ListStep]_vars

-----------------------------------------------------------------------------
(* Properties *)

(* Type invariant. *)
TypeOK ==
    /\ pages \in [Selections -> 1..MaxPages]
    /\ version \in Nat
    /\ selection \in Selections
    /\ shown \in Answer
    /\ pageNum \in PageNumbers
    /\ loading \in BOOLEAN
    /\ error \in BOOLEAN
    /\ requestId \in RequestIds
    /\ requests \in [RequestIds -> Request]
    /\ failures \in Nat

(* usePaginatedList "guards against out-of-order responses when the user   *)
(* pages quickly": what is shown without a skeleton and without an error   *)
(* is the page the pager names, of what the controls select.               *)
ShownMatchesControls ==
    ~loading /\ ~error => shown.page = pageNum /\ shown.of = selection

(* The skeleton is shown exactly while the newest request is under way, so *)
(* an answer that does not count neither ends it early nor leaves it.      *)
LoadingIsNewestRequest ==
    loading <=> requests[requestId].state \in {"sent", "answered", "failed"}

(* The skeleton is shown; whatever is clicked and whichever requests fail, *)
(* it goes.                                                                *)
Unsettled == loading

=============================================================================
