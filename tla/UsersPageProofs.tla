---------------------------- MODULE UsersPageProofs ----------------------------
(***************************************************************************)
(* Theorems about PaginatedList, alone and inside UsersPage, for every set *)
(* of selections and every bound: the answers that count are the right     *)
(* ones, in whatever order they come.                                      *)
(***************************************************************************)
EXTENDS UsersPage, TLAPS

-----------------------------------------------------------------------------
(* The inductive invariant of the hook *)

Flying(i) == requests[i].state \in {"sent", "answered", "failed"}

(* The newest request asks for what the controls say; what is shown is its *)
(* answer once it is done; newer ones do not exist.                        *)
NewestInv ==
    /\ Flying(requestId) =>
         requests[requestId].of = selection /\ requests[requestId].page = pageNum
    /\ \A i \in RequestIds : i > requestId => requests[i].state = "none"

HookInv ==
    /\ TypeOK
    /\ NewestInv
    /\ LoadingIsNewestRequest
    /\ ShownMatchesControls

LEMMA RequestTypes ==
    /\ NoRequest \in Request
    /\ Done \in Request
    /\ \A s \in Selections, p \in PageNumbers : Sent(s, p) \in Request
    /\ \A r \in Request : AnswerOf(r) \in Answer
  <1>1. Anything \in Selections
    BY SelectionsAssumption DEF Anything
  <1>2. 1 \in PageNumbers /\ 0 \in Nat
    BY ListBoundAssumption DEF PageNumbers
  <1>3. NoRequest \in Request
    BY <1>1, <1>2 DEF NoRequest, Request
  <1> QED
    BY <1>3 DEF Done, Sent, Request, Answer, AnswerOf

LEMMA HookInit == Init => HookInv
  <1> SUFFICES ASSUME Init PROVE HookInv
    OBVIOUS
  <1> USE DEF Init
  <1>1. 1 \in RequestIds /\ 1 \in PageNumbers
    BY ListBoundAssumption DEF RequestIds, PageNumbers
  <1>2. requests \in [RequestIds -> Request]
    BY <1>1, RequestTypes
  <1>3. shown \in Answer
    BY RequestTypes DEF Empty
  <1>4. TypeOK
    BY <1>1, <1>2, <1>3 DEF TypeOK
  <1>5. requests[1] = Sent(selection, 1)
    BY <1>1
  <1>6. \A i \in RequestIds : i > 1 => requests[i].state = "none"
    BY DEF RequestIds, NoRequest
  <1>7. Sent(selection, 1).state = "sent" /\ Sent(selection, 1).of = selection
        /\ Sent(selection, 1).page = 1
    BY DEF Sent, NoRequest
  <1>8. requestId = 1 /\ pageNum = 1 /\ loading = TRUE
    OBVIOUS
  <1> HIDE DEF Init
  <1>9. NewestInv
    BY <1>5, <1>6, <1>7, <1>8 DEF NewestInv, Flying
  <1> QED
    BY <1>4, <1>5, <1>7, <1>8, <1>9 DEF HookInv, LoadingIsNewestRequest, ShownMatchesControls

(* A call of load() for the current page of the current fetcher. *)
LEMMA LoadStep ==
    ASSUME HookInv, NEW s \in Selections, NEW p \in PageNumbers,
           Load(s, p), selection' = s, pageNum' = p,
           UNCHANGED <<pages, shown, failures>>, version' \in Nat
    PROVE  HookInv'
  <1> USE DEF Load
  <1>1. requestId + 1 \in RequestIds /\ requestId \in Nat
    BY ListBoundAssumption DEF HookInv, TypeOK, RequestIds
  <1>2. requests' \in [RequestIds -> Request]
    BY <1>1, RequestTypes DEF HookInv, TypeOK
  <1>3. TypeOK'
    BY <1>1, <1>2 DEF HookInv, TypeOK
  <1>4. requests'[requestId'] = Sent(s, p)
    BY <1>1 DEF HookInv, TypeOK
  <1>5. \A i \in RequestIds : i > requestId' => requests'[i] = requests[i] /\ i > requestId
    BY <1>1 DEF HookInv, TypeOK, RequestIds
  <1>6. Sent(s, p).state = "sent" /\ Sent(s, p).of = s /\ Sent(s, p).page = p
    BY DEF Sent, NoRequest
  <1>7. NewestInv'
    BY <1>4, <1>5, <1>6 DEF HookInv, NewestInv, Flying
  <1>8. loading' = TRUE
    OBVIOUS
  <1> HIDE DEF Load
  <1> QED
    BY <1>3, <1>4, <1>6, <1>7, <1>8 DEF HookInv, LoadingIsNewestRequest, ShownMatchesControls

(* Request i moves without ending, or ends: what the rest of the state     *)
(* has to do with it.                                                      *)
LEMMA RequestMoves ==
    ASSUME HookInv, NEW i \in RequestIds, Flying(i), NEW r \in Request,
           requests' = [requests EXCEPT ![i] = r],
           UNCHANGED <<pages, version, selection, pageNum, requestId>>,
           failures' \in Nat, shown' \in Answer, loading' \in BOOLEAN, error' \in BOOLEAN,
           \/ /\ r.state \in {"sent", "answered", "failed"}
              /\ r.of = requests[i].of /\ r.page = requests[i].page
              /\ UNCHANGED <<shown, loading, error>>
           \/ /\ r.state = "done" /\ i # requestId
              /\ UNCHANGED <<shown, loading, error>>
           \/ /\ r.state = "done" /\ i = requestId /\ loading' = FALSE
              /\ error' \/ (shown'.page = requests[i].page /\ shown'.of = requests[i].of)
    PROVE  HookInv'
  <1>1. /\ requests'[i] = r
        /\ \A j \in RequestIds : j # i => requests'[j] = requests[j]
        /\ requests' \in [RequestIds -> Request]
        /\ requestId \in RequestIds
    BY DEF HookInv, TypeOK
  <1>2. TypeOK'
    BY <1>1 DEF HookInv, TypeOK
  <1>3. NewestInv'
    BY <1>1 DEF HookInv, NewestInv, Flying
  <1>4. LoadingIsNewestRequest'
    BY <1>1 DEF HookInv, LoadingIsNewestRequest, Flying
  <1>5. ShownMatchesControls'
    BY <1>1 DEF HookInv, ShownMatchesControls, LoadingIsNewestRequest, NewestInv, Flying
  <1> QED
    BY <1>2, <1>3, <1>4, <1>5 DEF HookInv

LEMMA DeliverStep ==
    ASSUME HookInv, NEW i \in RequestIds, Deliver(i) \/ Fail(i)
    PROVE  HookInv'
  <1> DEFINE r == requests[i]
  <1>1. r \in Request /\ failures \in Nat /\ shown \in Answer /\ loading \in BOOLEAN
        /\ error \in BOOLEAN
    BY DEF HookInv, TypeOK
  <1>2. Done \in Request /\ Done.state = "done" /\ AnswerOf(r) \in Answer
    BY <1>1, RequestTypes DEF Done, NoRequest
  <1>3. version \in Nat
    BY DEF HookInv, TypeOK
  <1>4. ASSUME NEW q, requests' = [requests EXCEPT ![i] = q],
               q = [r EXCEPT !.state = "failed"]
                 \/ q = [r EXCEPT !.state = "answered", !.version = version,
                                  !.next = r.page < pages[r.of], !.prev = r.page > 1]
        PROVE  q \in Request /\ q.of = r.of /\ q.page = r.page
               /\ q.state \in {"answered", "failed"}
    <2>1. (r.page < pages[r.of]) \in BOOLEAN /\ (r.page > 1) \in BOOLEAN
      OBVIOUS
    <2>2. CASE q = [r EXCEPT !.state = "failed"]
      BY <1>1, <2>2 DEF Request
    <2>3. ASSUME NEW n \in BOOLEAN, NEW p \in BOOLEAN,
                 q = [r EXCEPT !.state = "answered", !.version = version, !.next = n, !.prev = p]
          PROVE  q \in Request /\ q.of = r.of /\ q.page = r.page
                 /\ q.state \in {"answered", "failed"}
      BY <1>1, <1>3, <2>3 DEF Request
    <2> QED
      BY <1>4, <2>1, <2>2, <2>3
  <1>5. CASE Serve(i)
    <2>1. PICK q : /\ requests' = [requests EXCEPT ![i] = q]
                   /\ q = [r EXCEPT !.state = "failed"]
                      \/ q = [r EXCEPT !.state = "answered", !.version = version,
                                       !.next = r.page < pages[r.of], !.prev = r.page > 1]
      BY <1>5 DEF Serve
    <2>2. Flying(i)
      BY <1>5 DEF Serve, Flying
    <2>3. UNCHANGED <<pages, version, selection, shown, pageNum, loading, error,
                      requestId, failures>>
      BY <1>5 DEF Serve, server
    <2> QED
      BY <1>1, <1>4, <2>1, <2>2, <2>3, RequestMoves
  <1>6. CASE Fail(i)
    <2>1. requests' = [requests EXCEPT ![i] = [r EXCEPT !.state = "failed"]]
      BY <1>6 DEF Fail
    <2>2. Flying(i) /\ failures' \in Nat
      BY <1>1, <1>6 DEF Fail, Flying
    <2>3. UNCHANGED <<pages, version, selection, shown, pageNum, loading, error, requestId>>
      BY <1>6 DEF Fail, server
    <2> QED
      BY <1>1, <1>4, <2>1, <2>2, <2>3, RequestMoves
  <1>7. CASE Receive(i)
    <2>1. requests' = [requests EXCEPT ![i] = Done] /\ Flying(i)
      BY <1>7 DEF Receive, Flying
    <2>2. UNCHANGED <<pages, version, selection, pageNum, error, requestId, failures>>
      BY <1>7 DEF Receive, server
    <2>3. \/ i = requestId /\ shown' = AnswerOf(r) /\ loading' = FALSE
          \/ i # requestId /\ UNCHANGED <<shown, loading>>
      BY <1>7 DEF Receive, Newest
    <2>4. AnswerOf(r).page = r.page /\ AnswerOf(r).of = r.of
      BY DEF AnswerOf
    <2> QED
      BY <1>1, <1>2, <2>1, <2>2, <2>3, <2>4, RequestMoves
  <1>8. CASE ReceiveError(i)
    <2>1. requests' = [requests EXCEPT ![i] = Done] /\ Flying(i)
      BY <1>8 DEF ReceiveError, Flying
    <2>2. UNCHANGED <<pages, version, selection, shown, pageNum, requestId, failures>>
      BY <1>8 DEF ReceiveError, server
    <2>3. \/ i = requestId /\ error' = TRUE /\ loading' = FALSE
          \/ i # requestId /\ UNCHANGED <<error, loading>>
      BY <1>8 DEF ReceiveError, Newest
    <2> QED
      BY <1>1, <1>2, <2>1, <2>2, <2>3, RequestMoves
  <1> QED
    BY <1>5, <1>6, <1>7, <1>8 DEF Deliver

LEMMA ListInvStep ==
    ASSUME HookInv, [ListStep]_vars
    PROVE  HookInv'
  <1>1. ASSUME NEW i \in RequestIds, Deliver(i) \/ Fail(i) PROVE HookInv'
    BY <1>1, DeliverStep
  <1>2. CASE PrevPage
    <2>1. pageNum - 1 \in PageNumbers /\ selection \in Selections /\ version \in Nat
      BY <1>2, ListBoundAssumption DEF PrevPage, HookInv, TypeOK, PageNumbers
    <2> QED
      BY <1>2, <2>1, LoadStep DEF PrevPage, Turn, server
  <1>3. CASE NextPage
    <2>1. pageNum + 1 \in PageNumbers /\ selection \in Selections /\ version \in Nat
      BY <1>3, ListBoundAssumption DEF NextPage, HookInv, TypeOK, PageNumbers
    <2> QED
      BY <1>3, <2>1, LoadStep DEF NextPage, Turn, server
  <1>4. ASSUME NEW s \in Selections, Change(s) PROVE HookInv'
    BY <1>4 DEF Change, HookInv, TypeOK, NewestInv, Flying, LoadingIsNewestRequest,
       ShownMatchesControls
  <1>5. CASE UNCHANGED vars
    BY <1>5 DEF vars, HookInv, TypeOK, NewestInv, Flying, LoadingIsNewestRequest,
       ShownMatchesControls
  <1> QED
    BY <1>1, <1>2, <1>3, <1>4, <1>5 DEF ListStep

(* The list by itself, as DashboardPage and ReviewQueuePage use it.        *)
THEOREM ListInvariance == Spec => []HookInv
  BY HookInit, ListInvStep, PTL DEF Spec

(* usePaginatedList.ts: what is shown is the page the pager names.         *)
THEOREM ListShowsControls == Spec => []ShownMatchesControls
  <1>1. HookInv => ShownMatchesControls
    BY DEF HookInv
  <1> QED
    BY <1>1, ListInvariance, PTL

(* usePaginatedList.ts: loading follows the newest request alone. *)
THEOREM ListLoading == Spec => []LoadingIsNewestRequest
  <1>1. HookInv => LoadingIsNewestRequest
    BY DEF HookInv
  <1> QED
    BY <1>1, ListInvariance, PTL

-----------------------------------------------------------------------------
(* The hook inside UsersPage, where several lists can be under way *)

LEMMA SelectStep ==
    ASSUME HookInv, NEW s \in Selections, Select(s),
           UNCHANGED <<pages, shown, failures>>, version' \in Nat
    PROVE  HookInv'
  <1>1. 1 \in PageNumbers /\ pageNum \in PageNumbers
    BY ListBoundAssumption DEF PageNumbers, HookInv, TypeOK
  <1>2. CASE pageNum = 1
    BY <1>1, <1>2, LoadStep DEF Select
  <1>3. CASE pageNum # 1
    <2>1. /\ requestId + 1 < MaxRequests /\ requestId' = requestId + 2
          /\ requests' = [requests EXCEPT ![requestId + 1] = Sent(s, pageNum),
                                          ![requestId + 2] = Sent(s, 1)]
          /\ error' = FALSE /\ loading' = TRUE /\ selection' = s /\ pageNum' = 1
      BY <1>3 DEF Select
    <2>2. /\ requestId + 1 \in RequestIds /\ requestId + 2 \in RequestIds
          /\ requestId \in RequestIds /\ requestId \in Nat
      BY <2>1, ListBoundAssumption DEF HookInv, TypeOK, RequestIds
    <2>3. Sent(s, pageNum) \in Request /\ Sent(s, 1) \in Request
      BY <1>1, RequestTypes
    <2>4. requests' \in [RequestIds -> Request]
      BY <2>1, <2>2, <2>3 DEF HookInv, TypeOK
    <2>5. TypeOK'
      BY <1>1, <2>1, <2>2, <2>4 DEF HookInv, TypeOK
    <2>6. requests'[requestId'] = Sent(s, 1)
      BY <2>1, <2>2 DEF HookInv, TypeOK
    <2>7. \A i \in RequestIds : i > requestId' => requests'[i] = requests[i] /\ i > requestId
      BY <2>1, <2>2 DEF HookInv, TypeOK, RequestIds
    <2>8. Sent(s, 1).state = "sent" /\ Sent(s, 1).of = s /\ Sent(s, 1).page = 1
      BY DEF Sent, NoRequest
    <2>9. NewestInv'
      BY <2>1, <2>6, <2>7, <2>8 DEF HookInv, NewestInv, Flying
    <2> QED
      BY <2>1, <2>5, <2>6, <2>8, <2>9 DEF HookInv, LoadingIsNewestRequest, ShownMatchesControls
  <1> QED
    BY <1>2, <1>3

LEMMA RefreshStep ==
    ASSUME HookInv, Refresh, UNCHANGED <<pages, version, selection, shown, pageNum, failures>>
    PROVE  HookInv'
  <1>1. selection \in Selections /\ pageNum \in PageNumbers /\ version' \in Nat
    BY DEF HookInv, TypeOK
  <1> QED
    BY <1>1, LoadStep DEF Refresh

(* What a page action leaves alone, or how it starts requests. *)
HookMove ==
    \/ UNCHANGED vars
    \/ ListStep
    \/ \E s \in Selections : Select(s) /\ UNCHANGED <<pages, version, shown, failures>>
    \/ Refresh /\ UNCHANGED <<pages, version, selection, shown, pageNum, failures>>
    \/ version' = version + 1 /\ UNCHANGED list

LEMMA HookMoves ==
    ASSUME HookInv, HookMove
    PROVE  HookInv'
  <1>1. CASE UNCHANGED vars \/ ListStep
    BY <1>1, ListInvStep
  <1>2. ASSUME NEW s \in Selections, Select(s), UNCHANGED <<pages, version, shown, failures>>
        PROVE  HookInv'
    <2>1. version' \in Nat
      BY <1>2 DEF HookInv, TypeOK
    <2> QED
      BY <1>2, <2>1, SelectStep
  <1>3. CASE Refresh /\ UNCHANGED <<pages, version, selection, shown, pageNum, failures>>
    BY <1>3, RefreshStep
  <1>4. CASE version' = version + 1 /\ UNCHANGED list
    BY <1>4 DEF list, HookInv, TypeOK, NewestInv, Flying, LoadingIsNewestRequest,
       ShownMatchesControls
  <1> QED
    BY <1>1, <1>2, <1>3, <1>4 DEF HookMove

LEMMA PageMoves ==
    ASSUME HookInv, searchInput \in Texts, [UNext]_allVars
    PROVE  HookMove
  <1> USE DEF HookMove
  <1>1. CASE ListMoves
    BY <1>1 DEF ListMoves
  <1>2. ASSUME NEW x \in Texts, Type(x) PROVE HookMove
    BY <1>2 DEF Type
  <1>3. CASE Debounced
    <2> DEFINE s == [selection EXCEPT !.search = searchInput]
    <2>1. s \in Selections
      BY FilterAssumption DEF HookInv, TypeOK
    <2>2. CASE s = selection
      BY <1>3, <2>2 DEF Debounced, vars, server
    <2>3. CASE s # selection
      BY <1>3, <2>1, <2>3 DEF Debounced, server
    <2> QED
      BY <2>2, <2>3
  <1>4. ASSUME NEW r \in Roles, FilterRole(r) PROVE HookMove
    <2>1. [selection EXCEPT !.role = r] \in Selections
      BY FilterAssumption DEF HookInv, TypeOK
    <2> QED
      BY <1>4, <2>1 DEF FilterRole, server
  <1>5. ASSUME NEW w \in Writes, Update(w) \/ Create(w) PROVE HookMove
    BY <1>5 DEF Update, Create
  <1>6. ASSUME NEW w \in Writes, ServeWrite(w) PROVE HookMove
    BY <1>6 DEF ServeWrite, list, vars
  <1>7. ASSUME NEW w \in Writes, WriteDone(w) PROVE HookMove
    BY <1>7 DEF WriteDone, vars, server
  <1>8. ASSUME NEW f \in {"problems", "valid"}, Fill(f) PROVE HookMove
    BY <1>8 DEF Fill
  <1>9. ASSUME NEW a \in Accounts, OpenReset(a) PROVE HookMove
    BY <1>9 DEF OpenReset
  <1>10. CASE TypePassword \/ CloseReset \/ ConfirmReset \/ ServeReset \/ ResetDone
    BY <1>10 DEF TypePassword, CloseReset, ConfirmReset, ServeReset, ResetDone
  <1>11. CASE UNCHANGED allVars
    BY <1>11 DEF allVars
  <1> QED
    BY <1>1, <1>2, <1>3, <1>4, <1>5, <1>6, <1>7, <1>8, <1>9, <1>10, <1>11 DEF UNext

-----------------------------------------------------------------------------
(* Types, the search text and the dialog *)

PageTypes ==
    /\ searchInput \in Texts
    /\ timer \in BOOLEAN
    /\ message \in Message
    /\ formError \in BOOLEAN
    /\ form \in {"blank", "problems", "valid"}
    /\ write \in [Writes -> Write]
    /\ acked \in Nat
    /\ writes \in Nat

DialogTypes ==
    /\ resetTarget \in Maybe
    /\ typed \in Maybe
    /\ resetError \in BOOLEAN
    /\ resetting \in BOOLEAN
    /\ reset \in Reset
    /\ changed \in Maybe

(* With no timer running, the fetcher searches for the text in the field.  *)
SearchInv == ~timer => selection.search = searchInput

(* The password in an open dialog was typed for the account it shows; the  *)
(* call under way carries the two of one moment, and says so when it ends. *)
DialogInv ==
    /\ resetTarget # NoAccount /\ typed # NoAccount => typed = resetTarget
    /\ reset.state # "none" => reset.typed = reset.target /\ reset.target # NoAccount
    /\ reset.state = "accepted" => changed = reset.target

PageInv ==
    /\ HookInv
    /\ PageTypes
    /\ DialogTypes
    /\ SearchInv
    /\ DialogInv

LEMMA PageInit == UInit => PageInv
  <1> SUFFICES ASSUME UInit PROVE PageInv
    OBVIOUS
  <1>1. HookInv
    BY HookInit DEF UInit
  <1>2. PageTypes /\ DialogTypes
    BY <1>1, FilterAssumption DEF UInit, PageTypes, DialogTypes, Maybe, Message, Say,
       NoWrite, Write, NoReset, Reset, HookInv, TypeOK
  <1>3. SearchInv /\ DialogInv
    BY DEF UInit, SearchInv, DialogInv, NoReset
  <1> QED
    BY <1>1, <1>2, <1>3 DEF PageInv

LEMMA WriteTypes ==
    ASSUME NEW w \in Writes, write \in [Writes -> Write]
    PROVE  /\ [write EXCEPT ![w] = NoWrite] \in [Writes -> Write]
           /\ \A k \in {"update", "create"} :
                [write EXCEPT ![w] = [NoWrite EXCEPT !.state = "sent", !.kind = k]] \in [Writes -> Write]
           /\ [write EXCEPT ![w].state = "refused"] \in [Writes -> Write]
           /\ \A n \in Nat :
                [write EXCEPT ![w].state = "accepted", ![w].version = n] \in [Writes -> Write]
  <1>1. write[w] \in Write /\ NoWrite \in Write
    BY DEF NoWrite, Write
  <1>2. \A k \in {"update", "create"} : [NoWrite EXCEPT !.state = "sent", !.kind = k] \in Write
    BY DEF NoWrite, Write
  <1>3. [write[w] EXCEPT !.state = "refused"] \in Write
    BY <1>1 DEF Write
  <1>4. \A n \in Nat : [write[w] EXCEPT !.state = "accepted", !.version = n] \in Write
    BY <1>1 DEF Write
  <1> QED
    BY <1>1, <1>2, <1>3, <1>4

LEMMA SayTypes ==
    /\ Say("created", NoAccount) \in Message /\ Say("updated", NoAccount) \in Message
    /\ \A a \in Maybe : Say("password", a) \in Message
    /\ Say("created", NoAccount).about # "password"
    /\ Say("updated", NoAccount).about # "password"
    /\ \A a : Say("password", a).who = a
  BY DEF Say, Message, Maybe

LEMMA PageStep ==
    ASSUME PageInv, [UNext]_allVars
    PROVE  PageInv'
  <1>1. HookInv'
    BY PageMoves, HookMoves DEF PageInv, PageTypes
  <1> USE DEF PageInv
  <1>2. CASE ListMoves \/ UNCHANGED allVars
    <2>1. UNCHANGED <<pageState, dialog, acked, writes, selection>>
      BY <1>2 DEF ListMoves, allVars, vars, ListStep, Deliver, Serve, Receive, ReceiveError,
         Fail, PrevPage, NextPage, Turn, Change, Load
    <2> QED
      BY <1>1, <2>1 DEF pageState, dialog, PageTypes, DialogTypes, SearchInv, DialogInv
  <1>3. ASSUME NEW x \in Texts, Type(x) PROVE PageInv'
    BY <1>1, <1>3 DEF Type, dialog, PageTypes, DialogTypes, SearchInv, DialogInv
  <1>4. CASE Debounced
    <2> DEFINE s == [selection EXCEPT !.search = searchInput]
    <2>1. selection' = s
      BY <1>4 DEF Debounced, Select
    <2>2. selection'.search = searchInput
      BY <2>1, FilterAssumption DEF HookInv, TypeOK
    <2> QED
      BY <1>1, <1>4, <2>2 DEF Debounced, dialog, PageTypes, DialogTypes, SearchInv, DialogInv
  <1>5. ASSUME NEW r \in Roles, FilterRole(r) PROVE PageInv'
    <2>1. selection'.search = selection.search
      BY <1>5, FilterAssumption DEF FilterRole, Select, HookInv, TypeOK
    <2> QED
      BY <1>1, <1>5, <2>1 DEF FilterRole, pageState, dialog, PageTypes, DialogTypes,
         SearchInv, DialogInv
  <1>6. ASSUME NEW w \in Writes, Update(w) \/ Create(w) PROVE PageInv'
    <2>0. PICK k \in {"update", "create"} : Send(w, k)
      BY <1>6 DEF Update, Create
    <2>1. write' \in [Writes -> Write] /\ writes' \in Nat
      <3>1. write \in [Writes -> Write] /\ writes \in Nat
        BY DEF PageTypes
      <3>2. [write EXCEPT ![w] = [NoWrite EXCEPT !.state = "sent", !.kind = k]] \in [Writes -> Write]
        BY <3>1, WriteTypes
      <3> QED
        BY <2>0, <3>1, <3>2 DEF Send
    <2>2. selection' = selection /\ UNCHANGED <<searchInput, timer, message, form, dialog, acked>>
          /\ formError' \in BOOLEAN
      BY <1>6 DEF Update, Create, vars, PageTypes
    <2> QED
      BY <1>1, <2>1, <2>2 DEF dialog, PageTypes, DialogTypes, SearchInv, DialogInv
  <1>7. ASSUME NEW w \in Writes, ServeWrite(w) PROVE PageInv'
    <2>1. version + 1 \in Nat
      BY DEF HookInv, TypeOK
    <2>2. \/ write' = [write EXCEPT ![w].state = "accepted", ![w].version = version + 1]
          \/ write' = [write EXCEPT ![w].state = "refused"]
      BY <1>7 DEF ServeWrite
    <2>3. write' \in [Writes -> Write]
      <3>1. write \in [Writes -> Write]
        BY DEF PageTypes
      <3>2. /\ [write EXCEPT ![w].state = "accepted", ![w].version = version + 1] \in [Writes -> Write]
            /\ [write EXCEPT ![w].state = "refused"] \in [Writes -> Write]
        BY <2>1, <3>1, WriteTypes
      <3> QED
        BY <2>2, <3>2
    <2> QED
      BY <1>1, <1>7, <2>3 DEF ServeWrite, list, dialog, PageTypes, DialogTypes, SearchInv, DialogInv
  <1>8. ASSUME NEW w \in Writes, WriteDone(w) PROVE PageInv'
    <2>1. write' \in [Writes -> Write] /\ write[w].version \in Nat
      BY <1>8, WriteTypes DEF WriteDone, PageTypes, Write
    <2>2. \/ message' = message
          \/ message' = Say("created", NoAccount)
          \/ message' = Say("updated", NoAccount)
      BY <1>8 DEF WriteDone
    <2>3. message' \in Message
      BY <2>2, SayTypes DEF PageTypes
    <2>4. formError' \in BOOLEAN /\ form' \in {"blank", "problems", "valid"} /\ acked' \in Nat
      BY <1>8, <2>1 DEF WriteDone, PageTypes
    <2> QED
      BY <1>1, <1>8, <2>1, <2>3, <2>4 DEF WriteDone, dialog, PageTypes, DialogTypes, SearchInv, DialogInv
  <1>9. ASSUME NEW f \in {"problems", "valid"}, Fill(f) PROVE PageInv'
    BY <1>1, <1>9 DEF Fill, vars, dialog, PageTypes, DialogTypes, SearchInv, DialogInv
  <1>10. ASSUME NEW a \in Accounts, OpenReset(a) PROVE PageInv'
    BY <1>1, <1>10 DEF OpenReset, vars, pageState, PageTypes, DialogTypes, SearchInv,
       DialogInv, Maybe
  <1>11. CASE TypePassword \/ CloseReset
    BY <1>1, <1>11 DEF TypePassword, CloseReset, vars, pageState, PageTypes, DialogTypes,
       SearchInv, DialogInv, Maybe
  <1>12. CASE ConfirmReset
    <2>0. [state |-> "sent", target |-> resetTarget, typed |-> typed] \in Reset
      BY DEF DialogTypes, Reset
    <2>1. reset' \in Reset /\ writes' \in Nat /\ resetError' \in BOOLEAN /\ resetting' \in BOOLEAN
      <3>1. CASE typed = NoAccount
        BY <1>12, <3>1 DEF ConfirmReset, PageTypes, DialogTypes
      <3>2. CASE typed # NoAccount
        <4>1. writes' = writes + 1 /\ resetError' = FALSE /\ resetting' = TRUE
          BY <1>12, <3>2 DEF ConfirmReset
        <4>2. reset' = [state |-> "sent", target |-> resetTarget, typed |-> typed]
          BY <1>12, <3>2 DEF ConfirmReset
        <4>3. writes' \in Nat
          BY <4>1 DEF PageTypes
        <4>4. reset' \in Reset
          BY <2>0, <4>2
        <4>5. resetError' \in BOOLEAN /\ resetting' \in BOOLEAN
          BY <4>1
        <4> QED
          BY <4>3, <4>4, <4>5
      <3> QED
        BY <3>1, <3>2
    <2>2. UNCHANGED <<vars, pageState, resetTarget, typed, changed, acked>>
      BY <1>12 DEF ConfirmReset
    <2>3. DialogInv'
      BY <1>12 DEF ConfirmReset, DialogInv
    <2> QED
      BY <1>1, <2>1, <2>2, <2>3 DEF vars, pageState, PageTypes, DialogTypes, SearchInv
  <1>13. CASE ServeReset
    <2>1. reset' \in Reset /\ changed' \in Maybe
      BY <1>13 DEF ServeReset, DialogTypes, Reset
    <2>2. reset'.typed = reset.typed /\ reset'.target = reset.target
      BY <1>13 DEF ServeReset, DialogTypes, Reset
    <2> QED
      BY <1>1, <1>13, <2>1, <2>2 DEF ServeReset, vars, pageState, PageTypes, DialogTypes,
         SearchInv, DialogInv, Reset
  <1>14. CASE ResetDone
    <2>1. reset.target \in Maybe /\ NoReset \in Reset /\ NoReset.state = "none"
      BY DEF DialogTypes, Reset, NoReset, Maybe
    <2>4. ResetReport \in Message
      BY <2>1, SayTypes DEF ResetReport
    <2>2. /\ message' \in Message /\ formError' \in BOOLEAN /\ resetError' \in BOOLEAN
          /\ resetTarget' \in Maybe /\ (resetTarget' = NoAccount \/ resetTarget' = resetTarget)
      <3>1. CASE reset.state = "accepted"
        BY <1>14, <2>4, <3>1 DEF ResetDone, Maybe, PageTypes, DialogTypes
      <3>2. CASE reset.state # "accepted"
        BY <1>14, <3>2 DEF ResetDone, PageTypes, DialogTypes
      <3> QED
        BY <3>1, <3>2
    <2>3. reset' = NoReset /\ resetting' = FALSE
          /\ UNCHANGED <<vars, searchInput, timer, form, write, typed, changed, acked, writes>>
      BY <1>14 DEF ResetDone
    <2> QED
      BY <1>1, <2>1, <2>2, <2>3 DEF vars, PageTypes, DialogTypes, SearchInv, DialogInv
  <1> QED
    BY <1>2, <1>3, <1>4, <1>5, <1>6, <1>7, <1>8, <1>9, <1>10, <1>11, <1>12, <1>13, <1>14
       DEF UNext

THEOREM PageInvariance == USpec => []PageInv
  BY PageInit, PageStep, PTL DEF USpec

(* Type correctness of the page and of the hook inside it. *)
THEOREM PageTypeCorrect == USpec => []UTypeOK
  <1>1. PageInv => UTypeOK
    BY DEF PageInv, HookInv, PageTypes, DialogTypes, UTypeOK
  <1> QED
    BY <1>1, PageInvariance, PTL

(* The hook's promise holds while filters and updates start requests that  *)
(* overtake each other.                                                    *)
THEOREM PageShowsControls == USpec => []ShownMatchesControls
  <1>1. PageInv => ShownMatchesControls
    BY DEF PageInv, HookInv
  <1> QED
    BY <1>1, PageInvariance, PTL

(* The rows are those of the text in the search field and of the filter.   *)
THEOREM RowsMatch == USpec => []RowsMatchFilters
  <1>1. PageInv => RowsMatchFilters
    BY DEF PageInv, HookInv, ShownMatchesControls, SearchInv, RowsMatchFilters
  <1> QED
    BY <1>1, PageInvariance, PTL

(* No password reaches another account than the one it was typed for.      *)
THEOREM PasswordTarget == USpec => []PasswordGoesToItsAccount
  <1>1. PageInv => PasswordGoesToItsAccount
    BY DEF PageInv, DialogInv, PasswordGoesToItsAccount
  <1> QED
    BY <1>1, PageInvariance, PTL

(* The success message names the account whose password was changed.       *)
THEOREM ReportNames == USpec => ReportNamesAccount
  <1>1. ASSUME PageInv, [UNext]_allVars, message' # message, message'.about = "password"
        PROVE  message'.who = changed
    <2>1. CASE ResetDone
      BY <1>1, <2>1 DEF ResetDone, ResetReport, Say, PageInv, DialogInv
    <2>2. ASSUME NEW w \in Writes, WriteDone(w) PROVE FALSE
      <3>1. \/ message' = message
            \/ message' = Say("created", NoAccount)
            \/ message' = Say("updated", NoAccount)
        BY <2>2 DEF WriteDone
      <3> QED
        BY <1>1, <3>1, SayTypes
    <2>3. ASSUME NEW w \in Writes, Update(w) \/ Create(w) \/ ServeWrite(w) PROVE FALSE
      BY <1>1, <2>3 DEF Update, Create, ServeWrite
    <2>4. CASE ListMoves \/ UNCHANGED allVars \/ Debounced \/ TypePassword \/ CloseReset
               \/ ConfirmReset \/ ServeReset
      BY <1>1, <2>4 DEF ListMoves, allVars, pageState, Debounced, TypePassword, CloseReset,
         ConfirmReset, ServeReset
    <2>5. ASSUME (\E x \in Texts : Type(x)) \/ (\E r \in Roles : FilterRole(r))
                 \/ (\E f \in {"problems", "valid"} : Fill(f)) \/ (\E a \in Accounts : OpenReset(a))
          PROVE  FALSE
      BY <1>1, <2>5 DEF Type, FilterRole, Fill, OpenReset, pageState
    <2> QED
      BY <1>1, <2>1, <2>2, <2>3, <2>4, <2>5 DEF UNext
  <1>2. PageInv /\ [UNext]_allVars
          => [message' # message /\ message'.about = "password" => message'.who = changed]_allVars
    BY <1>1
  <1> QED
    BY <1>2, PageInvariance, PTL DEF USpec, ReportNamesAccount

-----------------------------------------------------------------------------
(* The rows contain what was acknowledged *)

(* An acknowledged write is behind the server, and the answer that will    *)
(* count was cut out of the data after every write acknowledged so far:    *)
(* the acknowledgement of one starts a newer request.                      *)
FreshInv ==
    /\ acked <= version
    /\ \A w \in Writes : write[w].version <= version
    /\ requests[requestId].state = "answered" => requests[requestId].version >= acked
    /\ RowsContainAcknowledged

LEMMA FreshInit == UInit => FreshInv
  <1> SUFFICES ASSUME UInit PROVE FreshInv
    OBVIOUS
  <1>1. Init /\ acked = 0 /\ write = [w \in Writes |-> NoWrite]
    BY Zenon DEF UInit
  <1>2. 1 \in RequestIds
    BY ListBoundAssumption DEF RequestIds
  <1>3. requests[1] = Sent(selection, 1) /\ requestId = 1 /\ loading = TRUE /\ version = 0
    BY <1>1, <1>2 DEF Init
  <1>4. Sent(selection, 1).state = "sent"
    BY DEF Sent, NoRequest
  <1> QED
    BY <1>1, <1>3, <1>4 DEF NoWrite, FreshInv, RowsContainAcknowledged

(* A newest request that is not answered yet has the skeleton over the rows. *)
LEMMA LoadIsFresh ==
    ASSUME HookInv, NEW s \in Selections, NEW p \in PageNumbers, Load(s, p),
           acked' <= version', \A w \in Writes : write'[w].version <= version'
    PROVE  FreshInv'
  <1>1. requestId + 1 \in RequestIds
    BY ListBoundAssumption DEF HookInv, TypeOK, RequestIds, Load
  <1>2. requests'[requestId'] = Sent(s, p) /\ loading' = TRUE
    BY <1>1 DEF HookInv, TypeOK, Load
  <1>3. Sent(s, p).state = "sent"
    BY DEF Sent, NoRequest
  <1> QED
    BY <1>2, <1>3 DEF FreshInv, RowsContainAcknowledged

LEMMA SelectIsFresh ==
    ASSUME HookInv, NEW s \in Selections, Select(s),
           acked' <= version', \A w \in Writes : write'[w].version <= version'
    PROVE  FreshInv'
  <1>1. 1 \in PageNumbers
    BY ListBoundAssumption DEF PageNumbers
  <1>2. CASE pageNum = 1
    BY <1>1, <1>2, LoadIsFresh DEF Select
  <1>3. CASE pageNum # 1
    <2>1. requestId + 1 \in RequestIds /\ requestId + 2 \in RequestIds
      BY <1>3, ListBoundAssumption DEF Select, HookInv, TypeOK, RequestIds
    <2>2. requests'[requestId'] = Sent(s, 1) /\ loading' = TRUE
      BY <1>3, <2>1 DEF Select, HookInv, TypeOK
    <2>3. Sent(s, 1).state = "sent"
      BY DEF Sent, NoRequest
    <2> QED
      BY <2>2, <2>3 DEF FreshInv, RowsContainAcknowledged
  <1> QED
    BY <1>2, <1>3

(* Requests move, and nothing is written. *)
LEMMA DeliverIsFresh ==
    ASSUME HookInv, FreshInv, acked \in Nat, NEW i \in RequestIds, Deliver(i) \/ Fail(i),
           UNCHANGED <<write, acked>>
    PROVE  FreshInv'
  <1>1. /\ requests \in [RequestIds -> Request] /\ requestId \in RequestIds
        /\ version \in Nat /\ requests[i] \in Request
    BY DEF HookInv, TypeOK
  <1>2. UNCHANGED <<version, requestId>>
    BY DEF Deliver, Serve, Receive, ReceiveError, Fail, server
  <1>3. acked' <= version' /\ \A w \in Writes : write'[w].version <= version'
    BY <1>2 DEF FreshInv
  <1>4. requests'[requestId].state = "answered" => requests'[requestId].version >= acked
    <2>1. CASE Serve(i)
      <3> DEFINE r == requests[i]
      <3>1. CASE r.page = 1 \/ r.page <= pages[r.of]
        <4>1. requests' = [requests EXCEPT ![i] =
                 [r EXCEPT !.state = "answered", !.version = version,
                           !.next = r.page < pages[r.of], !.prev = r.page > 1]]
          BY <2>1, <3>1 DEF Serve
        <4>2. requests'[i].version = version
          BY <1>1, <4>1 DEF Request
        <4>3. i # requestId => requests'[requestId] = requests[requestId]
          BY <1>1, <4>1
        <4> QED
          BY <1>1, <4>2, <4>3 DEF FreshInv
      <3>2. CASE ~(r.page = 1 \/ r.page <= pages[r.of])
        <4>1. requests' = [requests EXCEPT ![i] = [r EXCEPT !.state = "failed"]]
          BY <2>1, <3>2 DEF Serve
        <4> QED
          BY <1>1, <4>1 DEF FreshInv, Request
      <3> QED
        BY <3>1, <3>2
    <2>2. CASE Fail(i)
      BY <1>1, <2>2 DEF Fail, FreshInv, Request
    <2>3. CASE Receive(i) \/ ReceiveError(i)
      <3>1. requests' = [requests EXCEPT ![i] = Done] /\ Done.state = "done"
        BY <2>3 DEF Receive, ReceiveError, Done, NoRequest
      <3> QED
        BY <1>1, <3>1 DEF FreshInv
    <2> QED
      BY <2>1, <2>2, <2>3 DEF Deliver
  <1>5. ~loading' /\ ~error' => shown'.version >= acked
    <2>1. CASE Serve(i) \/ Fail(i)
      BY <2>1 DEF Serve, Fail, FreshInv, RowsContainAcknowledged
    <2>2. CASE Receive(i)
      <3>1. CASE i = requestId
        <4>1. shown'.version = requests[requestId].version
          BY <2>2, <3>1 DEF Receive, Newest, AnswerOf
        <4> QED
          BY <2>2, <3>1, <4>1 DEF Receive, FreshInv
      <3>2. CASE i # requestId
        BY <2>2, <3>2 DEF Receive, Newest, FreshInv, RowsContainAcknowledged
      <3> QED
        BY <3>1, <3>2
    <2>3. CASE ReceiveError(i)
      BY <2>3 DEF ReceiveError, Newest, FreshInv, RowsContainAcknowledged
    <2> QED
      BY <2>1, <2>2, <2>3 DEF Deliver
  <1> QED
    BY <1>2, <1>3, <1>4, <1>5 DEF FreshInv, RowsContainAcknowledged

LEMMA ListIsFresh ==
    ASSUME HookInv, FreshInv, acked \in Nat, write \in [Writes -> Write], ListStep,
           UNCHANGED <<write, acked>>
    PROVE  FreshInv'
  <1>1. ASSUME NEW i \in RequestIds, Deliver(i) \/ Fail(i) PROVE FreshInv'
    BY <1>1, DeliverIsFresh
  <1>2. ASSUME NEW p \in PageNumbers, Turn(p), UNCHANGED version PROVE FreshInv'
    <2>1. selection \in Selections /\ acked' <= version'
          /\ \A w \in Writes : write'[w].version <= version'
      BY <1>2 DEF HookInv, TypeOK, FreshInv
    <2>2. Load(selection, p)
      BY <1>2 DEF Turn
    <2> QED
      BY <2>1, <2>2, LoadIsFresh
  <1>3. CASE PrevPage
    <2>1. pageNum - 1 \in PageNumbers
      BY <1>3, ListBoundAssumption DEF PrevPage, HookInv, TypeOK, PageNumbers
    <2> QED
      BY <1>2, <1>3, <2>1 DEF PrevPage, server
  <1>4. CASE NextPage
    <2>1. pageNum + 1 \in PageNumbers
      BY <1>4, ListBoundAssumption DEF NextPage, HookInv, TypeOK, PageNumbers
    <2> QED
      BY <1>2, <1>4, <2>1 DEF NextPage, server
  <1>5. ASSUME NEW s \in Selections, Change(s) PROVE FreshInv'
    <2>1. version \in Nat /\ version' = version + 1
          /\ UNCHANGED <<shown, loading, error, requestId, requests>>
      BY <1>5 DEF Change, HookInv, TypeOK
    <2>2. \A w \in Writes : write[w].version \in Nat
      BY DEF Write
    <2> QED
      BY <2>1, <2>2 DEF FreshInv, RowsContainAcknowledged
  <1> QED
    BY <1>1, <1>3, <1>4, <1>5 DEF ListStep

(* The users view numbers a write it accepts after all data before it; its *)
(* acknowledgement raises acked to that number at most, and loads again.   *)
LEMMA WriteIsFresh ==
    ASSUME HookInv, PageTypes, FreshInv, NEW v \in Writes, ServeWrite(v) \/ WriteDone(v)
    PROVE  FreshInv'
  <1>1. /\ version \in Nat /\ acked \in Nat /\ write \in [Writes -> Write]
        /\ selection \in Selections /\ pageNum \in PageNumbers
    BY DEF HookInv, TypeOK, PageTypes
  <1>2. \A w \in Writes : write[w].version \in Nat
    BY <1>1 DEF Write
  <1>3. CASE ServeWrite(v)
    <2>1. version' \in Nat /\ version <= version' /\ \A w \in Writes : write'[w].version <= version'
      <3>1. CASE /\ version' = version + 1
                 /\ write' = [write EXCEPT ![v].state = "accepted", ![v].version = version + 1]
        <4>1. write'[v].version = version + 1
          BY <1>1, <3>1 DEF Write
        <4>2. \A w \in Writes : w # v => write'[w] = write[w]
          BY <1>1, <3>1
        <4> QED
          BY <1>1, <1>2, <3>1, <4>1, <4>2 DEF FreshInv
      <3>2. CASE write' = [write EXCEPT ![v].state = "refused"] /\ UNCHANGED version
        <4>1. write'[v].version = write[v].version
          BY <1>1, <3>2 DEF Write
        <4>2. \A w \in Writes : w # v => write'[w] = write[w]
          BY <1>1, <3>2
        <4> QED
          BY <1>1, <1>2, <3>2, <4>1, <4>2 DEF FreshInv
      <3> QED
        BY <1>3, <3>1, <3>2 DEF ServeWrite
    <2>2. UNCHANGED <<requests, requestId, shown, loading, error, acked>>
      BY <1>3 DEF ServeWrite, list
    <2> QED
      BY <1>1, <2>1, <2>2 DEF FreshInv, RowsContainAcknowledged
  <1>4. CASE WriteDone(v)
    <2>1. write' = [write EXCEPT ![v] = NoWrite] /\ UNCHANGED <<version, shown>>
      BY <1>4 DEF WriteDone, server
    <2>2. \A w \in Writes : write'[w].version <= version'
      BY <1>1, <1>2, <2>1 DEF FreshInv, NoWrite
    <2>3. acked' <= version'
      BY <1>4, <2>1 DEF WriteDone, FreshInv
    <2>4. CASE write[v].state = "accepted"
      BY <1>1, <1>4, <2>2, <2>3, <2>4, LoadIsFresh DEF WriteDone, Refresh
    <2>5. CASE write[v].state # "accepted"
      BY <1>4, <2>1, <2>2, <2>3, <2>5 DEF WriteDone, FreshInv, RowsContainAcknowledged
    <2> QED
      BY <2>4, <2>5
  <1> QED
    BY <1>3, <1>4

LEMMA FreshStep ==
    ASSUME PageInv, FreshInv, [UNext]_allVars
    PROVE  FreshInv'
  <1>1. /\ HookInv /\ PageTypes /\ acked \in Nat /\ version \in Nat
        /\ write \in [Writes -> Write]
    BY DEF PageInv, PageTypes, HookInv, TypeOK
  <1>2. ASSUME UNCHANGED <<vars, write, acked>> PROVE FreshInv'
    BY <1>2 DEF vars, FreshInv, RowsContainAcknowledged
  <1>3. ASSUME NEW s \in Selections, Select(s), UNCHANGED <<version, write, acked>>
        PROVE  FreshInv'
    <2>1. acked' <= version' /\ \A w \in Writes : write'[w].version <= version'
      BY <1>3 DEF FreshInv
    <2> QED
      BY <1>1, <1>3, <2>1, SelectIsFresh
  <1>4. CASE ListMoves
    BY <1>1, <1>4, ListIsFresh DEF ListMoves, pageState
  <1>5. CASE Debounced
    <2> DEFINE s == [selection EXCEPT !.search = searchInput]
    <2>1. s \in Selections
      BY <1>1, FilterAssumption DEF HookInv, TypeOK, PageTypes
    <2>2. UNCHANGED <<version, shown, failures, pages, write, acked>>
      BY <1>5 DEF Debounced, server
    <2>3. CASE s = selection
      BY <1>2, <1>5, <2>2, <2>3 DEF Debounced, vars
    <2>4. CASE s # selection
      BY <1>3, <1>5, <2>1, <2>2, <2>4 DEF Debounced
    <2> QED
      BY <2>3, <2>4
  <1>6. ASSUME NEW r \in Roles, FilterRole(r) PROVE FreshInv'
    <2>1. [selection EXCEPT !.role = r] \in Selections
      BY <1>1, FilterAssumption DEF HookInv, TypeOK
    <2> QED
      BY <1>3, <1>6, <2>1 DEF FilterRole, server, pageState
  <1>7. ASSUME NEW w \in Writes, Update(w) \/ Create(w) PROVE FreshInv'
    <2>1. PICK k \in {"update", "create"} :
             write' = [write EXCEPT ![w] = [NoWrite EXCEPT !.state = "sent", !.kind = k]]
      BY <1>7 DEF Update, Create, Send
    <2>2. UNCHANGED <<vars, acked>>
      BY <1>7 DEF Update, Create
    <2>3. \A u \in Writes : write'[u].version <= version
      <3>1. write'[w].version = 0
        <4>1. write'[w] = [NoWrite EXCEPT !.state = "sent", !.kind = k]
          BY <1>1, <2>1
        <4> QED
          BY <4>1 DEF NoWrite
      <3>2. \A u \in Writes : u # w => write'[u] = write[u]
        BY <1>1, <2>1
      <3> QED
        BY <1>1, <3>1, <3>2 DEF FreshInv
    <2> QED
      BY <2>2, <2>3 DEF vars, FreshInv, RowsContainAcknowledged
  <1>8. ASSUME NEW w \in Writes, ServeWrite(w) \/ WriteDone(w) PROVE FreshInv'
    BY <1>1, <1>8, WriteIsFresh
  <1>9. ASSUME (\E x \in Texts : Type(x)) \/ (\E f \in {"problems", "valid"} : Fill(f))
               \/ (\E a \in Accounts : OpenReset(a)) \/ UNCHANGED allVars
        PROVE  FreshInv'
    BY <1>2, <1>9 DEF Type, Fill, OpenReset, pageState, allVars
  <1>10. CASE TypePassword \/ CloseReset \/ ConfirmReset \/ ServeReset \/ ResetDone
    BY <1>2, <1>10 DEF TypePassword, CloseReset, ConfirmReset, ServeReset, ResetDone, pageState
  <1> QED
    BY <1>4, <1>5, <1>6, <1>7, <1>8, <1>9, <1>10 DEF UNext

(* "User updated." is followed by rows that contain the update, however    *)
(* many lists and updates overtake each other.                             *)
THEOREM RowsFresh == USpec => []RowsContainAcknowledged
  <1>1. UInit => PageInv /\ FreshInv
    BY PageInit, FreshInit
  <1>2. PageInv /\ FreshInv /\ [UNext]_allVars => (PageInv /\ FreshInv)'
    BY PageStep, FreshStep
  <1>3. FreshInv => RowsContainAcknowledged
    BY DEF FreshInv
  <1> QED
    BY <1>1, <1>2, <1>3, PTL DEF USpec

=============================================================================
