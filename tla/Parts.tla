--------------------------------- MODULE Parts ---------------------------------
(***************************************************************************)
(* The parts of the system that share no state, one of them at a time: a   *)
(* behaviour is of the part that is mounted.  It has the variables v1, v2, *)
(* ... in the order its own module declares them; those it does not need   *)
(* are Vacant.  Which parts are mounted, the values they are given and     *)
(* how far they go are constants.                                          *)
(***************************************************************************)
EXTENDS Naturals, Sequences

CONSTANTS
    PartNames,      \* the parts that are mounted
    Vacant,
    Addresses, Phone, BlankInput, Cooldown, Visits, Forms, Submits,
    Apps, Own, Dossiers, NoApp, Queue, New, Away, Profile, Counted,
    PageVersions, PageMoves, Faults, ReviewRounds, Turns, Lost, FormSaves,
    NoUser, NoDate, Inputs(_), Skews, Late,
    Given           \* Given[name]: the other values and bounds of a part

VARIABLES
    part,       \* the part that is mounted
    v1, v2, v3, v4, v5, v6, v7, v8, v9, v10, v11, v12, v13, v14, v15, v16, v17,
    v18, v19, v20

-----------------------------------------------------------------------------
(* The parts *)

\* Login, verification and reset of the password.
Auth == INSTANCE AuthPages WITH
    Emails <- Addresses, COOLDOWN <- Cooldown, MaxCalls <- Given.auth.calls,
    MaxVisits <- Visits, Blank <- BlankInput,
    accounts <- v1, verified <- v2, reset <- v3, age <- v4, call <- v5,
    calls <- v6, page <- v7, visit <- v8, email <- v9, step <- v10,
    error <- v11, notice <- v12, busy <- v13, cooldown <- v14, asked <- v15

\* Registration in three steps.
Wizard == INSTANCE RegisterWizard WITH
    Values <- Forms, MaxSubmits <- Submits,
    form <- v1, fieldErrors <- v2, touched <- v3, step <- v4, focus <- v5,
    error <- v6, busy <- v7, call <- v8, page <- v9, submits <- v10

\* An application and its documents, to its applicant and to others.
Applicant == INSTANCE ApplicationPage WITH
    Mine <- Own, MaxDocuments <- Given.applicant.documents,
    MaxLoads <- Given.applicant.loads, MaxVersions <- PageVersions,
    MaxMoves <- PageMoves, MaxFaults <- Faults,
    dossier <- v1, route <- v2, app <- v3, error <- v4, loads <- v5,
    loadRef <- v6, audit <- v7, auditPage <- v8, auditError <- v9,
    audits <- v10, auditRef <- v11, busy <- v12, action <- v13, notice <- v14,
    actionError <- v15, file <- v16, confirming <- v17, acked <- v18,
    moves <- v19, faults <- v20

\* An application and its trail, to a reviewer.
Reviewer == INSTANCE ReviewPage WITH
    Apps <- Dossiers, MaxLoads <- Given.reviewer.loads,
    MaxRounds <- ReviewRounds, MaxMoves <- Turns,
    MaxCalls <- Given.reviewer.calls, MaxFaults <- Lost,
    dossier <- v1, route <- v2, mount <- v3, app <- v4, trail <- v5,
    auditError <- v6, decision <- v7, notes <- v8, error <- v9, busy <- v10,
    loads <- v11, loadRef <- v12, calls <- v13, sent <- v14, moves <- v15,
    faults <- v16

\* The form of a new and of an existing application.
Editor == INSTANCE ApplicationForm WITH
    BlurFields <- Given.editor.blurs, PickFields <- Given.editor.picks,
    MaxMoves <- Turns, MaxCalls <- FormSaves, MaxFaults <- Given.editor.faults,
    editable <- v1, writes <- v2, route <- v3, mount <- v4, moved <- v5,
    warned <- v6, loadingExisting <- v7, loads <- v8, origin <- v9, form <- v10,
    fieldErrors <- v11, error <- v12, busy <- v13, calls <- v14, sent <- v15,
    moves <- v16, faults <- v17

\* Routes, rail and sidebar.
Shell == INSTANCE Navigation WITH
    MaxVisits <- Given.shell.visits,
    user <- v1, loading <- v2, path <- v3, sidebarOpen <- v4, overflow <- v5,
    previous <- v6, visits <- v7

\* The date of birth.
Birth == INSTANCE DateOfBirth WITH
    YEARS <- Given.birth.years,
    parts <- v1, value <- v2

\* A field of any form, and what the server makes of it.
Input == INSTANCE Validation WITH
    field <- v1, value <- v2, local <- v3, blurred <- v4, stage <- v5

\* The figures of the analytics page.
Figures == INSTANCE Analytics WITH
    Apps <- Counted, Visits <- Given.figures.visits,
    status <- v1, step <- v2, total <- v3, pipeline <- v4, recent <- v5,
    page <- v6, data <- v7, visits <- v8

\* What a page says of a request that failed.
Failure == INSTANCE ErrorContract WITH
    Counters <- Given.failure.counters, MaxWait <- Given.failure.wait,
    MaxTime <- Given.failure.time,
    now <- v1, until <- v2, site <- v3, call <- v4, answer <- v5, shown <- v6,
    refusal <- v7

\* A list by itself.
List == INSTANCE PaginatedList WITH
    Selections <- Given.list.selections, MaxPages <- Given.list.pages,
    MaxRequests <- Given.list.requests, MaxChanges <- Given.list.changes,
    MaxFaults <- Given.list.faults,
    pages <- v1, version <- v2, selection <- v3, shown <- v4, pageNum <- v5,
    loading <- v6, error <- v7, requestId <- v8, requests <- v9,
    failures <- v10

\* The session in a tab, with two requests at a time.
Tab == INSTANCE Sessions WITH
    Tabs <- {"tab"}, Users <- {"user"}, Calls <- {"call", "other"},
    MaxTokens <- Given.tab.tokens, Reserve <- Given.tab.reserve,
    MaxPasswords <- 0, MaxExpiries <- Given.tab.expiries, MaxLost <- 0,
    MaxOpens <- 1,
    tokens <- v1, expired <- v2, password <- v3, revoking <- v4, cookie <- v5,
    access <- v6, pending <- v7, flight <- v8, task <- v9, user <- v10,
    loading <- v11, atLogin <- v12, lostFrom <- v13, since <- v14, lost <- v15,
    opens <- v16, late <- v17

\* useConfirmDialog.
Dialog == INSTANCE ConfirmDialog WITH
    Calls <- Given.dialog.calls, Texts <- Given.dialog.texts,
    Blank <- Given.dialog.blank,
    called <- v1, required <- v2, promise <- v3, pending <- v4, typed <- v5,
    busy <- v6, entered <- v7

\* DrawerForm.
Drawer == INSTANCE Drawer WITH
    Fields <- Given.drawer.fields, Values <- Given.drawer.values,
    Valid <- Given.drawer.valid, Submissions <- Given.drawer.submissions,
    Openings <- Given.drawer.openings,
    initial <- v1, open <- v2, openings <- v3, values <- v4, errors <- v5,
    busy <- v6, serverError <- v7, submitted <- v8

\* CommandMenu.
Menu == INSTANCE CommandMenu WITH
    Lists <- Given.menu.lists, Picks <- Given.menu.picks,
    Queries <- DOMAIN Given.menu.hits, NoQuery <- Given.menu.noQuery,
    Hits <- Given.menu.hits,
    options <- v1, disabled <- v2, value <- v3, open <- v4, query <- v5,
    highlight <- v6

\* SearchInput.
Search == INSTANCE SearchInput WITH
    Texts <- Given.search.texts, Blank <- Given.search.blank,
    Pause <- Given.search.pause,
    value <- v1, draft <- v2, timers <- v3, quiet <- v4, cleared <- v5

\* useToast.
Toasts == INSTANCE Toasts WITH
    Notices <- Given.toasts.notices, Life <- Given.toasts.life,
    items <- v1, nextId <- v2, timers <- v3, dismissed <- v4

\* useInfiniteScroll.
Scroll == INSTANCE InfiniteScroll WITH
    Renders <- Given.scroll.renders, Scrolls <- Given.scroll.scrolls,
    enabled <- v1, sentinel <- v2, inView <- v3, observer <- v4, entries <- v5,
    callback <- v6, called <- v7, scrolls <- v8, due <- v9

\* useAnnouncer.
Announcer == INSTANCE Announcer WITH
    Texts <- Given.announcer.texts, Blank <- Given.announcer.blank,
    Calls <- Given.announcer.calls, Mounts <- Given.announcer.mounts,
    mounted <- v1, page <- v2, region <- v3, timers <- v4, messages <- v5

\* usePolling.
Polling == INSTANCE Polling WITH
    Values <- Given.polling.values, Null <- Given.polling.null,
    MaxBackoff <- Given.polling.backoff, LoadsKept <- Given.polling.loads,
    enabled <- v1, hidden <- v2, tick <- v3, loads <- v4, timer <- v5,
    failures <- v6, data <- v7, error <- v8, loading <- v9, refreshing <- v10,
    shownBy <- v11, waited <- v12

\* User administration.
Admin == INSTANCE UserAdmin WITH
    Users <- Given.admin.users, Requests <- Given.admin.requests,
    Orders <- Given.admin.orders, FirstSupers <- Given.admin.supers,
    MaxAborts <- Given.admin.aborts,
    users <- v1, locks <- v2, request <- v3, aborts <- v4, reset <- v5

\* And when nobody dies, but requests wait for each other.
Cross == INSTANCE UserAdmin WITH
    Users <- Given.cross.users, Requests <- Given.cross.requests,
    Orders <- Given.cross.orders, FirstSupers <- Given.cross.supers,
    MaxAborts <- 0,
    users <- v1, locks <- v2, request <- v3, aborts <- v4, reset <- v5

\* One counter of a fixed window.
Counter == INSTANCE FixedWindow WITH
    Requests <- Given.window.requests, Max <- Given.window.max,
    Window <- Given.window.width, MaxTime <- Given.window.time,
    MaxFaults <- Given.window.faults,
    now <- v1, row <- v2, request <- v3, faults <- v4, inTime <- v5

\* One key of a scoped rate.
Rate == INSTANCE ScopedRate WITH
    Requests <- Given.rate.requests, Limit <- Given.rate.limit,
    Duration <- Given.rate.duration, Together <- Given.rate.together,
    MaxTime <- Given.rate.time, MaxFaults <- Given.rate.faults,
    now <- v1, stored <- v2, expires <- v3, request <- v4, faults <- v5

\* And when its requests come one at a time.
Serial == INSTANCE ScopedRate WITH
    Requests <- Given.serial.requests, Limit <- Given.serial.limit,
    Duration <- Given.serial.duration, Together <- 1,
    MaxTime <- Given.serial.time, MaxFaults <- 0,
    now <- v1, stored <- v2, expires <- v3, request <- v4, faults <- v5

-----------------------------------------------------------------------------
ListAssumption ==
    /\ Given.list.selections # {}
    /\ Given.list.pages \in Nat \ {0} /\ Given.list.requests \in Nat \ {0}
    /\ Given.list.changes \in Nat /\ Given.list.faults \in Nat

ASSUME PartsAssumption ==
    /\ Auth!TextAssumption /\ Auth!BoundAssumption
    /\ Wizard!ValuesAssumption /\ Wizard!SubmitsAssumption
    /\ Applicant!AppsAssumption /\ Applicant!BoundAssumption
    /\ Reviewer!NamesAssumption /\ Reviewer!BoundAssumption
    /\ Editor!NamesAssumption /\ Editor!BoundAssumption
    /\ Shell!BoundAssumption
    /\ Birth!YearsAssumption /\ Birth!NoDateAssumption
    /\ Input!CountryAssumption /\ Input!SkewAssumption
    /\ Figures!AnalyticsAssumption
    /\ Failure!ContractAssumption
    /\ ListAssumption
    /\ Dialog!CallsAssumption /\ Dialog!TextsAssumption
    /\ Drawer!DrawerAssumption
    /\ Menu!MenuAssumption
    /\ Search!SearchAssumption
    /\ Toasts!ToastsAssumption
    /\ Scroll!InfiniteScrollAssumption
    /\ Announcer!AnnouncerAssumption
    /\ Polling!ValuesAssumption /\ Polling!PollingBoundAssumption
    /\ Admin!UserAdminAssumption
    /\ Cross!UserAdminAssumption
    /\ Counter!WindowAssumption
    /\ Rate!RateAssumption
    /\ Serial!RateAssumption

-----------------------------------------------------------------------------
(* Specification *)

vars == <<part, v1, v2, v3, v4, v5, v6, v7, v8, v9, v10, v11, v12, v13, v14, v15,
          v16, v17, v18, v19, v20>>

\* How many variables a part has.
Size ==
    [auth |-> 15, wizard |-> 10, applicant |-> 20, reviewer |-> 16,
     editor |-> 17, shell |-> 7, birth |-> 2, input |-> 5, figures |-> 8,
     failure |-> 7, list |-> 10, tab |-> 17, dialog |-> 7, drawer |-> 8,
     menu |-> 6, search |-> 5, toasts |-> 4, scroll |-> 9, announcer |-> 5,
     polling |-> 12, admin |-> 5, cross |-> 5, window |-> 5, rate |-> 5,
     serial |-> 5]

(* The part is mounted, and has its variables to itself. *)
Mounted(name) ==
    /\ part = name
    /\ (Size[name] < 3 => v3 = Vacant) /\ (Size[name] < 4 => v4 = Vacant)
    /\ (Size[name] < 5 => v5 = Vacant) /\ (Size[name] < 6 => v6 = Vacant)
    /\ (Size[name] < 7 => v7 = Vacant) /\ (Size[name] < 8 => v8 = Vacant)
    /\ (Size[name] < 9 => v9 = Vacant) /\ (Size[name] < 10 => v10 = Vacant)
    /\ (Size[name] < 11 => v11 = Vacant) /\ (Size[name] < 12 => v12 = Vacant)
    /\ (Size[name] < 13 => v13 = Vacant) /\ (Size[name] < 14 => v14 = Vacant)
    /\ (Size[name] < 15 => v15 = Vacant) /\ (Size[name] < 16 => v16 = Vacant)
    /\ (Size[name] < 17 => v17 = Vacant) /\ (Size[name] < 18 => v18 = Vacant)
    /\ (Size[name] < 19 => v19 = Vacant) /\ (Size[name] < 20 => v20 = Vacant)

(* A step of the part that is mounted. *)
Alone(name) ==
    /\ part = name /\ part' = name
    /\ (Size[name] < 3 => UNCHANGED v3) /\ (Size[name] < 4 => UNCHANGED v4)
    /\ (Size[name] < 5 => UNCHANGED v5) /\ (Size[name] < 6 => UNCHANGED v6)
    /\ (Size[name] < 7 => UNCHANGED v7) /\ (Size[name] < 8 => UNCHANGED v8)
    /\ (Size[name] < 9 => UNCHANGED v9) /\ (Size[name] < 10 => UNCHANGED v10)
    /\ (Size[name] < 11 => UNCHANGED v11) /\ (Size[name] < 12 => UNCHANGED v12)
    /\ (Size[name] < 13 => UNCHANGED v13) /\ (Size[name] < 14 => UNCHANGED v14)
    /\ (Size[name] < 15 => UNCHANGED v15) /\ (Size[name] < 16 => UNCHANGED v16)
    /\ (Size[name] < 17 => UNCHANGED v17) /\ (Size[name] < 18 => UNCHANGED v18)
    /\ (Size[name] < 19 => UNCHANGED v19) /\ (Size[name] < 20 => UNCHANGED v20)

Init ==
    /\ part \in PartNames
    /\ \/ Mounted("auth") /\ Auth!Init
       \/ Mounted("wizard") /\ Wizard!Init
       \/ Mounted("applicant") /\ Applicant!Init
       \/ Mounted("reviewer") /\ Reviewer!Init
       \/ Mounted("editor") /\ Editor!Init
       \/ Mounted("shell") /\ Shell!Init
       \/ Mounted("birth") /\ Birth!Init
       \/ Mounted("input") /\ Input!Init
       \/ Mounted("figures") /\ Figures!Init
       \/ Mounted("failure") /\ Failure!Init
       \/ Mounted("list") /\ List!Init
       \/ Mounted("tab") /\ Tab!Init
       \/ Mounted("dialog") /\ Dialog!Init
       \/ Mounted("drawer") /\ Drawer!Init
       \/ Mounted("menu") /\ Menu!Init
       \/ Mounted("search") /\ Search!Init
       \/ Mounted("toasts") /\ Toasts!Init
       \/ Mounted("scroll") /\ Scroll!Init
       \/ Mounted("announcer") /\ Announcer!Init
       \/ Mounted("polling") /\ Polling!Init
       \/ Mounted("admin") /\ Admin!Init
       \/ Mounted("cross") /\ Cross!Init
       \/ Mounted("window") /\ Counter!Init
       \/ Mounted("rate") /\ Rate!Init
       \/ Mounted("serial") /\ Serial!Init

Next ==
    \/ Alone("auth") /\ Auth!Next
    \/ Alone("wizard") /\ Wizard!NextState
    \/ Alone("applicant") /\ Applicant!Next
    \/ Alone("reviewer") /\ Reviewer!Next
    \/ Alone("editor") /\ Editor!Next
    \/ Alone("shell") /\ Shell!Next
    \/ Alone("birth") /\ Birth!Next
    \/ Alone("input") /\ Input!Next
    \/ Alone("figures") /\ Figures!Next
    \/ Alone("failure") /\ Failure!Next
    \/ Alone("list") /\ List!ListStep
    \/ Alone("tab") /\ Tab!Next
    \/ Alone("dialog") /\ Dialog!Next
    \/ Alone("drawer") /\ Drawer!Next
    \/ Alone("menu") /\ Menu!Next
    \/ Alone("search") /\ Search!Next
    \/ Alone("toasts") /\ Toasts!Next
    \/ Alone("scroll") /\ Scroll!Next
    \/ Alone("announcer") /\ Announcer!Next
    \/ Alone("polling") /\ Polling!Next
    \/ Alone("admin") /\ Admin!Next
    \/ Alone("cross") /\ Cross!Next
    \/ Alone("window") /\ Counter!Next
    \/ Alone("rate") /\ Rate!Next
    \/ Alone("serial") /\ Serial!Next

Spec == Init /\ [][Next]_vars

(* Every request is served or lost in the end, and its answer handled;     *)
(* the clock goes on and a timer goes off; a statement ends, or one of     *)
(* those that wait for each other is ended.  Nobody has to do anything.    *)
Fairness ==
    /\ \A c \in 1..Given.auth.calls :
           /\ WF_vars(Alone("auth") /\ Auth!Serve(c))
           /\ WF_vars(Alone("auth") /\ Auth!Answer(c))
    /\ WF_vars(Alone("wizard") /\ Wizard!Serve)
    /\ WF_vars(Alone("wizard") /\ Wizard!Answer)
    /\ \A i \in 1..Given.applicant.loads :
           /\ WF_vars(Alone("applicant") /\ Applicant!ServeLoad(i))
           /\ WF_vars(Alone("applicant") /\ Applicant!ReceiveLoad(i))
           /\ WF_vars(Alone("applicant") /\ Applicant!ServeAudit(i))
           /\ WF_vars(Alone("applicant") /\ Applicant!ReceiveAudit(i))
    /\ WF_vars(Alone("applicant") /\ Applicant!ServeAction)
    /\ WF_vars(Alone("applicant") /\ Applicant!ActionDone)
    /\ WF_vars(Alone("applicant") /\ Applicant!ActionRefused)
    /\ WF_vars(Alone("applicant") /\ Applicant!Reloaded)
    /\ \A i \in 1..Given.reviewer.loads : WF_vars(Alone("reviewer") /\ Reviewer!LoadStep(i))
    /\ \A c \in 1..Given.reviewer.calls : WF_vars(Alone("reviewer") /\ Reviewer!CallStep(c))
    /\ \A n \in 1..Turns : WF_vars(Alone("editor") /\ Editor!ServeLoad(n))
    /\ \A n \in 1..Turns : WF_vars(Alone("editor") /\ Editor!ReceiveLoad(n))
    /\ \A c \in 1..FormSaves : WF_vars(Alone("editor") /\ Editor!CallStep(c))
    /\ WF_vars(Alone("shell") /\ Shell!Boot)
    /\ WF_vars(Alone("shell") /\ Shell!FollowRedirect)
    /\ WF_vars(Alone("figures") /\ (Figures!Query \/ Figures!Fail))
    /\ \A i \in 1..Given.list.requests : WF_vars(Alone("list") /\ List!Deliver(i))
    /\ \A k \in Tab!Tasks :
           /\ WF_vars(Alone("tab") /\ (\/ Tab!RefreshCheck("tab", k)
                                       \/ Tab!RefreshRotate("tab", k)
                                       \/ Tab!RefreshAnswer("tab", k)))
           /\ WF_vars(Alone("tab") /\ Tab!MeAnswer("tab", k))
    /\ \A c \in {"call", "other"} : WF_vars(Alone("tab") /\ Tab!CallAnswer("tab", c))
    /\ WF_vars(Alone("tab") /\ (Tab!SignInHandled("tab") \/ Tab!SignInAnswered("tab")))
    /\ WF_vars(Alone("tab") /\ (Tab!LogoutHandled("tab") \/ Tab!LogoutAnswer("tab")))
    /\ \A i \in 1..Given.drawer.submissions : WF_vars(Alone("drawer") /\ Drawer!Answer(i))
    /\ WF_vars(Alone("toasts") /\ Toasts!Pass)
    /\ \A id \in 1..Given.toasts.notices : WF_vars(Alone("toasts") /\ Toasts!Expire(id))
    /\ WF_vars(Alone("scroll") /\ Scroll!Observe)
    /\ WF_vars(Alone("scroll") /\ Scroll!Deliver)
    /\ WF_vars(Alone("polling") /\ Polling!Pass)
    /\ WF_vars(Alone("polling") /\ Polling!Fire)
    /\ \A i \in 0..(Given.polling.loads - 1) : WF_vars(Alone("polling") /\ Polling!Answer(i))
    /\ \A r \in Given.cross.requests : WF_vars(Alone("cross") /\ Cross!Work(r))

FairSpec == Spec /\ Fairness

-----------------------------------------------------------------------------
(* Properties: what the modules say of their parts, by what it is     *)
(* about.                                                                  *)

(* Type invariant. *)
TypeOK ==
    /\ part \in PartNames
    /\ part = "auth" => Auth!TypeOK
    /\ part = "wizard" => Wizard!TypeOK
    /\ part = "applicant" => Applicant!TypeOK
    /\ part = "reviewer" => Reviewer!TypeOK
    /\ part = "editor" => Editor!TypeOK
    /\ part = "shell" => Shell!TypeOK
    /\ part = "birth" => Birth!TypeOK
    /\ part = "figures" => Figures!TypeOK
    /\ part = "failure" => Failure!TypeOK
    /\ part = "list" => List!TypeOK
    /\ part = "dialog" => Dialog!TypeOK
    /\ part = "drawer" => Drawer!TypeOK
    /\ part = "menu" => Menu!TypeOK
    /\ part = "search" => Search!TypeOK
    /\ part = "toasts" => Toasts!TypeOK
    /\ part = "scroll" => Scroll!TypeOK
    /\ part = "announcer" => Announcer!TypeOK
    /\ part = "polling" => Polling!TypeOK
    /\ part = "admin" => Admin!TypeOK
    /\ part = "window" => Counter!TypeOK
    /\ part = "rate" => Rate!TypeOK
    /\ part = "serial" => Serial!TypeOK

(* In whatever order answers come, timers go off and addresses change, the *)
(* screen shows what was asked for last: the application, page, list or    *)
(* text that its address and its controls name.                            *)
ShownIsAsked ==
    /\ part = "applicant" => /\ Applicant!ShownIsOfAddress
                               /\ Applicant!AcknowledgedIsShown
                               /\ Applicant!TrailIsNewestAsked
    /\ part = "reviewer" => Reviewer!ShownIsOfAddress /\ Reviewer!TrailIsOfAddress
    /\ part = "shell" => /\ Shell!PagesAreServed /\ Shell!LinksLead
                           /\ Shell!ScrollLockedUnderSidebar
    /\ part = "birth" => Birth!ShownIsValue
    /\ part = "list" => List!ShownMatchesControls /\ List!LoadingIsNewestRequest
    /\ part = "search" => Search!SettledShowsValue /\ Search!ClearedStaysClear
    /\ part = "toasts" => Toasts!NoticeIsKept
    /\ part = "announcer" => Announcer!LastStands
    /\ part = "polling" => Polling!BusyIsLoad

(* What the screen says is true when it is read: notices carried to        *)
(* another page, errors at fields, waits, causes of failures, figures and  *)
(* the strength of a password.                                             *)
WordsAreTrue ==
    /\ part = "auth" => Auth!NoticesAreTrue /\ Auth!ResendIsServed
    /\ part = "wizard" => Wizard!ShownErrorsAreTrue
    /\ part = "editor" => Editor!ErrorsAreTrue
    /\ part = "input" => Input!BlurSettlesNames /\ Input!StrongIsAccepted
    /\ part = "figures" => Figures!PipelineCoversTotal /\ Figures!RateIsShare
    /\ part = "failure" => Failure!MessageIsOfCause /\ Failure!WaitIsExact
    /\ part = "drawer" => Drawer!ErrorsAreTrue

(* What is sent, or handed to the page that sends it, is complete, allowed *)
(* and of the thing the user had in view, and it is sent once.             *)
SentIsValid ==
    /\ part = "wizard" => Wizard!RegisteredIsValid
    /\ part = "editor" => Editor!UpdateIsOfLoaded
    /\ part = "birth" => Birth!ValueIsADate
    /\ part = "input" => Input!BackendNeverObjects /\ Input!RegisteredMaySignIn
    /\ part = "dialog" => Dialog!YesIsTyped
    /\ part = "drawer" => Drawer!OneAtATime

(* A click, a key, a timer or an answer acts on what is current when it    *)
(* comes, and not on what it was meant for when it was set off.            *)
StepsAreMeant ==
    [][ /\ part = "wizard" => Wizard!RefusalIsShown
        /\ part = "dialog" => Dialog!AnswerIsForShown
        /\ part = "menu" => Menu!KeysLandOnMatch /\ Menu!PickedIsOffered
        /\ part = "search" => Search!HandedOverAfterPause
        /\ part = "scroll" => Scroll!CallIsNewest
        /\ part = "polling" => Polling!NewestIsShown /\ Polling!BackoffIsKept ]_vars

(* "The last active super admin is protected": however requests to demote  *)
(* and to deactivate interleave, and whichever die, somebody is left to    *)
(* undo them.                                                              *)
LastSuperAdminStays == part = "admin" => Admin!LastSuperAdminStays

(* allow_request(): nobody is let in beyond the limit of a fixed window,   *)
(* however statements interleave, fail and meet a clean-up.                *)
WindowLimit == part = "window" => Counter!WindowLimit

(* The other limits: nobody is let in beyond a rate whose requests come    *)
(* one at a time, nor kept out without those who were let in.              *)
LimitsHold ==
    /\ part = "window" => Counter!NewWindowAdmits
    /\ part = "rate" => Rate!RefusedForOthers
    /\ part = "serial" => Serial!RateKept

Unsettled ==
    \/ part = "auth" /\ Auth!Unsettled
    \/ part = "wizard" /\ Wizard!Unsettled
    \/ part = "applicant" /\ Applicant!Unsettled
    \/ part = "reviewer" /\ Reviewer!Unsettled
    \/ part = "editor" /\ Editor!Unsettled
    \/ part = "shell" /\ Shell!Unsettled
    \/ part = "figures" /\ Figures!Unsettled
    \/ part = "list" /\ List!Unsettled
    \/ part = "tab" /\ Tab!Unsettled("call")      \* the two calls are alike
    \/ part = "drawer" /\ Drawer!Unsettled
    \/ part = "toasts" /\ Toasts!Unsettled
    \/ part = "scroll" /\ Scroll!Unsettled
    \/ part = "cross" /\ Cross!UnderWay # {}

(* Whatever is clicked, lost or refused, every loader, busy button and     *)
(* redirect ends, polling goes on while somebody looks, and a request that *)
(* waits for the rows of others is answered.                               *)
PartsSettle ==
    /\ Unsettled ~> ~Unsettled
    /\ <>[](part = "polling" /\ Polling!Visible) => []<><<part = "polling" /\ Polling!NewLoad>>_vars

-----------------------------------------------------------------------------
(* What does not hold. *)

(* "Password updated. You can sign in now.": the password that has been    *)
(* registered or chosen anew opens the account, of every input.            *)
PasswordOpens == part = "input" => Input!PasswordOpens

=============================================================================
