------------------------------- MODULE Analytics -------------------------------
(***************************************************************************)
(* AnalyticsPage.tsx and the view it asks (views/analytics.py): several    *)
(* queries, each of the database as it is at that moment, while            *)
(* applications are created, submitted and decided.  E-mail counts and     *)
(* messages are lists of the log, and left out.                            *)
(***************************************************************************)
EXTENDS Naturals, FiniteSets

CONSTANTS
    Apps,      \* the applications there can be
    Visits     \* bound: visits to the page

AnalyticsAssumption == IsFiniteSet(Apps) /\ Visits \in Nat \ {0}

VARIABLES
    status,     \* status[a], or "none" before it is created
    step,       \* the query the request has reached, or what became of it
    total,      \* KYCApplication.objects.count()
    pipeline,   \* by_status
    recent,     \* submitted_last_30_days
    page,       \* "left", "loading", "shown" or "failed"
    data,       \* what the page shows
    visits      \* bound

counts == <<total, pipeline, recent>>
vars == <<status, step, counts, page, data, visits>>

-----------------------------------------------------------------------------
(* Data *)

Statuses == {"draft", "submitted", "approved", "rejected", "resubmission_requested"}

(* The moves an application can make. *)
Moves == {<<"none", "draft">>, <<"draft", "submitted">>,
          <<"submitted", "approved">>, <<"submitted", "rejected">>,
          <<"submitted", "resubmission_requested">>,
          <<"resubmission_requested", "submitted">>}

With(s) == Cardinality({a \in Apps : status[a] = s})
Created == Cardinality({a \in Apps : status[a] # "none"})
EverSubmitted == Cardinality({a \in Apps : status[a] \notin {"none", "draft"}})

ByStatus == [s \in Statuses |-> With(s)]
Nothing == [s \in Statuses |-> 0]
Sum(p) == p["draft"] + p["submitted"] + p["approved"] + p["rejected"]
            + p["resubmission_requested"]

NoData == [total |-> 0, recent |-> 0, pending |-> 0, approved |-> 0, decided |-> 0,
           pipeline |-> Nothing]

-----------------------------------------------------------------------------
(* The page and the request *)

Init ==
    /\ status \in [Apps -> {"none", "draft", "submitted"}]
    /\ step = "none"
    /\ total = 0 /\ pipeline = Nothing /\ recent = 0
    /\ page = "left"
    /\ data = NoData
    /\ visits = 0

(* The page is mounted, and asks once. *)
Open ==
    /\ page = "left" /\ visits < Visits
    /\ visits' = visits + 1
    /\ page' = "loading"
    /\ data' = NoData
    /\ step' = "total"
    /\ UNCHANGED <<status, counts>>

(* Unmounted; the answer will find nothing. *)
Leave ==
    /\ page # "left"
    /\ page' = "left"
    /\ step' = "none"
    /\ UNCHANGED <<status, counts, data, visits>>

CountTotal ==
    /\ step = "total"
    /\ step' = "pipeline"
    /\ total' = Created
    /\ UNCHANGED <<status, pipeline, recent, page, data, visits>>

CountPipeline ==
    /\ step = "pipeline"
    /\ step' = "recent"
    /\ pipeline' = ByStatus
    /\ UNCHANGED <<status, total, recent, page, data, visits>>

(* submitted_at is set by the first submission; all of them are recent. *)
CountRecent ==
    /\ step = "recent"
    /\ step' = "answer"
    /\ recent' = EverSubmitted
    /\ UNCHANGED <<status, total, pipeline, page, data, visits>>

\* Regression: the applications are counted when the answer is written.
FiguresTotalLast ==
    [total |-> Created, recent |-> recent, pending |-> pipeline["submitted"],
     approved |-> pipeline["approved"],
     decided |-> pipeline["approved"] + pipeline["rejected"],
     pipeline |-> pipeline]

\* Regression: approved applications are counted by a query of their own.
FiguresAsked ==
    [total |-> total, recent |-> recent, pending |-> pipeline["submitted"],
     approved |-> With("approved"), decided |-> pipeline["approved"] + pipeline["rejected"],
     pipeline |-> pipeline]

(* The rate is approved of decided, both from by_status. *)
Figures ==
    [total |-> total, recent |-> recent, pending |-> pipeline["submitted"],
     approved |-> pipeline["approved"],
     decided |-> pipeline["approved"] + pipeline["rejected"],
     pipeline |-> pipeline]

(* The answer, and setData(). *)
Show ==
    /\ step = "answer"
    /\ step' = "none"
    /\ data' = Figures
    /\ page' = "shown"
    /\ UNCHANGED <<status, counts, visits>>

\* Regression: the error of a failed query is not caught.
FailUncaught ==
    /\ step # "none"
    /\ step' = "none"
    /\ UNCHANGED <<status, counts, page, data, visits>>

(* Any query fails, or the network does: the error takes the page. *)
Fail ==
    /\ step # "none"
    /\ step' = "none"
    /\ page' = "failed"
    /\ UNCHANGED <<status, counts, data, visits>>

(* The Application API at work. *)
Move(a) ==
    /\ \E m \in Moves : status[a] = m[1] /\ status' = [status EXCEPT ![a] = m[2]]
    /\ UNCHANGED <<step, counts, page, data, visits>>

Query == CountTotal \/ CountPipeline \/ CountRecent \/ Show

Next == Open \/ Leave \/ Query \/ Fail \/ \E a \in Apps : Move(a)

Spec == Init /\ [][Next]_vars

-----------------------------------------------------------------------------
(* Properties *)

(* Type invariant. *)
TypeOK ==
    /\ status \in [Apps -> Statuses \cup {"none"}]
    /\ step \in {"none", "total", "pipeline", "recent", "answer"}
    /\ total \in Nat /\ recent \in Nat
    /\ pipeline \in [Statuses -> Nat]
    /\ page \in {"left", "loading", "shown", "failed"}
    /\ data.pipeline \in [Statuses -> Nat]
    /\ (step # "none" <=> page = "loading")

(* The page divides every bar by the sum of the pipeline and shows the     *)
(* total beside it: though the counts are of different moments, the        *)
(* pipeline never has fewer applications than the total.                   *)
PipelineCoversTotal == page = "shown" => Sum(data.pipeline) >= data.total

(* The approval rate is a share, and of the applications the pipeline      *)
(* shows, whatever is decided while the request is served.                 *)
RateIsShare ==
    page = "shown" => /\ data.approved <= data.decided
                      /\ data.approved = data.pipeline["approved"]

(* The page waits for its figures, of which each is a query of its own. *)
Unsettled == page = "loading"

=============================================================================
