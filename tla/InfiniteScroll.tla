---------------------------- MODULE InfiniteScroll -----------------------------
(***************************************************************************)
(* hooks/useInfiniteScroll.ts: the sentinel below a list, the browser's    *)
(* IntersectionObserver that watches it, and the callback it runs.         *)
(***************************************************************************)
EXTENDS Naturals, Sequences, SequencesExt

CONSTANTS
    Late,       \* whether a list may render its sentinel after its first render
    Renders,    \* bound; the first one counts
    Scrolls     \* bound

InfiniteScrollAssumption ==
    Late \in BOOLEAN /\ Renders \in Nat \ {0} /\ Scrolls \in Nat

VARIABLES
    enabled,
    sentinel,   \* the sentinel is in the document
    inView,     \* and within rootMargin of the view
    observer,   \* what the observer of the last effect has seen of the sentinel
    entries,    \* what it has to report
    callback,   \* the render whose onIntersect is in callbackRef
    called,     \* the render whose onIntersect ran last
    scrolls,    \* bound
    due         \* ghost: the sentinel has come into view, and no call followed

vars == <<enabled, sentinel, inView, observer, entries, callback, called, scrolls, due>>

-----------------------------------------------------------------------------

None == "none"          \* no observer, or it watches nothing
Unseen == "unseen"      \* observe() reports once whatever it finds

(* The effect, at the first render and whenever enabled changes. *)
Effect(on, there) == IF on /\ there THEN Unseen ELSE None

Init ==
    /\ enabled \in BOOLEAN
    /\ sentinel \in (IF Late THEN BOOLEAN ELSE {TRUE})
    /\ inView \in BOOLEAN /\ (inView => sentinel)
    /\ observer = Effect(enabled, sentinel)
    /\ entries = <<>>
    /\ callback = 1
    /\ called = 0
    /\ scrolls = 0
    /\ due = (enabled /\ inView)

(* A render with a new onIntersect. *)
Render ==
    /\ callback < Renders
    /\ callback' = callback + 1
    /\ UNCHANGED <<enabled, sentinel, inView, observer, entries, called, scrolls, due>>

(* ... that renders the sentinel after all: no dependency of the effect. *)
RenderSentinel ==
    /\ ~sentinel /\ callback < Renders
    /\ sentinel' = TRUE
    /\ inView' \in BOOLEAN
    /\ callback' = callback + 1
    /\ due' = (enabled /\ inView')
    /\ UNCHANGED <<enabled, observer, entries, called, scrolls>>

\* Regression: the effect does not depend on enabled.
EffectOfFirst(on, there) == observer

(* What the effect's dependencies [enabled, rootMargin] do. *)
Rerun(on, there) == Effect(on, there)

(* ... or that switches it on or off; the clean-up disconnects. *)
Switch ==
    /\ callback < Renders
    /\ enabled' = ~enabled
    /\ callback' = callback + 1
    /\ observer' = Rerun(enabled', sentinel)
    /\ entries' = <<>>
    /\ due' = (enabled' /\ inView)
    /\ UNCHANGED <<sentinel, inView, called, scrolls>>

(* The user, or a list that grows, moves the sentinel; a move there and    *)
(* back between two frames is none.                                        *)
Scroll ==
    /\ sentinel /\ scrolls < Scrolls
    /\ inView' = ~inView
    /\ scrolls' = scrolls + 1
    /\ due' = (enabled /\ (TRUE \in ToSet(entries) \/ (inView' /\ observer # "in")))
    /\ UNCHANGED <<enabled, sentinel, observer, entries, callback, called>>

(* The browser, once a frame: a change against what was last seen. *)
Observe ==
    /\ observer # None
    /\ observer # (IF inView THEN "in" ELSE "out")
    /\ observer' = IF inView THEN "in" ELSE "out"
    /\ entries' = Append(entries, inView)
    /\ UNCHANGED <<enabled, sentinel, inView, callback, called, scrolls, due>>

\* Regression: only the first entry is looked at.
IntersectingFirst == entries[1]

(* entries.some((entry) => entry.isIntersecting) *)
Intersecting == TRUE \in ToSet(entries)

\* Regression: the observer keeps the callback of the effect's render.
CurrentOfEffect == 1

(* callbackRef.current *)
Current == callback

(* The browser hands the entries over. *)
Deliver ==
    /\ entries # <<>>
    /\ entries' = <<>>
    /\ IF Intersecting
       THEN called' = Current /\ due' = FALSE
       ELSE UNCHANGED <<called, due>>
    /\ UNCHANGED <<enabled, sentinel, inView, observer, callback, scrolls>>

Next == Render \/ (Late /\ RenderSentinel) \/ Switch \/ Scroll \/ Observe \/ Deliver

Spec == Init /\ [][Next]_vars

-----------------------------------------------------------------------------
(* Properties *)

(* Type invariant; nothing is observed while the hook is off. *)
TypeOK ==
    /\ enabled \in BOOLEAN /\ sentinel \in BOOLEAN /\ inView \in BOOLEAN
    /\ observer \in {None, Unseen, "in", "out"}
    /\ observer # None => enabled /\ sentinel
    /\ entries \in Seq(BOOLEAN)
    /\ callback \in 1..Renders /\ called \in 0..callback
    /\ scrolls \in 0..Scrolls /\ due \in BOOLEAN

(* An observer outlives many renders, and still runs the newest callback:  *)
(* an old one would load a page that has been loaded already.              *)
CallIsNewest == called' # called => called' = callback

(* The sentinel has come into view, and its callback has not run yet. *)
Unsettled == due

=============================================================================
