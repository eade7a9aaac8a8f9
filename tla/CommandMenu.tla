------------------------------ MODULE CommandMenu ------------------------------
(***************************************************************************)
(* components/ui/CommandMenu.tsx: a list of options with a filter and a    *)
(* highlight that the keyboard moves.  The options are the caller's, who   *)
(* may hand over others at any render, also while the menu is open.        *)
(***************************************************************************)
EXTENDS Integers, Sequences, FiniteSetsExt

CONSTANTS
    Lists,       \* lists of options the caller may hand over: sequences of values
    Picks,       \* the values of options
    Queries,     \* what can be typed to filter
    NoQuery,     \* the empty filter
    Hits         \* Hits[q]: the values whose label, hint or keywords contain q

MenuAssumption ==
    /\ Lists \subseteq Seq(Picks)
    /\ NoQuery \in Queries
    /\ Hits \in [Queries -> SUBSET Picks]
    /\ Hits[NoQuery] = Picks

VARIABLES
    options,      \* the values of the options, in their order
    disabled,     \* the values of those that are disabled
    value,        \* the caller's
    open,
    query,
    highlight     \* counted from 0, as matches is

props == <<options, disabled, value>>
vars == <<props, open, query, highlight>>

-----------------------------------------------------------------------------

(* matches, by their places in the options. *)
Found(list, q) == {i \in DOMAIN list : list[i] \in Hits[q]}
Matches == Found(options, query)
Count == Cardinality(Matches)

\* The index in matches of the option at place i, and matches[n].
Rank(i) == Cardinality({j \in Matches : j < i})
MatchAt(n) == options[CHOOSE i \in Matches : Rank(i) = n]

\* findIndex(), -1 if there is none.
Holding(v) == {i \in Matches : options[i] = v}
IndexOf(v) == IF Holding(v) = {} THEN -1 ELSE Rank(Min(Holding(v)))

AtLeast0(n) == IF n < 0 THEN 0 ELSE n

Init ==
    /\ options \in Lists
    /\ disabled \in SUBSET Picks
    /\ value \in Picks
    /\ open = FALSE
    /\ query = NoQuery
    /\ highlight = 0

\* Regression: an index that is not found is kept.
OpenMenuUnclamped ==
    /\ ~open
    /\ open' = TRUE
    /\ query' = NoQuery
    /\ highlight' = IndexOf(value)
    /\ UNCHANGED props

(* openMenu().  The highlight is looked up among the matches of this       *)
(* render, that is, of the filter of before; it stays a place in the list. *)
OpenMenu ==
    /\ ~open
    /\ open' = TRUE
    /\ query' = NoQuery
    /\ highlight' = AtLeast0(IndexOf(value))
    /\ UNCHANGED props

(* The button again, Escape, or the focus leaving. *)
CloseMenu ==
    /\ open
    /\ open' = FALSE
    /\ UNCHANGED <<props, query, highlight>>

\* Regression: the highlight stays where it is.
TypeInPlace(q) ==
    /\ open
    /\ query' = q
    /\ UNCHANGED <<props, open, highlight>>

(* Typing moves the highlight to the first match. *)
Type(q) ==
    /\ open
    /\ query' = q
    /\ highlight' = 0
    /\ UNCHANGED <<props, open>>

(* move(): a remainder, around both ends. *)
Move(delta) ==
    /\ open
    /\ Matches # {}
    /\ highlight' = (highlight + delta + Count) % Count
    /\ UNCHANGED <<props, open, query>>

Home ==
    /\ open
    /\ highlight' = 0
    /\ UNCHANGED <<props, open, query>>

End ==
    /\ open
    /\ highlight' = AtLeast0(Count - 1)
    /\ UNCHANGED <<props, open, query>>

(* onMouseEnter of an option. *)
Hover(i) ==
    /\ open
    /\ i < Count
    /\ highlight' = i
    /\ UNCHANGED <<props, open, query>>

\* Regression: only the button keeps a disabled option from being picked.
CommitAny(v) ==
    /\ value' = v
    /\ open' = FALSE
    /\ UNCHANGED <<options, disabled, query, highlight>>

(* commit() *)
Commit(v) ==
    /\ v \notin disabled
    /\ value' = v
    /\ open' = FALSE
    /\ UNCHANGED <<options, disabled, query, highlight>>

(* Enter picks matches[highlight], if there is one. *)
Enter ==
    /\ open
    /\ highlight < Count
    /\ Commit(MatchAt(highlight))

(* A click on an option, whose button is disabled as the option is. *)
Click(i) ==
    /\ open
    /\ i < Count
    /\ MatchAt(i) \notin disabled
    /\ Commit(MatchAt(i))

(* The caller's next render, with other options. *)
Render ==
    /\ options' \in Lists
    /\ disabled' \in SUBSET Picks
    /\ UNCHANGED <<value, open, query, highlight>>

Places == 0..(Cardinality(Picks) - 1)

Key == (\E d \in {1, -1} : Move(d)) \/ Home \/ End

Next ==
    \/ OpenMenu \/ CloseMenu \/ Key \/ Enter \/ Render
    \/ \E q \in Queries : Type(q)
    \/ \E i \in Places : Hover(i) \/ Click(i)

Spec == Init /\ [][Next]_vars

-----------------------------------------------------------------------------
(* Properties *)

(* Type invariant; the highlight is the first place, or one of some list. *)
TypeOK ==
    /\ options \in Lists
    /\ disabled \subseteq Picks
    /\ value \in Picks
    /\ open \in BOOLEAN
    /\ query \in Queries
    /\ highlight \in Nat
    /\ highlight = 0 \/ \E list \in Lists : highlight < Len(list)

(* aria-activedescendant and Enter go by the highlight.  Options that come *)
(* and go may leave it past the end; whatever the user does next with the  *)
(* keyboard puts it on a match again, if the filter leaves any.            *)
KeysLandOnMatch ==
    open' /\ options' = options /\ (query' # query \/ highlight' # highlight \/ ~open)
        => Found(options, query') = {} \/ highlight' < Cardinality(Found(options, query'))

(* `disabledOptions` "keeps choices visible but unpickable": what is       *)
(* picked, by click or by Enter, is an enabled option that is shown.       *)
PickedIsOffered ==
    value' # value => open /\ value' \in {options[i] : i \in Matches} \ disabled

=============================================================================
