------------------------------- MODULE Announcer -------------------------------
(***************************************************************************)
(* hooks/useAnnouncer.ts: the live region of a page, and the announcements *)
(* that are written to it 30 ms after it has been emptied.                 *)
(***************************************************************************)
EXTENDS Naturals, Sequences, SequencesExt

CONSTANTS
    Texts,      \* messages
    Blank,      \* the empty region
    Calls,      \* bound: announce() calls
    Mounts      \* bound: pages that use the hook, one after the other

AnnouncerAssumption ==
    /\ Blank \notin Texts
    /\ Calls \in Nat /\ Mounts \in Nat \ {0}

VARIABLES
    mounted,
    page,       \* number of the page
    region,     \* text of its region
    timers,     \* announcements to come, in the order they come
    messages    \* what has been announced, and on which page

vars == <<mounted, page, region, timers, messages>>

-----------------------------------------------------------------------------

Init ==
    /\ mounted = TRUE
    /\ page = 1
    /\ region = Blank
    /\ timers = <<>>
    /\ messages = <<>>

\* Regression: an announcement to come keeps newer ones out.
StartUnlessBusy(timer) == timers' = IF timers = <<>> THEN <<timer>> ELSE timers

(* setTimeout: the timers are 30 ms each and go off in their order. *)
Start(timer) == timers' = Append(timers, timer)

(* announce(); a page that has gone announces nothing more. *)
Announce ==
    /\ mounted
    /\ Len(messages) < Calls
    /\ \E text \in Texts :
         /\ messages' = Append(messages, [text |-> text, page |-> page])
         /\ Start(Len(messages'))
    /\ region' = Blank
    /\ UNCHANGED <<mounted, page>>

\* Regression: the timer writes to whatever region there is now.
ToRegion(timer) == mounted

(* The timer's el: the region of its own page, that may have been removed. *)
ToShown(timer) == mounted /\ messages[timer].page = page

Fire ==
    /\ timers # <<>>
    /\ timers' = Tail(timers)
    /\ IF ToShown(Head(timers))
       THEN region' = messages[Head(timers)].text
       ELSE UNCHANGED region
    /\ UNCHANGED <<mounted, page, messages>>

Unmount ==
    /\ mounted
    /\ mounted' = FALSE
    /\ region' = Blank
    /\ UNCHANGED <<page, timers, messages>>

Mount ==
    /\ ~mounted /\ page < Mounts
    /\ mounted' = TRUE
    /\ page' = page + 1
    /\ UNCHANGED <<region, timers, messages>>

Next == Announce \/ Fire \/ Unmount \/ Mount

Spec == Init /\ [][Next]_vars

-----------------------------------------------------------------------------
(* Properties *)

OfPage == {n \in 1..Len(messages) : messages[n].page = page}

(* Type invariant; the region holds a text of its own page. *)
TypeOK ==
    /\ mounted \in BOOLEAN /\ page \in 1..Mounts
    /\ messages \in Seq([text : Texts, page : 1..page])
    /\ timers \in Seq(1..Len(messages))
    /\ region # Blank => mounted /\ \E n \in OfPage : messages[n].text = region

(* When all is quiet, the region holds the last announcement of its page:  *)
(* that one is what a reader who looks later finds.                        *)
LastStands ==
    mounted /\ OfPage # {} /\ timers = <<>> => region = messages[Len(messages)].text

=============================================================================
