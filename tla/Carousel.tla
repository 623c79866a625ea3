------------------------------ MODULE Carousel ------------------------------
(***************************************************************************)
(* The carousel of bootstrap.js: N items of which one is active, slides    *)
(* from one to another that take time, positions asked for during a slide, *)
(* and the interval that moves it on.  The keyboard runs prev and next, as *)
(* the arrows do; the indicators are left out.                             *)
(***************************************************************************)
EXTENDS Integers, Sequences

CONSTANTS
    N,            \* the number of items, not 0
    MaxDeferred   \* bound: positions that wait for the end of a slide

VARIABLE carousel

Items == 0 .. N - 1
None == -1

(***************************************************************************)
(* moving is $next while its slide is in transition.  slids are the events *)
(* slid that setTimeout will trigger, deferred the positions whose         *)
(* handlers wait for one.  interval: a timer is set; every says that the   *)
(* option interval is, wrap is the option, and vetoed that a listener of   *)
(* the page cancels slide.  Two history variables are there to state the   *)
(* properties: asked is the position the user has asked for last, and      *)
(* overtaken the last of those that waited when that was slid to at once.  *)
(***************************************************************************)
TypeOK ==
    carousel \in [every : BOOLEAN, animate : BOOLEAN, wrap : BOOLEAN,
                  vetoed : BOOLEAN, active : Items,
                  sliding : BOOLEAN, moving : Items \cup {None}, slids : Nat,
                  deferred : Seq(Items), paused : BOOLEAN,
                  interval : BOOLEAN, asked : Items \cup {None},
                  overtaken : Items \cup {None}]

(***************************************************************************)
(* Carousel, and the Plugin that starts the cycle.                         *)
(***************************************************************************)
Init ==
    \E every, animate, wrap, vetoed \in BOOLEAN :
        carousel = [every |-> every, animate |-> animate, wrap |-> wrap,
                    vetoed |-> vetoed, active |-> 0,
                    sliding |-> FALSE, moving |-> None, slids |-> 0,
                    deferred |-> <<>>, paused |-> FALSE, interval |-> every,
                    asked |-> None, overtaken |-> None]

-----------------------------------------------------------------------------
(***************************************************************************)
(* cycle and pause, called by a handler with its event or without one.     *)
(***************************************************************************)
Cycle(c, byEvent) ==
    LET paused == byEvent /\ c.paused
    IN  [c EXCEPT !.paused = paused, !.interval = c.every /\ ~paused]

Pause(c, byEvent) ==
    [c EXCEPT !.paused = @ \/ ~byEvent, !.interval = FALSE]

(***************************************************************************)
(* slide: a carousel that cycles is paused and set going again.            *)
(***************************************************************************)
Slide(c, next) ==
    IF next = c.active THEN [c EXCEPT !.sliding = FALSE]
    ELSE IF c.vetoed THEN c
    ELSE LET held == IF c.interval THEN Pause(c, FALSE) ELSE c
             moved == IF c.animate
                      THEN [held EXCEPT !.sliding = TRUE, !.moving = next]
                      ELSE [held EXCEPT !.sliding = FALSE, !.active = next]
         IN  IF c.interval THEN Cycle(moved, FALSE) ELSE moved

(***************************************************************************)
(* Mutant: a position asked for during a slide is forgotten.               *)
(***************************************************************************)
ToDropped(c, pos) ==
    IF pos \notin Items \/ c.sliding THEN c
    ELSE IF pos = c.active THEN Cycle(Pause(c, FALSE), FALSE)
    ELSE Slide(c, pos)

(***************************************************************************)
(* to: a position asked for during a slide waits for its end.              *)
(***************************************************************************)
To(c, pos) ==
    IF pos \notin Items THEN c
    ELSE IF c.sliding THEN [c EXCEPT !.deferred = Append(@, pos)]
    ELSE IF pos = c.active THEN Cycle(Pause(c, FALSE), FALSE)
    ELSE Slide(c, pos)

(***************************************************************************)
(* getItemForDirection.  Mutant: the index is not wrapped.                 *)
(***************************************************************************)
NeighbourUnwrapped(c, step) ==
    IF c.wrap \/ c.active + step \in Items THEN c.active + step ELSE c.active

Neighbour(c, step) ==
    IF c.wrap \/ c.active + step \in Items
    THEN (c.active + step) % N
    ELSE c.active

-----------------------------------------------------------------------------
Idle(c) == ~c.sliding /\ c.slids = 0 /\ c.deferred = <<>>

Ready == Len(carousel.deferred) < MaxDeferred /\ carousel.slids < MaxDeferred

(***************************************************************************)
(* After a slide and before its event slid positions may be waiting, and   *)
(* what is asked for now is slid to at once, ahead of them.                *)
(***************************************************************************)
InGap(c) == ~c.sliding /\ c.deferred # <<>>

Asked(c, pos) ==
    [c EXCEPT !.asked = pos,
              !.overtaken = IF InGap(carousel)
                            THEN carousel.deferred[Len(carousel.deferred)]
                            ELSE None]

(***************************************************************************)
(* A click on an indicator, on an arrow, and the timer of the interval,    *)
(* which takes over unless positions wait.                                 *)
(***************************************************************************)
ClickTo(pos) ==
    /\ Ready
    /\ carousel' = IF pos \in Items THEN Asked(To(carousel, pos), pos)
                                    ELSE To(carousel, pos)

ClickStep(step) ==
    /\ Ready
    /\ ~carousel.sliding
    /\ carousel' = Asked(Slide(carousel, Neighbour(carousel, step)),
                         Neighbour(carousel, step))

Tick ==
    /\ Ready
    /\ carousel.interval
    /\ ~carousel.sliding
    /\ LET ticked == Slide(carousel, Neighbour(carousel, 1))
       IN  carousel' = IF InGap(carousel) THEN ticked
                                          ELSE Asked(ticked, None)

(***************************************************************************)
(* The pointer comes and goes; the page's script calls pause and cycle.    *)
(***************************************************************************)
Hold(byEvent) == carousel' = Pause(carousel, byEvent)

Release(byEvent) == carousel' = Cycle(carousel, byEvent)

(***************************************************************************)
(* The transition of the active item ends; the event slid is triggered by  *)
(* a timer of 0 ms after that, and another slide may begin in between.     *)
(***************************************************************************)
TransitionEnd ==
    /\ carousel.moving # None
    /\ carousel' = [carousel EXCEPT !.active = carousel.moving,
                       !.moving = None, !.sliding = FALSE, !.slids = @ + 1]

(***************************************************************************)
(* The positions whose handlers are bound anew once asked[i] slides.       *)
(* Mutant: none is.                                                        *)
(***************************************************************************)
NoneAfter(asked, i) == <<>>

After(asked, i) == SubSeq(asked, i + 1, Len(asked))

(***************************************************************************)
(* The one-shot handlers of slid call to again, in the order in which they *)
(* were bound: once one of them slides, those after it are bound anew.     *)
(***************************************************************************)
Slid ==
    /\ carousel.slids > 0
    /\ LET c == [carousel EXCEPT !.slids = @ - 1]
           asked == c.deferred
           moves == {i \in DOMAIN asked : asked[i] # c.active}
           first == CHOOSE i \in moves : \A j \in moves : i <= j
           restarted == IF asked # <<>> /\ first # 1
                        THEN Cycle(Pause(c, FALSE), FALSE) ELSE c
       IN  carousel' =
             CASE c.sliding \/ asked = <<>> -> c
               [] ~c.sliding /\ asked # <<>> /\ moves = {} ->
                    [Cycle(Pause(c, FALSE), FALSE) EXCEPT !.deferred = <<>>]
               [] OTHER ->
                    Slide([restarted EXCEPT !.deferred = After(asked, first)],
                          asked[first])

Next ==
    \/ \E pos \in 0..N : ClickTo(pos)
    \/ \E step \in {-1, 1} : ClickStep(step)
    \/ Tick
    \/ \E byEvent \in BOOLEAN : Hold(byEvent) \/ Release(byEvent)
    \/ TransitionEnd
    \/ Slid

SlidAtRest == ~carousel.sliding /\ Slid

Spec == Init /\ [][Next]_carousel

-----------------------------------------------------------------------------
(***************************************************************************)
(* Where the carousel is to come to rest: at the position asked for last,  *)
(* or at the one that was overtaken.                                       *)
(***************************************************************************)
Wanted(c) == IF c.overtaken = None THEN c.asked ELSE c.overtaken

(***************************************************************************)
(* The position asked for last is shown in the end, with one exception: if *)
(* it was asked for between the end of a slide and its event slid, while   *)
(* others waited, it is slid to at once, and the others after it, so that  *)
(* the last of those is shown in the end.  No position is lost, and those  *)
(* that wait keep their order.                                             *)
(***************************************************************************)
LastAskedWins ==
    Idle(carousel) /\ carousel.asked # None /\ ~carousel.vetoed =>
        carousel.active = Wanted(carousel)

(***************************************************************************)
(* A position is the one to come to rest at, in a carousel that no         *)
(* interval moves on; and it is there, or another one is wanted by now.    *)
(***************************************************************************)
IsAsked(p) == Wanted(carousel) = p /\ ~carousel.every /\ ~carousel.vetoed

IsReached(p) == carousel.active = p \/ Wanted(carousel) # p
=============================================================================
