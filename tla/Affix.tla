------------------------------- MODULE Affix -------------------------------
(***************************************************************************)
(* The affix plugin of bootstrap.js: an element that scrolls with the page *)
(* at its top, stays where it is in the window further down, and is held   *)
(* above the footer at the bottom.  The state depends on the position of   *)
(* the element, and the position on the classes the state gives it.        *)
(***************************************************************************)
EXTENDS Integers

CONSTANTS
    Height,        \* scrollHeight, the height of the document
    Window,        \* targetHeight, the height of the window
    Element,       \* the height of the element
    Pinned,        \* its top in the window where the class affix puts it
    Natural,       \* its top in the page with affix-bottom and no css top
    OffsetTop, OffsetBottom

VARIABLE affix

(***************************************************************************)
(* affixed: "null" before the first check, "no" for false.  placed: the    *)
(* element has the css top that offset gives it at the bottom.  checks:    *)
(* how often checkPosition has run since the last scroll, up to 2.  vetoes *)
(* are the changes whose events a listener of the page cancels.            *)
(***************************************************************************)
TypeOK ==
    affix \in [affixed : {"null", "no", "top", "bottom"},
               placed : BOOLEAN, vetoes : SUBSET {"no", "top", "bottom"},
               scrollTop : 0 .. Height - Window, checks : 0..2]

Limit == Height - OffsetBottom - Element

(***************************************************************************)
(* Mutant: the offset that checkPosition sets at the bottom has no effect. *)
(***************************************************************************)
TopPinned(a) == a.scrollTop + Pinned

(***************************************************************************)
(* position.top, as the styles of the page make it where getState asks.    *)
(***************************************************************************)
Top(a) ==
    CASE a.placed -> Limit
      [] ~a.placed /\ a.affixed = "bottom" -> Natural
      [] OTHER -> a.scrollTop + Pinned

GetState(a) ==
    LET fresh == a.affixed = "null"
        unpin == Pinned
        lower == IF fresh THEN a.scrollTop + Window ELSE Top(a) + Element
    IN  CASE a.affixed = "top" ->
               IF a.scrollTop < OffsetTop THEN "top" ELSE "no"
          [] a.affixed = "bottom" ->
               IF a.scrollTop + unpin <= Top(a) THEN "no" ELSE "bottom"
          [] a.affixed \in {"no", "null"} ->
               IF a.scrollTop <= OffsetTop THEN "top"
               ELSE IF lower >= Height - OffsetBottom THEN "bottom"
               ELSE "no"

(***************************************************************************)
(* checkPosition, with getPinnedOffset, which finds Pinned, at the bottom. *)
(* A change takes the css top away before the listener is asked, and a     *)
(* change that the listener cancels does not put it back.                  *)
(***************************************************************************)
Checked(a) ==
    LET state == GetState(a)
        refused == state # a.affixed /\ state \in a.vetoes
    IN  [a EXCEPT !.affixed = IF refused THEN @ ELSE state,
                  !.placed = state = "bottom" /\ ~refused,
                  !.checks = IF @ < 2 THEN @ + 1 ELSE @]

Init ==
    \E top \in 0 .. Height - Window,
       vetoes \in SUBSET {"no", "top", "bottom"} :
        affix = Checked([affixed |-> "null", placed |-> FALSE,
                         vetoes |-> vetoes, scrollTop |-> top,
                         checks |-> 0])

Scroll ==
    \E top \in 0 .. Height - Window :
        affix' = [affix EXCEPT !.scrollTop = top, !.checks = 0]

(***************************************************************************)
(* The handler of scroll, or the timer of checkPositionWithEventLoop.      *)
(***************************************************************************)
CheckPosition == affix' = Checked(affix)

Next == Scroll \/ CheckPosition

-----------------------------------------------------------------------------
Edges == {OffsetTop, Limit - Pinned}

(***************************************************************************)
(* The element comes to rest: two checks after a scroll, the checks that   *)
(* follow change neither its state nor its place.  Not so at the two       *)
(* edges, where each check undoes the one before it, and not where a       *)
(* listener cancels the change back from the bottom: checkPosition takes   *)
(* the css top away, is refused, finds the element elsewhere at the next   *)
(* check and puts it back.                                                 *)
(***************************************************************************)
NoFlicker ==
    /\ affix.checks = 2 /\ affix'.checks = 2
    /\ affix.scrollTop \notin Edges
    /\ affix.affixed = "bottom" => "no" \notin affix.vetoes
    => affix'.affixed = affix.affixed /\ Top(affix') = Top(affix)
=============================================================================
