----------------------------- MODULE Placement -----------------------------
(***************************************************************************)
(* Where a tip of bootstrap.js goes: the side of its element, the shift    *)
(* that keeps it in the window, and the arrow that points at the element.  *)
(* The viewport is the body, the default.  Tooltip has the events that     *)
(* show and hide a tip; here it is shown, hidden, and the page scrolls.    *)
(*                                                                         *)
(* Lengths are in half pixels, so that the widths and heights that the     *)
(* code halves are even.  The page does not scroll sideways.  Margins and  *)
(* the rounding of the first position are left out.                        *)
(***************************************************************************)
EXTENDS Integers

CONSTANTS
    WindowWidth, WindowHeight, DocumentHeight,
    ElementWidth, ElementHeight,
    TipWidth, TipHeight,      \* of a tip with space
    LineWidth, WrappedHeight, \* the least width, the height if narrower
    Paddings                  \* values of options.viewport.padding

VARIABLE place

(***************************************************************************)
(* A length is a whole number, a tip that is measured is on one line, and  *)
(* its widest word is no wider than that.                                  *)
(***************************************************************************)
LengthsOK ==
    /\ {WindowWidth, WindowHeight, DocumentHeight, ElementWidth,
        ElementHeight, TipWidth, TipHeight, LineWidth,
        WrappedHeight} \subseteq Nat
    /\ Paddings \subseteq Nat
    /\ LineWidth <= TipWidth /\ TipWidth <= WindowWidth

Sides == {"top", "bottom", "left", "right"}

(***************************************************************************)
(* at, tip and arrow are the side, the box and the distance of the arrow   *)
(* from the left or the top of the box; reflowed says that the box has     *)
(* changed its size after its last move.                                   *)
(***************************************************************************)
Boxes == [left : Int, top : Int, width : Int, height : Int]

Hidden == [at |-> "nowhere"]

TypeOK ==
    /\ place.page \in [left : Int, top : Int, scroll : Int, padding : Int,
                       placement : Sides, auto : BOOLEAN]
    /\ \/ place.shown = Hidden
       \/ place.shown \in [at : Sides, tip : Boxes, arrow : Int,
                           reflowed : BOOLEAN]

Scrolls == 0 .. DocumentHeight - WindowHeight

Init ==
    \E left \in 0 .. WindowWidth - ElementWidth,
       top \in 0 .. DocumentHeight - ElementHeight,
       scroll \in Scrolls, padding \in Paddings,
       placement \in Sides, auto \in BOOLEAN :
        place = [page |-> [left |-> left, top |-> top, scroll |-> scroll,
                           padding |-> padding, placement |-> placement,
                           auto |-> auto],
                 shown |-> Hidden]

-----------------------------------------------------------------------------
(***************************************************************************)
(* getPosition of the element and of the body: top and left count from the *)
(* top of the page, right and bottom from the corner of the window.        *)
(***************************************************************************)
Position(page) ==
    [top |-> page.top, left |-> page.left,
     right |-> page.left + ElementWidth,
     bottom |-> page.top - page.scroll + ElementHeight,
     width |-> ElementWidth, height |-> ElementHeight]

BodyPosition(page) ==
    [top |-> 0, left |-> 0, right |-> WindowWidth,
     bottom |-> DocumentHeight - page.scroll,
     width |-> WindowWidth, height |-> WindowHeight, scroll |-> page.scroll]

(***************************************************************************)
(* The browser's layout: a tip is no wider than the space to its right.    *)
(* A tip is measured at the left of the page.                              *)
(***************************************************************************)
Fitted(left) ==
    LET space == WindowWidth - left IN
    IF TipWidth <= space
    THEN [width |-> TipWidth, height |-> TipHeight]
    ELSE [width |-> IF LineWidth <= space THEN space ELSE LineWidth,
          height |-> WrappedHeight]

Measured == Fitted(0)

(***************************************************************************)
(* placement "auto": the other side if this one has no space; bottom is    *)
(* where the page ends.                                                    *)
(***************************************************************************)
Turned(page, bottom) ==
    LET pos == Position(page)
        body == BodyPosition(page)
    IN IF page.placement = "bottom"
          /\ pos.bottom + Measured.height > bottom THEN "top"
       ELSE IF page.placement = "top"
               /\ pos.top - Measured.height < body.top THEN "bottom"
       ELSE IF page.placement = "right"
               /\ pos.right + Measured.width > body.width THEN "left"
       ELSE IF page.placement = "left"
               /\ pos.left - Measured.width < body.left THEN "right"
       ELSE page.placement

AutoPlacement(page) == Turned(page, BodyPosition(page).bottom)

IsVertical(side) == side \in {"top", "bottom"}

CalculatedOffset(side, pos, width, height) ==
    LET middleLeft == pos.left + pos.width \div 2 - width \div 2
        middleTop == pos.top + pos.height \div 2 - height \div 2
    IN IF side = "bottom"
       THEN [top |-> pos.top + pos.height, left |-> middleLeft]
       ELSE IF side = "top"
       THEN [top |-> pos.top - height, left |-> middleLeft]
       ELSE IF side = "left"
       THEN [top |-> middleTop, left |-> pos.left - width]
       ELSE [top |-> middleTop, left |-> pos.left + pos.width]

(***************************************************************************)
(* Mutant: the window is taken to be at the top of the page.               *)
(***************************************************************************)
ViewportAdjustedDeltaUnscrolled(side, page, offset, width, height) ==
    LET body == BodyPosition(page)
        topEdge == offset.top - page.padding
        bottomEdge == offset.top + page.padding + height
    IN [left |-> 0,
        top |-> IF topEdge < body.top THEN body.top - topEdge
                ELSE IF bottomEdge > body.top + body.height
                     THEN body.top + body.height - bottomEdge
                     ELSE 0]

(***************************************************************************)
(* getViewportAdjustedDelta: the shift along the element that brings the   *)
(* tip into the window.                                                    *)
(***************************************************************************)
Shift(low, high, from, to, size) ==
    IF low < from THEN from - low
    ELSE IF high > to THEN from + size - high
    ELSE 0

ViewportAdjustedDelta(side, page, offset, width, height) ==
    LET body == BodyPosition(page)
        topEdge == offset.top - page.padding - body.scroll
        bottomEdge == offset.top + page.padding - body.scroll + height
        leftEdge == offset.left - page.padding
        rightEdge == offset.left + page.padding + width
    IN IF IsVertical(side)
       THEN [top |-> 0,
             left |-> Shift(leftEdge, rightEdge, body.left, body.right,
                            body.width)]
       ELSE [top |-> Shift(topEdge, bottomEdge, body.top,
                           body.top + body.height, body.height),
             left |-> 0]

(***************************************************************************)
(* Mutants of ApplyPlacement: the arrow does not know of the reflow; a tip *)
(* above its element is not moved when it has become higher.               *)
(***************************************************************************)
ArrowDeltaAsWas(side, delta, was, size) ==
    IF IsVertical(side) THEN delta.left * 2 ELSE delta.top * 2

ArrowDelta(side, delta, was, size) ==
    IF IsVertical(side) THEN delta.left * 2 - was.width + size.width
                        ELSE delta.top * 2 - was.height + size.height

KeptOffset(side, offset, was, size) == offset

(***************************************************************************)
(* A tip above its element that became higher is moved up.                 *)
(***************************************************************************)
CorrectedOffset(side, offset, was, size) ==
    IF side = "top" /\ size.height # was.height
    THEN [offset EXCEPT !.top = @ + was.height - size.height]
    ELSE offset

MovedOffset(offset, delta) ==
    IF delta.left # 0 THEN [offset EXCEPT !.left = @ + delta.left]
                      ELSE [offset EXCEPT !.top = @ + delta.top]

(***************************************************************************)
(* replaceArrow: 50 * (1 - delta / dimension) percent of dimension.        *)
(***************************************************************************)
ReplaceArrow(delta, dimension) == (dimension - delta) \div 2

ApplyPlacement(page, first, side) ==
    LET size == Fitted(first.left)
        offset == CorrectedOffset(side, first, Measured, size)
        delta == ViewportAdjustedDelta(side, page, offset,
                                       size.width, size.height)
        last == MovedOffset(offset, delta)
        box == Fitted(last.left)
    IN [at |-> side,
        tip |-> [left |-> last.left, top |-> last.top,
                 width |-> box.width, height |-> box.height],
        arrow |-> ReplaceArrow(ArrowDelta(side, delta, Measured, size),
                               IF IsVertical(side) THEN box.width
                                                   ELSE box.height),
        reflowed |-> box # size]

(***************************************************************************)
(* The part of show that places the tip.                                   *)
(***************************************************************************)
Show ==
    LET side == IF place.page.auto THEN AutoPlacement(place.page)
                                   ELSE place.page.placement
        first == CalculatedOffset(side, Position(place.page),
                                  Measured.width, Measured.height)
    IN /\ place.shown = Hidden
       /\ place' = [place EXCEPT
                       !.shown = ApplyPlacement(place.page, first, side)]

Hide ==
    /\ place.shown # Hidden
    /\ place' = [place EXCEPT !.shown = Hidden]

Scroll ==
    /\ place.shown = Hidden
    /\ \E scroll \in Scrolls : place' = [place EXCEPT !.page.scroll = scroll]

Next == Show \/ Hide \/ Scroll

Spec == Init /\ [][Next]_place

-----------------------------------------------------------------------------
OnScreen == place.shown # Hidden

Tip == place.shown.tip

(***************************************************************************)
(* The arrow points at the middle of the element, however the tip was      *)
(* shifted and whatever its new size, unless the last move changed the     *)
(* size again.                                                             *)
(***************************************************************************)
ArrowAtElement ==
    OnScreen /\ ~place.shown.reflowed =>
        IF IsVertical(place.shown.at)
        THEN Tip.left + place.shown.arrow
                = place.page.left + ElementWidth \div 2
        ELSE Tip.top + place.shown.arrow
                = place.page.top + ElementHeight \div 2

(***************************************************************************)
(* A tip touches its element on the side where it is, and does not cover   *)
(* it, although it may have become narrower and higher on the way.         *)
(***************************************************************************)
TipTouchesElement ==
    OnScreen /\ ~place.shown.reflowed =>
        /\ place.shown.at = "top" => Tip.top + Tip.height = place.page.top
        /\ place.shown.at = "bottom" =>
              Tip.top = place.page.top + ElementHeight
        /\ place.shown.at = "left" => Tip.left + Tip.width = place.page.left
        /\ place.shown.at = "right" =>
              Tip.left = place.page.left + ElementWidth

(***************************************************************************)
(* A tip and its arrow are where their element is.                         *)
(***************************************************************************)
TipAtElement == ArrowAtElement /\ TipTouchesElement

(***************************************************************************)
(* Along its element, a tip that fits into the window with its padding is  *)
(* in the window, wherever the page was scrolled to and the element is.    *)
(***************************************************************************)
TipInWindow ==
    OnScreen =>
        IF IsVertical(place.shown.at)
        THEN Tip.width + 2 * place.page.padding <= WindowWidth =>
                /\ 0 <= Tip.left
                /\ Tip.left + Tip.width <= WindowWidth
        ELSE Tip.height + 2 * place.page.padding <= WindowHeight =>
                /\ place.page.scroll <= Tip.top
                /\ Tip.top + Tip.height <= place.page.scroll + WindowHeight

(***************************************************************************)
(* With auto, a tip is within the page as long as one of the two sides of  *)
(* its element has the space for it.                                       *)
(***************************************************************************)
AutoFindsSpace ==
    OnScreen /\ place.page.auto =>
        LET above == place.page.top
            below == DocumentHeight - place.page.top - ElementHeight
            before == place.page.left
            behind == WindowWidth - place.page.left - ElementWidth
        IN IF IsVertical(place.shown.at)
           THEN Measured.height <= above \/ Measured.height <= below =>
                    IF place.shown.at = "top" THEN Measured.height <= above
                                              ELSE Measured.height <= below
           ELSE Measured.width <= before \/ Measured.width <= behind =>
                    IF place.shown.at = "left" THEN Measured.width <= before
                                               ELSE Measured.width <= behind

=============================================================================
