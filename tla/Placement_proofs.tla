-------------------------- MODULE Placement_proofs --------------------------
(***************************************************************************)
(* Lemmas about Placement: a tip touches its element and its arrow points  *)
(* at the middle of it, for every size of window, element and tip.         *)
(***************************************************************************)
EXTENDS Placement, TLAPS

(***************************************************************************)
(* The pages of the initial states and of those that a scroll reaches.     *)
(***************************************************************************)
Pages ==
    [left : 0 .. WindowWidth - ElementWidth,
     top : 0 .. DocumentHeight - ElementHeight,
     scroll : Scrolls, padding : Paddings,
     placement : Sides, auto : BOOLEAN]

(***************************************************************************)
(* A shown tip is the outcome of applyPlacement on the present page, at    *)
(* the side that show has chosen.                                          *)
(***************************************************************************)
Placed(page, shown) ==
    \E side \in Sides :
        /\ side = IF page.auto THEN AutoPlacement(page) ELSE page.placement
        /\ shown = ApplyPlacement(page,
                       CalculatedOffset(side, Position(page), Measured.width,
                                        Measured.height), side)

PlacementInv ==
    /\ place.page \in Pages
    /\ place = [page |-> place.page, shown |-> place.shown]
    /\ place.shown = Hidden \/ Placed(place.page, place.shown)

(***************************************************************************)
(* The width and height of a tip are lengths, wherever it is.              *)
(***************************************************************************)
LEMMA FittedType ==
    ASSUME LengthsOK, NEW left \in Int
    PROVE  /\ Fitted(left).width \in Int
           /\ Fitted(left).height \in Int
  BY DEF LengthsOK, Fitted

(***************************************************************************)
(* A tip is measured at its full width.                                    *)
(***************************************************************************)
LEMMA MeasuredFull ==
    ASSUME LengthsOK
    PROVE  Measured = [width |-> TipWidth, height |-> TipHeight]
  BY DEF LengthsOK, Fitted, Measured

(***************************************************************************)
(* A shift is a length, to one side or the other.                          *)
(***************************************************************************)
LEMMA ShiftType ==
    ASSUME NEW low \in Int, NEW high \in Int, NEW from \in Int,
           NEW to \in Int, NEW size \in Int
    PROVE  Shift(low, high, from, to, size) \in Int
  BY DEF Shift

(***************************************************************************)
(* The shift of getViewportAdjustedDelta goes along the element.           *)
(***************************************************************************)
LEMMA DeltaType ==
    ASSUME LengthsOK, NEW side \in Sides, NEW page \in Pages,
           NEW offset \in [top : Int, left : Int],
           NEW width \in Int, NEW height \in Int,
           NEW delta,
           delta = ViewportAdjustedDelta(side, page, offset, width, height)
    PROVE  /\ delta \in [top : Int, left : Int]
           /\ IsVertical(side) => delta.top = 0
           /\ ~IsVertical(side) => delta.left = 0
<1>1. page.padding \in Int /\ page.scroll \in Int
  <2>1. page.padding \in Paddings /\ page.scroll \in Scrolls
    BY DEF Pages
  <2>2. Paddings \subseteq Nat
    BY DEF LengthsOK
  <2>3. DocumentHeight \in Int /\ WindowHeight \in Int
    BY DEF LengthsOK
  <2>4. page.scroll \in Int
    BY <2>1, <2>3 DEF Scrolls
  <2>5. page.padding \in Nat
    BY <2>1, <2>2, Zenon
  <2>6. QED
    BY <2>4, <2>5
<1>2. WindowWidth \in Int /\ WindowHeight \in Int
  BY DEF LengthsOK
<1>3. CASE IsVertical(side)
  <2>1. PICK shift \in Int : delta = [top |-> 0, left |-> shift]
    <3> DEFINE low == offset.left - page.padding
               high == offset.left + page.padding + width
    <3>1. low \in Int /\ high \in Int
      BY <1>1
    <3>2. delta = [top |-> 0,
                   left |-> Shift(low, high, 0, WindowWidth, WindowWidth)]
      BY <1>3 DEF ViewportAdjustedDelta, BodyPosition
    <3> HIDE DEF low, high
    <3>3. Shift(low, high, 0, WindowWidth, WindowWidth) \in Int
      BY <3>1, <1>2, ShiftType
    <3>4. QED
      BY <3>2, <3>3
  <2>2. QED
    BY <1>3, <2>1
<1>4. CASE ~IsVertical(side)
  <2>1. PICK shift \in Int : delta = [top |-> shift, left |-> 0]
    <3> DEFINE low == offset.top - page.padding - page.scroll
               high == offset.top + page.padding - page.scroll + height
               end == 0 + WindowHeight
    <3>1. low \in Int /\ high \in Int /\ end \in Int
      BY <1>1, <1>2
    <3>2. delta = [top |-> Shift(low, high, 0, end, WindowHeight),
                   left |-> 0]
      BY <1>4 DEF ViewportAdjustedDelta, BodyPosition
    <3> HIDE DEF low, high, end
    <3>3. Shift(low, high, 0, end, WindowHeight) \in Int
      BY <3>1, <1>2, ShiftType
    <3>4. QED
      BY <3>2, <3>3
  <2>2. QED
    BY <1>4, <2>1
<1>5. QED
  BY <1>3, <1>4

(***************************************************************************)
(* Where the first position of a tip is, and what applyPlacement makes of  *)
(* it.                                                                     *)
(***************************************************************************)
LEMMA PlacedTip ==
    ASSUME LengthsOK, NEW page \in Pages, NEW side \in Sides,
           NEW first, NEW shown,
           first = CalculatedOffset(side, Position(page),
                                    Measured.width, Measured.height),
           shown = ApplyPlacement(page, first, side),
           ~shown.reflowed
    PROVE  /\ shown.at = side
           /\ IF IsVertical(side)
              THEN shown.tip.left + shown.arrow
                      = page.left + ElementWidth \div 2
              ELSE shown.tip.top + shown.arrow
                      = page.top + ElementHeight \div 2
           /\ side = "top" =>
                  shown.tip.top + shown.tip.height = page.top
           /\ side = "bottom" =>
                  shown.tip.top = page.top + ElementHeight
           /\ side = "left" =>
                  shown.tip.left + shown.tip.width = page.left
           /\ side = "right" =>
                  shown.tip.left = page.left + ElementWidth
<1> DEFINE size == Fitted(first.left)
           offset == CorrectedOffset(side, first, Measured, size)
           delta == ViewportAdjustedDelta(side, page, offset,
                                          size.width, size.height)
           last == MovedOffset(offset, delta)
           box == Fitted(last.left)
<1>1. /\ page.left \in Int /\ page.top \in Int
      /\ page.left <= WindowWidth - ElementWidth
      /\ ElementWidth \in Nat /\ ElementHeight \in Nat
      /\ TipWidth \in Nat /\ TipHeight \in Nat /\ WindowWidth \in Nat
      /\ TipWidth <= WindowWidth
  BY DEF Pages, LengthsOK
<1>2. /\ IsVertical(side) =>
           first.left = page.left + ElementWidth \div 2 - TipWidth \div 2
      /\ ~IsVertical(side) =>
           first.top = page.top + ElementHeight \div 2 - TipHeight \div 2
      /\ side = "bottom" => first.top = page.top + ElementHeight
      /\ side = "top" => first.top = page.top - TipHeight
      /\ side = "left" => first.left = page.left - TipWidth
      /\ side = "right" => first.left = page.left + ElementWidth
      /\ first = [top |-> first.top, left |-> first.left]
  BY MeasuredFull DEF CalculatedOffset, Position, IsVertical, Sides
<1>3. /\ first \in [top : Int, left : Int]
      /\ size.width \in Int /\ size.height \in Int
  <2>1. first \in [top : Int, left : Int]
    BY <1>1, <1>2 DEF Sides, IsVertical
  <2>2. QED
    BY <2>1, FittedType
<1>4. /\ offset \in [top : Int, left : Int]
      /\ offset.left = first.left
      /\ offset.top = IF side = "top"
                      THEN first.top + TipHeight - size.height
                      ELSE first.top
  BY <1>1, <1>3, MeasuredFull DEF CorrectedOffset
<1>5. /\ delta \in [top : Int, left : Int]
      /\ IsVertical(side) => delta.top = 0
      /\ ~IsVertical(side) => delta.left = 0
  BY <1>3, <1>4, DeltaType
<1>6. /\ last.left = offset.left + delta.left
      /\ last.top = offset.top + delta.top
      /\ last.left \in Int /\ last.top \in Int
  BY <1>4, <1>5 DEF MovedOffset
<1>7. /\ shown.at = side
      /\ shown.tip = [left |-> last.left, top |-> last.top,
                      width |-> box.width, height |-> box.height]
      /\ shown.arrow = ReplaceArrow(ArrowDelta(side, delta, Measured, size),
                                    IF IsVertical(side) THEN box.width
                                                        ELSE box.height)
      /\ box = size
  BY DEF ApplyPlacement
<1>8. IF IsVertical(side)
      THEN shown.tip.left + shown.arrow = page.left + ElementWidth \div 2
      ELSE shown.tip.top + shown.arrow = page.top + ElementHeight \div 2
  <2>1. CASE IsVertical(side)
    <3>1. shown.arrow = (size.width
                          - (delta.left * 2 - TipWidth + size.width)) \div 2
      BY <1>7, <2>1, MeasuredFull DEF ReplaceArrow, ArrowDelta
    <3>2. shown.arrow = (TipWidth - delta.left * 2) \div 2
      BY <3>1, <1>1, <1>3, <1>5
    <3>3. shown.arrow = TipWidth \div 2 - delta.left
      BY <3>2, <1>1, <1>5
    <3>4. shown.tip.left = page.left + ElementWidth \div 2
                             - TipWidth \div 2 + delta.left
      BY <1>2, <1>4, <1>6, <1>7, <2>1 DEF IsVertical
    <3>5. QED
      BY <2>1, <3>3, <3>4, <1>1, <1>5
  <2>2. CASE ~IsVertical(side)
    <3>1. shown.arrow = (size.height
                          - (delta.top * 2 - TipHeight + size.height)) \div 2
      BY <1>7, <2>2, MeasuredFull DEF ReplaceArrow, ArrowDelta
    <3>2. shown.arrow = (TipHeight - delta.top * 2) \div 2
      BY <3>1, <1>1, <1>3, <1>5
    <3>3. shown.arrow = TipHeight \div 2 - delta.top
      BY <3>2, <1>1, <1>5
    <3>4. shown.tip.top = page.top + ElementHeight \div 2
                             - TipHeight \div 2 + delta.top
      BY <1>2, <1>4, <1>6, <1>7, <2>2 DEF IsVertical, Sides
    <3>5. QED
      BY <2>2, <3>3, <3>4, <1>1, <1>5
  <2>3. QED
    BY <2>1, <2>2
<1> HIDE DEF size, offset, delta, last, box
<1>9. /\ shown.tip.left = first.left + delta.left
      /\ shown.tip.top = offset.top + delta.top
      /\ shown.tip.width = size.width /\ shown.tip.height = size.height
  BY <1>4, <1>6, <1>7
<1>10. ASSUME side = "top"
       PROVE  shown.tip.top + shown.tip.height = page.top
  <2>1. IsVertical(side) /\ side # "bottom"
    BY <1>10 DEF IsVertical
  <2>2. /\ delta.top = 0 /\ first.top = page.top - TipHeight
        /\ offset.top = first.top + TipHeight - size.height
    BY <1>2, <1>4, <1>5, <1>10, <2>1
  <2>3. QED
    BY <1>1, <1>3, <1>9, <2>2
<1>11. ASSUME side = "bottom"
       PROVE  shown.tip.top = page.top + ElementHeight
  <2>1. IsVertical(side) /\ side # "top"
    BY <1>11 DEF IsVertical
  <2>2. delta.top = 0 /\ offset.top = page.top + ElementHeight
    BY <1>2, <1>4, <1>5, <1>11, <2>1
  <2>3. QED
    BY <1>1, <1>9, <2>2
<1>12. ASSUME side = "left"
       PROVE  shown.tip.left + shown.tip.width = page.left
  <2>1. delta.left = 0 /\ first.left = page.left - TipWidth
    BY <1>2, <1>5, <1>12 DEF IsVertical
  <2>2. TipWidth <= WindowWidth - first.left
    BY <1>1, <2>1
  <2>3. size.width = TipWidth
    BY <2>2 DEF Fitted, size
  <2>4. QED
    BY <1>1, <1>9, <2>1, <2>3
<1>13. ASSUME side = "right"
       PROVE  shown.tip.left = page.left + ElementWidth
  <2>1. delta.left = 0 /\ first.left = page.left + ElementWidth
    BY <1>2, <1>5, <1>13 DEF IsVertical
  <2>2. QED
    BY <1>1, <1>9, <2>1
<1>14. shown.at = side
  BY <1>7
<1>15. QED
  BY <1>8, <1>10, <1>11, <1>12, <1>13, <1>14

(***************************************************************************)
(* A tip is neither narrower than its widest word nor wider than its text  *)
(* on one line.                                                            *)
(***************************************************************************)
LEMMA FittedSize ==
    ASSUME LengthsOK, NEW left \in Int, NEW size, size = Fitted(left)
    PROVE  /\ size.width \in Nat /\ size.height \in Nat
           /\ LineWidth <= size.width /\ size.width <= TipWidth
           /\ size.width <= WindowWidth - left \/ size.width = LineWidth
           /\ size.width = TipWidth \/ WindowWidth - left < TipWidth
  BY DEF LengthsOK, Fitted

(***************************************************************************)
(* Where applyPlacement puts a tip that fits, it is in the window along    *)
(* its element, even if the last move has changed its size once more.      *)
(***************************************************************************)
LEMMA PlacedInWindow ==
    ASSUME LengthsOK, NEW page \in Pages, NEW side \in Sides,
           NEW first, NEW shown,
           first = CalculatedOffset(side, Position(page),
                                    Measured.width, Measured.height),
           shown = ApplyPlacement(page, first, side)
    PROVE  /\ shown.at = side
           /\ IF IsVertical(side)
              THEN shown.tip.width + 2 * page.padding <= WindowWidth =>
                      /\ 0 <= shown.tip.left
                      /\ shown.tip.left + shown.tip.width <= WindowWidth
              ELSE shown.tip.height + 2 * page.padding <= WindowHeight =>
                      /\ page.scroll <= shown.tip.top
                      /\ shown.tip.top + shown.tip.height
                            <= page.scroll + WindowHeight
<1> DEFINE size == Fitted(first.left)
           offset == CorrectedOffset(side, first, Measured, size)
           delta == ViewportAdjustedDelta(side, page, offset,
                                          size.width, size.height)
           last == MovedOffset(offset, delta)
           box == Fitted(last.left)
<1>1. /\ page.left \in Int /\ page.top \in Int /\ page.scroll \in Int
      /\ ElementWidth \in Nat /\ ElementHeight \in Nat
      /\ TipWidth \in Nat /\ TipHeight \in Nat /\ LineWidth \in Nat
      /\ WindowWidth \in Nat /\ WindowHeight \in Nat
      /\ LineWidth <= TipWidth /\ TipWidth <= WindowWidth
  BY DEF Pages, LengthsOK, Scrolls
<1>2. page.padding \in Nat
  BY DEF Pages, LengthsOK
<1>3. first \in [top : Int, left : Int]
  BY <1>1, MeasuredFull DEF CalculatedOffset, Position, Sides
<1>4. first.left \in Int
  BY <1>3
<1>5. /\ size.width \in Nat /\ size.height \in Nat
      /\ LineWidth <= size.width /\ size.width <= TipWidth
  BY <1>4, FittedSize
<1>6. /\ offset \in [top : Int, left : Int]
      /\ offset.left = first.left
      /\ ~IsVertical(side) => offset.top = first.top
  BY <1>1, <1>3, <1>5, MeasuredFull DEF CorrectedOffset, IsVertical
<1>7. /\ delta \in [top : Int, left : Int]
      /\ IsVertical(side) => delta.top = 0
      /\ ~IsVertical(side) => delta.left = 0
  BY <1>5, <1>6, DeltaType
<1>8. /\ last.left = offset.left + delta.left
      /\ last.top = offset.top + delta.top
      /\ last.left \in Int /\ last.top \in Int
  BY <1>6, <1>7 DEF MovedOffset
<1>9. /\ shown.at = side
      /\ shown.tip = [left |-> last.left, top |-> last.top,
                      width |-> box.width, height |-> box.height]
  BY DEF ApplyPlacement
<1>10. /\ box.width \in Nat /\ box.height \in Nat
       /\ LineWidth <= box.width /\ box.width <= TipWidth
       /\ box.width <= WindowWidth - last.left \/ box.width = LineWidth
       /\ box.width = TipWidth \/ WindowWidth - last.left < TipWidth
  BY <1>8, FittedSize
<1>11. ~IsVertical(side) => box = size
  BY <1>6, <1>7, <1>8
<1>12. IsVertical(side) =>
          delta.left = Shift(offset.left - page.padding,
                             offset.left + page.padding + size.width,
                             0, WindowWidth, WindowWidth)
  BY DEF ViewportAdjustedDelta, BodyPosition
<1>13. ~IsVertical(side) =>
          delta.top = Shift(offset.top - page.padding - page.scroll,
                            offset.top + page.padding - page.scroll
                               + size.height,
                            0, 0 + WindowHeight, WindowHeight)
  BY DEF ViewportAdjustedDelta, BodyPosition
<1> HIDE DEF size, offset, delta, last, box
<1>14. ASSUME IsVertical(side), box.width + 2 * page.padding <= WindowWidth
       PROVE  0 <= last.left /\ last.left + box.width <= WindowWidth
  <2> DEFINE low == offset.left - page.padding
             high == offset.left + page.padding + size.width
  <2>1. /\ offset.left \in Int
        /\ last.left = offset.left
                         + Shift(low, high, 0, WindowWidth, WindowWidth)
    BY <1>6, <1>8, <1>12, <1>14
  <2>2. /\ low = offset.left - page.padding - 0
        /\ high = offset.left + page.padding - 0 + size.width
    BY <1>2, <1>5, <2>1
  <2> HIDE DEF low, high
  <2>3. \/ /\ last.left = offset.left
           /\ 0 + page.padding <= offset.left
           /\ offset.left + page.padding + size.width <= 0 + WindowWidth
        \/ last.left = 0 + page.padding
        \/ last.left = 0 + WindowWidth - page.padding - size.width
    BY <1>1, <1>2, <1>5, <2>1, <2>2 DEF Shift
  <2> QED BY <1>1, <1>2, <1>5, <1>8, <1>10, <1>14, <2>1, <2>3
<1>15. ASSUME ~IsVertical(side),
              box.height + 2 * page.padding <= WindowHeight
       PROVE  /\ page.scroll <= last.top
              /\ last.top + box.height <= page.scroll + WindowHeight
  <2> DEFINE low == offset.top - page.padding - page.scroll
             high == offset.top + page.padding - page.scroll + size.height
  <2>1. /\ offset.top \in Int
        /\ last.top = offset.top
                        + Shift(low, high, 0, WindowHeight, WindowHeight)
    BY <1>1, <1>6, <1>8, <1>13, <1>15
  <2>2. /\ low = offset.top - page.padding - page.scroll
        /\ high = offset.top + page.padding - page.scroll + size.height
    OBVIOUS
  <2> HIDE DEF low, high
  <2>3. \/ /\ last.top = offset.top
           /\ page.scroll + page.padding <= offset.top
           /\ offset.top + page.padding + size.height
                <= page.scroll + WindowHeight
        \/ last.top = page.scroll + page.padding
        \/ last.top = page.scroll + WindowHeight - page.padding
                        - size.height
    BY <1>1, <1>2, <1>5, <2>1, <2>2 DEF Shift
  <2> QED BY <1>1, <1>2, <1>5, <1>8, <1>11, <1>15, <2>1, <2>3
<1> QED BY <1>9, <1>14, <1>15

(***************************************************************************)
(* The side that auto chooses has the space if one of the two has it.      *)
(***************************************************************************)
LEMMA AutoHasSpace ==
    ASSUME LengthsOK, NEW page \in Pages, NEW side,
           side = AutoPlacement(page)
    PROVE  LET above == page.top
               below == DocumentHeight - page.top - ElementHeight
               before == page.left
               behind == WindowWidth - page.left - ElementWidth
           IN IF IsVertical(side)
              THEN TipHeight <= above \/ TipHeight <= below =>
                       IF side = "top" THEN TipHeight <= above
                                       ELSE TipHeight <= below
              ELSE TipWidth <= before \/ TipWidth <= behind =>
                       IF side = "left" THEN TipWidth <= before
                                        ELSE TipWidth <= behind
<1>1. /\ page.left \in Int /\ page.top \in Int /\ page.scroll \in Int
      /\ ElementWidth \in Nat /\ ElementHeight \in Nat
      /\ TipWidth \in Nat /\ TipHeight \in Nat
      /\ WindowWidth \in Nat /\ DocumentHeight \in Nat
      /\ page.placement \in Sides
  BY DEF Pages, LengthsOK, Scrolls
<1>2. side =
        IF page.placement = "bottom"
           /\ page.top - page.scroll + ElementHeight + TipHeight
                > DocumentHeight - page.scroll THEN "top"
        ELSE IF page.placement = "top" /\ page.top - TipHeight < 0
             THEN "bottom"
        ELSE IF page.placement = "right"
                /\ page.left + ElementWidth + TipWidth > WindowWidth
             THEN "left"
        ELSE IF page.placement = "left" /\ page.left - TipWidth < 0
             THEN "right"
        ELSE page.placement
  BY MeasuredFull DEF AutoPlacement, Turned, Position, BodyPosition
<1> QED BY <1>1, <1>2 DEF Sides, IsVertical

(***************************************************************************)
(* At first no tip is shown.                                               *)
(***************************************************************************)
LEMMA PlacementInit == Init => PlacementInv
  BY DEF Init, PlacementInv, Pages

(***************************************************************************)
(* A tip that is shown is put where applyPlacement says, and the page does *)
(* not scroll under it.                                                    *)
(***************************************************************************)
LEMMA PlacementStep == PlacementInv /\ [Next]_place => PlacementInv'
<1> SUFFICES ASSUME PlacementInv, [Next]_place PROVE PlacementInv'
  OBVIOUS
<1>1. CASE Show
  <2> DEFINE First(side) == CalculatedOffset(side, Position(place.page),
                                   Measured.width, Measured.height)
  <2>1. AutoPlacement(place.page) \in Sides /\ place.page.placement \in Sides
    BY DEF PlacementInv, Pages, AutoPlacement, Turned, Sides
  <2>2. PICK side \in Sides :
            /\ side = IF place.page.auto THEN AutoPlacement(place.page)
                                         ELSE place.page.placement
            /\ place' = [place EXCEPT
                   !.shown = ApplyPlacement(place.page, First(side), side)]
    BY <1>1, <2>1 DEF Show
  <2>3. /\ place'.page = place.page
        /\ place'.shown = ApplyPlacement(place.page, First(side), side)
    BY <2>2 DEF PlacementInv
  <2>4. QED
    BY <2>2, <2>3 DEF PlacementInv, Placed
<1>2. CASE Hide
  BY <1>2 DEF Hide, PlacementInv, Hidden
<1>3. CASE Scroll
  BY <1>3 DEF Scroll, PlacementInv, Pages
<1>4. CASE UNCHANGED place
  BY <1>4 DEF PlacementInv
<1>5. QED
  BY <1>1, <1>2, <1>3, <1>4 DEF Next

(***************************************************************************)
(* Where applyPlacement puts a tip, it and its arrow are at the element.   *)
(***************************************************************************)
LEMMA PlacementGoal == LengthsOK /\ PlacementInv => TipAtElement
<1> SUFFICES ASSUME LengthsOK, PlacementInv PROVE TipAtElement
  OBVIOUS
<1>1. ArrowAtElement
  BY PlacedTip DEF PlacementInv, Placed, ArrowAtElement, OnScreen, Tip
<1>2. TipTouchesElement
  BY PlacedTip DEF PlacementInv, Placed, TipTouchesElement, OnScreen, Tip
<1>3. QED
  BY <1>1, <1>2 DEF TipAtElement

(***************************************************************************)
(* Where applyPlacement puts a tip, it is in the window, on a side that    *)
(* has the space.                                                          *)
(***************************************************************************)
LEMMA PlacementSpace ==
    LengthsOK /\ PlacementInv => TipInWindow /\ AutoFindsSpace
<1> SUFFICES ASSUME LengthsOK, PlacementInv
             PROVE  TipInWindow /\ AutoFindsSpace
  OBVIOUS
<1>1. TipInWindow
  BY PlacedInWindow DEF PlacementInv, Placed, TipInWindow, OnScreen, Tip
<1>2. ASSUME OnScreen, place.page.auto
      PROVE  place.shown.at = AutoPlacement(place.page)
  BY <1>2, PlacedInWindow DEF PlacementInv, Placed, OnScreen
<1>3. Measured.width = TipWidth /\ Measured.height = TipHeight
  BY MeasuredFull
<1>4. AutoFindsSpace
  BY <1>2, <1>3, AutoHasSpace DEF AutoFindsSpace, PlacementInv
<1> QED BY <1>1, <1>4


(***************************************************************************)
(* applyPlacement gives a tip a side, a box and an arrow.                  *)
(***************************************************************************)
LEMMA PlacedType ==
    ASSUME LengthsOK, NEW page \in Pages, NEW side \in Sides, NEW first,
           first = CalculatedOffset(side, Position(page),
                                    Measured.width, Measured.height)
    PROVE  ApplyPlacement(page, first, side)
             \in [at : Sides, tip : Boxes, arrow : Int, reflowed : BOOLEAN]
<1> DEFINE size == Fitted(first.left)
           offset == CorrectedOffset(side, first, Measured, size)
           delta == ViewportAdjustedDelta(side, page, offset,
                                          size.width, size.height)
           last == MovedOffset(offset, delta)
           box == Fitted(last.left)
           turn == ArrowDelta(side, delta, Measured, size)
           length == IF IsVertical(side) THEN box.width ELSE box.height
           tip == [left |-> last.left, top |-> last.top,
                   width |-> box.width, height |-> box.height]
           arrow == ReplaceArrow(turn, length)
           reflowed == box # size
<1>1. /\ page.left \in Int /\ page.top \in Int
      /\ ElementWidth \in Nat /\ ElementHeight \in Nat
      /\ TipWidth \in Nat /\ TipHeight \in Nat /\ WindowWidth \in Nat
  BY DEF Pages, LengthsOK
<1>2. /\ Measured.width = TipWidth /\ Measured.height = TipHeight
  BY MeasuredFull
<1>3. first \in [top : Int, left : Int]
  BY <1>1, <1>2 DEF CalculatedOffset, Position, Sides
<1>4. ApplyPlacement(page, first, side)
        = [at |-> side, tip |-> tip, arrow |-> arrow,
           reflowed |-> reflowed]
  BY Zenon DEF ApplyPlacement
<1>5. reflowed \in BOOLEAN
  OBVIOUS
<1> HIDE DEF reflowed
<1>6. size.width \in Int /\ size.height \in Int
  BY <1>3, FittedType
<1> HIDE DEF size
<1>7. offset \in [top : Int, left : Int]
  BY <1>1, <1>2, <1>3, <1>6 DEF CorrectedOffset
<1> HIDE DEF offset
<1>8. delta \in [top : Int, left : Int]
  BY <1>6, <1>7, DeltaType
<1> HIDE DEF delta
<1>9. last \in [top : Int, left : Int]
  BY <1>7, <1>8 DEF MovedOffset
<1> HIDE DEF last
<1>10. box.width \in Int /\ box.height \in Int
  BY <1>9, FittedType
<1> HIDE DEF box
<1>11. turn \in Int
  BY <1>1, <1>2, <1>6, <1>8 DEF ArrowDelta
<1> HIDE DEF turn
<1>12. arrow \in Int
  BY <1>10, <1>11 DEF ReplaceArrow
<1>13. tip \in Boxes
  BY <1>9, <1>10 DEF Boxes
<1> HIDE DEF arrow, tip
<1> QED BY <1>4, <1>5, <1>12, <1>13

(***************************************************************************)
(* The types of the page and of its tip.                                   *)
(***************************************************************************)
LEMMA PlacementType == LengthsOK /\ PlacementInv => TypeOK
<1> SUFFICES ASSUME LengthsOK, PlacementInv PROVE TypeOK
  OBVIOUS
<1>1. place.page \in [left : Int, top : Int, scroll : Int, padding : Int,
                      placement : Sides, auto : BOOLEAN]
  BY DEF PlacementInv, Pages, LengthsOK, Scrolls
<1>2. place.shown # Hidden => place.shown \in
          [at : Sides, tip : Boxes, arrow : Int, reflowed : BOOLEAN]
  BY PlacedType DEF PlacementInv, Placed
<1> QED BY <1>1, <1>2 DEF TypeOK

=============================================================================
