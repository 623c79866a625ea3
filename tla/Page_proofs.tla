---------------------------- MODULE Page_proofs ----------------------------
(***************************************************************************)
(* Theorems about the widgets of a page, for any numbers of elements,      *)
(* callbacks and timers and all lengths: tips are where their elements     *)
(* are and go when nothing holds them, closes are heard once, tabs show    *)
(* what was clicked, one menu is open, a button shows the last state, an   *)
(* affixed element does not flicker, a carousel goes where it was sent.    *)
(* The last part bounds the callbacks of a tip, which its type needs.      *)
(* Callbacks that wait for the end of a transition are folded over the     *)
(* state; the lemmas about that are in the second part.                    *)
(***************************************************************************)
EXTENDS Page, TLAPS, FiniteSetTheorems, WellFoundedInduction

Proven ==
    INSTANCE Placement_proofs WITH place <- widget,
                                   WindowWidth <- PageWidth,
                                   WindowHeight <- Viewport,
                                   DocumentHeight <- PageHeight,
                                   ElementWidth <- LinkWidth,
                                   ElementHeight <- LinkHeight

PlacementInv == kind = "placement" => Proven!PlacementInv

(***************************************************************************)
(* The lemmas are about an instance of Placement of their own; its         *)
(* definitions are those of Page's instance.                               *)
(***************************************************************************)
LEMMA SameNext == ThePlacement!Next => Proven!Next
<1>1. ThePlacement!Measured = Proven!Measured
  BY DEF ThePlacement!Measured, Proven!Measured, ThePlacement!Fitted,
         Proven!Fitted
<1>2. ASSUME NEW page
      PROVE  /\ ThePlacement!Position(page) = Proven!Position(page)
             /\ ThePlacement!BodyPosition(page) = Proven!BodyPosition(page)
  BY DEF ThePlacement!Position, Proven!Position,
         ThePlacement!BodyPosition, Proven!BodyPosition
<1>3. ASSUME NEW page, NEW bottom
      PROVE  ThePlacement!Turned(page, bottom) = Proven!Turned(page, bottom)
  BY <1>1, <1>2 DEF ThePlacement!Turned, Proven!Turned
<1>4. ASSUME NEW page
      PROVE  ThePlacement!AutoPlacement(page) = Proven!AutoPlacement(page)
  BY <1>2, <1>3 DEF ThePlacement!AutoPlacement, Proven!AutoPlacement
<1>5. ASSUME NEW side, NEW pos, NEW width, NEW height
      PROVE  ThePlacement!CalculatedOffset(side, pos, width, height)
                = Proven!CalculatedOffset(side, pos, width, height)
  BY DEF ThePlacement!CalculatedOffset, Proven!CalculatedOffset
<1>6. ASSUME NEW left
      PROVE  ThePlacement!Fitted(left) = Proven!Fitted(left)
  BY DEF ThePlacement!Fitted, Proven!Fitted
<1>7. ASSUME NEW side
      PROVE  ThePlacement!IsVertical(side) <=> Proven!IsVertical(side)
  BY DEF ThePlacement!IsVertical, Proven!IsVertical
<1>8. ASSUME NEW low, NEW high, NEW from, NEW to, NEW size
      PROVE  ThePlacement!Shift(low, high, from, to, size)
                = Proven!Shift(low, high, from, to, size)
  BY DEF ThePlacement!Shift, Proven!Shift
<1>9. ASSUME NEW side, NEW page, NEW offset, NEW width, NEW height
      PROVE  ThePlacement!ViewportAdjustedDelta(side, page, offset,
                                                width, height)
                = Proven!ViewportAdjustedDelta(side, page, offset,
                                               width, height)
  BY <1>2, <1>7, <1>8 DEF ThePlacement!ViewportAdjustedDelta,
                          Proven!ViewportAdjustedDelta
<1>10. ASSUME NEW side, NEW offset, NEW was, NEW size
       PROVE  ThePlacement!CorrectedOffset(side, offset, was, size)
                 = Proven!CorrectedOffset(side, offset, was, size)
  BY DEF ThePlacement!CorrectedOffset, Proven!CorrectedOffset
<1>11. ASSUME NEW offset, NEW delta
       PROVE  ThePlacement!MovedOffset(offset, delta)
                 = Proven!MovedOffset(offset, delta)
  BY DEF ThePlacement!MovedOffset, Proven!MovedOffset
<1>12. ASSUME NEW side, NEW delta, NEW was, NEW size, NEW dimension
       PROVE  ThePlacement!ReplaceArrow(
                  ThePlacement!ArrowDelta(side, delta, was, size), dimension)
                 = Proven!ReplaceArrow(
                       Proven!ArrowDelta(side, delta, was, size), dimension)
  BY <1>7 DEF ThePlacement!ReplaceArrow, Proven!ReplaceArrow,
              ThePlacement!ArrowDelta, Proven!ArrowDelta
<1>13. ASSUME NEW page, NEW first, NEW side
       PROVE  ThePlacement!ApplyPlacement(page, first, side)
                 = Proven!ApplyPlacement(page, first, side)
  BY <1>1, <1>6, <1>7, <1>9, <1>10, <1>11, <1>12
     DEF ThePlacement!ApplyPlacement, Proven!ApplyPlacement
<1>14. ThePlacement!Show => Proven!Show
  BY <1>1, <1>2, <1>4, <1>5, <1>13
     DEF ThePlacement!Show, Proven!Show, ThePlacement!Hidden, Proven!Hidden
<1>15. ThePlacement!Hide => Proven!Hide
  BY DEF ThePlacement!Hide, Proven!Hide, ThePlacement!Hidden, Proven!Hidden
<1>16. ThePlacement!Scroll => Proven!Scroll
  BY DEF ThePlacement!Scroll, Proven!Scroll, ThePlacement!Hidden,
         Proven!Hidden, ThePlacement!Scrolls, Proven!Scrolls
<1>17. QED
  BY <1>14, <1>15, <1>16 DEF ThePlacement!Next, Proven!Next

(***************************************************************************)
(* A tip of a page is always where applyPlacement has put it on the side   *)
(* that show has chosen.                                                   *)
(***************************************************************************)
LEMMA PlacementAlways == Spec => []PlacementInv
<1>1. Init => PlacementInv
  <2>1. ThePlacement!Init => Proven!Init
    BY DEF ThePlacement!Init, Proven!Init, ThePlacement!Scrolls,
           Proven!Scrolls, ThePlacement!Sides, Proven!Sides,
           ThePlacement!Hidden, Proven!Hidden
  <2>2. QED
    BY <2>1, Proven!PlacementInit DEF Init, PlacementInv
<1>2. PlacementInv /\ [Next]_vars => PlacementInv'
  <2>1. ThePlacement!Next => Proven!Next
    BY SameNext
  <2> SUFFICES ASSUME PlacementInv, [Next]_vars, kind' = "placement"
               PROVE  Proven!PlacementInv'
    BY DEF PlacementInv
  <2>2. CASE Next
    <3>1. kind = "placement"
      BY <2>2 DEF Next
    <3>2. ThePlacement!Next
      BY <2>2, <3>1 DEF Next
    <3>3. QED
      BY <2>1, <3>1, <3>2, Proven!PlacementStep DEF PlacementInv
  <2>3. CASE UNCHANGED vars
    <3>1. kind = "placement" /\ UNCHANGED widget
      BY <2>3 DEF vars
    <3>2. QED
      BY <3>1, Proven!PlacementStep DEF PlacementInv
  <2>4. QED
    BY <2>2, <2>3
<1>3. QED
  BY <1>1, <1>2, PTL DEF Spec

(***************************************************************************)
(* The lengths of the page satisfy what Placement asks of its own.         *)
(***************************************************************************)
LEMMA SameLengths == Proven!LengthsOK
  BY PageAssumption DEF ThePlacement!LengthsOK, Proven!LengthsOK

(***************************************************************************)
(* A tip touches its element without covering it, and its arrow points at  *)
(* the middle of it, for all lengths (applyPlacement and replaceArrow).    *)
(***************************************************************************)
THEOREM TipTheorem == Spec => []TipAtElement
<1>1. PlacementInv => TipAtElement
  <2>1. Proven!TipAtElement => ThePlacement!TipAtElement
    BY DEF ThePlacement!TipAtElement, Proven!TipAtElement,
           ThePlacement!ArrowAtElement, Proven!ArrowAtElement,
           ThePlacement!TipTouchesElement, Proven!TipTouchesElement,
           ThePlacement!OnScreen, Proven!OnScreen,
           ThePlacement!Hidden, Proven!Hidden,
           ThePlacement!Tip, Proven!Tip,
           ThePlacement!IsVertical, Proven!IsVertical
  <2>2. QED
    BY <2>1, SameLengths, Proven!PlacementGoal DEF PlacementInv, TipAtElement
<1>2. QED
  BY <1>1, PlacementAlways, PTL

(***************************************************************************)
(* A tip that fits into the window is in the window along its element, for *)
(* all lengths and wherever the page was scrolled to                       *)
(* (getViewportAdjustedDelta, and the reflow after the shift).             *)
(***************************************************************************)
THEOREM WindowedTheorem == Spec => []TipInWindow
<1>1. PlacementInv => TipInWindow
  <2>1. Proven!TipInWindow => ThePlacement!TipInWindow
    BY DEF ThePlacement!TipInWindow, Proven!TipInWindow,
           ThePlacement!OnScreen, Proven!OnScreen,
           ThePlacement!Hidden, Proven!Hidden,
           ThePlacement!Tip, Proven!Tip,
           ThePlacement!IsVertical, Proven!IsVertical
  <2>2. QED
    BY <2>1, SameLengths, Proven!PlacementSpace DEF PlacementInv, TipInWindow
<1>2. QED
  BY <1>1, PlacementAlways, PTL

(***************************************************************************)
(* An auto placement is within the page if one of the two sides of the     *)
(* element is, for all lengths.                                            *)
(***************************************************************************)
THEOREM AutoTheorem == Spec => []AutoFindsSpace
<1>1. PlacementInv => AutoFindsSpace
  <2>1. Proven!AutoFindsSpace => ThePlacement!AutoFindsSpace
    BY DEF ThePlacement!AutoFindsSpace, Proven!AutoFindsSpace,
           ThePlacement!OnScreen, Proven!OnScreen,
           ThePlacement!Hidden, Proven!Hidden,
           ThePlacement!Measured, Proven!Measured,
           ThePlacement!Fitted, Proven!Fitted,
           ThePlacement!IsVertical, Proven!IsVertical
  <2>2. QED
    BY <2>1, SameLengths, Proven!PlacementSpace
       DEF PlacementInv, AutoFindsSpace
<1>2. QED
  BY <1>1, PlacementAlways, PTL

-----------------------------------------------------------------------------
(***************************************************************************)
(* Callbacks run by FoldLeft.  Each plugin folds an operation of its own,  *)
(* here a function f of the place of a callback and the state before it.   *)
(***************************************************************************)
LEMMA NatLeast ==
    ASSUME NEW T \in SUBSET Nat, T # {}
    PROVE  \E x \in T : \A y \in T : x <= y
<1>1. \E x \in T : \A y \in T : ~(<<y, x>> \in OpToRel(<, Nat))
  BY NatLessThanWellFounded, WFMin, Zenon
<1>2. ASSUME NEW x \in Nat, NEW y \in Nat, ~(<<y, x>> \in OpToRel(<, Nat))
      PROVE x <= y
  BY <1>2 DEF OpToRel
<1> QED BY <1>1, <1>2

(***************************************************************************)
(* What holds of 0 and is passed on by each number holds up to n.          *)
(***************************************************************************)
LEMMA UpTo ==
    ASSUME NEW n \in Nat, NEW H \in SUBSET Nat, 0 \in H,
           \A m \in 0 .. n - 1 : m \in H => m + 1 \in H
    PROVE  n \in H
<1> SUFFICES ASSUME n \notin H PROVE FALSE
  OBVIOUS
<1> DEFINE T == {m \in Nat : m <= n /\ m \notin H}
<1>1. PICK x \in T : \A y \in T : x <= y
  <2>1. T \in SUBSET Nat /\ n \in T
    OBVIOUS
  <2> QED BY <2>1, NatLeast
<1>2. x # 0 /\ x - 1 \in Nat /\ x - 1 \notin T
  BY <1>1
<1> QED BY <1>1, <1>2

(***************************************************************************)
(* The greatest of some numbers up to n.                                   *)
(***************************************************************************)
Greatest(T) == CHOOSE x \in T : \A y \in T : x >= y

(***************************************************************************)
(* The greatest element of a set of numbers is in it and is greatest.      *)
(***************************************************************************)
LEMMA GreatestIn ==
    ASSUME NEW n \in Nat, NEW T \in SUBSET (1..n), T # {}
    PROVE  Greatest(T) \in T /\ \A y \in T : Greatest(T) >= y
<1> DEFINE U == {k \in Nat : \E x \in T : k = n - x}
<1>1. U \in SUBSET Nat /\ U # {}
  <2>1. PICK x \in T : TRUE
    OBVIOUS
  <2>2. n - x \in U
    OBVIOUS
  <2> QED BY <2>2
<1> HIDE DEF U
<1>2. PICK u \in U : \A v \in U : u <= v
  BY <1>1, NatLeast
<1>3. PICK x \in T : u = n - x
  BY DEF U
<1>4. ASSUME NEW y \in T PROVE x >= y
  <2>1. n - y \in U
    BY DEF U
  <2>2. n - x <= n - y
    BY <1>2, <1>3, <2>1
  <2> QED BY <2>2
<1> QED BY <1>4 DEF Greatest

(***************************************************************************)
(* The greatest element of 1..n is n, and the others are 1..n-1.           *)
(***************************************************************************)
LEMMA GreatestUpTo ==
    ASSUME NEW n \in Nat, n # 0
    PROVE  Greatest(1..n) = n /\ (1..n) \ {Greatest(1..n)} = 1 .. n - 1
<1>1. n \in 1..n
  OBVIOUS
<1>2. /\ Greatest(1..n) \in 1..n
      /\ \A y \in 1..n : Greatest(1..n) >= y
  <2>1. 1..n \in SUBSET (1..n) /\ 1..n # {}
    BY <1>1
  <2> QED BY <2>1, GreatestIn
<1> QED BY <1>1, <1>2

Step(g, f, b, T) ==
    IF T = {} THEN b ELSE f[<<Greatest(T), g[T \ {Greatest(T)}]>>]

(***************************************************************************)
(* There is a function that is defined by recursion on the callbacks that  *)
(* have run.                                                               *)
(***************************************************************************)
Maps(n, S, f) == f \in [(1..n) \X S -> S]

Recursive(n, S, b, f) ==
    \E g \in [SUBSET (1..n) -> S] :
        \A T \in SUBSET (1..n) : g[T] = Step(g, f, b, T)

(***************************************************************************)
(* The recursion by which the library defines a fold has a solution: a     *)
(* function on the sets of callbacks that have run.                        *)
(***************************************************************************)
LEMMA FoldExists ==
    ASSUME NEW n \in Nat, NEW S, NEW b \in S, NEW f, Maps(n, S, f)
    PROVE  Recursive(n, S, b, f)
<1>0. f \in [(1..n) \X S -> S]
  BY DEF Maps
<1> DEFINE Good(g, m) == \A T \in SUBSET (1..m) : g[T] = Step(g, f, b, T)
           H == {m \in Nat : m <= n =>
                    \E g \in [SUBSET (1..m) -> S] : Good(g, m)}
<1>1. 0 \in H
  <2> DEFINE g == [T \in SUBSET (1..0) |-> b]
  <2>1. g \in [SUBSET (1..0) -> S] /\ Good(g, 0)
    BY DEF Step
  <2> QED BY <2>1
<1>2. ASSUME NEW m \in 0 .. n - 1, m \in H PROVE m + 1 \in H
  <2>1. m <= n /\ m \in Nat
    OBVIOUS
  <2>2. \E g \in [SUBSET (1..m) -> S] : Good(g, m)
    BY <1>2, <2>1
  <2>3. PICK g \in [SUBSET (1..m) -> S] : Good(g, m)
    BY <2>2
  <2> DEFINE next(T) == IF m + 1 \in T THEN f[<<m + 1, g[T \ {m + 1}]>>]
                                       ELSE g[T]
             h == [T \in SUBSET (1 .. m + 1) |-> next(T)]
  <2>4. h \in [SUBSET (1 .. m + 1) -> S]
    <3>1. ASSUME NEW T \in SUBSET (1 .. m + 1) PROVE next(T) \in S
      <4>1. T \ {m + 1} \in SUBSET (1..m)
        OBVIOUS
      <4>2. m + 1 \notin T => T \in SUBSET (1..m)
        OBVIOUS
      <4>3. m + 1 \in 1..n
        OBVIOUS
      <4> QED BY <1>0, <4>1, <4>2, <4>3
    <3> QED BY <3>1
  <2>5. ASSUME NEW T \in SUBSET (1 .. m + 1) PROVE h[T] = Step(h, f, b, T)
    <3>1. CASE m + 1 \in T
      <4>1. Greatest(T) \in T /\ \A y \in T : Greatest(T) >= y
        <5>1. m + 1 \in Nat /\ T \in SUBSET (1 .. m + 1) /\ T # {}
          BY <3>1
        <5> HIDE DEF h
        <5> QED BY <5>1, GreatestIn
      <4>2. Greatest(T) = m + 1
        <5>1. Greatest(T) \in 1 .. m + 1 /\ Greatest(T) >= m + 1
          BY <3>1, <4>1
        <5> QED BY <5>1
      <4>3. T \ {m + 1} \in SUBSET (1..m)
        OBVIOUS
      <4>4. h[T \ {m + 1}] = g[T \ {m + 1}]
        BY <4>3
      <4>5. h[T] = f[<<m + 1, g[T \ {m + 1}]>>]
        BY <3>1
      <4> QED BY <3>1, <4>2, <4>4, <4>5 DEF Step
    <3>2. CASE m + 1 \notin T
      <4>1. T \in SUBSET (1..m)
        BY <3>2
      <4>2. T \ {Greatest(T)} \in SUBSET (1..m)
        BY <4>1
      <4>3. h[T] = g[T] /\ h[T \ {Greatest(T)}] = g[T \ {Greatest(T)}]
        BY <3>2, <4>1, <4>2
      <4>4. g[T] = Step(g, f, b, T)
        BY <2>3, <4>1
      <4> QED BY <4>3, <4>4 DEF Step
    <3> QED BY <3>1, <3>2
  <2> HIDE DEF h
  <2>6. Good(h, m + 1)
    BY <2>5
  <2>7. m + 1 \in Nat
    OBVIOUS
  <2> QED BY <2>4, <2>6, <2>7
<1>3. H \in SUBSET Nat
  OBVIOUS
<1> HIDE DEF H
<1>4. n \in H
  BY <1>1, <1>2, <1>3, UpTo
<1>5. n <= n
  OBVIOUS
<1> QED BY <1>4, <1>5 DEF H, Recursive

(***************************************************************************)
(* A function h that is defined by the recursion, if only as long as the   *)
(* states before are in S, stays in S; and its last value comes from one   *)
(* in S by the last callback.                                              *)
(***************************************************************************)
Follows(n, S, b, f, h) ==
    \A T \in SUBSET (1..n) :
        (T # {} => h[T \ {Greatest(T)}] \in S) => h[T] = Step(h, f, b, T)

Folded(n, S, b, f, x) ==
    /\ x \in S
    /\ n = 0 => x = b
    /\ n # 0 => \E s \in S : x = f[<<n, s>>]

(***************************************************************************)
(* The value of a fold that follows Maps step by step satisfies Folded.    *)
(***************************************************************************)
LEMMA FoldStays ==
    ASSUME NEW n \in Nat, NEW S, NEW b \in S, NEW f, NEW h,
           Maps(n, S, f), Follows(n, S, b, f, h)
    PROVE  Folded(n, S, b, f, h[1..n])
<1>0. /\ f \in [(1..n) \X S -> S]
      /\ \A T \in SUBSET (1..n) :
             (T # {} => h[T \ {Greatest(T)}] \in S) => h[T] = Step(h, f, b, T)
  BY DEF Maps, Follows
<1> DEFINE H == {m \in Nat : m <= n => h[1..m] \in S}
<1>1. h[{}] = b
  BY <1>0 DEF Step
<1>2. ASSUME NEW m \in 1..n, h[1 .. m - 1] \in S
      PROVE  h[1..m] = f[<<m, h[1 .. m - 1]>>]
  <2>1. 1..m \in SUBSET (1..n) /\ 1..m # {}
    OBVIOUS
  <2>2. Greatest(1..m) = m /\ (1..m) \ {Greatest(1..m)} = 1 .. m - 1
    BY GreatestUpTo
  <2> QED BY <1>0, <1>2, <2>1, <2>2 DEF Step
<1>3. 0 \in H
  <2>1. 1..0 = {}
    OBVIOUS
  <2> QED BY <1>1, <2>1
<1>4. ASSUME NEW m \in 0 .. n - 1, m \in H PROVE m + 1 \in H
  <2>1. m + 1 \in 1..n /\ (m + 1) - 1 = m /\ h[1..m] \in S
    BY <1>4
  <2>2. h[1 .. m + 1] = f[<<m + 1, h[1..m]>>]
    BY <1>2, <2>1
  <2> QED BY <1>0, <2>1, <2>2
<1>5. H \in SUBSET Nat
  OBVIOUS
<1> HIDE DEF H
<1>6. \A m \in 0..n : h[1..m] \in S
  <2>1. ASSUME NEW m \in 0..n PROVE m \in H
    BY <1>3, <1>4, <1>5, UpTo
  <2> QED BY <2>1 DEF H
<1>7. n = 0 => 1..n = {}
  OBVIOUS
<1>8. n # 0 => n \in 1..n /\ n - 1 \in 0..n
  OBVIOUS
<1> QED BY <1>1, <1>2, <1>6, <1>7, <1>8 DEF Folded

-----------------------------------------------------------------------------
(***************************************************************************)
(* The alert: its callbacks, the states it can be in, and that a close is  *)
(* heard once.                                                             *)
(***************************************************************************)
AlertRan(n, S, b, q) ==
    LET r == TheAlert!FoldLeft(TheAlert!RemoveElement, b, q)
    IN  /\ r \in S
        /\ n = 0 => r = b
        /\ n # 0 => \E s \in S : r = TheAlert!RemoveElement(s, q[n])

(***************************************************************************)
(* What ran at the end of a transition, one callback of RemoveElement      *)
(* after another, stays in every set that RemoveElement does not leave.    *)
(***************************************************************************)
LEMMA AlertFold ==
    ASSUME NEW n \in Nat, NEW S, NEW b \in S, NEW q, DOMAIN q = 1..n,
           \A s \in S, i \in 1..n : TheAlert!RemoveElement(s, q[i]) \in S
    PROVE  AlertRan(n, S, b, q)
<1> DEFINE Next1(g, T) ==
               IF T = {} THEN b
               ELSE TheAlert!RemoveElement(g[T \ {TheAlert!Max(T)}],
                                  q[TheAlert!Max(T)])
           f == [p \in (1..n) \X S |-> TheAlert!RemoveElement(p[2], q[p[1]])]
           h == CHOOSE g : g = [T \in SUBSET (DOMAIN q) |-> Next1(g, T)]
<1>1. Maps(n, S, f)
  BY DEF Maps
<1>2. \A T : TheAlert!Max(T) = Greatest(T)
  BY DEF TheAlert!Max, Greatest
<1>3. ASSUME NEW T \in SUBSET (1..n), NEW g,
             T # {} => g[T \ {Greatest(T)}] \in S
      PROVE  Next1(g, T) = Step(g, f, b, T)
  <2>1. T # {} => Greatest(T) \in 1..n
    BY GreatestIn
  <2> QED BY <1>2, <1>3, <2>1 DEF Step
<1>4. \E g : g = [T \in SUBSET (DOMAIN q) |-> Next1(g, T)]
  <2>1. Recursive(n, S, b, f)
    BY <1>1, FoldExists
  <2> HIDE DEF f
  <2>2. PICK g \in [SUBSET (1..n) -> S] :
            \A T \in SUBSET (1..n) : g[T] = Step(g, f, b, T)
    BY <2>1 DEF Recursive
  <2>3. ASSUME NEW T \in SUBSET (1..n) PROVE g[T] = Next1(g, T)
    <3>1. T \ {Greatest(T)} \in SUBSET (1..n)
      OBVIOUS
    <3> QED BY <1>3, <2>2, <3>1
  <2> HIDE DEF Next1
  <2>4. g = [T \in SUBSET (1..n) |-> Next1(g, T)]
    BY <2>3
  <2> QED BY <2>4
<1>5. h = [T \in SUBSET (DOMAIN q) |-> Next1(h, T)]
  <2> HIDE DEF Next1
  <2> QED BY <1>4
<1>6. TheAlert!FoldLeft(TheAlert!RemoveElement, b, q) = h[1..n]
  BY DEF TheAlert!FoldLeft, TheAlert!MapThenFoldSet
<1> HIDE DEF h
<1>7. Follows(n, S, b, f, h)
  <2>1. ASSUME NEW T \in SUBSET (1..n),
               T # {} => h[T \ {Greatest(T)}] \in S
        PROVE  h[T] = Step(h, f, b, T)
    <3>1. Next1(h, T) = Step(h, f, b, T)
      BY <1>3, <2>1
    <3> HIDE DEF Next1
    <3> QED BY <1>5, <3>1
  <2> HIDE DEF f
  <2> QED BY <2>1 DEF Follows
<1>8. Folded(n, S, b, f, h[1..n])
  <2> HIDE DEF f
  <2> QED BY <1>1, <1>7, FoldStays
<1>9. \A s \in S : n # 0 => f[<<n, s>>] = TheAlert!RemoveElement(s, q[n])
  OBVIOUS
<1> HIDE DEF f
<1> QED BY <1>6, <1>8, <1>9 DEF Folded, AlertRan

AlertType ==
    [fade : BOOLEAN, inDocument : BOOLEAN, listens : BOOLEAN,
     waiting : Seq({"removeElement"}), heard : Nat]

(***************************************************************************)
(* An alert has listeners as long as it is in the document, and until then *)
(* they have heard nothing.                                                *)
(***************************************************************************)
AlertStates ==
    {a \in AlertType :
        /\ a.inDocument => a.listens /\ a.heard = 0
        /\ ~a.inDocument => ~a.listens /\ a.heard = 1}

AlertInv == kind = "alert" => widget \in AlertStates

(***************************************************************************)
(* removeElement, run for the first time or again.                         *)
(***************************************************************************)
LEMMA RemoveElementStep ==
    ASSUME NEW a \in AlertStates, NEW callback
    PROVE  TheAlert!RemoveElement(a, callback) \in AlertStates
<1>1. a \in AlertType /\ (IF a.listens THEN a.heard + 1 ELSE a.heard) = 1
  BY DEF AlertStates, AlertType
<1>2. TheAlert!RemoveElement(a, callback)
        = [a EXCEPT !.inDocument = FALSE, !.heard = 1, !.listens = FALSE]
  BY <1>1 DEF TheAlert!RemoveElement
<1>3. TheAlert!RemoveElement(a, callback) \in AlertType
  <2>1. 1 \in Nat
    OBVIOUS
  <2> QED BY <1>1, <1>2, <2>1, Zenon DEF AlertType
<1> QED BY <1>1, <1>2, <1>3 DEF AlertStates, AlertType

(***************************************************************************)
(* Each handler of an alert.                                               *)
(***************************************************************************)
LEMMA AlertStep ==
    ASSUME widget \in AlertStates, TheAlert!Next
    PROVE  widget' \in AlertStates
<1>1. CASE TheAlert!Close
  <2>1. CASE widget.fade
    <3>1. widget' = [widget EXCEPT
                        !.waiting = Append(widget.waiting, "removeElement")]
      BY <1>1, <2>1 DEF TheAlert!Close, TheAlert!Wait
    <3>2. Append(widget.waiting, "removeElement") \in Seq({"removeElement"})
      BY DEF AlertStates, AlertType
    <3>3. widget' \in AlertType
      BY <3>1, <3>2, Zenon DEF AlertStates, AlertType
    <3> QED BY <3>1, <3>3 DEF AlertStates, AlertType
  <2>2. CASE ~widget.fade
    <3>1. widget' = TheAlert!RemoveElement(widget, "removeElement")
      BY <1>1, <2>2 DEF TheAlert!Close
    <3> QED BY <3>1, RemoveElementStep
  <2> QED BY <2>1, <2>2
<1>2. CASE TheAlert!TransitionEnd
  <2> DEFINE a == [widget EXCEPT !.waiting = <<>>]
             q == widget.waiting
  <2>1. a \in AlertStates
    <3>1. <<>> \in Seq({"removeElement"})
      OBVIOUS
    <3>2. a \in AlertType
      BY <3>1, Zenon DEF AlertStates, AlertType
    <3> QED BY <3>2 DEF AlertStates, AlertType
  <2>2. Len(q) \in Nat /\ DOMAIN q = 1..Len(q)
    BY DEF AlertStates, AlertType
  <2>3. widget' = TheAlert!FoldLeft(TheAlert!RemoveElement, a, q)
    BY <1>2 DEF TheAlert!TransitionEnd
  <2> HIDE DEF a, q
  <2>4. AlertRan(Len(q), AlertStates, a, q)
    BY <2>1, <2>2, AlertFold, RemoveElementStep
  <2> QED BY <2>3, <2>4 DEF AlertRan
<1> QED BY <1>1, <1>2 DEF TheAlert!Next

(***************************************************************************)
(* In every behaviour of the page an alert keeps to its states.            *)
(***************************************************************************)
LEMMA AlertAlways == Spec => []AlertInv
<1>1. Init => AlertInv
  <2> SUFFICES ASSUME Init, kind = "alert" PROVE widget \in AlertStates
    BY DEF AlertInv
  <2>1. PICK fade \in BOOLEAN :
            widget = [fade |-> fade, inDocument |-> TRUE, listens |-> TRUE,
                      waiting |-> <<>>, heard |-> 0]
    BY DEF Init, TheAlert!Init
  <2> QED BY <2>1 DEF AlertStates, AlertType
<1>2. AlertInv /\ [Next]_vars => AlertInv'
  BY AlertStep DEF AlertInv, Next, vars
<1> QED BY <1>1, <1>2, PTL DEF Spec

(***************************************************************************)
(* The listeners of an alert hear that it has closed exactly once, however *)
(* often close was called while it faded, and for any number of callbacks  *)
(* that wait (removeElement).                                              *)
(***************************************************************************)
THEOREM ClosedTheorem == Spec => []ClosedOnce
<1>1. AlertInv => ClosedOnce
  BY DEF AlertInv, ClosedOnce, TheAlert!ClosedOnce, AlertStates
<1> QED BY <1>1, AlertAlways, PTL

-----------------------------------------------------------------------------
(***************************************************************************)
(* The tabs: the queue of calls that wait for the panes that fade.         *)
(***************************************************************************)
TabRan(n, S, b, q) ==
    LET r == TheTab!FoldLeft(TheTab!Switch, b, q)
    IN  /\ r \in S
        /\ n = 0 => r = b
        /\ n # 0 => \E s \in S : r = TheTab!Switch(s, q[n])

(***************************************************************************)
(* What ran at the end of a transition, one callback of Switch after       *)
(* another, stays in every set that Switch does not leave.                 *)
(***************************************************************************)
LEMMA TabFold ==
    ASSUME NEW n \in Nat, NEW S, NEW b \in S, NEW q, DOMAIN q = 1..n,
           \A s \in S, i \in 1..n : TheTab!Switch(s, q[i]) \in S
    PROVE  TabRan(n, S, b, q)
<1> DEFINE Next1(g, T) ==
               IF T = {} THEN b
               ELSE TheTab!Switch(g[T \ {TheTab!Max(T)}],
                            q[TheTab!Max(T)])
           f == [p \in (1..n) \X S |-> TheTab!Switch(p[2], q[p[1]])]
           h == CHOOSE g : g = [T \in SUBSET (DOMAIN q) |-> Next1(g, T)]
<1>1. Maps(n, S, f)
  BY DEF Maps
<1>2. \A T : TheTab!Max(T) = Greatest(T)
  BY DEF TheTab!Max, Greatest
<1>3. ASSUME NEW T \in SUBSET (1..n), NEW g,
             T # {} => g[T \ {Greatest(T)}] \in S
      PROVE  Next1(g, T) = Step(g, f, b, T)
  <2>1. T # {} => Greatest(T) \in 1..n
    BY GreatestIn
  <2> QED BY <1>2, <1>3, <2>1 DEF Step
<1>4. \E g : g = [T \in SUBSET (DOMAIN q) |-> Next1(g, T)]
  <2>1. Recursive(n, S, b, f)
    BY <1>1, FoldExists
  <2> HIDE DEF f
  <2>2. PICK g \in [SUBSET (1..n) -> S] :
            \A T \in SUBSET (1..n) : g[T] = Step(g, f, b, T)
    BY <2>1 DEF Recursive
  <2>3. ASSUME NEW T \in SUBSET (1..n) PROVE g[T] = Next1(g, T)
    <3>1. T \ {Greatest(T)} \in SUBSET (1..n)
      OBVIOUS
    <3> QED BY <1>3, <2>2, <3>1
  <2> HIDE DEF Next1
  <2>4. g = [T \in SUBSET (1..n) |-> Next1(g, T)]
    BY <2>3
  <2> QED BY <2>4
<1>5. h = [T \in SUBSET (DOMAIN q) |-> Next1(h, T)]
  <2> HIDE DEF Next1
  <2> QED BY <1>4
<1>6. TheTab!FoldLeft(TheTab!Switch, b, q) = h[1..n]
  BY DEF TheTab!FoldLeft, TheTab!MapThenFoldSet
<1> HIDE DEF h
<1>7. Follows(n, S, b, f, h)
  <2>1. ASSUME NEW T \in SUBSET (1..n),
               T # {} => h[T \ {Greatest(T)}] \in S
        PROVE  h[T] = Step(h, f, b, T)
    <3>1. Next1(h, T) = Step(h, f, b, T)
      BY <1>3, <2>1
    <3> HIDE DEF Next1
    <3> QED BY <1>5, <3>1
  <2> HIDE DEF f
  <2> QED BY <2>1 DEF Follows
<1>8. Folded(n, S, b, f, h[1..n])
  <2> HIDE DEF f
  <2> QED BY <1>1, <1>7, FoldStays
<1>9. \A s \in S : n # 0 => f[<<n, s>>] = TheTab!Switch(s, q[n])
  OBVIOUS
<1> HIDE DEF f
<1> QED BY <1>6, <1>8, <1>9 DEF Folded, TabRan

TabCall == [out : SUBSET Tabs, element : Tabs]

TabType ==
    [fade : BOOLEAN, header : Tabs, active : SUBSET Tabs, in : SUBSET Tabs,
     waiting : Seq(TabCall)]

(***************************************************************************)
(* The call that waits last is the one for the header, and each of them    *)
(* puts out the panes that are active until the transition ends.           *)
(***************************************************************************)
TabStates ==
    {s \in TabType :
        /\ s.active # {}
        /\ s.waiting = <<>> =>
              s.header \in s.active /\ (s.fade => s.header \in s.in)
        /\ s.waiting # <<>> =>
              s.fade /\ s.header = s.waiting[Len(s.waiting)].element
        /\ \A i \in DOMAIN s.waiting : s.waiting[i].out = s.active}

TabInv == kind = "tab" => widget \in TabStates

(***************************************************************************)
(* A switch that ends while all that waited run.                           *)
(***************************************************************************)
LEMMA SwitchStep ==
    ASSUME NEW s \in TabType, NEW call \in TabCall,
           NEW r, r = TheTab!Switch(s, call)
    PROVE  /\ r \in TabType
           /\ r.fade = s.fade /\ r.header = s.header /\ r.waiting = s.waiting
           /\ r.active = (s.active \ call.out) \cup {call.element}
           /\ call.element \in r.active /\ (s.fade => call.element \in r.in)
<1> DEFINE active == (s.active \ call.out) \cup {call.element}
           in == IF s.fade THEN s.in \cup {call.element} ELSE s.in
<1>1. r = [s EXCEPT !.active = active, !.in = in]
  BY DEF TheTab!Switch
<1>2. /\ active \in SUBSET Tabs /\ in \in SUBSET Tabs
      /\ call.element \in active /\ (s.fade => call.element \in in)
  BY DEF TabType, TabCall
<1> HIDE DEF active, in
<1>3. r \in TabType /\ r.active = active
  BY <1>1, <1>2, Zenon DEF TabType
<1> QED BY <1>1, <1>2, <1>3 DEF TabType, active

(***************************************************************************)
(* A click on a header.                                                    *)
(***************************************************************************)
LEMMA TabShowStep ==
    ASSUME widget \in TabStates, NEW t \in Tabs, TheTab!Show(t)
    PROVE  widget' \in TabStates
<1> DEFINE call == [out |-> widget.active, element |-> t]
           chosen == [widget EXCEPT !.header = t]
<1>1. widget \in TabType /\ widget.active # {}
  BY DEF TabStates
<1>2. /\ chosen \in TabType /\ chosen.header = t
      /\ chosen.fade = widget.fade /\ chosen.in = widget.in
      /\ chosen.active = widget.active /\ chosen.waiting = widget.waiting
  BY <1>1 DEF TabType
<1>3. call \in TabCall
  BY <1>1 DEF TabType, TabCall
<1>4. CASE widget.fade
  <2> DEFINE q == Append(widget.waiting, call)
             in == widget.in \ widget.active
  <2>1. widget' = [[chosen EXCEPT !.waiting = q] EXCEPT !.in = in]
    <3>1. widget' = [[chosen EXCEPT !.waiting = Append(@, call)] EXCEPT
                        !.in = @ \ widget.active]
      BY <1>1, <1>2, <1>4 DEF TheTab!Show, TheTab!Wait, TheTab!Active
    <3> QED BY <1>2, <3>1 DEF TabType
  <2>2. /\ q \in Seq(TabCall)
        /\ q # <<>> /\ q[Len(q)] = call
        /\ \A i \in DOMAIN q : q[i].out = widget.active
    <3>1. widget.waiting \in Seq(TabCall)
      BY <1>1 DEF TabType
    <3>2. \A i \in DOMAIN widget.waiting :
              widget.waiting[i].out = widget.active
      BY DEF TabStates
    <3> HIDE DEF call
    <3>3. call.out = widget.active
      BY DEF call
    <3> QED BY <1>3, <3>1, <3>2, <3>3
  <2>3. in \in SUBSET Tabs
    BY <1>1 DEF TabType
  <2> HIDE DEF chosen, q, in, call
  <2>4. widget' \in TabType
    BY <1>2, <2>1, <2>2, <2>3, Zenon DEF TabType
  <2>5. /\ widget'.fade = chosen.fade /\ widget'.header = t
        /\ widget'.active = widget.active /\ widget'.waiting = q
    BY <1>2, <2>1, <2>4 DEF TabType
  <2>6. call.element = t
    BY DEF call
  <2> QED BY <1>1, <1>2, <1>4, <2>2, <2>4, <2>5, <2>6 DEF TabStates
<1>5. CASE ~widget.fade
  <2> DEFINE s == TheTab!Switch(chosen, call)
             in == s.in \ widget.active
  <2>1. widget' = [s EXCEPT !.in = in]
    BY <1>1, <1>2, <1>5 DEF TheTab!Show, TheTab!Active
  <2>2. /\ s \in TabType /\ s.fade = widget.fade /\ s.header = t
        /\ s.waiting = widget.waiting /\ t \in s.active
    <3>1. call.element = t
      OBVIOUS
    <3> HIDE DEF chosen, call
    <3> QED BY <1>2, <1>3, <3>1, SwitchStep
  <2> HIDE DEF s
  <2>3. in \in SUBSET Tabs
    BY <2>2 DEF TabType
  <2> HIDE DEF in
  <2>4. widget' \in TabType
    BY <2>1, <2>2, <2>3, Zenon DEF TabType
  <2>5. /\ widget'.fade = s.fade /\ widget'.header = t
        /\ widget'.active = s.active /\ widget'.waiting = s.waiting
    BY <2>1, <2>2, <2>4 DEF TabType
  <2>6. s.waiting = <<>> /\ DOMAIN s.waiting = {}
    BY <1>5, <2>2 DEF TabStates
  <2> QED BY <1>5, <2>2, <2>4, <2>5, <2>6 DEF TabStates
<1> QED BY <1>4, <1>5

(***************************************************************************)
(* The end of the transition of the tabs.                                  *)
(***************************************************************************)
LEMMA TabEndStep ==
    ASSUME widget \in TabStates, TheTab!TransitionEnd
    PROVE  widget' \in TabStates
<1> DEFINE q == widget.waiting
           n == Len(q)
           b == [widget EXCEPT !.waiting = <<>>]
           S == {s \in TabType : /\ s.fade /\ s.waiting = <<>>
                                 /\ s.header = q[n].element}
<1>1. /\ widget \in TabType /\ widget.fade /\ q # <<>>
      /\ widget.header = q[n].element
  BY DEF TabStates, TheTab!TransitionEnd
<1>2. /\ q \in Seq(TabCall)
      /\ n \in Nat /\ n # 0 /\ DOMAIN q = 1..n
  BY <1>1 DEF TabType
<1>3. b \in S
  <2>1. <<>> \in Seq(TabCall)
    OBVIOUS
  <2>2. b \in TabType
    BY <1>1, <2>1, Zenon DEF TabType
  <2> QED BY <1>1, <2>2 DEF TabType
<1>4. ASSUME NEW s \in S, NEW i \in 1..n
      PROVE  TheTab!Switch(s, q[i]) \in S
  <2>1. q[i] \in TabCall
    BY <1>2
  <2> HIDE DEF q, n
  <2> QED BY <2>1, SwitchStep
<1>5. widget' = TheTab!FoldLeft(TheTab!Switch, b, q)
  BY DEF TheTab!TransitionEnd
<1>6. q[n] \in TabCall
  BY <1>2
<1> HIDE DEF q, n, b
<1>7. widget' \in S /\ \E s \in S : widget' = TheTab!Switch(s, q[n])
  <2> HIDE DEF S
  <2>1. TabRan(n, S, b, q)
    BY <1>2, <1>3, <1>4, TabFold
  <2> QED BY <1>2, <1>5, <2>1 DEF TabRan
<1>8. q[n].element \in widget'.active /\ q[n].element \in widget'.in
  BY <1>6, <1>7, SwitchStep
<1>9. DOMAIN widget'.waiting = {}
  BY <1>7
<1> QED BY <1>7, <1>8, <1>9 DEF TabStates

(***************************************************************************)
(* The states of the tabs of a page are always among TabStates.            *)
(***************************************************************************)
LEMMA TabAlways == Spec => []TabInv
<1>1. Init => TabInv
  <2> SUFFICES ASSUME Init, kind = "tab" PROVE widget \in TabStates
    BY DEF TabInv
  <2>1. PICK fade \in BOOLEAN, t \in Tabs :
            widget = [fade |-> fade, header |-> t, active |-> {t}, in |-> {t},
                      waiting |-> <<>>]
    BY DEF Init, TheTab!Init
  <2> QED BY <2>1 DEF TabStates, TabType
<1>2. TabInv /\ [Next]_vars => TabInv'
  BY TabShowStep, TabEndStep DEF TabInv, Next, vars, TheTab!Next
<1> QED BY <1>1, <1>2, PTL DEF Spec

(***************************************************************************)
(* The pane of the highlighted header is on the screen once the            *)
(* transitions are over, for any number of tabs and of clicks (activate    *)
(* and next).                                                              *)
(***************************************************************************)
THEOREM HeaderTheorem == Spec => []HeaderIsShown
<1>1. TabInv => HeaderIsShown
  BY DEF TabInv, TabStates, HeaderIsShown, TheTab!HeaderIsShown
<1> QED BY <1>1, TabAlways, PTL

(***************************************************************************)
(* A click where no pane fades leaves one pane.                            *)
(***************************************************************************)
LEMMA TabShowLeaves ==
    ASSUME widget \in TabStates, NEW t \in Tabs, TheTab!Show(t)
    PROVE  TheTab!LeftoversFade
<1> SUFFICES ASSUME widget'.waiting = <<>>
             PROVE  widget'.active \subseteq {widget'.header}
  BY DEF TheTab!LeftoversFade
<1> DEFINE call == [out |-> widget.active, element |-> t]
           chosen == [widget EXCEPT !.header = t]
           s == TheTab!Switch(chosen, call)
           in == s.in \ widget.active
<1>1. widget \in TabType /\ widget.active # {}
  BY DEF TabStates
<1>2. /\ chosen \in TabType /\ chosen.header = t
      /\ chosen.fade = widget.fade /\ chosen.in = widget.in
      /\ chosen.active = widget.active /\ chosen.waiting = widget.waiting
  BY <1>1 DEF TabType
<1>3. call \in TabCall
  BY <1>1 DEF TabType, TabCall
<1>4. ~widget.fade
  <2> SUFFICES ASSUME widget.fade PROVE FALSE
    OBVIOUS
  <2>1. widget' = [[chosen EXCEPT !.waiting = Append(@, call)] EXCEPT
                      !.in = @ \ widget.active]
    BY <1>1, <1>2 DEF TheTab!Show, TheTab!Wait, TheTab!Active
  <2>2. widget'.waiting = Append(widget.waiting, call)
    BY <1>1, <1>2, <2>1 DEF TabType
  <2>3. widget.waiting \in Seq(TabCall)
    BY <1>1 DEF TabType
  <2> HIDE DEF call, chosen, s, in
  <2> QED BY <1>3, <2>2, <2>3
<1>5. widget' = [s EXCEPT !.in = in]
  BY <1>1, <1>2, <1>4 DEF TheTab!Show, TheTab!Active
<1>6. s \in TabType /\ s.header = t /\ s.active = {t}
  <2>1. call.out = widget.active /\ call.element = t
    OBVIOUS
  <2> HIDE DEF chosen, call
  <2> QED BY <1>2, <1>3, <2>1, SwitchStep
<1> HIDE DEF s, in
<1>7. widget'.header = t /\ widget'.active = s.active
  BY <1>5, <1>6 DEF TabType
<1> QED BY <1>6, <1>7

(***************************************************************************)
(* The calls that waited leave no panes but their own.                     *)
(***************************************************************************)
LEMMA TabEndLeaves ==
    ASSUME widget \in TabStates, TheTab!TransitionEnd
    PROVE  TheTab!LeftoversFade
<1> DEFINE q == widget.waiting
           n == Len(q)
           b == [widget EXCEPT !.waiting = <<>>]
           E == {q[i].element : i \in DOMAIN q}
           S == {s \in TabType : s.active \subseteq widget.active \cup E}
<1>1. /\ widget \in TabType /\ q # <<>>
      /\ \A i \in DOMAIN q : q[i].out = widget.active
  BY DEF TabStates, TheTab!TransitionEnd
<1>2. q \in Seq(TabCall) /\ n \in Nat /\ n # 0 /\ DOMAIN q = 1..n
  BY <1>1 DEF TabType
<1>3. b \in S
  <2>1. <<>> \in Seq(TabCall)
    OBVIOUS
  <2>2. b \in TabType
    BY <1>1, <2>1, Zenon DEF TabType
  <2> QED BY <1>1, <2>2 DEF TabType
<1>4. \A i \in 1..n : q[i] \in TabCall /\ q[i].element \in E
  BY <1>2
<1>5. ASSUME NEW s \in S, NEW i \in 1..n
      PROVE  TheTab!Switch(s, q[i]) \in S
  <2> HIDE DEF q, n, E
  <2> QED BY <1>4, SwitchStep
<1>6. widget' = TheTab!FoldLeft(TheTab!Switch, b, q)
  BY DEF TheTab!TransitionEnd
<1> HIDE DEF n, b, E
<1>7. \E s \in S : widget' = TheTab!Switch(s, q[n])
  <2> HIDE DEF S, q
  <2>1. TabRan(n, S, b, q)
    BY <1>2, <1>3, <1>5, TabFold
  <2> QED BY <1>2, <1>6, <2>1 DEF TabRan
<1>8. PICK s \in S : /\ widget'.active = (s.active \ q[n].out)
                                             \cup {q[n].element}
  BY <1>2, <1>4, <1>7, SwitchStep
<1>9. q[n].out = widget.active /\ q[n].element \in E
  BY <1>1, <1>2, <1>4
<1>10. widget'.active \subseteq E
  <2> HIDE DEF q
  <2> QED BY <1>8, <1>9
<1> QED BY <1>10 DEF E, TheTab!LeftoversFade

(***************************************************************************)
(* Once a switch is over no panes are active but those of headers that     *)
(* were clicked while it lasted, for any number of tabs and of clicks: the *)
(* calls that wait put out all that were active (activate and next).       *)
(***************************************************************************)
THEOREM LeftoversTheorem == Spec => LeftoversFade
<1>1. ASSUME TabInv, [Next]_vars
      PROVE  [kind = "tab" => TheTab!LeftoversFade]_vars
  <2> SUFFICES ASSUME Next, kind = "tab" PROVE TheTab!LeftoversFade
    BY <1>1
  <2> QED BY <1>1, TabShowLeaves, TabEndLeaves
          DEF TabInv, Next, TheTab!Next
<1> QED BY <1>1, TabAlways, PTL DEF Spec, LeftoversFade

-----------------------------------------------------------------------------
(***************************************************************************)
(* The dropdown menus.                                                     *)
(***************************************************************************)
MenusType ==
    [open : SUBSET Menus, kept : SUBSET Menus, barred : SUBSET Menus,
     focusIn : Menus \cup {0}, focus : 0..Entries]

(***************************************************************************)
(* Of the open menus whose listeners let them close there is one.          *)
(***************************************************************************)
MenusStates ==
    {s \in MenusType : \A m, k \in s.open \ s.kept : m = k}

MenusInv == kind = "dropdown" => widget \in MenusStates

(***************************************************************************)
(* clearMenus leaves the menus that are kept open, and the one whose input *)
(* was clicked.                                                            *)
(***************************************************************************)
LEMMA ClearMenusStep ==
    ASSUME NEW s \in MenusType, NEW input \in Nat,
           NEW r, r = TheDropdown!ClearMenus(s, input)
    PROVE  /\ r \in MenusType /\ r.kept = s.kept /\ r.focus = s.focus
           /\ r.open \ r.kept \subseteq {input} \cap s.open
<1> DEFINE left == s.open \cap (s.kept \cup
                      {m \in {input} \cap s.open : \A n \in s.open : m <= n})
           in == IF s.focus = 0 \/ s.focusIn \in left THEN s.focusIn ELSE 0
<1>1. r = [s EXCEPT !.open = left, !.focusIn = in]
  BY DEF TheDropdown!ClearMenus, MenusType
<1>2. /\ left \in SUBSET Menus /\ in \in Menus \cup {0}
      /\ left \ s.kept \subseteq {input} \cap s.open
  BY DEF MenusType
<1> HIDE DEF left, in
<1>3. r \in MenusType
  BY <1>1, <1>2, Zenon DEF MenusType
<1> QED BY <1>1, <1>2, <1>3 DEF MenusType

(***************************************************************************)
(* toggle opens its menu when the others have been told to close.          *)
(***************************************************************************)
LEMMA MenusToggleStep ==
    ASSUME NEW s \in MenusType, NEW m \in Menus,
           NEW r, r = TheDropdown!Toggle(s, m)
    PROVE  r \in MenusStates
<1>1. 0 \in Nat /\ 0 \notin Menus /\ 0 \in 0..Entries
  BY PageAssumption
<1> DEFINE cleared == TheDropdown!ClearMenus(s, 0)
<1>2. /\ cleared \in MenusType /\ cleared.kept = s.kept
      /\ cleared.open \ cleared.kept \subseteq {0} \cap s.open
  BY <1>1, ClearMenusStep
<1>3. cleared.open \ cleared.kept = {}
  BY <1>1, <1>2 DEF MenusType
<1>4. \/ r = cleared
      \/ r = [cleared EXCEPT !.open = @ \cup {m}, !.focusIn = m, !.focus = 0]
  BY DEF TheDropdown!Toggle
<1> HIDE DEF cleared
<1>5. CASE r = cleared
  BY <1>2, <1>3, <1>5 DEF MenusStates
<1>6. CASE r = [cleared EXCEPT !.open = @ \cup {m}, !.focusIn = m,
                               !.focus = 0]
  <2> DEFINE open == cleared.open \cup {m}
  <2>1. r = [cleared EXCEPT !.open = open, !.focusIn = m, !.focus = 0]
    BY <1>2, <1>6 DEF MenusType
  <2>2. open \in SUBSET Menus /\ m \in Menus \cup {0}
    BY <1>2 DEF MenusType
  <2>3. open \ cleared.kept \subseteq {m}
    BY <1>3
  <2> HIDE DEF open
  <2>4. r \in MenusType
    BY <1>1, <1>2, <2>1, <2>2, Zenon DEF MenusType
  <2>5. r.open = open /\ r.kept = cleared.kept
    BY <1>2, <2>1, <2>4 DEF MenusType
  <2> QED BY <2>3, <2>4, <2>5 DEF MenusStates
<1> QED BY <1>4, <1>5, <1>6

(***************************************************************************)
(* Each handler of the menus, and of the keys.                             *)
(***************************************************************************)
LEMMA MenusStep ==
    ASSUME widget \in MenusStates, TheDropdown!Next
    PROVE  widget' \in MenusStates
<1>1. widget \in MenusType
  BY DEF MenusStates
<1>2. CASE TheDropdown!ClickElsewhere
  BY <1>1, <1>2, ClearMenusStep DEF TheDropdown!ClickElsewhere, MenusStates
<1>3. ASSUME NEW m \in Menus, TheDropdown!Click(m)
      PROVE  widget' \in MenusStates
  BY <1>1, <1>3, MenusToggleStep DEF TheDropdown!Click
<1>4. ASSUME NEW m \in Menus, TheDropdown!ClickInput(m)
      PROVE  widget' \in MenusStates
  <2>1. m \in Nat
    BY PageAssumption
  <2>2. widget' = TheDropdown!ClearMenus(widget, m)
    BY <1>4 DEF TheDropdown!ClickInput
  <2> QED BY <1>1, <2>1, <2>2, ClearMenusStep DEF MenusStates
<1>5. ASSUME NEW m \in Menus, NEW key, TheDropdown!KeyDown(m, key)
      PROVE  widget' \in MenusStates
  <2> DEFINE f == IF key = "escape" THEN 0 ELSE widget.focus
             at == widget.focus - 1
             moved == CASE key = "up" /\ at > 0 -> at - 1
                        [] key = "down" /\ at < Entries - 1 -> at + 1
                        [] OTHER -> IF at = -1 THEN 0 ELSE at
  <2>1. Entries \in Nat /\ widget.focus \in 0..Entries
    BY <1>1, PageAssumption DEF MenusType
  <2>2. CASE widget' = TheDropdown!Toggle([widget EXCEPT !.focus = f], m)
    <3>1. f \in 0..Entries
      BY <2>1
    <3>2. [widget EXCEPT !.focus = f] \in MenusType
      BY <1>1, <3>1 DEF MenusType
    <3> QED BY <2>2, <3>2, MenusToggleStep
  <2>3. CASE Entries > 0 /\ widget' = [widget EXCEPT !.focus = moved + 1]
    <3>1. \/ at > 0 /\ moved = at - 1
          \/ at < Entries - 1 /\ moved = at + 1
          \/ moved = IF at = -1 THEN 0 ELSE at
      BY Zenon
    <3>2. moved + 1 \in 0..Entries
      <4> HIDE DEF moved
      <4> QED BY <2>1, <2>3, <3>1
    <3> HIDE DEF moved
    <3> QED BY <2>3, <3>2 DEF MenusStates, MenusType
  <2>4. \/ widget' = TheDropdown!Toggle([widget EXCEPT !.focus = f], m)
        \/ Entries > 0 /\ widget' = [widget EXCEPT !.focus = moved + 1]
    <3>1. (key = "escape" /\ f = 0) \/ (key # "escape" /\ f = widget.focus)
      OBVIOUS
    <3> QED BY <1>5, <3>1, Zenon DEF TheDropdown!KeyDown
  <2> QED BY <2>2, <2>3, <2>4
<1> QED BY <1>2, <1>3, <1>4, <1>5 DEF TheDropdown!Next

(***************************************************************************)
(* A set of which any two members are the same has one at most.            *)
(***************************************************************************)
LEMMA AtMostOne ==
    ASSUME NEW P, \A x, y \in P : x = y
    PROVE  Cardinality(P) <= 1
<1>1. CASE P = {}
  <2>1. Cardinality({}) = 0
    BY FS_EmptySet
  <2> QED BY <1>1, <2>1
<1>2. CASE P # {}
  <2>1. PICK p : P = {p}
    BY <1>2
  <2>2. Cardinality({p}) = 1
    BY FS_Singleton
  <2> QED BY <2>1, <2>2
<1> QED BY <1>1, <1>2

(***************************************************************************)
(* In every behaviour of the page the menus keep to their states.          *)
(***************************************************************************)
LEMMA MenusAlways == Spec => []MenusInv
<1>1. Init => MenusInv
  <2> SUFFICES ASSUME Init, kind = "dropdown" PROVE widget \in MenusStates
    BY DEF MenusInv
  <2>1. PICK kept \in SUBSET Menus, barred \in SUBSET Menus :
            widget = [open |-> {}, kept |-> kept, barred |-> barred,
                      focusIn |-> 0, focus |-> 0]
    BY DEF Init, TheDropdown!Init
  <2>2. 0 \in 0..Entries
    BY PageAssumption
  <2> QED BY <2>1, <2>2 DEF MenusStates, MenusType
<1>2. MenusInv /\ [Next]_vars => MenusInv'
  BY MenusStep DEF MenusInv, Next, vars
<1> QED BY <1>1, <1>2, PTL DEF Spec

(***************************************************************************)
(* Of the menus whose listeners let them close at most one is open, for    *)
(* any number of menus and entries (toggle, clearMenus and keydown).       *)
(***************************************************************************)
THEOREM MenuTheorem == Spec => []OneMenuOpen
<1>1. MenusInv => OneMenuOpen
  <2> SUFFICES ASSUME MenusInv, kind = "dropdown"
               PROVE  Cardinality(widget.open \ widget.kept) <= 1
    <3>1. \A T : TheDropdown!Cardinality(T) = Cardinality(T)
      BY DEF TheDropdown!Cardinality, Cardinality
    <3> QED BY <3>1 DEF OneMenuOpen, TheDropdown!OneMenuOpen
  <2>1. \A m, k \in widget.open \ widget.kept : m = k
    BY DEF MenusInv, MenusStates
  <2> QED BY <2>1, AtMostOne
<1> QED BY <1>1, MenusAlways, PTL

-----------------------------------------------------------------------------
(***************************************************************************)
(* The buttons.                                                            *)
(***************************************************************************)
ButtonType ==
    [text : States \cup {"original"},
     resetText : States \cup {"original", "none"},
     timers : Seq(States), isLoading : BOOLEAN, disabled : BOOLEAN,
     asked : States \cup {"original"},
     active : SUBSET Radios, checked : SUBSET Radios]

(***************************************************************************)
(* The text that was kept is the first one; the timer that was set last is *)
(* for the state asked for last, and once it has run the button shows it.  *)
(***************************************************************************)
ButtonStates ==
    {b \in ButtonType :
        /\ b.resetText \in {"none", "original"}
        /\ b.resetText = "none" =>
              b.text = "original" /\ b.asked = "original" /\ b.timers = <<>>
        /\ b.disabled <=> b.isLoading
        /\ b.timers # <<>> => b.asked = b.timers[Len(b.timers)]
        /\ b.timers = <<>> =>
              /\ b.disabled <=> b.asked = "loading"
              /\ b.text = IF b.asked = "reset" THEN "original" ELSE b.asked}

ButtonInv == kind = "button" => widget \in ButtonStates

(***************************************************************************)
(* setState.                                                               *)
(***************************************************************************)
LEMMA SetStateStep ==
    ASSUME widget \in ButtonStates, NEW state \in States,
           TheButton!SetState(state)
    PROVE  widget' \in ButtonStates
<1> DEFINE kept == IF widget.resetText = "none" THEN widget.text
                                                ELSE widget.resetText
           q == Append(widget.timers, state)
<1>1. widget \in ButtonType
  BY DEF ButtonStates
<1>2. widget' = [widget EXCEPT !.resetText = kept, !.timers = q,
                               !.asked = state]
  BY <1>1 DEF TheButton!SetState, ButtonType
<1>3. kept = "original"
  BY DEF ButtonStates
<1>4. q \in Seq(States) /\ q # <<>> /\ q[Len(q)] = state
  BY <1>1 DEF ButtonType
<1> HIDE DEF kept, q
<1>5. widget' \in ButtonType
  <2>1. kept \in States \cup {"original", "none"}
    BY <1>3
  <2>2. state \in States \cup {"original"}
    OBVIOUS
  <2> QED BY <1>1, <1>2, <1>4, <2>1, <2>2, Zenon DEF ButtonType
<1>6. /\ widget'.resetText = "original" /\ widget'.timers = q
      /\ widget'.asked = state /\ widget'.disabled = widget.disabled
      /\ widget'.isLoading = widget.isLoading
  BY <1>1, <1>2, <1>3, <1>5 DEF ButtonType
<1>7. widget.disabled <=> widget.isLoading
  BY DEF ButtonStates
<1> QED BY <1>4, <1>5, <1>6, <1>7 DEF ButtonStates

(***************************************************************************)
(* The timer of setState that was set first.                               *)
(***************************************************************************)
LEMMA TimerStep ==
    ASSUME widget \in ButtonStates, TheButton!Timer
    PROVE  widget' \in ButtonStates
<1> DEFINE state == Head(widget.timers)
           text == IF state = "reset" THEN widget.resetText ELSE state
           q == Tail(widget.timers)
           on == state = "loading"
<1>1. /\ widget \in ButtonType /\ widget.timers # <<>>
      /\ widget.timers \in Seq(States)
  BY DEF ButtonStates, ButtonType, TheButton!Timer
<1>2. /\ widget.asked = widget.timers[Len(widget.timers)]
      /\ widget.resetText = "original"
      /\ widget.disabled <=> widget.isLoading
  BY <1>1 DEF ButtonStates
<1>3. /\ q \in Seq(States) /\ state \in States
      /\ q # <<>> => widget.asked = q[Len(q)]
      /\ q = <<>> => widget.asked = state
  <2> DEFINE timers == widget.timers
  <2>1. /\ timers \in Seq(States) /\ timers # <<>>
        /\ widget.asked = timers[Len(timers)]
    BY <1>1, <1>2
  <2> HIDE DEF timers
  <2>2. /\ Tail(timers) \in Seq(States) /\ Len(timers) \in Nat \ {0}
        /\ Len(Tail(timers)) = Len(timers) - 1
        /\ \A i \in 1..Len(Tail(timers)) :
              Tail(timers)[i] = timers[i + 1]
        /\ Head(timers) = timers[1] /\ timers[1] \in States
    BY <2>1
  <2>3. ASSUME Tail(timers) # <<>>
        PROVE  widget.asked = Tail(timers)[Len(Tail(timers))]
    <3>1. Len(Tail(timers)) \in 1..Len(Tail(timers))
      BY <2>2, <2>3
    <3> QED BY <2>1, <2>2, <3>1
  <2>4. ASSUME Tail(timers) = <<>>
        PROVE  widget.asked = Head(timers)
    <3>0. Len(<<>>) = 0
      OBVIOUS
    <3>1. Len(Tail(timers)) = 0
      BY <2>4, <3>0, Zenon
    <3>2. Len(timers) = 1
      <4>1. ASSUME NEW n \in Nat \ {0}, n - 1 = 0
            PROVE  n = 1
        BY <4>1
      <4> QED BY <2>2, <3>1, <4>1, Zenon
    <3> QED BY <2>1, <2>2, <3>2
  <2> QED BY <2>2, <2>3, <2>4 DEF timers
<1>4. /\ text \in States \cup {"original"}
      /\ text = IF state = "reset" THEN "original" ELSE state
  BY <1>2, <1>3
<1>5. /\ widget'.text = text /\ widget'.timers = q
      /\ widget'.resetText = widget.resetText
      /\ widget'.asked = widget.asked
      /\ widget'.disabled <=> on
      /\ widget'.isLoading <=> on
      /\ widget' \in ButtonType
  <2> DEFINE ran == [widget EXCEPT !.timers = q, !.text = text]
  <2>1. ran \in ButtonType
    <3> HIDE DEF q, text
    <3> QED BY <1>1, <1>3, <1>4, Zenon DEF ButtonType
  <2>2. /\ ran.text = text /\ ran.timers = q
        /\ ran.resetText = widget.resetText /\ ran.asked = widget.asked
        /\ ran.disabled = widget.disabled
    BY <1>1, <2>1 DEF ButtonType
  <2>3. CASE on
    <3>1. widget' = [ran EXCEPT !.isLoading = TRUE, !.disabled = TRUE]
      BY <1>1, <2>3 DEF TheButton!Timer, ButtonType
    <3> HIDE DEF ran, q, text, state
    <3>2. widget' \in ButtonType
      BY <2>1, <3>1, Zenon DEF ButtonType
    <3> QED BY <2>1, <2>2, <2>3, <3>1, <3>2 DEF ButtonType
  <2>4. CASE ~on
    <3>1. widget' = [ran EXCEPT !.isLoading = FALSE,
                        !.disabled = ran.disabled /\ ~widget.isLoading]
      BY <1>1, <2>4 DEF TheButton!Timer, ButtonType
    <3>2. (ran.disabled /\ ~widget.isLoading) = FALSE
      BY <1>2, <2>2
    <3>3. widget' = [ran EXCEPT !.isLoading = FALSE, !.disabled = FALSE]
      BY <3>1, <3>2
    <3> HIDE DEF ran, q, text, state
    <3>4. widget' \in ButtonType
      BY <2>1, <3>3, Zenon DEF ButtonType
    <3> QED BY <2>1, <2>2, <2>4, <3>3, <3>4 DEF ButtonType
  <2> QED BY <2>3, <2>4
<1> HIDE DEF state, text, q
<1> QED BY <1>2, <1>3, <1>4, <1>5 DEF ButtonStates

(***************************************************************************)
(* The radio buttons.                                                      *)
(***************************************************************************)
LEMMA ButtonToggleStep ==
    ASSUME widget \in ButtonStates, NEW r \in Radios, TheButton!Toggle(r)
    PROVE  widget' \in ButtonStates
<1>1. widget' = [widget EXCEPT !.active = {r}, !.checked = {r}]
  BY DEF TheButton!Toggle
<1>2. widget' \in ButtonType
  <2>1. {r} \in SUBSET Radios /\ widget \in ButtonType
    BY DEF ButtonStates
  <2> QED BY <1>1, <2>1, Zenon DEF ButtonType
<1>3. /\ widget'.text = widget.text /\ widget'.timers = widget.timers
      /\ widget'.resetText = widget.resetText
      /\ widget'.asked = widget.asked
      /\ widget'.disabled = widget.disabled
      /\ widget'.isLoading = widget.isLoading
  BY <1>1, <1>2 DEF ButtonStates, ButtonType
<1> QED BY <1>2, <1>3 DEF ButtonStates

(***************************************************************************)
(* In every behaviour of the page a button keeps to its states.            *)
(***************************************************************************)
LEMMA ButtonAlways == Spec => []ButtonInv
<1>1. Init => ButtonInv
  <2> SUFFICES ASSUME Init, kind = "button" PROVE widget \in ButtonStates
    BY DEF ButtonInv
  <2>1. PICK r \in SUBSET Radios :
            widget = [text |-> "original", resetText |-> "none",
                      timers |-> <<>>, isLoading |-> FALSE,
                      disabled |-> FALSE, asked |-> "original",
                      active |-> r, checked |-> r]
    BY DEF Init, TheButton!Init
  <2> QED BY <2>1 DEF ButtonStates, ButtonType
<1>2. ButtonInv /\ [Next]_vars => ButtonInv'
  BY SetStateStep, TimerStep, ButtonToggleStep
     DEF ButtonInv, Next, vars, TheButton!Next
<1> QED BY <1>1, <1>2, PTL DEF Spec

(***************************************************************************)
(* A button is what was asked for last once its timers have run, for any   *)
(* states, their order, and any number of timers (setState).               *)
(***************************************************************************)
THEOREM ButtonTheorem == Spec => []LastStateHolds
<1>1. ButtonInv => LastStateHolds
  BY DEF ButtonInv, ButtonStates, LastStateHolds, TheButton!LastStateHolds
<1> QED BY <1>1, ButtonAlways, PTL

-----------------------------------------------------------------------------
(***************************************************************************)
(* The affixed element: a check changes its state to what getState says,   *)
(* unless a listener cancels that, and two checks are enough.              *)
(***************************************************************************)
AffixType ==
    [affixed : {"null", "no", "top", "bottom"}, placed : BOOLEAN,
     vetoes : SUBSET {"no", "top", "bottom"},
     scrollTop : 0 .. Height - Viewport, checks : 0..2]

Rests(a) == TheAffix!GetState(a) \in {a.affixed} \cup a.vetoes

OffEdges(a) == a.scrollTop \notin TheAffix!Edges

(***************************************************************************)
(* The css top is there at the bottom and nowhere else, unless a listener  *)
(* cancels the change back from the bottom.                                *)
(***************************************************************************)
PlacedRight(a) ==
    /\ a.placed => a.affixed = "bottom"
    /\ a.affixed = "bottom" /\ "no" \notin a.vetoes => a.placed

AffixStates ==
    {a \in AffixType :
        /\ PlacedRight(a)
        /\ OffEdges(a) =>
            /\ a.checks = 1 => Rests(TheAffix!Checked(a))
            /\ a.checks = 2 => Rests(a)}

AffixInv == kind = "affix" => widget \in AffixStates

(***************************************************************************)
(* The lengths are natural numbers, and the element is affixed to the      *)
(* bottom further down than to the top.                                    *)
(***************************************************************************)
LEMMA AffixLengths ==
    /\ Height \in Nat /\ Viewport \in Nat /\ Element \in Nat
    /\ Pinned \in Nat /\ Natural \in Nat
    /\ OffsetTop \in Nat /\ OffsetBottom \in Nat
    /\ OffsetTop + Pinned < Height - OffsetBottom - Element
BY PageAssumption

(***************************************************************************)
(* The states that getState knows: from the bottom it goes to "no" or      *)
(* stays.                                                                  *)
(***************************************************************************)
LEMMA AffixGoals ==
    ASSUME NEW a \in AffixType
    PROVE  /\ TheAffix!GetState(a) \in {"no", "top", "bottom"}
           /\ a.affixed = "bottom" => TheAffix!GetState(a) # "top"
BY AffixLengths DEF TheAffix!GetState, AffixType

(***************************************************************************)
(* What a check looks at and what it changes.                              *)
(***************************************************************************)
LEMMA AffixCheck ==
    ASSUME NEW a \in AffixType
    PROVE  LET b == TheAffix!Checked(a) IN
           /\ b \in AffixType
           /\ b.scrollTop = a.scrollTop /\ b.vetoes = a.vetoes
           /\ b.affixed = IF Rests(a) THEN a.affixed
                                      ELSE TheAffix!GetState(a)
           /\ b.checks = IF a.checks < 2 THEN a.checks + 1 ELSE a.checks
           /\ PlacedRight(b)
           /\ TheAffix!GetState(a) = a.affixed =>
                  (b.placed <=> a.affixed = "bottom")
<1> DEFINE to == IF Rests(a) THEN a.affixed ELSE TheAffix!GetState(a)
           n == IF a.checks < 2 THEN a.checks + 1 ELSE a.checks
           at == TheAffix!GetState(a) = "bottom"
                   /\ ~(/\ TheAffix!GetState(a) # a.affixed
                        /\ TheAffix!GetState(a) \in a.vetoes)
<1>1. TheAffix!Checked(a) =
          [a EXCEPT !.affixed = to, !.placed = at, !.checks = n]
  BY DEF TheAffix!Checked, Rests, AffixType
<1>2. /\ to \in {"null", "no", "top", "bottom"} /\ n \in 0..2
      /\ at \in BOOLEAN
  BY AffixGoals DEF AffixType
<1>3. /\ at => to = "bottom"
      /\ to = "bottom" /\ "no" \notin a.vetoes => at
      /\ TheAffix!GetState(a) = a.affixed => (at <=> a.affixed = "bottom")
  BY AffixGoals DEF Rests
<1> HIDE DEF to, n, at
<1>4. [a EXCEPT !.affixed = to, !.placed = at, !.checks = n] \in AffixType
  BY <1>2 DEF AffixType
<1>5. LET b == TheAffix!Checked(a) IN
          /\ b.affixed = to /\ b.placed = at /\ b.checks = n
          /\ b.vetoes = a.vetoes /\ b.scrollTop = a.scrollTop
  BY <1>1 DEF AffixType
<1> QED BY <1>1, <1>3, <1>4, <1>5 DEF PlacedRight, to, n

(***************************************************************************)
(* An element that a listener holds at the bottom is content there.        *)
(***************************************************************************)
LEMMA HeldRests ==
    ASSUME NEW a \in AffixType, a.affixed = "bottom", "no" \in a.vetoes
    PROVE  Rests(a)
BY AffixGoals DEF Rests

(***************************************************************************)
(* Whatever the state was, it rests after two checks.                      *)
(***************************************************************************)
LEMMA TwoChecks ==
    ASSUME NEW a \in AffixType, PlacedRight(a), OffEdges(a)
    PROVE  Rests(TheAffix!Checked(TheAffix!Checked(a)))
<1>1. PICK b : b = TheAffix!Checked(a)
  OBVIOUS
<1>2. PICK c : c = TheAffix!Checked(b)
  OBVIOUS
<1>3. /\ b \in AffixType /\ c \in AffixType
      /\ b.scrollTop = a.scrollTop /\ b.vetoes = a.vetoes
      /\ c.scrollTop = a.scrollTop /\ c.vetoes = a.vetoes
      /\ b.affixed = IF Rests(a) THEN a.affixed ELSE TheAffix!GetState(a)
      /\ c.affixed = IF Rests(b) THEN b.affixed ELSE TheAffix!GetState(b)
      /\ PlacedRight(b) /\ PlacedRight(c)
  BY <1>1, <1>2, AffixCheck
<1> DEFINE top == a.scrollTop
           limit == Height - OffsetBottom - Element
           Held(x) == x.affixed = "bottom" /\ "no" \in x.vetoes
<1>4. /\ top \in Nat /\ limit \in Int /\ top # OffsetTop
      /\ top # limit - Pinned
  BY AffixLengths DEF AffixType, OffEdges, TheAffix!Edges, TheAffix!Limit
<1>5. ASSUME NEW x \in AffixType, x.scrollTop = top, PlacedRight(x), ~Held(x)
      PROVE  /\ top < OffsetTop =>
                  TheAffix!GetState(x) = IF x.affixed = "bottom" THEN "no"
                                                                 ELSE "top"
             /\ /\ top > OffsetTop /\ top + Pinned < limit
                /\ x.affixed # "null"
                => TheAffix!GetState(x) = "no"
             /\ top + Pinned > limit =>
                  /\ x.affixed \in {"no", "bottom"} =>
                        TheAffix!GetState(x) = "bottom"
                  /\ x.affixed = "top" => TheAffix!GetState(x) = "no"
             /\ x.affixed = "null" /\ top > OffsetTop =>
                  TheAffix!GetState(x) \in {"no", "bottom"}
             /\ x.affixed = "null" =>
                  \/ TheAffix!GetState(x) = TheAffix!GetState(a)
                  \/ a.affixed # "null"
  BY <1>4, <1>5, AffixLengths
     DEF TheAffix!GetState, TheAffix!Top, TheAffix!Limit, AffixType,
         PlacedRight
<1>6. \/ top < OffsetTop
      \/ top > OffsetTop /\ top + Pinned < limit
      \/ top > OffsetTop /\ top + Pinned > limit
  BY <1>4, AffixLengths
<1>7. CASE Held(a) \/ Held(b) \/ Held(c)
  <2>1. Held(a) => Held(b)
    BY <1>3, HeldRests
  <2>2. Held(b) => Held(c)
    BY <1>3, HeldRests
  <2> QED BY <1>2, <1>1, <1>3, <1>7, <2>1, <2>2, HeldRests
<1>8. CASE ~Held(a) /\ ~Held(b) /\ ~Held(c)
  <2> HIDE DEF limit, top, Held
  <2>1. Rests(c)
    BY <1>3, <1>4, <1>5, <1>6, <1>8 DEF Rests, AffixType, top
  <2> QED BY <1>1, <1>2, <2>1
<1> QED BY <1>7, <1>8

(***************************************************************************)
(* A scroll starts the count of the checks again.                          *)
(***************************************************************************)
LEMMA AffixScroll ==
    ASSUME widget \in AffixType, PlacedRight(widget), TheAffix!Scroll
    PROVE  /\ widget' \in AffixType /\ widget'.checks = 0
           /\ PlacedRight(widget')
<1>1. PICK top \in 0 .. Height - Viewport :
          widget' = [widget EXCEPT !.scrollTop = top, !.checks = 0]
  BY DEF TheAffix!Scroll
<1>2. 0 \in 0..2
  OBVIOUS
<1>3. widget' \in AffixType
  BY <1>1, <1>2, Zenon DEF AffixType
<1>4. /\ widget'.checks = 0 /\ widget'.placed = widget.placed
      /\ widget'.affixed = widget.affixed /\ widget'.vetoes = widget.vetoes
  BY <1>1 DEF AffixType
<1> QED BY <1>3, <1>4 DEF PlacedRight

(***************************************************************************)
(* A check and a scroll keep the invariant.                                *)
(***************************************************************************)
LEMMA AffixStep ==
    ASSUME widget \in AffixStates, TheAffix!Next
    PROVE  widget' \in AffixStates
<1>1. CASE TheAffix!Scroll
  <2>1. /\ widget' \in AffixType /\ widget'.checks = 0
        /\ PlacedRight(widget')
    BY <1>1, AffixScroll DEF AffixStates
  <2> QED BY <2>1 DEF AffixStates
<1>2. CASE TheAffix!CheckPosition
  <2>1. PICK a : a = widget
    OBVIOUS
  <2>2. PICK b : b = TheAffix!Checked(a)
    OBVIOUS
  <2>3. /\ a \in AffixType /\ b \in AffixType
        /\ b.scrollTop = a.scrollTop /\ b.vetoes = a.vetoes
        /\ b.affixed = IF Rests(a) THEN a.affixed ELSE TheAffix!GetState(a)
        /\ b.checks = IF a.checks < 2 THEN a.checks + 1 ELSE a.checks
        /\ PlacedRight(a) /\ PlacedRight(b)
        /\ TheAffix!GetState(a) = a.affixed =>
              (b.placed <=> a.affixed = "bottom")
    BY <2>1, <2>2, AffixCheck DEF AffixStates
  <2>4. widget' = b
    BY <1>2, <2>1, <2>2 DEF TheAffix!CheckPosition
  <2>5. ASSUME OffEdges(b), b.checks = 1 PROVE Rests(TheAffix!Checked(b))
    BY <2>2, <2>3, <2>5, TwoChecks DEF OffEdges
  <2>6. ASSUME OffEdges(b), b.checks = 2 PROVE Rests(b)
    <3>1. a.checks \in {1, 2} /\ OffEdges(a)
      BY <2>3, <2>6 DEF AffixType, OffEdges
    <3>2. CASE a.checks = 1
      BY <2>1, <2>2, <3>1, <3>2 DEF AffixStates
    <3>3. CASE a.checks = 2
      <4>1. Rests(a)
        BY <2>1, <3>1, <3>3 DEF AffixStates
      <4>2. b.affixed = a.affixed
        BY <2>3, <4>1
      <4>3. CASE b.affixed = "bottom" /\ "no" \in b.vetoes
        BY <2>3, <4>3, HeldRests
      <4>4. CASE ~(b.affixed = "bottom" /\ "no" \in b.vetoes)
        <5>1. a.placed = b.placed
          BY <2>3, <4>2, <4>4 DEF PlacedRight, AffixType
        <5>2. TheAffix!GetState(b) = TheAffix!GetState(a)
          BY <2>3, <4>2, <5>1 DEF TheAffix!GetState, TheAffix!Top
        <5> QED BY <2>3, <4>1, <4>2, <5>2 DEF Rests
      <4> QED BY <4>3, <4>4
    <3> QED BY <3>1, <3>2, <3>3
  <2> QED BY <2>3, <2>4, <2>5, <2>6 DEF AffixStates
<1> QED BY <1>1, <1>2 DEF TheAffix!Next

(***************************************************************************)
(* In every behaviour an affixed element keeps to its states.              *)
(***************************************************************************)
LEMMA AffixAlways == Spec => []AffixInv
<1>1. Init => AffixInv
  <2> SUFFICES ASSUME Init, kind = "affix" PROVE widget \in AffixStates
    BY DEF AffixInv
  <2>1. PICK a \in AffixType :
            /\ a.checks = 0 /\ PlacedRight(a)
            /\ widget = TheAffix!Checked(a)
    <3>1. PICK top \in 0 .. Height - Viewport,
               vetoes \in SUBSET {"no", "top", "bottom"} :
              widget = TheAffix!Checked(
                           [affixed |-> "null", placed |-> FALSE,
                            vetoes |-> vetoes, scrollTop |-> top,
                            checks |-> 0])
      BY DEF Init, TheAffix!Init
    <3>2. LET a == [affixed |-> "null", placed |-> FALSE, vetoes |-> vetoes,
                    scrollTop |-> top, checks |-> 0]
          IN  a \in AffixType /\ PlacedRight(a) /\ a.checks = 0
      BY DEF AffixType, PlacedRight
    <3> QED BY <3>1, <3>2
  <2>2. /\ widget \in AffixType /\ widget.checks = 1
        /\ PlacedRight(widget)
        /\ OffEdges(widget) => OffEdges(a)
    BY <2>1, AffixCheck DEF OffEdges
  <2> QED BY <2>1, <2>2, TwoChecks DEF AffixStates
<1>2. AffixInv /\ [Next]_vars => AffixInv'
  <2> SUFFICES ASSUME AffixInv, [Next]_vars, kind' = "affix"
               PROVE  widget' \in AffixStates
    BY DEF AffixInv
  <2>1. kind = "affix" /\ (TheAffix!Next \/ widget' = widget)
    BY DEF Next, vars
  <2> QED BY <2>1, AffixStep DEF AffixInv
<1> QED BY <1>1, <1>2, PTL DEF Spec

(***************************************************************************)
(* An affixed element comes to rest two checks after a scroll, for all     *)
(* lengths and whichever changes a listener cancels but the one back from  *)
(* the bottom (checkPosition).                                             *)
(***************************************************************************)
THEOREM AffixTheorem == Spec => NoFlicker
<1>1. AffixInv /\ [Next]_vars => [kind = "affix" => TheAffix!NoFlicker]_vars
  <2> SUFFICES ASSUME AffixInv, Next, kind = "affix",
                      widget.checks = 2, widget'.checks = 2,
                      OffEdges(widget),
                      widget.affixed = "bottom" => "no" \notin widget.vetoes
               PROVE  /\ widget'.affixed = widget.affixed
                      /\ TheAffix!Top(widget') = TheAffix!Top(widget)
    BY DEF TheAffix!NoFlicker, OffEdges
  <2>1. PICK a \in AffixType :
            a = widget /\ Rests(a) /\ PlacedRight(a) /\ a.checks = 2
    BY DEF AffixInv, AffixStates
  <2>2. TheAffix!Scroll \/ widget' = TheAffix!Checked(a)
    BY <2>1 DEF Next, TheAffix!Next, TheAffix!CheckPosition
  <2>3. ~TheAffix!Scroll
    BY <2>1, AffixScroll
  <2>4. PICK b : b = TheAffix!Checked(a)
    OBVIOUS
  <2>5. /\ b.affixed = a.affixed /\ b.scrollTop = a.scrollTop
        /\ b.vetoes = a.vetoes /\ PlacedRight(b) /\ b \in AffixType
    BY <2>1, <2>4, AffixCheck
  <2>6. b.placed = a.placed
    BY <2>1, <2>5 DEF PlacedRight, AffixType
  <2> QED BY <2>1, <2>2, <2>3, <2>4, <2>5, <2>6 DEF TheAffix!Top
<1> QED BY <1>1, AffixAlways, PTL DEF Spec, NoFlicker

-----------------------------------------------------------------------------
(***************************************************************************)
(* The carousel: where it is going, and that this is what was asked for    *)
(* last, or the last of the positions that this has overtaken.             *)
(***************************************************************************)
Items == TheCarousel!Items

NoItem == TheCarousel!None

CarouselType ==
    [every : BOOLEAN, animate : BOOLEAN, wrap : BOOLEAN, vetoed : BOOLEAN,
     active : Items, sliding : BOOLEAN, moving : Items \cup {NoItem},
     slids : Nat, deferred : Seq(Items), paused : BOOLEAN,
     interval : BOOLEAN, asked : Items \cup {NoItem},
     overtaken : Items \cup {NoItem}]

(***************************************************************************)
(* The position that a carousel shows once it is at rest.                  *)
(***************************************************************************)
Goal(c) ==
    IF c.deferred # <<>> THEN c.deferred[Len(c.deferred)]
    ELSE IF c.sliding THEN c.moving ELSE c.active

OnItsWay(c) ==
    /\ c.sliding <=> c.moving # NoItem
    /\ ~c.animate => ~c.sliding /\ c.deferred = <<>>
    /\ ~c.vetoed /\ TheCarousel!Wanted(c) # NoItem =>
           TheCarousel!Wanted(c) = Goal(c)

CarouselStates == {c \in CarouselType : OnItsWay(c)}

CarouselInv == kind = "carousel" => widget \in CarouselStates

(***************************************************************************)
(* The interval and the pause have nothing to do with the positions.       *)
(***************************************************************************)
SamePlace(c, d) ==
    /\ d.animate = c.animate /\ d.vetoed = c.vetoed /\ d.active = c.active
    /\ d.sliding = c.sliding /\ d.moving = c.moving
    /\ d.deferred = c.deferred
    /\ d.asked = c.asked /\ d.overtaken = c.overtaken

(***************************************************************************)
(* cycle and pause.                                                        *)
(***************************************************************************)
LEMMA CycleKeeps ==
    ASSUME NEW c \in CarouselType, NEW byEvent \in BOOLEAN
    PROVE  /\ TheCarousel!Cycle(c, byEvent) \in CarouselType
           /\ SamePlace(c, TheCarousel!Cycle(c, byEvent))
<1> DEFINE paused == byEvent /\ c.paused
           on == c.every /\ ~paused
           d == [c EXCEPT !.paused = paused, !.interval = on]
<1>1. TheCarousel!Cycle(c, byEvent) = d
  BY DEF TheCarousel!Cycle
<1>2. paused \in BOOLEAN /\ on \in BOOLEAN
  OBVIOUS
<1> HIDE DEF paused, on
<1>3. d \in CarouselType
  BY <1>2, Zenon DEF CarouselType
<1>4. SamePlace(c, d)
  BY Zenon DEF CarouselType, SamePlace
<1> QED BY <1>1, <1>3, <1>4

(***************************************************************************)
(* The same of pause.                                                      *)
(***************************************************************************)
LEMMA PauseKeeps ==
    ASSUME NEW c \in CarouselType, NEW byEvent \in BOOLEAN
    PROVE  /\ TheCarousel!Pause(c, byEvent) \in CarouselType
           /\ SamePlace(c, TheCarousel!Pause(c, byEvent))
<1> DEFINE paused == c.paused \/ ~byEvent
           d == [c EXCEPT !.paused = paused, !.interval = FALSE]
<1>1. TheCarousel!Pause(c, byEvent) = d
  BY Zenon DEF TheCarousel!Pause, CarouselType
<1>2. paused \in BOOLEAN /\ FALSE \in BOOLEAN
  OBVIOUS
<1> HIDE DEF paused
<1>3. d \in CarouselType
  BY <1>2, Zenon DEF CarouselType
<1>4. SamePlace(c, d)
  BY Zenon DEF CarouselType, SamePlace
<1> QED BY <1>1, <1>3, <1>4

(***************************************************************************)
(* A carousel at rest that is paused and set going again.                  *)
(***************************************************************************)
Restarted(c) == TheCarousel!Cycle(TheCarousel!Pause(c, FALSE), FALSE)

(***************************************************************************)
(* A carousel that is set going again stays where it is.                   *)
(***************************************************************************)
LEMMA RestartKeeps ==
    ASSUME NEW c \in CarouselType
    PROVE  Restarted(c) \in CarouselType /\ SamePlace(c, Restarted(c))
<1>1. PICK d : d = TheCarousel!Pause(c, FALSE)
  OBVIOUS
<1>2. d \in CarouselType /\ SamePlace(c, d)
  BY <1>1, PauseKeeps
<1>3. /\ TheCarousel!Cycle(d, FALSE) \in CarouselType
      /\ SamePlace(d, TheCarousel!Cycle(d, FALSE))
  BY <1>2, CycleKeeps
<1> QED BY <1>1, <1>2, <1>3 DEF Restarted, SamePlace

(***************************************************************************)
(* slide, of a carousel at rest.                                           *)
(***************************************************************************)
SlidesTo(c, next, d) ==
    /\ d \in CarouselType
    /\ d.animate = c.animate /\ d.vetoed = c.vetoed
    /\ d.deferred = c.deferred
    /\ d.asked = c.asked /\ d.overtaken = c.overtaken
    /\ d.sliding <=> next # c.active /\ ~c.vetoed /\ c.animate
    /\ d.moving = IF d.sliding THEN next ELSE NoItem
    /\ d.active = IF ~c.vetoed /\ ~c.animate THEN next ELSE c.active

(***************************************************************************)
(* slide does what SlidesTo says.                                          *)
(***************************************************************************)
LEMMA SlideMoves ==
    ASSUME NEW c \in CarouselType, ~c.sliding, c.moving = NoItem,
           NEW next \in Items
    PROVE  SlidesTo(c, next, TheCarousel!Slide(c, next))
<1>a. PICK d : d = TheCarousel!Slide(c, next)
  OBVIOUS
<1> SUFFICES SlidesTo(c, next, d)
  BY <1>a
<1>0. c.animate \in BOOLEAN /\ c.vetoed \in BOOLEAN /\ c.sliding = FALSE
  BY DEF CarouselType
<1>1. CASE next = c.active
  <2>1. d = [c EXCEPT !.sliding = FALSE]
    BY <1>a, <1>1 DEF TheCarousel!Slide
  <2>2. d \in CarouselType
    <3>1. FALSE \in BOOLEAN
      OBVIOUS
    <3> QED BY <2>1, <3>1, Zenon DEF CarouselType
  <2>3. SamePlace(c, d)
    BY <1>0, <2>1, Zenon DEF CarouselType, SamePlace
  <2> QED BY <1>0, <1>1, <2>2, <2>3 DEF SamePlace, SlidesTo
<1>2. CASE next # c.active /\ c.vetoed
  <2>1. d = c
    BY <1>a, <1>2 DEF TheCarousel!Slide
  <2> QED BY <1>0, <1>2, <2>1 DEF SlidesTo
<1>3. CASE next # c.active /\ ~c.vetoed
  <2>1. PICK held : held = IF c.interval THEN TheCarousel!Pause(c, FALSE)
                                         ELSE c
    OBVIOUS
  <2>2. held \in CarouselType /\ SamePlace(c, held)
    BY <2>1, PauseKeeps DEF SamePlace
  <2>3. PICK moved : moved =
            IF c.animate
            THEN [held EXCEPT !.sliding = TRUE, !.moving = next]
            ELSE [held EXCEPT !.sliding = FALSE, !.active = next]
    OBVIOUS
  <2>4. SlidesTo(c, next, moved)
    <3>1. TRUE \in BOOLEAN /\ FALSE \in BOOLEAN
          /\ next \in Items \cup {NoItem}
      OBVIOUS
    <3>2. moved \in CarouselType
      BY <2>2, <2>3, <3>1, Zenon DEF CarouselType
    <3>3. /\ moved.animate = held.animate /\ moved.vetoed = held.vetoed
          /\ moved.deferred = held.deferred /\ moved.asked = held.asked
          /\ moved.overtaken = held.overtaken
          /\ c.animate => /\ moved.sliding = TRUE /\ moved.moving = next
                          /\ moved.active = held.active
          /\ ~c.animate => /\ moved.sliding = FALSE /\ moved.active = next
                           /\ moved.moving = held.moving
      BY <2>2, <2>3, Zenon DEF CarouselType
    <3> QED BY <1>0, <1>3, <2>2, <3>2, <3>3 DEF SamePlace, SlidesTo
  <2>5. d = IF c.interval THEN TheCarousel!Cycle(moved, FALSE) ELSE moved
    BY <1>a, <1>3, <2>1, <2>3 DEF TheCarousel!Slide
  <2>6. d \in CarouselType /\ SamePlace(moved, d)
    <3>1. moved \in CarouselType
      BY <2>4 DEF SlidesTo
    <3> QED BY <2>5, <3>1, CycleKeeps DEF SamePlace
  <2> QED BY <2>4, <2>6 DEF SlidesTo, SamePlace
<1> QED BY <1>0, <1>1, <1>2, <1>3

(***************************************************************************)
(* A carousel with other history variables.                                *)
(***************************************************************************)
Noted(c, p, o) == [c EXCEPT !.asked = p, !.overtaken = o]

Places == Items \cup {NoItem}

(***************************************************************************)
(* Single fields: what was asked for, and the positions that wait.         *)
(***************************************************************************)
LEMMA AskedKeeps ==
    ASSUME NEW c \in CarouselType, NEW p \in Places,
           NEW o \in Places,
           NEW d, d = Noted(c, p, o)
    PROVE  /\ d \in CarouselType
           /\ o = NoItem => TheCarousel!Wanted(d) = p
           /\ o # NoItem => TheCarousel!Wanted(d) = o
           /\ d.animate = c.animate /\ d.vetoed = c.vetoed
           /\ d.active = c.active /\ d.sliding = c.sliding
           /\ d.moving = c.moving /\ d.deferred = c.deferred
<1>1. /\ d \in CarouselType /\ d.asked = p /\ d.overtaken = o
      /\ d.animate = c.animate /\ d.vetoed = c.vetoed
      /\ d.active = c.active /\ d.sliding = c.sliding
      /\ d.moving = c.moving /\ d.deferred = c.deferred
  BY Zenon DEF CarouselType, Noted, Places
<1>2. /\ o = NoItem => TheCarousel!Wanted(d) = p
      /\ o # NoItem => TheCarousel!Wanted(d) = o
  BY <1>1, Zenon DEF TheCarousel!Wanted, NoItem
<1> QED BY <1>1, <1>2, Zenon

(***************************************************************************)
(* Positions that wait, more or fewer of them.                             *)
(***************************************************************************)
LEMMA DeferredKeeps ==
    ASSUME NEW c \in CarouselType, NEW q \in Seq(Items)
    PROVE  LET d == [c EXCEPT !.deferred = q] IN
           /\ d \in CarouselType /\ d.deferred = q
           /\ d.animate = c.animate /\ d.vetoed = c.vetoed
           /\ d.active = c.active /\ d.sliding = c.sliding
           /\ d.moving = c.moving
           /\ d.asked = c.asked /\ d.overtaken = c.overtaken
BY Zenon DEF CarouselType

(***************************************************************************)
(* The positions, and what is next to one, are numbers below Slides.       *)
(***************************************************************************)
LEMMA ItemsFacts ==
    /\ Items \subseteq Nat /\ NoItem \notin Items
    /\ \A c \in CarouselType, step \in {-1, 1} :
           TheCarousel!Neighbour(c, step) \in Items
<1>1. Slides \in Nat \ {0}
  BY PageAssumption
<1>2. Items = 0 .. Slides - 1 /\ NoItem = -1
  BY DEF Items, NoItem, TheCarousel!Items, TheCarousel!None
<1>3. ASSUME NEW c \in CarouselType, NEW step \in {-1, 1}
      PROVE  TheCarousel!Neighbour(c, step) \in Items
  <2>1. c.active \in Items /\ c.active + step \in Int
    BY <1>2 DEF CarouselType
  <2>2. (c.active + step) % Slides \in 0 .. Slides - 1
    BY <1>1, <2>1
  <2> QED BY <1>2, <2>1, <2>2 DEF TheCarousel!Neighbour
<1> QED BY <1>1, <1>2, <1>3

(***************************************************************************)
(* What a carousel that is slid or set going again takes for asked and     *)
(* overtaken: nothing waits, or the last one that does is overtaken.       *)
(***************************************************************************)
Takes(c, next, p, o) ==
    /\ p \in Places /\ o \in Places
    /\ c.deferred = <<>> => p \in {next, NoItem} /\ o = NoItem
    /\ c.deferred # <<>> => o = c.deferred[Len(c.deferred)]

(***************************************************************************)
(* A slide to where the user wants to go, or without a user who waits.     *)
(***************************************************************************)
LEMMA SlideGoes ==
    ASSUME NEW c \in CarouselType, OnItsWay(c), ~c.sliding,
           NEW next \in Items, NEW d, SlidesTo(c, next, d)
    PROVE  /\ \A p, o : Takes(c, next, p, o) =>
                             Noted(d, p, o) \in CarouselStates
           /\ c.deferred # <<>> => d \in CarouselStates
<1>1. /\ d \in CarouselType /\ c.moving = NoItem
      /\ d.animate \in BOOLEAN /\ d.sliding \in BOOLEAN
      /\ next # NoItem
  BY ItemsFacts DEF SlidesTo, CarouselType, OnItsWay
<1>2. ASSUME NEW p, NEW o, Takes(c, next, p, o)
      PROVE  Noted(d, p, o) \in CarouselStates
  <2>1. PICK e : e = Noted(d, p, o)
    OBVIOUS
  <2>2. /\ e \in CarouselType
        /\ o = NoItem => TheCarousel!Wanted(e) = p
        /\ o # NoItem => TheCarousel!Wanted(e) = o
        /\ e.animate = d.animate /\ e.vetoed = d.vetoed
        /\ e.active = d.active /\ e.sliding = d.sliding
        /\ e.moving = d.moving /\ e.deferred = d.deferred
    <3>1. p \in Places /\ o \in Places
      BY <1>2 DEF Takes
    <3> QED BY <1>1, <2>1, <3>1, AskedKeeps
  <2>3. OnItsWay(e)
    <3>1. e.sliding <=> e.moving # NoItem
      BY <1>1, <2>2 DEF SlidesTo
    <3>2. ~e.animate => ~e.sliding /\ e.deferred = <<>>
      BY <2>2 DEF SlidesTo, OnItsWay
    <3>3. ASSUME ~e.vetoed, TheCarousel!Wanted(e) # NoItem
          PROVE  TheCarousel!Wanted(e) = Goal(e)
      <4>1. ~c.vetoed /\ e.deferred = c.deferred
        BY <2>2, <3>3 DEF SlidesTo
      <4>2. CASE c.deferred = <<>>
        <5>1. TheCarousel!Wanted(e) = next
          BY <1>2, <2>2, <3>3, <4>2 DEF Takes
        <5>2. Goal(e) = next
          BY <1>1, <2>2, <4>1, <4>2 DEF Goal, SlidesTo
        <5> QED BY <5>1, <5>2
      <4>3. CASE c.deferred # <<>>
        <5>1. o = c.deferred[Len(c.deferred)]
          BY <1>2, <4>3 DEF Takes
        <5>2. o # NoItem
          BY <4>3, <5>1, ItemsFacts DEF CarouselType
        <5> QED BY <2>2, <4>1, <4>3, <5>1, <5>2 DEF Goal
      <4> QED BY <4>2, <4>3
    <3> QED BY <3>1, <3>2, <3>3 DEF OnItsWay
  <2> QED BY <2>1, <2>2, <2>3 DEF CarouselStates
<1>3. ASSUME c.deferred # <<>> PROVE d \in CarouselStates
  <2>1. /\ d.deferred = c.deferred /\ d.vetoed = c.vetoed
        /\ TheCarousel!Wanted(d) = TheCarousel!Wanted(c)
    BY DEF SlidesTo, TheCarousel!Wanted
  <2>2. d.sliding <=> d.moving # NoItem
    BY <1>1 DEF SlidesTo
  <2>3. ~d.animate => ~d.sliding /\ d.deferred = <<>>
    BY DEF SlidesTo, OnItsWay
  <2> QED BY <1>1, <1>3, <2>1, <2>2, <2>3 DEF CarouselStates, OnItsWay, Goal
<1> QED BY <1>2, <1>3

(***************************************************************************)
(* What the history variables become is what Takes says.                   *)
(***************************************************************************)
LEMMA AskedTakes ==
    ASSUME NEW c \in CarouselType, c = widget, ~c.sliding,
           NEW next \in Items, NEW p \in {next, NoItem}, NEW d
    PROVE  \E o : /\ Takes(c, next, p, o)
                 /\ TheCarousel!Asked(d, p) = Noted(d, p, o)
<1>1. PICK o : o = IF c.deferred # <<>> THEN c.deferred[Len(c.deferred)]
                                        ELSE NoItem
  OBVIOUS
<1>2. TheCarousel!Asked(d, p) = Noted(d, p, o)
  BY <1>1, Zenon DEF TheCarousel!Asked, TheCarousel!InGap, NoItem, Noted
<1>3. Takes(c, next, p, o)
  BY <1>1 DEF Takes, CarouselType, Places
<1> QED BY <1>2, <1>3

(***************************************************************************)
(* The arrows and the interval.                                            *)
(***************************************************************************)
LEMMA ArrowStep ==
    ASSUME widget \in CarouselStates,
           \/ \E step \in {-1, 1} : TheCarousel!ClickStep(step)
           \/ TheCarousel!Tick
    PROVE  widget' \in CarouselStates
<1>1. PICK c \in CarouselType : c = widget /\ OnItsWay(c)
  BY DEF CarouselStates
<1>2. ~c.sliding /\ c.moving = NoItem
  BY <1>1 DEF TheCarousel!ClickStep, TheCarousel!Tick, OnItsWay
<1>3. PICK step \in {-1, 1} :
          \/ TheCarousel!ClickStep(step)
          \/ step = 1 /\ TheCarousel!Tick
  OBVIOUS
<1>4. PICK next : next = TheCarousel!Neighbour(c, step)
  OBVIOUS
<1>5. next \in Items
  BY <1>4, ItemsFacts
<1>6. PICK d : d = TheCarousel!Slide(c, next)
  OBVIOUS
<1>7. SlidesTo(c, next, d)
  BY <1>2, <1>5, <1>6, SlideMoves
<1>8. /\ \A p, o : Takes(c, next, p, o) => Noted(d, p, o) \in CarouselStates
      /\ c.deferred # <<>> => d \in CarouselStates
  BY <1>1, <1>2, <1>5, <1>7, SlideGoes
<1>9. ASSUME NEW p \in {next, NoItem}
      PROVE  TheCarousel!Asked(d, p) \in CarouselStates
  <2>1. PICK o : /\ Takes(c, next, p, o)
                 /\ TheCarousel!Asked(d, p) = Noted(d, p, o)
    BY <1>1, <1>2, <1>5, AskedTakes
  <2> QED BY <1>8, <2>1
<1>10. CASE TheCarousel!ClickStep(step)
  <2>1. widget' = TheCarousel!Asked(d, next)
    BY <1>1, <1>4, <1>6, <1>10 DEF TheCarousel!ClickStep
  <2> QED BY <1>9, <2>1
<1>11. CASE step = 1 /\ TheCarousel!Tick
  <2>1. widget' = IF TheCarousel!InGap(c) THEN d
                                          ELSE TheCarousel!Asked(d, NoItem)
    BY <1>1, <1>4, <1>6, <1>11 DEF TheCarousel!Tick, NoItem
  <2> QED BY <1>8, <1>9, <2>1 DEF TheCarousel!InGap
<1> QED BY <1>3, <1>10, <1>11

(***************************************************************************)
(* A click on an indicator.                                                *)
(***************************************************************************)
LEMMA ClickToStep ==
    ASSUME widget \in CarouselStates, NEW pos \in 0..Slides,
           TheCarousel!ClickTo(pos)
    PROVE  widget' \in CarouselStates
<1>1. PICK c \in CarouselType : c = widget /\ OnItsWay(c)
  BY DEF CarouselStates
<1>2. PICK d : d = TheCarousel!To(c, pos)
  OBVIOUS
<1>3. CASE pos \notin Items
  <2>1. widget' = c
    BY <1>1, <1>3 DEF TheCarousel!ClickTo, TheCarousel!To, Items
  <2> QED BY <1>1, <2>1
<1>4. CASE pos \in Items /\ c.sliding
  <2>1. PICK q : q = Append(c.deferred, pos)
    OBVIOUS
  <2>2. PICK e : e = [c EXCEPT !.deferred = q]
    OBVIOUS
  <2>3. widget' = Noted(e, pos, NoItem)
    BY <1>1, <1>4, <2>1, <2>2
       DEF TheCarousel!ClickTo, TheCarousel!To, TheCarousel!Asked,
           TheCarousel!InGap, Items, NoItem, CarouselType, Noted
  <2>4. q \in Seq(Items) /\ q # <<>> /\ q[Len(q)] = pos
    BY <1>4, <2>1 DEF CarouselType
  <2>5. /\ e \in CarouselType /\ e.deferred = q
        /\ e.animate = c.animate /\ e.vetoed = c.vetoed
        /\ e.active = c.active /\ e.sliding = c.sliding
        /\ e.moving = c.moving
    BY <2>2, <2>4, DeferredKeeps, Zenon
  <2>6. pos \in Places /\ NoItem \in Places
    BY <1>4 DEF Places
  <2>7. /\ widget' \in CarouselType /\ TheCarousel!Wanted(widget') = pos
        /\ widget'.animate = e.animate /\ widget'.vetoed = e.vetoed
        /\ widget'.active = e.active /\ widget'.sliding = e.sliding
        /\ widget'.moving = e.moving /\ widget'.deferred = e.deferred
    BY <2>3, <2>5, <2>6, AskedKeeps
  <2> QED BY <1>1, <1>4, <2>4, <2>5, <2>7
          DEF CarouselStates, OnItsWay, Goal
<1>5. CASE pos \in Items /\ ~c.sliding
  <2>1. PICK o : /\ Takes(c, pos, pos, o)
                 /\ TheCarousel!Asked(d, pos) = Noted(d, pos, o)
    BY <1>1, <1>5, AskedTakes
  <2>2. widget' = Noted(d, pos, o)
    BY <1>1, <1>2, <1>5, <2>1 DEF TheCarousel!ClickTo, Items
  <2>3. CASE pos = c.active
    <3>1. d = Restarted(c)
      BY <1>2, <1>5, <2>3 DEF TheCarousel!To, Items, Restarted
    <3>2. d \in CarouselType /\ SamePlace(c, d)
      BY <3>1, RestartKeeps
    <3>3. pos \in Places /\ o \in Places
      BY <2>1 DEF Takes
    <3>4. /\ widget' \in CarouselType
          /\ o = NoItem => TheCarousel!Wanted(widget') = pos
          /\ o # NoItem => TheCarousel!Wanted(widget') = o
          /\ widget'.animate = d.animate /\ widget'.vetoed = d.vetoed
          /\ widget'.active = d.active /\ widget'.sliding = d.sliding
          /\ widget'.moving = d.moving /\ widget'.deferred = d.deferred
      BY <2>2, <3>2, <3>3, AskedKeeps
    <3>5. CASE c.deferred = <<>>
      <4>1. TheCarousel!Wanted(widget') = pos
        BY <2>1, <3>4, <3>5 DEF Takes
      <4> QED BY <1>1, <1>5, <2>3, <3>2, <3>4, <3>5, <4>1
              DEF CarouselStates, OnItsWay, Goal, SamePlace
    <3>6. CASE c.deferred # <<>>
      <4>1. o = c.deferred[Len(c.deferred)]
        BY <2>1, <3>6 DEF Takes
      <4>2. o # NoItem
        BY <3>6, <4>1, ItemsFacts DEF CarouselType
      <4> QED BY <1>1, <1>5, <3>2, <3>4, <3>6, <4>1, <4>2
              DEF CarouselStates, OnItsWay, Goal, SamePlace
    <3> QED BY <3>5, <3>6
  <2>4. CASE pos # c.active
    <3>1. d = TheCarousel!Slide(c, pos)
      BY <1>2, <1>5, <2>4 DEF TheCarousel!To, Items
    <3>2. ~c.sliding /\ c.moving = NoItem
      BY <1>1, <1>5 DEF OnItsWay
    <3>3. SlidesTo(c, pos, d)
      BY <1>5, <3>1, <3>2, SlideMoves
    <3> QED BY <1>1, <1>5, <2>1, <2>2, <3>3, SlideGoes
  <2> QED BY <2>3, <2>4
<1> QED BY <1>3, <1>4, <1>5

(***************************************************************************)
(* Steps that do not touch the positions.                                  *)
(***************************************************************************)
LEMMA HoldStep ==
    ASSUME widget \in CarouselStates, NEW byEvent \in BOOLEAN,
           TheCarousel!Hold(byEvent) \/ TheCarousel!Release(byEvent)
    PROVE  widget' \in CarouselStates
<1>1. widget' \in CarouselType /\ SamePlace(widget, widget')
  BY PauseKeeps, CycleKeeps
     DEF TheCarousel!Hold, TheCarousel!Release, CarouselStates
<1> QED BY <1>1 DEF CarouselStates, OnItsWay, Goal, SamePlace,
                  TheCarousel!Wanted

(***************************************************************************)
(* The end of a transition.                                                *)
(***************************************************************************)
LEMMA SlideEndStep ==
    ASSUME widget \in CarouselStates, TheCarousel!TransitionEnd
    PROVE  widget' \in CarouselStates
<1>1. PICK c \in CarouselType : c = widget /\ OnItsWay(c)
  BY DEF CarouselStates
<1>2. PICK n : n = c.slids + 1
  OBVIOUS
<1>3. /\ c.moving \in Items /\ NoItem \in Items \cup {NoItem}
      /\ FALSE \in BOOLEAN /\ n \in Nat /\ c.sliding
  BY <1>1, <1>2 DEF CarouselType, OnItsWay, NoItem, TheCarousel!TransitionEnd
<1>4. widget' = [c EXCEPT !.active = c.moving, !.moving = NoItem,
                          !.sliding = FALSE, !.slids = n]
  BY <1>1, <1>2 DEF CarouselType, TheCarousel!TransitionEnd, NoItem
<1>5. widget' \in CarouselType
  BY <1>3, <1>4, Zenon DEF CarouselType
<1>6. /\ widget'.active = c.moving /\ widget'.moving = NoItem
      /\ widget'.sliding = FALSE /\ widget'.animate = c.animate
      /\ widget'.vetoed = c.vetoed /\ widget'.deferred = c.deferred
      /\ widget'.asked = c.asked /\ widget'.overtaken = c.overtaken
  BY <1>4, Zenon DEF CarouselType
<1> QED BY <1>1, <1>3, <1>5, <1>6
        DEF CarouselStates, OnItsWay, Goal, TheCarousel!Wanted

(***************************************************************************)
(* The positions that wait after one of them is served: the last of them   *)
(* is the last one before, unless this one was it.                         *)
(***************************************************************************)
LEMMA AfterFacts ==
    ASSUME NEW q \in Seq(Items), NEW i \in 1..Len(q), NEW r,
           r = TheCarousel!After(q, i)
    PROVE  /\ r \in Seq(Items) /\ q[i] \in Items
           /\ r # <<>> => r[Len(r)] = q[Len(q)]
           /\ r = <<>> => i = Len(q)
<1>1. r = SubSeq(q, i + 1, Len(q)) /\ Len(q) \in Nat
  BY DEF TheCarousel!After
<1>2. r \in Seq(Items) /\ Len(r) = Len(q) - i
  BY <1>1
<1>3. \A k \in 1..Len(r) : r[k] = q[i + k]
  BY <1>1, <1>2
<1>4. ASSUME r # <<>> PROVE r[Len(r)] = q[Len(q)]
  <2>1. Len(r) \in 1..Len(r)
    BY <1>2, <1>4
  <2>2. i + Len(r) = Len(q)
    BY <1>1, <1>2
  <2> QED BY <1>3, <2>1, <2>2
<1>5. ASSUME r = <<>> PROVE i = Len(q)
  <2>1. Len(<<>>) = 0
    OBVIOUS
  <2>2. Len(r) = 0
    BY <1>5, <2>1, Zenon
  <2> QED BY <1>1, <1>2, <2>2
<1> QED BY <1>2, <1>4, <1>5

(***************************************************************************)
(* The event slid.                                                         *)
(***************************************************************************)
LEMMA SlidStep ==
    ASSUME widget \in CarouselStates, TheCarousel!Slid
    PROVE  widget' \in CarouselStates
<1>0. PICK b \in CarouselType : b = widget /\ OnItsWay(b)
  BY DEF CarouselStates
<1>1. PICK n : n = b.slids - 1
  OBVIOUS
<1>2. PICK c : c = [b EXCEPT !.slids = n]
  OBVIOUS
<1>3. c \in CarouselType /\ SamePlace(b, c)
  <2>1. n \in Nat
    BY <1>0, <1>1 DEF TheCarousel!Slid, CarouselType
  <2> QED BY <1>2, <2>1, Zenon DEF CarouselType, SamePlace
<1>4. OnItsWay(c)
  BY <1>0, <1>3 DEF OnItsWay, SamePlace, Goal, TheCarousel!Wanted
<1> DEFINE q == c.deferred
           moves == {i \in DOMAIN q : q[i] # c.active}
           first == CHOOSE i \in moves : \A j \in moves : i <= j
           restarted == IF q # <<>> /\ first # 1 THEN Restarted(c) ELSE c
<1>5. widget' = CASE c.sliding \/ q = <<>> -> c
                  [] ~c.sliding /\ q # <<>> /\ moves = {} ->
                       [Restarted(c) EXCEPT !.deferred = <<>>]
                  [] OTHER ->
                       TheCarousel!Slide(
                           [restarted EXCEPT
                               !.deferred = TheCarousel!After(q, first)],
                           q[first])
  <2>1. c = [widget EXCEPT !.slids = widget.slids - 1]
    BY <1>0, <1>1, <1>2
  <2> QED BY <2>1 DEF TheCarousel!Slid, Restarted
<1>6. q \in Seq(Items) /\ DOMAIN q = 1..Len(q) /\ Len(q) \in Nat
  BY <1>3 DEF CarouselType
<1>7. /\ Restarted(c) \in CarouselType /\ SamePlace(c, Restarted(c))
      /\ restarted \in CarouselType /\ SamePlace(c, restarted)
  BY <1>3, RestartKeeps DEF SamePlace
<1>8. CASE c.sliding \/ q = <<>>
  BY <1>3, <1>4, <1>5, <1>8, Zenon DEF CarouselStates
<1>9. CASE ~c.sliding /\ q # <<>> /\ moves = {}
  <2>1. PICK d : d = Restarted(c)
    OBVIOUS
  <2>2. PICK none \in Seq(Items) : none = <<>>
    <3>1. <<>> \in Seq(Items)
      OBVIOUS
    <3> HIDE DEF q, moves, first, restarted
    <3> QED BY <3>1, Zenon
  <2>3. widget' = [d EXCEPT !.deferred = none] /\ d \in CarouselType
    BY <1>5, <1>7, <1>9, <2>1, <2>2, Zenon
  <2>4. /\ widget' \in CarouselType /\ widget'.deferred = none
        /\ widget'.animate = d.animate /\ widget'.vetoed = d.vetoed
        /\ widget'.active = d.active /\ widget'.sliding = d.sliding
        /\ widget'.moving = d.moving
        /\ widget'.asked = d.asked /\ widget'.overtaken = d.overtaken
    BY <2>3, DeferredKeeps, Zenon
  <2>5. q[Len(q)] = c.active
    <3>1. Len(q) \in DOMAIN q
      BY <1>6, <1>9
    <3> QED BY <1>9, <3>1
  <2> HIDE DEF restarted, moves
  <2> QED BY <1>4, <1>7, <1>9, <2>1, <2>2, <2>4, <2>5
          DEF CarouselStates, OnItsWay, Goal, SamePlace, TheCarousel!Wanted
<1>10. CASE ~c.sliding /\ q # <<>> /\ moves # {}
  <2>1. first \in moves
    <3>1. moves \in SUBSET Nat
      BY <1>6
    <3>2. \E i \in moves : \A j \in moves : i <= j
      BY <1>10, <3>1, NatLeast
    <3> HIDE DEF moves
    <3> QED BY <3>2
  <2>2. first \in 1..Len(q) /\ q[first] # c.active
    BY <1>6, <2>1
  <2>3. PICK r : r = TheCarousel!After(q, first)
    OBVIOUS
  <2>4. PICK e : e = [restarted EXCEPT !.deferred = r]
    OBVIOUS
  <2>5. widget' = TheCarousel!Slide(e, q[first])
    BY <1>5, <1>10, <2>3, <2>4, Zenon
  <2> HIDE DEF first, restarted
  <2>6. /\ r \in Seq(Items) /\ q[first] \in Items
        /\ r # <<>> => r[Len(r)] = q[Len(q)]
        /\ r = <<>> => first = Len(q)
    BY <1>6, <2>2, <2>3, AfterFacts
  <2>7. /\ e \in CarouselType /\ e.deferred = r
        /\ e.animate = restarted.animate /\ e.vetoed = restarted.vetoed
        /\ e.active = restarted.active /\ e.sliding = restarted.sliding
        /\ e.moving = restarted.moving
        /\ e.asked = restarted.asked /\ e.overtaken = restarted.overtaken
    BY <1>7, <2>4, <2>6, DeferredKeeps, Zenon
  <2>8. /\ ~e.sliding /\ e.moving = NoItem /\ e.active = c.active
        /\ e.animate = c.animate /\ e.vetoed = c.vetoed
        /\ e.asked = c.asked /\ e.overtaken = c.overtaken /\ c.animate
    BY <1>4, <1>7, <1>10, <2>7 DEF SamePlace, OnItsWay
  <2>9. SlidesTo(e, q[first], widget')
    BY <2>5, <2>6, <2>7, <2>8, SlideMoves
  <2>10. /\ widget' \in CarouselType /\ widget'.deferred = r
         /\ widget'.animate = c.animate /\ widget'.vetoed = c.vetoed
         /\ TheCarousel!Wanted(widget') = TheCarousel!Wanted(c)
         /\ widget'.sliding <=> ~c.vetoed
         /\ widget'.moving = IF ~c.vetoed THEN q[first] ELSE NoItem
    BY <2>2, <2>7, <2>8, <2>9 DEF SlidesTo, TheCarousel!Wanted
  <2>11. q[first] # NoItem
    BY <2>6, ItemsFacts
  <2>12. ASSUME ~c.vetoed, TheCarousel!Wanted(c) # NoItem
         PROVE  TheCarousel!Wanted(c) = Goal(widget')
    <3>1. TheCarousel!Wanted(c) = q[Len(q)]
      BY <1>4, <1>10, <2>12 DEF OnItsWay, Goal
    <3> QED BY <2>6, <2>10, <2>12, <3>1 DEF Goal
  <2> QED BY <2>8, <2>10, <2>11, <2>12 DEF CarouselStates, OnItsWay
<1> QED BY <1>8, <1>9, <1>10

(***************************************************************************)
(* In every behaviour of the page a carousel keeps to its states.          *)
(***************************************************************************)
LEMMA CarouselAlways == Spec => []CarouselInv
<1>1. Init => CarouselInv
  <2> SUFFICES ASSUME Init, kind = "carousel" PROVE widget \in CarouselStates
    BY DEF CarouselInv
  <2>1. PICK every \in BOOLEAN, animate \in BOOLEAN,
             wrap \in BOOLEAN, vetoed \in BOOLEAN :
            widget = [every |-> every, animate |-> animate, wrap |-> wrap,
                      vetoed |-> vetoed, active |-> 0, sliding |-> FALSE,
                      moving |-> NoItem, slids |-> 0, deferred |-> <<>>,
                      paused |-> FALSE, interval |-> every,
                      asked |-> NoItem, overtaken |-> NoItem]
    BY DEF Init, TheCarousel!Init, NoItem
  <2>2. 0 \in Items
    BY PageAssumption DEF Items, TheCarousel!Items
  <2> QED BY <2>1, <2>2 DEF CarouselStates, CarouselType, OnItsWay, NoItem,
                            TheCarousel!Wanted
<1>2. CarouselInv /\ [Next]_vars => CarouselInv'
  BY ClickToStep, ArrowStep, HoldStep, SlideEndStep, SlidStep
     DEF CarouselInv, Next, vars, TheCarousel!Next
<1> QED BY <1>1, <1>2, PTL DEF Spec

(***************************************************************************)
(* A carousel at rest shows the position that was asked for last, or, if   *)
(* that one was slid to in the gap before the event slid, the last of the  *)
(* positions that waited, for any number of items and of positions that    *)
(* wait (to, slide, and the one-shot handlers of slid).                    *)
(***************************************************************************)
THEOREM CarouselTheorem == Spec => []LastAskedWins
<1>1. CarouselInv => LastAskedWins
  BY DEF CarouselInv, CarouselStates, OnItsWay, Goal, LastAskedWins, NoItem,
         TheCarousel!LastAskedWins, TheCarousel!Idle, TheCarousel!Wanted
<1> QED BY <1>1, CarouselAlways, PTL

-----------------------------------------------------------------------------
(***************************************************************************)
(* The tooltip: what a handler does to a tip, seen from the fields that the *)
(* properties are about.                                                   *)
(***************************************************************************)
TipCallbacks == {"shown", "hidden", "destroyed"}

TipType ==
    [opt : TheTooltip!Options, enabled : BOOLEAN,
     inState : SUBSET {"click", "hover", "focus"},
     hoverState : {"null", "in", "out"},
     timeout : {"none", "show", "hide"}, proxies : 0..2,
     placed : BOOLEAN, open : BOOLEAN, fade : BOOLEAN,
     waiting : Seq(TipCallbacks)]

SameOwner(t, u) ==
    u.opt = t.opt /\ u.inState = t.inState /\ u.enabled = t.enabled

SameScreen(t, u) ==
    /\ u.placed = t.placed /\ u.open = t.open /\ u.fade = t.fade
    /\ u.waiting = t.waiting /\ u.proxies = t.proxies

(***************************************************************************)
(* The tip goes: at the end of its transition, or at once.                 *)
(***************************************************************************)
GoesWith(t, callback, u) ==
    /\ u.hoverState = "null" /\ ~u.open
    /\ t.fade => /\ u.fade /\ u.placed = t.placed /\ u.proxies = t.proxies
                 /\ u.waiting = Append(t.waiting, callback)
    /\ ~t.fade =>
          /\ ~u.fade /\ u.waiting = t.waiting
          /\ u.placed <=> /\ t.placed /\ t.hoverState = "in"
                          /\ callback # "destroyed"
          /\ u.proxies = IF callback = "destroyed" THEN 0 ELSE t.proxies

HidesTo(t, callback, u) ==
    /\ u \in TipType /\ SameOwner(t, u) /\ u.timeout = t.timeout
    /\ "hide" \in t.opt.vetoes => u = t
    /\ "hide" \notin t.opt.vetoes => GoesWith(t, callback, u)

LeavesTo(t, u) ==
    /\ u \in TipType /\ SameOwner(t, u)
    /\ t.inState # {} => u = t
    /\ t.inState = {} /\ t.opt.delayHide =>
          /\ u.timeout = "hide" /\ u.hoverState = "out"
          /\ SameScreen(t, u)
    /\ t.inState = {} /\ ~t.opt.delayHide =>
          /\ u.timeout = "none"
          /\ "hide" \in t.opt.vetoes =>
                u.hoverState = "out" /\ SameScreen(t, u)
          /\ "hide" \notin t.opt.vetoes =>
                /\ u.hoverState = "null" /\ ~u.open
                /\ u.proxies = t.proxies /\ u.fade = t.fade
                /\ t.fade => /\ u.placed = t.placed
                             /\ u.waiting = Append(t.waiting, "hidden")
                /\ ~t.fade => ~u.placed /\ u.waiting = t.waiting

ShownTo(t, u) ==
    /\ u \in TipType /\ SameOwner(t, u)
    /\ t.hoverState = "out" /\ t.inState = {} => LeavesTo(t, u)
    /\ ~(t.hoverState = "out" /\ t.inState = {}) =>
          /\ u.hoverState = "null" /\ u.timeout = t.timeout
          /\ SameScreen(t, u)

(***************************************************************************)
(* The options of a tip, and the fields of a record of them.               *)
(***************************************************************************)
LEMMA TipOptions ==
    ASSUME NEW t \in TipType
    PROVE  /\ t.opt.trigger \in TriggerSets /\ t.opt.delayShow \in BOOLEAN
           /\ t.opt.delayHide \in BOOLEAN /\ t.opt.animate \in BOOLEAN
           /\ t.opt.scripted \in BOOLEAN /\ t.opt.confirmation \in BOOLEAN
           /\ t.opt.vetoes \in SUBSET {"show", "hide"}
           /\ t.opt.confirmation => ~t.opt.scripted
<1>1. t.opt \in TheTooltip!Options
  BY DEF TipType
<1> QED BY <1>1 DEF TheTooltip!Options

(***************************************************************************)
(* The end of hide.                                                        *)
(***************************************************************************)
LEMMA HideDoneGoes ==
    ASSUME NEW t \in TipType, NEW callback \in TipCallbacks
    PROVE  LET u == TheTooltip!HideDone(t, callback) IN
           /\ u \in TipType /\ SameOwner(t, u) /\ u.timeout = t.timeout
           /\ u.hoverState = t.hoverState /\ u.waiting = t.waiting
           /\ u.placed <=> /\ t.placed /\ t.hoverState = "in"
                           /\ callback # "destroyed"
           /\ callback = "destroyed" => ~u.open /\ ~u.fade
           /\ callback # "destroyed" => u.open = t.open /\ u.fade = t.fade
           /\ u.proxies = IF callback = "destroyed" THEN 0 ELSE t.proxies
<1> DEFINE stays == t.placed /\ t.hoverState = "in"
<1>1. PICK d : d = [t EXCEPT !.placed = stays]
  OBVIOUS
<1>2. stays \in BOOLEAN /\ FALSE \in BOOLEAN /\ 0 \in 0..2
  OBVIOUS
<1>3. stays <=> t.placed /\ t.hoverState = "in"
  OBVIOUS
<1>4. TheTooltip!HideDone(t, callback)
        = IF callback = "destroyed"
          THEN [d EXCEPT !.proxies = 0, !.placed = FALSE, !.open = FALSE,
                         !.fade = FALSE]
          ELSE d
  BY <1>1 DEF TheTooltip!HideDone, TipType
<1> HIDE DEF stays
<1>5. d \in TipType
  BY <1>1, <1>2, Zenon DEF TipType
<1>6. /\ d.placed = stays /\ SameOwner(t, d) /\ d.timeout = t.timeout
      /\ d.hoverState = t.hoverState /\ d.waiting = t.waiting
      /\ d.open = t.open /\ d.fade = t.fade /\ d.proxies = t.proxies
  BY <1>1, Zenon DEF TipType, SameOwner
<1>7. PICK e : e = [d EXCEPT !.proxies = 0, !.placed = FALSE,
                             !.open = FALSE, !.fade = FALSE]
  OBVIOUS
<1>8. e \in TipType
  BY <1>2, <1>5, <1>7, Zenon DEF TipType
<1>9. /\ ~e.placed /\ ~e.open /\ ~e.fade /\ e.proxies = 0
      /\ SameOwner(d, e) /\ e.timeout = d.timeout
      /\ e.hoverState = d.hoverState /\ e.waiting = d.waiting
  BY <1>5, <1>7, Zenon DEF TipType, SameOwner
<1> QED BY <1>3, <1>4, <1>5, <1>6, <1>7, <1>8, <1>9 DEF SameOwner

(***************************************************************************)
(* hide.                                                                   *)
(***************************************************************************)
LEMMA HideGoes ==
    ASSUME NEW t \in TipType, NEW callback \in TipCallbacks
    PROVE  HidesTo(t, callback, TheTooltip!Hide(t, callback))
<1>1. PICK u : u = TheTooltip!Hide(t, callback)
  OBVIOUS
<1>2. CASE "hide" \in t.opt.vetoes
  <2>1. u = t
    BY <1>1, <1>2 DEF TheTooltip!Hide
  <2> QED BY <1>1, <1>2, <2>1 DEF HidesTo, SameOwner
<1>3. CASE "hide" \notin t.opt.vetoes
  <2>1. PICK off : off = [t EXCEPT !.open = FALSE]
    OBVIOUS
  <2>2. off \in TipType
    <3>1. FALSE \in BOOLEAN
      OBVIOUS
    <3> QED BY <2>1, <3>1, Zenon DEF TipType
  <2>3. /\ ~off.open /\ SameOwner(t, off) /\ off.timeout = t.timeout
        /\ off.hoverState = t.hoverState /\ off.waiting = t.waiting
        /\ off.placed = t.placed /\ off.fade = t.fade
        /\ off.proxies = t.proxies
    BY <2>1, Zenon DEF TipType, SameOwner
  <2>4. PICK q : q = Append(t.waiting, callback)
    OBVIOUS
  <2>5. PICK left : left = IF t.fade THEN [off EXCEPT !.waiting = q]
                           ELSE TheTooltip!HideDone(off, callback)
    OBVIOUS
  <2>6. left \in TipType /\ GoesWith(t, callback,
                                     [left EXCEPT !.hoverState = "null"])
        /\ SameOwner(t, left) /\ left.timeout = t.timeout
    <3>1. CASE t.fade
      <4>1. q \in Seq(TipCallbacks)
        BY <2>4 DEF TipType
      <4>2. left \in TipType
        BY <2>2, <2>5, <3>1, <4>1, Zenon DEF TipType
      <4>3. /\ ~left.open /\ SameOwner(off, left)
            /\ left.timeout = off.timeout /\ left.waiting = q
            /\ left.placed = off.placed /\ left.fade = off.fade
            /\ left.proxies = off.proxies
        BY <2>2, <2>3, <2>5, <3>1, Zenon DEF TipType, SameOwner
      <4>4. PICK u1 : u1 = [left EXCEPT !.hoverState = "null"]
        OBVIOUS
      <4>5. /\ u1.hoverState = "null" /\ ~u1.open /\ u1.waiting = q
            /\ u1.placed = left.placed /\ u1.fade = left.fade
            /\ u1.proxies = left.proxies
        BY <4>2, <4>3, <4>4, Zenon DEF TipType
      <4> QED BY <2>3, <2>4, <3>1, <4>2, <4>3, <4>4, <4>5
              DEF GoesWith, SameOwner
    <3>2. CASE ~t.fade
      <4>1. left = TheTooltip!HideDone(off, callback)
        BY <2>5, <3>2
      <4>2. /\ left \in TipType /\ SameOwner(off, left)
            /\ left.timeout = off.timeout /\ left.waiting = off.waiting
            /\ left.placed <=> /\ off.placed /\ off.hoverState = "in"
                               /\ callback # "destroyed"
            /\ ~left.open /\ ~left.fade
            /\ left.proxies = IF callback = "destroyed" THEN 0
                                                        ELSE off.proxies
        BY <2>2, <2>3, <3>2, <4>1, HideDoneGoes
      <4>4. PICK u1 : u1 = [left EXCEPT !.hoverState = "null"]
        OBVIOUS
      <4>5. /\ u1.hoverState = "null" /\ u1.open = left.open
            /\ u1.waiting = left.waiting
            /\ u1.placed = left.placed /\ u1.fade = left.fade
            /\ u1.proxies = left.proxies
        BY <4>2, <4>4, Zenon DEF TipType
      <4> QED BY <2>3, <3>2, <4>2, <4>4, <4>5 DEF GoesWith, SameOwner
    <3>3. t.fade \in BOOLEAN
      BY DEF TipType
    <3> QED BY <3>1, <3>2, <3>3
  <2>7. u = [left EXCEPT !.hoverState = "null"]
    <3>1. TheTooltip!Hide(t, callback)
            = [(IF t.fade
                THEN [off EXCEPT !.waiting = Append(off.waiting, callback)]
                ELSE TheTooltip!HideDone(off, callback))
               EXCEPT !.hoverState = "null"]
      BY <1>3, <2>1 DEF TheTooltip!Hide, TheTooltip!Wait
    <3> QED BY <1>1, <2>3, <2>4, <2>5, <3>1
  <2>8. /\ u \in TipType /\ SameOwner(left, u) /\ u.timeout = left.timeout
    <3>1. "null" \in {"null", "in", "out"}
      OBVIOUS
    <3> QED BY <2>6, <2>7, <3>1, Zenon DEF TipType, SameOwner
  <2> QED BY <1>1, <1>3, <2>6, <2>7, <2>8 DEF HidesTo, SameOwner
<1> QED BY <1>2, <1>3

(***************************************************************************)
(* leave.                                                                  *)
(***************************************************************************)
LEMMA LeaveGoes ==
    ASSUME NEW t \in TipType
    PROVE  LeavesTo(t, TheTooltip!Leave(t))
<1>1. PICK u : u = TheTooltip!Leave(t)
  OBVIOUS
<1>2. CASE t.inState # {}
  <2>1. u = t
    BY <1>1, <1>2 DEF TheTooltip!Leave
  <2> QED BY <1>1, <1>2, <2>1 DEF LeavesTo, SameOwner
<1>3. CASE t.inState = {}
  <2>1. PICK out : out = [t EXCEPT !.timeout = "none", !.hoverState = "out"]
    OBVIOUS
  <2>2. /\ "none" \in {"none", "show", "hide"}
        /\ "hide" \in {"none", "show", "hide"}
        /\ "out" \in {"null", "in", "out"} /\ "hidden" \in TipCallbacks
    BY DEF TipCallbacks
  <2>3. out \in TipType
    BY <2>1, <2>2, Zenon DEF TipType
  <2>4. /\ out.timeout = "none" /\ out.hoverState = "out"
        /\ SameOwner(t, out) /\ SameScreen(t, out)
    BY <2>1, Zenon DEF TipType, SameOwner, SameScreen
  <2>5. u = IF t.opt.delayHide THEN [out EXCEPT !.timeout = "hide"]
                               ELSE TheTooltip!Hide(out, "hidden")
    BY <1>1, <1>3, <2>1, <2>4 DEF TheTooltip!Leave, SameOwner
  <2>6. CASE t.opt.delayHide
    <3>1. u = [out EXCEPT !.timeout = "hide"]
      BY <2>5, <2>6
    <3>2. u \in TipType
      BY <2>2, <2>3, <3>1, Zenon DEF TipType
    <3>3. /\ u.timeout = "hide" /\ u.hoverState = out.hoverState
          /\ SameOwner(out, u) /\ SameScreen(out, u)
      BY <2>3, <3>1, Zenon DEF TipType, SameOwner, SameScreen
    <3> QED BY <1>1, <1>3, <2>4, <2>6, <3>2, <3>3
            DEF LeavesTo, SameOwner, SameScreen
  <2>7. CASE ~t.opt.delayHide
    <3>1. u = TheTooltip!Hide(out, "hidden")
      BY <2>5, <2>7
    <3>2. HidesTo(out, "hidden", u)
      BY <2>2, <2>3, <3>1, HideGoes
    <3>3. /\ u \in TipType /\ SameOwner(t, u) /\ u.timeout = "none"
          /\ out.opt = t.opt
      BY <2>4, <3>2 DEF HidesTo, SameOwner
    <3>4. CASE "hide" \in t.opt.vetoes
      <4>1. u = out
        BY <3>2, <3>3, <3>4 DEF HidesTo
      <4> QED BY <1>1, <1>3, <2>4, <2>7, <3>3, <3>4, <4>1
              DEF LeavesTo, SameScreen
    <3>5. CASE "hide" \notin t.opt.vetoes
      <4>1. GoesWith(out, "hidden", u)
        BY <3>2, <3>3, <3>5 DEF HidesTo
      <4>2. /\ u.hoverState = "null" /\ ~u.open
            /\ u.proxies = t.proxies /\ u.fade = t.fade
        BY <2>3, <2>4, <3>3, <4>1 DEF GoesWith, SameScreen, TipType
      <4>3. t.fade => /\ u.placed = t.placed
                      /\ u.waiting = Append(t.waiting, "hidden")
        BY <2>4, <4>1 DEF GoesWith, SameScreen
      <4>4. ~t.fade => ~u.placed /\ u.waiting = t.waiting
        BY <2>4, <4>1 DEF GoesWith, SameScreen
      <4> QED BY <1>1, <1>3, <2>7, <3>3, <3>5, <4>2, <4>3, <4>4
              DEF LeavesTo
    <3> QED BY <3>4, <3>5
  <2> QED BY <2>6, <2>7
<1> QED BY <1>2, <1>3

(***************************************************************************)
(* The end of show.                                                        *)
(***************************************************************************)
LEMMA ShowDoneGoes ==
    ASSUME NEW t \in TipType
    PROVE  ShownTo(t, TheTooltip!ShowDone(t))
<1>1. PICK s : s = [t EXCEPT !.hoverState = "null"]
  OBVIOUS
<1>2. s \in TipType
  <2>1. "null" \in {"null", "in", "out"}
    OBVIOUS
  <2> QED BY <1>1, <2>1, Zenon DEF TipType
<1>3. /\ s.hoverState = "null" /\ s.timeout = t.timeout
      /\ SameOwner(t, s) /\ SameScreen(t, s)
  BY <1>1, Zenon DEF TipType, SameOwner, SameScreen
<1>4. PICK u : u = TheTooltip!ShowDone(t)
  OBVIOUS
<1>5. u = IF t.hoverState = "out" THEN TheTooltip!Leave(s) ELSE s
  BY <1>1, <1>4 DEF TheTooltip!ShowDone
<1>6. LeavesTo(s, TheTooltip!Leave(s))
  BY <1>2, LeaveGoes
<1>7. CASE t.hoverState = "out" /\ t.inState = {}
  <2>1. LeavesTo(t, u)
    BY <1>3, <1>5, <1>6, <1>7 DEF LeavesTo, SameOwner, SameScreen
  <2> QED BY <1>4, <1>7, <2>1 DEF ShownTo, LeavesTo
<1>8. CASE ~(t.hoverState = "out" /\ t.inState = {})
  <2>1. u = s
    BY <1>3, <1>5, <1>6, <1>8 DEF LeavesTo, SameOwner
  <2> QED BY <1>2, <1>3, <1>4, <1>8, <2>1 DEF ShownTo
<1> QED BY <1>7, <1>8

(***************************************************************************)
(* show: the tip is placed, and the end of show comes at once or with the  *)
(* end of the transition.                                                  *)
(***************************************************************************)
Placed(t, on) ==
    /\ on \in TipType /\ SameOwner(t, on) /\ on.timeout = t.timeout
    /\ on.hoverState = t.hoverState /\ on.proxies = t.proxies
    /\ on.placed /\ on.open
    /\ on.fade <=> t.opt.animate

ShowsTo(t, u) ==
    /\ u \in TipType /\ SameOwner(t, u)
    /\ ~t.enabled \/ "show" \in t.opt.vetoes => u = t
    /\ t.enabled /\ "show" \notin t.opt.vetoes /\ t.opt.animate =>
          Placed(t, u) /\ u.waiting = Append(t.waiting, "shown")
    /\ t.enabled /\ "show" \notin t.opt.vetoes /\ ~t.opt.animate =>
          \E on \in TipType :
              Placed(t, on) /\ on.waiting = t.waiting /\ ShownTo(on, u)

(***************************************************************************)
(* show does what ShowsTo says.                                            *)
(***************************************************************************)
LEMMA ShowGoes ==
    ASSUME NEW t \in TipType
    PROVE  ShowsTo(t, TheTooltip!Show(t))
<1>0. t.opt.animate \in BOOLEAN /\ t.enabled \in BOOLEAN
  BY TipOptions DEF TipType
<1>1. PICK u : u = TheTooltip!Show(t)
  OBVIOUS
<1>2. CASE ~t.enabled \/ "show" \in t.opt.vetoes
  <2>1. u = t
    BY <1>1, <1>2 DEF TheTooltip!Show
  <2> QED BY <1>1, <1>2, <2>1 DEF ShowsTo, SameOwner
<1>3. CASE t.enabled /\ "show" \notin t.opt.vetoes
  <2>1. PICK fade \in BOOLEAN : fade = t.opt.animate
    BY <1>0
  <2>2. PICK on : on = [t EXCEPT !.placed = TRUE, !.open = TRUE,
                                 !.fade = fade]
    OBVIOUS
  <2>3. on \in TipType
    <3>1. TRUE \in BOOLEAN
      OBVIOUS
    <3> QED BY <2>2, <3>1, Zenon DEF TipType
  <2>4. /\ on.placed = TRUE /\ on.open = TRUE /\ on.fade = fade
        /\ SameOwner(t, on) /\ on.timeout = t.timeout
        /\ on.hoverState = t.hoverState /\ on.proxies = t.proxies
        /\ on.waiting = t.waiting
    BY <2>2, Zenon DEF TipType, SameOwner
  <2>5. u = IF on.fade
            THEN [on EXCEPT !.waiting = Append(on.waiting, "shown")]
            ELSE TheTooltip!ShowDone(on)
    BY <1>1, <1>3, <2>1, <2>2 DEF TheTooltip!Show, TheTooltip!Wait
  <2>6. CASE fade
    <3>1. PICK q : q = Append(on.waiting, "shown")
      OBVIOUS
    <3>2. q \in Seq(TipCallbacks)
      BY <2>3, <3>1 DEF TipType, TipCallbacks
    <3>3. u = [on EXCEPT !.waiting = q]
      BY <2>4, <2>5, <2>6, <3>1
    <3>4. u \in TipType
      BY <2>3, <3>2, <3>3, Zenon DEF TipType
    <3>5. /\ u.placed = on.placed /\ u.open = on.open /\ u.fade = on.fade
          /\ SameOwner(on, u) /\ u.timeout = on.timeout
          /\ u.hoverState = on.hoverState /\ u.proxies = on.proxies
          /\ u.waiting = q
      BY <2>3, <3>3, Zenon DEF TipType, SameOwner
    <3>6. u.waiting = Append(t.waiting, "shown")
      BY <2>4, <3>1, <3>5
    <3> QED BY <1>1, <1>3, <2>1, <2>4, <2>6, <3>4, <3>5, <3>6
            DEF ShowsTo, Placed, SameOwner
  <2>7. CASE ~fade
    <3>1. ShownTo(on, u)
      BY <2>3, <2>4, <2>5, <2>7, ShowDoneGoes
    <3>2. Placed(t, on)
      BY <2>1, <2>3, <2>4, <2>7 DEF Placed
    <3> QED BY <1>1, <1>3, <2>1, <2>3, <2>4, <2>7, <3>1, <3>2
            DEF ShowsTo, ShownTo, SameOwner
  <2> QED BY <2>6, <2>7
<1> QED BY <1>0, <1>2, <1>3

(***************************************************************************)
(* enter.                                                                  *)
(***************************************************************************)
EntersTo(t, u) ==
    /\ u \in TipType /\ SameOwner(t, u)
    /\ t.open \/ t.hoverState = "in" =>
          /\ u.hoverState = "in" /\ u.timeout = t.timeout
          /\ SameScreen(t, u)
    /\ ~t.open /\ t.hoverState # "in" =>
          \E in \in TipType :
              /\ SameOwner(t, in) /\ SameScreen(t, in)
              /\ in.hoverState = "in"
              /\ t.opt.delayShow => u = in /\ in.timeout = "show"
              /\ ~t.opt.delayShow => in.timeout = "none" /\ ShowsTo(in, u)

(***************************************************************************)
(* enter does what EntersTo says.                                          *)
(***************************************************************************)
LEMMA EnterGoes ==
    ASSUME NEW t \in TipType
    PROVE  EntersTo(t, TheTooltip!Enter(t))
<1>0. /\ "in" \in {"null", "in", "out"}
      /\ "none" \in {"none", "show", "hide"}
      /\ "show" \in {"none", "show", "hide"}
      /\ t.open \in BOOLEAN /\ t.opt.delayShow \in BOOLEAN
  BY TipOptions DEF TipType
<1>1. PICK u : u = TheTooltip!Enter(t)
  OBVIOUS
<1>2. CASE t.open \/ t.hoverState = "in"
  <2>1. u = [t EXCEPT !.hoverState = "in"]
    BY <1>1, <1>2 DEF TheTooltip!Enter
  <2>2. u \in TipType
    BY <1>0, <2>1, Zenon DEF TipType
  <2>3. /\ u.hoverState = "in" /\ u.timeout = t.timeout
        /\ SameOwner(t, u) /\ SameScreen(t, u)
    BY <2>1, Zenon DEF TipType, SameOwner, SameScreen
  <2> QED BY <1>1, <1>2, <2>2, <2>3 DEF EntersTo
<1>3. CASE ~t.open /\ t.hoverState # "in"
  <2>1. PICK in : in = [t EXCEPT !.timeout = "none", !.hoverState = "in"]
    OBVIOUS
  <2>2. in \in TipType
    BY <1>0, <2>1, Zenon DEF TipType
  <2>3. /\ in.hoverState = "in" /\ in.timeout = "none"
        /\ SameOwner(t, in) /\ SameScreen(t, in)
    BY <2>1, Zenon DEF TipType, SameOwner, SameScreen
  <2>4. u = IF t.opt.delayShow THEN [in EXCEPT !.timeout = "show"]
                               ELSE TheTooltip!Show(in)
    BY <1>1, <1>3, <2>1, <2>3 DEF TheTooltip!Enter, SameOwner
  <2>5. CASE t.opt.delayShow
    <3>1. u = [in EXCEPT !.timeout = "show"]
      BY <2>4, <2>5
    <3>2. u \in TipType
      BY <1>0, <2>2, <3>1, Zenon DEF TipType
    <3>3. /\ u.hoverState = in.hoverState /\ u.timeout = "show"
          /\ SameOwner(in, u) /\ SameScreen(in, u)
      BY <2>2, <3>1, Zenon DEF TipType, SameOwner, SameScreen
    <3>4. SameOwner(t, u) /\ SameScreen(t, u) /\ u.hoverState = "in"
      BY <2>3, <3>3 DEF SameOwner, SameScreen
    <3> QED BY <1>1, <1>3, <2>5, <3>2, <3>3, <3>4 DEF EntersTo
  <2>6. CASE ~t.opt.delayShow
    <3>1. ShowsTo(in, u)
      BY <2>2, <2>4, <2>6, ShowGoes
    <3>2. u \in TipType /\ SameOwner(t, u)
      BY <2>3, <3>1 DEF ShowsTo, SameOwner
    <3> QED BY <1>1, <1>3, <2>2, <2>3, <2>6, <3>1, <3>2 DEF EntersTo
  <2> QED BY <1>0, <2>5, <2>6
<1> QED BY <1>0, <1>2, <1>3

(***************************************************************************)
(* What the properties of the tooltip need at every moment.  Gone: the     *)
(* element is destroyed and no timer will show the tip again.  Followed:   *)
(* once nothing holds the tip, a timer or the end of a transition is on    *)
(* its way that takes it out of the document.  InStep: without animation   *)
(* the tip is shown, or a timer will show it, while something holds it,    *)
(* and is hidden, or a timer will hide it, once nothing does.              *)
(***************************************************************************)
NoShowTimer(t) == ~t.opt.delayShow => t.timeout # "show"

Gone(t) == ~t.opt.delayShow /\ t.proxies = 0 => ~t.placed

EndsHidden(q) == q # <<>> /\ q[Len(q)] = "hidden"

Followed(t) ==
    t.inState = {} =>
        /\ t.hoverState # "in"
        /\ t.placed => \/ t.timeout = "hide" /\ t.hoverState = "out"
                       \/ EndsHidden(t.waiting)

Own(o) == ~o.scripted /\ "hide" \notin o.vetoes

Plain(o) == ~o.animate /\ ~o.scripted /\ o.vetoes = {}

Steady(t) ==
    ~t.fade /\ t.waiting = <<>> /\ t.enabled /\ t.placed = t.open

Leaving(t) ==
    \/ t.timeout = "hide" /\ t.hoverState = "out"
    \/ ~t.open /\ t.timeout = "none" /\ t.hoverState = "null"

Showing(t) ==
    \/ t.open /\ t.hoverState # "out"
    \/ ~t.open /\ t.timeout = "show" /\ t.hoverState = "in"

InStep(t) ==
    Steady(t) /\ IF t.inState = {} THEN Leaving(t) ELSE Showing(t)

TipBase ==
    {t \in TipType : /\ t.proxies # 0 /\ NoShowTimer(t)
                     /\ Plain(t.opt) => /\ Steady(t)
                                        /\ Leaving(t) \/ Showing(t)}

TipStates ==
    {t \in TipType : /\ NoShowTimer(t) /\ Gone(t)
                     /\ Own(t.opt) => Followed(t)
                     /\ Plain(t.opt) => InStep(t)}

TipInv == kind = "tooltip" => widget \in TipStates

(***************************************************************************)
(* What every handler but destroy leaves alone.                            *)
(***************************************************************************)
Quiet(t, u) ==
    /\ u \in TipType /\ SameOwner(t, u) /\ u.proxies = t.proxies
    /\ u.timeout = "show" => t.timeout = "show" \/ t.opt.delayShow

(***************************************************************************)
(* leave is quiet and does not put the tip into the document.              *)
(***************************************************************************)
LEMMA LeaveQuiet ==
    ASSUME NEW t \in TipType, NEW u, LeavesTo(t, u)
    PROVE  Quiet(t, u) /\ (u.placed => t.placed)
<1>1. t.fade \in BOOLEAN /\ t.opt.delayHide \in BOOLEAN
  BY TipOptions DEF TipType
<1>2. CASE t.inState # {}
  BY <1>2 DEF LeavesTo, Quiet
<1>3. CASE t.inState = {} /\ t.opt.delayHide
  BY <1>3 DEF LeavesTo, Quiet, SameScreen
<1>4. CASE t.inState = {} /\ ~t.opt.delayHide
  <2>1. CASE "hide" \in t.opt.vetoes
    BY <1>4, <2>1 DEF LeavesTo, Quiet, SameScreen
  <2>2. CASE "hide" \notin t.opt.vetoes
    BY <1>1, <1>4, <2>2 DEF LeavesTo, Quiet
  <2> QED BY <2>1, <2>2
<1> QED BY <1>1, <1>2, <1>3, <1>4

(***************************************************************************)
(* The end of show is quiet and does not put the tip into the document.    *)
(***************************************************************************)
LEMMA ShownQuiet ==
    ASSUME NEW t \in TipType, NEW u, ShownTo(t, u)
    PROVE  Quiet(t, u) /\ (u.placed => t.placed)
<1>1. CASE t.hoverState = "out" /\ t.inState = {}
  BY <1>1, LeaveQuiet DEF ShownTo
<1>2. CASE ~(t.hoverState = "out" /\ t.inState = {})
  BY <1>2 DEF ShownTo, Quiet, SameScreen
<1> QED BY <1>1, <1>2

(***************************************************************************)
(* show is quiet.                                                          *)
(***************************************************************************)
LEMMA ShowQuiet ==
    ASSUME NEW t \in TipType, NEW u, ShowsTo(t, u)
    PROVE  Quiet(t, u)
<1>1. t.opt.animate \in BOOLEAN /\ t.enabled \in BOOLEAN
  BY TipOptions DEF TipType
<1>2. CASE ~t.enabled \/ "show" \in t.opt.vetoes
  BY <1>2 DEF ShowsTo, Quiet
<1>3. CASE t.enabled /\ "show" \notin t.opt.vetoes /\ t.opt.animate
  BY <1>3 DEF ShowsTo, Quiet, Placed
<1>4. CASE t.enabled /\ "show" \notin t.opt.vetoes /\ ~t.opt.animate
  <2>1. PICK on \in TipType : Placed(t, on) /\ ShownTo(on, u)
    BY <1>4 DEF ShowsTo
  <2>2. Quiet(on, u)
    BY <2>1, ShownQuiet
  <2> QED BY <2>1, <2>2 DEF Quiet, Placed, SameOwner
<1> QED BY <1>1, <1>2, <1>3, <1>4

(***************************************************************************)
(* enter is quiet.                                                         *)
(***************************************************************************)
LEMMA EnterQuiet ==
    ASSUME NEW t \in TipType, NEW u, EntersTo(t, u)
    PROVE  Quiet(t, u)
<1>1. t.open \in BOOLEAN /\ t.opt.delayShow \in BOOLEAN
  BY TipOptions DEF TipType
<1>2. CASE t.open \/ t.hoverState = "in"
  BY <1>2 DEF EntersTo, Quiet, SameScreen
<1>3. CASE ~t.open /\ t.hoverState # "in"
  <2>1. PICK in \in TipType :
            /\ SameOwner(t, in) /\ SameScreen(t, in)
            /\ t.opt.delayShow => u = in
            /\ ~t.opt.delayShow => in.timeout = "none" /\ ShowsTo(in, u)
    BY <1>3 DEF EntersTo
  <2>2. CASE t.opt.delayShow
    BY <2>1, <2>2 DEF Quiet, SameScreen
  <2>3. CASE ~t.opt.delayShow
    <3>1. Quiet(in, u)
      BY <2>1, <2>3, ShowQuiet
    <3> QED BY <2>1, <2>3, <3>1 DEF Quiet, SameOwner, SameScreen
  <2> QED BY <1>1, <2>2, <2>3
<1> QED BY <1>1, <1>2, <1>3

(***************************************************************************)
(* Without animation, enter shows the tip or sets the timer that will, and *)
(* leave hides it or sets the timer that will.                             *)
(***************************************************************************)
LEMMA EnterPlain ==
    ASSUME NEW t \in TipType, Plain(t.opt), Steady(t),
           Leaving(t) \/ Showing(t), NEW u, EntersTo(t, u)
    PROVE  Steady(u) /\ Showing(u)
<1>1. t.open \in BOOLEAN /\ t.opt.delayShow \in BOOLEAN
  BY TipOptions DEF TipType
<1>2. CASE t.open \/ t.hoverState = "in"
  BY <1>2 DEF EntersTo, SameScreen, SameOwner, Steady, Leaving, Showing
<1>3. CASE ~t.open /\ t.hoverState # "in"
  <2>1. PICK in \in TipType :
            /\ SameOwner(t, in) /\ SameScreen(t, in) /\ in.hoverState = "in"
            /\ t.opt.delayShow => u = in /\ in.timeout = "show"
            /\ ~t.opt.delayShow => in.timeout = "none" /\ ShowsTo(in, u)
    BY <1>3 DEF EntersTo
  <2>2. CASE t.opt.delayShow
    BY <1>3, <2>1, <2>2 DEF SameScreen, SameOwner, Steady, Showing
  <2>3. CASE ~t.opt.delayShow
    <3>1. in.enabled /\ "show" \notin in.opt.vetoes /\ ~in.opt.animate
      BY <2>1 DEF SameOwner, Plain, Steady
    <3>2. PICK on \in TipType :
              /\ Placed(in, on) /\ on.waiting = in.waiting
              /\ ShownTo(on, u)
      BY <2>1, <2>3, <3>1 DEF ShowsTo
    <3>3. /\ on.open /\ on.placed /\ ~on.fade /\ on.hoverState = "in"
          /\ on.waiting = <<>> /\ on.enabled
      BY <2>1, <3>1, <3>2 DEF Placed, SameOwner, SameScreen, Steady, TipType
    <3> QED BY <3>2, <3>3
            DEF ShownTo, SameScreen, SameOwner, Steady, Showing, TipType
  <2> QED BY <1>1, <2>2, <2>3
<1> QED BY <1>1, <1>2, <1>3

(***************************************************************************)
(* leave without animation: the tip is hidden, or a timer is set that will *)
(* hide it.                                                                *)
(***************************************************************************)
LEMMA LeavePlain ==
    ASSUME NEW t \in TipType, Plain(t.opt), Steady(t), t.inState = {},
           NEW u, LeavesTo(t, u)
    PROVE  Steady(u) /\ Leaving(u)
<1>1. t.opt.delayHide \in BOOLEAN
  BY TipOptions
<1>2. CASE t.opt.delayHide
  BY <1>2 DEF LeavesTo, SameScreen, SameOwner, Steady, Leaving
<1>3. CASE ~t.opt.delayHide
  BY <1>3 DEF LeavesTo, SameOwner, Steady, Leaving, Plain, TipType
<1> QED BY <1>1, <1>2, <1>3

(***************************************************************************)
(* A tip that has been left is hidden, or will be.                         *)
(***************************************************************************)
LEMMA LeaveFollowed ==
    ASSUME NEW t \in TipType, "hide" \notin t.opt.vetoes, NEW u,
           LeavesTo(t, u)
    PROVE  Followed(u)
<1>1. /\ t.opt.delayHide \in BOOLEAN /\ t.fade \in BOOLEAN
      /\ t.waiting \in Seq(TipCallbacks)
  BY TipOptions DEF TipType
<1>2. CASE t.inState # {}
  BY <1>2 DEF LeavesTo, SameOwner, Followed
<1>3. CASE t.inState = {} /\ t.opt.delayHide
  BY <1>3 DEF LeavesTo, SameOwner, SameScreen, Followed
<1>4. CASE t.inState = {} /\ ~t.opt.delayHide
  <2>1. "hidden" \in TipCallbacks
    BY DEF TipCallbacks
  <2>2. EndsHidden(Append(t.waiting, "hidden"))
    BY <1>1, <2>1 DEF EndsHidden
  <2> QED BY <1>1, <1>4, <2>2 DEF LeavesTo, SameOwner, Followed
<1> QED BY <1>1, <1>2, <1>3, <1>4

(***************************************************************************)
(* The handlers of events take a tip whose element is not destroyed to one *)
(* that has all of the above.                                              *)
(***************************************************************************)
Handled(t, u) ==
    /\ u \in TipBase /\ u \in TipStates
    /\ u.opt = t.opt /\ u.inState = t.inState /\ u.proxies = t.proxies

(***************************************************************************)
(* enter, of a tip that something holds.                                   *)
(***************************************************************************)
LEMMA EnterStays ==
    ASSUME NEW t \in TipBase, t.inState # {}
    PROVE  Handled(t, TheTooltip!Enter(t))
<1>1. PICK u : u = TheTooltip!Enter(t)
  OBVIOUS
<1>2. t \in TipType /\ EntersTo(t, u)
  BY <1>1, EnterGoes DEF TipBase
<1>3. Quiet(t, u)
  BY <1>2, EnterQuiet
<1>4. /\ u \in TipType /\ u.opt = t.opt /\ u.inState = t.inState
      /\ u.proxies = t.proxies /\ u.proxies # 0 /\ NoShowTimer(u)
  BY <1>3 DEF Quiet, SameOwner, TipBase, NoShowTimer
<1>5. Plain(u.opt) => Steady(u) /\ Showing(u)
  BY <1>2, <1>4, EnterPlain DEF TipBase
<1> QED BY <1>1, <1>4, <1>5
        DEF Handled, TipBase, TipStates, Gone, Followed, InStep

(***************************************************************************)
(* leave, after its event has been taken out of inState.                   *)
(***************************************************************************)
LEMMA LeaveStays ==
    ASSUME NEW t \in TipBase,
           Plain(t.opt) /\ t.inState # {} => Showing(t)
    PROVE  Handled(t, TheTooltip!Leave(t))
<1>1. PICK u : u = TheTooltip!Leave(t)
  OBVIOUS
<1>2. t \in TipType /\ LeavesTo(t, u)
  BY <1>1, LeaveGoes DEF TipBase
<1>3. Quiet(t, u)
  BY <1>2, LeaveQuiet
<1>4. /\ u \in TipType /\ u.opt = t.opt /\ u.inState = t.inState
      /\ u.proxies = t.proxies /\ u.proxies # 0 /\ NoShowTimer(u)
  BY <1>3 DEF Quiet, SameOwner, TipBase, NoShowTimer
<1>5. Own(u.opt) => Followed(u)
  BY <1>2, <1>4, LeaveFollowed DEF Own
<1>6. CASE t.inState = {}
  <2>1. Plain(u.opt) => Steady(u) /\ Leaving(u)
    BY <1>2, <1>4, <1>6, LeavePlain DEF TipBase
  <2> QED BY <1>1, <1>4, <1>5, <1>6, <2>1
          DEF Handled, TipBase, TipStates, Gone, InStep
<1>7. CASE t.inState # {}
  <2>1. u = t
    BY <1>2, <1>7 DEF LeavesTo
  <2>2. Plain(u.opt) => InStep(u)
    BY <1>7, <2>1 DEF InStep, TipBase
  <2> QED BY <1>1, <1>4, <1>5, <2>1, <2>2
          DEF Handled, TipBase, TipStates, Gone
<1> QED BY <1>6, <1>7

(***************************************************************************)
(* inState alone changes nothing that a handler relies on.                 *)
(***************************************************************************)
LEMMA Flipped ==
    ASSUME NEW t \in TipBase, NEW s \in SUBSET {"click", "hover", "focus"}
    PROVE  LET u == [t EXCEPT !.inState = s] IN
           /\ u \in TipBase /\ u.inState = s /\ u.opt = t.opt
           /\ u.proxies = t.proxies
           /\ Showing(t) => Showing(u)
<1>1. PICK u : u = [t EXCEPT !.inState = s]
  OBVIOUS
<1>2. t \in TipType
  BY DEF TipBase
<1>3. u \in TipType
  BY <1>1, <1>2, Zenon DEF TipType
<1>4. /\ u.inState = s /\ u.opt = t.opt /\ SameScreen(t, u)
      /\ u.timeout = t.timeout /\ u.hoverState = t.hoverState
      /\ u.enabled = t.enabled
  BY <1>1, <1>2, Zenon DEF TipType, SameScreen
<1>5. /\ Showing(t) => Showing(u)
      /\ Leaving(t) => Leaving(u)
      /\ Steady(t) => Steady(u)
  BY <1>4 DEF SameScreen, Showing, Leaving, Steady
<1>6. u \in TipBase
  BY <1>3, <1>4, <1>5 DEF TipBase, NoShowTimer, SameScreen
<1> QED BY <1>1, <1>4, <1>5, <1>6 DEF SameScreen

(***************************************************************************)
(* A click.                                                                *)
(***************************************************************************)
LEMMA ClickStays ==
    ASSUME NEW t \in TipBase
    PROVE  LET u == TheTooltip!Click(t) IN
           /\ u \in TipBase /\ u \in TipStates
           /\ u.opt = t.opt /\ u.proxies = t.proxies
<1>1. PICK flip : flip = IF "click" \in t.inState THEN t.inState \ {"click"}
                         ELSE t.inState \cup {"click"}
  OBVIOUS
<1>2. flip \in SUBSET {"click", "hover", "focus"}
  <2>1. t.inState \in SUBSET {"click", "hover", "focus"}
    BY DEF TipBase, TipType
  <2> QED BY <1>1, <2>1
<1>3. PICK c : c = [t EXCEPT !.inState = flip]
  OBVIOUS
<1>4. /\ c \in TipBase /\ c.inState = flip /\ c.opt = t.opt
      /\ c.proxies = t.proxies
  BY <1>2, <1>3, Flipped
<1>5. TheTooltip!Click(t) = IF flip # {} THEN TheTooltip!Enter(c)
                                         ELSE TheTooltip!Leave(c)
  BY <1>1, <1>3 DEF TheTooltip!Click
<1>6. CASE flip # {}
  <2>1. Handled(c, TheTooltip!Enter(c))
    BY <1>4, <1>6, EnterStays
  <2> QED BY <1>4, <1>5, <1>6, <2>1 DEF Handled
<1>7. CASE flip = {}
  <2>1. Handled(c, TheTooltip!Leave(c))
    BY <1>4, <1>7, LeaveStays
  <2> QED BY <1>4, <1>5, <1>7, <2>1 DEF Handled
<1> QED BY <1>6, <1>7

(***************************************************************************)
(* The second instance of a confirmation.                                  *)
(***************************************************************************)
LEMMA BoundStays ==
    ASSUME NEW t \in TipBase, t \in TipStates
    PROVE  TheTooltip!Bound(t) \in TipStates
<1>1. CASE ~t.opt.confirmation
  BY <1>1 DEF TheTooltip!Bound
<1>2. CASE t.opt.confirmation
  <2>1. PICK u : u = [t EXCEPT !.proxies = 2]
    OBVIOUS
  <2>2. t \in TipType /\ 2 \in 0..2
    BY DEF TipStates
  <2>3. u \in TipType
    BY <2>1, <2>2, Zenon DEF TipType
  <2>4. /\ u.proxies = 2 /\ SameOwner(t, u) /\ u.timeout = t.timeout
        /\ u.hoverState = t.hoverState /\ u.placed = t.placed
        /\ u.open = t.open /\ u.fade = t.fade /\ u.waiting = t.waiting
    BY <2>1, <2>2, Zenon DEF TipType, SameOwner
  <2>5. NoShowTimer(u) /\ Gone(u)
    BY <2>4 DEF TipStates, NoShowTimer, Gone, SameOwner
  <2>6. Own(u.opt) => Followed(u)
    BY <2>4 DEF TipStates, Followed, SameOwner
  <2>7. Plain(u.opt) => InStep(u)
    BY <2>4 DEF TipStates, InStep, Steady, Leaving, Showing, SameOwner
  <2>8. TheTooltip!Bound(t) = u
    BY <1>2, <2>1 DEF TheTooltip!Bound
  <2> QED BY <2>3, <2>5, <2>6, <2>7, <2>8 DEF TipStates
<1> QED BY <1>1, <1>2

(***************************************************************************)
(* A tip whose element is not destroyed is one that handlers start from.   *)
(***************************************************************************)
LEMMA StatesAreBase ==
    ASSUME NEW t \in TipStates, t.proxies # 0
    PROVE  t \in TipBase
BY DEF TipStates, TipBase, InStep

(***************************************************************************)
(* The handlers of the pointer and the focus.                              *)
(***************************************************************************)
LEMMA PointerInStep ==
    ASSUME widget \in TipStates, NEW event \in {"hover", "focus"},
           TheTooltip!PointerIn(event)
    PROVE  widget' \in TipStates
<1>1. widget \in TipBase
  <2>1. widget.proxies \in Nat
    BY DEF TipStates, TipType
  <2> QED BY <2>1, StatesAreBase DEF TheTooltip!PointerIn, TheTooltip!Ready
<1>2. PICK s : s = widget.inState \cup {event}
  OBVIOUS
<1>3. s \in SUBSET {"click", "hover", "focus"} /\ s # {}
  <2>1. widget.inState \in SUBSET {"click", "hover", "focus"}
    BY DEF TipStates, TipType
  <2> QED BY <1>2, <2>1
<1>4. PICK t : t = [widget EXCEPT !.inState = s]
  OBVIOUS
<1>5. t \in TipBase /\ t.inState = s
  BY <1>1, <1>3, <1>4, Flipped
<1>6. PICK once : once = TheTooltip!Enter(t)
  OBVIOUS
<1>7. once \in TipBase /\ once \in TipStates /\ once.inState = s
  BY <1>3, <1>5, <1>6, EnterStays DEF Handled
<1>8. /\ TheTooltip!Enter(once) \in TipBase
      /\ TheTooltip!Enter(once) \in TipStates
  BY <1>3, <1>7, EnterStays DEF Handled
<1>9. widget' = TheTooltip!Bound(IF widget.proxies = 2
                                 THEN TheTooltip!Enter(once) ELSE once)
  BY <1>2, <1>4, <1>6 DEF TheTooltip!PointerIn
<1> QED BY <1>7, <1>8, <1>9, BoundStays

(***************************************************************************)
(* The pointer or the focus leaves.                                        *)
(***************************************************************************)
LEMMA PointerOutStep ==
    ASSUME widget \in TipStates, NEW event \in {"hover", "focus"},
           TheTooltip!PointerOut(event)
    PROVE  widget' \in TipStates
<1>1. widget \in TipBase
  <2>1. widget.proxies \in Nat
    BY DEF TipStates, TipType
  <2> QED BY <2>1, StatesAreBase DEF TheTooltip!PointerOut, TheTooltip!Ready
<1>2. PICK s : s = widget.inState \ {event}
  OBVIOUS
<1>3. s \in SUBSET {"click", "hover", "focus"} /\ widget.inState # {}
  <2>1. widget.inState \in SUBSET {"click", "hover", "focus"}
    BY DEF TipStates, TipType
  <2> QED BY <1>2, <2>1 DEF TheTooltip!PointerOut
<1>4. PICK t : t = [widget EXCEPT !.inState = s]
  OBVIOUS
<1>5. /\ t \in TipBase /\ t.inState = s /\ t.opt = widget.opt
      /\ Showing(widget) => Showing(t)
  BY <1>1, <1>3, <1>4, Flipped
<1>6. Plain(t.opt) => Showing(t)
  BY <1>3, <1>5 DEF TipStates, InStep
<1>7. PICK once : once = TheTooltip!Leave(t)
  OBVIOUS
<1>8. /\ once \in TipBase /\ once \in TipStates
      /\ once.inState = s /\ once.opt = t.opt
  BY <1>5, <1>6, <1>7, LeaveStays DEF Handled
<1>9. Plain(once.opt) /\ once.inState # {} => Showing(once)
  BY <1>8 DEF TipStates, InStep
<1>10. /\ TheTooltip!Leave(once) \in TipBase
       /\ TheTooltip!Leave(once) \in TipStates
  BY <1>8, <1>9, LeaveStays DEF Handled
<1>11. widget' = TheTooltip!Bound(IF widget.proxies = 2
                                  THEN TheTooltip!Leave(once) ELSE once)
  BY <1>2, <1>4, <1>7 DEF TheTooltip!PointerOut
<1> QED BY <1>8, <1>10, <1>11, BoundStays

(***************************************************************************)
(* A click on the element, which two instances handle after                *)
(* bs.confirmation.                                                        *)
(***************************************************************************)
LEMMA ClickOnStep ==
    ASSUME widget \in TipStates, TheTooltip!ClickOn
    PROVE  widget' \in TipStates
<1>1. widget \in TipBase
  <2>1. widget.proxies \in Nat
    BY DEF TipStates, TipType
  <2> QED BY <2>1, StatesAreBase DEF TheTooltip!ClickOn, TheTooltip!Ready
<1>2. PICK once : once = TheTooltip!Click(widget)
  OBVIOUS
<1>3. once \in TipBase /\ once \in TipStates
  BY <1>1, <1>2, ClickStays
<1>4. PICK twice : twice = TheTooltip!Click(once)
  OBVIOUS
<1>5. twice \in TipBase /\ twice \in TipStates
  BY <1>3, <1>4, ClickStays
<1>6. widget' = TheTooltip!Bound(IF widget.proxies = 2 THEN twice ELSE once)
  BY <1>2, <1>4 DEF TheTooltip!ClickOn
<1> QED BY <1>3, <1>5, <1>6, BoundStays

(***************************************************************************)
(* The timers.                                                             *)
(***************************************************************************)
LEMMA TimeoutStep ==
    ASSUME widget \in TipStates, TheTooltip!Timeout
    PROVE  widget' \in TipStates
<1>1. widget \in TipType /\ widget.timeout # "none"
  BY DEF TipStates, TheTooltip!Timeout
<1>2. PICK t : t = [widget EXCEPT !.timeout = "none"]
  OBVIOUS
<1>3. t \in TipType
  <2>1. "none" \in {"none", "show", "hide"}
    OBVIOUS
  <2> QED BY <1>1, <1>2, <2>1, Zenon DEF TipType
<1>4. /\ t.timeout = "none" /\ SameOwner(widget, t)
      /\ SameScreen(widget, t) /\ t.hoverState = widget.hoverState
  BY <1>1, <1>2, Zenon DEF TipType, SameOwner, SameScreen
<1>5. CASE widget.timeout = "show" /\ widget.hoverState = "in"
  <2>1. PICK u : u = TheTooltip!Show(t)
    OBVIOUS
  <2>2. widget' = u
    BY <1>2, <1>5, <2>1 DEF TheTooltip!Timeout
  <2>3. ShowsTo(t, u) /\ Quiet(t, u)
    BY <1>3, <2>1, ShowGoes, ShowQuiet
  <2>4. u \in TipType /\ u.opt = widget.opt /\ u.inState = widget.inState
    BY <1>4, <2>3 DEF Quiet, SameOwner
  <2>5. widget.opt.delayShow
    BY <1>5, TipOptions, <1>1 DEF TipStates, NoShowTimer
  <2>6. Own(u.opt) => u.inState # {}
    BY <1>5, <2>4 DEF TipStates, Followed
  <2>7. ASSUME Plain(u.opt) PROVE InStep(u)
    <3>1. /\ Steady(widget) /\ widget.inState # {}
          /\ t.enabled /\ "show" \notin t.opt.vetoes /\ ~t.opt.animate
      BY <1>4, <1>5, <2>4, <2>6, <2>7
         DEF TipStates, InStep, Steady, Plain, Own, SameOwner
    <3>2. PICK on \in TipType :
              /\ Placed(t, on) /\ on.waiting = t.waiting
              /\ ShownTo(on, u)
      BY <2>3, <3>1 DEF ShowsTo
    <3>3. /\ on.open /\ on.placed /\ ~on.fade /\ on.hoverState = "in"
          /\ on.waiting = <<>> /\ on.enabled
      BY <1>4, <1>5, <3>1, <3>2
         DEF Placed, SameOwner, SameScreen, Steady, TipType
    <3>4. Steady(u) /\ Showing(u)
      BY <3>2, <3>3
         DEF ShownTo, SameScreen, SameOwner, Steady, Showing, TipType
    <3> QED BY <2>4, <3>1, <3>4 DEF InStep
  <2> QED BY <2>2, <2>4, <2>5, <2>6, <2>7
          DEF TipStates, NoShowTimer, Gone, Followed
<1>6. CASE widget.timeout = "hide" /\ widget.hoverState = "out"
  <2>1. PICK u : u = TheTooltip!Hide(t, "hidden")
    OBVIOUS
  <2>2. widget' = u
    BY <1>2, <1>6, <2>1 DEF TheTooltip!Timeout
  <2>3. "hidden" \in TipCallbacks
    BY DEF TipCallbacks
  <2>4. HidesTo(t, "hidden", u)
    BY <1>3, <2>1, <2>3, HideGoes
  <2>5. /\ u \in TipType /\ u.opt = widget.opt /\ t.opt = widget.opt
        /\ u.inState = widget.inState /\ u.enabled = widget.enabled
        /\ u.timeout = "none"
    BY <1>4, <2>4 DEF HidesTo, SameOwner
  <2>6. u.proxies = widget.proxies /\ (u.placed => widget.placed)
    <3>1. CASE "hide" \in t.opt.vetoes
      BY <1>4, <2>4, <3>1 DEF HidesTo, SameScreen
    <3>2. CASE "hide" \notin t.opt.vetoes
      BY <1>3, <1>4, <2>4, <3>2 DEF HidesTo, GoesWith, SameScreen, TipType
    <3> QED BY <3>1, <3>2
  <2>7. ASSUME "hide" \notin u.opt.vetoes
        PROVE  /\ u.hoverState = "null" /\ ~u.open /\ u.fade = t.fade
               /\ t.fade => u.waiting = Append(t.waiting, "hidden")
               /\ ~t.fade => ~u.placed /\ u.waiting = t.waiting
    <3>1. GoesWith(t, "hidden", u)
      BY <2>4, <2>5, <2>7 DEF HidesTo
    <3>2. t.fade \in BOOLEAN /\ u.fade \in BOOLEAN
      BY <1>3, <2>5 DEF TipType
    <3>3. t.hoverState = "out"
      BY <1>4, <1>6
    <3> QED BY <3>1, <3>2, <3>3 DEF GoesWith
  <2>8. ASSUME Own(u.opt) PROVE Followed(u)
    <3>1. EndsHidden(Append(t.waiting, "hidden"))
      <4>1. t.waiting \in Seq(TipCallbacks)
        BY <1>3 DEF TipType
      <4> QED BY <2>3, <4>1 DEF EndsHidden
    <3>2. t.fade \in BOOLEAN
      BY <1>3 DEF TipType
    <3> QED BY <2>7, <2>8, <3>1, <3>2 DEF Own, Followed
  <2>9. ASSUME Plain(u.opt) PROVE InStep(u)
    <3>1. "hide" \notin u.opt.vetoes
      BY <2>9 DEF Plain
    <3>2. Steady(widget) /\ widget.inState = {}
      BY <1>6, <2>5, <2>9 DEF TipStates, InStep, Showing
    <3>3. Steady(u) /\ Leaving(u)
      BY <1>4, <2>5, <2>7, <3>1, <3>2, <2>5
         DEF Steady, Leaving, SameScreen, TipType
    <3> QED BY <2>5, <3>2, <3>3 DEF InStep
  <2> QED BY <2>2, <2>5, <2>6, <2>8, <2>9 DEF TipStates, NoShowTimer, Gone
<1>7. CASE /\ ~(widget.timeout = "show" /\ widget.hoverState = "in")
           /\ ~(widget.timeout = "hide" /\ widget.hoverState = "out")
  <2>1. widget' = t
    BY <1>2, <1>7, Zenon DEF TheTooltip!Timeout
  <2>2. Own(t.opt) => Followed(t)
    BY <1>4, <1>7 DEF TipStates, Followed, SameOwner, SameScreen
  <2>3. ASSUME Plain(t.opt) PROVE InStep(t)
    BY <1>1, <1>4, <1>7, <2>3
       DEF TipStates, InStep, Steady, Leaving, Showing, SameOwner,
           SameScreen
  <2> QED BY <1>3, <1>4, <2>1, <2>2, <2>3
          DEF TipStates, NoShowTimer, Gone, SameOwner, SameScreen
<1> QED BY <1>5, <1>6, <1>7

(***************************************************************************)
(* What Complete does, and that the callbacks that waited have done it one *)
(* after another.                                                          *)
(***************************************************************************)
LEMMA CompleteQuiet ==
    ASSUME NEW t \in TipType, NEW callback \in TipCallbacks
    PROVE  LET u == TheTooltip!Complete(t, callback) IN
           /\ u \in TipType /\ SameOwner(t, u)
           /\ NoShowTimer(t) => NoShowTimer(u)
           /\ u.placed => t.placed
           /\ Gone(t) => Gone(u)
<1>1. PICK u : u = TheTooltip!Complete(t, callback)
  OBVIOUS
<1>2. CASE callback = "shown"
  <2>1. ShownTo(t, u)
    BY <1>1, <1>2, ShowDoneGoes DEF TheTooltip!Complete
  <2> QED BY <1>1, <2>1, ShownQuiet DEF Quiet, SameOwner, NoShowTimer, Gone
<1>3. CASE callback # "shown"
  <2>1. u = TheTooltip!HideDone(t, callback)
    BY <1>1, <1>3 DEF TheTooltip!Complete
  <2>2. /\ u \in TipType /\ SameOwner(t, u) /\ u.timeout = t.timeout
        /\ u.placed <=> /\ t.placed /\ t.hoverState = "in"
                        /\ callback # "destroyed"
        /\ u.proxies = IF callback = "destroyed" THEN 0 ELSE t.proxies
    BY <2>1, HideDoneGoes
  <2> QED BY <1>1, <2>2 DEF SameOwner, NoShowTimer, Gone
<1> QED BY <1>2, <1>3

(***************************************************************************)
(* The sets that Complete does not leave: a tip that nothing holds and     *)
(* that is not entered, and one of these that is followed too.             *)
(***************************************************************************)
Calm(o) ==
    {t \in TipType : t.opt = o /\ NoShowTimer(t) /\ Gone(t)}

Left(o) ==
    {t \in Calm(o) : t.inState = {} /\ t.hoverState # "in"}

LeftFollowed(o) == {t \in Left(o) : Followed(t)}

(***************************************************************************)
(* Complete keeps the timers as they are and a destroyed tip away.         *)
(***************************************************************************)
LEMMA CompleteCalm ==
    ASSUME NEW o, NEW t \in Calm(o), NEW callback \in TipCallbacks
    PROVE  LET u == TheTooltip!Complete(t, callback) IN
           u \in Calm(o) /\ u.inState = t.inState
BY CompleteQuiet DEF Calm, SameOwner

(***************************************************************************)
(* Complete keeps a tip left that is left, takes it away with a callback   *)
(* of hide, and keeps it followed.                                         *)
(***************************************************************************)
LEMMA CompleteLeft ==
    ASSUME NEW o, "hide" \notin o.vetoes, NEW t \in Left(o),
           NEW callback \in TipCallbacks
    PROVE  LET u == TheTooltip!Complete(t, callback) IN
           /\ u \in Left(o)
           /\ callback # "shown" => ~u.placed
           /\ Followed(t) => Followed(u)
<1>1. PICK u : u = TheTooltip!Complete(t, callback)
  OBVIOUS
<1>2. t \in TipType /\ u \in Calm(o) /\ u.inState = {} /\ t.opt = o
  BY <1>1, CompleteCalm DEF Left, Calm
<1>3. CASE callback = "shown"
  <2>1. ShownTo(t, u)
    BY <1>1, <1>2, <1>3, ShowDoneGoes DEF TheTooltip!Complete
  <2>2. CASE t.hoverState = "out"
    <3>1. LeavesTo(t, u)
      BY <2>1, <2>2 DEF ShownTo, Left
    <3>2. Followed(u)
      BY <1>2, <3>1, LeaveFollowed
    <3> QED BY <1>1, <1>2, <1>3, <3>2 DEF Left, Followed
  <2>3. CASE t.hoverState # "out"
    <3>1. u.hoverState = "null" /\ SameScreen(t, u)
      BY <2>1, <2>3 DEF ShownTo
    <3> QED BY <1>1, <1>2, <1>3, <2>3, <3>1
            DEF Left, Followed, SameScreen
  <2> QED BY <2>2, <2>3
<1>4. CASE callback # "shown"
  <2>1. u = TheTooltip!HideDone(t, callback)
    BY <1>1, <1>4 DEF TheTooltip!Complete
  <2>2. ~u.placed /\ u.hoverState = t.hoverState
    BY <1>2, <2>1, HideDoneGoes DEF Left
  <2> QED BY <1>1, <1>2, <1>4, <2>2 DEF Left, Followed
<1> QED BY <1>3, <1>4

TipRan(n, S, b, q) ==
    LET r == TheTooltip!FoldLeft(TheTooltip!Complete, b, q)
    IN  /\ r \in S
        /\ n = 0 => r = b
        /\ n # 0 => \E s \in S : r = TheTooltip!Complete(s, q[n])

(***************************************************************************)
(* The callbacks of a transition, one application of Complete after        *)
(* another, stay in every set that Complete does not leave.                *)
(***************************************************************************)
LEMMA TipFold ==
    ASSUME NEW n \in Nat, NEW S, NEW b \in S, NEW q, DOMAIN q = 1..n,
           \A s \in S, i \in 1..n : TheTooltip!Complete(s, q[i]) \in S
    PROVE  TipRan(n, S, b, q)
<1> DEFINE Next1(g, T) ==
               IF T = {} THEN b
               ELSE TheTooltip!Complete(g[T \ {TheTooltip!Max(T)}],
                               q[TheTooltip!Max(T)])
           f == [p \in (1..n) \X S |-> TheTooltip!Complete(p[2], q[p[1]])]
           h == CHOOSE g : g = [T \in SUBSET (DOMAIN q) |-> Next1(g, T)]
<1>1. Maps(n, S, f)
  BY DEF Maps
<1>2. \A T : TheTooltip!Max(T) = Greatest(T)
  BY DEF TheTooltip!Max, Greatest
<1>3. ASSUME NEW T \in SUBSET (1..n), NEW g,
             T # {} => g[T \ {Greatest(T)}] \in S
      PROVE  Next1(g, T) = Step(g, f, b, T)
  <2>1. T # {} => Greatest(T) \in 1..n
    BY GreatestIn
  <2> QED BY <1>2, <1>3, <2>1 DEF Step
<1>4. \E g : g = [T \in SUBSET (DOMAIN q) |-> Next1(g, T)]
  <2>1. Recursive(n, S, b, f)
    BY <1>1, FoldExists
  <2> HIDE DEF f
  <2>2. PICK g \in [SUBSET (1..n) -> S] :
            \A T \in SUBSET (1..n) : g[T] = Step(g, f, b, T)
    BY <2>1 DEF Recursive
  <2>3. ASSUME NEW T \in SUBSET (1..n) PROVE g[T] = Next1(g, T)
    <3>1. T \ {Greatest(T)} \in SUBSET (1..n)
      OBVIOUS
    <3> QED BY <1>3, <2>2, <3>1
  <2> HIDE DEF Next1
  <2>4. g = [T \in SUBSET (1..n) |-> Next1(g, T)]
    BY <2>3
  <2> QED BY <2>4
<1>5. h = [T \in SUBSET (DOMAIN q) |-> Next1(h, T)]
  <2> HIDE DEF Next1
  <2> QED BY <1>4
<1>6. TheTooltip!FoldLeft(TheTooltip!Complete, b, q) = h[1..n]
  BY DEF TheTooltip!FoldLeft, TheTooltip!MapThenFoldSet
<1> HIDE DEF h
<1>7. Follows(n, S, b, f, h)
  <2>1. ASSUME NEW T \in SUBSET (1..n),
               T # {} => h[T \ {Greatest(T)}] \in S
        PROVE  h[T] = Step(h, f, b, T)
    <3>1. Next1(h, T) = Step(h, f, b, T)
      BY <1>3, <2>1
    <3> HIDE DEF Next1
    <3> QED BY <1>5, <3>1
  <2> HIDE DEF f
  <2> QED BY <2>1 DEF Follows
<1>8. Folded(n, S, b, f, h[1..n])
  <2> HIDE DEF f
  <2> QED BY <1>1, <1>7, FoldStays
<1>9. \A s \in S : n # 0 => f[<<n, s>>] = TheTooltip!Complete(s, q[n])
  OBVIOUS
<1> HIDE DEF f
<1> QED BY <1>6, <1>8, <1>9 DEF Folded, TipRan

(***************************************************************************)
(* The end of the transition: if the last callback is that of a hide, the  *)
(* tip goes, and if not, a timer will hide it.                             *)
(***************************************************************************)
LEMMA TransitionEndStep ==
    ASSUME widget \in TipStates, TheTooltip!TransitionEnd
    PROVE  widget' \in TipStates
<1>1. PICK t : t = [widget EXCEPT !.waiting = <<>>]
  OBVIOUS
<1>2. PICK q \in Seq(TipCallbacks) : q = widget.waiting
  BY DEF TipStates, TipType
<1>3. PICK o : o = widget.opt
  OBVIOUS
<1>4. widget \in TipType /\ q # <<>>
  BY <1>2 DEF TipStates, TheTooltip!TransitionEnd
<1>5. t \in TipType
  <2>1. <<>> \in Seq(TipCallbacks)
    OBVIOUS
  <2> QED BY <1>1, <1>4, <2>1, Zenon DEF TipType
<1>6. /\ SameOwner(widget, t) /\ t.timeout = widget.timeout
      /\ t.hoverState = widget.hoverState /\ t.placed = widget.placed
      /\ t.proxies = widget.proxies
  BY <1>1, <1>4, Zenon DEF TipType, SameOwner
<1>7. t \in Calm(o) /\ t.inState = widget.inState
  BY <1>3, <1>5, <1>6 DEF Calm, TipStates, NoShowTimer, Gone, SameOwner
<1>8. /\ Len(q) \in Nat /\ Len(q) # 0 /\ DOMAIN q = 1..Len(q)
      /\ \A i \in 1..Len(q) : q[i] \in TipCallbacks
  BY <1>2, <1>4
<1>9. widget' = TheTooltip!FoldLeft(TheTooltip!Complete, t, q)
  BY <1>1, <1>2 DEF TheTooltip!TransitionEnd
<1>10. ~Plain(o)
  BY <1>2, <1>3, <1>4 DEF TipStates, InStep, Steady
<1>11. widget' \in Calm(o)
  <2>1. \A s \in Calm(o), i \in 1..Len(q) :
            TheTooltip!Complete(s, q[i]) \in Calm(o)
    BY <1>8, CompleteCalm
  <2>2. TipRan(Len(q), Calm(o), t, q)
    BY <1>7, <1>8, <2>1, TipFold
  <2> QED BY <1>9, <2>2 DEF TipRan
<1>12. ASSUME Own(o) PROVE Followed(widget')
  <2>0. "hide" \notin o.vetoes
    BY <1>12 DEF Own
  <2>1. CASE widget.inState # {}
    <3> DEFINE S == {s \in Calm(o) : s.inState # {}}
    <3>1. \A s \in S, i \in 1..Len(q) :
              TheTooltip!Complete(s, q[i]) \in S
      BY <1>8, CompleteCalm
    <3>2. t \in S
      BY <1>7, <2>1
    <3>3. TipRan(Len(q), S, t, q)
      <4> HIDE DEF S
      <4> QED BY <1>8, <3>1, <3>2, TipFold
    <3>4. widget' \in S
      BY <1>9, <3>3 DEF TipRan
    <3> QED BY <3>4 DEF Followed
  <2>2. CASE widget.inState = {} /\ EndsHidden(q)
    <3>1. t \in Left(o)
      BY <1>3, <1>6, <1>7, <1>12, <2>2
         DEF Left, TipStates, Followed
    <3>2. \A s \in Left(o), i \in 1..Len(q) :
              TheTooltip!Complete(s, q[i]) \in Left(o)
      BY <1>8, <2>0, CompleteLeft
    <3>3. TipRan(Len(q), Left(o), t, q)
      BY <1>8, <3>1, <3>2, TipFold
    <3>4. PICK s \in Left(o) :
              widget' = TheTooltip!Complete(s, q[Len(q)])
      BY <1>8, <1>9, <3>3 DEF TipRan
    <3>5. q[Len(q)] = "hidden" /\ "hidden" \in TipCallbacks
      BY <2>2 DEF EndsHidden, TipCallbacks
    <3>6. widget' \in Left(o) /\ ~widget'.placed
      BY <2>0, <3>4, <3>5, CompleteLeft
    <3> QED BY <3>6 DEF Left, Followed
  <2>3. CASE widget.inState = {} /\ ~EndsHidden(q)
    <3>1. t \in LeftFollowed(o)
      BY <1>2, <1>3, <1>6, <1>7, <1>12, <2>3
         DEF LeftFollowed, Left, TipStates, Followed
    <3>2. \A s \in LeftFollowed(o), i \in 1..Len(q) :
              TheTooltip!Complete(s, q[i]) \in LeftFollowed(o)
      BY <1>8, <2>0, CompleteLeft DEF LeftFollowed
    <3>3. TipRan(Len(q), LeftFollowed(o), t, q)
      BY <1>8, <3>1, <3>2, TipFold
    <3> QED BY <1>9, <3>3 DEF TipRan, LeftFollowed
  <2> QED BY <2>1, <2>2, <2>3
<1> QED BY <1>10, <1>11, <1>12 DEF Calm, TipStates

(***************************************************************************)
(* hide called by the page's script, or by destroy.                        *)
(***************************************************************************)
LEMMA ScriptHides ==
    ASSUME NEW t \in TipType, NEW callback \in TipCallbacks,
           NoShowTimer(t), t.proxies # 0
    PROVE  LET u == TheTooltip!Hide(t, callback) IN
           u \in TipType /\ NoShowTimer(u) /\ Gone(u) /\ u.opt = t.opt
<1>1. PICK u : u = TheTooltip!Hide(t, callback)
  OBVIOUS
<1>2. HidesTo(t, callback, u)
  BY <1>1, HideGoes
<1>3. u \in TipType /\ u.opt = t.opt /\ u.timeout = t.timeout
  BY <1>2 DEF HidesTo, SameOwner
<1>4. CASE "hide" \in t.opt.vetoes
  BY <1>1, <1>2, <1>3, <1>4 DEF HidesTo, NoShowTimer, Gone
<1>5. CASE "hide" \notin t.opt.vetoes
  <2>1. GoesWith(t, callback, u)
    BY <1>2, <1>5 DEF HidesTo
  <2>2. t.fade \in BOOLEAN
    BY DEF TipType
  <2>3. u.proxies = 0 => ~u.placed
    BY <2>1, <2>2 DEF GoesWith
  <2> QED BY <1>1, <1>3, <2>3 DEF NoShowTimer, Gone
<1> QED BY <1>4, <1>5

(***************************************************************************)
(* The calls of the page's script.                                         *)
(***************************************************************************)
LEMMA ScriptStep ==
    ASSUME widget \in TipStates, TheTooltip!Script
    PROVE  widget' \in TipStates
<1>1. widget \in TipType /\ NoShowTimer(widget) /\ widget.opt.scripted
  BY DEF TipStates, TheTooltip!Script
<1>2. widget.proxies # 0
  <2>1. widget.proxies \in Nat
    BY <1>1 DEF TipType
  <2> QED BY <2>1 DEF TheTooltip!Script, TheTooltip!Ready
<1>3. SUFFICES /\ widget' \in TipType /\ NoShowTimer(widget')
               /\ Gone(widget') /\ widget'.opt = widget.opt
  BY <1>1 DEF TipStates, Own, Plain
<1>4. CASE widget' = TheTooltip!Toggle(widget)
  <2>1. Quiet(widget, widget')
    <3>1. CASE widget.open
      BY <1>1, <1>4, <3>1, LeaveGoes, LeaveQuiet DEF TheTooltip!Toggle
    <3>2. CASE ~widget.open
      BY <1>1, <1>4, <3>2, EnterGoes, EnterQuiet DEF TheTooltip!Toggle
    <3> QED BY <3>1, <3>2
  <2> QED BY <1>1, <1>2, <2>1 DEF Quiet, SameOwner, NoShowTimer, Gone
<1>5. CASE widget' = TheTooltip!Show(widget)
  <2>1. Quiet(widget, widget')
    BY <1>1, <1>5, ShowGoes, ShowQuiet
  <2> QED BY <1>1, <1>2, <2>1 DEF Quiet, SameOwner, NoShowTimer, Gone
<1>6. CASE widget' = TheTooltip!Hide(widget, "hidden")
  <2>1. "hidden" \in TipCallbacks
    BY DEF TipCallbacks
  <2> QED BY <1>1, <1>2, <1>6, <2>1, ScriptHides
<1>7. CASE widget' = [widget EXCEPT !.enabled = ~@]
  <2>1. PICK on \in BOOLEAN : on = ~widget.enabled
    OBVIOUS
  <2>2. PICK u : u = [widget EXCEPT !.enabled = on]
    OBVIOUS
  <2>3. u \in TipType
    BY <1>1, <2>2, Zenon DEF TipType
  <2>4. /\ u.opt = widget.opt /\ u.timeout = widget.timeout
        /\ u.proxies = widget.proxies
    BY <1>1, <2>2, Zenon DEF TipType
  <2>5. widget' = u
    BY <1>7, <2>1, <2>2
  <2> QED BY <1>1, <1>2, <2>3, <2>4, <2>5 DEF NoShowTimer, Gone
<1>8. CASE widget' = TheTooltip!Destroy(widget)
  <2>1. PICK t : t = [widget EXCEPT !.timeout = "none"]
    OBVIOUS
  <2>2. t \in TipType
    <3>1. "none" \in {"none", "show", "hide"}
      OBVIOUS
    <3> QED BY <1>1, <2>1, <3>1, Zenon DEF TipType
  <2>3. /\ t.opt = widget.opt /\ t.timeout = "none"
        /\ t.proxies = widget.proxies
    BY <1>1, <2>1, Zenon DEF TipType
  <2>4. widget' = TheTooltip!Hide(t, "destroyed")
    BY <1>8, <2>1 DEF TheTooltip!Destroy
  <2>5. "destroyed" \in TipCallbacks
    BY DEF TipCallbacks
  <2> QED BY <1>2, <2>2, <2>3, <2>4, <2>5, ScriptHides DEF NoShowTimer
<1> QED BY <1>4, <1>5, <1>6, <1>7, <1>8 DEF TheTooltip!Script

(***************************************************************************)
(* The invariant, and the three properties that it implies.                *)
(***************************************************************************)
LEMMA TipInvariant == Spec => []TipInv
<1>1. Init => TipInv
  <2> SUFFICES ASSUME Init, kind = "tooltip" PROVE widget \in TipStates
    BY DEF TipInv
  <2>1. PICK o \in TheTooltip!Options :
            widget = [opt |-> o, enabled |-> TRUE, inState |-> {},
                      hoverState |-> "null", timeout |-> "none",
                      proxies |-> 1, placed |-> FALSE, open |-> FALSE,
                      fade |-> FALSE, waiting |-> <<>>]
    BY DEF Init, TheTooltip!Init
  <2>2. <<>> \in Seq(TipCallbacks) /\ 1 \in 0..2
    OBVIOUS
  <2>3. widget \in TipType
    BY <2>1, <2>2 DEF TipType
  <2> QED BY <2>1, <2>3
          DEF TipStates, NoShowTimer, Gone, Followed, InStep, Steady,
              Leaving
<1>2. TipInv /\ [Next]_vars => TipInv'
  <2> SUFFICES ASSUME TipInv, [Next]_vars, kind' = "tooltip"
               PROVE  widget' \in TipStates
    BY DEF TipInv
  <2>1. widget \in TipStates /\ (TheTooltip!Next \/ widget' = widget)
    BY DEF Next, vars, TipInv
  <2> QED BY <2>1, PointerInStep, PointerOutStep, ClickOnStep, TimeoutStep,
             TransitionEndStep, ScriptStep DEF TheTooltip!Next
<1> QED BY <1>1, <1>2, PTL DEF Spec

(***************************************************************************)
(* No tip is left behind: when the timers and transitions are over and     *)
(* nothing holds the tip, it is out of the document.                       *)
(***************************************************************************)
THEOREM LeftBehindTheorem == Spec => []NoTipLeftBehind
<1>1. TipInv => NoTipLeftBehind
  <2> SUFFICES ASSUME TipInv, kind = "tooltip", TheTooltip!Settled,
                      widget.inState = {}, ~widget.opt.scripted,
                      "hide" \notin widget.opt.vetoes
               PROVE  ~widget.placed
    BY DEF NoTipLeftBehind, TheTooltip!NoTipLeftBehind
  <2>1. Followed(widget)
    BY DEF TipInv, TipStates, Own
  <2> QED BY <2>1 DEF Followed, EndsHidden, TheTooltip!Settled
<1> QED BY <1>1, TipInvariant, PTL

(***************************************************************************)
(* Without animation the tip is on the screen exactly if something holds   *)
(* it, in whatever order the delays of enter and leave have run out.       *)
(***************************************************************************)
THEOREM FollowsTheorem == Spec => []TipFollowsPointer
<1>1. TipInv => TipFollowsPointer
  <2> SUFFICES ASSUME TipInv, kind = "tooltip", TheTooltip!Settled,
                      ~widget.opt.animate, ~widget.opt.scripted,
                      widget.opt.vetoes = {}
               PROVE  (widget.placed /\ widget.open) <=> widget.inState # {}
    BY DEF TipFollowsPointer, TheTooltip!TipFollowsPointer
  <2>1. InStep(widget) /\ widget \in TipType
    BY DEF TipInv, TipStates, Plain
  <2> QED BY <2>1 DEF InStep, Steady, Leaving, Showing, TheTooltip!Settled,
                      TipType
<1> QED BY <1>1, TipInvariant, PTL

(***************************************************************************)
(* A tooltip that is destroyed stays out of the document, whatever         *)
(* callbacks of earlier calls still ran.                                   *)
(***************************************************************************)
THEOREM DestroyedTheorem == Spec => []DestroyedStaysGone
<1>1. TipInv => DestroyedStaysGone
  BY DEF TipInv, TipStates, Gone, DestroyedStaysGone,
         TheTooltip!DestroyedStaysGone
<1> QED BY <1>1, TipInvariant, PTL

-----------------------------------------------------------------------------
(***************************************************************************)
(* The scroll spy: which section a position of the page belongs to, and    *)
(* that process finds it once it has looked at the page.                   *)
(***************************************************************************)
SpyType ==
    [page : Layouts, offsets : {l.tops : l \in Layouts}, scrollHeight : Nat,
     activeTarget : Nat, marked : Nat, scrollTop : Nat, fresh : 0..2]

SpyEntries == TheScrollSpy!Sections \cup {0}

Known(s) ==
    /\ s.marked = s.activeTarget /\ s.activeTarget \in SpyEntries
    /\ \E l \in Layouts : s.offsets = l.tops /\ s.scrollHeight = l.height

UpToDate(s) == s.offsets = s.page.tops /\ s.scrollHeight = s.page.height

CaughtUp(s) ==
    s.activeTarget = TheScrollSpy!SectionAt(s.page, s.scrollTop)

SpyStates ==
    {s \in SpyType : /\ Known(s)
                     /\ s.fresh # 0 => UpToDate(s)
                     /\ s.fresh = 2 => CaughtUp(s)}

SpyInv == kind = "scrollspy" => widget \in SpyStates

(***************************************************************************)
(* What a layout is.                                                       *)
(***************************************************************************)
LEMMA LayoutFacts ==
    /\ Viewport \in Nat /\ SpyOffset \in Nat
    /\ \A l \in Layouts :
          /\ l.tops \in Seq(Nat) /\ l.height \in Nat
          /\ Len(l.tops) \in Nat /\ Len(l.tops) # 0
          /\ DOMAIN l.tops = 1 .. Len(l.tops)
          /\ Cardinality(DOMAIN l.tops) = Len(l.tops)
          /\ \A i, j \in 1 .. Len(l.tops) :
                l.tops[i] \in Nat /\ (i < j => l.tops[i] <= l.tops[j])
    /\ \A l, k \in Layouts : l.height = k.height => l = k
<1>1. TheScrollSpy!LayoutsOK
  BY PageAssumption
<1>2. ASSUME NEW l \in Layouts
      PROVE  /\ l.tops \in Seq(Nat) /\ l.height \in Nat
             /\ Len(l.tops) \in Nat /\ Len(l.tops) # 0
             /\ DOMAIN l.tops = 1 .. Len(l.tops)
             /\ Cardinality(DOMAIN l.tops) = Len(l.tops)
             /\ \A i, j \in 1 .. Len(l.tops) :
                   l.tops[i] \in Nat /\ (i < j => l.tops[i] <= l.tops[j])
  <2>1. l.tops \in Seq(Nat) /\ l.height \in Nat /\ l.tops # <<>>
    BY <1>1 DEF TheScrollSpy!LayoutsOK
  <2>2. /\ Len(l.tops) \in Nat /\ Len(l.tops) # 0
        /\ DOMAIN l.tops = 1 .. Len(l.tops)
    BY <2>1
  <2>3. Cardinality(1 .. Len(l.tops)) = Len(l.tops)
    <3>1. 1 \in Int /\ Len(l.tops) \in Int
      BY <2>2
    <3> QED BY <2>2, <3>1, FS_Interval
  <2>4. \A i, j \in 1 .. Len(l.tops) : i < j => l.tops[i] <= l.tops[j]
    BY <1>1, <2>2 DEF TheScrollSpy!LayoutsOK
  <2> QED BY <2>1, <2>2, <2>3, <2>4
<1> QED BY <1>1, <1>2 DEF TheScrollSpy!LayoutsOK

(***************************************************************************)
(* The entries are numbers, among them those of each layout.               *)
(***************************************************************************)
LEMMA EntryFacts ==
    /\ SpyEntries \subseteq Nat /\ 0 \in SpyEntries
    /\ \A l \in Layouts : 1 .. Len(l.tops) \subseteq SpyEntries
<1>1. ASSUME NEW l \in Layouts
      PROVE  DOMAIN l.tops = 1 .. Len(l.tops)
  BY <1>1, LayoutFacts
<1>2. TheScrollSpy!Sections = UNION {1 .. Len(l.tops) : l \in Layouts}
  BY <1>1 DEF TheScrollSpy!Sections
<1> QED BY <1>2 DEF SpyEntries

(***************************************************************************)
(* The sections that begin above a position are the first k.               *)
(***************************************************************************)
Above(l, top, k) ==
    \A i \in 1 .. Len(l.tops) : l.tops[i] <= top <=> i <= k

(***************************************************************************)
(* There is such a k: the tops are sorted.                                 *)
(***************************************************************************)
LEMMA SomeAbove ==
    ASSUME NEW l \in Layouts, NEW top \in Nat
    PROVE  \E k \in 0 .. Len(l.tops) : Above(l, top, k)
<1> DEFINE n == Len(l.tops)
           T == {i \in 1..n : l.tops[i] <= top}
<1>1. /\ n \in Nat
      /\ \A i, j \in 1..n :
             l.tops[i] \in Nat /\ (i < j => l.tops[i] <= l.tops[j])
  BY LayoutFacts
<1>2. CASE T = {}
  <2>1. 0 \in 0..n
    BY <1>1
  <2> QED BY <1>1, <1>2, <2>1 DEF Above
<1>3. CASE T # {}
  <2>1. /\ Greatest(T) \in T
        /\ \A i \in T : Greatest(T) >= i
    <3>1. T \in SUBSET (1..n)
      OBVIOUS
    <3> HIDE DEF T, n
    <3> QED BY <1>1, <1>3, <3>1, GreatestIn
  <2>2. PICK k \in 1..n : k = Greatest(T)
    BY <2>1
  <2>3. ASSUME NEW i \in 1..n PROVE l.tops[i] <= top <=> i <= k
    <3>1. l.tops[i] \in Nat /\ l.tops[k] \in Nat /\ l.tops[k] <= top
      BY <1>1, <2>1, <2>2
    <3>2. i < k => l.tops[i] <= l.tops[k]
      BY <1>1
    <3>3. l.tops[i] <= top => i <= k
      BY <2>1, <2>2
    <3> QED BY <1>1, <3>1, <3>2, <3>3
  <2>4. k \in 0..n
    BY <1>1
  <2> QED BY <2>3, <2>4 DEF Above
<1> QED BY <1>2, <1>3

(***************************************************************************)
(* The library's Cardinality, as the widget's module has it.               *)
(***************************************************************************)
LEMMA SpyCount == \A T : TheScrollSpy!Cardinality(T) = Cardinality(T)
  BY DEF TheScrollSpy!Cardinality, Cardinality

(***************************************************************************)
(* SectionAt is the last of them, or the last of all.                      *)
(***************************************************************************)
LEMMA SectionIs ==
    ASSUME NEW l \in Layouts, NEW top \in Nat,
           NEW k \in 0 .. Len(l.tops), Above(l, top + SpyOffset, k)
    PROVE  TheScrollSpy!SectionAt(l, top) =
               IF top >= l.height - Viewport THEN Len(l.tops) ELSE k
<1> DEFINE n == Len(l.tops)
           above == {i \in DOMAIN l.tops : l.tops[i] <= top + SpyOffset}
<1>1. /\ n \in Nat /\ DOMAIN l.tops = 1..n
      /\ Cardinality(DOMAIN l.tops) = n
  BY LayoutFacts
<1>2. above = 1..k
  BY <1>1 DEF Above
<1>3. Cardinality(1..k) = k
  <2>1. 1 \in Int /\ k \in Int
    OBVIOUS
  <2> QED BY <2>1, FS_Interval
<1> QED BY <1>1, <1>2, <1>3, SpyCount DEF TheScrollSpy!SectionAt

(***************************************************************************)
(* What refresh and activate leave alone.                                  *)
(***************************************************************************)
SamePage(s, u) ==
    /\ u \in SpyType /\ Known(u) /\ UpToDate(u)
    /\ u.page = s.page /\ u.scrollTop = s.scrollTop /\ u.fresh = s.fresh

(***************************************************************************)
(* refresh takes over what the page is now.                                *)
(***************************************************************************)
LEMMA RefreshGoes ==
    ASSUME NEW s \in SpyType, s.marked = s.activeTarget,
           s.activeTarget \in SpyEntries
    PROVE  LET u == TheScrollSpy!Refresh(s) IN
           SamePage(s, u) /\ u.activeTarget = s.activeTarget
<1>1. PICK u : u = TheScrollSpy!Refresh(s)
  OBVIOUS
<1>2. PICK tops \in {l.tops : l \in Layouts} : tops = s.page.tops
  BY DEF SpyType
<1>3. PICK height \in Nat : height = s.page.height
  BY LayoutFacts DEF SpyType
<1>4. u = [s EXCEPT !.offsets = tops, !.scrollHeight = height]
  BY <1>1, <1>2, <1>3 DEF TheScrollSpy!Refresh
<1>5. u \in SpyType
  BY <1>4, Zenon DEF SpyType
<1>6. /\ u.offsets = tops /\ u.scrollHeight = height /\ u.page = s.page
      /\ u.scrollTop = s.scrollTop /\ u.fresh = s.fresh
      /\ u.activeTarget = s.activeTarget /\ u.marked = s.marked
  BY <1>4, Zenon DEF SpyType
<1>7. s.page \in Layouts
  BY DEF SpyType
<1> QED BY <1>1, <1>2, <1>3, <1>5, <1>6, <1>7 DEF SamePage, Known, UpToDate

(***************************************************************************)
(* activate marks the entry it is given, and nothing else changes.         *)
(***************************************************************************)
LEMMA ActivateGoes ==
    ASSUME NEW s \in SpyType, Known(s), UpToDate(s), NEW i \in SpyEntries
    PROVE  LET u == TheScrollSpy!Activate(s, i) IN
           SamePage(s, u) /\ u.activeTarget = i
<1>1. PICK u : u = [s EXCEPT !.activeTarget = i, !.marked = i]
  OBVIOUS
<1>2. u \in SpyType
  <2>1. i \in Nat
    BY EntryFacts
  <2> QED BY <1>1, <2>1, Zenon DEF SpyType
<1>3. /\ u.offsets = s.offsets /\ u.scrollHeight = s.scrollHeight
      /\ u.page = s.page /\ u.scrollTop = s.scrollTop
      /\ u.fresh = s.fresh /\ u.activeTarget = i /\ u.marked = i
  BY <1>1, Zenon DEF SpyType
<1>4. u = TheScrollSpy!Activate(s, i)
  BY <1>1 DEF TheScrollSpy!Activate
<1> QED BY <1>2, <1>3, <1>4 DEF SamePage, Known, UpToDate

(***************************************************************************)
(* process keeps up with the page; with tops that are those of the page it *)
(* marks the section on the screen.                                        *)
(***************************************************************************)
LEMMA ProcessGoes ==
    ASSUME NEW s \in SpyType, Known(s)
    PROVE  LET u == TheScrollSpy!Process(s) IN
           SamePage(s, u) /\ (UpToDate(s) => CaughtUp(u))
<1> DEFINE
      top == s.scrollTop + SpyOffset
      last == TheScrollSpy!Cardinality(DOMAIN s.offsets)
      seen == IF s.scrollHeight # s.page.height
              THEN TheScrollSpy!Refresh(s) ELSE s
      under == {i \in 1..last : /\ top >= s.offsets[i]
                                /\ i < last => top < s.offsets[i + 1]}
<1>1. PICK u : u = TheScrollSpy!Process(s)
  OBVIOUS
<1>1a. u = CASE top >= SpyOffset + s.page.height - Viewport ->
                  IF s.activeTarget # last
                  THEN TheScrollSpy!Activate(seen, last) ELSE seen
             [] /\ top < SpyOffset + s.page.height - Viewport
                /\ s.activeTarget # 0 /\ top < s.offsets[1] ->
                  TheScrollSpy!Clear(seen)
             [] OTHER ->
                  IF under \subseteq {s.activeTarget} THEN seen
                  ELSE TheScrollSpy!Activate(seen,
                                             CHOOSE i \in under : TRUE)
  BY <1>1 DEF TheScrollSpy!Process
<1>2. PICK l \in Layouts : s.offsets = l.tops /\ s.scrollHeight = l.height
  BY DEF Known
<1>3. /\ s.page \in Layouts /\ s.scrollTop \in Nat /\ s.activeTarget \in Nat
      /\ s.marked = s.activeTarget /\ s.activeTarget \in SpyEntries
  BY DEF SpyType, Known
<1>4. top \in Nat /\ top = s.scrollTop + SpyOffset
  BY <1>3, LayoutFacts
<1>5. last \in Nat /\ last = Cardinality(DOMAIN s.offsets)
  BY <1>2, LayoutFacts, SpyCount
<1>5a. 1..last \subseteq SpyEntries /\ last \in SpyEntries
  <2>1. last = Len(l.tops) /\ last # 0
    BY <1>2, LayoutFacts, SpyCount
  <2>2. 1..last \subseteq SpyEntries
    BY <1>2, <2>1, EntryFacts
  <2> HIDE DEF last
  <2> QED BY <1>5, <2>1, <2>2
<1>6. seen = IF s.scrollHeight # s.page.height
             THEN TheScrollSpy!Refresh(s) ELSE s
  OBVIOUS
<1>7. SamePage(s, seen) /\ seen.activeTarget = s.activeTarget
  <2>1. CASE s.scrollHeight # s.page.height
    BY <1>3, <1>6, <2>1, RefreshGoes
  <2>2. CASE s.scrollHeight = s.page.height
    <3>1. s.page = l
      BY <1>2, <1>3, <2>2, LayoutFacts
    <3>2. UpToDate(s)
      BY <1>2, <3>1 DEF UpToDate
    <3> QED BY <1>6, <2>2, <3>2 DEF SamePage
  <2> QED BY <2>1, <2>2
<1>8. under = {i \in 1..last : /\ top >= s.offsets[i]
                               /\ i < last => top < s.offsets[i + 1]}
  OBVIOUS
<1> HIDE DEF top, last, seen, under
<1> USE <1>4, <1>5
<1>9. seen \in SpyType /\ Known(seen) /\ UpToDate(seen)
  BY <1>7 DEF SamePage
<1>10. SUFFICES SamePage(s, u) /\ (UpToDate(s) => CaughtUp(u))
  BY <1>1
<1>11. PICK k \in 0 .. Len(s.page.tops) : Above(s.page, top, k)
  BY <1>3, SomeAbove
<1>12. TheScrollSpy!SectionAt(s.page, s.scrollTop) =
           IF s.scrollTop >= s.page.height - Viewport
           THEN Len(s.page.tops) ELSE k
  BY <1>3, <1>4, <1>11, SectionIs
<1>13. /\ Len(s.page.tops) \in Nat /\ Len(s.page.tops) # 0
       /\ s.page.height \in Nat /\ Viewport \in Nat /\ SpyOffset \in Nat
       /\ \A i \in 1 .. Len(s.page.tops) : s.page.tops[i] \in Nat
       /\ Cardinality(DOMAIN s.page.tops) = Len(s.page.tops)
  BY <1>3, LayoutFacts
<1>14. UpToDate(s) => last = Len(s.page.tops) /\ s.offsets = s.page.tops
  BY <1>5, <1>13 DEF UpToDate
<1>15. CASE top >= SpyOffset + s.page.height - Viewport
  <2>1. u = IF s.activeTarget # last
            THEN TheScrollSpy!Activate(seen, last) ELSE seen
    <3>1. ~(top < SpyOffset + s.page.height - Viewport)
      BY <1>4, <1>13, <1>15
    <3> QED BY <1>1a, <1>15, <3>1, Zenon
  <2>2. SamePage(s, u) /\ u.activeTarget = last
    <3>1. CASE s.activeTarget # last
      BY <1>5a, <1>7, <1>9, <2>1, <3>1, ActivateGoes DEF SamePage
    <3>2. CASE s.activeTarget = last
      BY <1>7, <2>1, <3>2
    <3> QED BY <3>1, <3>2
  <2>3. s.scrollTop >= s.page.height - Viewport
    BY <1>3, <1>4, <1>13, <1>15
  <2> QED BY <1>12, <1>14, <2>2, <2>3 DEF CaughtUp, SamePage
<1>16. CASE /\ top < SpyOffset + s.page.height - Viewport
            /\ s.activeTarget # 0 /\ top < s.offsets[1]
  <2>1. ~(top >= SpyOffset + s.page.height - Viewport)
    BY <1>13, <1>16
  <2>2. u = TheScrollSpy!Clear(seen)
    BY <1>1a, <1>16, <2>1, Zenon
  <2>3. TheScrollSpy!Clear(seen) = TheScrollSpy!Activate(seen, 0)
    BY DEF TheScrollSpy!Clear, TheScrollSpy!Activate
  <2>4. SamePage(s, u) /\ u.activeTarget = 0
    <3>1. 0 \in SpyEntries
      BY EntryFacts
    <3>2. SamePage(seen, u) /\ u.activeTarget = 0
      BY <1>9, <2>2, <2>3, <3>1, ActivateGoes
    <3> QED BY <1>7, <3>2 DEF SamePage
  <2>5. ~(s.scrollTop >= s.page.height - Viewport)
    BY <1>3, <1>4, <1>13, <1>16
  <2>6. UpToDate(s) => k = 0
    <3>1. 1 \in 1 .. Len(s.page.tops)
      BY <1>13
    <3> QED BY <1>11, <1>13, <1>14, <1>16, <3>1 DEF Above
  <2> QED BY <1>12, <2>4, <2>5, <2>6 DEF CaughtUp, SamePage
<1>17. CASE /\ ~(top >= SpyOffset + s.page.height - Viewport)
            /\ ~(/\ top < SpyOffset + s.page.height - Viewport
                 /\ s.activeTarget # 0 /\ top < s.offsets[1])
  <2>1. u = IF under \subseteq {s.activeTarget} THEN seen
            ELSE TheScrollSpy!Activate(seen, CHOOSE i \in under : TRUE)
    BY <1>1a, <1>17, Zenon
  <2>2. /\ SamePage(s, u)
        /\ \/ under \subseteq {u.activeTarget}
              /\ u.activeTarget = s.activeTarget
           \/ u.activeTarget \in under
    <3>1. CASE under \subseteq {s.activeTarget}
      BY <1>7, <2>1, <3>1
    <3>2. CASE ~(under \subseteq {s.activeTarget})
      <4>1. PICK i : i = CHOOSE j \in under : TRUE
        OBVIOUS
      <4>2. i \in under
        BY <3>2, <4>1
      <4>3. i \in SpyEntries
        BY <1>5a, <1>8, <4>2
      <4> QED BY <1>7, <1>9, <2>1, <3>2, <4>1, <4>2, <4>3, ActivateGoes
              DEF SamePage
    <3> QED BY <3>1, <3>2
  <2>3. ~(s.scrollTop >= s.page.height - Viewport)
    BY <1>3, <1>4, <1>13, <1>17
  <2>4. ASSUME UpToDate(s) PROVE u.activeTarget = k
    <3>1. \A i \in 1..last : i \in under <=> i = k
      <4> SUFFICES ASSUME NEW i \in 1..last PROVE i \in under <=> i = k
        OBVIOUS
      <4>1. /\ i \in 1 .. Len(s.page.tops)
            /\ s.page.tops[i] <= top <=> i <= k
        BY <1>11, <1>14, <2>4 DEF Above
      <4>2. i < last => /\ i + 1 \in 1 .. Len(s.page.tops)
                        /\ s.page.tops[i + 1] <= top <=> i + 1 <= k
        BY <1>11, <1>14, <2>4 DEF Above
      <4>3. \/ /\ i \in under /\ top >= s.page.tops[i]
               /\ i < last => top < s.page.tops[i + 1]
            \/ /\ i \notin under
               /\ ~(/\ top >= s.page.tops[i]
                    /\ i < last => top < s.page.tops[i + 1])
        BY <1>8, <1>14, <2>4
      <4> QED BY <1>13, <1>14, <2>4, <4>1, <4>2, <4>3
    <3>2. CASE k = 0
      <4>1. under = {}
        BY <1>8, <3>1, <3>2
      <4>2. 1 \in 1 .. Len(s.page.tops)
        BY <1>13
      <4>3. top < s.page.tops[1]
        BY <1>11, <1>13, <3>2, <4>2 DEF Above
      <4>4. top < SpyOffset + s.page.height - Viewport
        BY <1>13, <1>17
      <4> QED BY <1>14, <1>17, <2>2, <2>4, <3>2, <4>1, <4>3, <4>4
    <3>3. CASE k # 0
      <4>1. k \in under
        BY <1>11, <1>14, <2>4, <3>1, <3>3
      <4> QED BY <1>8, <2>2, <3>1, <4>1
    <3> QED BY <3>2, <3>3
  <2> QED BY <1>12, <2>2, <2>3, <2>4 DEF CaughtUp, SamePage
<1> QED BY <1>15, <1>16, <1>17

(***************************************************************************)
(* The handler of an event of the page.                                    *)
(***************************************************************************)
LEMMA ProcessedGoes ==
    ASSUME NEW s \in SpyType, Known(s),
           s.fresh # 0 => UpToDate(s)
    PROVE  TheScrollSpy!Processed(s) \in SpyStates
<1>1. PICK u : u = TheScrollSpy!Process(s)
  OBVIOUS
<1>2. SamePage(s, u) /\ (UpToDate(s) => CaughtUp(u))
  BY <1>1, ProcessGoes
<1>3. PICK fresh \in 0..2 : fresh = IF u.fresh < 2 THEN u.fresh + 1
                                                 ELSE u.fresh
  BY <1>2 DEF SamePage, SpyType
<1>4. PICK p : p = [u EXCEPT !.fresh = fresh]
  OBVIOUS
<1>5. p = TheScrollSpy!Processed(s)
  BY <1>1, <1>3, <1>4 DEF TheScrollSpy!Processed
<1>6. p \in SpyType
  BY <1>2, <1>4, Zenon DEF SamePage, SpyType
<1>7. /\ p.fresh = fresh /\ p.offsets = u.offsets /\ p.page = u.page
      /\ p.scrollHeight = u.scrollHeight /\ p.scrollTop = u.scrollTop
      /\ p.activeTarget = u.activeTarget /\ p.marked = u.marked
  BY <1>2, <1>4, Zenon DEF SamePage, SpyType
<1>8. fresh = 2 => UpToDate(s)
  BY <1>2, <1>3 DEF SamePage, SpyType
<1> QED BY <1>2, <1>5, <1>6, <1>7, <1>8
        DEF SpyStates, SamePage, Known, UpToDate, CaughtUp

(***************************************************************************)
(* The page is scrolled.                                                   *)
(***************************************************************************)
LEMMA ScrollStep ==
    ASSUME widget \in SpyStates, TheScrollSpy!Scroll
    PROVE  widget' \in SpyStates
<1>1. PICK to \in 0 .. widget.page.height - Viewport :
          widget' = TheScrollSpy!Processed([widget EXCEPT !.scrollTop = to])
  BY DEF TheScrollSpy!Scroll
<1>2. PICK s : s = [widget EXCEPT !.scrollTop = to]
  OBVIOUS
<1>3. widget \in SpyType /\ to \in Nat
  BY DEF SpyStates
<1>4. s \in SpyType
  BY <1>2, <1>3, Zenon DEF SpyType
<1>5. /\ s.fresh = widget.fresh /\ s.offsets = widget.offsets
      /\ s.page = widget.page /\ s.scrollHeight = widget.scrollHeight
      /\ s.activeTarget = widget.activeTarget /\ s.marked = widget.marked
  BY <1>2, <1>3, Zenon DEF SpyType
<1>6. Known(s) /\ (s.fresh # 0 => UpToDate(s))
  BY <1>5 DEF SpyStates, Known, UpToDate
<1> QED BY <1>1, <1>2, <1>4, <1>6, ProcessedGoes

(***************************************************************************)
(* The page changes: what is kept is out of date.                          *)
(***************************************************************************)
LEMMA RelayoutStep ==
    ASSUME widget \in SpyStates, TheScrollSpy!Relayout
    PROVE  widget' \in SpyStates
<1>1. PICK page \in Layouts :
          widget' = [widget EXCEPT !.page = page, !.fresh = 0]
  BY DEF TheScrollSpy!Relayout
<1>2. widget \in SpyType /\ 0 \in 0..2
  BY DEF SpyStates
<1>3. widget' \in SpyType
  BY <1>1, <1>2, Zenon DEF SpyType
<1>4. /\ widget'.fresh = 0 /\ widget'.offsets = widget.offsets
      /\ widget'.scrollHeight = widget.scrollHeight
      /\ widget'.activeTarget = widget.activeTarget
      /\ widget'.marked = widget.marked
  BY <1>1, <1>2, Zenon DEF SpyType
<1> QED BY <1>3, <1>4 DEF SpyStates, Known

(***************************************************************************)
(* In every behaviour of the page a scroll spy keeps to its states.        *)
(***************************************************************************)
LEMMA SpyAlways == Spec => []SpyInv
<1>1. Init => SpyInv
  <2> SUFFICES ASSUME Init, kind = "scrollspy" PROVE widget \in SpyStates
    BY DEF SpyInv
  <2>1. PICK page \in Layouts :
            widget = TheScrollSpy!Processed(TheScrollSpy!Refresh(
                       [page |-> page, offsets |-> page.tops,
                        scrollHeight |-> page.height, activeTarget |-> 0,
                        marked |-> 0, scrollTop |-> 0, fresh |-> 1]))
    BY DEF Init, TheScrollSpy!Init
  <2>2. PICK s : s = [page |-> page, offsets |-> page.tops,
                      scrollHeight |-> page.height, activeTarget |-> 0,
                      marked |-> 0, scrollTop |-> 0, fresh |-> 1]
    OBVIOUS
  <2>3. /\ s \in SpyType /\ s.marked = s.activeTarget
        /\ s.activeTarget \in SpyEntries
    BY <2>2, LayoutFacts, EntryFacts DEF SpyType
  <2>4. PICK u : u = TheScrollSpy!Refresh(s)
    OBVIOUS
  <2>5. SamePage(s, u)
    BY <2>3, <2>4, RefreshGoes
  <2> QED BY <2>1, <2>2, <2>4, <2>5, ProcessedGoes DEF SamePage
<1>2. SpyInv /\ [Next]_vars => SpyInv'
  <2> SUFFICES ASSUME SpyInv, [Next]_vars, kind' = "scrollspy"
               PROVE  widget' \in SpyStates
    BY DEF SpyInv
  <2>1. widget \in SpyStates /\ (TheScrollSpy!Next \/ widget' = widget)
    BY DEF Next, vars, SpyInv
  <2> QED BY <2>1, ScrollStep, RelayoutStep DEF TheScrollSpy!Next
<1> QED BY <1>1, <1>2, PTL DEF Spec

(***************************************************************************)
(* Two events after a change of layout the entry that is marked is that of *)
(* the section on the screen, for all sections, heights and offsets, as    *)
(* long as no two layouts have the same height.                            *)
(***************************************************************************)
THEOREM SpyTheorem == Spec => []SpyCatchesUp
<1>1. SpyInv => SpyCatchesUp
  BY DEF SpyInv, SpyStates, Known, CaughtUp, SpyCatchesUp,
         TheScrollSpy!SpyCatchesUp
<1> QED BY <1>1, SpyAlways, PTL

-----------------------------------------------------------------------------
(***************************************************************************)
(* How much of a tip is on its way: the callbacks that wait for the end of *)
(* its transition, and its timer.  A handler that starts from a tip with   *)
(* space adds one at most, and a timer that runs out makes room for what   *)
(* it adds.                                                                *)
(***************************************************************************)
Load(t) == Len(t.waiting) + IF t.timeout = "none" THEN 0 ELSE 1

Bounded(t) == t \in TipType /\ Load(t) <= 2 * MaxTipWaiting

LoadInv == kind = "tooltip" => Bounded(widget)

(***************************************************************************)
(* The load is a number, one more at most than the callbacks.              *)
(***************************************************************************)
LEMMA LoadFacts ==
    ASSUME NEW t \in TipType
    PROVE  /\ Len(t.waiting) \in Nat /\ Load(t) \in Nat
           /\ Len(t.waiting) <= Load(t) /\ Load(t) <= Len(t.waiting) + 1
           /\ t.timeout = "none" => Load(t) = Len(t.waiting)
           /\ \A callback \in TipCallbacks :
                 Len(Append(t.waiting, callback)) = Len(t.waiting) + 1
<1>1. t.waiting \in Seq(TipCallbacks)
  BY DEF TipType
<1>2. /\ Len(t.waiting) \in Nat
      /\ \A callback \in TipCallbacks :
            Len(Append(t.waiting, callback)) = Len(t.waiting) + 1
  BY <1>1
<1>3. Load(t) = Len(t.waiting) + IF t.timeout = "none" THEN 0 ELSE 1
  BY DEF Load
<1>4. PICK n \in Nat : n = Len(t.waiting)
  BY <1>2
<1>5. PICK e \in {0, 1} :
          e = IF t.timeout = "none" THEN 0 ELSE 1
  OBVIOUS
<1>6. Load(t) = n + e /\ (t.timeout = "none" => e = 0)
  BY <1>3, <1>4, <1>5
<1>7. /\ Load(t) \in Nat /\ n <= Load(t) /\ Load(t) <= n + 1
      /\ t.timeout = "none" => Load(t) = n
  BY <1>6
<1> QED BY <1>2, <1>4, <1>7

(***************************************************************************)
(* hide adds its callback at most.                                         *)
(***************************************************************************)
LEMMA HideLoad ==
    ASSUME NEW t \in TipType, NEW callback \in TipCallbacks, NEW u,
           HidesTo(t, callback, u)
    PROVE  u \in TipType /\ Load(u) <= Load(t) + 1
<1>1. u \in TipType /\ u.timeout = t.timeout
  BY DEF HidesTo
<1>2. Len(u.waiting) <= Len(t.waiting) + 1
  <2>1. CASE "hide" \in t.opt.vetoes
    BY <2>1, LoadFacts DEF HidesTo
  <2>2. CASE "hide" \notin t.opt.vetoes
    <3>1. \/ u.waiting = Append(t.waiting, callback)
          \/ u.waiting = t.waiting
      <4>1. GoesWith(t, callback, u) /\ t.fade \in BOOLEAN
        BY <2>2 DEF HidesTo, TipType
      <4> QED BY <4>1 DEF GoesWith
    <3> QED BY <3>1, LoadFacts
  <2> QED BY <2>1, <2>2
<1>3. Len(t.waiting) \in Nat /\ Len(u.waiting) \in Nat
  BY <1>1, LoadFacts
<1>4. PICK e \in {0, 1} : e = IF t.timeout = "none" THEN 0 ELSE 1
  OBVIOUS
<1>5. Load(t) = Len(t.waiting) + e /\ Load(u) = Len(u.waiting) + e
  BY <1>1, <1>4 DEF Load
<1> QED BY <1>1, <1>2, <1>3, <1>5

(***************************************************************************)
(* leave sets the timer or adds the callback of hide.                      *)
(***************************************************************************)
LEMMA LeaveLoad ==
    ASSUME NEW t \in TipType, NEW u, LeavesTo(t, u)
    PROVE  u \in TipType /\ Load(u) <= Len(t.waiting) + 1
<1>1. u \in TipType /\ t.opt.delayHide \in BOOLEAN /\ t.fade \in BOOLEAN
  BY TipOptions DEF LeavesTo, TipType
<1>2. CASE t.inState # {}
  BY <1>1, <1>2, LoadFacts DEF LeavesTo
<1>3. CASE t.inState = {} /\ t.opt.delayHide
  <2>1. u.waiting = t.waiting
    BY <1>3 DEF LeavesTo, SameScreen
  <2> QED BY <1>1, <2>1, LoadFacts
<1>4. CASE t.inState = {} /\ ~t.opt.delayHide
  <2>1. u.timeout = "none"
    BY <1>4 DEF LeavesTo
  <2>2. u.waiting = t.waiting \/ u.waiting = Append(t.waiting, "hidden")
    BY <1>1, <1>4 DEF LeavesTo, SameScreen
  <2>3. "hidden" \in TipCallbacks
    BY DEF TipCallbacks
  <2> QED BY <1>1, <2>1, <2>2, <2>3, LoadFacts
<1> QED BY <1>1, <1>2, <1>3, <1>4

(***************************************************************************)
(* The end of show adds what leave adds, or nothing.                       *)
(***************************************************************************)
LEMMA ShownLoad ==
    ASSUME NEW t \in TipType, NEW u, ShownTo(t, u)
    PROVE  u \in TipType /\ Load(u) <= Load(t) + 1
<1>1. u \in TipType
  BY DEF ShownTo
<1>2. CASE t.hoverState = "out" /\ t.inState = {}
  <2>1. LeavesTo(t, u)
    BY <1>2 DEF ShownTo
  <2>2. Load(u) <= Len(t.waiting) + 1
    BY <2>1, LeaveLoad
  <2> QED BY <1>1, <2>2, LoadFacts
<1>3. CASE ~(t.hoverState = "out" /\ t.inState = {})
  <2>1. u.timeout = t.timeout /\ u.waiting = t.waiting
    BY <1>3 DEF ShownTo, SameScreen
  <2>2. Load(u) = Load(t)
    BY <2>1 DEF Load
  <2> QED BY <1>1, <2>2, LoadFacts
<1> QED BY <1>2, <1>3

(***************************************************************************)
(* show adds one callback at most.                                         *)
(***************************************************************************)
LEMMA ShowLoad ==
    ASSUME NEW t \in TipType, NEW u, ShowsTo(t, u)
    PROVE  u \in TipType /\ Load(u) <= Load(t) + 1
<1>1. u \in TipType /\ t.enabled \in BOOLEAN /\ t.opt.animate \in BOOLEAN
  BY TipOptions DEF ShowsTo, TipType
<1>2. CASE ~t.enabled \/ "show" \in t.opt.vetoes
  <2>1. u = t
    BY <1>2 DEF ShowsTo
  <2> QED BY <1>1, <2>1, LoadFacts
<1>3. CASE t.enabled /\ "show" \notin t.opt.vetoes /\ t.opt.animate
  <2>1. u.timeout = t.timeout /\ u.waiting = Append(t.waiting, "shown")
    BY <1>3 DEF ShowsTo, Placed
  <2>2. "shown" \in TipCallbacks
    BY DEF TipCallbacks
  <2>3. Len(u.waiting) = Len(t.waiting) + 1
    BY <2>1, <2>2, LoadFacts
  <2> QED BY <1>1, <2>1, <2>3, LoadFacts DEF Load
<1>4. CASE t.enabled /\ "show" \notin t.opt.vetoes /\ ~t.opt.animate
  <2>1. PICK on \in TipType :
            Placed(t, on) /\ on.waiting = t.waiting /\ ShownTo(on, u)
    BY <1>4 DEF ShowsTo
  <2>2. Load(on) = Load(t)
    BY <2>1 DEF Placed, Load
  <2> QED BY <1>1, <2>1, <2>2, ShownLoad
<1> QED BY <1>1, <1>2, <1>3, <1>4

(***************************************************************************)
(* enter sets the timer, or clears it and adds what show adds.             *)
(***************************************************************************)
LEMMA EnterLoad ==
    ASSUME NEW t \in TipType, NEW u, EntersTo(t, u)
    PROVE  u \in TipType /\ Load(u) <= Len(t.waiting) + 1
<1>1. u \in TipType /\ t.open \in BOOLEAN /\ t.opt.delayShow \in BOOLEAN
  BY TipOptions DEF EntersTo, TipType
<1>2. CASE t.open \/ t.hoverState = "in"
  <2>1. u.waiting = t.waiting
    BY <1>2 DEF EntersTo, SameScreen
  <2> QED BY <1>1, <2>1, LoadFacts
<1>3. CASE ~t.open /\ t.hoverState # "in"
  <2>1. PICK in \in TipType :
            /\ in.waiting = t.waiting
            /\ t.opt.delayShow => u = in
            /\ ~t.opt.delayShow => in.timeout = "none" /\ ShowsTo(in, u)
    BY <1>3 DEF EntersTo, SameScreen
  <2>2. CASE t.opt.delayShow
    BY <1>1, <2>1, <2>2, LoadFacts
  <2>3. CASE ~t.opt.delayShow
    <3>1. Load(u) <= Load(in) + 1 /\ Load(in) = Len(t.waiting)
      BY <2>1, <2>3, ShowLoad, LoadFacts
    <3> QED BY <1>1, <3>1
  <2> QED BY <1>1, <2>2, <2>3
<1> QED BY <1>1, <1>2, <1>3

(***************************************************************************)
(* A handler that runs for two instances stays within the bound, because   *)
(* it runs only if there is space.                                         *)
(***************************************************************************)
LEMMA HasRoom ==
    ASSUME NEW t \in TipType, TheTooltip!Ready, NEW u \in TipType,
           t.waiting = widget.waiting, Load(u) <= Len(t.waiting) + 2
    PROVE  Bounded(u)
<1>1. Len(t.waiting) \in Nat /\ Load(u) \in Nat /\ MaxTipWaiting \in Nat
  BY LoadFacts, PageAssumption
<1>2. Len(t.waiting) < MaxTipWaiting
  BY DEF TheTooltip!Ready
<1>3. Load(u) <= 2 * MaxTipWaiting
  BY <1>1, <1>2
<1> QED BY <1>3 DEF Bounded

(***************************************************************************)
(* What holds a tip, and how many handle its events, adds nothing.         *)
(***************************************************************************)
LEMMA HeldLoad ==
    ASSUME NEW t \in TipType, NEW s \in SUBSET {"click", "hover", "focus"}
    PROVE  LET u == [t EXCEPT !.inState = s] IN
           u \in TipType /\ u.waiting = t.waiting /\ Load(u) = Load(t)
<1>1. PICK u : u = [t EXCEPT !.inState = s]
  OBVIOUS
<1>2. u \in TipType
  BY <1>1, Zenon DEF TipType
<1>3. u.waiting = t.waiting /\ u.timeout = t.timeout
  BY <1>1, Zenon DEF TipType
<1> QED BY <1>1, <1>2, <1>3 DEF Load

(***************************************************************************)
(* The second instance of a confirmation adds nothing.                     *)
(***************************************************************************)
LEMMA BoundLoad ==
    ASSUME NEW t \in TipType
    PROVE  LET u == TheTooltip!Bound(t) IN
           u \in TipType /\ u.waiting = t.waiting /\ Load(u) = Load(t)
<1>1. PICK u : u = [t EXCEPT !.proxies = 2]
  OBVIOUS
<1>2. u \in TipType
  <2>1. 2 \in 0..2
    OBVIOUS
  <2> QED BY <1>1, <2>1, Zenon DEF TipType
<1>3. u.waiting = t.waiting /\ u.timeout = t.timeout
  BY <1>1, Zenon DEF TipType
<1>4. Load(u) = Load(t)
  BY <1>3 DEF Load
<1> QED BY <1>1, <1>2, <1>3, <1>4 DEF TheTooltip!Bound

(***************************************************************************)
(* A click adds one at most.                                               *)
(***************************************************************************)
LEMMA ClickLoad ==
    ASSUME NEW t \in TipType
    PROVE  LET u == TheTooltip!Click(t) IN
           u \in TipType /\ Load(u) <= Len(t.waiting) + 1
<1>1. PICK flip : flip = IF "click" \in t.inState THEN t.inState \ {"click"}
                         ELSE t.inState \cup {"click"}
  OBVIOUS
<1>2. flip \in SUBSET {"click", "hover", "focus"}
  <2>1. t.inState \in SUBSET {"click", "hover", "focus"}
    BY DEF TipType
  <2> QED BY <1>1, <2>1
<1>3. PICK c : c = [t EXCEPT !.inState = flip]
  OBVIOUS
<1>4. c \in TipType /\ c.waiting = t.waiting
  BY <1>2, <1>3, HeldLoad
<1>5. TheTooltip!Click(t) = IF flip # {} THEN TheTooltip!Enter(c)
                                         ELSE TheTooltip!Leave(c)
  BY <1>1, <1>3 DEF TheTooltip!Click
<1>6. /\ TheTooltip!Enter(c) \in TipType
      /\ Load(TheTooltip!Enter(c)) <= Len(t.waiting) + 1
  <2>1. EntersTo(c, TheTooltip!Enter(c))
    BY <1>4, EnterGoes
  <2> QED BY <1>4, <2>1, EnterLoad
<1>7. /\ TheTooltip!Leave(c) \in TipType
      /\ Load(TheTooltip!Leave(c)) <= Len(t.waiting) + 1
  <2>1. LeavesTo(c, TheTooltip!Leave(c))
    BY <1>4, LeaveGoes
  <2> QED BY <1>4, <2>1, LeaveLoad
<1> QED BY <1>5, <1>6, <1>7

(***************************************************************************)
(* A handler that one instance runs, or two one after the other.           *)
(***************************************************************************)
LEMMA TwiceLoad ==
    ASSUME NEW t \in TipType, TheTooltip!Ready, t.waiting = widget.waiting,
           NEW once \in TipType, Load(once) <= Len(t.waiting) + 1,
           NEW twice \in TipType, Load(twice) <= Len(once.waiting) + 1,
           \/ widget' = TheTooltip!Bound(once)
           \/ widget' = TheTooltip!Bound(twice)
    PROVE  Bounded(widget')
<1>1. /\ Len(t.waiting) \in Nat /\ Len(once.waiting) \in Nat
      /\ Load(once) \in Nat /\ Load(twice) \in Nat
      /\ Len(once.waiting) <= Load(once)
  BY LoadFacts
<1>2. /\ Load(once) <= Len(t.waiting) + 2
      /\ Load(twice) <= Len(t.waiting) + 2
  BY <1>1
<1>3. PICK u \in {once, twice} : widget' = TheTooltip!Bound(u)
  OBVIOUS
<1>4. widget' \in TipType /\ Load(widget') <= Len(t.waiting) + 2
  BY <1>2, <1>3, BoundLoad
<1> QED BY <1>4, HasRoom

(***************************************************************************)
(* The pointer, the focus and the clicks.                                  *)
(***************************************************************************)
LEMMA PointerLoad ==
    ASSUME Bounded(widget), NEW event \in {"hover", "focus"},
           TheTooltip!PointerIn(event) \/ TheTooltip!PointerOut(event)
    PROVE  Bounded(widget')
<1>1. /\ widget \in TipType
      /\ widget.inState \in SUBSET {"click", "hover", "focus"}
  BY DEF Bounded, TipType
<1>2. CASE TheTooltip!PointerIn(event)
  <2>1. PICK s \in SUBSET {"click", "hover", "focus"} :
            s = widget.inState \cup {event}
    BY <1>1
  <2>2. PICK t : t = [widget EXCEPT !.inState = s]
    OBVIOUS
  <2>3. t \in TipType /\ t.waiting = widget.waiting
    BY <1>1, <2>2, HeldLoad
  <2>4. PICK once : once = TheTooltip!Enter(t)
    OBVIOUS
  <2>5. once \in TipType /\ Load(once) <= Len(t.waiting) + 1
    BY <2>3, <2>4, EnterGoes, EnterLoad
  <2>6. PICK twice : twice = TheTooltip!Enter(once)
    OBVIOUS
  <2>7. twice \in TipType /\ Load(twice) <= Len(once.waiting) + 1
    BY <2>5, <2>6, EnterGoes, EnterLoad
  <2>8. /\ TheTooltip!Ready
        /\ widget' = TheTooltip!Bound(IF widget.proxies = 2 THEN twice
                                                            ELSE once)
    BY <1>2, <2>1, <2>2, <2>4, <2>6 DEF TheTooltip!PointerIn
  <2> QED BY <2>3, <2>5, <2>7, <2>8, TwiceLoad
<1>3. CASE TheTooltip!PointerOut(event)
  <2>1. PICK s \in SUBSET {"click", "hover", "focus"} :
            s = widget.inState \ {event}
    BY <1>1
  <2>2. PICK t : t = [widget EXCEPT !.inState = s]
    OBVIOUS
  <2>3. t \in TipType /\ t.waiting = widget.waiting
    BY <1>1, <2>2, HeldLoad
  <2>4. PICK once : once = TheTooltip!Leave(t)
    OBVIOUS
  <2>5. once \in TipType /\ Load(once) <= Len(t.waiting) + 1
    BY <2>3, <2>4, LeaveGoes, LeaveLoad
  <2>6. PICK twice : twice = TheTooltip!Leave(once)
    OBVIOUS
  <2>7. twice \in TipType /\ Load(twice) <= Len(once.waiting) + 1
    BY <2>5, <2>6, LeaveGoes, LeaveLoad
  <2>8. /\ TheTooltip!Ready
        /\ widget' = TheTooltip!Bound(IF widget.proxies = 2 THEN twice
                                                            ELSE once)
    BY <1>3, <2>1, <2>2, <2>4, <2>6 DEF TheTooltip!PointerOut
  <2> QED BY <2>3, <2>5, <2>7, <2>8, TwiceLoad
<1> QED BY <1>2, <1>3

(***************************************************************************)
(* A click, which two instances of a confirmation handle.                  *)
(***************************************************************************)
LEMMA ClickOnLoad ==
    ASSUME Bounded(widget), TheTooltip!ClickOn
    PROVE  Bounded(widget')
<1>1. widget \in TipType
  BY DEF Bounded
<1>2. PICK once : once = TheTooltip!Click(widget)
  OBVIOUS
<1>3. once \in TipType /\ Load(once) <= Len(widget.waiting) + 1
  BY <1>1, <1>2, ClickLoad
<1>4. PICK twice : twice = TheTooltip!Click(once)
  OBVIOUS
<1>5. twice \in TipType /\ Load(twice) <= Len(once.waiting) + 1
  BY <1>3, <1>4, ClickLoad
<1>6. /\ TheTooltip!Ready
      /\ widget' = TheTooltip!Bound(IF widget.proxies = 2 THEN twice
                                                          ELSE once)
  BY <1>2, <1>4 DEF TheTooltip!ClickOn
<1> QED BY <1>1, <1>3, <1>5, <1>6, TwiceLoad

(***************************************************************************)
(* A timer that is cleared takes one away.                                 *)
(***************************************************************************)
LEMMA ClearedLoad ==
    ASSUME NEW t \in TipType
    PROVE  LET u == [t EXCEPT !.timeout = "none"] IN
           /\ u \in TipType /\ u.waiting = t.waiting
           /\ Load(u) = Len(t.waiting)
           /\ t.timeout # "none" => Load(t) = Load(u) + 1
<1>1. PICK u : u = [t EXCEPT !.timeout = "none"]
  OBVIOUS
<1>2. u \in TipType
  <2>1. "none" \in {"none", "show", "hide"}
    OBVIOUS
  <2> QED BY <1>1, <2>1, Zenon DEF TipType
<1>3. u.waiting = t.waiting /\ u.timeout = "none"
  BY <1>1, Zenon DEF TipType
<1>4. Load(u) = Len(t.waiting)
  BY <1>2, <1>3, LoadFacts
<1>5. t.timeout # "none" => Load(t) = Len(t.waiting) + 1
  BY DEF Load
<1> QED BY <1>1, <1>2, <1>3, <1>4, <1>5

(***************************************************************************)
(* The timer adds what it has made room for.                               *)
(***************************************************************************)
LEMMA TimeoutLoad ==
    ASSUME Bounded(widget), TheTooltip!Timeout
    PROVE  Bounded(widget')
<1>1. PICK t : t = [widget EXCEPT !.timeout = "none"]
  OBVIOUS
<1>2. t \in TipType /\ Load(widget) = Load(t) + 1
  BY <1>1, ClearedLoad DEF Bounded, TheTooltip!Timeout
<1>3. \/ widget' = TheTooltip!Show(t)
      \/ widget' = TheTooltip!Hide(t, "hidden")
      \/ widget' = t
  BY <1>1, Zenon DEF TheTooltip!Timeout
<1>4. widget' \in TipType /\ Load(widget') <= Load(t) + 1
  <2>1. CASE widget' = TheTooltip!Show(t)
    BY <1>2, <2>1, ShowGoes, ShowLoad
  <2>2. CASE widget' = TheTooltip!Hide(t, "hidden")
    <3>1. "hidden" \in TipCallbacks
      BY DEF TipCallbacks
    <3> QED BY <1>2, <2>2, <3>1, HideGoes, HideLoad
  <2>3. CASE widget' = t
    BY <1>2, <2>3, LoadFacts
  <2> QED BY <1>3, <2>1, <2>2, <2>3
<1>5. Load(widget) <= 2 * MaxTipWaiting
  BY DEF Bounded
<1>6. /\ Load(t) \in Nat /\ Load(widget') \in Nat
      /\ MaxTipWaiting \in Nat
  BY <1>2, <1>4, LoadFacts, PageAssumption
<1>7. Load(widget') <= 2 * MaxTipWaiting
  BY <1>2, <1>4, <1>5, <1>6
<1> QED BY <1>4, <1>7 DEF Bounded

(***************************************************************************)
(* A tip to whose callbacks the end of a transition has added one hide at  *)
(* most; if it is still out, none yet.                                     *)
(***************************************************************************)
OnceMore ==
    {t \in TipType : /\ Len(t.waiting) <= 1
                     /\ t.hoverState = "out" => Len(t.waiting) = 0}

(***************************************************************************)
(* While the callbacks of a transition run, one hide at most is added:     *)
(* complete calls leave only for a tip that is out, and sets hoverState    *)
(* back.                                                                   *)
(***************************************************************************)
LEMMA CompleteOnce ==
    ASSUME NEW t \in OnceMore, NEW callback \in TipCallbacks
    PROVE  TheTooltip!Complete(t, callback) \in OnceMore
<1>1. PICK u : u = TheTooltip!Complete(t, callback)
  OBVIOUS
<1>2. t \in TipType /\ u \in TipType
  BY <1>1, CompleteQuiet DEF OnceMore
<1>3. CASE callback = "shown"
  <2>1. ShownTo(t, u)
    BY <1>1, <1>2, <1>3, ShowDoneGoes DEF TheTooltip!Complete
  <2>2. CASE t.hoverState = "out" /\ t.inState = {}
    <3>1. LeavesTo(t, u) /\ Len(t.waiting) = 0
      BY <2>1, <2>2 DEF ShownTo, OnceMore
    <3>2. /\ t.opt.delayHide \in BOOLEAN /\ t.fade \in BOOLEAN
          /\ "hidden" \in TipCallbacks
      BY <1>2, TipOptions DEF TipType, TipCallbacks
    <3>3. \/ u.waiting = t.waiting
          \/ /\ u.hoverState = "null"
             /\ u.waiting = Append(t.waiting, "hidden")
      BY <2>2, <3>1, <3>2 DEF LeavesTo, SameScreen
    <3>4. Len(Append(t.waiting, "hidden")) = Len(t.waiting) + 1
      BY <1>2, <3>2, LoadFacts
    <3> QED BY <1>1, <1>2, <3>1, <3>3, <3>4 DEF OnceMore
  <2>3. CASE ~(t.hoverState = "out" /\ t.inState = {})
    <3>1. u.hoverState = "null" /\ u.waiting = t.waiting
      BY <2>1, <2>3 DEF ShownTo, SameScreen
    <3> QED BY <1>1, <1>2, <3>1 DEF OnceMore
  <2> QED BY <2>2, <2>3
<1>4. CASE callback # "shown"
  <2>1. u = TheTooltip!HideDone(t, callback)
    BY <1>1, <1>4 DEF TheTooltip!Complete
  <2>2. u.hoverState = t.hoverState /\ u.waiting = t.waiting
    BY <1>2, <2>1, HideDoneGoes
  <2> QED BY <1>1, <1>2, <2>2 DEF OnceMore
<1> QED BY <1>3, <1>4

(***************************************************************************)
(* The end of a transition.                                                *)
(***************************************************************************)
LEMMA TransitionEndLoad ==
    ASSUME Bounded(widget), TheTooltip!TransitionEnd
    PROVE  Bounded(widget')
<1>1. PICK t : t = [widget EXCEPT !.waiting = <<>>]
  OBVIOUS
<1>2. widget \in TipType
  BY DEF Bounded
<1>3. PICK q \in Seq(TipCallbacks) : q = widget.waiting
  BY <1>2 DEF TipType
<1>4. /\ q # <<>> /\ Len(q) \in Nat /\ Len(q) # 0
      /\ DOMAIN q = 1..Len(q)
      /\ \A i \in 1..Len(q) : q[i] \in TipCallbacks
  BY <1>3 DEF TheTooltip!TransitionEnd
<1>5. t \in TipType /\ t.waiting = <<>>
  <2>1. <<>> \in Seq(TipCallbacks)
    OBVIOUS
  <2> QED BY <1>1, <1>2, <2>1, Zenon DEF TipType
<1>6. t \in OnceMore
  <2>1. Len(t.waiting) = 0
    BY <1>5
  <2> QED BY <1>5, <2>1 DEF OnceMore
<1>7. \A s \in OnceMore, i \in 1..Len(q) :
          TheTooltip!Complete(s, q[i]) \in OnceMore
  BY <1>4, CompleteOnce
<1>8. TipRan(Len(q), OnceMore, t, q)
  BY <1>4, <1>6, <1>7, TipFold
<1>9. widget' = TheTooltip!FoldLeft(TheTooltip!Complete, t, q)
  BY <1>1, <1>3 DEF TheTooltip!TransitionEnd
<1>10. widget' \in OnceMore
  BY <1>8, <1>9 DEF TipRan
<1>11. /\ widget' \in TipType /\ Len(widget'.waiting) <= 1
  BY <1>10 DEF OnceMore
<1>12. MaxTipWaiting \in Nat /\ MaxTipWaiting # 0
  <2>1. Load(widget) <= 2 * MaxTipWaiting /\ Len(q) <= Load(widget)
        /\ Load(widget) \in Nat
    BY <1>2, <1>3, LoadFacts DEF Bounded
  <2> QED BY <1>4, <2>1, PageAssumption
<1>13. Load(widget') <= Len(widget'.waiting) + 1
       /\ Len(widget'.waiting) \in Nat /\ Load(widget') \in Nat
  BY <1>11, LoadFacts
<1>14. Load(widget') <= 2 * MaxTipWaiting
  BY <1>11, <1>12, <1>13
<1> QED BY <1>11, <1>14 DEF Bounded

(***************************************************************************)
(* The calls of the page's script.                                         *)
(***************************************************************************)
LEMMA ScriptLoad ==
    ASSUME Bounded(widget), TheTooltip!Script
    PROVE  Bounded(widget')
<1>1. /\ widget \in TipType /\ TheTooltip!Ready
      /\ Len(widget.waiting) \in Nat /\ Load(widget) \in Nat
      /\ Load(widget) <= Len(widget.waiting) + 1
  BY LoadFacts DEF Bounded, TheTooltip!Script
<1>2. SUFFICES widget' \in TipType /\ Load(widget') <= Load(widget) + 1
  <2>1. Load(widget') \in Nat
    BY LoadFacts
  <2>2. Load(widget') <= Len(widget.waiting) + 2
    BY <1>1, <2>1
  <2>3. PICK u \in TipType :
            u = widget' /\ Load(u) <= Len(widget.waiting) + 2
    BY <2>2
  <2>4. Bounded(u)
    BY <1>1, <2>3, HasRoom
  <2> QED BY <2>3, <2>4
<1>3. CASE widget' = TheTooltip!Toggle(widget)
  <2>1. \/ LeavesTo(widget, widget')
        \/ EntersTo(widget, widget')
    BY <1>1, <1>3, LeaveGoes, EnterGoes DEF TheTooltip!Toggle
  <2>2. widget' \in TipType /\ Load(widget') <= Len(widget.waiting) + 1
    BY <1>1, <2>1, LeaveLoad, EnterLoad
  <2>3. Len(widget.waiting) <= Load(widget) /\ Load(widget') \in Nat
    BY <1>1, <2>2, LoadFacts
  <2> QED BY <1>1, <2>2, <2>3
<1>4. CASE widget' = TheTooltip!Show(widget)
  BY <1>1, <1>4, ShowGoes, ShowLoad
<1>5. CASE widget' = TheTooltip!Hide(widget, "hidden")
  <2>1. "hidden" \in TipCallbacks
    BY DEF TipCallbacks
  <2> QED BY <1>1, <1>5, <2>1, HideGoes, HideLoad
<1>6. CASE widget' = [widget EXCEPT !.enabled = ~@]
  <2>1. PICK on \in BOOLEAN : on = ~widget.enabled
    OBVIOUS
  <2>2. PICK u : u = [widget EXCEPT !.enabled = on]
    OBVIOUS
  <2>3. u \in TipType
    BY <1>1, <2>2, Zenon DEF TipType
  <2>4. u.waiting = widget.waiting /\ u.timeout = widget.timeout
    BY <1>1, <2>2, Zenon DEF TipType
  <2>5. widget' = u
    BY <1>6, <2>1, <2>2
  <2>6. Load(u) = Load(widget)
    BY <2>4 DEF Load
  <2> QED BY <1>1, <2>3, <2>5, <2>6
<1>7. CASE widget' = TheTooltip!Destroy(widget)
  <2>1. PICK t : t = [widget EXCEPT !.timeout = "none"]
    OBVIOUS
  <2>2. t \in TipType /\ Load(t) = Len(widget.waiting)
    BY <1>1, <2>1, ClearedLoad
  <2>3. widget' = TheTooltip!Hide(t, "destroyed")
    BY <1>7, <2>1 DEF TheTooltip!Destroy
  <2>4. "destroyed" \in TipCallbacks
    BY DEF TipCallbacks
  <2>5. widget' \in TipType /\ Load(widget') <= Load(t) + 1
    BY <2>2, <2>3, <2>4, HideGoes, HideLoad
  <2>6. Len(widget.waiting) <= Load(widget) /\ Load(widget') \in Nat
    BY <1>1, <2>5, LoadFacts
  <2> QED BY <1>1, <2>2, <2>5, <2>6
<1> QED BY <1>3, <1>4, <1>5, <1>6, <1>7 DEF TheTooltip!Script

(***************************************************************************)
(* The bound holds always.                                                 *)
(***************************************************************************)
LEMMA LoadAlways == Spec => []LoadInv
<1>1. Init => LoadInv
  <2> SUFFICES ASSUME Init, kind = "tooltip" PROVE Bounded(widget)
    BY DEF LoadInv
  <2>1. PICK o \in TheTooltip!Options :
            widget = [opt |-> o, enabled |-> TRUE, inState |-> {},
                      hoverState |-> "null", timeout |-> "none",
                      proxies |-> 1, placed |-> FALSE, open |-> FALSE,
                      fade |-> FALSE, waiting |-> <<>>]
    BY DEF Init, TheTooltip!Init
  <2>2. <<>> \in Seq(TipCallbacks) /\ 1 \in 0..2
    OBVIOUS
  <2>3. widget \in TipType
    BY <2>1, <2>2 DEF TipType
  <2>4. widget.timeout = "none" /\ Len(widget.waiting) = 0
    BY <2>1
  <2>5. Load(widget) = 0
    BY <2>3, <2>4, LoadFacts
  <2> QED BY <2>3, <2>5, PageAssumption DEF Bounded
<1>2. LoadInv /\ [Next]_vars => LoadInv'
  <2> SUFFICES ASSUME LoadInv, [Next]_vars, kind' = "tooltip"
               PROVE  Bounded(widget')
    BY DEF LoadInv
  <2>1. Bounded(widget) /\ (TheTooltip!Next \/ widget' = widget)
    BY DEF Next, vars, LoadInv
  <2> QED BY <2>1, PointerLoad, ClickOnLoad, TimeoutLoad,
             TransitionEndLoad, ScriptLoad DEF TheTooltip!Next
<1> QED BY <1>1, <1>2, PTL DEF Spec

=============================================================================
