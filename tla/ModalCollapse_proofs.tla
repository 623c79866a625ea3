------------------------ MODULE ModalCollapse_proofs ------------------------
(***************************************************************************)
(* Theorems about the modal and the accordion of a page, for any numbers   *)
(* of backdrops, panels and callbacks. In both, callbacks that end         *)
(* together act on what the ones before them have left.  The last part     *)
(* puts the types of all widgets together.                                 *)
(***************************************************************************)
EXTENDS Page_proofs

-----------------------------------------------------------------------------
(***************************************************************************)
(* The modal: the callbacks of one transition, run one after another.      *)
(***************************************************************************)
Ends(n, b, q, x) ==
    /\ x[0] = b
    /\ \A m \in 1..n : x[m] = TheModal!Ended(x[m - 1], q[m])

(***************************************************************************)
(* A fold is the last of the states that the callbacks lead through.       *)
(***************************************************************************)
LEMMA ModalTrace ==
    ASSUME NEW n \in Nat, NEW b, NEW q, DOMAIN q = 1..n
    PROVE  \E x : /\ Ends(n, b, q, x)
                  /\ TheModal!FoldLeft(TheModal!Ended, b, q) = x[n]
<1> DEFINE Next1(g, T) ==
               IF T = {} THEN b
               ELSE TheModal!Ended(g[T \ {TheModal!Max(T)}],
                                   q[TheModal!Max(T)])
           IsFold(g, m) == g = [T \in SUBSET (1..m) |-> Next1(g, T)]
           h == CHOOSE g : g = [T \in SUBSET (DOMAIN q) |-> Next1(g, T)]
           H == {m \in Nat : m <= n => \E g : IsFold(g, m)}
<1>1. \A T : TheModal!Max(T) = Greatest(T)
  BY DEF TheModal!Max, Greatest
<1>2. 0 \in H
  <2>1. SUBSET (1..0) = {{}}
    OBVIOUS
  <2> DEFINE g == [T \in {{}} |-> b]
  <2>2. \A T \in SUBSET (1..0) : Next1(g, T) = b
    BY <2>1
  <2> HIDE DEF Next1
  <2>3. g = [T \in SUBSET (1..0) |-> Next1(g, T)]
    BY <2>1, <2>2
  <2>4. IsFold(g, 0)
    BY <2>3
  <2> HIDE DEF g, IsFold
  <2> QED BY <2>4
<1>3. ASSUME NEW m \in 0 .. n - 1, m \in H PROVE m + 1 \in H
  <2>1. m <= n /\ m \in Nat /\ m + 1 \in Nat
    OBVIOUS
  <2>2. PICK g : IsFold(g, m)
    <3> HIDE DEF IsFold
    <3> QED BY <1>3, <2>1
  <2> DEFINE new(T) == IF m + 1 \in T
                       THEN TheModal!Ended(g[T \ {m + 1}], q[m + 1])
                       ELSE g[T]
             k == [T \in SUBSET (1 .. m + 1) |-> new(T)]
  <2>3. ASSUME NEW T \in SUBSET (1 .. m + 1) PROVE k[T] = Next1(k, T)
    <3>1. CASE m + 1 \in T
      <4>1. Greatest(T) = m + 1
        <5>1. T # {}
          BY <3>1
        <5>2. Greatest(T) \in T /\ \A y \in T : Greatest(T) >= y
          <6> HIDE DEF k
          <6> QED BY <2>1, <5>1, GreatestIn
        <5>3. Greatest(T) \in 1 .. m + 1 /\ Greatest(T) >= m + 1
          BY <3>1, <5>2
        <5> QED BY <2>1, <5>3
      <4>2. T \ {m + 1} \in SUBSET (1..m) /\ m + 1 \notin T \ {m + 1}
        BY <2>1
      <4>3. T \ {m + 1} \in SUBSET (1 .. m + 1)
        OBVIOUS
      <4>4. k[T \ {m + 1}] = g[T \ {m + 1}]
        BY <4>2, <4>3
      <4>5. k[T] = TheModal!Ended(g[T \ {m + 1}], q[m + 1])
        BY <3>1
      <4>6. T # {}
        BY <3>1
      <4> HIDE DEF k
      <4> QED BY <1>1, <4>1, <4>4, <4>5, <4>6
    <3>2. CASE m + 1 \notin T
      <4>1. T \in SUBSET (1..m)
        BY <2>1, <3>2
      <4>2. g[T] = Next1(g, T)
        <5> HIDE DEF Next1
        <5> QED BY <2>2, <4>1
      <4>3. k[T] = g[T]
        BY <3>2
      <4>4. ASSUME T # {}
            PROVE  k[T \ {TheModal!Max(T)}] = g[T \ {TheModal!Max(T)}]
        <5>1. T \ {TheModal!Max(T)} \in SUBSET (1 .. m + 1)
          OBVIOUS
        <5>2. m + 1 \notin T \ {TheModal!Max(T)}
          BY <3>2
        <5> QED BY <5>1, <5>2
      <4> HIDE DEF k
      <4> QED BY <4>2, <4>3, <4>4
    <3> QED BY <3>1, <3>2
  <2>4. k = [T \in SUBSET (1 .. m + 1) |-> Next1(k, T)]
    <3>1. k = [T \in SUBSET (1 .. m + 1) |-> k[T]]
      OBVIOUS
    <3> HIDE DEF k, Next1
    <3> QED BY <2>3, <3>1
  <2>5. IsFold(k, m + 1)
    <3> HIDE DEF k, Next1
    <3> QED BY <2>4
  <2> HIDE DEF IsFold, k
  <2> QED BY <2>1, <2>5
<1>4. H \in SUBSET Nat
  OBVIOUS
<1>5. n \in H
  <2> HIDE DEF H
  <2> QED BY <1>2, <1>3, <1>4, UpTo
<1>6. h = [T \in SUBSET (1..n) |-> Next1(h, T)]
  <2>1. \E g : IsFold(g, n)
    <3>1. n <= n
      OBVIOUS
    <3> HIDE DEF IsFold
    <3> QED BY <1>5, <3>1
  <2>2. \E g : g = [T \in SUBSET (DOMAIN q) |-> Next1(g, T)]
    <3> HIDE DEF Next1
    <3> QED BY <2>1
  <2>3. h = [T \in SUBSET (DOMAIN q) |-> Next1(h, T)]
    <3> HIDE DEF Next1
    <3> QED BY <2>2
  <2> HIDE DEF h, Next1
  <2> QED BY <2>3
<1>7. TheModal!FoldLeft(TheModal!Ended, b, q) = h[1..n]
  BY DEF TheModal!FoldLeft, TheModal!MapThenFoldSet
<1> HIDE DEF h
<1>8. h[1..0] = b
  <2>1. 1..0 \in SUBSET (1..n) /\ 1..0 = {}
    OBVIOUS
  <2>2. h[1..0] = Next1(h, 1..0)
    <3> HIDE DEF Next1
    <3> QED BY <1>6, <2>1
  <2> QED BY <2>1, <2>2
<1>9. ASSUME NEW m \in 1..n
      PROVE  h[1..m] = TheModal!Ended(h[1 .. m - 1], q[m])
  <2>1. 1..m \in SUBSET (1..n) /\ 1..m # {} /\ m \in Nat /\ m # 0
    <3>1. m \in Nat /\ m # 0 /\ m <= n
      OBVIOUS
    <3>2. m \in 1..m
      BY <3>1
    <3>3. 1..m \in SUBSET (1..n)
      BY <3>1
    <3> QED BY <3>1, <3>2, <3>3
  <2>2. h[1..m] = Next1(h, 1..m)
    <3> HIDE DEF Next1
    <3> QED BY <1>6, <2>1
  <2>3. Greatest(1..m) = m /\ (1..m) \ {Greatest(1..m)} = 1 .. m - 1
    BY <2>1, GreatestUpTo
  <2> QED BY <1>1, <2>1, <2>2, <2>3
<1> DEFINE x == [m \in 0..n |-> h[1..m]]
<1>10. /\ x[0] = b /\ x[n] = h[1..n]
       /\ \A m \in 1..n : x[m] = TheModal!Ended(x[m - 1], q[m])
  <2>1. 0 \in 0..n /\ n \in 0..n
    OBVIOUS
  <2>2. \A m \in 1..n : m \in 0..n /\ m - 1 \in 0..n
    OBVIOUS
  <2>3. \A m \in 0..n : x[m] = h[1..m]
    OBVIOUS
  <2> HIDE DEF x
  <2> QED BY <1>8, <1>9, <2>1, <2>2, <2>3
<1> HIDE DEF x
<1> QED BY <1>7, <1>10 DEF Ends

(***************************************************************************)
(* The fold stays in sets of states that each callback leads from one to   *)
(* the next, and its last state comes from one in the last but one by the  *)
(* last callback.                                                          *)
(***************************************************************************)
ModalRan(n, W, b, q) ==
    LET r == TheModal!FoldLeft(TheModal!Ended, b, q)
    IN  /\ r \in W[n]
        /\ n = 0 => r = b
        /\ n # 0 => \E s \in W[n - 1] : r = TheModal!Ended(s, q[n])

(***************************************************************************)
(* The callbacks that end together lead from set to set.                   *)
(***************************************************************************)
LEMMA ModalFold ==
    ASSUME NEW n \in Nat, NEW q, DOMAIN q = 1..n, NEW W, NEW b \in W[0],
           \A m \in 1..n :
               \A s \in W[m - 1] : TheModal!Ended(s, q[m]) \in W[m]
    PROVE  ModalRan(n, W, b, q)
<1>1. PICK x : /\ Ends(n, b, q, x)
               /\ TheModal!FoldLeft(TheModal!Ended, b, q) = x[n]
  BY ModalTrace
<1> DEFINE H == {m \in Nat : m <= n => x[m] \in W[m]}
<1>2. 0 \in H
  BY <1>1 DEF Ends
<1>3. ASSUME NEW m \in 0 .. n - 1, m \in H PROVE m + 1 \in H
  <2>1. m + 1 \in 1..n /\ (m + 1) - 1 = m /\ x[m] \in W[m]
    BY <1>3
  <2>2. x[m + 1] = TheModal!Ended(x[m], q[m + 1])
    BY <1>1, <2>1 DEF Ends
  <2>3. x[m + 1] \in W[m + 1]
    BY <2>1, <2>2
  <2> QED BY <2>3
<1>4. H \in SUBSET Nat
  OBVIOUS
<1>5. ASSUME NEW m \in 0..n PROVE x[m] \in W[m]
  <2>1. m \in Nat /\ m <= n
    OBVIOUS
  <2>2. m \in H
    <3>1. \A k \in 0 .. m - 1 : k \in H => k + 1 \in H
      BY <1>3
    <3> HIDE DEF H
    <3> QED BY <1>2, <1>4, <2>1, <3>1, UpTo
  <2> QED BY <2>1, <2>2
<1>6. n # 0 => n \in 1..n /\ n - 1 \in 0..n
  OBVIOUS
<1> HIDE DEF H
<1> QED BY <1>1, <1>5, <1>6 DEF Ends, ModalRan

-----------------------------------------------------------------------------
(***************************************************************************)
(* The states of a modal.                                                  *)
(***************************************************************************)
ModalType ==
    [opt : TheModal!Options, isShown : BOOLEAN, backdrop : 0..MaxBackdrops,
     drops : SUBSET TheModal!Backdrops, display : BOOLEAN, open : BOOLEAN,
     body : BOOLEAN, padded : BOOLEAN, savedPad : BOOLEAN,
     dismiss : Nat, clicks : Nat, escape : Nat, resize : Nat, trap : BOOLEAN,
     mousedown : BOOLEAN, mouseups : Nat, ignoreBackdropClick : BOOLEAN,
     pressed : {"no", "dialog", "outside"},
     onElement : Seq({"hideModal"}), onDialog : Nat,
     onDrop : [TheModal!Backdrops -> Seq({"display", "hidden", "remove"})]]

(***************************************************************************)
(* What the callbacks of a modal leave alone.                              *)
(***************************************************************************)
Rest(m, u) ==
    /\ u \in ModalType
    /\ u.opt = m.opt /\ u.isShown = m.isShown /\ u.escape = m.escape
    /\ u.dismiss = m.dismiss
    /\ u.resize = m.resize /\ u.savedPad = m.savedPad
    /\ u.mousedown = m.mousedown /\ u.mouseups = m.mouseups
    /\ u.pressed = m.pressed /\ u.onElement = m.onElement

SameView(m, u) ==
    /\ u.display = m.display /\ u.open = m.open /\ u.trap = m.trap
    /\ u.body = m.body /\ u.padded = m.padded

SameDrop(m, u) ==
    /\ u.clicks = m.clicks /\ u.backdrop = m.backdrop
    /\ u.drops = m.drops /\ u.onDrop = m.onDrop

Displayed(m, u) ==
    /\ u.display /\ u.open /\ u.trap
    /\ u.body = m.body /\ u.padded = m.padded

HiddenAs(m, u) ==
    /\ ~u.body /\ u.padded = m.savedPad
    /\ u.display = m.display /\ u.open = m.open /\ u.trap = m.trap

Called(m, c, u) ==
    /\ c = "display" => Displayed(m, u)
    /\ c = "hidden" => HiddenAs(m, u)

(***************************************************************************)
(* The callback of show: the dialog is on the screen.                      *)
(***************************************************************************)
LEMMA DisplayGoes ==
    ASSUME NEW m \in ModalType
    PROVE  LET u == TheModal!Display(m) IN
           Rest(m, u) /\ SameDrop(m, u) /\ Displayed(m, u)
<1>1. PICK d \in Nat : d = IF m.opt.fade THEN m.onDialog + 1 ELSE m.onDialog
  BY DEF ModalType
<1>2. PICK u : u = [m EXCEPT !.display = TRUE, !.open = TRUE, !.trap = TRUE,
                             !.onDialog = d]
  OBVIOUS
<1>3. u = TheModal!Display(m)
  BY <1>1, <1>2 DEF TheModal!Display
<1>4. u \in ModalType
  BY <1>2, Zenon DEF ModalType
<1>5. Rest(m, u)
  BY <1>2, <1>4, Zenon DEF ModalType, Rest
<1>6. SameDrop(m, u) /\ Displayed(m, u)
  BY <1>2, Zenon DEF ModalType, SameDrop, Displayed
<1> QED BY <1>3, <1>5, <1>6

(***************************************************************************)
(* The callback of hideModal: the body is as it was.                       *)
(***************************************************************************)
LEMMA HiddenGoes ==
    ASSUME NEW m \in ModalType
    PROVE  LET u == TheModal!Hidden(m) IN
           Rest(m, u) /\ SameDrop(m, u) /\ HiddenAs(m, u)
<1>1. PICK u : u = [m EXCEPT !.body = FALSE, !.padded = m.savedPad]
  OBVIOUS
<1>2. u = TheModal!Hidden(m)
  BY <1>1 DEF TheModal!Hidden
<1>3. u \in ModalType
  <2>1. m.savedPad \in BOOLEAN
    BY Zenon DEF ModalType
  <2> QED BY <1>1, <2>1, Zenon DEF ModalType
<1>4. Rest(m, u)
  BY <1>1, <1>3, Zenon DEF ModalType, Rest
<1>5. SameDrop(m, u) /\ HiddenAs(m, u)
  BY <1>1, Zenon DEF ModalType, SameDrop, HiddenAs
<1> QED BY <1>2, <1>4, <1>5

(***************************************************************************)
(* callbackRemove takes the backdrop away with what waits on it.           *)
(***************************************************************************)
Removed(m, u) ==
    /\ u.clicks = m.clicks /\ u.backdrop = 0
    /\ u.drops = m.drops \ {m.backdrop}
    /\ u.onDrop = [m.onDrop EXCEPT ![m.backdrop] = <<>>]

(***************************************************************************)
(* callbackRemove does that, whether there is a backdrop or not.           *)
(***************************************************************************)
LEMMA RemoveGoes ==
    ASSUME NEW m \in ModalType
    PROVE  LET u == TheModal!CallbackRemove(m) IN
           Rest(m, u) /\ HiddenAs(m, u) /\ Removed(m, u)
<1>1. PICK u : u = TheModal!CallbackRemove(m)
  OBVIOUS
<1>2. CASE m.backdrop = 0
  <2>1. u = TheModal!Hidden(m)
    BY <1>1, <1>2 DEF TheModal!CallbackRemove
  <2>2. /\ m.drops \ {m.backdrop} = m.drops
        /\ [m.onDrop EXCEPT ![m.backdrop] = <<>>] = m.onDrop
    <3>1. 0 \notin TheModal!Backdrops
      BY DEF TheModal!Backdrops
    <3>2. /\ m.drops \in SUBSET TheModal!Backdrops
          /\ m.onDrop \in [TheModal!Backdrops ->
                             Seq({"display", "hidden", "remove"})]
      BY Zenon DEF ModalType
    <3> QED BY <1>2, <3>1, <3>2
  <2> QED BY <1>1, <1>2, <2>1, <2>2, HiddenGoes DEF Removed, SameDrop
<1>3. CASE m.backdrop # 0
  <2>1. PICK drops : drops = m.drops \ {m.backdrop}
    OBVIOUS
  <2>2. PICK wait : wait = [m.onDrop EXCEPT ![m.backdrop] = <<>>]
    OBVIOUS
  <2>3. PICK v : v = [m EXCEPT !.drops = drops, !.backdrop = 0,
                               !.onDrop = wait]
    OBVIOUS
  <2>4. u = TheModal!Hidden(v)
    BY <1>1, <1>3, <2>1, <2>2, <2>3 DEF TheModal!CallbackRemove
  <2>5. v \in ModalType
    <3>1. /\ m.drops \in SUBSET TheModal!Backdrops
          /\ m.onDrop \in [TheModal!Backdrops ->
                             Seq({"display", "hidden", "remove"})]
      BY Zenon DEF ModalType
    <3>2. <<>> \in Seq({"display", "hidden", "remove"})
      OBVIOUS
    <3>3. /\ drops \in SUBSET TheModal!Backdrops
          /\ wait \in [TheModal!Backdrops ->
                         Seq({"display", "hidden", "remove"})]
      BY <2>1, <2>2, <3>1, <3>2, Zenon
    <3>4. 0 \in 0..MaxBackdrops
      BY PageAssumption
    <3> QED BY <2>3, <3>3, <3>4, Zenon DEF ModalType
  <2>6. /\ Rest(m, v) /\ SameView(m, v)
        /\ v.clicks = m.clicks /\ v.drops = drops /\ v.backdrop = 0
        /\ v.onDrop = wait
    BY <2>3, <2>5, Zenon DEF ModalType, Rest, SameView
  <2>7. Rest(v, u) /\ SameDrop(v, u) /\ HiddenAs(v, u)
    BY <2>4, <2>5, HiddenGoes
  <2>8. Rest(m, u)
    BY <2>6, <2>7, Zenon DEF Rest
  <2>9. HiddenAs(m, u)
    BY <2>6, <2>7, Zenon DEF HiddenAs, SameView, Rest
  <2> QED BY <1>1, <2>1, <2>2, <2>6, <2>7, <2>8, <2>9, Zenon
          DEF SameDrop, Removed
<1> QED BY <1>2, <1>3

(***************************************************************************)
(* While fewer backdrops than there may be are in the document, there is   *)
(* one that is not.                                                        *)
(***************************************************************************)
LEMMA FreeBackdrop ==
    ASSUME NEW T \in SUBSET TheModal!Backdrops,
           Cardinality(T) < MaxBackdrops
    PROVE  /\ \E b \in TheModal!Backdrops : b \notin T
           /\ \A b \in TheModal!Backdrops :
                 b \notin T => Cardinality(T \cup {b}) = Cardinality(T) + 1
<1>1. TheModal!Backdrops = 1..MaxBackdrops /\ MaxBackdrops \in Nat
  BY PageAssumption DEF TheModal!Backdrops
<1>2. /\ IsFiniteSet(1..MaxBackdrops)
      /\ Cardinality(1..MaxBackdrops) = MaxBackdrops
  <2>1. 1 \in Int /\ MaxBackdrops \in Int
    BY <1>1
  <2> QED BY <1>1, <2>1, FS_Interval
<1>3. IsFiniteSet(T)
  BY <1>1, <1>2, FS_Subset
<1>4. \E b \in TheModal!Backdrops : b \notin T
  <2> SUFFICES ASSUME \A b \in TheModal!Backdrops : b \in T PROVE FALSE
    OBVIOUS
  <2>1. T = 1..MaxBackdrops
    BY <1>1
  <2> QED BY <1>1, <1>2, <2>1
<1>5. ASSUME NEW b \in TheModal!Backdrops, b \notin T
      PROVE  Cardinality(T \cup {b}) = Cardinality(T) + 1
  BY <1>3, <1>5, FS_AddElement
<1> QED BY <1>4, <1>5

(***************************************************************************)
(* backdrop of a shown modal puts one into the document, and its callback  *)
(* waits or runs.                                                          *)
(***************************************************************************)
Covers(m, c, b, u) ==
    /\ Rest(m, u) /\ u.clicks = m.clicks + 1 /\ u.backdrop = b
    /\ u.drops = m.drops \cup {b}
    /\ m.opt.fade => /\ SameView(m, u)
                     /\ u.onDrop = [m.onDrop EXCEPT ![b] = <<c>>]
    /\ ~m.opt.fade => u.onDrop = m.onDrop /\ Called(m, c, u)

(***************************************************************************)
(* backdrop does that for a modal that is shown and wants one.             *)
(***************************************************************************)
LEMMA BackdropCovers ==
    ASSUME NEW m \in ModalType, m.isShown, m.opt.backdrop # "false",
           Cardinality(m.drops) < MaxBackdrops,
           NEW c \in {"display", "hidden"}
    PROVE  \E b \in TheModal!Backdrops :
               b \notin m.drops /\ Covers(m, c, b, TheModal!Backdrop(m, c))
<1>1. /\ m.drops \in SUBSET TheModal!Backdrops /\ m.clicks \in Nat
      /\ m.onDrop \in [TheModal!Backdrops ->
                         Seq({"display", "hidden", "remove"})]
  BY Zenon DEF ModalType
<1>2. PICK b : b = CHOOSE d \in TheModal!Backdrops : d \notin m.drops
  OBVIOUS
<1>3. b \in TheModal!Backdrops /\ b \notin m.drops
  <2>1. \E d \in TheModal!Backdrops : d \notin m.drops
    BY <1>1, FreeBackdrop
  <2> QED BY <1>2, <2>1
<1>4. PICK drops : drops = m.drops \cup {b}
  OBVIOUS
<1>5. PICK clicks \in Nat : clicks = m.clicks + 1
  BY <1>1
<1>6. PICK v : v = [m EXCEPT !.drops = drops, !.backdrop = b,
                             !.clicks = clicks]
  OBVIOUS
<1>7. v \in ModalType
  <2>1. drops \in SUBSET TheModal!Backdrops
    BY <1>1, <1>3, <1>4
  <2>2. b \in 0..MaxBackdrops
    BY <1>3, PageAssumption DEF TheModal!Backdrops
  <2> QED BY <1>6, <2>1, <2>2, Zenon DEF ModalType
<1>8. /\ Rest(m, v) /\ SameView(m, v)
      /\ v.clicks = clicks /\ v.drops = drops /\ v.backdrop = b
      /\ v.onDrop = m.onDrop
  BY <1>6, <1>7, Zenon DEF ModalType, Rest, SameView
<1>9. PICK u : u = TheModal!Backdrop(m, c)
  OBVIOUS
<1>10. u = IF m.opt.fade
           THEN [v EXCEPT !.onDrop[b] = TheModal!Wait(<<>>, c)]
           ELSE TheModal!Call(v, c)
  <2> DEFINE free == CHOOSE d \in TheModal!Backdrops : d \notin m.drops
             covered == [m EXCEPT !.drops = @ \cup {free},
                                  !.backdrop = free, !.clicks = @ + 1]
  <2>1. u = IF m.opt.fade
            THEN [covered EXCEPT !.onDrop[free] = TheModal!Wait(<<>>, c)]
            ELSE TheModal!Call(covered, c)
    BY <1>9 DEF TheModal!Backdrop
  <2>2. b = free
    BY <1>2
  <2> HIDE DEF free
  <2>3. v = covered
    BY <1>4, <1>5, <1>6, <2>2, Zenon
  <2> HIDE DEF covered
  <2> QED BY <2>1, <2>2, <2>3, Zenon
<1>11. CASE m.opt.fade
  <2>1. PICK wait : wait = [m.onDrop EXCEPT ![b] = <<c>>]
    OBVIOUS
  <2>2. wait \in [TheModal!Backdrops -> Seq({"display", "hidden", "remove"})]
    <3>1. <<c>> \in Seq({"display", "hidden", "remove"})
      OBVIOUS
    <3> QED BY <1>1, <2>1, <3>1, Zenon
  <2>3. u = [v EXCEPT !.onDrop = wait]
    <3>1. TheModal!Wait(<<>>, c) = <<c>>
      BY DEF TheModal!Wait
    <3>2. u = [v EXCEPT !.onDrop[b] = <<c>>]
      BY <1>10, <1>11, <3>1, Zenon
    <3>3. u = [v EXCEPT !.onDrop = [v.onDrop EXCEPT ![b] = <<c>>]]
      BY <3>2
    <3> QED BY <1>8, <2>1, <3>3, Zenon
  <2>4. u \in ModalType
    BY <1>7, <2>2, <2>3, Zenon DEF ModalType
  <2>5. /\ Rest(v, u) /\ SameView(v, u)
        /\ u.clicks = clicks /\ u.drops = drops /\ u.backdrop = b
        /\ u.onDrop = wait
    BY <1>7, <1>8, <2>3, <2>4, Zenon DEF ModalType, Rest, SameView
  <2>6. Rest(m, u) /\ SameView(m, u)
    BY <1>8, <2>5, Zenon DEF Rest, SameView
  <2> QED BY <1>3, <1>4, <1>5, <1>9, <1>11, <2>1, <2>5, <2>6, Zenon
          DEF Covers
<1>12. CASE ~m.opt.fade
  <2>1. /\ Rest(v, u) /\ SameDrop(v, u) /\ Called(v, c, u)
    <3>1. CASE c = "display"
      <4>1. u = TheModal!Display(v)
        BY <1>10, <1>12, <3>1 DEF TheModal!Call
      <4> QED BY <1>7, <3>1, <4>1, DisplayGoes DEF Called
    <3>2. CASE c = "hidden"
      <4>1. u = TheModal!Hidden(v)
        BY <1>10, <1>12, <3>2 DEF TheModal!Call
      <4> QED BY <1>7, <3>2, <4>1, HiddenGoes DEF Called
    <3> QED BY <3>1, <3>2
  <2>2. Rest(m, u)
    BY <1>8, <2>1, Zenon DEF Rest
  <2>3. Called(m, c, u)
    BY <1>8, <2>1, Zenon
       DEF Called, Displayed, HiddenAs, SameView, Rest
  <2> QED BY <1>3, <1>4, <1>5, <1>8, <1>9, <1>12, <2>1, <2>2, <2>3, Zenon
          DEF Covers, SameDrop
<1> QED BY <1>11, <1>12

(***************************************************************************)
(* backdrop of a modal that is not shown any more: the backdrop leaves, at *)
(* once or after its transition.                                           *)
(***************************************************************************)
Uncovers(m, u) ==
    /\ Rest(m, u)
    /\ m.opt.fade =>
          /\ SameView(m, u) /\ u.clicks = m.clicks
          /\ u.drops = m.drops /\ u.backdrop = m.backdrop
          /\ u.onDrop = [m.onDrop EXCEPT ![m.backdrop] =
                           Append(m.onDrop[m.backdrop], "remove")]
    /\ ~m.opt.fade => HiddenAs(m, u) /\ Removed(m, u)

(***************************************************************************)
(* backdrop does that for a modal that has one and is not shown.           *)
(***************************************************************************)
LEMMA BackdropLeaves ==
    ASSUME NEW m \in ModalType, ~m.isShown, m.backdrop # 0, NEW c
    PROVE  Uncovers(m, TheModal!Backdrop(m, c))
<1>1. PICK u : u = TheModal!Backdrop(m, c)
  OBVIOUS
<1>2. u = IF m.opt.fade
          THEN [m EXCEPT !.onDrop[m.backdrop] = TheModal!Wait(@, "remove")]
          ELSE TheModal!CallbackRemove(m)
  BY <1>1 DEF TheModal!Backdrop
<1>3. CASE m.opt.fade
  <2>1. /\ m.backdrop \in TheModal!Backdrops
        /\ m.onDrop \in [TheModal!Backdrops ->
                           Seq({"display", "hidden", "remove"})]
    <3>1. /\ m.backdrop \in 0..MaxBackdrops
          /\ m.onDrop \in [TheModal!Backdrops ->
                             Seq({"display", "hidden", "remove"})]
      BY Zenon DEF ModalType
    <3> QED BY <3>1, PageAssumption DEF TheModal!Backdrops
  <2>2. PICK q \in Seq({"display", "hidden", "remove"}) :
            q = Append(m.onDrop[m.backdrop], "remove")
    <3>1. PICK old \in Seq({"display", "hidden", "remove"}) :
              old = m.onDrop[m.backdrop]
      BY <2>1, Zenon
    <3>2. Append(old, "remove") \in Seq({"display", "hidden", "remove"})
      OBVIOUS
    <3> QED BY <3>1, <3>2, Zenon
  <2>3. PICK wait : wait = [m.onDrop EXCEPT ![m.backdrop] = q]
    OBVIOUS
  <2>4. wait \in [TheModal!Backdrops -> Seq({"display", "hidden", "remove"})]
    BY <2>1, <2>3, Zenon
  <2>5. u = [m EXCEPT !.onDrop = wait]
    <3>1. u = [m EXCEPT !.onDrop[m.backdrop] =
                          TheModal!Wait(m.onDrop[m.backdrop], "remove")]
      BY <1>2, <1>3, Zenon
    <3>2. TheModal!Wait(m.onDrop[m.backdrop], "remove") = q
      BY <2>2 DEF TheModal!Wait
    <3>3. u = [m EXCEPT !.onDrop[m.backdrop] = q]
      BY <3>1, <3>2, Zenon
    <3>4. u = [m EXCEPT !.onDrop = [m.onDrop EXCEPT ![m.backdrop] = q]]
      BY <3>3
    <3> QED BY <2>3, <3>4, Zenon
  <2>6. u \in ModalType
    BY <2>4, <2>5, Zenon DEF ModalType
  <2>7. /\ Rest(m, u) /\ SameView(m, u) /\ u.clicks = m.clicks
        /\ u.drops = m.drops /\ u.backdrop = m.backdrop /\ u.onDrop = wait
    BY <2>5, <2>6, Zenon DEF ModalType, Rest, SameView
  <2> QED BY <1>1, <1>3, <2>2, <2>3, <2>7, Zenon DEF Uncovers
<1>4. CASE ~m.opt.fade
  BY <1>1, <1>2, <1>4, RemoveGoes DEF Uncovers
<1> QED BY <1>3, <1>4

(***************************************************************************)
(* backdrop in the cases that are left: its callback runs.                 *)
(***************************************************************************)
LEMMA BackdropCalls ==
    ASSUME NEW m \in ModalType, NEW c \in {"display", "hidden"},
           m.isShown => m.opt.backdrop = "false",
           ~m.isShown => m.backdrop = 0
    PROVE  LET u == TheModal!Backdrop(m, c) IN
           Rest(m, u) /\ SameDrop(m, u) /\ Called(m, c, u)
<1>1. TheModal!Backdrop(m, c) = TheModal!Call(m, c)
  BY DEF TheModal!Backdrop
<1>2. CASE c = "display"
  BY <1>1, <1>2, DisplayGoes DEF TheModal!Call, Called
<1>3. CASE c = "hidden"
  BY <1>1, <1>3, HiddenGoes DEF TheModal!Call, Called
<1> QED BY <1>2, <1>3

(***************************************************************************)
(* The backdrops in the document are finitely many.                        *)
(***************************************************************************)
LEMMA DropsCount ==
    ASSUME NEW T \in SUBSET TheModal!Backdrops
    PROVE  /\ Cardinality(T) \in Nat
           /\ \A S \in SUBSET T : Cardinality(S) <= Cardinality(T)
<1>1. TheModal!Backdrops = 1..MaxBackdrops /\ 1 \in Int
      /\ MaxBackdrops \in Int
  BY PageAssumption DEF TheModal!Backdrops
<1>2. IsFiniteSet(1..MaxBackdrops)
  BY <1>1, FS_Interval
<1>3. IsFiniteSet(T)
  BY <1>1, <1>2, FS_Subset
<1> QED BY <1>3, FS_CardinalityType, FS_Subset

(***************************************************************************)
(* hideModal of a modal that is not shown any more.                        *)
(***************************************************************************)
Dimmed(m, v) ==
    /\ Rest(m, v) /\ SameDrop(m, v)
    /\ ~v.display /\ v.open = m.open /\ v.trap = m.trap
    /\ v.body = m.body /\ v.padded = m.padded

(***************************************************************************)
(* The element is taken off the screen first.                              *)
(***************************************************************************)
LEMMA DimGoes ==
    ASSUME NEW m \in ModalType
    PROVE  Dimmed(m, [m EXCEPT !.display = FALSE])
<1>1. PICK v : v = [m EXCEPT !.display = FALSE]
  OBVIOUS
<1>2. v \in ModalType
  BY <1>1, Zenon DEF ModalType
<1>3. Rest(m, v)
  BY <1>1, <1>2, Zenon DEF ModalType, Rest
<1>4. SameDrop(m, v)
  BY <1>1, Zenon DEF ModalType, SameDrop
<1>5. /\ ~v.display /\ v.open = m.open /\ v.trap = m.trap
      /\ v.body = m.body /\ v.padded = m.padded
  BY <1>1, Zenon DEF ModalType
<1> QED BY <1>1, <1>3, <1>4, <1>5, Zenon DEF Dimmed

HideModalTo(m, u) ==
    \E v \in ModalType :
        /\ Dimmed(m, v)
        /\ m.backdrop # 0 => Uncovers(v, u)
        /\ m.backdrop = 0 => Rest(v, u) /\ SameDrop(v, u) /\ HiddenAs(v, u)

(***************************************************************************)
(* hideModal of a modal that is not shown does that.                       *)
(***************************************************************************)
LEMMA HideModalShut ==
    ASSUME NEW m \in ModalType, ~m.isShown
    PROVE  HideModalTo(m, TheModal!HideModal(m))
<1>1. PICK v : v = [m EXCEPT !.display = FALSE]
  OBVIOUS
<1>2. Dimmed(m, v) /\ v \in ModalType /\ ~v.isShown
      /\ v.backdrop = m.backdrop
  BY <1>1, DimGoes DEF Dimmed, Rest, SameDrop
<1>3. TheModal!HideModal(m) = TheModal!Backdrop(v, "hidden")
  BY <1>1 DEF TheModal!HideModal
<1>4. CASE m.backdrop # 0
  BY <1>2, <1>3, <1>4, BackdropLeaves DEF HideModalTo
<1>5. CASE m.backdrop = 0
  <2>1. LET u == TheModal!Backdrop(v, "hidden") IN
        Rest(v, u) /\ SameDrop(v, u) /\ Called(v, "hidden", u)
    BY <1>2, <1>5, BackdropCalls
  <2> QED BY <1>2, <1>3, <1>5, <2>1 DEF HideModalTo, Called
<1> QED BY <1>4, <1>5

(***************************************************************************)
(* hideModal of a modal that has been shown again: it may put another      *)
(* backdrop into the document.                                             *)
(***************************************************************************)
LEMMA HideModalShown ==
    ASSUME NEW m \in ModalType, m.isShown,
           Cardinality(m.drops) < MaxBackdrops
    PROVE  LET u == TheModal!HideModal(m) IN
           Rest(m, u) /\ Cardinality(u.drops) <= Cardinality(m.drops) + 1
<1>1. PICK v : v = [m EXCEPT !.display = FALSE]
  OBVIOUS
<1>2. /\ Rest(m, v) /\ v \in ModalType /\ v.isShown /\ v.drops = m.drops
      /\ v.opt = m.opt
  BY <1>1, DimGoes DEF Dimmed, Rest, SameDrop
<1>3. PICK u : u = TheModal!HideModal(m)
  OBVIOUS
<1>4. u = TheModal!Backdrop(v, "hidden")
  BY <1>1, <1>3 DEF TheModal!HideModal
<1>5. m.drops \in SUBSET TheModal!Backdrops
  BY Zenon DEF ModalType
<1>6. Rest(v, u) /\ Cardinality(u.drops) <= Cardinality(m.drops) + 1
  <2>1. CASE m.opt.backdrop # "false"
    <3>1. PICK b \in TheModal!Backdrops :
              b \notin v.drops /\ Covers(v, "hidden", b, u)
      BY <1>2, <1>4, <2>1, BackdropCovers
    <3>2. Cardinality(m.drops \cup {b}) = Cardinality(m.drops) + 1
      BY <1>2, <1>5, <3>1, FreeBackdrop
    <3>3. Cardinality(m.drops) \in Nat
      BY <1>5, DropsCount
    <3> QED BY <1>2, <3>1, <3>2, <3>3 DEF Covers
  <2>2. CASE m.opt.backdrop = "false"
    <3>1. Rest(v, u) /\ SameDrop(v, u)
      BY <1>2, <1>4, <2>2, BackdropCalls
    <3>2. Cardinality(m.drops) \in Nat
      BY <1>5, DropsCount
    <3> QED BY <1>2, <3>1, <3>2 DEF SameDrop
  <2> QED BY <2>1, <2>2
<1>7. Rest(m, u)
  BY <1>2, <1>6, Zenon DEF Rest
<1> QED BY <1>3, <1>6, <1>7

-----------------------------------------------------------------------------
(***************************************************************************)
(* Handlers are bound only while the modal is shown, the one of mousedown  *)
(* then always.                                                            *)
(***************************************************************************)
Handlers(m) ==
    /\ ~m.isShown => m.dismiss = 0 /\ m.clicks = 0 /\ m.escape = 0
    /\ m.isShown => m.mousedown

(***************************************************************************)
(* On a page that waits a shown modal has one handler of a click on it at  *)
(* most, and a button that went down in the dialog has set one of mouseup. *)
(***************************************************************************)
Guarded(m) ==
    m.isShown => m.clicks <= 1 /\ (m.pressed = "dialog" => m.mouseups > 0)

(***************************************************************************)
(* The modal has left the page, or its backdrop will take it away: the     *)
(* last callback that waits on it is callbackRemove.                       *)
(***************************************************************************)
Away(m) == ~m.body /\ m.backdrop = 0

Removes(q) == Len(q) # 0 /\ q[Len(q)] = "remove"

Going(m) == m.backdrop # 0 /\ Removes(m.onDrop[m.backdrop])

Freed(m) == m.isShown \/ m.onElement # <<>> \/ Going(m) \/ Away(m)

(***************************************************************************)
(* The backdrops there may be, also when what waits on the element of a    *)
(* shown modal has put more of them into the document.                     *)
(***************************************************************************)
Fits(m) ==
    /\ Cardinality(m.drops) <= MaxBackdrops
    /\ m.isShown => Cardinality(m.drops) + Len(m.onElement) <= MaxBackdrops

ModalStates ==
    {m \in ModalType : Handlers(m) /\ Freed(m) /\ Fits(m)}

(***************************************************************************)
(* What the phases of a modal on a page that waits are about.              *)
(***************************************************************************)
SamePhase(m, u) ==
    /\ u.opt = m.opt /\ u.isShown = m.isShown /\ u.resize = m.resize
    /\ u.display = m.display /\ u.open = m.open /\ u.trap = m.trap
    /\ u.body = m.body /\ u.padded = m.padded /\ u.savedPad = m.savedPad
    /\ u.backdrop = m.backdrop /\ u.drops = m.drops
    /\ u.onElement = m.onElement /\ u.onDrop = m.onDrop

(***************************************************************************)
(* hideModal sees to it that the modal leaves.                             *)
(***************************************************************************)
LEMMA HidesAway ==
    ASSUME NEW m \in ModalType, ~m.isShown, NEW u, HideModalTo(m, u)
    PROVE  /\ Rest(m, u) /\ u.clicks = m.clicks /\ u.drops \subseteq m.drops
           /\ Going(u) \/ Away(u)
<1>1. PICK v \in ModalType :
          /\ Dimmed(m, v)
          /\ m.backdrop # 0 => Uncovers(v, u)
          /\ m.backdrop = 0 => /\ Rest(v, u) /\ SameDrop(v, u)
                               /\ HiddenAs(v, u)
  BY DEF HideModalTo
<1>2. /\ Rest(m, v) /\ v.clicks = m.clicks /\ v.drops = m.drops
      /\ v.backdrop = m.backdrop /\ v.onDrop = m.onDrop
  BY <1>1 DEF Dimmed, SameDrop
<1>3. Rest(v, u)
  BY <1>1 DEF Uncovers
<1>4. Rest(m, u)
  BY <1>2, <1>3, Zenon DEF Rest
<1>5. CASE m.backdrop = 0
  BY <1>1, <1>2, <1>4, <1>5 DEF SameDrop, HiddenAs, Away
<1>6. CASE m.backdrop # 0 /\ ~v.opt.fade
  BY <1>1, <1>2, <1>4, <1>6 DEF Uncovers, Removed, HiddenAs, Away
<1>7. CASE m.backdrop # 0 /\ v.opt.fade
  <2>1. /\ v.backdrop \in TheModal!Backdrops
        /\ v.onDrop \in [TheModal!Backdrops ->
                           Seq({"display", "hidden", "remove"})]
    <3>1. /\ v.backdrop \in 0..MaxBackdrops
          /\ v.onDrop \in [TheModal!Backdrops ->
                             Seq({"display", "hidden", "remove"})]
      BY Zenon DEF ModalType
    <3> QED BY <1>2, <1>7, <3>1, PageAssumption DEF TheModal!Backdrops
  <2>2. PICK q \in Seq({"display", "hidden", "remove"}) :
            q = v.onDrop[v.backdrop]
    BY <2>1, Zenon
  <2>3. /\ u.clicks = v.clicks /\ u.drops = v.drops
        /\ u.backdrop = v.backdrop
        /\ u.onDrop = [v.onDrop EXCEPT ![v.backdrop] = Append(q, "remove")]
    BY <1>1, <1>7, <2>2 DEF Uncovers
  <2>4. u.onDrop[u.backdrop] = Append(q, "remove")
    BY <2>1, <2>3
  <2>5. Removes(Append(q, "remove"))
    BY DEF Removes
  <2>6. Going(u)
    BY <1>2, <1>7, <2>3, <2>4, <2>5 DEF Going
  <2> QED BY <1>2, <1>4, <2>3, <2>6
<1> QED BY <1>5, <1>6, <1>7

(***************************************************************************)
(* What waits on a backdrop and ends.                                      *)
(***************************************************************************)
LEMMA DropEnded ==
    ASSUME NEW m \in ModalType, NEW c \in {"display", "hidden", "remove"}
    PROVE  LET u == TheModal!Ended(m, c) IN
           /\ Rest(m, u) /\ u.clicks = m.clicks /\ u.drops \subseteq m.drops
           /\ Away(m) => Away(u)
           /\ Going(m) => Going(u) \/ Away(u)
           /\ c = "remove" => Away(u)
<1>1. PICK u : u = TheModal!Ended(m, c)
  OBVIOUS
<1>2. CASE c = "display"
  <2>1. u = TheModal!Display(m)
    BY <1>1, <1>2 DEF TheModal!Ended
  <2>2. Rest(m, u) /\ SameDrop(m, u) /\ Displayed(m, u)
    BY <2>1, DisplayGoes
  <2> QED BY <1>1, <1>2, <2>2 DEF SameDrop, Displayed, Going, Away
<1>3. CASE c = "hidden"
  <2>1. u = TheModal!Hidden(m)
    BY <1>1, <1>3 DEF TheModal!Ended
  <2>2. Rest(m, u) /\ SameDrop(m, u) /\ HiddenAs(m, u)
    BY <2>1, HiddenGoes
  <2> QED BY <1>1, <1>3, <2>2 DEF SameDrop, HiddenAs, Going, Away
<1>4. CASE c = "remove"
  <2>1. u = TheModal!CallbackRemove(m)
    BY <1>1, <1>4 DEF TheModal!Ended
  <2>2. Rest(m, u) /\ HiddenAs(m, u) /\ Removed(m, u)
    BY <2>1, RemoveGoes
  <2> QED BY <1>1, <1>4, <2>2 DEF HiddenAs, Removed, Away
<1> QED BY <1>2, <1>3, <1>4

(***************************************************************************)
(* The end of the transition of the element.                               *)
(***************************************************************************)
LEMMA EndElementStep ==
    ASSUME widget \in ModalStates, TheModal!EndElement
    PROVE  /\ widget' \in ModalStates
           /\ widget'.pressed = widget.pressed /\ widget'.opt = widget.opt
           /\ widget'.isShown = widget.isShown
<1>1. PICK m : m = [widget EXCEPT !.onElement = <<>>]
  OBVIOUS
<1>2. PICK q \in Seq({"hideModal"}) : q = widget.onElement
  BY Zenon DEF ModalStates, ModalType
<1>3. widget' = TheModal!FoldLeft(TheModal!Ended, m, q)
  BY <1>1, <1>2 DEF TheModal!EndElement
<1>4. PICK n \in Nat : n = Len(q) /\ DOMAIN q = 1..n
  OBVIOUS
<1>5. n # 0 /\ \A i \in 1..n : q[i] = "hideModal"
  <2>1. q # <<>>
    BY <1>2 DEF TheModal!EndElement
  <2> QED BY <1>4, <2>1
<1>6. m \in ModalType /\ m.onElement = <<>>
  <2>1. <<>> \in Seq({"hideModal"})
    OBVIOUS
  <2> QED BY <1>1, <2>1, Zenon DEF ModalStates, ModalType
<1>7. /\ m.isShown = widget.isShown /\ m.clicks = widget.clicks
      /\ m.dismiss = widget.dismiss
      /\ m.escape = widget.escape /\ m.mousedown = widget.mousedown
      /\ m.pressed = widget.pressed /\ m.mouseups = widget.mouseups
      /\ m.drops = widget.drops /\ m.opt = widget.opt
  BY <1>1, Zenon DEF ModalStates, ModalType
<1>8. Handlers(m)
  BY <1>7 DEF ModalStates, Handlers
<1>9. m.drops \in SUBSET TheModal!Backdrops
  BY <1>6, Zenon DEF ModalType
<1>10. Cardinality(m.drops) \in Nat /\ MaxBackdrops \in Nat
  BY <1>9, DropsCount, PageAssumption
<1>11. /\ Cardinality(m.drops) <= MaxBackdrops
       /\ m.isShown => Cardinality(m.drops) + n <= MaxBackdrops
  BY <1>2, <1>4, <1>7 DEF ModalStates, Fits
<1>12. Rest(m, m)
  BY <1>6 DEF Rest
<1>13. CASE m.isShown
  <2> DEFINE W == [k \in 0..n |->
                     {s \in ModalType :
                        /\ Rest(m, s)
                        /\ Cardinality(s.drops) <= Cardinality(m.drops) + k}]
  <2>1. m \in W[0]
    BY <1>6, <1>10, <1>12
  <2>2. ASSUME NEW k \in 1..n, NEW s \in W[k - 1]
        PROVE  TheModal!Ended(s, q[k]) \in W[k]
    <3>1. k - 1 \in 0..n /\ k \in 0..n /\ k \in Nat
      BY <1>4
    <3>2. /\ s \in ModalType /\ Rest(m, s)
          /\ Cardinality(s.drops) <= Cardinality(m.drops) + (k - 1)
      BY <2>2, <3>1
    <3>3. Cardinality(s.drops) \in Nat
      <4>1. s.drops \in SUBSET TheModal!Backdrops
        BY <3>2, Zenon DEF ModalType
      <4> QED BY <4>1, DropsCount
    <3>4. s.isShown /\ Cardinality(s.drops) < MaxBackdrops
      BY <1>4, <1>10, <1>11, <1>13, <3>2, <3>3 DEF Rest
    <3>5. PICK u : u = TheModal!HideModal(s)
      OBVIOUS
    <3>6. Rest(s, u) /\ Cardinality(u.drops) <= Cardinality(s.drops) + 1
      BY <3>2, <3>4, <3>5, HideModalShown
    <3>7. Rest(m, u) /\ u \in ModalType
      BY <3>2, <3>6, Zenon DEF Rest
    <3>8. Cardinality(u.drops) \in Nat
      <4>1. u.drops \in SUBSET TheModal!Backdrops
        BY <3>7, Zenon DEF ModalType
      <4> QED BY <4>1, DropsCount
    <3>9. Cardinality(u.drops) <= Cardinality(m.drops) + k
      BY <1>10, <3>1, <3>2, <3>3, <3>6, <3>8
    <3>10. TheModal!Ended(s, q[k]) = u
      BY <1>5, <3>5 DEF TheModal!Ended
    <3> QED BY <3>1, <3>7, <3>9, <3>10
  <2> HIDE DEF W
  <2>3. ModalRan(n, W, m, q)
    BY <1>4, <2>1, <2>2, ModalFold
  <2>4. widget' \in W[n]
    BY <1>3, <2>3 DEF ModalRan
  <2>5. /\ widget' \in ModalType /\ Rest(m, widget')
        /\ Cardinality(widget'.drops) <= Cardinality(m.drops) + n
    BY <2>4 DEF W
  <2>6. Handlers(widget')
    BY <1>8, <1>13, <2>5 DEF Rest, Handlers
  <2>7. Freed(widget')
    BY <1>13, <2>5 DEF Rest, Freed
  <2>8. Fits(widget')
    <3>1. widget'.onElement = <<>>
      BY <1>6, <2>5 DEF Rest
    <3>2. Cardinality(widget'.drops) \in Nat
      <4>1. widget'.drops \in SUBSET TheModal!Backdrops
        BY <2>5, Zenon DEF ModalType
      <4> QED BY <4>1, DropsCount
    <3>3. Len(<<>>) = 0
      OBVIOUS
    <3> QED BY <1>4, <1>10, <1>11, <1>13, <2>5, <3>1, <3>2, <3>3 DEF Fits
  <2> QED BY <1>7, <2>5, <2>6, <2>7, <2>8 DEF ModalStates, Rest
<1>14. CASE ~m.isShown
  <2> DEFINE S == {s \in ModalType : /\ Rest(m, s) /\ s.clicks = m.clicks
                                     /\ s.drops \subseteq m.drops}
             W == [k \in 0..n |-> S]
  <2>1. \A k \in 0..n : W[k] = S
    OBVIOUS
  <2>2. \A k \in 1..n : k \in 0..n /\ k - 1 \in 0..n
    BY <1>4
  <2>3. m \in W[0]
    BY <1>4, <1>6, <1>12
  <2>4. ASSUME NEW s \in S
        PROVE  /\ TheModal!Ended(s, "hideModal") \in S
               /\ LET u == TheModal!Ended(s, "hideModal")
                  IN  Going(u) \/ Away(u)
    <3>1. s \in ModalType /\ ~s.isShown
      BY <1>14 DEF Rest
    <3>2. PICK u : u = TheModal!HideModal(s)
      OBVIOUS
    <3>3. HideModalTo(s, u)
      BY <3>1, <3>2, HideModalShut
    <3>4. /\ Rest(s, u) /\ u.clicks = s.clicks /\ u.drops \subseteq s.drops
          /\ Going(u) \/ Away(u)
      BY <3>1, <3>3, HidesAway
    <3>5. Rest(m, u)
      BY <3>4, Zenon DEF Rest
    <3>6. TheModal!Ended(s, "hideModal") = u
      BY <3>2 DEF TheModal!Ended
    <3> QED BY <3>4, <3>5, <3>6 DEF Rest
  <2>5. \A k \in 1..n : \A s \in W[k - 1] : TheModal!Ended(s, q[k]) \in W[k]
    <3> HIDE DEF S, W
    <3> QED BY <1>5, <2>1, <2>2, <2>4
  <2>6. ModalRan(n, W, m, q)
    <3> HIDE DEF W
    <3> QED BY <1>4, <2>3, <2>5, ModalFold
  <2>7. /\ widget' \in S
        /\ \E s \in S : widget' = TheModal!Ended(s, q[n])
    <3>1. n \in 1..n
      BY <1>4, <1>5
    <3> HIDE DEF S, W
    <3> QED BY <1>3, <1>4, <1>5, <2>1, <2>2, <2>6, <3>1 DEF ModalRan
  <2>8. Going(widget') \/ Away(widget')
    <3>1. n \in 1..n
      BY <1>4, <1>5
    <3> HIDE DEF S
    <3> QED BY <1>5, <2>4, <2>7, <3>1
  <2>9. /\ widget' \in ModalType /\ Rest(m, widget')
        /\ widget'.clicks = m.clicks /\ widget'.drops \subseteq m.drops
    BY <2>7
  <2>10. Handlers(widget')
    BY <1>8, <1>14, <2>9 DEF Rest, Handlers
  <2>11. Freed(widget')
    BY <2>8 DEF Freed
  <2>12. Fits(widget')
    <3>1. widget'.onElement = <<>>
      BY <1>6, <2>9 DEF Rest
    <3>2. Cardinality(widget'.drops) <= Cardinality(m.drops)
      BY <1>9, <2>9, DropsCount
    <3>3. Cardinality(widget'.drops) \in Nat
      <4>1. widget'.drops \in SUBSET TheModal!Backdrops
        BY <2>9, Zenon DEF ModalType
      <4> QED BY <4>1, DropsCount
    <3> QED BY <1>4, <1>10, <1>11, <3>1, <3>2, <3>3 DEF Fits
  <2> QED BY <1>7, <2>9, <2>10, <2>11, <2>12 DEF ModalStates, Rest
<1> QED BY <1>13, <1>14

(***************************************************************************)
(* The end of the transition of a backdrop.                                *)
(***************************************************************************)
LEMMA EndBackdropStep ==
    ASSUME widget \in ModalStates,
           NEW b \in TheModal!Backdrops, TheModal!EndBackdrop(b)
    PROVE  /\ widget' \in ModalStates
           /\ widget'.pressed = widget.pressed /\ widget'.opt = widget.opt
           /\ widget'.isShown = widget.isShown
           /\ widget'.clicks = widget.clicks
           /\ widget'.mouseups = widget.mouseups
<1> DEFINE Kinds == {"display", "hidden", "remove"}
<1>0. widget \in ModalType
  BY DEF ModalStates
<1>1. widget.onDrop \in [TheModal!Backdrops -> Seq(Kinds)]
  BY <1>0, Zenon DEF ModalType
<1>2. PICK q \in Seq(Kinds) : q = widget.onDrop[b]
  BY <1>1, Zenon
<1>3. PICK wait : wait = [widget.onDrop EXCEPT ![b] = <<>>]
  OBVIOUS
<1>4. PICK m : m = [widget EXCEPT !.onDrop = wait]
  OBVIOUS
<1>5. widget' = TheModal!FoldLeft(TheModal!Ended, m, q)
  <2>1. [widget EXCEPT !.onDrop[b] = <<>>] = m
    BY <1>3, <1>4
  <2> QED BY <1>2, <2>1, Zenon DEF TheModal!EndBackdrop
<1>6. PICK n \in Nat : n = Len(q) /\ DOMAIN q = 1..n
  OBVIOUS
<1>7. n # 0 /\ \A k \in 1..n : q[k] \in Kinds
  <2>1. q # <<>>
    BY <1>2 DEF TheModal!EndBackdrop
  <2> QED BY <1>6, <2>1
<1>8. m \in ModalType
  <2>1. <<>> \in Seq(Kinds)
    OBVIOUS
  <2>2. wait \in [TheModal!Backdrops -> Seq(Kinds)]
    BY <1>1, <1>3, <2>1, Zenon
  <2> QED BY <1>0, <1>4, <2>2, Zenon DEF ModalType
<1>9. /\ Rest(widget, m) /\ m.clicks = widget.clicks
      /\ m.drops = widget.drops /\ m.backdrop = widget.backdrop
      /\ m.body = widget.body /\ m.onDrop = wait
  BY <1>0, <1>4, <1>8, Zenon DEF ModalType, Rest
<1> DEFINE S == {s \in ModalType : /\ Rest(m, s) /\ s.clicks = m.clicks
                                   /\ s.drops \subseteq m.drops
                                   /\ Away(m) => Away(s)
                                   /\ Going(m) => Going(s) \/ Away(s)}
           W == [k \in 0..n |-> S]
<1>10. ASSUME NEW s \in S, NEW c \in Kinds
       PROVE  /\ TheModal!Ended(s, c) \in S
              /\ c = "remove" => Away(TheModal!Ended(s, c))
  <2>1. PICK u : u = TheModal!Ended(s, c)
    OBVIOUS
  <2>2. /\ Rest(s, u) /\ u.clicks = s.clicks /\ u.drops \subseteq s.drops
        /\ Away(s) => Away(u)
        /\ Going(s) => Going(u) \/ Away(u)
        /\ c = "remove" => Away(u)
    BY <2>1, DropEnded
  <2>3. Rest(m, u)
    BY <2>2, Zenon DEF Rest
  <2> QED BY <2>1, <2>2, <2>3 DEF Rest
<1>11. m \in S
  BY <1>8 DEF Rest
<1>12. ModalRan(n, W, m, q)
  <2>1. \A k \in 0..n : W[k] = S
    OBVIOUS
  <2>2. \A k \in 1..n : k \in 0..n /\ k - 1 \in 0..n
    BY <1>6
  <2>3. 0 \in 0..n
    BY <1>6
  <2> HIDE DEF S, W, Kinds
  <2>4. \A k \in 1..n : \A s \in W[k - 1] : TheModal!Ended(s, q[k]) \in W[k]
    BY <1>7, <1>10, <2>1, <2>2
  <2> QED BY <1>6, <1>11, <2>1, <2>3, <2>4, ModalFold
<1>13. /\ widget' \in S
       /\ \E s \in S : widget' = TheModal!Ended(s, q[n])
  <2>1. n \in 0..n /\ n - 1 \in 0..n
    BY <1>6, <1>7
  <2>2. W[n] = S /\ W[n - 1] = S
    BY <2>1
  <2> HIDE DEF S, W, Kinds
  <2> QED BY <1>5, <1>7, <1>12, <2>2 DEF ModalRan
<1>14. q[n] = "remove" => Away(widget')
  <2>1. n \in 1..n
    BY <1>6, <1>7
  <2> HIDE DEF S, Kinds
  <2> QED BY <1>7, <1>10, <1>13, <2>1
<1>15. /\ widget' \in ModalType /\ Rest(m, widget')
       /\ widget'.clicks = m.clicks /\ widget'.drops \subseteq m.drops
       /\ Away(m) => Away(widget')
       /\ Going(m) => Going(widget') \/ Away(widget')
  BY <1>13
<1> HIDE DEF S, W, Kinds
<1>16. Rest(widget, widget')
  BY <1>9, <1>15, Zenon DEF Rest
<1>17. Handlers(widget')
  BY <1>9, <1>15, <1>16 DEF Rest, Handlers, ModalStates
<1>18. Freed(widget')
  <2>1. CASE widget.isShown \/ widget.onElement # <<>>
    BY <1>16, <2>1 DEF Rest, Freed
  <2>2. CASE Away(widget)
    BY <1>9, <1>15, <2>2 DEF Away, Freed
  <2>3. CASE Going(widget) /\ widget.backdrop # b
    <3>1. m.onDrop[widget.backdrop] = widget.onDrop[widget.backdrop]
      <4>1. widget.backdrop \in TheModal!Backdrops
        <5>1. widget.backdrop \in 0..MaxBackdrops
          BY <1>0, Zenon DEF ModalType
        <5> QED BY <2>3, <5>1, PageAssumption DEF TheModal!Backdrops, Going
      <4> QED BY <1>1, <1>3, <1>9, <2>3, <4>1
    <3>2. Going(m)
      BY <1>9, <2>3, <3>1 DEF Going
    <3> QED BY <1>15, <3>2 DEF Freed
  <2>4. CASE Going(widget) /\ widget.backdrop = b
    <3>1. q[n] = "remove"
      BY <1>2, <1>6, <2>4 DEF Going, Removes
    <3> QED BY <1>14, <3>1 DEF Freed
  <2> QED BY <2>1, <2>2, <2>3, <2>4 DEF ModalStates, Freed
<1>19. Fits(widget')
  <2>1. widget.drops \in SUBSET TheModal!Backdrops
        /\ widget.onElement \in Seq({"hideModal"})
    BY <1>0, Zenon DEF ModalType
  <2>2. Cardinality(widget'.drops) <= Cardinality(widget.drops)
    BY <1>9, <1>15, <2>1, DropsCount
  <2>3. Cardinality(widget.drops) \in Nat /\ Len(widget.onElement) \in Nat
        /\ MaxBackdrops \in Nat
    BY <2>1, DropsCount, PageAssumption
  <2>4. Cardinality(widget'.drops) \in Nat
    <3>1. widget'.drops \in SUBSET TheModal!Backdrops
      BY <1>15, Zenon DEF ModalType
    <3> QED BY <3>1, DropsCount
  <2>5. widget'.onElement = widget.onElement
        /\ widget'.isShown = widget.isShown
    BY <1>16 DEF Rest
  <2> QED BY <2>2, <2>3, <2>4, <2>5 DEF Fits, ModalStates
<1> QED BY <1>9, <1>15, <1>16, <1>17, <1>18, <1>19 DEF ModalStates, Rest

(***************************************************************************)
(* show binds its handlers and has the backdrop shown.                     *)
(***************************************************************************)
Bound(m, v) ==
    /\ v \in ModalType /\ v.opt = m.opt /\ v.isShown /\ v.body
    /\ v.mousedown /\ v.savedPad = m.padded /\ v.pressed = m.pressed
    /\ v.clicks = m.clicks
    /\ v.display = m.display /\ v.onElement = m.onElement
    /\ v.drops = m.drops /\ v.backdrop = m.backdrop /\ v.onDrop = m.onDrop

ShowsModal(m, u) ==
    \E v \in ModalType :
        /\ Bound(m, v)
        /\ m.opt.backdrop # "false" =>
              \E b \in TheModal!Backdrops :
                  b \notin m.drops /\ Covers(v, "display", b, u)
        /\ m.opt.backdrop = "false" =>
              Rest(v, u) /\ SameDrop(v, u) /\ Displayed(v, u)

(***************************************************************************)
(* show of a modal that is not shown does that.                            *)
(***************************************************************************)
LEMMA ShowModal ==
    ASSUME NEW m \in ModalType, ~m.isShown,
           Cardinality(m.drops) < MaxBackdrops
    PROVE  ShowsModal(m, TheModal!Show(m))
<1>1. PICK escape \in Nat : escape = IF m.opt.keyboard THEN m.escape + 1
                                                      ELSE m.escape
  BY DEF ModalType
<1>2. PICK resize \in Nat : resize = m.resize + 1
  BY DEF ModalType
<1>3. PICK dismiss \in Nat : dismiss = m.dismiss + 1
  BY DEF ModalType
<1>4. PICK w : w = [m EXCEPT !.escape = escape, !.resize = resize,
                             !.dismiss = dismiss, !.mousedown = TRUE]
  OBVIOUS
<1>5. w = TheModal!Bind(m)
  BY <1>1, <1>2, <1>3, <1>4 DEF TheModal!Bind
<1>6. w \in ModalType
  BY <1>4, Zenon DEF ModalType
<1>7. /\ w.opt = m.opt /\ w.mousedown /\ w.padded = m.padded
      /\ w.clicks = m.clicks
      /\ w.pressed = m.pressed /\ w.display = m.display
      /\ w.onElement = m.onElement /\ w.drops = m.drops
      /\ w.backdrop = m.backdrop /\ w.onDrop = m.onDrop
  BY <1>4, Zenon DEF ModalType
<1>8. PICK padded \in BOOLEAN : padded = (m.padded \/ m.opt.overflowing)
  OBVIOUS
<1>9. PICK v : v = [w EXCEPT !.isShown = TRUE, !.body = TRUE,
                             !.savedPad = m.padded, !.padded = padded]
  OBVIOUS
<1>10. v \in ModalType
  <2>1. m.padded \in BOOLEAN
    BY Zenon DEF ModalType
  <2> QED BY <1>6, <1>9, <2>1, Zenon DEF ModalType
<1>11. Bound(m, v)
  <2>1. /\ v.opt = w.opt /\ v.isShown /\ v.body /\ v.mousedown = w.mousedown
        /\ v.clicks = w.clicks
        /\ v.savedPad = m.padded /\ v.pressed = w.pressed
        /\ v.display = w.display /\ v.onElement = w.onElement
        /\ v.drops = w.drops /\ v.backdrop = w.backdrop
        /\ v.onDrop = w.onDrop
    BY <1>6, <1>9, Zenon DEF ModalType
  <2> QED BY <1>7, <1>10, <2>1, Zenon DEF Bound
<1>12. TheModal!Show(m) = TheModal!Backdrop(v, "display")
  <2>1. v = [TheModal!Bind(m) EXCEPT !.isShown = TRUE, !.body = TRUE,
                !.savedPad = m.padded,
                !.padded = TheModal!Bind(m).padded \/ m.opt.overflowing]
    BY <1>5, <1>7, <1>8, <1>9, Zenon
  <2> QED BY <2>1, Zenon DEF TheModal!Show
<1>13. PICK u : u = TheModal!Show(m)
  OBVIOUS
<1>14. CASE m.opt.backdrop # "false"
  <2>1. PICK b \in TheModal!Backdrops :
            b \notin v.drops /\ Covers(v, "display", b, u)
    BY <1>10, <1>11, <1>12, <1>13, <1>14, BackdropCovers DEF Bound
  <2> QED BY <1>10, <1>11, <1>13, <1>14, <2>1 DEF ShowsModal, Bound
<1>15. CASE m.opt.backdrop = "false"
  <2>1. Rest(v, u) /\ SameDrop(v, u) /\ Called(v, "display", u)
    BY <1>10, <1>11, <1>12, <1>13, <1>15, BackdropCalls DEF Bound
  <2> QED BY <1>10, <1>11, <1>13, <1>15, <2>1 DEF ShowsModal, Called
<1> QED BY <1>14, <1>15

(***************************************************************************)
(* show keeps the states of a modal, if there is room for a backdrop.      *)
(***************************************************************************)
LEMMA ShowKeeps ==
    ASSUME NEW m \in ModalStates, ~m.isShown,
           Cardinality(m.drops) + Len(m.onElement) < MaxBackdrops
    PROVE  LET u == TheModal!Show(m) IN
           /\ u \in ModalStates /\ u.opt = m.opt /\ u.pressed = m.pressed
           /\ u.clicks <= 1
<1>1. /\ m \in ModalType /\ Cardinality(m.drops) \in Nat
      /\ Len(m.onElement) \in Nat /\ MaxBackdrops \in Nat
      /\ m.drops \in SUBSET TheModal!Backdrops
  <2>1. m \in ModalType
    BY DEF ModalStates
  <2>2. m.drops \in SUBSET TheModal!Backdrops
        /\ m.onElement \in Seq({"hideModal"})
    BY <2>1, Zenon DEF ModalType
  <2> QED BY <2>1, <2>2, DropsCount, PageAssumption
<1>2. PICK u : u = TheModal!Show(m)
  OBVIOUS
<1>3. ShowsModal(m, u)
  BY <1>1, <1>2, ShowModal
<1>4. PICK v \in ModalType :
          /\ Bound(m, v)
          /\ m.opt.backdrop # "false" =>
                \E b \in TheModal!Backdrops :
                    b \notin m.drops /\ Covers(v, "display", b, u)
          /\ m.opt.backdrop = "false" => Rest(v, u) /\ SameDrop(v, u)
  BY <1>3 DEF ShowsModal
<1>5. Rest(v, u)
  BY <1>4 DEF Covers
<1>6. Cardinality(u.drops) <= Cardinality(m.drops) + 1
  <2>1. CASE m.opt.backdrop # "false"
    <3>1. PICK b \in TheModal!Backdrops :
              b \notin m.drops /\ Covers(v, "display", b, u)
      BY <1>4, <2>1
    <3>2. Cardinality(m.drops \cup {b}) = Cardinality(m.drops) + 1
      BY <1>1, <3>1, FreeBackdrop
    <3> QED BY <1>1, <1>4, <3>1, <3>2 DEF Covers, Bound
  <2>2. CASE m.opt.backdrop = "false"
    BY <1>1, <1>4, <2>2 DEF SameDrop, Bound
  <2> QED BY <2>1, <2>2
<1>7. /\ u \in ModalType /\ u.isShown /\ u.mousedown
      /\ u.pressed = m.pressed /\ u.onElement = m.onElement /\ u.opt = m.opt
  BY <1>4, <1>5 DEF Rest, Bound
<1>8. Cardinality(u.drops) \in Nat
  <2>1. u.drops \in SUBSET TheModal!Backdrops
    BY <1>7, Zenon DEF ModalType
  <2> QED BY <2>1, DropsCount
<1>9. Fits(u)
  BY <1>1, <1>6, <1>7, <1>8 DEF Fits
<1>10. u.clicks <= 1
  <2>1. v.clicks = 0
    BY <1>4 DEF Bound, ModalStates, Handlers
  <2>2. u.clicks = v.clicks \/ u.clicks = v.clicks + 1
    BY <1>4 DEF SameDrop, Covers
  <2> QED BY <2>1, <2>2
<1> QED BY <1>2, <1>7, <1>9, <1>10 DEF ModalStates, Handlers, Freed

(***************************************************************************)
(* hide takes the handlers away; the modal goes, after its transition if   *)
(* it has one.                                                             *)
(***************************************************************************)
ShutOff(m, v) ==
    /\ v \in ModalType /\ v.opt = m.opt /\ ~v.isShown
    /\ v.dismiss = 0 /\ v.clicks = 0 /\ v.escape = 0 /\ v.resize = 0
    /\ ~v.trap /\ v.savedPad = m.savedPad /\ v.pressed = m.pressed
    /\ v.drops = m.drops /\ v.backdrop = m.backdrop /\ v.onDrop = m.onDrop

HidesModal(m, u) ==
    /\ m.opt.fade => ShutOff(m, u)
                     /\ u.onElement = Append(m.onElement, "hideModal")
    /\ ~m.opt.fade => \E v \in ModalType :
                          /\ ShutOff(m, v) /\ v.onElement = m.onElement
                          /\ HideModalTo(v, u)

(***************************************************************************)
(* hide of a modal that is shown does that.                                *)
(***************************************************************************)
LEMMA HideModalGoes ==
    ASSUME NEW m \in ModalType, m.isShown
    PROVE  HidesModal(m, TheModal!Hide(m))
<1>1. PICK w : w = [m EXCEPT !.escape = 0, !.resize = 0, !.trap = FALSE,
                             !.dismiss = 0, !.clicks = 0,
                             !.mousedown = FALSE, !.mouseups = 0]
  OBVIOUS
<1>2. w = TheModal!Unbind(m)
  BY <1>1 DEF TheModal!Unbind
<1>3. w \in ModalType
  <2>1. 0 \in Nat
    OBVIOUS
  <2> QED BY <1>1, <2>1, Zenon DEF ModalType
<1>4. /\ w.opt = m.opt /\ w.dismiss = 0 /\ w.escape = 0 /\ w.resize = 0
      /\ w.clicks = 0
      /\ ~w.trap /\ w.savedPad = m.savedPad /\ w.pressed = m.pressed
      /\ w.drops = m.drops /\ w.backdrop = m.backdrop
      /\ w.onDrop = m.onDrop /\ w.onElement = m.onElement
  BY <1>1, Zenon DEF ModalType
<1>5. PICK v : v = [w EXCEPT !.isShown = FALSE, !.open = FALSE]
  OBVIOUS
<1>6. v \in ModalType
  BY <1>3, <1>5, Zenon DEF ModalType
<1>7. /\ v.opt = w.opt /\ ~v.isShown /\ v.dismiss = w.dismiss
      /\ v.clicks = w.clicks
      /\ v.escape = w.escape /\ v.resize = w.resize /\ v.trap = w.trap
      /\ v.savedPad = w.savedPad /\ v.pressed = w.pressed
      /\ v.drops = w.drops /\ v.backdrop = w.backdrop
      /\ v.onDrop = w.onDrop /\ v.onElement = w.onElement
  BY <1>3, <1>5, Zenon DEF ModalType
<1>8. ShutOff(m, v) /\ v.onElement = m.onElement
  BY <1>4, <1>6, <1>7, Zenon DEF ShutOff
<1>9. PICK u : u = TheModal!Hide(m)
  OBVIOUS
<1>10. u = IF m.opt.fade
           THEN [v EXCEPT !.onElement =
                            TheModal!Wait(v.onElement, "hideModal")]
           ELSE TheModal!HideModal(v)
  <2>1. v = [TheModal!Unbind(m) EXCEPT !.isShown = FALSE, !.open = FALSE]
    BY <1>2, <1>5
  <2> QED BY <1>9, <2>1, Zenon DEF TheModal!Hide
<1>11. CASE m.opt.fade
  <2>1. PICK q \in Seq({"hideModal"}) : q = Append(m.onElement, "hideModal")
    <3>1. PICK old \in Seq({"hideModal"}) : old = m.onElement
      BY Zenon DEF ModalType
    <3>2. Append(old, "hideModal") \in Seq({"hideModal"})
      OBVIOUS
    <3> QED BY <3>1, <3>2, Zenon
  <2>2. u = [v EXCEPT !.onElement = q]
    BY <1>8, <1>10, <1>11, <2>1 DEF TheModal!Wait
  <2>3. u \in ModalType
    BY <1>6, <2>1, <2>2, Zenon DEF ModalType
  <2>4. /\ u.opt = v.opt /\ ~u.isShown /\ u.dismiss = v.dismiss
        /\ u.clicks = v.clicks
        /\ u.escape = v.escape /\ u.resize = v.resize /\ u.trap = v.trap
        /\ u.savedPad = v.savedPad /\ u.pressed = v.pressed
        /\ u.drops = v.drops /\ u.backdrop = v.backdrop
        /\ u.onDrop = v.onDrop /\ u.onElement = q
    BY <1>6, <1>7, <2>2, Zenon DEF ModalType
  <2>5. ShutOff(m, u)
    BY <1>8, <2>3, <2>4, Zenon DEF ShutOff
  <2> QED BY <1>9, <1>11, <2>1, <2>4, <2>5 DEF HidesModal
<1>12. CASE ~m.opt.fade
  <2>1. HideModalTo(v, u)
    BY <1>6, <1>8, <1>10, <1>12, HideModalShut DEF ShutOff
  <2> QED BY <1>6, <1>8, <1>9, <1>12, <2>1 DEF HidesModal
<1> QED BY <1>11, <1>12

(***************************************************************************)
(* hide keeps the states of a modal: a callback more may wait on the       *)
(* element.                                                                *)
(***************************************************************************)
LEMMA HideKeeps ==
    ASSUME NEW m \in ModalStates
    PROVE  LET u == TheModal!Hide(m) IN
           /\ u \in ModalStates /\ u.pressed = m.pressed /\ u.opt = m.opt
           /\ ~u.isShown
<1>1. /\ m \in ModalType /\ Cardinality(m.drops) \in Nat
      /\ m.onElement \in Seq({"hideModal"})
      /\ Len(m.onElement) \in Nat /\ MaxBackdrops \in Nat
      /\ m.drops \in SUBSET TheModal!Backdrops
  <2>1. m \in ModalType
    BY DEF ModalStates
  <2>2. m.drops \in SUBSET TheModal!Backdrops
        /\ m.onElement \in Seq({"hideModal"})
    BY <2>1, Zenon DEF ModalType
  <2> QED BY <2>1, <2>2, DropsCount, PageAssumption
<1>2. PICK u : u = TheModal!Hide(m)
  OBVIOUS
<1>3. CASE ~m.isShown
  BY <1>2, <1>3 DEF TheModal!Hide
<1>4. CASE m.isShown /\ m.opt.fade
  <2>1. ShutOff(m, u) /\ u.onElement = Append(m.onElement, "hideModal")
    BY <1>1, <1>2, <1>4, HideModalGoes DEF HidesModal
  <2>2. u.onElement # <<>> /\ Len(u.onElement) = Len(m.onElement) + 1
    BY <1>1, <2>1
  <2>3. Fits(u)
    BY <1>1, <2>1 DEF Fits, ShutOff, ModalStates
  <2>4. /\ u \in ModalType /\ ~u.isShown /\ u.dismiss = 0 /\ u.escape = 0
        /\ u.clicks = 0 /\ u.pressed = m.pressed /\ u.opt = m.opt
    BY <2>1 DEF ShutOff
  <2> QED BY <1>2, <2>2, <2>3, <2>4 DEF ModalStates, Handlers, Freed
<1>5. CASE m.isShown /\ ~m.opt.fade
  <2>1. PICK v \in ModalType : /\ ShutOff(m, v)
                               /\ v.onElement = m.onElement
                               /\ HideModalTo(v, u)
    BY <1>1, <1>2, <1>5, HideModalGoes DEF HidesModal
  <2>2. /\ Rest(v, u) /\ u.clicks = v.clicks /\ u.drops \subseteq v.drops
        /\ Going(u) \/ Away(u)
    BY <2>1, HidesAway DEF ShutOff
  <2>3. /\ u \in ModalType /\ ~u.isShown /\ u.dismiss = 0 /\ u.escape = 0
        /\ u.clicks = 0 /\ u.pressed = m.pressed /\ u.onElement = m.onElement
        /\ u.drops \in SUBSET m.drops /\ u.opt = m.opt
    BY <2>1, <2>2 DEF ShutOff, Rest
  <2>4. Cardinality(u.drops) <= Cardinality(m.drops)
    BY <1>1, <2>3, DropsCount
  <2>5. Cardinality(u.drops) \in Nat
    <3>1. u.drops \in SUBSET TheModal!Backdrops
      BY <1>1, <2>3
    <3> QED BY <3>1, DropsCount
  <2>6. Fits(u)
    BY <1>1, <2>3, <2>4, <2>5 DEF Fits, ModalStates
  <2> QED BY <1>2, <2>2, <2>3, <2>6 DEF ModalStates, Handlers, Freed
<1> QED BY <1>3, <1>4, <1>5

(***************************************************************************)
(* The library's Cardinality, as the modal's module has it.                *)
(***************************************************************************)
LEMMA ModalCount == \A T : TheModal!Cardinality(T) = Cardinality(T)
  BY DEF TheModal!Cardinality, Cardinality

(***************************************************************************)
(* The bound of the calls leaves room for one backdrop more.               *)
(***************************************************************************)
LEMMA ModalRoom ==
    ASSUME TheModal!RoomToShow
    PROVE  Cardinality(widget.drops) + Len(widget.onElement) < MaxBackdrops
  BY ModalCount DEF TheModal!RoomToShow

(***************************************************************************)
(* The button of the mouse, and what a click on the element closes.        *)
(***************************************************************************)
Released(m, over, u) ==
    /\ u \in ModalStates /\ u.pressed = "no" /\ u.isShown = m.isShown
    /\ u.clicks = m.clicks
    /\ SamePhase(m, u)
    /\ u.ignoreBackdropClick =
         (m.ignoreBackdropClick \/ (over = "outside" /\ m.mouseups > 0))

Sees(m, s) ==
    /\ s \in ModalStates /\ s.pressed = m.pressed /\ s.clicks = m.clicks
    /\ s.mouseups = m.mouseups /\ SamePhase(m, s)

(***************************************************************************)
(* The button goes down: one in the dialog sets a handler of mouseup.      *)
(***************************************************************************)
LEMMA MouseDownStep ==
    ASSUME widget \in ModalStates, TheModal!MouseDown
    PROVE  /\ widget' \in ModalStates /\ SamePhase(widget, widget')
           /\ Guarded(widget) => Guarded(widget')
<1>1. PICK pressed \in {"dialog", "outside"}, mouseups \in Nat :
          /\ widget' = [widget EXCEPT !.pressed = pressed,
                                      !.mouseups = mouseups]
          /\ pressed = "dialog" /\ widget.mousedown => mouseups > 0
  <2>1. widget.mouseups \in Nat /\ widget.mouseups + 1 \in Nat
    BY DEF ModalStates, ModalType
  <2>2. CASE widget' = [widget EXCEPT !.pressed = "outside"]
    <3>1. widget' = [widget EXCEPT !.pressed = "outside",
                                   !.mouseups = widget.mouseups]
      BY <2>2, Zenon DEF ModalStates, ModalType
    <3> QED BY <2>1, <3>1
  <2>3. CASE widget' = [widget EXCEPT !.pressed = "dialog",
                          !.mouseups = IF widget.mousedown THEN @ + 1 ELSE @]
    <3>1. PICK n \in Nat : n = IF widget.mousedown THEN widget.mouseups + 1
                                                   ELSE widget.mouseups
      BY <2>1
    <3>2. widget' = [widget EXCEPT !.pressed = "dialog", !.mouseups = n]
      BY <2>3, <3>1
    <3>3. widget.mousedown => n > 0
      BY <2>1, <3>1
    <3> QED BY <3>2, <3>3
  <2> QED BY <2>2, <2>3 DEF TheModal!MouseDown
<1>2. widget' \in ModalType
  BY <1>1, Zenon DEF ModalStates, ModalType
<1>3. /\ widget'.isShown = widget.isShown /\ widget'.dismiss = widget.dismiss
      /\ widget'.clicks = widget.clicks
      /\ widget'.escape = widget.escape /\ widget'.pressed = pressed
      /\ widget'.mousedown = widget.mousedown /\ widget'.mouseups = mouseups
      /\ widget'.onElement = widget.onElement /\ widget'.body = widget.body
      /\ widget'.backdrop = widget.backdrop /\ widget'.drops = widget.drops
      /\ widget'.onDrop = widget.onDrop
  BY <1>1, Zenon DEF ModalStates, ModalType
<1>4. SamePhase(widget, widget')
  BY <1>1, Zenon DEF ModalStates, ModalType, SamePhase
<1> QED BY <1>1, <1>2, <1>3, <1>4
        DEF ModalStates, Handlers, Guarded, Freed, Fits, Going, Away

(***************************************************************************)
(* What the release of the button changes before the click.                *)
(***************************************************************************)
LEMMA ReleaseGoes ==
    ASSUME NEW m \in ModalStates, NEW over
    PROVE  Released(m, over,
             [m EXCEPT !.pressed = "no", !.mouseups = 0,
                  !.ignoreBackdropClick =
                      @ \/ (over = "outside" /\ m.mouseups > 0)])
<1>1. PICK ignore \in BOOLEAN :
          ignore = (m.ignoreBackdropClick
                       \/ (over = "outside" /\ m.mouseups > 0))
  OBVIOUS
<1>2. PICK u : u = [m EXCEPT !.pressed = "no", !.mouseups = 0,
                             !.ignoreBackdropClick = ignore]
  OBVIOUS
<1>3. u \in ModalType
  <2>1. 0 \in Nat
    OBVIOUS
  <2> QED BY <1>2, <2>1, Zenon DEF ModalStates, ModalType
<1>4. /\ u.isShown = m.isShown /\ u.dismiss = m.dismiss
      /\ u.clicks = m.clicks
      /\ u.escape = m.escape /\ u.pressed = "no"
      /\ u.mousedown = m.mousedown /\ u.onElement = m.onElement
      /\ u.body = m.body /\ u.backdrop = m.backdrop /\ u.drops = m.drops
      /\ u.onDrop = m.onDrop
      /\ u.ignoreBackdropClick = ignore
  BY <1>2, Zenon DEF ModalStates, ModalType
<1>5. u \in ModalStates
  BY <1>3, <1>4 DEF ModalStates, Handlers, Freed, Fits, Going, Away
<1>5a. SamePhase(m, u)
  BY <1>2, Zenon DEF ModalStates, ModalType, SamePhase
<1>6. Released(m, over, u)
  <2>1. u.ignoreBackdropClick =
            (m.ignoreBackdropClick \/ (over = "outside" /\ m.mouseups > 0))
    BY <1>1, <1>4
  <2> QED BY <1>4, <1>5, <1>5a, <2>1, Zenon DEF Released
<1>7. u = [m EXCEPT !.pressed = "no", !.mouseups = 0,
               !.ignoreBackdropClick =
                   @ \/ (over = "outside" /\ m.mouseups > 0)]
  BY <1>1, <1>2
<1> QED BY <1>6, <1>7, Zenon

(***************************************************************************)
(* What the handlers of a click see when they come to hide the modal.      *)
(***************************************************************************)
LEMMA ClickedGoes ==
    ASSUME NEW m \in ModalStates, NEW n \in Nat, NEW onElement \in BOOLEAN
    PROVE  \E s : /\ Sees(m, s)
                  /\ \/ TheModal!Clicked(m, n, onElement) = s
                     \/ /\ TheModal!Clicked(m, n, onElement)
                              = TheModal!Hide(s)
                        /\ onElement
                        /\ n > IF m.ignoreBackdropClick THEN 1 ELSE 0
<1>1. PICK ignore \in BOOLEAN : ignore = (m.ignoreBackdropClick /\ n = 0)
  OBVIOUS
<1>2. PICK s : s = [m EXCEPT !.ignoreBackdropClick = ignore]
  OBVIOUS
<1>3. s \in ModalType
  BY <1>2, Zenon DEF ModalStates, ModalType
<1>4. /\ s.isShown = m.isShown /\ s.dismiss = m.dismiss
      /\ s.clicks = m.clicks /\ s.mouseups = m.mouseups
      /\ s.escape = m.escape /\ s.pressed = m.pressed
      /\ s.mousedown = m.mousedown /\ s.onElement = m.onElement
      /\ s.body = m.body /\ s.backdrop = m.backdrop /\ s.drops = m.drops
      /\ s.onDrop = m.onDrop
  BY <1>2, Zenon DEF ModalStates, ModalType
<1>5. s \in ModalStates
  BY <1>3, <1>4 DEF ModalStates, Handlers, Freed, Fits, Going, Away
<1>6. SamePhase(m, s)
  BY <1>2, Zenon DEF ModalStates, ModalType, SamePhase
<1>7. Sees(m, s)
  BY <1>4, <1>5, <1>6, Zenon DEF Sees
<1>8. s = [m EXCEPT !.ignoreBackdropClick = @ /\ n = 0]
  BY <1>1, <1>2
<1>9. TheModal!Clicked(m, n, onElement) =
         IF /\ n > IF m.ignoreBackdropClick THEN 1 ELSE 0
            /\ onElement /\ m.opt.backdrop # "static"
         THEN TheModal!Hide(s) ELSE s
  BY <1>8, Zenon DEF TheModal!Clicked
<1> QED BY <1>7, <1>9, Zenon

(***************************************************************************)
(* What a click on the element or in the dialog comes to.                  *)
(***************************************************************************)
LEMMA ClickedKeeps ==
    ASSUME NEW m \in ModalStates, NEW n \in Nat, NEW onElement \in BOOLEAN
    PROVE  LET u == TheModal!Clicked(m, n, onElement) IN
           /\ u \in ModalStates /\ u.opt = m.opt /\ u.pressed = m.pressed
           /\ u.isShown => m.isShown
           /\ m.opt.patient /\ Guarded(m) => Guarded(u)
           /\ ~onElement => u.isShown = m.isShown
<1>1. PICK u : u = TheModal!Clicked(m, n, onElement)
  OBVIOUS
<1>2. PICK s : Sees(m, s) /\ (u = s \/ (u = TheModal!Hide(s) /\ onElement))
  BY <1>1, ClickedGoes
<1>3. /\ s \in ModalStates /\ s.opt = m.opt /\ s.pressed = m.pressed
      /\ s.isShown = m.isShown
      /\ Guarded(m) => Guarded(s)
  <2>1. /\ s \in ModalStates /\ s.opt = m.opt /\ s.pressed = m.pressed
        /\ s.isShown = m.isShown /\ s.clicks = m.clicks
        /\ s.mouseups = m.mouseups
    BY <1>2 DEF Sees, SamePhase
  <2> QED BY <2>1, Zenon DEF Guarded
<1>4. CASE u = s
  BY <1>1, <1>3, <1>4
<1>5. CASE u = TheModal!Hide(s) /\ onElement
  <2>1. /\ u \in ModalStates /\ u.pressed = s.pressed /\ u.opt = s.opt
        /\ ~u.isShown
    BY <1>3, <1>5, HideKeeps
  <2> QED BY <1>1, <1>3, <1>5, <2>1 DEF Guarded
<1> QED BY <1>2, <1>4, <1>5

(***************************************************************************)
(* The button goes up: the click may hide the modal, but if one handler of *)
(* it is bound, not if the button went down in the dialog of a modal that  *)
(* is shown.                                                               *)
(***************************************************************************)
LEMMA MouseUpStep ==
    ASSUME widget \in ModalStates,
           NEW over \in {"dialog", "outside"}, TheModal!MouseUp(over)
    PROVE  /\ widget' \in ModalStates /\ widget'.opt = widget.opt
           /\ widget'.pressed = "no" /\ (widget'.isShown => widget.isShown)
           /\ Guarded(widget) => /\ widget.opt.patient => Guarded(widget')
                                 /\ widget.pressed = "dialog" =>
                                       widget'.isShown = widget.isShown
           /\ \E up, s \in ModalStates :
                 /\ SamePhase(widget, up) /\ SamePhase(up, s)
                 /\ widget' = s \/ widget' = TheModal!Hide(s)
<1>1. PICK up : up = [widget EXCEPT !.pressed = "no", !.mouseups = 0,
                         !.ignoreBackdropClick =
                             @ \/ (over = "outside" /\ widget.mouseups > 0)]
  OBVIOUS
<1>2. Released(widget, over, up)
  BY <1>1, ReleaseGoes
<1>3. /\ up \in ModalStates /\ up.opt = widget.opt
      /\ up.isShown = widget.isShown /\ up.pressed = "no"
      /\ up.clicks = widget.clicks
  BY <1>2 DEF Released, SamePhase
<1>4. PICK onElement \in BOOLEAN :
          onElement = (over = "outside" \/ widget.pressed = "outside")
  OBVIOUS
<1>5. widget.clicks \in Nat
  BY DEF ModalStates, ModalType
<1>6. widget' = TheModal!Clicked(up, widget.clicks, onElement)
  BY <1>1, <1>4, Zenon DEF TheModal!MouseUp
<1>7. /\ widget' \in ModalStates /\ widget'.opt = widget.opt
      /\ widget'.pressed = "no" /\ (widget'.isShown => widget.isShown)
      /\ widget.opt.patient /\ Guarded(up) => Guarded(widget')
      /\ ~onElement => widget'.isShown = widget.isShown
  BY <1>3, <1>5, <1>6, ClickedKeeps
<1>8. Guarded(widget) => Guarded(up)
  BY <1>3 DEF Guarded
<1>9. PICK s : /\ Sees(up, s)
               /\ \/ widget' = s
                  \/ /\ widget' = TheModal!Hide(s) /\ onElement
                     /\ widget.clicks >
                          IF up.ignoreBackdropClick THEN 1 ELSE 0
  BY <1>3, <1>5, <1>6, ClickedGoes
<1>10. ASSUME Guarded(widget), widget.pressed = "dialog"
       PROVE  widget'.isShown = widget.isShown
  <2>1. CASE ~widget.isShown
    BY <1>7, <2>1 DEF ModalStates, ModalType
  <2>2. CASE widget.isShown /\ onElement
    <3>1. up.ignoreBackdropClick /\ widget.clicks <= 1
      <4>1. over = "outside"
        BY <1>4, <1>10, <2>2
      <4> QED BY <1>2, <1>10, <2>2, <4>1 DEF Released, Guarded
    <3>2. widget' = s
      BY <1>5, <1>9, <3>1
    <3> QED BY <1>3, <1>9, <3>2 DEF Sees, SamePhase
  <2>3. CASE ~onElement
    BY <1>7, <2>3
  <2> QED BY <2>1, <2>2, <2>3
<1> QED BY <1>2, <1>7, <1>8, <1>9, <1>10 DEF Released, Sees

(***************************************************************************)
(* The button goes up outside the window.                                  *)
(***************************************************************************)
LEMMA MouseLostStep ==
    ASSUME widget \in ModalStates, TheModal!MouseLost
    PROVE  /\ widget' \in ModalStates /\ SamePhase(widget, widget')
           /\ Guarded(widget) => Guarded(widget')
<1>1. widget' = [widget EXCEPT !.pressed = "no"]
  BY DEF TheModal!MouseLost
<1>2. widget' \in ModalType
  BY <1>1, Zenon DEF ModalStates, ModalType
<1>3. /\ widget'.isShown = widget.isShown /\ widget'.dismiss = widget.dismiss
      /\ widget'.clicks = widget.clicks
      /\ widget'.escape = widget.escape /\ widget'.pressed = "no"
      /\ widget'.mousedown = widget.mousedown /\ widget'.body = widget.body
      /\ widget'.onElement = widget.onElement
      /\ widget'.backdrop = widget.backdrop /\ widget'.drops = widget.drops
      /\ widget'.onDrop = widget.onDrop
  BY <1>1, Zenon DEF ModalStates, ModalType
<1>4. SamePhase(widget, widget')
  BY <1>1, Zenon DEF ModalStates, ModalType, SamePhase
<1> QED BY <1>2, <1>3, <1>4
        DEF ModalStates, Handlers, Guarded, Freed, Fits, Going, Away

(***************************************************************************)
(* The end of the transition of the dialog.                                *)
(***************************************************************************)
LEMMA EndDialogStep ==
    ASSUME widget \in ModalStates, TheModal!EndDialog
    PROVE  /\ widget' \in ModalStates /\ SamePhase(widget, widget')
           /\ widget'.pressed = widget.pressed
           /\ Guarded(widget) => Guarded(widget')
<1>1. widget' = [widget EXCEPT !.onDialog = 0]
  BY DEF TheModal!EndDialog
<1>2. widget' \in ModalType
  <2>1. 0 \in Nat
    OBVIOUS
  <2> QED BY <1>1, <2>1, Zenon DEF ModalStates, ModalType
<1>3. /\ widget'.isShown = widget.isShown /\ widget'.dismiss = widget.dismiss
      /\ widget'.clicks = widget.clicks
      /\ widget'.escape = widget.escape /\ widget'.pressed = widget.pressed
      /\ widget'.mousedown = widget.mousedown /\ widget'.body = widget.body
      /\ widget'.mouseups = widget.mouseups
      /\ widget'.onElement = widget.onElement
      /\ widget'.backdrop = widget.backdrop /\ widget'.drops = widget.drops
      /\ widget'.onDrop = widget.onDrop
  BY <1>1, Zenon DEF ModalStates, ModalType
<1>4. SamePhase(widget, widget')
  BY <1>1, Zenon DEF ModalStates, ModalType, SamePhase
<1> QED BY <1>2, <1>3, <1>4
        DEF ModalStates, Handlers, Guarded, Freed, Fits, Going, Away

(***************************************************************************)
(* The click on a button in the dialog hides the modal, before the         *)
(* handlers of backdrop run.                                               *)
(***************************************************************************)
LEMMA DismissStep ==
    ASSUME widget \in ModalStates, TheModal!DismissButton
    PROVE  \E s : /\ Sees(TheModal!Hide(widget), s) /\ widget' = s
                  /\ s.opt = widget.opt /\ ~s.isShown
                  /\ s.pressed = widget.pressed
<1>1. PICK u : u = TheModal!Hide(widget)
  OBVIOUS
<1>2. /\ u \in ModalStates /\ u.pressed = widget.pressed
      /\ u.opt = widget.opt /\ ~u.isShown
  BY <1>1, HideKeeps
<1>3. widget' = TheModal!Clicked(u, widget.clicks, FALSE)
  BY <1>1 DEF TheModal!DismissButton
<1>4. widget.clicks \in Nat
  BY DEF ModalStates, ModalType
<1>5. PICK s : Sees(u, s) /\ widget' = s
  BY <1>2, <1>3, <1>4, ClickedGoes
<1> QED BY <1>1, <1>2, <1>5 DEF Sees, SamePhase

(***************************************************************************)
(* Every step of a modal keeps its states.  On a page that waits it keeps  *)
(* the handlers too, and the release of the button over or beside the      *)
(* dialog does not close a modal that was pressed in its dialog.           *)
(***************************************************************************)
LEMMA ModalStep ==
    ASSUME widget \in ModalStates, TheModal!Next
    PROVE  /\ widget' \in ModalStates /\ widget'.opt = widget.opt
           /\ widget.opt.patient /\ Guarded(widget)
                 /\ (widget.isShown => widget.onElement = <<>>)
                 => Guarded(widget') /\ TheModal!DragNeverCloses
<1>1. CASE TheModal!Toggle
  <2>1. CASE widget.isShown
    <3>1. widget' = TheModal!Hide(widget)
      BY <1>1, <2>1 DEF TheModal!Toggle
    <3>2. /\ widget' \in ModalStates /\ widget'.opt = widget.opt
          /\ widget'.pressed = widget.pressed /\ ~widget'.isShown
      BY <3>1, HideKeeps
    <3> QED BY <3>2 DEF TheModal!DragNeverCloses, Guarded
  <2>2. CASE ~widget.isShown
    <3>1. /\ Cardinality(widget.drops) + Len(widget.onElement)
               < MaxBackdrops
          /\ widget' = TheModal!Show(widget)
          /\ widget.opt.patient => widget.pressed = "no"
      BY <1>1, <2>2, ModalRoom DEF TheModal!Toggle
    <3>2. /\ widget' \in ModalStates /\ widget'.opt = widget.opt
          /\ widget'.pressed = widget.pressed /\ widget'.clicks <= 1
      BY <2>2, <3>1, ShowKeeps
    <3> QED BY <3>1, <3>2 DEF TheModal!DragNeverCloses, Guarded
  <2> QED BY <2>1, <2>2
<1>2. CASE TheModal!Escape
  <2>1. widget' = TheModal!Hide(widget)
    BY <1>2 DEF TheModal!Escape
  <2>2. /\ widget' \in ModalStates /\ widget'.opt = widget.opt
        /\ widget'.pressed = widget.pressed /\ ~widget'.isShown
    BY <2>1, HideKeeps
  <2> QED BY <2>2 DEF TheModal!DragNeverCloses, Guarded
<1>3. CASE TheModal!DismissButton
  <2>1. /\ widget' \in ModalStates /\ widget'.opt = widget.opt
        /\ ~widget'.isShown /\ widget'.pressed = widget.pressed
    BY <1>3, DismissStep DEF Sees
  <2> QED BY <2>1 DEF TheModal!DragNeverCloses, Guarded
<1>4. CASE TheModal!MouseDown
  <2>1. widget.pressed = "no"
    BY <1>4 DEF TheModal!MouseDown
  <2> QED BY <1>4, <2>1, MouseDownStep
          DEF TheModal!DragNeverCloses, SamePhase
<1>5. CASE TheModal!MouseLost
  BY <1>5, MouseLostStep DEF TheModal!DragNeverCloses, SamePhase
<1>6. CASE \E over \in {"dialog", "outside"} : TheModal!MouseUp(over)
  BY <1>6, MouseUpStep DEF TheModal!DragNeverCloses
<1>7. CASE TheModal!EndElement
  <2>1. /\ widget' \in ModalStates
        /\ widget'.pressed = widget.pressed /\ widget'.opt = widget.opt
        /\ widget'.isShown = widget.isShown
    BY <1>7, EndElementStep
  <2>2. widget.onElement # <<>>
    BY <1>7 DEF TheModal!EndElement
  <2> QED BY <2>1, <2>2 DEF TheModal!DragNeverCloses, Guarded
<1>8. CASE TheModal!EndDialog
  BY <1>8, EndDialogStep DEF TheModal!DragNeverCloses, SamePhase
<1>9. CASE \E b \in TheModal!Backdrops : TheModal!EndBackdrop(b)
  BY <1>9, EndBackdropStep DEF TheModal!DragNeverCloses, Guarded
<1> QED BY <1>1, <1>2, <1>3, <1>4, <1>5, <1>6, <1>7, <1>8, <1>9
        DEF TheModal!Next

-----------------------------------------------------------------------------
(***************************************************************************)
(* The phases of a modal on a page that waits for the effect of a call:    *)
(* away, coming, open, going and its backdrop going. Idle: nothing waits   *)
(* on a backdrop.                                                          *)
(***************************************************************************)
Idle == [b \in TheModal!Backdrops |-> <<>>]

Covered(m) == m.backdrop # 0 /\ m.drops = {m.backdrop}

Behind(m) == IF m.opt.backdrop = "false" THEN m.backdrop = 0 /\ m.drops = {}
                                         ELSE Covered(m)

Unbound(m) == ~m.isShown /\ ~m.trap /\ m.resize = 0

Closed(m) ==
    /\ Unbound(m) /\ ~m.display /\ ~m.padded /\ m.backdrop = 0
    /\ m.drops = {} /\ m.onElement = <<>> /\ m.onDrop = Idle

Opening(m) ==
    /\ m.isShown /\ ~m.display /\ m.body /\ ~m.savedPad
    /\ m.opt.backdrop # "false" /\ Covered(m) /\ m.onElement = <<>>
    /\ m.onDrop = [Idle EXCEPT ![m.backdrop] = <<"display">>]

Open(m) ==
    /\ m.isShown /\ m.display /\ m.open /\ m.trap /\ m.body /\ ~m.savedPad
    /\ Behind(m) /\ m.onElement = <<>> /\ m.onDrop = Idle

Closing(m) ==
    /\ Unbound(m) /\ ~m.savedPad /\ Behind(m)
    /\ m.onElement = <<"hideModal">> /\ m.onDrop = Idle

Fading(m) ==
    /\ Unbound(m) /\ ~m.display /\ ~m.savedPad
    /\ Covered(m) /\ m.onElement = <<>>
    /\ m.onDrop = [Idle EXCEPT ![m.backdrop] = <<"remove">>]

InPhase(m) == Closed(m) \/ Opening(m) \/ Open(m) \/ Closing(m) \/ Fading(m)

(***************************************************************************)
(* The phases are about what SamePhase keeps.                              *)
(***************************************************************************)
LEMMA PhaseStays ==
    ASSUME NEW m, NEW u, SamePhase(m, u), InPhase(m)
    PROVE  InPhase(u)
<1>1. Behind(u) = Behind(m) /\ Covered(u) = Covered(m)
  BY DEF SamePhase, Behind, Covered
<1>2. Unbound(u) = Unbound(m)
  BY DEF SamePhase, Unbound
<1>3. Open(m) => Open(u)
  BY <1>1 DEF SamePhase, Open
<1>4. Closed(m) => Closed(u)
  BY <1>2 DEF SamePhase, Closed
<1>5. Opening(m) => Opening(u)
  BY <1>1 DEF SamePhase, Opening
<1>6. Closing(m) => Closing(u)
  BY <1>1, <1>2 DEF SamePhase, Closing
<1>7. Fading(m) => Fading(u)
  BY <1>1, <1>2 DEF SamePhase, Fading
<1> QED BY <1>3, <1>4, <1>5, <1>6, <1>7 DEF InPhase

(***************************************************************************)
(* A callback that waits alone is the whole of its fold.                   *)
(***************************************************************************)
LEMMA OneEnds ==
    ASSUME NEW b, NEW c
    PROVE  TheModal!FoldLeft(TheModal!Ended, b, <<c>>) = TheModal!Ended(b, c)
<1> DEFINE W == [k \in 0..1 |-> IF k = 0 THEN {b}
                                         ELSE {TheModal!Ended(b, c)}]
<1>1. W[0] = {b} /\ W[1] = {TheModal!Ended(b, c)}
  OBVIOUS
<1>2. PICK q : q = <<c>>
  OBVIOUS
<1>3. DOMAIN q = 1..1 /\ q[1] = c /\ 1 \in Nat /\ 1 - 1 = 0
  BY <1>2
<1> HIDE DEF W
<1>4. b \in W[0]
  BY <1>1
<1>5. \A m \in 1..1 : \A s \in W[m - 1] : TheModal!Ended(s, q[m]) \in W[m]
  BY <1>1, <1>3
<1>6. ModalRan(1, W, b, q)
  BY <1>3, <1>4, <1>5, ModalFold
<1>7. TheModal!FoldLeft(TheModal!Ended, b, q) \in W[1]
  BY <1>6 DEF ModalRan
<1> QED BY <1>1, <1>2, <1>7

(***************************************************************************)
(* A modal whose element has gone is closed, at once or after its          *)
(* backdrop.                                                               *)
(***************************************************************************)
LEMMA PhaseGone ==
    ASSUME NEW m \in ModalType, Unbound(m), ~m.savedPad, Behind(m),
           m.onElement = <<>>, m.onDrop = Idle,
           NEW u, HideModalTo(m, u)
    PROVE  InPhase(u)
<1>1. PICK v \in ModalType :
          /\ Dimmed(m, v)
          /\ m.backdrop # 0 => Uncovers(v, u)
          /\ m.backdrop = 0 => /\ Rest(v, u) /\ SameDrop(v, u)
                               /\ HiddenAs(v, u)
  BY DEF HideModalTo
<1>2. /\ ~v.isShown /\ ~v.trap /\ v.resize = 0 /\ ~v.display
      /\ ~v.savedPad /\ v.drops = m.drops /\ v.backdrop = m.backdrop
      /\ v.onElement = <<>> /\ v.onDrop = Idle
  BY <1>1 DEF Dimmed, Rest, SameDrop, Unbound
<1>3. /\ Rest(v, u)
  BY <1>1 DEF Uncovers
<1>4. /\ ~u.isShown /\ u.resize = 0 /\ ~u.savedPad /\ u.onElement = <<>>
  BY <1>2, <1>3 DEF Rest
<1>5. CASE m.backdrop = 0
  <2>1. SameDrop(v, u) /\ HiddenAs(v, u)
    BY <1>1, <1>5
  <2>2. /\ ~u.trap /\ ~u.display /\ ~u.padded
        /\ u.backdrop = 0 /\ u.drops = m.drops /\ u.onDrop = Idle
    BY <1>2, <1>5, <2>1 DEF SameDrop, HiddenAs
  <2>3. m.drops = {}
    BY <1>5 DEF Behind, Covered
  <2> QED BY <1>4, <2>2, <2>3 DEF InPhase, Closed, Unbound
<1>6. CASE m.backdrop # 0
  <2>1. m.drops = {m.backdrop} /\ Uncovers(v, u)
    BY <1>1, <1>6 DEF Behind, Covered
  <2>2. PICK b \in TheModal!Backdrops : b = m.backdrop
    <3>1. m.backdrop \in 0..MaxBackdrops
      BY Zenon DEF ModalType
    <3> QED BY <1>6, <3>1, PageAssumption DEF TheModal!Backdrops
  <2>3. CASE v.opt.fade
    <3>1. /\ SameView(v, u) /\ u.drops = v.drops /\ u.backdrop = v.backdrop
          /\ u.onDrop = [v.onDrop EXCEPT ![v.backdrop] =
                           Append(v.onDrop[v.backdrop], "remove")]
      BY <2>1, <2>3 DEF Uncovers
    <3>2. u.onDrop = [Idle EXCEPT ![b] = <<"remove">>]
      <4>1. u.onDrop = [Idle EXCEPT ![b] = Append(Idle[b], "remove")]
        BY <1>2, <2>2, <3>1
      <4>2. Idle[b] = <<>>
        BY DEF Idle
      <4>3. Append(<<>>, "remove") = <<"remove">>
        OBVIOUS
      <4> QED BY <4>1, <4>2, <4>3, Zenon
    <3>3. Covered(u) /\ u.backdrop = b
      BY <1>2, <1>6, <2>1, <2>2, <3>1 DEF Covered
    <3>4. ~u.trap /\ ~u.display
      BY <1>2, <3>1 DEF SameView
    <3> QED BY <1>4, <3>2, <3>3, <3>4 DEF InPhase, Fading, Unbound
  <2>4. CASE ~v.opt.fade
    <3>1. HiddenAs(v, u) /\ Removed(v, u)
      BY <2>1, <2>4 DEF Uncovers
    <3>2. u.onDrop = Idle
      <4>1. u.onDrop = [Idle EXCEPT ![b] = <<>>]
        BY <1>2, <2>2, <3>1 DEF Removed
      <4> QED BY <4>1 DEF Idle
    <3>3. u.backdrop = 0 /\ u.drops = {}
      BY <1>2, <2>1, <3>1 DEF Removed
    <3>4. ~u.trap /\ ~u.display /\ ~u.padded
      BY <1>2, <3>1 DEF HiddenAs
    <3> QED BY <1>4, <3>2, <3>3, <3>4 DEF InPhase, Closed, Unbound
  <2> QED BY <2>3, <2>4
<1> QED BY <1>5, <1>6

(***************************************************************************)
(* A closed modal that is shown is open, at once or after its backdrop.    *)
(***************************************************************************)
LEMMA PhaseShown ==
    ASSUME NEW m \in ModalType, Closed(m), NEW u, ShowsModal(m, u)
    PROVE  InPhase(u)
<1>1. PICK v \in ModalType :
          /\ Bound(m, v)
          /\ m.opt.backdrop # "false" =>
                \E b \in TheModal!Backdrops :
                    b \notin m.drops /\ Covers(v, "display", b, u)
          /\ m.opt.backdrop = "false" =>
                Rest(v, u) /\ SameDrop(v, u) /\ Displayed(v, u)
  BY DEF ShowsModal
<1>2. /\ v.isShown /\ v.body /\ ~v.savedPad /\ ~v.display
      /\ v.onElement = <<>> /\ v.drops = {} /\ v.backdrop = 0
      /\ v.onDrop = Idle /\ v.opt = m.opt
  BY <1>1 DEF Bound, Closed
<1>3. CASE m.opt.backdrop = "false"
  <2>1. Rest(v, u) /\ SameDrop(v, u) /\ Displayed(v, u)
    BY <1>1, <1>3
  <2>2. /\ u.isShown /\ u.display /\ u.open /\ u.trap /\ u.body
        /\ ~u.savedPad /\ u.onElement = <<>> /\ u.onDrop = Idle
    BY <1>2, <2>1 DEF Rest, SameDrop, Displayed
  <2>3. Behind(u)
    BY <1>2, <1>3, <2>1 DEF Rest, SameDrop, Behind
  <2> QED BY <2>2, <2>3 DEF InPhase, Open
<1>4. CASE m.opt.backdrop # "false"
  <2>1. PICK b \in TheModal!Backdrops : Covers(v, "display", b, u)
    BY <1>1, <1>4
  <2>2. /\ u.isShown /\ ~u.savedPad /\ u.onElement = <<>>
        /\ u.opt.backdrop # "false"
    BY <1>2, <1>4, <2>1 DEF Covers, Rest
  <2>3. Covered(u) /\ u.backdrop = b
    <3>1. b # 0
      BY PageAssumption DEF TheModal!Backdrops
    <3> QED BY <1>2, <2>1, <3>1 DEF Covers, Covered
  <2>4. CASE v.opt.fade
    <3>1. SameView(v, u) /\ u.onDrop = [Idle EXCEPT ![b] = <<"display">>]
      BY <1>2, <2>1, <2>4 DEF Covers
    <3>2. ~u.display /\ u.body
      BY <1>2, <3>1 DEF SameView
    <3> QED BY <2>2, <2>3, <3>1, <3>2 DEF InPhase, Opening
  <2>5. CASE ~v.opt.fade
    <3>1. Displayed(v, u) /\ u.onDrop = Idle
      BY <1>2, <2>1, <2>5 DEF Covers, Called
    <3>2. Behind(u)
      BY <2>2, <2>3 DEF Behind
    <3> QED BY <1>2, <2>2, <3>1, <3>2 DEF InPhase, Open, Displayed
  <2> QED BY <2>4, <2>5
<1> QED BY <1>3, <1>4

(***************************************************************************)
(* An open modal that is hidden goes.                                      *)
(***************************************************************************)
LEMMA PhaseHidden ==
    ASSUME NEW m \in ModalType, Open(m), NEW u, HidesModal(m, u)
    PROVE  InPhase(u)
<1>1. CASE m.opt.fade
  <2>1. ShutOff(m, u) /\ u.onElement = Append(m.onElement, "hideModal")
    BY <1>1 DEF HidesModal
  <2>2. u.onElement = <<"hideModal">>
    <3>1. Append(<<>>, "hideModal") = <<"hideModal">>
      OBVIOUS
    <3> QED BY <2>1, <3>1 DEF Open
  <2>3. Unbound(u) /\ ~u.savedPad /\ Behind(u) /\ u.onDrop = Idle
    BY <2>1 DEF ShutOff, Open, Unbound, Behind, Covered
  <2> QED BY <2>2, <2>3 DEF InPhase, Closing
<1>2. CASE ~m.opt.fade
  <2>1. PICK v \in ModalType :
            ShutOff(m, v) /\ v.onElement = m.onElement /\ HideModalTo(v, u)
    BY <1>2 DEF HidesModal
  <2>2. /\ Unbound(v) /\ ~v.savedPad /\ Behind(v) /\ v.onElement = <<>>
        /\ v.onDrop = Idle
    BY <2>1 DEF ShutOff, Open, Unbound, Behind, Covered
  <2> QED BY <2>1, <2>2, PhaseGone
<1> QED BY <1>1, <1>2

(***************************************************************************)
(* The transitions of a modal in a phase end in a phase.                   *)
(***************************************************************************)
LEMMA ElementPhase ==
    ASSUME widget \in ModalStates, InPhase(widget), TheModal!EndElement
    PROVE  InPhase(widget')
<1>1. Closing(widget)
  BY DEF InPhase, Closed, Opening, Open, Fading, TheModal!EndElement
<1>2. PICK m : m = [widget EXCEPT !.onElement = <<>>]
  OBVIOUS
<1>3. widget' = TheModal!Ended(m, "hideModal")
  <2>1. widget.onElement = <<"hideModal">>
    BY <1>1 DEF Closing
  <2>2. widget' = TheModal!FoldLeft(TheModal!Ended, m, <<"hideModal">>)
    BY <1>2, <2>1 DEF TheModal!EndElement
  <2> QED BY <2>2, OneEnds
<1>4. widget' = TheModal!HideModal(m)
  BY <1>3 DEF TheModal!Ended
<1>5. m \in ModalType
  <2>1. <<>> \in Seq({"hideModal"})
    OBVIOUS
  <2> QED BY <1>2, <2>1, Zenon DEF ModalStates, ModalType
<1>6. /\ m.onElement = <<>> /\ m.isShown = widget.isShown
      /\ m.trap = widget.trap /\ m.resize = widget.resize
      /\ m.savedPad = widget.savedPad /\ m.opt = widget.opt
      /\ m.backdrop = widget.backdrop /\ m.drops = widget.drops
      /\ m.onDrop = widget.onDrop
  BY <1>2, Zenon DEF ModalStates, ModalType
<1>7. Unbound(m) /\ ~m.savedPad /\ Behind(m) /\ m.onDrop = Idle
  BY <1>1, <1>6 DEF Closing, Unbound, Behind, Covered
<1>8. HideModalTo(m, widget')
  BY <1>4, <1>5, <1>7, HideModalShut DEF Unbound
<1> QED BY <1>5, <1>6, <1>7, <1>8, PhaseGone

(***************************************************************************)
(* The same for the transition of its backdrop.                            *)
(***************************************************************************)
LEMMA BackdropPhase ==
    ASSUME widget \in ModalStates, InPhase(widget),
           NEW b \in TheModal!Backdrops, TheModal!EndBackdrop(b)
    PROVE  InPhase(widget')
<1>0. widget \in ModalType
  BY DEF ModalStates
<1>1. PICK d \in {"display", "remove"} :
          /\ widget.onDrop = [Idle EXCEPT ![widget.backdrop] = <<d>>]
          /\ d = "display" => Opening(widget)
          /\ d = "remove" => Fading(widget)
  <2>1. widget.onDrop # Idle
    <3>1. Idle[b] = <<>>
      BY DEF Idle
    <3> QED BY <3>1 DEF TheModal!EndBackdrop
  <2>2. CASE Opening(widget)
    <3>1. widget.onDrop = [Idle EXCEPT ![widget.backdrop] = <<"display">>]
      BY <2>2 DEF Opening
    <3> QED BY <2>2, <3>1
  <2>3. CASE Fading(widget)
    <3>1. widget.onDrop = [Idle EXCEPT ![widget.backdrop] = <<"remove">>]
      BY <2>3 DEF Fading
    <3> QED BY <2>3, <3>1
  <2> QED BY <2>1, <2>2, <2>3 DEF InPhase, Closed, Open, Closing
<1>2. Covered(widget) /\ widget.onElement = <<>>
  BY <1>1 DEF Opening, Fading
<1>3. widget.backdrop = b /\ widget.onDrop[b] = <<d>>
  <2>1. widget.onDrop[b] # <<>>
    BY DEF TheModal!EndBackdrop
  <2> QED BY <1>1, <2>1 DEF Idle
<1>4. PICK m : m = [widget EXCEPT !.onDrop = Idle]
  OBVIOUS
<1>5. [widget EXCEPT !.onDrop[b] = <<>>] = m
  <2>1. [widget.onDrop EXCEPT ![b] = <<>>] = Idle
    BY <1>1, <1>3 DEF Idle
  <2>2. [widget EXCEPT !.onDrop[b] = <<>>]
          = [widget EXCEPT !.onDrop = [widget.onDrop EXCEPT ![b] = <<>>]]
    OBVIOUS
  <2> QED BY <1>4, <2>1, <2>2
<1>6. widget' = TheModal!Ended(m, d)
  <2>1. widget' = TheModal!FoldLeft(TheModal!Ended, m, <<d>>)
    BY <1>3, <1>5 DEF TheModal!EndBackdrop
  <2> QED BY <2>1, OneEnds
<1>7. m \in ModalType
  <2>1. <<>> \in Seq({"display", "hidden", "remove"})
    OBVIOUS
  <2>2. Idle \in [TheModal!Backdrops -> Seq({"display", "hidden", "remove"})]
    BY <2>1, Zenon DEF Idle
  <2> QED BY <1>0, <1>4, <2>2, Zenon DEF ModalType
<1>8. /\ m.opt = widget.opt /\ m.isShown = widget.isShown
      /\ m.resize = widget.resize /\ m.display = widget.display
      /\ m.open = widget.open /\ m.trap = widget.trap
      /\ m.body = widget.body /\ m.savedPad = widget.savedPad
      /\ m.onElement = widget.onElement /\ m.onDrop = Idle
      /\ m.backdrop = widget.backdrop /\ m.drops = widget.drops
  BY <1>0, <1>4, Zenon DEF ModalType
<1>9. CASE d = "display"
  <2>1. Opening(widget)
    BY <1>1, <1>9
  <2>2. widget' = TheModal!Display(m)
    BY <1>6, <1>9 DEF TheModal!Ended
  <2>3. /\ Rest(m, widget') /\ SameDrop(m, widget')
        /\ Displayed(m, widget')
    BY <1>7, <2>2, DisplayGoes
  <2>4. Behind(widget')
    BY <1>8, <2>1, <2>3 DEF Rest, SameDrop, Opening, Covered, Behind
  <2>5. /\ widget'.isShown /\ ~widget'.savedPad
        /\ widget'.onElement = <<>> /\ widget'.onDrop = Idle
    BY <1>8, <2>1, <2>3 DEF Rest, SameDrop, Opening
  <2>6. /\ widget'.display /\ widget'.open /\ widget'.trap /\ widget'.body
    BY <1>8, <2>1, <2>3 DEF Displayed, Opening
  <2> QED BY <2>4, <2>5, <2>6 DEF InPhase, Open
<1>10. CASE d = "remove"
  <2>1. Fading(widget)
    BY <1>1, <1>10
  <2>2. widget' = TheModal!CallbackRemove(m)
    BY <1>6, <1>10 DEF TheModal!Ended
  <2>3. Rest(m, widget') /\ HiddenAs(m, widget') /\ Removed(m, widget')
    BY <1>7, <2>2, RemoveGoes
  <2>4. widget'.backdrop = 0 /\ widget'.drops = {} /\ widget'.onDrop = Idle
    BY <1>2, <1>3, <1>8, <2>3 DEF Removed, Covered, Idle
  <2>5. Unbound(widget') /\ ~widget'.display /\ ~widget'.padded
    BY <1>8, <2>1, <2>3 DEF Rest, HiddenAs, Fading, Unbound
  <2>6. widget'.onElement = <<>>
    BY <1>2, <1>8, <2>3 DEF Rest
  <2> QED BY <2>4, <2>5, <2>6 DEF InPhase, Closed
<1> QED BY <1>9, <1>10

(***************************************************************************)
(* On a page that waits, every step leads from phase to phase.             *)
(***************************************************************************)
LEMMA PhaseStep ==
    ASSUME widget \in ModalStates, InPhase(widget), widget.opt.patient,
           TheModal!Next
    PROVE  InPhase(widget')
<1>0. widget \in ModalType
  BY DEF ModalStates
<1>1. ASSUME NEW m \in ModalType, Open(m)
      PROVE  InPhase(TheModal!Hide(m))
  BY <1>1, HideModalGoes, PhaseHidden DEF Open
<1>2. CASE TheModal!Toggle
  <2>1. TheModal!Settled
    BY <1>2 DEF TheModal!Toggle
  <2>2. \A d : widget.onDrop = [Idle EXCEPT ![widget.backdrop] = <<d>>]
                   => widget.backdrop = 0
    <3>1. SUFFICES ASSUME NEW d, widget.backdrop # 0,
                          widget.onDrop =
                              [Idle EXCEPT ![widget.backdrop] = <<d>>]
                   PROVE  FALSE
      OBVIOUS
    <3>2. widget.backdrop \in TheModal!Backdrops
      <4>1. widget.backdrop \in 0..MaxBackdrops
        BY <1>0, Zenon DEF ModalType
      <4> QED BY <3>1, <4>1, PageAssumption DEF TheModal!Backdrops
    <3>3. widget.onDrop[widget.backdrop] = <<d>>
      BY <3>1, <3>2 DEF Idle
    <3>4. <<d>> # <<>>
      OBVIOUS
    <3> QED BY <2>1, <3>2, <3>3, <3>4, Zenon DEF TheModal!Settled
  <2>3. ~Opening(widget) /\ ~Fading(widget)
    BY <2>2 DEF Opening, Fading, Covered
  <2>4. ~Closing(widget)
    BY <2>1 DEF TheModal!Settled, Closing
  <2>5. CASE Open(widget)
    <3>1. widget' = TheModal!Hide(widget)
      BY <1>2, <2>5 DEF TheModal!Toggle, Open
    <3> QED BY <1>0, <1>1, <2>5, <3>1
  <2>6. CASE Closed(widget)
    <3>1. widget' = TheModal!Show(widget) /\ ~widget.isShown
      BY <1>2, <2>6 DEF TheModal!Toggle, Closed, Unbound
    <3>2. Cardinality(widget.drops) < MaxBackdrops
      <4>1. Cardinality(widget.drops) + Len(widget.onElement)
                < MaxBackdrops
        BY <1>2, <3>1, ModalRoom DEF TheModal!Toggle
      <4>2. widget.drops = {} /\ widget.onElement = <<>>
        BY <2>6 DEF Closed
      <4>3. Cardinality({}) = 0 /\ Len(<<>>) = 0
        BY FS_EmptySet
      <4> QED BY <4>1, <4>2, <4>3
    <3>3. ShowsModal(widget, widget')
      BY <1>0, <3>1, <3>2, ShowModal
    <3> QED BY <1>0, <2>6, <3>3, PhaseShown
  <2> QED BY <2>3, <2>4, <2>5, <2>6 DEF InPhase
<1>3. ASSUME NEW m \in ModalStates, InPhase(m), m.display
      PROVE  InPhase(TheModal!Hide(m))
  <2>1. m \in ModalType
    BY DEF ModalStates
  <2>2. CASE ~m.isShown
    BY <1>3, <2>2 DEF TheModal!Hide
  <2>3. CASE m.isShown
    <3>1. Open(m)
      BY <1>3, <2>3
         DEF InPhase, Closed, Opening, Closing, Fading, Unbound
    <3> QED BY <1>1, <2>1, <3>1
  <2> QED BY <2>2, <2>3
<1>4. CASE TheModal!Escape \/ TheModal!DismissButton
  <2>1. widget.display
    BY <1>4 DEF TheModal!Escape, TheModal!DismissButton
  <2>2. InPhase(TheModal!Hide(widget))
    BY <1>3, <2>1
  <2>3. CASE TheModal!Escape
    BY <2>2, <2>3 DEF TheModal!Escape
  <2>4. CASE TheModal!DismissButton
    BY <2>2, <2>4, DismissStep, PhaseStays DEF Sees
  <2> QED BY <1>4, <2>3, <2>4
<1>5. CASE TheModal!MouseDown
  BY <1>5, MouseDownStep, PhaseStays
<1>6. CASE TheModal!MouseLost
  BY <1>6, MouseLostStep, PhaseStays
<1>7. CASE \E over \in {"dialog", "outside"} : TheModal!MouseUp(over)
  <2>1. PICK over \in {"dialog", "outside"} : TheModal!MouseUp(over)
    BY <1>7
  <2>2. widget.display
    BY <2>1 DEF TheModal!MouseUp
  <2>3. PICK up \in ModalStates, s \in ModalStates :
            /\ SamePhase(widget, up) /\ SamePhase(up, s)
            /\ widget' = s \/ widget' = TheModal!Hide(s)
    BY <2>1, MouseUpStep
  <2>4. InPhase(s) /\ s.display
    BY <2>2, <2>3, PhaseStays DEF SamePhase
  <2>5. CASE widget' = s
    BY <2>4, <2>5
  <2>6. CASE widget' = TheModal!Hide(s)
    BY <1>3, <2>4, <2>6
  <2> QED BY <2>3, <2>5, <2>6
<1>8. CASE TheModal!EndElement
  BY <1>8, ElementPhase
<1>9. CASE TheModal!EndDialog
  BY <1>9, EndDialogStep, PhaseStays
<1>10. CASE \E b \in TheModal!Backdrops : TheModal!EndBackdrop(b)
  BY <1>10, BackdropPhase
<1> QED BY <1>2, <1>4, <1>5, <1>6, <1>7, <1>8, <1>9, <1>10
        DEF TheModal!Next

-----------------------------------------------------------------------------
(***************************************************************************)
(* The inductive invariant of a modal.                                     *)
(***************************************************************************)
ModalInv ==
    kind = "modal" => /\ widget \in ModalStates
                      /\ widget.opt.patient =>
                            InPhase(widget) /\ Guarded(widget)

(***************************************************************************)
(* It holds at first, and every step keeps it.                             *)
(***************************************************************************)
LEMMA ModalHolds ==
    /\ Init => ModalInv
    /\ ModalInv /\ [Next]_vars => ModalInv'
<1>1. Init => ModalInv
  <2> SUFFICES ASSUME Init, kind = "modal"
               PROVE  /\ widget \in ModalStates
                      /\ InPhase(widget) /\ Guarded(widget)
    BY DEF ModalInv
  <2>1. TheModal!Init
    BY DEF Init
  <2>2. PICK o \in TheModal!Options :
            widget = [opt |-> o, isShown |-> FALSE, backdrop |-> 0,
                      drops |-> {}, display |-> FALSE, open |-> FALSE,
                      body |-> FALSE, padded |-> FALSE, savedPad |-> FALSE,
                      dismiss |-> 0, clicks |-> 0, escape |-> 0,
                      resize |-> 0, trap |-> FALSE,
                      mousedown |-> FALSE, mouseups |-> 0,
                      ignoreBackdropClick |-> FALSE, pressed |-> "no",
                      onElement |-> <<>>, onDialog |-> 0, onDrop |-> Idle]
    BY <2>1, Zenon DEF TheModal!Init, Idle
  <2>3. widget \in ModalType
    <3>1. <<>> \in Seq({"display", "hidden", "remove"})
          /\ <<>> \in Seq({"hideModal"}) /\ 0 \in Nat
      OBVIOUS
    <3>2. Idle \in [TheModal!Backdrops ->
                      Seq({"display", "hidden", "remove"})]
      BY <3>1, Zenon DEF Idle
    <3>3. 0 \in 0..MaxBackdrops
      BY PageAssumption
    <3>4. {} \in SUBSET TheModal!Backdrops
      OBVIOUS
    <3>5. "no" \in {"no", "dialog", "outside"} /\ FALSE \in BOOLEAN
      OBVIOUS
    <3> QED BY <2>2, <3>1, <3>2, <3>3, <3>4, <3>5, Zenon DEF ModalType
  <2>4. /\ ~widget.isShown /\ ~widget.trap /\ widget.resize = 0
        /\ ~widget.display /\ ~widget.padded /\ ~widget.body
        /\ widget.backdrop = 0 /\ widget.drops = {}
        /\ widget.onElement = <<>> /\ widget.onDrop = Idle
        /\ widget.dismiss = 0 /\ widget.clicks = 0 /\ widget.escape = 0
    BY <2>2, Zenon
  <2>5. Fits(widget)
    <3>1. Cardinality({}) = 0 /\ Len(<<>>) = 0 /\ MaxBackdrops \in Nat
      BY FS_EmptySet, PageAssumption
    <3> QED BY <2>4, <3>1 DEF Fits
  <2>6. Handlers(widget) /\ Freed(widget)
    BY <2>4 DEF Handlers, Freed, Away
  <2>7. InPhase(widget) /\ Guarded(widget)
    BY <2>4 DEF InPhase, Closed, Unbound, Guarded
  <2> QED BY <2>3, <2>5, <2>6, <2>7 DEF ModalStates
<1>2. ModalInv /\ [Next]_vars => ModalInv'
  <2> SUFFICES ASSUME ModalInv, [Next]_vars, kind' = "modal"
               PROVE  /\ widget' \in ModalStates
                      /\ widget'.opt.patient =>
                            InPhase(widget') /\ Guarded(widget')
    BY DEF ModalInv
  <2>1. /\ widget \in ModalStates
        /\ widget.opt.patient => InPhase(widget) /\ Guarded(widget)
        /\ TheModal!Next \/ widget' = widget
    BY DEF Next, vars, ModalInv
  <2>2. CASE widget' = widget
    BY <2>1, <2>2
  <2>3. CASE TheModal!Next
    <3>1. InPhase(widget) /\ widget.isShown => widget.onElement = <<>>
      BY DEF InPhase, Closed, Opening, Open, Closing, Fading, Unbound
    <3> QED BY <2>1, <2>3, <3>1, ModalStep, PhaseStep
  <2> QED BY <2>1, <2>2, <2>3
<1> QED BY <1>1, <1>2

(***************************************************************************)
(* However fast show and hide are called, a closed modal frees the body,   *)
(* for any number of callbacks that wait (callbackRemove waits last on its *)
(* backdrop, or the modal has left).                                       *)
(***************************************************************************)
THEOREM FreesTheorem == Spec => []ClosedFreesBody
<1>1. ModalInv => ClosedFreesBody
  <2> SUFFICES ASSUME ModalInv, kind = "modal", TheModal!Settled,
                      ~widget.isShown
               PROVE  /\ ~widget.body /\ widget.backdrop = 0
                      /\ widget.dismiss + widget.clicks + widget.escape = 0
    BY DEF ClosedFreesBody, TheModal!ClosedFreesBody
  <2>1. widget \in ModalStates
    BY DEF ModalInv
  <2>2. ~Going(widget)
    <3>1. SUFFICES ASSUME Going(widget) PROVE FALSE
      OBVIOUS
    <3>2. widget.backdrop \in TheModal!Backdrops
      <4>1. widget.backdrop \in 0..MaxBackdrops
        BY <2>1, Zenon DEF ModalStates, ModalType
      <4> QED BY <3>1, <4>1, PageAssumption DEF TheModal!Backdrops, Going
    <3>3. widget.onDrop[widget.backdrop] = <<>>
      BY <3>2 DEF TheModal!Settled
    <3> QED BY <3>1, <3>3 DEF Going, Removes
  <2>3. Away(widget)
    BY <2>1, <2>2 DEF ModalStates, Freed, TheModal!Settled
  <2> QED BY <2>1, <2>3 DEF ModalStates, Handlers, Away
<1> QED BY <1>1, ModalHolds, PTL DEF Spec

(***************************************************************************)
(* What a settled modal on a page that waits is: away or open.             *)
(***************************************************************************)
LEMMA SettledPhase ==
    ASSUME ModalInv, kind = "modal", widget.opt.patient, TheModal!Settled
    PROVE  Closed(widget) \/ Open(widget)
<1>1. InPhase(widget) /\ widget \in ModalType
  BY DEF ModalInv, ModalStates
<1>2. ~Closing(widget)
  BY DEF TheModal!Settled, Closing
<1>3. ASSUME Opening(widget) \/ Fading(widget) PROVE FALSE
  <2>1. PICK d : widget.onDrop = [Idle EXCEPT ![widget.backdrop] = <<d>>]
    BY <1>3 DEF Opening, Fading
  <2>2. widget.backdrop \in TheModal!Backdrops
    <3>1. widget.backdrop \in 0..MaxBackdrops
      BY <1>1, Zenon DEF ModalType
    <3> QED BY <1>3, <3>1, PageAssumption
            DEF TheModal!Backdrops, Opening, Fading, Covered
  <2>3. widget.onDrop[widget.backdrop] = <<d>>
    BY <2>1, <2>2 DEF Idle
  <2>4. <<d>> # <<>>
    OBVIOUS
  <2> QED BY <2>2, <2>3, <2>4, Zenon DEF TheModal!Settled
<1> QED BY <1>1, <1>2, <1>3 DEF InPhase

(***************************************************************************)
(* A modal of a page that waits leaves nothing behind when it is closed    *)
(* (hide, hideModal and the callbacks of backdrop).                        *)
(***************************************************************************)
THEOREM LeavesTheorem == Spec => []ClosedLeavesNothing
<1>1. ModalInv => ClosedLeavesNothing
  BY SettledPhase DEF ClosedLeavesNothing, TheModal!ClosedLeavesNothing,
                      Closed, Open, Unbound
<1> QED BY <1>1, ModalHolds, PTL DEF Spec

(***************************************************************************)
(* A modal of a page that waits is on the screen when it is open, with its *)
(* trap of the focus and one backdrop at most (show and its callback).     *)
(***************************************************************************)
THEOREM OnScreenTheorem == Spec => []OpenIsOnScreen
<1>1. ModalInv => OpenIsOnScreen
  <2> SUFFICES ASSUME ModalInv, kind = "modal", widget.opt.patient,
                      TheModal!Settled, widget.isShown
               PROVE  /\ widget.display /\ widget.open /\ widget.trap
                      /\ widget.body
                      /\ TheModal!Cardinality(widget.drops) =
                           IF widget.opt.backdrop = "false" THEN 0 ELSE 1
    BY DEF OpenIsOnScreen, TheModal!OpenIsOnScreen
  <2>1. Open(widget)
    BY SettledPhase DEF Closed, Unbound
  <2>2. TheModal!Cardinality(widget.drops) = Cardinality(widget.drops)
    BY ModalCount
  <2>3. CASE widget.opt.backdrop = "false"
    BY <2>1, <2>2, <2>3, FS_EmptySet DEF Open, Behind
  <2>4. CASE widget.opt.backdrop # "false"
    <3>1. widget.drops = {widget.backdrop}
      BY <2>1, <2>4 DEF Open, Behind, Covered
    <3>2. Cardinality({widget.backdrop}) = 1
      BY FS_Singleton
    <3> QED BY <2>1, <2>2, <2>4, <3>1, <3>2 DEF Open
  <2> QED BY <2>3, <2>4
<1> QED BY <1>1, ModalHolds, PTL DEF Spec

(***************************************************************************)
(* On a page that waits for the effect of a call and makes none while the  *)
(* button is down, a drag that begins in the dialog does not close the     *)
(* modal: one handler of a click is bound, and the handler of mouseup that *)
(* mousedown has set tells it to ignore the click.                         *)
(***************************************************************************)
THEOREM DragTheorem == Spec => DragNeverCloses
<1>1. ModalInv /\ [Next]_vars
          => [kind = "modal" => TheModal!DragNeverCloses]_vars
  <2> SUFFICES ASSUME ModalInv, Next, kind = "modal"
               PROVE  TheModal!DragNeverCloses
    OBVIOUS
  <2>1. widget \in ModalStates /\ TheModal!Next
    BY DEF ModalInv, Next
  <2>2. CASE widget.opt.patient
    <3>1. InPhase(widget) /\ Guarded(widget)
      BY <2>2 DEF ModalInv
    <3>2. widget.isShown => widget.onElement = <<>>
      BY <3>1 DEF InPhase, Closed, Opening, Open, Closing, Fading, Unbound
    <3> QED BY <2>1, <2>2, <3>1, <3>2, ModalStep
  <2> QED BY <2>2 DEF TheModal!DragNeverCloses
<1> QED BY <1>1, ModalHolds, PTL DEF Spec, DragNeverCloses

-----------------------------------------------------------------------------
(***************************************************************************)
(* The accordion: the states of its panels, and what one panel is put to   *)
(* while the others stay as they are.                                      *)
(***************************************************************************)
PanelsType ==
    [parent : BOOLEAN, animate : BOOLEAN, vetoes : SUBSET {"show", "hide"},
     opened : SUBSET Panels, bare : BOOLEAN, patient : BOOLEAN,
     cls : [Panels -> {"collapse", "collapsing", "in"}],
     data : [Panels -> {"none", "idle", "busy"}],
     grouped : [Panels -> BOOLEAN],
     waiting : [Panels -> Seq(TheCollapse!Callbacks)]]

SameAccordion(a, u) ==
    /\ u \in PanelsType /\ u.parent = a.parent /\ u.animate = a.animate
    /\ u.vetoes = a.vetoes /\ u.opened = a.opened
    /\ u.bare = a.bare /\ u.patient = a.patient

SamePanel(a, u, q) ==
    /\ u.cls[q] = a.cls[q] /\ u.data[q] = a.data[q]
    /\ u.grouped[q] = a.grouped[q] /\ u.waiting[q] = a.waiting[q]

Only(a, u, p) ==
    SameAccordion(a, u) /\ \A q \in Panels \ {p} : SamePanel(a, u, q)

IsPut(a, u, p, c, d, g, w) ==
    /\ Only(a, u, p) /\ u.cls[p] = c /\ u.data[p] = d
    /\ u.grouped[p] = g /\ u.waiting[p] = w

Puts(a, u, p, c, d, g, w) ==
    u = [a EXCEPT !.cls = [a.cls EXCEPT ![p] = c],
                  !.data = [a.data EXCEPT ![p] = d],
                  !.grouped = [a.grouped EXCEPT ![p] = g],
                  !.waiting = [a.waiting EXCEPT ![p] = w]]

(***************************************************************************)
(* A panel is put to a class, a state of its instance and callbacks.       *)
(***************************************************************************)
LEMMA PutGoes ==
    ASSUME NEW a \in PanelsType, NEW p \in Panels,
           NEW c \in {"collapse", "collapsing", "in"},
           NEW d \in {"none", "idle", "busy"}, NEW g \in BOOLEAN,
           NEW w \in Seq(TheCollapse!Callbacks),
           NEW u, Puts(a, u, p, c, d, g, w)
    PROVE  IsPut(a, u, p, c, d, g, w)
<1>1. /\ a.cls \in [Panels -> {"collapse", "collapsing", "in"}]
      /\ a.data \in [Panels -> {"none", "idle", "busy"}]
      /\ a.grouped \in [Panels -> BOOLEAN]
      /\ a.waiting \in [Panels -> Seq(TheCollapse!Callbacks)]
  BY Zenon DEF PanelsType
<1>2. PICK cls \in [Panels -> {"collapse", "collapsing", "in"}] :
          cls = [a.cls EXCEPT ![p] = c]
  BY <1>1, Zenon
<1>3. PICK data \in [Panels -> {"none", "idle", "busy"}] :
          data = [a.data EXCEPT ![p] = d]
  BY <1>1, Zenon
<1>3a. PICK grouped \in [Panels -> BOOLEAN] :
          grouped = [a.grouped EXCEPT ![p] = g]
  BY <1>1, Zenon
<1>4. PICK waiting \in [Panels -> Seq(TheCollapse!Callbacks)] :
          waiting = [a.waiting EXCEPT ![p] = w]
  BY <1>1, Zenon
<1>5. u = [a EXCEPT !.cls = cls, !.data = data, !.grouped = grouped,
                    !.waiting = waiting]
  BY <1>2, <1>3, <1>3a, <1>4, Zenon DEF Puts
<1>6. u \in PanelsType
  BY <1>5, Zenon DEF PanelsType
<1>7. /\ u.parent = a.parent /\ u.animate = a.animate
      /\ u.vetoes = a.vetoes /\ u.opened = a.opened
      /\ u.bare = a.bare /\ u.patient = a.patient
      /\ u.cls = cls /\ u.data = data /\ u.grouped = grouped
      /\ u.waiting = waiting
  BY <1>5, Zenon DEF PanelsType
<1>8. \A q \in Panels \ {p} : SamePanel(a, u, q)
  BY <1>1, <1>2, <1>3, <1>3a, <1>4, <1>7 DEF SamePanel
<1>9. u.cls[p] = c /\ u.data[p] = d /\ u.grouped[p] = g /\ u.waiting[p] = w
  BY <1>1, <1>2, <1>3, <1>3a, <1>4, <1>7
<1> QED BY <1>6, <1>7, <1>8, <1>9 DEF IsPut, Only, SameAccordion

(***************************************************************************)
(* The fields of one panel.                                                *)
(***************************************************************************)
LEMMA PanelFacts ==
    ASSUME NEW a \in PanelsType, NEW p \in Panels
    PROVE  /\ a.cls[p] \in {"collapse", "collapsing", "in"}
           /\ a.data[p] \in {"none", "idle", "busy"}
           /\ a.grouped[p] \in BOOLEAN
           /\ a.waiting[p] \in Seq(TheCollapse!Callbacks)
           /\ [a.cls EXCEPT ![p] = a.cls[p]] = a.cls
           /\ [a.data EXCEPT ![p] = a.data[p]] = a.data
           /\ [a.grouped EXCEPT ![p] = a.grouped[p]] = a.grouped
           /\ [a.waiting EXCEPT ![p] = a.waiting[p]] = a.waiting
<1>1. /\ a.cls \in [Panels -> {"collapse", "collapsing", "in"}]
      /\ a.data \in [Panels -> {"none", "idle", "busy"}]
      /\ a.grouped \in [Panels -> BOOLEAN]
      /\ a.waiting \in [Panels -> Seq(TheCollapse!Callbacks)]
  BY Zenon DEF PanelsType
<1>2. /\ a.cls[p] \in {"collapse", "collapsing", "in"}
      /\ a.data[p] \in {"none", "idle", "busy"}
      /\ a.grouped[p] \in BOOLEAN
      /\ a.waiting[p] \in Seq(TheCollapse!Callbacks)
  BY <1>1, Zenon
<1>3. /\ [a.cls EXCEPT ![p] = a.cls[p]] = a.cls
      /\ [a.data EXCEPT ![p] = a.data[p]] = a.data
      /\ [a.grouped EXCEPT ![p] = a.grouped[p]] = a.grouped
      /\ [a.waiting EXCEPT ![p] = a.waiting[p]] = a.waiting
  BY <1>1
<1> QED BY <1>2, <1>3

(***************************************************************************)
(* complete, of show and of hide.                                          *)
(***************************************************************************)
LEMMA CompleteGoes ==
    ASSUME NEW a \in PanelsType, NEW p \in Panels,
           NEW k \in TheCollapse!Callbacks
    PROVE  IsPut(a, TheCollapse!Complete(p, a, k), p,
                 IF k.event = "shown" \/ a.cls[p] = "in" THEN "in"
                                                         ELSE "collapse",
                 IF k.own THEN "idle" ELSE a.data[p], a.grouped[p],
                 a.waiting[p])
<1>1. PICK c \in {"collapse", "collapsing", "in"} :
          c = IF k.event = "shown" \/ a.cls[p] = "in" THEN "in"
                                                      ELSE "collapse"
  OBVIOUS
<1>2. PICK d \in {"none", "idle", "busy"} :
          d = IF k.own THEN "idle" ELSE a.data[p]
  BY PanelFacts
<1>3. PICK u : u = TheCollapse!Complete(p, a, k)
  OBVIOUS
<1>4. u = [a EXCEPT !.cls[p] = c, !.data[p] = d]
  BY <1>1, <1>2, <1>3 DEF TheCollapse!Complete
<1>5. Puts(a, u, p, c, d, a.grouped[p], a.waiting[p])
  <2>1. u = [a EXCEPT !.cls = [a.cls EXCEPT ![p] = c],
                      !.data = [a.data EXCEPT ![p] = d]]
    BY <1>4
  <2>2. u = [a EXCEPT !.cls = [a.cls EXCEPT ![p] = c],
                      !.data = [a.data EXCEPT ![p] = d],
                      !.grouped = a.grouped, !.waiting = a.waiting]
    BY <2>1 DEF PanelsType
  <2>3. /\ [a.waiting EXCEPT ![p] = a.waiting[p]] = a.waiting
        /\ [a.grouped EXCEPT ![p] = a.grouped[p]] = a.grouped
    BY PanelFacts
  <2> QED BY <2>2, <2>3, Zenon DEF Puts
<1>6. IsPut(a, u, p, c, d, a.grouped[p], a.waiting[p])
  <2>1. /\ a.grouped[p] \in BOOLEAN
        /\ a.waiting[p] \in Seq(TheCollapse!Callbacks)
    BY PanelFacts
  <2> QED BY <1>5, <2>1, PutGoes, Zenon
<1> QED BY <1>1, <1>2, <1>3, <1>6

(***************************************************************************)
(* What show and hide have in common.                                      *)
(***************************************************************************)
Started(a, u, p, event, own) ==
    /\ a.animate =>
          IsPut(a, u, p, "collapsing", IF own THEN "busy" ELSE a.data[p],
                a.grouped[p],
                Append(a.waiting[p], [event |-> event, own |-> own]))
    /\ ~a.animate =>
          IsPut(a, u, p, IF event = "shown" THEN "in" ELSE "collapse",
                IF own THEN "idle" ELSE a.data[p], a.grouped[p],
                a.waiting[p])

(***************************************************************************)
(* Start does that.                                                        *)
(***************************************************************************)
LEMMA StartGoes ==
    ASSUME NEW a \in PanelsType, NEW p \in Panels,
           NEW event \in {"shown", "hidden"}, NEW own \in BOOLEAN
    PROVE  Started(a, TheCollapse!Start(a, p, event, own), p, event, own)
<1>0. PICK d \in {"none", "idle", "busy"} :
          d = IF own THEN "busy" ELSE a.data[p]
  BY PanelFacts
<1>1. PICK s : s = [a EXCEPT !.cls[p] = "collapsing", !.data[p] = d]
  OBVIOUS
<1>2. PICK k \in TheCollapse!Callbacks : k = [event |-> event, own |-> own]
  BY DEF TheCollapse!Callbacks
<1>3. PICK u : u = TheCollapse!Start(a, p, event, own)
  OBVIOUS
<1>4. u = IF a.animate
          THEN [s EXCEPT !.waiting[p] = TheCollapse!Wait(s.waiting[p], k)]
          ELSE TheCollapse!Complete(p, s, k)
  <2>1. s = [a EXCEPT !.cls[p] = "collapsing",
                      !.data[p] = IF own THEN "busy" ELSE @]
    BY <1>0, <1>1
  <2>2. u = IF a.animate
            THEN [[a EXCEPT !.cls[p] = "collapsing",
                            !.data[p] = IF own THEN "busy" ELSE @]
                     EXCEPT !.waiting[p] = TheCollapse!Wait(@, k)]
            ELSE TheCollapse!Complete(p,
                   [a EXCEPT !.cls[p] = "collapsing",
                             !.data[p] = IF own THEN "busy" ELSE @], k)
    BY <1>2, <1>3 DEF TheCollapse!Start
  <2>3. u = IF a.animate
            THEN [s EXCEPT !.waiting[p] = TheCollapse!Wait(@, k)]
            ELSE TheCollapse!Complete(p, s, k)
    BY <2>1, <2>2
  <2> QED BY <2>3
<1>5. IsPut(a, s, p, "collapsing", d, a.grouped[p], a.waiting[p])
  <2>1. s = [a EXCEPT !.cls = [a.cls EXCEPT ![p] = "collapsing"],
                      !.data = [a.data EXCEPT ![p] = d]]
    BY <1>1
  <2>2. s = [a EXCEPT !.cls = [a.cls EXCEPT ![p] = "collapsing"],
                      !.data = [a.data EXCEPT ![p] = d],
                      !.grouped = a.grouped, !.waiting = a.waiting]
    BY <2>1 DEF PanelsType
  <2>3. Puts(a, s, p, "collapsing", d, a.grouped[p], a.waiting[p])
    <3>1. /\ [a.waiting EXCEPT ![p] = a.waiting[p]] = a.waiting
          /\ [a.grouped EXCEPT ![p] = a.grouped[p]] = a.grouped
      BY PanelFacts
    <3> QED BY <2>2, <3>1, Zenon DEF Puts
  <2>4. /\ "collapsing" \in {"collapse", "collapsing", "in"}
        /\ a.grouped[p] \in BOOLEAN
        /\ a.waiting[p] \in Seq(TheCollapse!Callbacks)
    BY PanelFacts
  <2> QED BY <2>3, <2>4, PutGoes, Zenon
<1>6. s \in PanelsType
  BY <1>5 DEF IsPut, Only, SameAccordion
<1>7. CASE a.animate
  <2>1. PICK q \in Seq(TheCollapse!Callbacks) : q = Append(a.waiting[p], k)
    <3>1. PICK old \in Seq(TheCollapse!Callbacks) : old = a.waiting[p]
      BY PanelFacts
    <3>2. Append(old, k) \in Seq(TheCollapse!Callbacks)
      OBVIOUS
    <3> QED BY <3>1, <3>2
  <2>2. u = [s EXCEPT !.waiting[p] = q]
    BY <1>4, <1>5, <1>7, <2>1 DEF IsPut, TheCollapse!Wait
  <2>3. Puts(s, u, p, s.cls[p], s.data[p], s.grouped[p], q)
    <3>1. u = [s EXCEPT !.waiting = [s.waiting EXCEPT ![p] = q]]
      BY <2>2
    <3>2. u = [s EXCEPT !.cls = s.cls, !.data = s.data,
                        !.grouped = s.grouped,
                        !.waiting = [s.waiting EXCEPT ![p] = q]]
      BY <1>6, <3>1 DEF PanelsType
    <3>3. /\ [s.cls EXCEPT ![p] = s.cls[p]] = s.cls
          /\ [s.data EXCEPT ![p] = s.data[p]] = s.data
          /\ [s.grouped EXCEPT ![p] = s.grouped[p]] = s.grouped
      BY <1>6, PanelFacts
    <3> QED BY <3>2, <3>3, Zenon DEF Puts
  <2>4. IsPut(s, u, p, s.cls[p], s.data[p], s.grouped[p], q)
    <3>1. /\ s.cls[p] \in {"collapse", "collapsing", "in"}
          /\ s.data[p] \in {"none", "idle", "busy"}
          /\ s.grouped[p] \in BOOLEAN
      BY <1>6, PanelFacts
    <3> QED BY <1>6, <2>3, <3>1, PutGoes, Zenon
  <2>5. IsPut(a, u, p, "collapsing", d, a.grouped[p], q)
    BY <1>5, <2>4 DEF IsPut, Only, SameAccordion, SamePanel
  <2> QED BY <1>0, <1>2, <1>3, <1>7, <2>1, <2>5 DEF Started
<1>8. CASE ~a.animate
  <2>1. PICK c \in {"collapse", "in"} :
            c = IF event = "shown" THEN "in" ELSE "collapse"
    OBVIOUS
  <2>2. IsPut(s, u, p, c, IF own THEN "idle" ELSE a.data[p], s.grouped[p],
              s.waiting[p])
    <3>1. k.own = own /\ k.event = event
      BY <1>2
    <3>2. s.cls[p] # "in" /\ (~own => s.data[p] = a.data[p])
      BY <1>0, <1>5 DEF IsPut
    <3>3. IsPut(s, u, p, IF k.event = "shown" \/ s.cls[p] = "in"
                         THEN "in" ELSE "collapse",
                IF k.own THEN "idle" ELSE s.data[p], s.grouped[p],
                s.waiting[p])
      BY <1>4, <1>6, <1>8, CompleteGoes
    <3> QED BY <2>1, <3>1, <3>2, <3>3
  <2>3. IsPut(a, u, p, c, IF own THEN "idle" ELSE a.data[p], a.grouped[p],
              a.waiting[p])
    BY <1>5, <2>2 DEF IsPut, Only, SameAccordion, SamePanel
  <2> QED BY <1>3, <1>8, <2>1, <2>3 DEF Started
<1> QED BY <1>7, <1>8

(***************************************************************************)
(* The Plugin makes an instance.                                           *)
(***************************************************************************)
LEMMA MadeGoes ==
    ASSUME NEW a \in PanelsType, NEW p \in Panels, NEW g \in BOOLEAN
    PROVE  IsPut(a, TheCollapse!Made(a, p, g), p, a.cls[p],
                 IF a.data[p] = "none" THEN "idle" ELSE a.data[p],
                 IF a.data[p] = "none" THEN g ELSE a.grouped[p],
                 a.waiting[p])
<1>1. PICK u : u = TheCollapse!Made(a, p, g)
  OBVIOUS
<1>2. PICK d \in {"none", "idle", "busy"} :
          d = IF a.data[p] = "none" THEN "idle" ELSE a.data[p]
  BY PanelFacts
<1>3. PICK h \in BOOLEAN :
          h = IF a.data[p] = "none" THEN g ELSE a.grouped[p]
  BY PanelFacts
<1>4. u = [a EXCEPT !.data = [a.data EXCEPT ![p] = d],
                    !.grouped = [a.grouped EXCEPT ![p] = h]]
  <2>1. CASE a.data[p] = "none"
    <3>1. u = [a EXCEPT !.data[p] = "idle", !.grouped[p] = g]
      BY <1>1, <2>1 DEF TheCollapse!Made
    <3> QED BY <1>2, <1>3, <2>1, <3>1
  <2>2. CASE a.data[p] # "none"
    <3>1. u = a
      BY <1>1, <2>2 DEF TheCollapse!Made
    <3>2. /\ [a.data EXCEPT ![p] = d] = a.data
          /\ [a.grouped EXCEPT ![p] = h] = a.grouped
      BY <1>2, <1>3, <2>2, PanelFacts
    <3> QED BY <3>1, <3>2 DEF PanelsType
  <2> QED BY <2>1, <2>2
<1>5. Puts(a, u, p, a.cls[p], d, h, a.waiting[p])
  <2>1. u = [a EXCEPT !.cls = a.cls, !.data = [a.data EXCEPT ![p] = d],
                      !.grouped = [a.grouped EXCEPT ![p] = h],
                      !.waiting = a.waiting]
    BY <1>4 DEF PanelsType
  <2>2. /\ [a.cls EXCEPT ![p] = a.cls[p]] = a.cls
        /\ [a.waiting EXCEPT ![p] = a.waiting[p]] = a.waiting
    BY PanelFacts
  <2> QED BY <2>1, <2>2, Zenon DEF Puts
<1>6. IsPut(a, u, p, a.cls[p], d, h, a.waiting[p])
  <2>1. /\ a.cls[p] \in {"collapse", "collapsing", "in"}
        /\ a.waiting[p] \in Seq(TheCollapse!Callbacks)
    BY PanelFacts
  <2> QED BY <1>5, <2>1, PutGoes, Zenon
<1> QED BY <1>1, <1>2, <1>3, <1>6

(***************************************************************************)
(* hide folds a panel that is open and free, unless the page vetoes it.    *)
(***************************************************************************)
Hides(a, p) ==
    a.data[p] # "busy" /\ a.cls[p] = "in" /\ "hide" \notin a.vetoes

(***************************************************************************)
(* hide does that.                                                         *)
(***************************************************************************)
LEMMA HidePanel ==
    ASSUME NEW a \in PanelsType, NEW p \in Panels
    PROVE  LET u == TheCollapse!Hide(a, p)
           IN  IF Hides(a, p) THEN Started(a, u, p, "hidden", TRUE)
                              ELSE u = a
<1>1. CASE Hides(a, p)
  <2>1. TheCollapse!Hide(a, p)
          = TheCollapse!Start(a, p, "hidden", TRUE)
    BY <1>1 DEF Hides, TheCollapse!Hide
  <2> QED BY <1>1, <2>1, StartGoes
<1>2. CASE ~Hides(a, p)
  BY <1>2 DEF Hides, TheCollapse!Hide
<1> QED BY <1>1, <1>2

(***************************************************************************)
(* The instance of a panel, if there is one, is thrown away: callbacks     *)
(* that wait are not its own any more.                                     *)
(***************************************************************************)
Disowned(a, u, p, d, g) ==
    /\ Only(a, u, p) /\ u.cls[p] = a.cls[p] /\ u.data[p] = d
    /\ u.grouped[p] = g
    /\ u.waiting[p] \in Seq(TheCollapse!Callbacks)
    /\ Len(u.waiting[p]) = Len(a.waiting[p])
    /\ \A i \in DOMAIN u.waiting[p] :
          /\ ~u.waiting[p][i].own
          /\ u.waiting[p][i].event = a.waiting[p][i].event

(***************************************************************************)
(* Disown keeps what it says of the instance, Forget and Register do not.  *)
(***************************************************************************)
LEMMA DisownGoes ==
    ASSUME NEW a \in PanelsType, NEW p \in Panels
    PROVE  /\ Disowned(a, TheCollapse!Disown(a, p), p, a.data[p],
                       a.grouped[p])
           /\ Disowned(a, TheCollapse!Forget(a, p), p, "none", FALSE)
           /\ Disowned(a, TheCollapse!Register(a, p), p, a.data[p],
                       a.parent)
<1>1. PICK old \in Seq(TheCollapse!Callbacks) : old = a.waiting[p]
  BY PanelFacts
<1>2. PICK q : q = [i \in DOMAIN old |-> [old[i] EXCEPT !.own = FALSE]]
  OBVIOUS
<1>3. /\ q \in Seq(TheCollapse!Callbacks) /\ Len(q) = Len(old)
      /\ \A i \in DOMAIN q : ~q[i].own /\ q[i].event = old[i].event
  <2>1. PICK n \in Nat : n = Len(old) /\ DOMAIN old = 1..n
    OBVIOUS
  <2>2. ASSUME NEW i \in 1..n
        PROVE  /\ q[i] \in TheCollapse!Callbacks /\ ~q[i].own
               /\ q[i].event = old[i].event
    <3>1. old[i] \in TheCollapse!Callbacks
      BY <2>1
    <3>2. PICK k : k = [old[i] EXCEPT !.own = FALSE]
      OBVIOUS
    <3>3. k \in TheCollapse!Callbacks /\ ~k.own /\ k.event = old[i].event
      BY <3>1, <3>2 DEF TheCollapse!Callbacks
    <3> QED BY <1>2, <2>1, <3>2, <3>3
  <2>3. q \in [1..n -> TheCollapse!Callbacks]
    BY <1>2, <2>1, <2>2
  <2> QED BY <2>1, <2>2, <2>3
<1>4. PICK v : v = TheCollapse!Disown(a, p)
  OBVIOUS
<1>5. v = [a EXCEPT !.waiting = [a.waiting EXCEPT ![p] = q]]
  <2>1. v = [a EXCEPT !.waiting[p] =
               [i \in DOMAIN a.waiting[p] |->
                  [a.waiting[p][i] EXCEPT !.own = FALSE]]]
    BY <1>4, Zenon DEF TheCollapse!Disown
  <2>2. v = [a EXCEPT !.waiting[p] = q]
    BY <1>1, <1>2, <2>1, Zenon
  <2> QED BY <2>2
<1>6. /\ [a.cls EXCEPT ![p] = a.cls[p]] = a.cls
      /\ [a.data EXCEPT ![p] = a.data[p]] = a.data
      /\ [a.grouped EXCEPT ![p] = a.grouped[p]] = a.grouped
  BY PanelFacts
<1>7. IsPut(a, v, p, a.cls[p], a.data[p], a.grouped[p], q)
  <2>1. v = [a EXCEPT !.cls = a.cls, !.data = a.data,
                      !.grouped = a.grouped,
                      !.waiting = [a.waiting EXCEPT ![p] = q]]
    BY <1>5 DEF PanelsType
  <2>2. Puts(a, v, p, a.cls[p], a.data[p], a.grouped[p], q)
    BY <1>6, <2>1, Zenon DEF Puts
  <2>3. /\ a.cls[p] \in {"collapse", "collapsing", "in"}
        /\ a.data[p] \in {"none", "idle", "busy"}
        /\ a.grouped[p] \in BOOLEAN
    BY PanelFacts
  <2> QED BY <1>3, <2>2, <2>3, PutGoes, Zenon
<1>8. ASSUME NEW w, NEW d, NEW g, IsPut(a, w, p, a.cls[p], d, g, q)
      PROVE  Disowned(a, w, p, d, g)
  BY <1>1, <1>3, <1>8 DEF IsPut, Disowned
<1>9. v \in PanelsType
  BY <1>7 DEF IsPut, Only, SameAccordion
<1>10. ASSUME NEW w, NEW d \in {"none", "idle", "busy"}, NEW g \in BOOLEAN,
              w = [v EXCEPT !.data = [v.data EXCEPT ![p] = d],
                            !.grouped = [v.grouped EXCEPT ![p] = g]]
       PROVE  IsPut(a, w, p, a.cls[p], d, g, q)
  <2>1. /\ [v.cls EXCEPT ![p] = v.cls[p]] = v.cls
        /\ [v.waiting EXCEPT ![p] = v.waiting[p]] = v.waiting
    BY <1>9, PanelFacts
  <2>2. w = [v EXCEPT !.cls = v.cls, !.data = [v.data EXCEPT ![p] = d],
                      !.grouped = [v.grouped EXCEPT ![p] = g],
                      !.waiting = v.waiting]
    BY <1>9, <1>10 DEF PanelsType
  <2>3. Puts(v, w, p, v.cls[p], d, g, v.waiting[p])
    BY <2>1, <2>2, Zenon DEF Puts
  <2>4. IsPut(v, w, p, v.cls[p], d, g, v.waiting[p])
    <3>1. /\ v.cls[p] \in {"collapse", "collapsing", "in"}
          /\ v.waiting[p] \in Seq(TheCollapse!Callbacks)
      BY <1>9, PanelFacts
    <3> QED BY <1>9, <2>3, <3>1, PutGoes, Zenon
  <2> QED BY <1>7, <2>4 DEF IsPut, Only, SameAccordion, SamePanel
<1>11. PICK w : w = TheCollapse!Forget(a, p)
  OBVIOUS
<1>12. Disowned(a, w, p, "none", FALSE)
  <2>1. w = [v EXCEPT !.data[p] = "none", !.grouped[p] = FALSE]
    BY <1>4, <1>11 DEF TheCollapse!Forget
  <2>2. w = [v EXCEPT !.data = [v.data EXCEPT ![p] = "none"],
                      !.grouped = [v.grouped EXCEPT ![p] = FALSE]]
    BY <2>1
  <2>3. "none" \in {"none", "idle", "busy"} /\ FALSE \in BOOLEAN
    OBVIOUS
  <2> QED BY <1>8, <1>10, <2>2, <2>3
<1>13. PICK z : z = TheCollapse!Register(a, p)
  OBVIOUS
<1>14. Disowned(a, z, p, a.data[p], a.parent)
  <2>1. z = [v EXCEPT !.grouped[p] = a.parent]
    BY <1>4, <1>13 DEF TheCollapse!Register
  <2>2. z = [v EXCEPT !.grouped = [v.grouped EXCEPT ![p] = a.parent]]
    BY <2>1
  <2>3. [v.data EXCEPT ![p] = v.data[p]] = v.data
    BY <1>9, PanelFacts
  <2>4. v.data[p] = a.data[p] /\ a.data[p] \in {"none", "idle", "busy"}
    BY <1>7, PanelFacts DEF IsPut
  <2>5. z = [v EXCEPT !.data = [v.data EXCEPT ![p] = a.data[p]],
                      !.grouped = [v.grouped EXCEPT ![p] = a.parent]]
    BY <1>9, <2>2, <2>3, <2>4 DEF PanelsType
  <2>6. a.parent \in BOOLEAN
    BY Zenon DEF PanelsType
  <2> QED BY <1>8, <1>10, <2>4, <2>5, <2>6
<1> QED BY <1>4, <1>7, <1>8, <1>11, <1>12, <1>13, <1>14

-----------------------------------------------------------------------------
(***************************************************************************)
(* A panel that refuses calls has a callback of its own that waits last,   *)
(* an own callback waits only on one that refuses calls, one in transition *)
(* waits for a callback, and without transitions nothing waits.            *)
(***************************************************************************)
OwnBusy(a, p) ==
    \A i \in DOMAIN a.waiting[p] : a.waiting[p][i].own => a.data[p] = "busy"

PanelRuns(a, p) ==
    /\ a.data[p] = "busy" => /\ a.waiting[p] # <<>>
                             /\ a.waiting[p][Len(a.waiting[p])].own
    /\ OwnBusy(a, p)
    /\ a.cls[p] = "collapsing" <=> a.waiting[p] # <<>>
    /\ ~a.animate => a.waiting[p] = <<>>

(***************************************************************************)
(* An accordion on a page that lets panels fold, calls no panel without an *)
(* instance, and had all panels folded at first or waits for transitions.  *)
(* In it every instance has the option parent, and one panel at most opens *)
(* or is open; if all were folded at first, a panel that is not folded has *)
(* an instance, and one in transition refuses calls.                       *)
(***************************************************************************)
Strict(a) ==
    /\ a.parent /\ "hide" \notin a.vetoes /\ ~a.bare
    /\ a.opened = {} \/ a.patient

Settled(a) == \A p \in Panels : a.waiting[p] = <<>>

PanelKnown(a, p) ==
    /\ a.data[p] # "none" => a.grouped[p]
    /\ a.opened = {} =>
          /\ a.data[p] = "none" => a.cls[p] = "collapse"
          /\ a.cls[p] = "collapsing" => a.data[p] = "busy"

Shows(a, p) ==
    \/ a.cls[p] = "in"
    \/ \E i \in DOMAIN a.waiting[p] : a.waiting[p][i].event = "shown"

OneShows(a) == \A p, q \in Panels : Shows(a, p) /\ Shows(a, q) => p = q

RunStates == {a \in PanelsType : \A p \in Panels : PanelRuns(a, p)}

CollapseStates ==
    {a \in RunStates :
        Strict(a) => OneShows(a) /\ \A p \in Panels : PanelKnown(a, p)}

(***************************************************************************)
(* What is said of a panel depends on nothing else.                        *)
(***************************************************************************)
LEMMA PanelSame ==
    ASSUME NEW a, NEW u, NEW p, SamePanel(a, u, p), u.animate = a.animate,
           u.opened = a.opened
    PROVE  /\ PanelRuns(u, p) <=> PanelRuns(a, p)
           /\ PanelKnown(u, p) <=> PanelKnown(a, p)
           /\ Shows(u, p) <=> Shows(a, p)
  BY DEF SamePanel, PanelRuns, OwnBusy, PanelKnown, Shows

(***************************************************************************)
(* So it stays of the others if only one panel changes.                    *)
(***************************************************************************)
LEMMA OthersSame ==
    ASSUME NEW a, NEW u, NEW p, Only(a, u, p), NEW q \in Panels \ {p}
    PROVE  /\ PanelRuns(u, q) <=> PanelRuns(a, q)
           /\ PanelKnown(u, q) <=> PanelKnown(a, q)
           /\ Shows(u, q) <=> Shows(a, q)
<1>1. SamePanel(a, u, q) /\ u.animate = a.animate /\ u.opened = a.opened
  BY DEF Only, SameAccordion
<1> QED BY <1>1, PanelSame

(***************************************************************************)
(* A panel that starts to fold or to unfold runs.                          *)
(***************************************************************************)
LEMMA StartedRuns ==
    ASSUME NEW a \in PanelsType, NEW p \in Panels,
           ~a.animate => a.waiting[p] = <<>>, OwnBusy(a, p),
           NEW event \in {"shown", "hidden"}, NEW own \in BOOLEAN,
           own \/ a.data[p] # "busy",
           NEW u, Started(a, u, p, event, own)
    PROVE  /\ PanelRuns(u, p)
           /\ own /\ a.grouped[p] => PanelKnown(u, p)
<1>1. PICK old \in Seq(TheCollapse!Callbacks) : old = a.waiting[p]
  BY PanelFacts
<1>2. PICK k : k = [event |-> event, own |-> own]
  OBVIOUS
<1>3. k \in TheCollapse!Callbacks /\ k.own = own
  BY <1>2 DEF TheCollapse!Callbacks
<1>4. PICK d : d = IF own THEN "busy" ELSE a.data[p]
  OBVIOUS
<1>5. CASE a.animate
  <2>1. IsPut(a, u, p, "collapsing", d, a.grouped[p], Append(old, k))
    BY <1>1, <1>2, <1>4, <1>5 DEF Started
  <2>2. PICK new : new = Append(old, k)
    OBVIOUS
  <2>3. /\ new # <<>> /\ new[Len(new)] = k
        /\ \A i \in DOMAIN new : new[i] = k \/ \E j \in DOMAIN old :
                                                   new[i] = old[j]
    BY <1>3, <2>2
  <2>4. /\ u.cls[p] = "collapsing" /\ u.data[p] = d /\ u.waiting[p] = new
        /\ u.grouped[p] = a.grouped[p] /\ u.animate
    BY <1>5, <2>1, <2>2 DEF IsPut, Only, SameAccordion
  <2>5. d = "busy" => own
    BY <1>4
  <2>6. OwnBusy(u, p)
    <3>1. CASE own
      BY <1>4, <2>4, <3>1 DEF OwnBusy
    <3>2. CASE ~own
      <4>1. \A j \in DOMAIN old : ~old[j].own
        BY <1>1, <3>2 DEF OwnBusy
      <4> QED BY <1>3, <2>3, <2>4, <3>2, <4>1 DEF OwnBusy
    <3> QED BY <3>1, <3>2
  <2> QED BY <1>3, <1>4, <2>3, <2>4, <2>5, <2>6 DEF PanelRuns, PanelKnown
<1>6. CASE ~a.animate
  <2>1. /\ u.cls[p] \in {"in", "collapse"} /\ u.waiting[p] = <<>>
        /\ u.data[p] = (IF own THEN "idle" ELSE a.data[p])
        /\ u.grouped[p] = a.grouped[p]
    BY <1>6 DEF Started, IsPut
  <2>2. DOMAIN u.waiting[p] = {}
    BY <2>1
  <2>3. u.data[p] # "busy"
    BY <2>1
  <2> QED BY <2>1, <2>2, <2>3 DEF PanelRuns, OwnBusy, PanelKnown
<1> QED BY <1>5, <1>6

(***************************************************************************)
(* A panel that was open and starts to fold does not show any more.        *)
(***************************************************************************)
LEMMA HiddenShowsNot ==
    ASSUME NEW a \in PanelsType, NEW p \in Panels, a.waiting[p] = <<>>,
           NEW u, Started(a, u, p, "hidden", TRUE)
    PROVE  ~Shows(u, p)
<1>1. CASE a.animate
  <2>1. PICK q : q = Append(<<>>, [event |-> "hidden", own |-> TRUE])
    OBVIOUS
  <2>2. u.cls[p] = "collapsing" /\ u.waiting[p] = q
    BY <1>1, <2>1 DEF Started, IsPut
  <2>3. DOMAIN q = {1} /\ q[1].event = "hidden"
    BY <2>1
  <2> QED BY <2>2, <2>3 DEF Shows
<1>2. CASE ~a.animate
  BY <1>2 DEF Started, IsPut, Shows
<1> QED BY <1>1, <1>2

(***************************************************************************)
(* hide changes no other panel, and a panel does not show because of it.   *)
(***************************************************************************)
LEMMA HideRuns ==
    ASSUME NEW a \in RunStates, NEW p \in Panels
    PROVE  LET u == TheCollapse!Hide(a, p) IN
           /\ u \in RunStates /\ Only(a, u, p)
           /\ Shows(u, p) => Shows(a, p)
           /\ Hides(a, p) => ~Shows(u, p)
           /\ a.data[p] # "none" /\ PanelKnown(a, p) => PanelKnown(u, p)
<1>1. a \in PanelsType
  BY DEF RunStates
<1>2. PICK u : u = TheCollapse!Hide(a, p)
  OBVIOUS
<1>3. CASE ~Hides(a, p)
  <2>1. u = a
    BY <1>1, <1>2, <1>3, HidePanel
  <2>2. Only(a, a, p)
    BY <1>1 DEF Only, SameAccordion, SamePanel
  <2> QED BY <1>2, <1>3, <2>1, <2>2
<1>4. CASE Hides(a, p)
  <2>1. Started(a, u, p, "hidden", TRUE)
    BY <1>1, <1>2, <1>4, HidePanel
  <2>2. PanelRuns(a, p)
    BY DEF RunStates
  <2>3. a.waiting[p] = <<>> /\ OwnBusy(a, p)
    BY <1>4, <2>2 DEF PanelRuns, Hides
  <2>4. PanelRuns(u, p) /\ (a.grouped[p] => PanelKnown(u, p))
    BY <1>1, <2>1, <2>3, StartedRuns
  <2>5. ~Shows(u, p)
    BY <1>1, <2>1, <2>3, HiddenShowsNot
  <2>6. Only(a, u, p)
    BY <2>1 DEF Started, IsPut
  <2>7. u \in PanelsType
    BY <2>6 DEF Only, SameAccordion
  <2>8. u \in RunStates
    BY <2>4, <2>6, <2>7, OthersSame DEF RunStates
  <2>9. a.data[p] # "none" /\ PanelKnown(a, p) => a.grouped[p]
    BY DEF PanelKnown
  <2> QED BY <1>2, <2>4, <2>5, <2>6, <2>8, <2>9
<1> QED BY <1>3, <1>4

(***************************************************************************)
(* Neither does a new instance.                                            *)
(***************************************************************************)
LEMMA MadeRuns ==
    ASSUME NEW a \in RunStates, NEW p \in Panels, NEW g \in BOOLEAN
    PROVE  LET u == TheCollapse!Made(a, p, g) IN
           /\ u \in RunStates /\ Only(a, u, p)
           /\ u.cls[p] = a.cls[p] /\ u.waiting[p] = a.waiting[p]
           /\ u.data[p] = (IF a.data[p] = "none" THEN "idle" ELSE a.data[p])
           /\ Shows(u, p) <=> Shows(a, p)
           /\ (a.data[p] = "none" => g) /\ PanelKnown(a, p)
                 => PanelKnown(u, p)
<1>1. a \in PanelsType
  BY DEF RunStates
<1>2. PICK u : u = TheCollapse!Made(a, p, g)
  OBVIOUS
<1>3. IsPut(a, u, p, a.cls[p],
            IF a.data[p] = "none" THEN "idle" ELSE a.data[p],
            IF a.data[p] = "none" THEN g ELSE a.grouped[p], a.waiting[p])
  BY <1>1, <1>2, MadeGoes
<1>4. /\ Only(a, u, p) /\ u \in PanelsType /\ u.animate = a.animate
      /\ u.opened = a.opened
  BY <1>3 DEF IsPut, Only, SameAccordion
<1>5. /\ u.cls[p] = a.cls[p] /\ u.waiting[p] = a.waiting[p]
      /\ u.data[p] = (IF a.data[p] = "none" THEN "idle" ELSE a.data[p])
      /\ a.data[p] = "none" => u.grouped[p] = g
      /\ a.data[p] # "none" => u.grouped[p] = a.grouped[p]
  BY <1>3 DEF IsPut
<1>6. PanelRuns(u, p)
  <2>1. PanelRuns(a, p)
    BY DEF RunStates
  <2> QED BY <1>4, <1>5, <2>1 DEF PanelRuns, OwnBusy
<1>7. u \in RunStates
  BY <1>4, <1>6, OthersSame DEF RunStates
<1>8. Shows(u, p) <=> Shows(a, p)
  BY <1>5 DEF Shows
<1>9. (a.data[p] = "none" => g) /\ PanelKnown(a, p) => PanelKnown(u, p)
  BY <1>4, <1>5 DEF PanelKnown
<1> QED BY <1>2, <1>4, <1>5, <1>7, <1>8, <1>9

(***************************************************************************)
(* A step of one panel that shows no more than before keeps the states of  *)
(* an accordion.                                                           *)
(***************************************************************************)
LEMMA PanelKeeps ==
    ASSUME NEW a \in CollapseStates, NEW p \in Panels, NEW u,
           Only(a, u, p), PanelRuns(u, p),
           Strict(a) => PanelKnown(u, p) /\ (Shows(u, p) => Shows(a, p))
    PROVE  u \in CollapseStates
<1>1. u \in PanelsType /\ (Strict(u) <=> Strict(a))
  BY DEF Only, SameAccordion, Strict
<1>2. ASSUME NEW q \in Panels \ {p}
      PROVE  /\ PanelRuns(u, q) <=> PanelRuns(a, q)
             /\ PanelKnown(u, q) <=> PanelKnown(a, q)
             /\ Shows(u, q) <=> Shows(a, q)
  BY <1>2, OthersSame
<1>3. ASSUME Strict(u) PROVE OneShows(u)
  BY <1>1, <1>2, <1>3 DEF CollapseStates, OneShows
<1> QED BY <1>1, <1>2, <1>3 DEF CollapseStates, RunStates

(***************************************************************************)
(* hide of a panel that has an instance, and a new instance with parent,   *)
(* keep them.                                                              *)
(***************************************************************************)
LEMMA HidePanelKeeps ==
    ASSUME NEW a \in CollapseStates, NEW p \in Panels,
           Strict(a) => a.data[p] # "none"
    PROVE  TheCollapse!Hide(a, p) \in CollapseStates
<1>1. PICK u : u = TheCollapse!Hide(a, p)
  OBVIOUS
<1>2. /\ u \in RunStates /\ Only(a, u, p)
      /\ Shows(u, p) => Shows(a, p)
      /\ a.data[p] # "none" /\ PanelKnown(a, p) => PanelKnown(u, p)
  BY <1>1, HideRuns DEF CollapseStates
<1>3. PanelRuns(u, p)
  BY <1>2 DEF RunStates
<1>4. Strict(a) => PanelKnown(a, p)
  BY DEF CollapseStates
<1> QED BY <1>1, <1>2, <1>3, <1>4, PanelKeeps

LEMMA MadeKeeps ==
    ASSUME NEW a \in CollapseStates, NEW p \in Panels, NEW g \in BOOLEAN,
           Strict(a) /\ a.data[p] = "none" => g
    PROVE  TheCollapse!Made(a, p, g) \in CollapseStates
<1>1. PICK u : u = TheCollapse!Made(a, p, g)
  OBVIOUS
<1>2. /\ u \in RunStates /\ Only(a, u, p)
      /\ Shows(u, p) <=> Shows(a, p)
      /\ (a.data[p] = "none" => g) /\ PanelKnown(a, p) => PanelKnown(u, p)
  BY <1>1, MadeRuns DEF CollapseStates
<1>3. PanelRuns(u, p)
  BY <1>2 DEF RunStates
<1>4. Strict(a) => PanelKnown(a, p)
  BY DEF CollapseStates
<1> QED BY <1>1, <1>2, <1>3, <1>4, PanelKeeps

(***************************************************************************)
(* The first of some panels.                                               *)
(***************************************************************************)
LEMMA FirstPanel ==
    ASSUME NEW S \in SUBSET Panels, S # {}
    PROVE  TheCollapse!Min(S) \in S
<1>1. Panels \subseteq Nat
  BY PageAssumption
<1>2. \E x \in S : \A y \in S : x <= y
  BY <1>1, NatLeast
<1> QED BY <1>2 DEF TheCollapse!Min

(***************************************************************************)
(* hide of a panel that may have no instance.                              *)
(***************************************************************************)
HideMade(a, q) == TheCollapse!Hide(TheCollapse!Made(a, q, FALSE), q)

AfterHide(a, S, q) ==
    CASE q \notin S -> a
      [] q \in S /\ a.data[TheCollapse!Min(S)] = "none" ->
            TheCollapse!Forget(HideMade(a, q), q)
      [] q \in S /\ a.data[TheCollapse!Min(S)] # "none" -> HideMade(a, q)

(***************************************************************************)
(* It changes no other panel either.                                       *)
(***************************************************************************)
LEMMA HideMadeRuns ==
    ASSUME NEW a \in RunStates, NEW q \in Panels
    PROVE  /\ HideMade(a, q) \in RunStates
           /\ SameAccordion(a, HideMade(a, q))
           /\ Shows(HideMade(a, q), q) => Shows(a, q)
           /\ Hides(a, q) => ~Shows(HideMade(a, q), q)
           /\ a.data[q] # "none" /\ PanelKnown(a, q)
                 => PanelKnown(HideMade(a, q), q)
<1>1. PICK b : b = TheCollapse!Made(a, q, FALSE)
  OBVIOUS
<1>2. /\ b \in RunStates /\ Only(a, b, q) /\ b.cls[q] = a.cls[q]
      /\ b.data[q] = (IF a.data[q] = "none" THEN "idle" ELSE a.data[q])
      /\ Shows(b, q) <=> Shows(a, q)
      /\ a.data[q] # "none" /\ PanelKnown(a, q) => PanelKnown(b, q)
  BY <1>1, MadeRuns
<1>3. PICK u : u = TheCollapse!Hide(b, q)
  OBVIOUS
<1>4. /\ u \in RunStates /\ Only(b, u, q)
      /\ Shows(u, q) => Shows(b, q)
      /\ Hides(b, q) => ~Shows(u, q)
      /\ b.data[q] # "none" /\ PanelKnown(b, q) => PanelKnown(u, q)
  BY <1>2, <1>3, HideRuns
<1>5. SameAccordion(a, u) /\ b.vetoes = a.vetoes
  BY <1>2, <1>4 DEF Only, SameAccordion
<1>6. Hides(a, q) => Hides(b, q)
  BY <1>2, <1>5 DEF Hides
<1>7. u = HideMade(a, q)
  BY <1>1, <1>3 DEF HideMade
<1>8. b.data[q] # "none"
  BY <1>2
<1> QED BY <1>2, <1>4, <1>5, <1>6, <1>7, <1>8

(***************************************************************************)
(* What a panel is after the panels that are active have been hidden.      *)
(***************************************************************************)
LEMMA AfterHideRuns ==
    ASSUME NEW a \in RunStates, NEW S \in SUBSET Panels, NEW q \in Panels
    PROVE  LET u == AfterHide(a, S, q) IN
           /\ SameAccordion(a, u) /\ PanelRuns(u, q)
           /\ q \notin S => u = a
           /\ q \in S => (Shows(u, q) => Shows(HideMade(a, q), q))
           /\ q \in S /\ a.data[TheCollapse!Min(S)] # "none"
                => u = HideMade(a, q)
           /\ q \in S /\ a.data[TheCollapse!Min(S)] = "none"
                => u.data[q] = "none"
<1>1. CASE q \notin S
  <2>1. AfterHide(a, S, q) = a
    BY <1>1, Zenon DEF AfterHide
  <2> QED BY <1>1, <2>1 DEF RunStates, SameAccordion
<1>2. CASE q \in S /\ a.data[TheCollapse!Min(S)] # "none"
  <2>1. AfterHide(a, S, q) = HideMade(a, q)
    BY <1>2, Zenon DEF AfterHide
  <2> QED BY <1>2, <2>1, HideMadeRuns DEF RunStates
<1>3. CASE q \in S /\ a.data[TheCollapse!Min(S)] = "none"
  <2>1. PICK b : b = HideMade(a, q)
    OBVIOUS
  <2>2. b \in RunStates /\ SameAccordion(a, b) /\ PanelRuns(b, q)
    BY <2>1, HideMadeRuns DEF RunStates
  <2>3. PICK u : u = TheCollapse!Forget(b, q)
    OBVIOUS
  <2>4. u = AfterHide(a, S, q)
    BY <1>3, <2>1, <2>3, Zenon DEF AfterHide
  <2>5. Disowned(b, u, q, "none", FALSE)
    BY <2>2, <2>3, DisownGoes DEF RunStates
  <2>6. SameAccordion(a, u)
    BY <2>2, <2>5 DEF Disowned, Only, SameAccordion
  <2>7. PICK old \in Seq(TheCollapse!Callbacks) : old = b.waiting[q]
    BY <2>2, PanelFacts DEF RunStates
  <2>8. PICK new \in Seq(TheCollapse!Callbacks) : new = u.waiting[q]
    BY <2>5 DEF Disowned
  <2>9. old = <<>> <=> new = <<>>
    BY <2>5, <2>7, <2>8 DEF Disowned
  <2>10. /\ u.cls[q] = b.cls[q] /\ u.data[q] = "none"
         /\ u.animate = b.animate /\ OwnBusy(u, q)
    BY <2>5 DEF Disowned, Only, SameAccordion, OwnBusy
  <2>11. PanelRuns(u, q)
    BY <2>2, <2>7, <2>8, <2>9, <2>10 DEF PanelRuns
  <2>12. ASSUME Shows(u, q) PROVE Shows(b, q)
    <3>1. DOMAIN new = DOMAIN old
      BY <2>5, <2>7, <2>8 DEF Disowned
    <3> QED BY <2>5, <2>7, <2>8, <2>12, <3>1 DEF Disowned, Shows
  <2> QED BY <1>3, <2>1, <2>4, <2>6, <2>10, <2>11, <2>12
<1> QED BY <1>1, <1>2, <1>3

(***************************************************************************)
(* show hides the active panels, each as it would by itself.               *)
(***************************************************************************)
LEMMA ActivesGo ==
    ASSUME NEW a \in RunStates, NEW S \in SUBSET Panels
    PROVE  LET u == TheCollapse!HideActives(a, S) IN
           /\ SameAccordion(a, u)
           /\ \A q \in Panels : SamePanel(AfterHide(a, S, q), u, q)
<1> DEFINE hidden(q) == TheCollapse!Hide(TheCollapse!Made(a, q, FALSE), q)
           after(q) == CASE q \notin S -> a
                         [] q \in S /\ a.data[TheCollapse!Min(S)] = "none" ->
                               TheCollapse!Forget(hidden(q), q)
                         [] q \in S /\ a.data[TheCollapse!Min(S)] # "none" ->
                               hidden(q)
<1>1. PICK u : u = TheCollapse!HideActives(a, S)
  OBVIOUS
<1>2. u = [a EXCEPT !.cls = [q \in Panels |-> after(q).cls[q]],
                    !.data = [q \in Panels |-> after(q).data[q]],
                    !.grouped = [q \in Panels |-> after(q).grouped[q]],
                    !.waiting = [q \in Panels |-> after(q).waiting[q]]]
  BY <1>1 DEF TheCollapse!HideActives
<1>3. \A q : after(q) = AfterHide(a, S, q)
  BY DEF AfterHide, HideMade
<1> HIDE DEF after
<1>4. ASSUME NEW q \in Panels
      PROVE  /\ after(q).cls[q] \in {"collapse", "collapsing", "in"}
             /\ after(q).data[q] \in {"none", "idle", "busy"}
             /\ after(q).grouped[q] \in BOOLEAN
             /\ after(q).waiting[q] \in Seq(TheCollapse!Callbacks)
  <2>1. after(q) \in PanelsType
    BY <1>3, AfterHideRuns DEF SameAccordion
  <2> QED BY <2>1, PanelFacts
<1>5. PICK cls \in [Panels -> {"collapse", "collapsing", "in"}] :
          cls = [q \in Panels |-> after(q).cls[q]]
  BY <1>4
<1>6. PICK data \in [Panels -> {"none", "idle", "busy"}] :
          data = [q \in Panels |-> after(q).data[q]]
  BY <1>4
<1>6a. PICK grouped \in [Panels -> BOOLEAN] :
          grouped = [q \in Panels |-> after(q).grouped[q]]
  BY <1>4
<1>7. PICK waiting \in [Panels -> Seq(TheCollapse!Callbacks)] :
          waiting = [q \in Panels |-> after(q).waiting[q]]
  BY <1>4
<1>8. u = [a EXCEPT !.cls = cls, !.data = data, !.grouped = grouped,
                    !.waiting = waiting]
  BY <1>2, <1>5, <1>6, <1>6a, <1>7, Zenon
<1>9. a \in PanelsType
  BY DEF RunStates
<1>10. u \in PanelsType
  BY <1>8, <1>9, Zenon DEF PanelsType
<1>11. /\ u.parent = a.parent /\ u.animate = a.animate
       /\ u.vetoes = a.vetoes /\ u.opened = a.opened
       /\ u.bare = a.bare /\ u.patient = a.patient
       /\ u.cls = cls /\ u.data = data /\ u.grouped = grouped
       /\ u.waiting = waiting
  BY <1>8, <1>9, Zenon DEF PanelsType
<1>12. \A q \in Panels : SamePanel(AfterHide(a, S, q), u, q)
  <2> TAKE q \in Panels
  <2>1. /\ u.cls[q] = after(q).cls[q] /\ u.data[q] = after(q).data[q]
        /\ u.grouped[q] = after(q).grouped[q]
        /\ u.waiting[q] = after(q).waiting[q]
    BY <1>5, <1>6, <1>6a, <1>7, <1>11
  <2> QED BY <1>3, <2>1 DEF SamePanel
<1> QED BY <1>1, <1>10, <1>11, <1>12 DEF SameAccordion

(***************************************************************************)
(* In a strict accordion none shows when the active panels have been       *)
(* hidden, if the first of them does not refuse to: it is the only one     *)
(* that is open, and it may have no instance only when nothing moves.      *)
(***************************************************************************)
LEMMA ActivesQuiet ==
    ASSUME NEW a \in CollapseStates, Strict(a), a.opened = {} \/ Settled(a),
           NEW S, S = TheCollapse!Actives(a, TRUE),
           S # {} => a.data[TheCollapse!Min(S)] # "busy"
    PROVE  \A q \in Panels :
               LET u == TheCollapse!HideActives(a, S)
               IN  PanelKnown(u, q) /\ ~Shows(u, q)
<1> SUFFICES ASSUME NEW q \in Panels
             PROVE  LET u == TheCollapse!HideActives(a, S)
                    IN  PanelKnown(u, q) /\ ~Shows(u, q)
  OBVIOUS
<1>1. /\ a \in PanelsType /\ a \in RunStates /\ OneShows(a)
      /\ \A r \in Panels : PanelRuns(a, r) /\ PanelKnown(a, r)
  BY DEF CollapseStates, RunStates
<1>2. S = {r \in Panels : a.cls[r] # "collapse"}
  BY DEF TheCollapse!Actives
<1>3. PICK u : u = TheCollapse!HideActives(a, S)
  OBVIOUS
<1>4. SamePanel(AfterHide(a, S, q), u, q) /\ SameAccordion(a, u)
  BY <1>1, <1>2, <1>3, ActivesGo
<1>5. SameAccordion(a, AfterHide(a, S, q))
  BY <1>1, <1>2, AfterHideRuns
<1>6. SUFFICES /\ PanelKnown(AfterHide(a, S, q), q)
               /\ ~Shows(AfterHide(a, S, q), q)
  <2>1. /\ u.animate = AfterHide(a, S, q).animate
        /\ u.opened = AfterHide(a, S, q).opened
    BY <1>4, <1>5 DEF SameAccordion
  <2> QED BY <1>3, <1>4, <2>1, PanelSame
<1>7. CASE q \notin S
  <2>1. AfterHide(a, S, q) = a
    BY <1>1, <1>2, <1>7, AfterHideRuns
  <2>2. a.cls[q] = "collapse"
    BY <1>2, <1>7
  <2>3. DOMAIN a.waiting[q] = {}
    BY <1>1, <2>2 DEF PanelRuns
  <2> QED BY <1>1, <2>1, <2>2, <2>3 DEF Shows
<1>8. CASE q \in S
  <2>1. PICK f \in S : f = TheCollapse!Min(S)
    BY <1>2, <1>8, FirstPanel
  <2>2. ASSUME Settled(a), NEW r \in S PROVE a.cls[r] = "in"
    <3>1. r \in Panels /\ a.cls[r] # "collapse" /\ a.waiting[r] = <<>>
      BY <1>2, <2>2 DEF Settled
    <3> QED BY <1>1, <3>1, PanelFacts DEF PanelRuns
  <2>3. f \in Panels /\ a.data[f] # "busy" /\ a.cls[f] = "in"
    <3>1. f \in Panels /\ a.cls[f] # "collapse" /\ a.data[f] # "busy"
      BY <1>2, <1>8, <2>1
    <3>2. a.opened = {} => a.cls[f] = "in"
      BY <1>1, <3>1, PanelFacts DEF PanelKnown
    <3> QED BY <2>2, <3>1, <3>2
  <2>4. Shows(a, q) => q = f
    BY <1>1, <2>3 DEF OneShows, Shows
  <2>5. q = f => Hides(a, q)
    BY <2>3 DEF Hides, Strict
  <2>6. ~Shows(HideMade(a, q), q)
    BY <1>1, <2>4, <2>5, HideMadeRuns
  <2>7. CASE a.data[f] # "none"
    <3>1. AfterHide(a, S, q) = HideMade(a, q)
      BY <1>1, <1>2, <1>8, <2>1, <2>7, AfterHideRuns
    <3>2. a.data[q] # "none"
      <4>1. a.opened = {} => a.data[q] # "none"
        BY <1>1, <1>2, <1>8 DEF PanelKnown
      <4>2. Settled(a) => q = f
        <5>1. SUFFICES ASSUME Settled(a) PROVE q = f
          OBVIOUS
        <5>2. a.cls[q] = "in"
          BY <1>8, <2>2, <5>1
        <5> QED BY <2>4, <5>2 DEF Shows
      <4> QED BY <2>7, <4>1, <4>2
    <3>3. PanelKnown(HideMade(a, q), q)
      BY <1>1, <3>2, HideMadeRuns
    <3> QED BY <2>6, <3>1, <3>3
  <2>8. CASE a.data[f] = "none"
    <3>1. a.opened # {}
      BY <1>1, <2>3, <2>8 DEF PanelKnown
    <3>2. /\ AfterHide(a, S, q).data[q] = "none"
          /\ Shows(AfterHide(a, S, q), q) => Shows(HideMade(a, q), q)
      BY <1>1, <1>2, <1>8, <2>1, <2>8, AfterHideRuns
    <3>3. AfterHide(a, S, q).opened # {}
      BY <1>5, <3>1 DEF SameAccordion
    <3> QED BY <2>6, <3>2, <3>3 DEF PanelKnown
  <2> QED BY <2>7, <2>8
<1> QED BY <1>7, <1>8

(***************************************************************************)
(* What is left of the accordion when p is about to unfold.                *)
(***************************************************************************)
Cleared(a, p) ==
    /\ a \in PanelsType
    /\ \A q \in Panels \ {p} : PanelRuns(a, q)
    /\ OwnBusy(a, p) /\ (~a.animate => a.waiting[p] = <<>>)
    /\ Strict(a) => \A q \in Panels \ {p} : PanelKnown(a, q) /\ ~Shows(a, q)

(***************************************************************************)
(* Then p is the only one that shows.                                      *)
(***************************************************************************)
LEMMA UnfoldKeeps ==
    ASSUME NEW a, NEW p \in Panels, Cleared(a, p), NEW own \in BOOLEAN,
           own \/ a.data[p] # "busy", Strict(a) => own /\ a.grouped[p]
    PROVE  TheCollapse!Start(a, p, "shown", own) \in CollapseStates
<1>1. a \in PanelsType
  BY DEF Cleared
<1>2. PICK u : u = TheCollapse!Start(a, p, "shown", own)
  OBVIOUS
<1>3. Started(a, u, p, "shown", own)
  BY <1>1, <1>2, StartGoes
<1>4. PanelRuns(u, p) /\ (own /\ a.grouped[p] => PanelKnown(u, p))
  BY <1>1, <1>3, StartedRuns DEF Cleared
<1>5. Only(a, u, p)
  BY <1>3 DEF Started, IsPut
<1>6. u \in PanelsType /\ (Strict(u) <=> Strict(a))
  BY <1>5 DEF Only, SameAccordion, Strict
<1>7. ASSUME NEW q \in Panels \ {p}
      PROVE  /\ PanelRuns(u, q)
             /\ Strict(u) => PanelKnown(u, q) /\ ~Shows(u, q)
  BY <1>5, <1>6, OthersSame DEF Cleared
<1>8. ASSUME Strict(u) PROVE OneShows(u)
  BY <1>7, <1>8 DEF OneShows
<1> QED BY <1>2, <1>4, <1>6, <1>7, <1>8 DEF CollapseStates, RunStates

(***************************************************************************)
(* It is so when the active panels have been hidden.                       *)
(***************************************************************************)
LEMMA ActivesCleared ==
    ASSUME NEW a \in CollapseStates, NEW p \in Panels, NEW g \in BOOLEAN,
           TheCollapse!MayShow(a, p, TheCollapse!Actives(a, g)),
           Strict(a) => g /\ (a.opened = {} \/ Settled(a))
    PROVE  LET S == TheCollapse!Actives(a, g)
               u == TheCollapse!HideActives(a, S)
           IN  /\ Cleared(u, p) /\ Cleared(TheCollapse!Register(u, p), p)
               /\ TheCollapse!Register(u, p).grouped[p] = a.parent
               /\ SameAccordion(u, TheCollapse!Register(u, p))
               /\ SameAccordion(a, u)
               /\ p \notin S => SamePanel(a, u, p)
<1>1. PICK S : S = TheCollapse!Actives(a, g)
  OBVIOUS
<1>2. S \in SUBSET Panels
  BY <1>1 DEF TheCollapse!Actives
<1>3. S # {} => a.data[TheCollapse!Min(S)] # "busy"
  BY <1>1 DEF TheCollapse!MayShow
<1>4. PICK u : u = TheCollapse!HideActives(a, S)
  OBVIOUS
<1>5. SameAccordion(a, u)
  BY <1>2, <1>4, ActivesGo DEF CollapseStates
<1>6. ASSUME NEW q \in Panels
      PROVE  PanelRuns(u, q) /\ (q \notin S => SamePanel(a, u, q))
  <2>1. SamePanel(AfterHide(a, S, q), u, q)
    BY <1>2, <1>4, ActivesGo DEF CollapseStates
  <2>2. /\ SameAccordion(a, AfterHide(a, S, q))
        /\ PanelRuns(AfterHide(a, S, q), q)
        /\ q \notin S => AfterHide(a, S, q) = a
    BY <1>2, AfterHideRuns DEF CollapseStates
  <2>3. /\ u.animate = AfterHide(a, S, q).animate
        /\ u.opened = AfterHide(a, S, q).opened
    BY <1>5, <2>2 DEF SameAccordion
  <2> QED BY <2>1, <2>2, <2>3, PanelSame
<1>7. ASSUME Strict(u) PROVE \A q \in Panels : PanelKnown(u, q) /\ ~Shows(u, q)
  <2>1. Strict(a)
    BY <1>5, <1>7 DEF SameAccordion, Strict
  <2>2. S = TheCollapse!Actives(a, TRUE)
    BY <1>1, <2>1
  <2> QED BY <1>3, <1>4, <2>1, <2>2, ActivesQuiet
<1>8. u \in PanelsType
  BY <1>5 DEF SameAccordion
<1>9. Cleared(u, p)
  BY <1>6, <1>7, <1>8 DEF Cleared, PanelRuns
<1>10. PICK v : v = TheCollapse!Register(u, p)
  OBVIOUS
<1>11. Disowned(u, v, p, u.data[p], u.parent)
  BY <1>8, <1>10, DisownGoes
<1>12. /\ Only(u, v, p) /\ v \in PanelsType /\ v.animate = u.animate
       /\ Strict(v) <=> Strict(u)
  BY <1>11 DEF Disowned, Only, SameAccordion, Strict
<1>13. ASSUME NEW q \in Panels \ {p}
       PROVE  /\ PanelRuns(v, q)
              /\ Strict(v) => PanelKnown(v, q) /\ ~Shows(v, q)
  BY <1>6, <1>7, <1>12, OthersSame
<1>14. ~v.animate => v.waiting[p] = <<>>
  <2>1. PICK old \in Seq(TheCollapse!Callbacks) : old = u.waiting[p]
    BY <1>8, PanelFacts
  <2>2. PICK new \in Seq(TheCollapse!Callbacks) :
            new = v.waiting[p] /\ Len(new) = Len(old)
    BY <1>11, <2>1 DEF Disowned
  <2>3. old = <<>> => new = <<>>
    BY <2>2
  <2> QED BY <1>6, <1>12, <2>1, <2>2, <2>3 DEF PanelRuns
<1>15. Cleared(v, p)
  BY <1>11, <1>12, <1>13, <1>14 DEF Cleared, Disowned, OwnBusy
<1>16. v.grouped[p] = a.parent /\ SameAccordion(u, v)
  BY <1>5, <1>11 DEF Disowned, Only, SameAccordion
<1> QED BY <1>1, <1>4, <1>5, <1>6, <1>9, <1>10, <1>15, <1>16

(***************************************************************************)
(* show of a panel that has an instance keeps the states of an accordion.  *)
(***************************************************************************)
LEMMA ShowPanelKeeps ==
    ASSUME NEW a \in CollapseStates, NEW p \in Panels,
           Strict(a) => a.data[p] # "none" /\ (a.opened = {} \/ Settled(a))
    PROVE  TheCollapse!Show(a, p) \in CollapseStates
<1>1. PICK S : S = TheCollapse!Actives(a, a.grouped[p])
  OBVIOUS
<1>2. PICK u : u = TheCollapse!HideActives(a, S)
  OBVIOUS
<1>3. CASE a.data[p] = "busy" \/ ~TheCollapse!MayShow(a, p, S)
  BY <1>1, <1>3 DEF TheCollapse!Show
<1>4. CASE ~(a.data[p] = "busy" \/ ~TheCollapse!MayShow(a, p, S))
  <2>1. PICK own \in BOOLEAN : own = (u.data[p] # "none")
    OBVIOUS
  <2>2. TheCollapse!Show(a, p) = TheCollapse!Start(u, p, "shown", own)
    <3>1. TheCollapse!Show(a, p)
            = TheCollapse!Start(u, p, "shown", u.data[p] # "none")
      BY <1>1, <1>2, <1>4, Zenon DEF TheCollapse!Show
    <3> QED BY <2>1, <3>1
  <2>3. /\ a \in PanelsType /\ PanelRuns(a, p)
        /\ Strict(a) => PanelKnown(a, p)
    BY DEF CollapseStates, RunStates
  <2>4. a.grouped[p] \in BOOLEAN /\ (Strict(a) => a.grouped[p])
    BY <2>3, PanelFacts DEF PanelKnown
  <2>5. /\ Cleared(u, p) /\ SameAccordion(a, u)
        /\ p \notin S => SamePanel(a, u, p)
    BY <1>1, <1>2, <1>4, <2>4, ActivesCleared
  <2>6. Strict(u) <=> Strict(a)
    BY <2>5 DEF SameAccordion, Strict
  <2>7. ASSUME Strict(a) PROVE own /\ u.grouped[p]
    <3>1. a.cls[p] # "in"
      BY <1>4 DEF TheCollapse!MayShow
    <3>2. a.opened = {} => a.cls[p] # "collapsing"
      BY <1>4, <2>3, <2>7 DEF PanelKnown
    <3>3. Settled(a) => a.cls[p] # "collapsing"
      BY <2>3 DEF Settled, PanelRuns
    <3>4. a.cls[p] = "collapse"
      BY <2>3, <2>7, <3>1, <3>2, <3>3, PanelFacts
    <3>5. p \notin S
      BY <1>1, <3>4 DEF TheCollapse!Actives
    <3> QED BY <2>1, <2>4, <2>5, <2>7, <3>5 DEF SamePanel
  <2> QED BY <2>1, <2>2, <2>5, <2>6, <2>7, UnfoldKeeps
<1> QED BY <1>3, <1>4

(***************************************************************************)
(* So does a new instance that acts before it is registered.               *)
(***************************************************************************)
LEMMA ConstructKeeps ==
    ASSUME NEW a \in CollapseStates, NEW p \in Panels,
           Strict(a) => a.opened = {} \/ Settled(a)
    PROVE  TheCollapse!Construct(a, p) \in CollapseStates
<1>1. a \in PanelsType /\ a.parent \in BOOLEAN
  BY Zenon DEF CollapseStates, RunStates, PanelsType
<1>2. PICK S : S = TheCollapse!Actives(a, a.parent)
  OBVIOUS
<1>3. PICK b : b = TheCollapse!Made(a, p, a.parent)
  OBVIOUS
<1>4. b \in CollapseStates /\ b.data[p] # "none"
  <2>1. b \in CollapseStates
    BY <1>1, <1>3, MadeKeeps DEF Strict
  <2>2. b.data[p] = (IF a.data[p] = "none" THEN "idle" ELSE a.data[p])
    BY <1>1, <1>3, MadeRuns DEF CollapseStates
  <2> QED BY <2>1, <2>2
<1>5. CASE a.cls[p] = "in"
  <2>1. TheCollapse!Construct(a, p) = TheCollapse!Hide(b, p)
    BY <1>3, <1>5, Zenon DEF TheCollapse!Construct
  <2> QED BY <1>4, <2>1, HidePanelKeeps
<1>6. CASE a.cls[p] # "in" /\ TheCollapse!MayShow(a, p, S)
  <2>1. PICK u : u = TheCollapse!HideActives(a, S)
    OBVIOUS
  <2>2. PICK v : v = TheCollapse!Register(u, p)
    OBVIOUS
  <2>3. TheCollapse!Construct(a, p)
          = TheCollapse!Start(v, p, "shown", TRUE)
    BY <1>2, <1>6, <2>1, <2>2, Zenon DEF TheCollapse!Construct
  <2>4. Strict(a) => a.parent /\ (a.opened = {} \/ Settled(a))
    BY DEF Strict
  <2>5. /\ Cleared(v, p) /\ v.grouped[p] = a.parent
        /\ SameAccordion(u, v) /\ SameAccordion(a, u)
    BY <1>1, <1>2, <1>6, <2>1, <2>2, <2>4, ActivesCleared
  <2>6. Strict(v) => v.grouped[p]
    BY <2>5 DEF SameAccordion, Strict
  <2> QED BY <2>3, <2>5, <2>6, UnfoldKeeps
<1>7. CASE a.cls[p] # "in" /\ ~TheCollapse!MayShow(a, p, S)
  <2>1. TheCollapse!Construct(a, p) = b
    BY <1>2, <1>3, <1>7, Zenon DEF TheCollapse!Construct
  <2> QED BY <1>4, <2>1
<1> QED BY <1>5, <1>6, <1>7

(***************************************************************************)
(* A fold of complete ends with complete of the last callback, in every    *)
(* set that complete does not leave.                                       *)
(***************************************************************************)
PanelRan(n, S, b, q, p) ==
    LET complete(a, callback) == TheCollapse!Complete(p, a, callback)
        r == TheCollapse!FoldLeft(complete, b, q)
    IN  /\ r \in S
        /\ n = 0 => r = b
        /\ n # 0 => \E s \in S : r = TheCollapse!Complete(p, s, q[n])

(***************************************************************************)
(* It is so for any callbacks.                                             *)
(***************************************************************************)
LEMMA PanelFold ==
    ASSUME NEW n \in Nat, NEW S, NEW b \in S, NEW q, DOMAIN q = 1..n, NEW p,
           \A s \in S, i \in 1..n : TheCollapse!Complete(p, s, q[i]) \in S
    PROVE  PanelRan(n, S, b, q, p)
<1> DEFINE complete(a, callback) == TheCollapse!Complete(p, a, callback)
           Next1(g, T) ==
               IF T = {} THEN b
               ELSE TheCollapse!Complete(p, g[T \ {TheCollapse!Max(T)}],
                                         q[TheCollapse!Max(T)])
           f == [v \in (1..n) \X S |->
                   TheCollapse!Complete(p, v[2], q[v[1]])]
           h == CHOOSE g : g = [T \in SUBSET (DOMAIN q) |-> Next1(g, T)]
<1>1. Maps(n, S, f)
  BY DEF Maps
<1>2. \A T : TheCollapse!Max(T) = Greatest(T)
  BY DEF TheCollapse!Max, Greatest
<1>3. ASSUME NEW T \in SUBSET (1..n), NEW g,
             T # {} => g[T \ {Greatest(T)}] \in S
      PROVE  Next1(g, T) = Step(g, f, b, T)
  <2>1. T # {} => Greatest(T) \in 1..n
    BY GreatestIn
  <2> QED BY <1>2, <1>3, <2>1 DEF Step
<1>4. \E g : g = [T \in SUBSET (DOMAIN q) |-> Next1(g, T)]
  <2>1. Recursive(n, S, b, f)
    BY <1>1, FoldExists
  <2> HIDE DEF f
  <2>2. PICK g \in [SUBSET (1..n) -> S] :
            \A T \in SUBSET (1..n) : g[T] = Step(g, f, b, T)
    BY <2>1 DEF Recursive
  <2>3. ASSUME NEW T \in SUBSET (1..n) PROVE g[T] = Next1(g, T)
    <3>1. T \ {Greatest(T)} \in SUBSET (1..n)
      OBVIOUS
    <3> QED BY <1>3, <2>2, <3>1
  <2> HIDE DEF Next1
  <2>4. g = [T \in SUBSET (1..n) |-> Next1(g, T)]
    BY <2>3
  <2> QED BY <2>4
<1>5. h = [T \in SUBSET (DOMAIN q) |-> Next1(h, T)]
  <2> HIDE DEF Next1
  <2> QED BY <1>4
<1>6. TheCollapse!FoldLeft(complete, b, q) = h[1..n]
  BY DEF TheCollapse!FoldLeft, TheCollapse!MapThenFoldSet
<1> HIDE DEF h
<1>7. Follows(n, S, b, f, h)
  <2>1. ASSUME NEW T \in SUBSET (1..n),
               T # {} => h[T \ {Greatest(T)}] \in S
        PROVE  h[T] = Step(h, f, b, T)
    <3>1. Next1(h, T) = Step(h, f, b, T)
      BY <1>3, <2>1
    <3> HIDE DEF Next1
    <3> QED BY <1>5, <3>1
  <2> HIDE DEF f
  <2> QED BY <2>1 DEF Follows
<1>8. Folded(n, S, b, f, h[1..n])
  <2> HIDE DEF f
  <2> QED BY <1>1, <1>7, FoldStays
<1>9. \A s \in S : n # 0 => f[<<n, s>>] = TheCollapse!Complete(p, s, q[n])
  OBVIOUS
<1> HIDE DEF f
<1> QED BY <1>6, <1>8, <1>9 DEF Folded, PanelRan

(***************************************************************************)
(* While the callbacks of p run, p is in transition, open or folded, and   *)
(* open only if one of them has opened it.                                 *)
(***************************************************************************)
Ending(a, p) ==
    {s \in PanelsType :
        /\ Only(a, s, p) /\ s.waiting[p] = <<>>
        /\ s.grouped[p] = a.grouped[p]
        /\ s.data[p] \in {a.data[p], "idle"}
        /\ a.data[p] = "none" => s.data[p] = "none"
        /\ s.cls[p] = "in" =>
              \E i \in DOMAIN a.waiting[p] : a.waiting[p][i].event = "shown"}

(***************************************************************************)
(* complete does not leave that, and nothing is in transition after it.    *)
(***************************************************************************)
LEMMA CompleteEnds ==
    ASSUME NEW a \in PanelsType, NEW p \in Panels, OwnBusy(a, p),
           NEW s \in Ending(a, p), NEW i \in DOMAIN a.waiting[p]
    PROVE  LET k == a.waiting[p][i]
               r == TheCollapse!Complete(p, s, k)
           IN  /\ r \in Ending(a, p)
               /\ r.cls[p] # "collapsing"
               /\ k.own => r.data[p] = "idle"
<1>1. PICK q \in Seq(TheCollapse!Callbacks) : q = a.waiting[p]
  BY PanelFacts
<1>2. PICK k \in TheCollapse!Callbacks : k = a.waiting[p][i]
  BY <1>1
<1>3. PICK r : r = TheCollapse!Complete(p, s, k)
  OBVIOUS
<1>4. s \in PanelsType
  BY DEF Ending
<1>5. PICK c : c = IF k.event = "shown" \/ s.cls[p] = "in" THEN "in"
                                                           ELSE "collapse"
  OBVIOUS
<1>6. PICK d : d = IF k.own THEN "idle" ELSE s.data[p]
  OBVIOUS
<1>7. IsPut(s, r, p, c, d, s.grouped[p], s.waiting[p])
  BY <1>3, <1>4, <1>5, <1>6, CompleteGoes
<1>8. Only(a, r, p) /\ r \in PanelsType
  BY <1>7 DEF Ending, IsPut, Only, SameAccordion, SamePanel
<1>9. /\ r.waiting[p] = <<>> /\ r.cls[p] = c /\ r.data[p] = d
      /\ r.grouped[p] = a.grouped[p]
  BY <1>7 DEF Ending, IsPut
<1>10. c # "collapsing" /\ (k.own => d = "idle")
  BY <1>5, <1>6
<1>11. d \in {a.data[p], "idle"} /\ (a.data[p] = "none" => d = "none")
  <2>1. k.own => a.data[p] = "busy"
    BY <1>2 DEF OwnBusy
  <2> QED BY <1>6, <2>1 DEF Ending
<1>12. c = "in" =>
          \E j \in DOMAIN a.waiting[p] : a.waiting[p][j].event = "shown"
  BY <1>2, <1>5 DEF Ending
<1>13. r \in Ending(a, p)
  BY <1>8, <1>9, <1>11, <1>12 DEF Ending
<1> QED BY <1>2, <1>3, <1>9, <1>10, <1>13

(***************************************************************************)
(* The end of a transition keeps the states of an accordion: if the panel  *)
(* refused calls, its own callback is the last one.                        *)
(***************************************************************************)
LEMMA EndKeeps ==
    ASSUME NEW a \in CollapseStates, NEW p \in Panels, a.waiting[p] # <<>>
    PROVE  LET complete(s, callback) == TheCollapse!Complete(p, s, callback)
           IN  TheCollapse!FoldLeft(complete,
                                    [a EXCEPT !.waiting[p] = <<>>],
                                    a.waiting[p]) \in CollapseStates
<1> DEFINE complete(s, callback) == TheCollapse!Complete(p, s, callback)
<1>1. /\ a \in PanelsType /\ PanelRuns(a, p) /\ OwnBusy(a, p)
      /\ Strict(a) => PanelKnown(a, p)
  BY DEF CollapseStates, RunStates, PanelRuns
<1>2. PICK q \in Seq(TheCollapse!Callbacks) : q = a.waiting[p]
  BY <1>1, PanelFacts
<1>3. PICK n \in Nat : n = Len(q) /\ DOMAIN q = 1..n
  BY <1>2
<1>4. n # 0 /\ n \in DOMAIN q
  BY <1>2, <1>3
<1>5. PICK b : b = [a EXCEPT !.waiting[p] = <<>>]
  OBVIOUS
<1>6. IsPut(a, b, p, a.cls[p], a.data[p], a.grouped[p], <<>>)
  <2>1. b = [a EXCEPT !.cls = a.cls, !.data = a.data,
                      !.grouped = a.grouped,
                      !.waiting = [a.waiting EXCEPT ![p] = <<>>]]
    <3>1. b = [a EXCEPT !.waiting = [a.waiting EXCEPT ![p] = <<>>]]
      BY <1>5
    <3> QED BY <1>1, <3>1 DEF PanelsType
  <2>2. /\ [a.cls EXCEPT ![p] = a.cls[p]] = a.cls
        /\ [a.data EXCEPT ![p] = a.data[p]] = a.data
        /\ [a.grouped EXCEPT ![p] = a.grouped[p]] = a.grouped
    BY <1>1, PanelFacts
  <2>3. Puts(a, b, p, a.cls[p], a.data[p], a.grouped[p], <<>>)
    BY <2>1, <2>2, Zenon DEF Puts
  <2>4. /\ a.cls[p] \in {"collapse", "collapsing", "in"}
        /\ a.data[p] \in {"none", "idle", "busy"}
        /\ a.grouped[p] \in BOOLEAN
    BY <1>1, PanelFacts
  <2>5. <<>> \in Seq(TheCollapse!Callbacks)
    OBVIOUS
  <2> QED BY <1>1, <2>3, <2>4, <2>5, PutGoes, Zenon
<1>7. a.cls[p] = "collapsing"
  BY <1>1 DEF PanelRuns
<1>8. b \in Ending(a, p)
  BY <1>6, <1>7 DEF Ending, IsPut, Only, SameAccordion
<1>9. \A s \in Ending(a, p), i \in 1..n :
          TheCollapse!Complete(p, s, q[i]) \in Ending(a, p)
  BY <1>1, <1>2, <1>3, CompleteEnds
<1>10. PanelRan(n, Ending(a, p), b, q, p)
  BY <1>3, <1>8, <1>9, PanelFold
<1>11. PICK r : r = TheCollapse!FoldLeft(complete, b, q)
  OBVIOUS
<1>12. \E s \in Ending(a, p) : r = TheCollapse!Complete(p, s, q[n])
  BY <1>4, <1>10, <1>11 DEF PanelRan
<1>13. /\ r \in Ending(a, p) /\ r.cls[p] # "collapsing"
       /\ q[n].own => r.data[p] = "idle"
  BY <1>1, <1>2, <1>4, <1>12, CompleteEnds
<1>14. /\ Only(a, r, p) /\ r.waiting[p] = <<>> /\ r.animate = a.animate
       /\ r.opened = a.opened /\ r.grouped[p] = a.grouped[p]
       /\ DOMAIN r.waiting[p] = {}
  BY <1>13 DEF Ending, Only, SameAccordion
<1>15. PanelRuns(r, p)
  <2>1. r.data[p] # "busy"
    BY <1>1, <1>2, <1>3, <1>13 DEF Ending, PanelRuns
  <2> QED BY <1>13, <1>14, <2>1 DEF PanelRuns, OwnBusy
<1>16. ASSUME Strict(a) PROVE PanelKnown(r, p)
  <2>1. PanelKnown(a, p)
    BY <1>1, <1>16
  <2> QED BY <1>7, <1>13, <1>14, <2>1 DEF Ending, PanelKnown
<1>17. Shows(r, p) => Shows(a, p)
  BY <1>13, <1>14 DEF Ending, Shows
<1>18. r \in CollapseStates
  BY <1>14, <1>15, <1>16, <1>17, PanelKeeps
<1> HIDE DEF complete
<1>19. r = TheCollapse!FoldLeft(complete, [a EXCEPT !.waiting[p] = <<>>],
                                a.waiting[p])
  BY <1>2, <1>5, <1>11
<1> QED BY <1>18, <1>19 DEF complete

-----------------------------------------------------------------------------
(***************************************************************************)
(* The invariant of the accordion.                                         *)
(***************************************************************************)
CollapseInv == kind = "collapse" => widget \in CollapseStates

(***************************************************************************)
(* The page marks one panel as open at most.                               *)
(***************************************************************************)
LEMMA CollapseStarts ==
    ASSUME kind = "collapse", TheCollapse!Init
    PROVE  widget \in CollapseStates
<1>1. PICK parent \in BOOLEAN, animate \in BOOLEAN,
           bare \in BOOLEAN, patient \in BOOLEAN,
           vetoes \in SUBSET {"show", "hide"},
           open \in {{}} \cup {{p} : p \in Panels} :
        widget = [parent |-> parent, animate |-> animate,
                  vetoes |-> vetoes, opened |-> open,
                  bare |-> bare, patient |-> patient,
                  cls |-> [p \in Panels |-> IF p \in open THEN "in"
                                                         ELSE "collapse"],
                  data |-> [p \in Panels |-> "none"],
                  grouped |-> [p \in Panels |-> FALSE],
                  waiting |-> [p \in Panels |-> <<>>]]
  BY Zenon DEF TheCollapse!Init
<1>2. PICK cls \in [Panels -> {"collapse", "collapsing", "in"}] :
          cls = [p \in Panels |-> IF p \in open THEN "in" ELSE "collapse"]
  OBVIOUS
<1>3. PICK data \in [Panels -> {"none", "idle", "busy"}] :
          data = [p \in Panels |-> "none"]
  OBVIOUS
<1>3a. PICK grouped \in [Panels -> BOOLEAN] :
          grouped = [p \in Panels |-> FALSE]
  OBVIOUS
<1>4. PICK waiting \in [Panels -> Seq(TheCollapse!Callbacks)] :
          waiting = [p \in Panels |-> <<>>]
  <2>1. <<>> \in Seq(TheCollapse!Callbacks)
    OBVIOUS
  <2> QED BY <2>1
<1>5. widget = [parent |-> parent, animate |-> animate, vetoes |-> vetoes,
                opened |-> open, bare |-> bare, patient |-> patient,
                cls |-> cls, data |-> data, grouped |-> grouped,
                waiting |-> waiting]
  BY <1>1, <1>2, <1>3, <1>3a, <1>4, Zenon
<1>6. open \in SUBSET Panels
  OBVIOUS
<1>7. widget \in PanelsType
  BY <1>5, <1>6, Zenon DEF PanelsType
<1>8. /\ widget.opened = open /\ widget.cls = cls
      /\ widget.data = data /\ widget.waiting = waiting
  BY <1>5, Zenon
<1>9. ASSUME NEW p \in Panels
      PROVE  /\ widget.data[p] = "none" /\ widget.waiting[p] = <<>>
             /\ DOMAIN widget.waiting[p] = {}
             /\ widget.cls[p] = (IF p \in open THEN "in" ELSE "collapse")
  BY <1>2, <1>3, <1>4, <1>8
<1>10. \A p \in Panels : PanelRuns(widget, p)
  BY <1>9 DEF PanelRuns, OwnBusy
<1>11. \A p \in Panels : PanelKnown(widget, p)
  BY <1>8, <1>9 DEF PanelKnown
<1>12. \A p, q \in Panels : p \in open /\ q \in open => p = q
  OBVIOUS
<1>13. \A p \in Panels : Shows(widget, p) => p \in open
  BY <1>9 DEF Shows
<1> QED BY <1>7, <1>10, <1>11, <1>12, <1>13
        DEF CollapseStates, RunStates, OneShows

(***************************************************************************)
(* Every handler of the accordion keeps its states.                        *)
(***************************************************************************)
LEMMA CollapseStep ==
    ASSUME widget \in CollapseStates, TheCollapse!Next
    PROVE  widget' \in CollapseStates
<1>1. PICK p \in Panels :
          \/ TheCollapse!Click(p) \/ TheCollapse!Script(p)
          \/ TheCollapse!TransitionEnd(p)
  BY DEF TheCollapse!Next
<1>2. ASSUME TheCollapse!Ready(p), Strict(widget)
      PROVE  widget.opened = {} \/ Settled(widget)
  BY <1>2 DEF TheCollapse!Ready, Strict, Settled
<1>3. CASE TheCollapse!Click(p)
  <2>1. TheCollapse!Ready(p)
    BY <1>3 DEF TheCollapse!Click
  <2>2. CASE widget.data[p] = "none"
    <3>1. widget' = TheCollapse!Construct(widget, p)
      BY <1>3, <2>2, Zenon DEF TheCollapse!Click
    <3> QED BY <1>2, <2>1, <3>1, ConstructKeeps
  <2>3. CASE widget.data[p] # "none" /\ widget.cls[p] = "in"
    <3>1. widget' = TheCollapse!Hide(widget, p)
      BY <1>3, <2>3, Zenon DEF TheCollapse!Click
    <3> QED BY <2>3, <3>1, HidePanelKeeps
  <2>4. CASE widget.data[p] # "none" /\ widget.cls[p] # "in"
    <3>1. widget' = TheCollapse!Show(widget, p)
      BY <1>3, <2>4, Zenon DEF TheCollapse!Click
    <3> QED BY <1>2, <2>1, <2>4, <3>1, ShowPanelKeeps
  <2> QED BY <2>2, <2>3, <2>4
<1>3a. CASE TheCollapse!Script(p)
  <2>1. TheCollapse!Ready(p)
    BY <1>3a DEF TheCollapse!Script
  <2>2. CASE widget' = TheCollapse!Made(widget, p, widget.parent)
    <3>1. widget.parent \in BOOLEAN
      BY Zenon DEF CollapseStates, RunStates, PanelsType
    <3> QED BY <2>2, <3>1, MadeKeeps DEF Strict
  <2>3. CASE widget.data[p] # "none"
    <3>1. widget = TheCollapse!Made(widget, p, FALSE)
      BY <2>3 DEF TheCollapse!Made
    <3>2. \/ widget' = TheCollapse!Show(widget, p)
          \/ widget' = TheCollapse!Hide(widget, p)
          \/ widget' = TheCollapse!Made(widget, p, widget.parent)
      BY <1>3a, <3>1 DEF TheCollapse!Script
    <3> QED BY <1>2, <2>1, <2>2, <2>3, <3>2, ShowPanelKeeps, HidePanelKeeps
  <2>4. CASE widget.bare
    <3>1. PICK b : b = TheCollapse!Made(widget, p, FALSE)
      OBVIOUS
    <3>2. ~Strict(widget)
      BY <2>4 DEF Strict
    <3>3. b \in CollapseStates
      BY <3>1, <3>2, MadeKeeps
    <3>4. ~Strict(b)
      <4>1. Only(widget, b, p)
        BY <3>1, MadeRuns DEF CollapseStates
      <4> QED BY <3>2, <4>1 DEF Only, SameAccordion, Strict
    <3>5. \/ widget' = TheCollapse!Show(b, p)
          \/ widget' = TheCollapse!Hide(b, p)
          \/ widget' = TheCollapse!Made(widget, p, widget.parent)
      BY <1>3a, <3>1 DEF TheCollapse!Script
    <3> QED BY <2>2, <3>3, <3>4, <3>5, ShowPanelKeeps, HidePanelKeeps
  <2> QED BY <1>3a, <2>2, <2>3, <2>4 DEF TheCollapse!Script
<1>4. CASE TheCollapse!TransitionEnd(p)
  BY <1>4, EndKeeps DEF TheCollapse!TransitionEnd
<1> QED BY <1>1, <1>3, <1>3a, <1>4

(***************************************************************************)
(* The invariant holds in every state of a page.                           *)
(***************************************************************************)
LEMMA CollapseHolds == Init /\ [][Next]_vars => []CollapseInv
<1>1. Init => CollapseInv
  BY CollapseStarts DEF Init, CollapseInv
<1>2. CollapseInv /\ [Next]_vars => CollapseInv'
  BY CollapseStep DEF CollapseInv, Next, vars
<1> QED BY <1>1, <1>2, PTL

(***************************************************************************)
(* In an accordion at most one panel opens or is open, for any number of   *)
(* panels, on a page that does not cancel hide and whose script calls no   *)
(* panel without an instance: however fast the triggers are clicked if all *)
(* panels were folded at first, and otherwise if the page waits for        *)
(* transitions (show hides the active panels before it unfolds, does       *)
(* nothing if the first of them is in transition, and throws the instance  *)
(* without parent away that it makes of a panel marked as open).           *)
(***************************************************************************)
THEOREM AccordionTheorem == Spec => []AccordionOne
<1>1. CollapseInv => AccordionOne
  <2> SUFFICES ASSUME CollapseInv, kind = "collapse", widget.parent,
                      "hide" \notin widget.vetoes, ~widget.bare,
                      widget.opened = {} \/ widget.patient
               PROVE  TheCollapse!Cardinality(
                          {p \in Panels : TheCollapse!Opening(p)}) <= 1
    BY DEF AccordionOne, TheCollapse!AccordionOne
  <2> DEFINE P == {p \in Panels : TheCollapse!Opening(p)}
  <2>1. OneShows(widget)
    BY DEF CollapseInv, CollapseStates, Strict
  <2>2. ASSUME NEW x \in P, NEW y \in P PROVE x = y
    BY <2>1 DEF OneShows, Shows, TheCollapse!Opening
  <2>3. TheCollapse!Cardinality(P) = Cardinality(P)
    BY DEF TheCollapse!Cardinality, Cardinality
  <2> HIDE DEF P
  <2>4. Cardinality(P) <= 1
    BY <2>2, AtMostOne
  <2> QED BY <2>3, <2>4 DEF P
<1> QED BY <1>1, CollapseHolds, PTL DEF Spec

(***************************************************************************)
(* No panel of an accordion is stuck in transition, for any number of      *)
(* panels and callbacks (the callback that makes a panel free waits last   *)
(* on it, or its instance has been thrown away).                           *)
(***************************************************************************)
THEOREM StuckTheorem == Spec => []NoPanelStuck
<1>1. CollapseInv => NoPanelStuck
  <2> SUFFICES ASSUME CollapseInv, kind = "collapse", NEW p \in Panels
               PROVE  /\ widget.data[p] = "busy" =>
                            \E i \in DOMAIN widget.waiting[p] :
                                widget.waiting[p][i].own
                      /\ widget.cls[p] = "collapsing"
                            <=> widget.waiting[p] # <<>>
    BY DEF NoPanelStuck, TheCollapse!NoPanelStuck
  <2>1. widget \in PanelsType /\ PanelRuns(widget, p)
    BY DEF CollapseInv, CollapseStates, RunStates
  <2>2. PICK q \in Seq(TheCollapse!Callbacks) : q = widget.waiting[p]
    BY <2>1, PanelFacts
  <2>3. q # <<>> => Len(q) \in DOMAIN q
    OBVIOUS
  <2> QED BY <2>1, <2>2, <2>3 DEF PanelRuns
<1> QED BY <1>1, CollapseHolds, PTL DEF Spec

-----------------------------------------------------------------------------
(***************************************************************************)
(* The types of the widgets: a widget keeps its kind, and the invariants   *)
(* of the kinds say of which type it is.                                   *)
(***************************************************************************)
Kinds ==
    {"tooltip", "placement", "modal", "collapse", "carousel", "tab",
     "scrollspy", "affix", "dropdown", "button", "alert"}

KindInv == kind \in Kinds

(***************************************************************************)
(* A widget stays what it is.                                              *)
(***************************************************************************)
LEMMA KindAlways == Spec => []KindInv
<1>1. Init => KindInv
  BY DEF Init, KindInv, Kinds
<1>2. KindInv /\ [Next]_vars => KindInv'
  BY DEF KindInv, Next, vars
<1> QED BY <1>1, <1>2, PTL DEF Spec

(***************************************************************************)
(* No more callbacks wait for the end of a tip's transition than the bound *)
(* says.                                                                   *)
(***************************************************************************)
LEMMA TooltipTyped ==
    ASSUME Bounded(widget)
    PROVE  TheTooltip!TypeOK
<1>1. widget \in TipType /\ Load(widget) <= 2 * MaxTipWaiting
  BY DEF Bounded
<1>2. PICK q \in Seq(TipCallbacks) : q = widget.waiting
  BY <1>1 DEF TipType
<1>3. PICK n \in Nat : n = Len(q)
  BY <1>2
<1>4. n \in 0 .. 2 * MaxTipWaiting
  BY <1>1, <1>2, <1>3, LoadFacts, PageAssumption
<1>5. q \in [1..n -> {"shown", "hidden", "destroyed"}]
  BY <1>2, <1>3 DEF TipCallbacks
<1>6. q \in UNION {[1..m -> {"shown", "hidden", "destroyed"}] :
                     m \in 0 .. 2 * MaxTipWaiting}
  BY <1>4, <1>5, Zenon
<1>7. widget = [widget EXCEPT !.waiting = q]
  BY <1>1, <1>2, Zenon DEF TipType
<1>8. widget \in
        [opt : TheTooltip!Options, enabled : BOOLEAN,
         inState : SUBSET {"click", "hover", "focus"},
         hoverState : {"null", "in", "out"},
         timeout : {"none", "show", "hide"}, proxies : 0..2,
         placed : BOOLEAN, open : BOOLEAN, fade : BOOLEAN,
         waiting : UNION {[1..m -> {"shown", "hidden", "destroyed"}] :
                            m \in 0 .. 2 * MaxTipWaiting}]
  BY <1>1, <1>6, <1>7, Zenon DEF TipType
<1> QED BY <1>8, Zenon DEF TheTooltip!TypeOK

(***************************************************************************)
(* What the tip of a placement is.                                         *)
(***************************************************************************)
LEMMA PlacementTyped ==
    ASSUME Proven!PlacementInv
    PROVE  ThePlacement!TypeOK
<1>1. Proven!TypeOK
  BY SameLengths, Proven!PlacementType
<1> QED BY <1>1 DEF Proven!TypeOK, ThePlacement!TypeOK, Proven!Sides,
                    ThePlacement!Sides, Proven!Boxes, ThePlacement!Boxes,
                    Proven!Hidden, ThePlacement!Hidden

(***************************************************************************)
(* The entries that a scroll spy knows are sections, and the height that   *)
(* it remembers is one of a layout.                                        *)
(***************************************************************************)
LEMMA SpyTyped ==
    ASSUME widget \in SpyStates
    PROVE  TheScrollSpy!TypeOK
<1>1. widget \in SpyType /\ Known(widget)
  BY DEF SpyStates
<1>2. /\ widget.marked \in TheScrollSpy!Sections \cup {0}
      /\ widget.activeTarget \in TheScrollSpy!Sections \cup {0}
      /\ widget.scrollHeight \in TheScrollSpy!Heights
  BY <1>1 DEF Known, SpyEntries, TheScrollSpy!Heights
<1> QED BY <1>1, <1>2, Zenon DEF SpyType, TheScrollSpy!TypeOK

(***************************************************************************)
(* The state of the widget has the type of its plugin, for any numbers of  *)
(* elements, callbacks and timers and all lengths; in particular no more   *)
(* than 2 * MaxTipWaiting callbacks of a tip ever wait, although timers    *)
(* and the ends of transitions add to them without a look at the bound.    *)
(***************************************************************************)
THEOREM PageTypeTheorem == Spec => []TypeOK
<1>1. ASSUME KindInv, LoadInv, PlacementInv, ModalInv, CollapseInv,
             CarouselInv, TabInv, SpyInv, AffixInv, MenusInv, ButtonInv,
             AlertInv
      PROVE  TypeOK
  <2>1. kind = "tooltip" => TheTooltip!TypeOK
    BY <1>1, TooltipTyped DEF LoadInv
  <2>2. kind = "placement" => ThePlacement!TypeOK
    BY <1>1, PlacementTyped DEF PlacementInv
  <2>3. kind = "modal" => TheModal!TypeOK
    BY <1>1, Zenon DEF ModalInv, ModalStates, ModalType, TheModal!TypeOK
  <2>4. kind = "collapse" => TheCollapse!TypeOK
    BY <1>1, Zenon DEF CollapseInv, CollapseStates, RunStates, PanelsType,
                       TheCollapse!TypeOK
  <2>5. kind = "carousel" => TheCarousel!TypeOK
    BY <1>1, Zenon DEF CarouselInv, CarouselStates, CarouselType, Items,
                       NoItem, TheCarousel!TypeOK
  <2>6. kind = "tab" => TheTab!TypeOK
    BY <1>1, Zenon DEF TabInv, TabStates, TabType, TabCall, TheTab!TypeOK
  <2>7. kind = "scrollspy" => TheScrollSpy!TypeOK
    BY <1>1, SpyTyped DEF SpyInv
  <2>8. kind = "affix" => TheAffix!TypeOK
    BY <1>1, Zenon DEF AffixInv, AffixStates, AffixType, TheAffix!TypeOK
  <2>9. kind = "dropdown" => TheDropdown!TypeOK
    BY <1>1, Zenon DEF MenusInv, MenusStates, MenusType,
                       TheDropdown!TypeOK
  <2>10. kind = "button" => TheButton!TypeOK
    BY <1>1 DEF ButtonInv, ButtonStates, ButtonType,
                TheButton!Texts, TheButton!TypeOK
  <2>11. kind = "alert" => TheAlert!TypeOK
    BY <1>1, Zenon DEF AlertInv, AlertStates, AlertType, TheAlert!TypeOK
  <2> QED BY <1>1, <2>1, <2>2, <2>3, <2>4, <2>5, <2>6, <2>7, <2>8, <2>9,
             <2>10, <2>11 DEF KindInv, Kinds, TypeOK
<1>2. Spec => []ModalInv /\ []CollapseInv
  BY ModalHolds, CollapseHolds, PTL DEF Spec
<1> QED BY <1>1, <1>2, KindAlways, LoadAlways, PlacementAlways,
           CarouselAlways, TabAlways, SpyAlways, AffixAlways, MenusAlways,
           ButtonAlways, AlertAlways, PTL

=============================================================================
