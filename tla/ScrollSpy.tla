----------------------------- MODULE ScrollSpy -----------------------------
(***************************************************************************)
(* The scroll spy of bootstrap.js: it marks the entry of the navigation    *)
(* whose section is at the top of the window.  It keeps the tops of the    *)
(* sections and looks at the page again when the page's height is not the  *)
(* one it has kept.                                                        *)
(***************************************************************************)
EXTENDS Integers, FiniteSets, Sequences

CONSTANTS
    Layouts,   \* what the page may look like: [tops, height]
    Window,    \* the height of the window
    Offset     \* options.offset

VARIABLE spy

(***************************************************************************)
(* page is the layout now.  offsets (with targets: entry i is section i)   *)
(* and scrollHeight are what the spy has kept of it, activeTarget is its   *)
(* entry, 0 for null, and marked the entry with the class active.  fresh   *)
(* counts the runs of process since the layout has changed, up to 2.       *)
(***************************************************************************)
Sections == UNION {DOMAIN l.tops : l \in Layouts}

Heights == {l.height : l \in Layouts}

(***************************************************************************)
(* A page has sections, which refresh sorts by their tops, and layouts     *)
(* differ in height, the only thing by which process notices a change.     *)
(***************************************************************************)
LayoutsOK ==
    /\ Window \in Nat /\ Offset \in Nat
    /\ \A l \in Layouts :
          /\ l \in [tops : Seq(Nat), height : Nat] /\ l.tops # <<>>
          /\ \A i, j \in DOMAIN l.tops : i < j => l.tops[i] <= l.tops[j]
    /\ \A l, k \in Layouts : l.height = k.height => l = k

TypeOK ==
    spy \in [page : Layouts, offsets : {l.tops : l \in Layouts},
             scrollHeight : Heights, activeTarget : Sections \cup {0},
             marked : Sections \cup {0}, scrollTop : Nat, fresh : 0..2]

(***************************************************************************)
(* activate and clear.                                                     *)
(***************************************************************************)
Activate(s, i) == [s EXCEPT !.activeTarget = i, !.marked = i]

Clear(s) == [s EXCEPT !.activeTarget = 0, !.marked = 0]

(***************************************************************************)
(* refresh.  Mutant: the tops are not looked up again.                     *)
(***************************************************************************)
RefreshHeight(s) == [s EXCEPT !.scrollHeight = s.page.height]

Refresh(s) ==
    [s EXCEPT !.offsets = s.page.tops, !.scrollHeight = s.page.height]

(***************************************************************************)
(* process takes offsets, targets and activeTarget before it refreshes.    *)
(***************************************************************************)
Process(s) ==
    LET top == s.scrollTop + Offset
        last == Cardinality(DOMAIN s.offsets)
        seen == IF s.scrollHeight # s.page.height THEN Refresh(s) ELSE s
        under == {i \in 1..last : /\ top >= s.offsets[i]
                                  /\ i < last => top < s.offsets[i + 1]}
    IN  CASE top >= Offset + s.page.height - Window ->
               IF s.activeTarget # last THEN Activate(seen, last) ELSE seen
          [] /\ top < Offset + s.page.height - Window
             /\ s.activeTarget # 0 /\ top < s.offsets[1] -> Clear(seen)
          [] OTHER ->
               IF under \subseteq {s.activeTarget} THEN seen
               ELSE Activate(seen, CHOOSE i \in under : TRUE)

Processed(s) ==
    [Process(s) EXCEPT !.fresh = IF @ < 2 THEN @ + 1 ELSE @]

(***************************************************************************)
(* ScrollSpy: refresh and process.                                         *)
(***************************************************************************)
Init ==
    \E page \in Layouts :
        spy = Processed(Refresh(
                 [page |-> page, offsets |-> page.tops,
                  scrollHeight |-> page.height, activeTarget |-> 0,
                  marked |-> 0, scrollTop |-> 0, fresh |-> 1]))

(***************************************************************************)
(* The page is scrolled, and the browser runs the handler.                 *)
(***************************************************************************)
Scroll ==
    \E to \in 0 .. spy.page.height - Window :
        spy' = Processed([spy EXCEPT !.scrollTop = to])

(***************************************************************************)
(* The page changes its layout, and its height with it.                    *)
(***************************************************************************)
Relayout ==
    \E page \in Layouts \ {spy.page} :
        /\ spy.scrollTop <= page.height - Window
        /\ spy' = [spy EXCEPT !.page = page, !.fresh = 0]

Next == Scroll \/ Relayout

-----------------------------------------------------------------------------
(***************************************************************************)
(* The section at the top of the window: the last one that begins above    *)
(* it, or the last one of all at the end of the page.                      *)
(***************************************************************************)
SectionAt(page, top) ==
    LET above == {i \in DOMAIN page.tops : page.tops[i] <= top + Offset}
    IN  IF top >= page.height - Window THEN Cardinality(DOMAIN page.tops)
        ELSE Cardinality(above)

(***************************************************************************)
(* Two scroll events after a change of layout the entry that is marked is  *)
(* that of the section on the screen; the first one may still use the tops *)
(* of the old layout.                                                      *)
(***************************************************************************)
SpyCatchesUp ==
    spy.fresh = 2 =>
        /\ spy.activeTarget = SectionAt(spy.page, spy.scrollTop)
        /\ spy.marked = spy.activeTarget
=============================================================================
