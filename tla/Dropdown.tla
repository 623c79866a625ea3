------------------------------ MODULE Dropdown ------------------------------
(***************************************************************************)
(* The dropdown menus of bootstrap.js: a toggle with a menu each, a click  *)
(* anywhere closes them all, and the keys move the focus.  Every handler   *)
(* is bound to the document: a click on a toggle runs toggle, which stops  *)
(* it, and any other click runs clearMenus.  Touch screens and disabled    *)
(* toggles are left out.                                                   *)
(***************************************************************************)
EXTENDS Integers, FiniteSets

CONSTANTS
    Menus,    \* the menus, numbered in the order of the document
    Entries   \* the entries of a menu, an integer

VARIABLE menus

(***************************************************************************)
(* open: the menus with the class open; kept: those whose listener cancels *)
(* hide, barred: those whose listener cancels show.  focus is the entry    *)
(* that has the focus, 0 for the toggle itself, and focusIn its menu, 0    *)
(* for none.                                                               *)
(***************************************************************************)
TypeOK ==
    menus \in [open : SUBSET Menus, kept : SUBSET Menus, barred : SUBSET Menus,
               focusIn : Menus \cup {0}, focus : 0..Entries]

Init ==
    \E kept, barred \in SUBSET Menus :
        menus = [open |-> {}, kept |-> kept, barred |-> barred,
                 focusIn |-> 0, focus |-> 0]

(***************************************************************************)
(* clearMenus.  input is the menu with the input that was clicked, 0 for a *)
(* click elsewhere: its menu stays open, unless an earlier one is open as  *)
(* well, as hide has then taken the place of the event.                    *)
(***************************************************************************)
ClearMenus(s, input) ==
    LET spared == {m \in {input} \cap s.open : \A n \in s.open : m <= n}
        left == s.open \cap (s.kept \cup spared)
    IN  [s EXCEPT !.open = left,
                  !.focusIn = IF s.focus = 0 \/ @ \in left THEN @ ELSE 0]

(***************************************************************************)
(* toggle, by a click on the toggle of m.  Mutant: without clearMenus.     *)
(***************************************************************************)
ToggleAlone(s, m) ==
    IF m \in s.open THEN [s EXCEPT !.open = @ \ {m}]
    ELSE IF m \in s.barred THEN s
    ELSE [s EXCEPT !.open = @ \cup {m}, !.focusIn = m, !.focus = 0]

Toggle(s, m) ==
    LET cleared == ClearMenus(s, 0)
    IN  IF m \in s.open \cup s.barred THEN cleared
        ELSE [cleared EXCEPT !.open = @ \cup {m}, !.focusIn = m, !.focus = 0]

Click(m) == menus' = Toggle(menus, m)

ClickElsewhere == menus' = ClearMenus(menus, 0)

ClickInput(m) == m \in menus.open /\ menus' = ClearMenus(menus, m)

(***************************************************************************)
(* keydown, on the toggle or in the menu of m.                             *)
(***************************************************************************)
Keys == {"up", "down", "escape", "space"}

KeyDown(m, key) ==
    LET active == m \in menus.open
        at == menus.focus - 1
        moved == CASE key = "up" /\ at > 0 -> at - 1
                   [] key = "down" /\ at < Entries - 1 -> at + 1
                   [] OTHER -> IF at = -1 THEN 0 ELSE at
    IN  /\ menus.focusIn = m
        /\ \/ /\ active <=> key = "escape"
              /\ menus' = Toggle([menus EXCEPT
                             !.focus = IF key = "escape" THEN 0 ELSE @], m)
           \/ /\ active /\ key # "escape" /\ Entries > 0
              /\ menus' = [menus EXCEPT !.focus = moved + 1]

Next ==
    \/ ClickElsewhere
    \/ \E m \in Menus : Click(m) \/ ClickInput(m)
    \/ \E m \in Menus, key \in Keys : KeyDown(m, key)

-----------------------------------------------------------------------------
(***************************************************************************)
(* Of the menus whose listeners let them close at most one is open.        *)
(***************************************************************************)
OneMenuOpen == Cardinality(menus.open \ menus.kept) <= 1
=============================================================================
