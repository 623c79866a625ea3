------------------------------- MODULE MCPage -------------------------------
(***************************************************************************)
(* An instance of Page for TLC.                                            *)
(***************************************************************************)
EXTENDS Page

(***************************************************************************)
(* The default triggers of a tooltip, those of a popover, and all.         *)
(***************************************************************************)
Triggers == {{"hover", "focus"}, {"click"}, {"hover", "focus", "click"}}

(***************************************************************************)
(* Pages of two and three sections, two of them with the same top, and one *)
(* whose first section begins at the top of the page.                      *)
(***************************************************************************)
FourLayouts ==
    {[tops |-> <<1, 3, 5>>, height |-> 12],
     [tops |-> <<0, 4, 6>>, height |-> 13],
     [tops |-> <<3, 7>>, height |-> 14],
     [tops |-> <<2, 2, 6>>, height |-> 15]}
=============================================================================
