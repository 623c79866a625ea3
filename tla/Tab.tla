-------------------------------- MODULE Tab --------------------------------
(***************************************************************************)
(* The tabs of bootstrap.js: headers, of which one is active, and panes,   *)
(* one per header.  activate is called twice by show: for the header,      *)
(* where it acts at once, and for the pane, where it waits for the panes   *)
(* that are active to fade.  Those panes fade together, and they stay the  *)
(* active ones until they have, so that the calls that wait are one queue. *)
(* Menus of tabs and aria-expanded are left out.  A listener that cancels  *)
(* hide or show makes a click do nothing, which is a stuttering step.      *)
(***************************************************************************)
EXTENDS Naturals, FiniteSets, Transition

CONSTANTS
    Tabs,         \* the tabs, each a header with its pane
    MaxWaiting    \* bound: callbacks waiting for the end of a transition

VARIABLE tabs

(***************************************************************************)
(* fade: a pane has the class fade and transitions are supported.  header  *)
(* is the active header; active and in are the panes with these classes.   *)
(* waiting are the calls of next that wait: the panes each will put out    *)
(* and the one it will show.                                               *)
(***************************************************************************)
TypeOK ==
    tabs \in [fade : BOOLEAN, header : Tabs, active : SUBSET Tabs,
              in : SUBSET Tabs,
              waiting : Seq([out : SUBSET Tabs, element : Tabs])]

Init ==
    \E fade \in BOOLEAN, t \in Tabs :
        tabs = [fade |-> fade, header |-> t, active |-> {t}, in |-> {t},
                waiting |-> <<>>]

(***************************************************************************)
(* next, inside activate.  Mutant: in the other order.                     *)
(***************************************************************************)
SwitchReversed(s, call) ==
    [s EXCEPT !.active = (@ \cup {call.element}) \ call.out,
              !.in = IF s.fade THEN @ \cup {call.element} ELSE @]

Switch(s, call) ==
    [s EXCEPT !.active = (@ \ call.out) \cup {call.element},
              !.in = IF s.fade THEN @ \cup {call.element} ELSE @]

(***************************************************************************)
(* $active of activate.  Mutant: one of the panes, if several are active.  *)
(***************************************************************************)
ActiveOne(s) == {CHOOSE t \in s.active : TRUE}

Active(s) == s.active

(***************************************************************************)
(* show: activate for the header, then for the pane, where $active are the *)
(* panes that are active now.                                              *)
(***************************************************************************)
Show(t) ==
    /\ tabs.header # t
    /\ Len(tabs.waiting) < MaxWaiting
    /\ LET call == [out |-> Active(tabs), element |-> t]
           chosen == [tabs EXCEPT !.header = t]
           shown == IF tabs.fade /\ Active(tabs) # {}
                    THEN [chosen EXCEPT !.waiting = Wait(@, call)]
                    ELSE Switch(chosen, call)
       IN  tabs' = [shown EXCEPT !.in = @ \ Active(tabs)]

TransitionEnd ==
    /\ tabs.waiting # <<>>
    /\ tabs' = FoldLeft(Switch, [tabs EXCEPT !.waiting = <<>>], tabs.waiting)

Next == (\E t \in Tabs : Show(t)) \/ TransitionEnd

-----------------------------------------------------------------------------
(***************************************************************************)
(* The pane of the header that is highlighted is on the screen once the    *)
(* transitions are over, however fast the tabs were clicked.               *)
(***************************************************************************)
HeaderIsShown ==
    tabs.waiting = <<>> =>
        /\ tabs.header \in tabs.active
        /\ tabs.fade => tabs.header \in tabs.in

(***************************************************************************)
(* Once a switch is over, the only panes on the screen are those of the    *)
(* headers clicked while it lasted.  Thus a pane of another header is left *)
(* only where several were clicked during one transition, and the next     *)
(* switch takes all of these away, for each call that waits puts out the   *)
(* panes that were active and not only those that it was called for.       *)
(***************************************************************************)
LeftoversFade ==
    tabs'.waiting = <<>> =>
        tabs'.active \subseteq
            {tabs'.header} \cup
            {tabs.waiting[i].element : i \in DOMAIN tabs.waiting}
=============================================================================
