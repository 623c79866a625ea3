------------------------------ MODULE Tooltip ------------------------------
(***************************************************************************)
(* The tooltip of bootstrap.js, the popover that extends it, and the       *)
(* confirmation of bootstrap-confirmation.js that extends it again: one    *)
(* element of the watchdog's page with its tip.                            *)
(*                                                                         *)
(* A handler runs to its end before the next one: it is a function from    *)
(* the state of the tip to its new state, and the actions are the events   *)
(* that run handlers.  Where the tip goes is the module Placement.  Not    *)
(* modelled: its content, and delegation (options.selector).               *)
(***************************************************************************)
EXTENDS Naturals, Transition

CONSTANTS
    TriggerSets,  \* the values of options.trigger, as sets
    MaxWaiting    \* bound: callbacks waiting for the end of a transition

VARIABLE tip

(***************************************************************************)
(* animate is options.animation with transitions supported; scripted says  *)
(* that the page's own script calls the plugin too; vetoes are the events  *)
(* that a listener of the page cancels with preventDefault.                *)
(***************************************************************************)
Options ==
    {o \in [trigger : TriggerSets, delayShow : BOOLEAN, delayHide : BOOLEAN,
            animate : BOOLEAN, scripted : BOOLEAN, confirmation : BOOLEAN,
            vetoes : SUBSET {"show", "hide"}] :
        o.confirmation => ~o.scripted}

(***************************************************************************)
(* timeout: the timer that is set and what it will do.  placed: $tip is in *)
(* the document; open and fade: its classes in and fade.  proxies: how     *)
(* many instances have bound their handlers to the element.                *)
(***************************************************************************)
TypeOK ==
    tip \in [opt : Options, enabled : BOOLEAN,
             inState : SUBSET {"click", "hover", "focus"},
             hoverState : {"null", "in", "out"},
             timeout : {"none", "show", "hide"}, proxies : 0..2,
             placed : BOOLEAN, open : BOOLEAN, fade : BOOLEAN,
             waiting : UNION {[1..n -> {"shown", "hidden", "destroyed"}] :
                                n \in 0..2 * MaxWaiting}]

(***************************************************************************)
(* Tooltip, init and the Plugin that constructs.                           *)
(***************************************************************************)
Init ==
    \E o \in Options :
        tip = [opt |-> o, enabled |-> TRUE, inState |-> {},
               hoverState |-> "null", timeout |-> "none", proxies |-> 1,
               placed |-> FALSE, open |-> FALSE, fade |-> FALSE,
               waiting |-> <<>>]

-----------------------------------------------------------------------------
(***************************************************************************)
(* Mutants of HideDone: the tip is detached only if hoverState is out;     *)
(* destroy does not detach it.                                             *)
(***************************************************************************)
HideDoneIfOut(t, callback) ==
    LET detached == [t EXCEPT !.placed = @ /\ t.hoverState # "out"]
    IN  IF callback = "destroyed"
        THEN [detached EXCEPT !.proxies = 0, !.placed = FALSE,
                              !.open = FALSE, !.fade = FALSE]
        ELSE detached

HideDoneKeeping(t, callback) ==
    LET detached == [t EXCEPT !.placed = @ /\ t.hoverState = "in"]
    IN  IF callback = "destroyed" THEN [detached EXCEPT !.proxies = 0]
                                  ELSE detached

(***************************************************************************)
(* hide, with the callback that runs at its end: "destroyed" is the one    *)
(* destroy gives it.  hoverState is reset after the callback has looked at *)
(* it if nothing is animated, before that if the tip fades.                *)
(***************************************************************************)
HideDone(t, callback) ==
    LET detached == [t EXCEPT !.placed = @ /\ t.hoverState = "in"]
    IN  IF callback = "destroyed"
        THEN [detached EXCEPT !.proxies = 0, !.placed = FALSE,
                              !.open = FALSE, !.fade = FALSE]
        ELSE detached

Hide(t, callback) ==
    IF "hide" \in t.opt.vetoes THEN t
    ELSE LET off == [t EXCEPT !.open = FALSE]
             left == IF t.fade
                     THEN [off EXCEPT !.waiting = Wait(@, callback)]
                     ELSE HideDone(off, callback)
         IN  [left EXCEPT !.hoverState = "null"]

(***************************************************************************)
(* leave, after the event has been taken out of inState.                   *)
(***************************************************************************)
Leave(t) ==
    IF t.inState # {} THEN t
    ELSE LET out == [t EXCEPT !.timeout = "none", !.hoverState = "out"]
         IN  IF t.opt.delayHide THEN [out EXCEPT !.timeout = "hide"]
                                ELSE Hide(out, "hidden")

(***************************************************************************)
(* show and its callback complete.                                         *)
(***************************************************************************)
ShowDone(t) ==
    LET settled == [t EXCEPT !.hoverState = "null"]
    IN  IF t.hoverState = "out" THEN Leave(settled) ELSE settled

Show(t) ==
    IF ~t.enabled \/ "show" \in t.opt.vetoes THEN t
    ELSE LET on == [t EXCEPT !.placed = TRUE, !.open = TRUE,
                             !.fade = t.opt.animate]
         IN  IF on.fade THEN [on EXCEPT !.waiting = Wait(@, "shown")]
                        ELSE ShowDone(on)

(***************************************************************************)
(* enter, after the event has been put into inState.                       *)
(***************************************************************************)
Enter(t) ==
    IF t.open \/ t.hoverState = "in" THEN [t EXCEPT !.hoverState = "in"]
    ELSE LET in == [t EXCEPT !.timeout = "none", !.hoverState = "in"]
         IN  IF t.opt.delayShow THEN [in EXCEPT !.timeout = "show"]
                                ELSE Show(in)

(***************************************************************************)
(* toggle called by a click, and toggle called by a script.                *)
(***************************************************************************)
Click(t) ==
    LET flip == IF "click" \in t.inState THEN t.inState \ {"click"}
                                         ELSE t.inState \cup {"click"}
        clicked == [t EXCEPT !.inState = flip]
    IN  IF flip # {} THEN Enter(clicked) ELSE Leave(clicked)

Toggle(t) == IF t.open THEN Leave(t) ELSE Enter(t)

Destroy(t) == Hide([t EXCEPT !.timeout = "none"], "destroyed")

-----------------------------------------------------------------------------
(***************************************************************************)
(* The handlers look the instance up under bs.confirmation, and the plugin *)
(* of bootstrap-confirmation.js has put it under confirmation: the first   *)
(* event makes a second instance, which binds its handlers too.            *)
(***************************************************************************)
Bound(t) == IF t.opt.confirmation THEN [t EXCEPT !.proxies = 2] ELSE t

Ready == tip.proxies > 0 /\ Len(tip.waiting) < MaxWaiting

PointerIn(event) ==
    /\ Ready
    /\ event \in tip.opt.trigger \ (tip.inState \cup {"click"})
    /\ LET once == Enter([tip EXCEPT !.inState = @ \cup {event}])
       IN  tip' = Bound(IF tip.proxies = 2 THEN Enter(once) ELSE once)

PointerOut(event) ==
    /\ Ready
    /\ event \in tip.inState \ {"click"}
    /\ LET once == Leave([tip EXCEPT !.inState = @ \ {event}])
       IN  tip' = Bound(IF tip.proxies = 2 THEN Leave(once) ELSE once)

ClickOn ==
    /\ Ready
    /\ "click" \in tip.opt.trigger
    /\ tip' = Bound(IF tip.proxies = 2 THEN Click(Click(tip)) ELSE Click(tip))

(***************************************************************************)
(* Mutant: the timer acts without a look at hoverState.                    *)
(***************************************************************************)
TimeoutUnchecked ==
    /\ tip.timeout # "none"
    /\ LET late == [tip EXCEPT !.timeout = "none"]
       IN  tip' = IF tip.timeout = "show" THEN Show(late)
                                          ELSE Hide(late, "hidden")

(***************************************************************************)
(* The function that setTimeout has been given, in enter or in leave.      *)
(***************************************************************************)
Timeout ==
    /\ tip.timeout # "none"
    /\ LET late == [tip EXCEPT !.timeout = "none"]
       IN  tip' = CASE tip.timeout = "show" /\ tip.hoverState = "in" ->
                            Show(late)
                    [] tip.timeout = "hide" /\ tip.hoverState = "out" ->
                            Hide(late, "hidden")
                    [] OTHER -> late

(***************************************************************************)
(* The transition of $tip ends: the callbacks that waited run in order.    *)
(***************************************************************************)
Complete(t, callback) ==
    IF callback = "shown" THEN ShowDone(t) ELSE HideDone(t, callback)

TransitionEnd ==
    /\ tip.waiting # <<>>
    /\ tip' = FoldLeft(Complete, [tip EXCEPT !.waiting = <<>>], tip.waiting)

(***************************************************************************)
(* Calls of the plugin by the page's script.                               *)
(***************************************************************************)
Script ==
    /\ Ready
    /\ tip.opt.scripted
    /\ \/ tip' = Toggle(tip)
       \/ tip' = Show(tip)
       \/ tip' = Hide(tip, "hidden")
       \/ tip' = [tip EXCEPT !.enabled = ~@]
       \/ tip' = Destroy(tip)

Next ==
    \/ \E event \in {"hover", "focus"} : PointerIn(event) \/ PointerOut(event)
    \/ ClickOn
    \/ Timeout
    \/ TransitionEnd
    \/ Script

-----------------------------------------------------------------------------
Settled == tip.timeout = "none" /\ tip.waiting = <<>>

(***************************************************************************)
(* No tip is left behind: once the pointer and the focus have gone, and    *)
(* the timers and transitions are over, the tip is out of the document,    *)
(* unless the page cancels hide.                                           *)
(***************************************************************************)
NoTipLeftBehind ==
    /\ Settled /\ tip.inState = {}
    /\ ~tip.opt.scripted /\ "hide" \notin tip.opt.vetoes
    => ~tip.placed

(***************************************************************************)
(* Without animation, what is on the screen follows the pointer: a tip is  *)
(* shown exactly if something holds it, whatever the order in which the    *)
(* delays of showing and hiding ran out.                                   *)
(***************************************************************************)
TipFollowsPointer ==
    /\ Settled /\ ~tip.opt.animate
    /\ ~tip.opt.scripted /\ tip.opt.vetoes = {}
    => ((tip.placed /\ tip.open) <=> tip.inState # {})

(***************************************************************************)
(* A tip that is destroyed does not come back, though its callbacks and    *)
(* those of earlier calls run after destroy has been called.               *)
(***************************************************************************)
DestroyedStaysGone ==
    Settled /\ tip.proxies = 0 /\ ~tip.opt.delayShow => ~tip.placed
=============================================================================
