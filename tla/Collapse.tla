------------------------------ MODULE Collapse ------------------------------
(***************************************************************************)
(* The collapse plugin of bootstrap.js: panels that fold and unfold, with  *)
(* the option parent as an accordion, in which showing a panel hides the   *)
(* one that is open.                                                       *)
(*                                                                         *)
(* A panel has at most one instance registered in its data.  An instance   *)
(* that is being constructed is not registered yet, and one that show      *)
(* throws away (actives.data('bs.collapse', null)) is not any more, but    *)
(* its callbacks still run.  An instance acts on the accordion only if it  *)
(* was made with the option parent: data-parent is an attribute of the     *)
(* trigger, so that a click gives it, but collapse('show') or              *)
(* collapse('hide') on a panel without an instance makes one that hides no *)
(* other panel, then or later.  The call collapse('toggle'), the other     *)
(* attributes of the triggers and the sizes of the panels are left out.    *)
(***************************************************************************)
EXTENDS Naturals, FiniteSets, FiniteSetsExt, Transition

CONSTANTS
    Panels,      \* the panels, numbered in the order of the document
    MaxWaiting   \* bound: callbacks waiting on one panel

VARIABLE collapse

(***************************************************************************)
(* cls[p]: "collapse" (folded), "collapsing" or "in".  data[p]: whether an *)
(* instance is registered and its transitioning; grouped[p]: it has the    *)
(* option parent.  waiting[p]: what waits for the end of the transition of *)
(* p, and whether it belongs to the registered instance.                   *)
(*                                                                         *)
(* parent: the triggers have data-parent.  opened: the panel the page has  *)
(* marked as open.  vetoes: the events that a listener of the page         *)
(* cancels.  bare: the page's script calls show and hide also on panels    *)
(* that have no instance.  patient: user and script wait for the end of    *)
(* the transitions before the next call.                                   *)
(***************************************************************************)
Callbacks == [event : {"shown", "hidden"}, own : BOOLEAN]

TypeOK ==
    collapse \in [parent : BOOLEAN, animate : BOOLEAN,
                  vetoes : SUBSET {"show", "hide"}, opened : SUBSET Panels,
                  bare : BOOLEAN, patient : BOOLEAN,
                  cls : [Panels -> {"collapse", "collapsing", "in"}],
                  data : [Panels -> {"none", "idle", "busy"}],
                  grouped : [Panels -> BOOLEAN],
                  waiting : [Panels -> Seq(Callbacks)]]

Init ==
    \E parent, animate, bare, patient \in BOOLEAN,
       vetoes \in SUBSET {"show", "hide"},
       open \in {{}} \cup {{p} : p \in Panels} :
        collapse = [parent |-> parent, animate |-> animate,
                    vetoes |-> vetoes, opened |-> open,
                    bare |-> bare, patient |-> patient,
                    cls |-> [p \in Panels |-> IF p \in open THEN "in"
                                                           ELSE "collapse"],
                    data |-> [p \in Panels |-> "none"],
                    grouped |-> [p \in Panels |-> FALSE],
                    waiting |-> [p \in Panels |-> <<>>]]

-----------------------------------------------------------------------------
(***************************************************************************)
(* Mutant: the complete of hide leaves transitioning as it is.             *)
(***************************************************************************)
CompleteBusy(p, a, callback) ==
    [a EXCEPT
        !.cls[p] = IF callback.event = "shown" \/ @ = "in" THEN "in"
                                                          ELSE "collapse",
        !.data[p] = IF callback.own /\ callback.event = "shown" THEN "idle"
                                                               ELSE @]

(***************************************************************************)
(* complete, of show and of hide: the class of show's replaces, the one of *)
(* hide's is added to what is there.                                       *)
(***************************************************************************)
Complete(p, a, callback) ==
    [a EXCEPT
        !.cls[p] = IF callback.event = "shown" \/ @ = "in" THEN "in"
                                                          ELSE "collapse",
        !.data[p] = IF callback.own THEN "idle" ELSE @]

(***************************************************************************)
(* What show and hide have in common once nothing stops them; own: the     *)
(* instance that acts is the registered one.                               *)
(***************************************************************************)
Start(a, p, event, own) ==
    LET started == [a EXCEPT !.cls[p] = "collapsing",
                             !.data[p] = IF own THEN "busy" ELSE @]
        callback == [event |-> event, own |-> own]
    IN  IF a.animate
        THEN [started EXCEPT !.waiting[p] = Wait(@, callback)]
        ELSE Complete(p, started, callback)

Hide(a, p) ==
    IF a.data[p] = "busy" \/ a.cls[p] # "in" \/ "hide" \in a.vetoes
    THEN a ELSE Start(a, p, "hidden", TRUE)

(***************************************************************************)
(* The data of p no longer holds the instance that was registered.         *)
(***************************************************************************)
Disown(a, p) ==
    [a EXCEPT !.waiting[p] = [i \in DOMAIN @ |-> [@[i] EXCEPT !.own = FALSE]]]

Forget(a, p) ==
    [Disown(a, p) EXCEPT !.data[p] = "none", !.grouped[p] = FALSE]

(***************************************************************************)
(* The Plugin gives a panel an instance before it calls it.                *)
(***************************************************************************)
Made(a, p, grouped) ==
    IF a.data[p] = "none"
    THEN [a EXCEPT !.data[p] = "idle", !.grouped[p] = grouped] ELSE a

(***************************************************************************)
(* Mutant: the instances that hide has made are kept.                      *)
(***************************************************************************)
HideActivesKept(a, actives) ==
    LET after(q) == IF q \in actives THEN Hide(Made(a, q, FALSE), q) ELSE a
    IN  [a EXCEPT !.cls = [q \in Panels |-> after(q).cls[q]],
                  !.data = [q \in Panels |-> after(q).data[q]],
                  !.grouped = [q \in Panels |-> after(q).grouped[q]],
                  !.waiting = [q \in Panels |-> after(q).waiting[q]]]

(***************************************************************************)
(* Plugin.call(actives, 'hide'): an active panel without an instance gets  *)
(* one, without parent.  If the first active panel had none, show then     *)
(* throws the instances of all of them away, its own too if its panel is   *)
(* among them.  Panels do not look at each other, so that each ends as it  *)
(* would by itself.                                                        *)
(***************************************************************************)
HideActives(a, actives) ==
    LET hidden(q) == Hide(Made(a, q, FALSE), q)
        after(q) == CASE q \notin actives -> a
                      [] q \in actives /\ a.data[Min(actives)] = "none" ->
                            Forget(hidden(q), q)
                      [] q \in actives /\ a.data[Min(actives)] # "none" ->
                            hidden(q)
    IN  [a EXCEPT !.cls = [q \in Panels |-> after(q).cls[q]],
                  !.data = [q \in Panels |-> after(q).data[q]],
                  !.grouped = [q \in Panels |-> after(q).grouped[q]],
                  !.waiting = [q \in Panels |-> after(q).waiting[q]]]

(***************************************************************************)
(* actives, in show of an instance with or without parent.                 *)
(***************************************************************************)
Actives(a, grouped) ==
    IF grouped THEN {q \in Panels : a.cls[q] # "collapse"} ELSE {}

MayShow(a, p, actives) ==
    /\ a.cls[p] # "in"
    /\ actives # {} => a.data[Min(actives)] # "busy"
    /\ "show" \notin a.vetoes

(***************************************************************************)
(* show of the registered instance, which may have thrown itself away when *)
(* it starts.                                                              *)
(***************************************************************************)
Show(a, p) ==
    LET actives == Actives(a, a.grouped[p])
        cleared == HideActives(a, actives)
    IN  IF a.data[p] = "busy" \/ ~MayShow(a, p, actives) THEN a
        ELSE Start(cleared, p, "shown", cleared.data[p] # "none")

(***************************************************************************)
(* Collapse, with toggle: the new instance acts while the data of p still  *)
(* has what it had, and is registered after that.                          *)
(***************************************************************************)
Register(a, p) == [Disown(a, p) EXCEPT !.grouped[p] = a.parent]

Construct(a, p) ==
    LET actives == Actives(a, a.parent)
    IN  CASE a.cls[p] = "in" -> Hide(Made(a, p, a.parent), p)
          [] a.cls[p] # "in" /\ MayShow(a, p, actives) ->
                Start(Register(HideActives(a, actives), p), p, "shown", TRUE)
          [] OTHER -> Made(a, p, a.parent)

-----------------------------------------------------------------------------
Ready(p) ==
    /\ Len(collapse.waiting[p]) < MaxWaiting
    /\ collapse.patient => \A q \in Panels : collapse.waiting[q] = <<>>

(***************************************************************************)
(* A click on the trigger of p.                                            *)
(***************************************************************************)
Click(p) ==
    /\ Ready(p)
    /\ collapse' =
         CASE collapse.data[p] = "none" -> Construct(collapse, p)
           [] collapse.data[p] # "none" /\ collapse.cls[p] = "in" ->
                 Hide(collapse, p)
           [] OTHER -> Show(collapse, p)

(***************************************************************************)
(* The page's script calls collapse('show') or collapse('hide'), or gives  *)
(* p an instance by collapse({parent: ..., toggle: false}).                *)
(***************************************************************************)
Script(p) ==
    /\ Ready(p)
    /\ \/ /\ collapse.bare \/ collapse.data[p] # "none"
          /\ \/ collapse' = Show(Made(collapse, p, FALSE), p)
             \/ collapse' = Hide(Made(collapse, p, FALSE), p)
       \/ collapse' = Made(collapse, p, collapse.parent)

TransitionEnd(p) ==
    /\ collapse.waiting[p] # <<>>
    /\ LET complete(a, callback) == Complete(p, a, callback)
       IN  collapse' = FoldLeft(complete,
                                [collapse EXCEPT !.waiting[p] = <<>>],
                                collapse.waiting[p])

Next == \E p \in Panels : Click(p) \/ Script(p) \/ TransitionEnd(p)

-----------------------------------------------------------------------------
(***************************************************************************)
(* At most one panel of an accordion is open or opening at any time, on a  *)
(* page that does not cancel hide and whose script calls no panel without  *)
(* an instance: however fast the triggers are clicked, if all panels were  *)
(* folded at first, and with one that was marked as open if the page waits *)
(* for transitions.  That panel has no instance: the one it gets from the  *)
(* show of another panel has no parent and must be thrown away.            *)
(***************************************************************************)
Opening(p) ==
    \/ collapse.cls[p] = "in"
    \/ \E i \in DOMAIN collapse.waiting[p] :
           collapse.waiting[p][i].event = "shown"

AccordionOne ==
    /\ collapse.parent /\ "hide" \notin collapse.vetoes /\ ~collapse.bare
    /\ collapse.opened = {} \/ collapse.patient
    => Cardinality({p \in Panels : Opening(p)}) <= 1

(***************************************************************************)
(* No panel is stuck: one that refuses calls because it is in transition   *)
(* has a callback waiting that will end that, even where instances were    *)
(* thrown away, and so has one that is half open.                          *)
(***************************************************************************)
NoPanelStuck ==
    \A p \in Panels :
        /\ collapse.data[p] = "busy" =>
              \E i \in DOMAIN collapse.waiting[p] : collapse.waiting[p][i].own
        /\ collapse.cls[p] = "collapsing" <=> collapse.waiting[p] # <<>>
=============================================================================
