------------------------------- MODULE Alert -------------------------------
(***************************************************************************)
(* The alert of bootstrap.js: close fades the element out and removes it.  *)
(* A listener that cancels close makes a click do nothing, which is a      *)
(* stuttering step.                                                        *)
(***************************************************************************)
EXTENDS Naturals, Transition

CONSTANTS
    MaxWaiting    \* bound: callbacks waiting for the end of the transition

VARIABLE alert

(***************************************************************************)
(* inDocument: the element is there, with its listeners; heard counts the  *)
(* events closed.bs.alert that its listeners have heard.                   *)
(***************************************************************************)
TypeOK ==
    alert \in [fade : BOOLEAN, inDocument : BOOLEAN, listens : BOOLEAN,
               waiting : Seq({"removeElement"}), heard : Nat]

Init ==
    \E fade \in BOOLEAN :
        alert = [fade |-> fade, inDocument |-> TRUE, listens |-> TRUE,
                 waiting |-> <<>>, heard |-> 0]

(***************************************************************************)
(* Mutant: the element is detached, and not removed with its listeners.    *)
(***************************************************************************)
RemoveElementDetaches(a, callback) ==
    [a EXCEPT !.inDocument = FALSE, !.heard = IF a.listens THEN @ + 1 ELSE @]

(***************************************************************************)
(* removeElement: detached, the element still has its listeners; remove    *)
(* takes them away after the event.                                        *)
(***************************************************************************)
RemoveElement(a, callback) ==
    [a EXCEPT !.inDocument = FALSE,
              !.heard = IF a.listens THEN @ + 1 ELSE @,
              !.listens = FALSE]

(***************************************************************************)
(* close: nothing keeps it from being called while the element fades.      *)
(***************************************************************************)
Close ==
    /\ alert.inDocument /\ Len(alert.waiting) < MaxWaiting
    /\ alert' = IF alert.fade
                THEN [alert EXCEPT !.waiting = Wait(@, "removeElement")]
                ELSE RemoveElement(alert, "removeElement")

TransitionEnd ==
    /\ alert.waiting # <<>>
    /\ alert' = FoldLeft(RemoveElement, [alert EXCEPT !.waiting = <<>>],
                         alert.waiting)

Next == Close \/ TransitionEnd

(***************************************************************************)
(* An alert that is gone was heard to close once, however often close was  *)
(* called while it faded.                                                  *)
(***************************************************************************)
ClosedOnce == ~alert.inDocument => alert.heard = 1
=============================================================================
