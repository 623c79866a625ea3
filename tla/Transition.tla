----------------------------- MODULE Transition -----------------------------
(***************************************************************************)
(* The end of a CSS transition, transition.js in bootstrap.js.  A plugin   *)
(* writes element.one('bsTransitionEnd', callback) and then                *)
(* emulateTransitionEnd(duration): the callback runs once, either at the   *)
(* browser's event or at the timer, which makes the event itself if none   *)
(* has come.  Either of them runs every callback that waits on that        *)
(* element, those of later calls too, and the marks that are set with them *)
(* make the timers of those calls idle.  So the state of an element is the *)
(* sequence of callbacks that wait on it, and the end of its transition is *)
(* an action that is enabled as long as the sequence is not empty.         *)
(***************************************************************************)
EXTENDS Sequences, SequencesExt

Wait(waiting, callback) == Append(waiting, callback)
=============================================================================
