------------------------------- MODULE Modal -------------------------------
(***************************************************************************)
(* The modal dialog of bootstrap.js: the element, its dialog, the backdrop *)
(* that covers the page, and what a shown modal leaves on the body, the    *)
(* window and the document.                                                *)
(*                                                                         *)
(* The functions of Modal.prototype are functions from the state of the    *)
(* modal to its new state; the actions are the events that run them.  The  *)
(* padding of the dialog itself, the option remote and the focus after the *)
(* modal are left out.  A listener of the page that cancels show or hide   *)
(* makes a call do nothing, which is a stuttering step.                    *)
(***************************************************************************)
EXTENDS Naturals, FiniteSets, Transition

CONSTANTS
    MaxBackdrops, \* bound: backdrop elements in the document at a time
    MaxWaiting    \* bound: callbacks waiting for the end of a transition

VARIABLE modal

Backdrops == 1..MaxBackdrops

(***************************************************************************)
(* fade: the element has the class fade and transitions are supported.     *)
(* overflowing: the body has a scroll bar.  patient: the page calls toggle *)
(* only when the earlier call has taken its full effect, and not while the *)
(* button of the mouse is down.                                            *)
(***************************************************************************)
Options ==
    [fade : BOOLEAN, backdrop : {"true", "static", "false"},
     keyboard : BOOLEAN, overflowing : BOOLEAN, patient : BOOLEAN]

(***************************************************************************)
(* backdrop is $backdrop, 0 for null; drops are the backdrops in the       *)
(* document.  body is the class modal-open; padded the padding of the body *)
(* and savedPad originalBodyPad.  dismiss, escape and resize count the     *)
(* handlers that show binds, clicks those of a click that backdrop binds,  *)
(* trap is the handler of focusin on document.  mouseups counts the        *)
(* one-shot handlers of mouseup; pressed is where the button of the mouse  *)
(* went down.  onElement, onDialog and onDrop are the callbacks that wait  *)
(* for a transition.                                                       *)
(***************************************************************************)
TypeOK ==
    modal \in [opt : Options, isShown : BOOLEAN, backdrop : 0..MaxBackdrops,
               drops : SUBSET Backdrops, display : BOOLEAN, open : BOOLEAN,
               body : BOOLEAN, padded : BOOLEAN, savedPad : BOOLEAN,
               dismiss : Nat, clicks : Nat, escape : Nat, resize : Nat,
               trap : BOOLEAN,
               mousedown : BOOLEAN, mouseups : Nat,
               ignoreBackdropClick : BOOLEAN,
               pressed : {"no", "dialog", "outside"},
               onElement : Seq({"hideModal"}), onDialog : Nat,
               onDrop : [Backdrops -> Seq({"display", "hidden", "remove"})]]

(***************************************************************************)
(* Modal, and the Plugin that constructs it without showing it.            *)
(***************************************************************************)
Init ==
    \E o \in Options :
        modal = [opt |-> o, isShown |-> FALSE, backdrop |-> 0, drops |-> {},
                 display |-> FALSE, open |-> FALSE, body |-> FALSE,
                 padded |-> FALSE, savedPad |-> FALSE, dismiss |-> 0,
                 clicks |-> 0, escape |-> 0, resize |-> 0, trap |-> FALSE,
                 mousedown |-> FALSE, mouseups |-> 0,
                 ignoreBackdropClick |-> FALSE, pressed |-> "no",
                 onElement |-> <<>>, onDialog |-> 0,
                 onDrop |-> [b \in Backdrops |-> <<>>]]

-----------------------------------------------------------------------------
(***************************************************************************)
(* The callback that show gives to backdrop, with enforceFocus.            *)
(***************************************************************************)
Display(m) ==
    [m EXCEPT !.display = TRUE, !.open = TRUE, !.trap = TRUE,
              !.onDialog = IF m.opt.fade THEN @ + 1 ELSE @]

(***************************************************************************)
(* The callback that hideModal gives to backdrop, with resetScrollbar.     *)
(***************************************************************************)
Hidden(m) == [m EXCEPT !.body = FALSE, !.padded = m.savedPad]

(***************************************************************************)
(* Mutants: the callback is forgotten; the backdrop stays in the document. *)
(***************************************************************************)
CallbackRemoveOnly(m) ==
    IF m.backdrop = 0 THEN m
    ELSE [m EXCEPT !.drops = @ \ {m.backdrop}, !.backdrop = 0,
                   !.onDrop[m.backdrop] = <<>>]

CallbackRemoveNot(m) ==
    Hidden(IF m.backdrop = 0 THEN m
           ELSE [m EXCEPT !.backdrop = 0, !.onDrop[m.backdrop] = <<>>])

(***************************************************************************)
(* callbackRemove, with removeBackdrop.  A backdrop that leaves the        *)
(* document takes its callbacks with it.                                   *)
(***************************************************************************)
CallbackRemove(m) ==
    Hidden(IF m.backdrop = 0 THEN m
           ELSE [m EXCEPT !.drops = @ \ {m.backdrop}, !.backdrop = 0,
                          !.onDrop[m.backdrop] = <<>>])

(***************************************************************************)
(* backdrop(callback): what show and hideModal ask of it.  The choice goes *)
(* by isShown at this time, not by which of them has called.               *)
(***************************************************************************)
Call(m, callback) == IF callback = "display" THEN Display(m) ELSE Hidden(m)

Backdrop(m, callback) ==
    IF m.isShown /\ m.opt.backdrop # "false"
    THEN LET b == CHOOSE d \in Backdrops : d \notin m.drops
             covered == [m EXCEPT !.drops = @ \cup {b}, !.backdrop = b,
                                  !.clicks = @ + 1]
         IN  IF m.opt.fade
             THEN [covered EXCEPT !.onDrop[b] = Wait(<<>>, callback)]
             ELSE Call(covered, callback)
    ELSE IF ~m.isShown /\ m.backdrop # 0
    THEN IF m.opt.fade
         THEN [m EXCEPT !.onDrop[m.backdrop] = Wait(@, "remove")]
         ELSE CallbackRemove(m)
    ELSE Call(m, callback)

HideModal(m) == Backdrop([m EXCEPT !.display = FALSE], "hidden")

(***************************************************************************)
(* What escape, resize and show bind.  Mutant: nothing protects a drag.    *)
(***************************************************************************)
BindUnprotected(m) ==
    [m EXCEPT !.escape = IF m.opt.keyboard THEN @ + 1 ELSE @,
              !.resize = @ + 1, !.dismiss = @ + 1]

Bind(m) ==
    [m EXCEPT !.escape = IF m.opt.keyboard THEN @ + 1 ELSE @,
              !.resize = @ + 1, !.dismiss = @ + 1, !.mousedown = TRUE]

(***************************************************************************)
(* What escape, resize and hide unbind.  Mutant: resize keeps its handler. *)
(***************************************************************************)
UnbindButResize(m) ==
    [m EXCEPT !.escape = 0, !.trap = FALSE, !.dismiss = 0, !.clicks = 0,
              !.mousedown = FALSE, !.mouseups = 0]

Unbind(m) ==
    [m EXCEPT !.escape = 0, !.resize = 0, !.trap = FALSE, !.dismiss = 0,
              !.clicks = 0, !.mousedown = FALSE, !.mouseups = 0]

(***************************************************************************)
(* show, with checkScrollbar and setScrollbar.                             *)
(***************************************************************************)
Show(m) ==
    IF m.isShown THEN m
    ELSE Backdrop(
           [Bind(m) EXCEPT !.isShown = TRUE, !.body = TRUE,
                           !.savedPad = m.padded,
                           !.padded = @ \/ m.opt.overflowing],
           "display")

(***************************************************************************)
(* hide.                                                                   *)
(***************************************************************************)
Hide(m) ==
    IF ~m.isShown THEN m
    ELSE LET off == [Unbind(m) EXCEPT !.isShown = FALSE, !.open = FALSE]
         IN  IF m.opt.fade THEN [off EXCEPT !.onElement = Wait(@, "hideModal")]
                           ELSE HideModal(off)

(***************************************************************************)
(* n handlers of backdrop run for one click: if a drag is to be ignored    *)
(* the first of them forgets that, and those after it do not know.         *)
(***************************************************************************)
Clicked(m, n, onElement) ==
    LET seen == [m EXCEPT !.ignoreBackdropClick = @ /\ n = 0]
        heed == n > IF m.ignoreBackdropClick THEN 1 ELSE 0
    IN  IF heed /\ onElement /\ m.opt.backdrop # "static"
        THEN Hide(seen) ELSE seen

-----------------------------------------------------------------------------
Settled ==
    /\ modal.onElement = <<>> /\ modal.onDialog = 0
    /\ \A b \in Backdrops : modal.onDrop[b] = <<>>

(***************************************************************************)
(* show, and hideModal once the modal is shown again, add a backdrop.      *)
(***************************************************************************)
RoomToShow ==
    /\ Cardinality(modal.drops) + Len(modal.onElement) < MaxBackdrops
    /\ modal.onDialog < MaxWaiting

RoomToHide == Len(modal.onElement) < MaxWaiting

(***************************************************************************)
(* toggle: a click on an element with data-toggle="modal", or a call.      *)
(***************************************************************************)
Toggle ==
    /\ modal.opt.patient => Settled /\ modal.pressed = "no"
    /\ \/ modal.isShown /\ RoomToHide /\ modal' = Hide(modal)
       \/ ~modal.isShown /\ RoomToShow /\ modal' = Show(modal)

(***************************************************************************)
(* What the user does with a dialog that is on the screen.  The click on a *)
(* button in it gets to the handlers of backdrop too.                      *)
(***************************************************************************)
Escape ==
    /\ modal.display /\ modal.escape > 0 /\ RoomToHide
    /\ modal' = Hide(modal)

DismissButton ==
    /\ modal.display /\ modal.dismiss > 0 /\ RoomToHide
    /\ modal' = Clicked(Hide(modal), modal.clicks, FALSE)

MouseDown ==
    /\ modal.display /\ modal.pressed = "no" /\ modal.mouseups < MaxWaiting
    /\ \/ modal' = [modal EXCEPT !.pressed = "outside"]
       \/ modal' = [modal EXCEPT !.pressed = "dialog",
                       !.mouseups = IF modal.mousedown THEN @ + 1 ELSE @]

(***************************************************************************)
(* The button goes up, over the dialog or beside it; a browser makes a     *)
(* click of it, whose target is the element unless both were in the        *)
(* dialog.                                                                 *)
(***************************************************************************)
MouseUp(over) ==
    LET up == [modal EXCEPT !.pressed = "no", !.mouseups = 0,
                   !.ignoreBackdropClick =
                       @ \/ (over = "outside" /\ modal.mouseups > 0)]
        onElement == over = "outside" \/ modal.pressed = "outside"
    IN  /\ modal.display /\ modal.pressed # "no" /\ RoomToHide
        /\ modal' = Clicked(up, modal.clicks, onElement)

(***************************************************************************)
(* The button goes up outside the window: no handler runs.                 *)
(***************************************************************************)
MouseLost ==
    /\ modal.pressed # "no"
    /\ modal' = [modal EXCEPT !.pressed = "no"]

-----------------------------------------------------------------------------
(***************************************************************************)
(* The transitions of the element, of the dialog and of a backdrop end.    *)
(***************************************************************************)
Ended(m, callback) ==
    CASE callback = "hideModal" -> HideModal(m)
      [] callback = "display" -> Display(m)
      [] callback = "hidden" -> Hidden(m)
      [] callback = "remove" -> CallbackRemove(m)

EndElement ==
    /\ modal.onElement # <<>>
    /\ modal' = FoldLeft(Ended, [modal EXCEPT !.onElement = <<>>],
                         modal.onElement)

EndDialog ==
    /\ modal.onDialog > 0
    /\ modal' = [modal EXCEPT !.onDialog = 0]

EndBackdrop(b) ==
    /\ modal.onDrop[b] # <<>>
    /\ modal' = FoldLeft(Ended, [modal EXCEPT !.onDrop[b] = <<>>],
                         modal.onDrop[b])

Next ==
    \/ Toggle
    \/ Escape \/ DismissButton
    \/ MouseDown \/ MouseLost
    \/ \E over \in {"dialog", "outside"} : MouseUp(over)
    \/ EndElement \/ EndDialog
    \/ \E b \in Backdrops : EndBackdrop(b)

-----------------------------------------------------------------------------
(***************************************************************************)
(* If the page waits for the effect of a call before the next one, a modal *)
(* that has been closed leaves nothing behind: no backdrop, no class or    *)
(* padding on the body, no handler on window or document.                  *)
(***************************************************************************)
ClosedLeavesNothing ==
    modal.opt.patient /\ Settled /\ ~modal.isShown =>
        /\ ~modal.display /\ modal.drops = {}
        /\ ~modal.padded /\ ~modal.trap /\ modal.resize = 0

(***************************************************************************)
(* However fast the page and the user call show and hide, a modal that is  *)
(* closed in the end leaves a page that scrolls (no modal-open), no        *)
(* handler on its element and no backdrop that it still points to.         *)
(***************************************************************************)
ClosedFreesBody ==
    Settled /\ ~modal.isShown =>
        /\ ~modal.body /\ modal.backdrop = 0
        /\ modal.dismiss + modal.clicks + modal.escape = 0

(***************************************************************************)
(* A modal that is open in the end is on the screen with its focus trap    *)
(* and with one backdrop, if it has asked for one.                         *)
(***************************************************************************)
OpenIsOnScreen ==
    modal.opt.patient /\ Settled /\ modal.isShown =>
        /\ modal.display /\ modal.open /\ modal.trap /\ modal.body
        /\ Cardinality(modal.drops) =
             IF modal.opt.backdrop = "false" THEN 0 ELSE 1

(***************************************************************************)
(* If the page waits for the effect of a call, and calls nothing while the *)
(* button is down, a drag out of the dialog does not close the modal:      *)
(* mousedown, mouseup and click are three handlers that pass               *)
(* ignoreBackdropClick on.  Without the first condition the modal may have *)
(* two handlers of a click, the second of which closes it; without the     *)
(* second, hide may have taken the handler of mouseup away.                *)
(***************************************************************************)
DragNeverCloses ==
    modal.opt.patient /\ modal.pressed = "dialog" /\ modal'.pressed = "no"
        => modal'.isShown = modal.isShown
=============================================================================
