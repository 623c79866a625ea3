-------------------------------- MODULE Page --------------------------------
(***************************************************************************)
(* A page of the watchdog with one widget of bootstrap.js or               *)
(* bootstrap-confirmation.js.                                              *)
(*                                                                         *)
(* Each plugin is a module with one variable.  The plugins share neither   *)
(* data nor handlers, so that the behaviours of a page are those of its    *)
(* widgets side by side: this module has one widget, of any kind, and      *)
(* instantiates the module of each kind with it.  The browser runs one     *)
(* handler at a time, which is a step.                                     *)
(***************************************************************************)
EXTENDS Integers, Sequences

CONSTANTS
    TriggerSets, MaxTipWaiting,                        \* Tooltip
    PageWidth, PageHeight, LinkWidth, LinkHeight,      \* Placement, with
    TipWidth, TipHeight, LineWidth, WrappedHeight,     \* Viewport
    Paddings,
    MaxBackdrops, MaxModalWaiting,                     \* Modal
    Panels, MaxPanelWaiting,                           \* Collapse
    Slides, MaxDeferred,                               \* Carousel
    Tabs, MaxTabWaiting,                               \* Tab
    Layouts, Viewport, SpyOffset,                      \* ScrollSpy
    Height, Element, Pinned, Natural,                  \* Affix
    OffsetTop, OffsetBottom,
    Menus, Entries,                                    \* Dropdown
    States, Radios, MaxTimers,                         \* Button
    MaxAlertWaiting                                    \* Alert

VARIABLES
    kind,    \* the plugin of the widget
    widget   \* its state

vars == <<kind, widget>>

TheTooltip == INSTANCE Tooltip WITH tip <- widget, MaxWaiting <- MaxTipWaiting
ThePlacement ==
    INSTANCE Placement WITH place <- widget,
                            WindowWidth <- PageWidth,
                            WindowHeight <- Viewport,
                            DocumentHeight <- PageHeight,
                            ElementWidth <- LinkWidth,
                            ElementHeight <- LinkHeight
TheModal == INSTANCE Modal WITH modal <- widget, MaxWaiting <- MaxModalWaiting
TheCollapse ==
    INSTANCE Collapse WITH collapse <- widget, MaxWaiting <- MaxPanelWaiting
TheCarousel == INSTANCE Carousel WITH carousel <- widget, N <- Slides
TheTab == INSTANCE Tab WITH tabs <- widget, MaxWaiting <- MaxTabWaiting
TheScrollSpy ==
    INSTANCE ScrollSpy WITH spy <- widget, Window <- Viewport,
                            Offset <- SpyOffset
TheAffix == INSTANCE Affix WITH affix <- widget, Window <- Viewport
TheDropdown == INSTANCE Dropdown WITH menus <- widget
TheButton == INSTANCE Button WITH button <- widget
TheAlert == INSTANCE Alert WITH alert <- widget, MaxWaiting <- MaxAlertWaiting

ASSUME PageAssumption ==
    /\ ThePlacement!LengthsOK /\ TheScrollSpy!LayoutsOK
    /\ MaxTipWaiting \in Nat /\ MaxBackdrops \in Nat /\ Slides \in Nat \ {0}
    /\ Panels \subseteq Nat /\ Menus \subseteq Nat \ {0} /\ Entries \in Nat
    /\ {Height, Viewport, Element, Pinned, Natural, OffsetTop,
        OffsetBottom} \subseteq Nat
    /\ 0 < OffsetTop /\ OffsetTop + Pinned < Height - OffsetBottom - Element

(***************************************************************************)
(* The state of a widget has the type of its plugin.                       *)
(***************************************************************************)
TypeOK ==
    CASE kind = "tooltip" -> TheTooltip!TypeOK
      [] kind = "placement" -> ThePlacement!TypeOK
      [] kind = "modal" -> TheModal!TypeOK
      [] kind = "collapse" -> TheCollapse!TypeOK
      [] kind = "carousel" -> TheCarousel!TypeOK
      [] kind = "tab" -> TheTab!TypeOK
      [] kind = "scrollspy" -> TheScrollSpy!TypeOK
      [] kind = "affix" -> TheAffix!TypeOK
      [] kind = "dropdown" -> TheDropdown!TypeOK
      [] kind = "button" -> TheButton!TypeOK
      [] kind = "alert" -> TheAlert!TypeOK

Init ==
    \/ kind = "tooltip" /\ TheTooltip!Init
    \/ kind = "placement" /\ ThePlacement!Init
    \/ kind = "modal" /\ TheModal!Init
    \/ kind = "collapse" /\ TheCollapse!Init
    \/ kind = "carousel" /\ TheCarousel!Init
    \/ kind = "tab" /\ TheTab!Init
    \/ kind = "scrollspy" /\ TheScrollSpy!Init
    \/ kind = "affix" /\ TheAffix!Init
    \/ kind = "dropdown" /\ TheDropdown!Init
    \/ kind = "button" /\ TheButton!Init
    \/ kind = "alert" /\ TheAlert!Init

Next ==
    /\ UNCHANGED kind
    /\ \/ kind = "tooltip" /\ TheTooltip!Next
       \/ kind = "placement" /\ ThePlacement!Next
       \/ kind = "modal" /\ TheModal!Next
       \/ kind = "collapse" /\ TheCollapse!Next
       \/ kind = "carousel" /\ TheCarousel!Next
       \/ kind = "tab" /\ TheTab!Next
       \/ kind = "scrollspy" /\ TheScrollSpy!Next
       \/ kind = "affix" /\ TheAffix!Next
       \/ kind = "dropdown" /\ TheDropdown!Next
       \/ kind = "button" /\ TheButton!Next
       \/ kind = "alert" /\ TheAlert!Next

(***************************************************************************)
(* The browser ends transitions and runs timers and the handlers of an     *)
(* event that has come; nobody has to click.                               *)
(***************************************************************************)
Fairness ==
    /\ WF_vars(/\ kind = "carousel" /\ UNCHANGED kind
               /\ TheCarousel!TransitionEnd)
    /\ WF_vars(/\ kind = "carousel" /\ UNCHANGED kind
               /\ TheCarousel!Slid)
    /\ SF_vars(/\ kind = "carousel" /\ UNCHANGED kind
               /\ TheCarousel!SlidAtRest)

Spec == Init /\ [][Next]_vars /\ Fairness

-----------------------------------------------------------------------------
(***************************************************************************)
(* No tip is left behind: once the pointer and the focus have gone, and    *)
(* the timers and transitions are over, the tip is out of the document     *)
(* (hide and its callback complete look at hoverState at different times). *)
(***************************************************************************)
NoTipLeftBehind == kind = "tooltip" => TheTooltip!NoTipLeftBehind

(***************************************************************************)
(* Without animation a tip is on the screen exactly if something holds it, *)
(* in whatever order the delays of enter and leave have run out.           *)
(***************************************************************************)
TipFollowsPointer == kind = "tooltip" => TheTooltip!TipFollowsPointer

(***************************************************************************)
(* A destroyed tooltip does not come back by callbacks of earlier calls.   *)
(***************************************************************************)
DestroyedStaysGone == kind = "tooltip" => TheTooltip!DestroyedStaysGone

(***************************************************************************)
(* A tip touches its element without covering it, and its arrow points at  *)
(* the middle of it, however applyPlacement has shifted the tip and        *)
(* whatever size it has got on the way.                                    *)
(***************************************************************************)
TipAtElement == kind = "placement" => ThePlacement!TipAtElement

(***************************************************************************)
(* Along its element a tip that fits into the window is in the window,     *)
(* wherever the page was scrolled to.                                      *)
(***************************************************************************)
TipInWindow == kind = "placement" => ThePlacement!TipInWindow

(***************************************************************************)
(* An auto placement is within the page if one of the two sides is.        *)
(***************************************************************************)
AutoFindsSpace == kind = "placement" => ThePlacement!AutoFindsSpace

(***************************************************************************)
(* A modal of a patient page leaves nothing behind when it is closed.      *)
(***************************************************************************)
ClosedLeavesNothing == kind = "modal" => TheModal!ClosedLeavesNothing

(***************************************************************************)
(* However fast show and hide are called, a closed modal frees the body.   *)
(***************************************************************************)
ClosedFreesBody == kind = "modal" => TheModal!ClosedFreesBody

(***************************************************************************)
(* A modal of a patient page that is open is on the screen, with its trap  *)
(* of the focus and one backdrop at most.                                  *)
(***************************************************************************)
OpenIsOnScreen == kind = "modal" => TheModal!OpenIsOnScreen

(***************************************************************************)
(* A drag that begins in the dialog does not close the modal.              *)
(***************************************************************************)
DragNeverCloses == [][kind = "modal" => TheModal!DragNeverCloses]_vars

(***************************************************************************)
(* At most one panel of an accordion is open or opening.                   *)
(***************************************************************************)
AccordionOne == kind = "collapse" => TheCollapse!AccordionOne

(***************************************************************************)
(* No panel stays half open or refuses calls for ever.                     *)
(***************************************************************************)
NoPanelStuck == kind = "collapse" => TheCollapse!NoPanelStuck

(***************************************************************************)
(* A carousel at rest shows the position asked for last, or, if that one   *)
(* was slid to ahead of positions that waited, the last of those.          *)
(***************************************************************************)
LastAskedWins == kind = "carousel" => TheCarousel!LastAskedWins

(***************************************************************************)
(* Without an interval, the position asked for last (or, if that was slid  *)
(* to ahead of positions that waited, the last of those) is reached,       *)
(* unless another is asked for: the handlers of slid that call to lose     *)
(* none.                                                                   *)
(***************************************************************************)
AskedIsReached ==
    \A p \in 0 .. Slides - 1 :
        (kind = "carousel" /\ TheCarousel!IsAsked(p))
            ~> (kind = "carousel" /\ TheCarousel!IsReached(p))

(***************************************************************************)
(* The pane of the header that is highlighted is on the screen.            *)
(***************************************************************************)
HeaderIsShown == kind = "tab" => TheTab!HeaderIsShown

(***************************************************************************)
(* A switch leaves no panes but those of the headers clicked during it.    *)
(***************************************************************************)
LeftoversFade == [][kind = "tab" => TheTab!LeftoversFade]_vars

(***************************************************************************)
(* Two scroll events after a change of layout the right entry is marked.   *)
(***************************************************************************)
SpyCatchesUp == kind = "scrollspy" => TheScrollSpy!SpyCatchesUp

(***************************************************************************)
(* An affixed element comes to rest two checks after a scroll, unless a    *)
(* listener cancels its change back from the bottom.                       *)
(***************************************************************************)
NoFlicker == [][kind = "affix" => TheAffix!NoFlicker]_vars

(***************************************************************************)
(* Of the dropdown menus that let themselves be closed, one is open.       *)
(***************************************************************************)
OneMenuOpen == kind = "dropdown" => TheDropdown!OneMenuOpen

(***************************************************************************)
(* A button is what was asked for last, once its timers have run.          *)
(***************************************************************************)
LastStateHolds == kind = "button" => TheButton!LastStateHolds

(***************************************************************************)
(* The listeners of an alert hear once that it has closed.                 *)
(***************************************************************************)
ClosedOnce == kind = "alert" => TheAlert!ClosedOnce
=============================================================================
