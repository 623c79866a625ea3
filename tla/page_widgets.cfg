SPECIFICATION Spec
CONSTANTS
    TriggerSets <- Triggers
    MaxTipWaiting = 4
    PageWidth = 12
    PageHeight = 14
    LinkWidth = 2
    LinkHeight = 2
    TipWidth = 6
    TipHeight = 2
    LineWidth = 4
    WrappedHeight = 4
    Paddings = {0, 1}
    MaxBackdrops = 3
    MaxModalWaiting = 2
    Panels = {1, 2, 3}
    MaxPanelWaiting = 3
    Slides = 3
    MaxDeferred = 3
    Tabs = {"a", "b", "c"}
    MaxTabWaiting = 3
    Layouts <- FourLayouts
    Viewport = 8
    SpyOffset = 1
    Height = 30
    Element = 4
    Pinned = 1
    Natural = 3
    OffsetTop = 4
    OffsetBottom = 6
    Menus = {1, 2, 3}
    Entries = 3
    States = {"loading", "reset", "done"}
    Radios = {1, 2}
    MaxTimers = 3
    MaxAlertWaiting = 3
INVARIANTS TypeOK NoTipLeftBehind TipFollowsPointer DestroyedStaysGone
INVARIANTS TipAtElement TipInWindow
INVARIANTS ClosedLeavesNothing ClosedFreesBody OpenIsOnScreen
INVARIANTS AccordionOne NoPanelStuck LastAskedWins
INVARIANTS HeaderIsShown SpyCatchesUp OneMenuOpen
INVARIANTS LastStateHolds ClosedOnce
PROPERTIES DragNeverCloses NoFlicker AskedIsReached LeftoversFade
CHECK_DEADLOCK FALSE
