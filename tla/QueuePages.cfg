SPECIFICATION FairSpec
CONSTANTS
    Panels = {m1}
    Commands = {c1}
    Events = events
    PageSize = 1
    MaxLength = 3
    MaxChanges = 2
    MaxClicks = 2
INVARIANT TypeOK
INVARIANT PageWithinNav
INVARIANT RefreshShowsAPage
 
PROPERTY PanelsClose
PROPERTY RefreshesEnd
CHECK_DEADLOCK FALSE
