SPECIFICATION FairSpec
CONSTANTS
    Fits = fits
    Scrolls = scrolls
    List = {fits, scrolls}
    Root = scrolls
    Items <- MCItems
    Callback = callback
    TreeBack = treeBack
    Onscreen = 2
    MaxDepth = 3
    Wrap = 6
CHECK_DEADLOCK TRUE
INVARIANTS
    SomewhereInTree
    SelectionIsShown
PROPERTIES
    StaysShown
