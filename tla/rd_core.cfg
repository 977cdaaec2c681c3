SPECIFICATION FairSpec
CONSTANTS
    SpineCount = 2
    Length <- MCLength
    Layout = {1, 2}
    PerPage <- MCPerPage
    None = None
    Anchor = {1, 2}
    Percent = {50}
    MaxDepth = 1
    Margin = 1
    Window = 1
    MaxRetries = 1
    MaxAsked = 3
INVARIANTS TypeOK PagesAreReadable LayoutIsCurrent
PROPERTIES RenderEnds KeepsPlace CoverageGrows
CHECK_DEADLOCK FALSE
