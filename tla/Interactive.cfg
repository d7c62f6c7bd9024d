CONSTANTS
    i1 = i1
    i2 = i2
    g = g
    Live = Live
    Month = Month
    None = None
    Ident = {i1, i2}
    Label <- MCLabel
    Flow <- MCFlow
    Window = {Live, Month}
    Moves <- MCMoves
    Filters <- MCFilters
SPECIFICATION FairSpec
INVARIANTS TypeOK ShownIsChosen CursorOnRow
PROPERTIES CursorFollows ErrorHeals
CHECK_DEADLOCK FALSE
