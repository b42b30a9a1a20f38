CONSTANTS
    Ids = {i1, i2, i3}
    i1 = i1  i2 = i2  i3 = i3
    Nil = Nil
    IdBytes <- MCIdBytes
    Cols <- MCCols
    RowVals <- MCRowVals
    IntBytes = 1
    Queries <- MCQueries
SPECIFICATION Spec
INVARIANTS TypeOK FindMatches
