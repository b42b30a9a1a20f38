CONSTANTS
    Ids <- MCKeyIds
    NoId = NoId
    Nil = Nil
    IdKey = "id"
    i1 = i1  i2 = i2  Ann = Ann  ann = ann  bob = bob  c1 = c1  cA = cA  cB = cB
    TextVals = {Ann, ann, bob, c1}
    Props <- MCProps
    Normalize <- MCNormalize
    IntWord = 16
    Indexes <- MCIndexes
    IdxCols <- MCIdxCols
    PrimaryCols <- NamePrimary
    Clients = {cA}
    PutBatches <- MCKeyPuts
    UpdateQueries = {}
    DelFilters <- MCKeyFilters
    GetFilters <- MCKeyFilters
    MaxOps = 3
    MaxFaults = 0
SPECIFICATION Spec
INVARIANT NoStaleEntry
