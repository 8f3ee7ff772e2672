CONSTANTS
    Batches <- MCBatches
    Layers <- MCLayers
    LongQuery = 3
    LongLength = 4
    Capacity = 6
    OneDnn = TRUE
    M04 = TRUE
SPECIFICATION Spec
INVARIANTS
    TypeOK
    RowsExact
PROPERTIES
    WrittenOnce
