SPECIFICATION FairSpec
CONSTANTS
    Source = "in"
    Chain <- SmallChain
    Batches <- SmallBatches
    Workload = {"upload", "redraft", "tag", "bare"}
    Cached = {"in"}
    MaxMisses = 1
    MaxRev = 2
    MaxFaults = 1
INVARIANTS TypeOK RowsNameFiles  SucceededIsComplete EditCarriesPictures JobsFailForCause
CHECK_DEADLOCK FALSE
PROPERTY EverythingSettles
