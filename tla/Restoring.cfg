SPECIFICATION FairSpec
CONSTANTS
    Photos = {"photo"}
    Accounts = {"user"}
    Records <- MCRecords
    NewPermits <- MCPermits
    Concurrency = 2
    Existing <- MCExisting
    MaxRev = 2
    MaxFaults = 1
INVARIANTS TypeOK DumpedWithPicture RestoredWhole PicturesProcessed 
PROPERTY LoadComesToEnd
CHECK_DEADLOCK FALSE
