SPECIFICATION FairSpec
CONSTANTS
    Methods <- MCMethods
    Targets <- MCTargets
    Contents <- MCContents
    Upper <- MCUpper
    Ids = {i1, i2}
    Definitions <- MCDefinitions
    Requests <- MCRequests
    Writers = {w1, w2}
    Nil = Nil
    MaxSequence = 3
INVARIANTS
    TypeOK
    OrderIsTable
    SnapshotCurrent
    ListInCreationOrder
    CandidatesComplete
PROPERTIES
    ImplementsStubTable
    EveryCallReturns
