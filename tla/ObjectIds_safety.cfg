SPECIFICATION FairSpec
CONSTANTS
    MaxClientId = 3
    ServerIdBase = 8
    MaxServerId = 9
    MaxObjects = 3
    MaxInFlight = 2
INVARIANTS ServerFindsObject ClientFindsObject IdsConserved
PROPERTY DestroyedIdReturns
CHECK_DEADLOCK FALSE
