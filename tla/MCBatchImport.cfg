SPECIFICATION FairSpec
CONSTANTS
    A = A
    B = B
    None = None
    Failed = Failed
    Batches <- MCBatches
    Catalogues <- MCCatalogues
    Attempts = 2
    MaxRequests = 2
    MaxFaults = 2
    MaxOthers = 2
CHECK_DEADLOCK FALSE
INVARIANTS
    UniqueProviders
PROPERTIES
    ImplementsLedger
    RepeatChangesNothing
    EveryRequestEnds
