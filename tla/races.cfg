SPECIFICATION Spec
CONSTANTS
    Requests <- MCRequests
    Samples <- MCSamples
    Types <- MCTypes
    Wips <- MCWips
    Dispatches <- MCDispatches
    Owner <- MCOwner
    TypeOf <- MCTypeOf
    WipOf <- MCWipOf
    Races <- MCRaces
    StartDbs <- MCStartDbs
CHECK_DEADLOCK FALSE
INVARIANTS
    NoConflictingWrites
    CascadeSeesAll
    OneActiveRun
    CirclesOnlyOverBatches
PROPERTIES
    LastRunCompletesWafer
    BatchGetsVerdict
    RunEndsOnce
