SPECIFICATION Spec
CONSTANTS
    Requests <- MCRequests
    Samples <- MCSamples
    Types <- MCTypes
    Wips <- MCWips
    Dispatches <- MCDispatches
    Owner <- MCOwner
    TypeOf <- MCTypeOf
    WipOf <- MCWipOf
    Races <- MCStaleRaces
    StartDbs <- MCStaleDbs
CHECK_DEADLOCK FALSE
PROPERTIES
    WafersMoveLegally
