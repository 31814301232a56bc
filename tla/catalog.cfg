SPECIFICATION FormsSpec
CONSTANTS
    Requests = {r1}
    Samples = {s1}
    ExpTypes = {t1, t2}
    SeedTypes = {}
    Equipments = {e1}
    SeedEquipment = {}
    SeedCapacity = 1
    EditedTypes = {t1, t2}
    EditedEquipment = {e1}
    CapacityInputs = {1}
    Wips = {w1}
    Dispatches = {d1}
    Verdicts = {"pass"}
    Nil = Nil
SYMMETRY Symmetry
CHECK_DEADLOCK FALSE
INVARIANTS
    SelectionWithinRequest
    SavedIsStored
    DispatchFormMatches
