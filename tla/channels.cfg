SPECIFICATION ChannelsSpec
CONSTANTS
    Requests = {r1}
    Samples = {s1, s2}
    ExpTypes = {t1}
    SeedTypes = {t1}
    Equipments = {e1}
    SeedEquipment = {e1}
    SeedCapacity = 1
    EditedTypes = {t1}
    EditedEquipment = {}
    CapacityInputs = {}
    Wips = {w1, w2}
    Dispatches = {d1, d2}
    Verdicts = {"pass"}
    Nil = Nil
SYMMETRY Symmetry
CHECK_DEADLOCK FALSE
INVARIANTS
    CompletedWaferMeasured
    WaferCanBeWorked
    VerdictTraceable
