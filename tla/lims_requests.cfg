SPECIFICATION Spec
CONSTANTS
    Requests = {r1, r2}
    Samples = {s1, s2}
    ExpTypes = {t1}
    SeedTypes = {t1}
    Equipments = {e1}
    SeedEquipment = {e1}
    SeedCapacity = 1
    EditedTypes = {}
    EditedEquipment = {}
    CapacityInputs = {}
    Wips = {w1, w2}
    Dispatches = {d1}
    Verdicts = {"pass"}
    Nil = Nil
SYMMETRY Symmetry
CHECK_DEADLOCK FALSE
INVARIANTS
    Inductive
    NoStrandedRequest
    FlowsAgree
    LinksLand
PROPERTIES
    LockedAfterDraft
    Promised
