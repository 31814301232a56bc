SPECIFICATION Spec
CONSTANTS
    Requests = {r1}
    Samples = {s1, s2}
    ExpTypes = {t1, t2}
    SeedTypes = {t1, t2}
    Equipments = {e1}
    SeedEquipment = {e1}
    SeedCapacity = 2
    EditedTypes = {}
    EditedEquipment = {}
    CapacityInputs = {}
    Wips = {w1, w2}
    Dispatches = {d1, d2}
    Verdicts = {"pass"}
    Nil = Nil
SYMMETRY Symmetry
CHECK_DEADLOCK FALSE
INVARIANTS
    NoStrandedWip
    CountsAgree
    VerdictsCounted
    BatchIsLinked
    OverviewsAgree
PROPERTIES
    ProgressForward
    PhaseNeverGoesBack
