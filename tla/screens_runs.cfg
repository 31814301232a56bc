SPECIFICATION FairScreensSpec
CONSTANTS
    Requests = {r1}
    Samples = {s1}
    ExpTypes = {t1}
    SeedTypes = {t1}
    Equipments = {e1}
    SeedEquipment = {e1}
    SeedCapacity = 1
    EditedTypes = {}
    EditedEquipment = {}
    CapacityInputs = {}
    Wips = {w1}
    Dispatches = {d1}
    Verdicts = {"pass"}
    Nil = Nil
    Tabs = {tab1, tab2}
    FirstTab = tab1
    FirstPages = {"new_request", "fab_request", "mgr_request",
                  "wafer", "new_wip", "wip"}
    OtherPages = {"dispatch"}
    PagesOf <- MCPagesOf
    MaxLost = 1
CHECK_DEADLOCK FALSE
PROPERTIES
    ShownRunEnds
