SPECIFICATION Spec
CONSTANTS
    Dispatches = {d1, d2}
    Equipments = {e1, e2}
    Days = 2
    DayLength = 3
    Unset = Unset
SYMMETRY Symmetry
CHECK_DEADLOCK FALSE
INVARIANTS
    BusyTimeIsExact
    ReportsAddUp
    TrendWithinScale
PROPERTIES
    PastIsFixed
