SPECIFICATION Spec
CONSTANTS
    Tabs = {tab1}
    Calls = {c1}
    MaxPairs = 2
CHECK_DEADLOCK FALSE
PROPERTIES
    LogoutRevokes
