SPECIFICATION ShellSpec
CONSTANTS
    Tabs = {tab1}
    Calls = {c1, c2}
    MaxPairs = 2
CHECK_DEADLOCK FALSE
INVARIANTS
    SessionInv
    OneRowPerSession
    NoTokenPresentedTwice
    ScreenFitsProfile
PROPERTIES
    CallsSettle
    RedirectsSettle
