SPECIFICATION FairSpec
CONSTANTS
    Callers = {u1, u2}
    Modes = {"single", "ordered"}
    MaxInflight = 1
    MaxDials = 2
    MaxResets = 1
    MaxCalls = 2
    MaxDeaths = 0
PROPERTIES AcquireReturns RetiredClosed HoldersNotified
CHECK_DEADLOCK FALSE
