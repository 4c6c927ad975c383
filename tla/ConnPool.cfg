SPECIFICATION Spec
CONSTANTS
    Callers = {u1, u2}
    Modes = {"single", "ordered"}
    MaxInflight = 1
    MaxDials = 2
    MaxResets = 1
    MaxCalls = 3
    MaxDeaths = 1
SYMMETRY Symmetry
INVARIANTS NoLeak ClaimedOnce Exclusive SlotsConserved
PROPERTIES ErrorHasCause RetiredFrozen NoStaleTeardown
CHECK_DEADLOCK FALSE
