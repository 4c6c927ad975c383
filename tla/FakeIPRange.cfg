SPECIFICATION Spec
CONSTANTS
    Domains = {d1}
    Callers = {p1}
    Configs <- OneMoved
    Top = 7
    Stores = {TRUE}
    StorageFails = FALSE
    MaxRestarts = 1
    None = None
INVARIANTS AnswersInRange
