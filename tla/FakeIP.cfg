SPECIFICATION Spec
CONSTANTS
    Domains = {d1, d2, d3}
    Callers = {p1, p2}
    Configs <- OneMoved
    Top = 7
    Stores = {TRUE, FALSE}
    StorageFails = TRUE
    MaxRestarts = 1
    None = None
SYMMETRY Symmetry
INVARIANTS MapsAgree AnswersResolve CursorInRange
