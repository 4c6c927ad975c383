SPECIFICATION Spec
CONSTANTS
    Keys = {k1}
    Flushers = {g1, g2, g3}
    MaxVersion = 3
    MaxClears = 2
    SaveFails = TRUE
    Nil = Nil
INVARIANTS PendingHasFlusher LatestVisible
PROPERTIES Drained
