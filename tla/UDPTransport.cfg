SPECIFICATION Spec
CONSTANTS
    Callers = {p1, p2}
    Conns = {c1, c2}
    Limits <- TwoLimits
    None = None
INVARIANTS  CallbacksInFlight BufferFits
 
CHECK_DEADLOCK FALSE
