SPECIFICATION Spec
CONSTANTS
    Relays = {r1}
    MaxCloseAll = 2
INVARIANTS OnCloseOnce HalfClose TrackedOpen
PROPERTIES TornDown
CHECK_DEADLOCK FALSE
