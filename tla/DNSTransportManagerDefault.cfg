SPECIFICATION Spec
CONSTANTS
    Tags = {"a", "local"}
    Local = "local"
    DefaultTag = "none"
    None = "none"
    DepLists <- NoDeps
    MaxObjects = 3
INVARIANTS DefaultNotFakeIP
CHECK_DEADLOCK FALSE
