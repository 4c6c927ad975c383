SPECIFICATION Spec
CONSTANTS
    Tags = {"a", "local"}
    Local = "local"
    DefaultTag = "none"
    None = "none"
    DepLists <- SomeDeps
    MaxObjects = 3
INVARIANTS ListMatchesMap NoSilentLeak
CHECK_DEADLOCK FALSE
