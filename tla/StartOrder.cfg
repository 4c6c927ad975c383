SPECIFICATION FairSpec
CONSTANTS
    Members <- ThreeMembers
    Ghost = "ghost"
    MaxDeps = 2
    MaxFailing = 1
INVARIANTS DependenciesFirst ResultCorrect
PROPERTIES Terminates
CHECK_DEADLOCK FALSE
