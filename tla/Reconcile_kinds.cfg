SPECIFICATION Spec
CHECK_DEADLOCK FALSE
CONSTANTS
    NoCR = NoCR
    None = None
    Specs <- OpenSpecs
    Informers <- KindInformers
    MaxUid = 1
    MaxGen = 2
    MaxFaults = 0
    MaxEpoch = 0
    MaxMon = 1
    DeployTries = 3
    StatusTries = 2
    Foreground = {}
INVARIANTS RestConforms
