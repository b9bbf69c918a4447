SPECIFICATION Spec
CHECK_DEADLOCK FALSE
CONSTANTS
    NoCR = NoCR
    None = None
    Specs <- NodeSpecs
    Informers <- OneInformer
    MaxUid = 1
    MaxGen = 2
    MaxFaults = 0
    MaxEpoch = 0
    MaxMon = 0
    DeployTries = 3
    StatusTries = 2
    Foreground = {}
PROPERTIES NoNodeAgentsWhenDisabled
