SPECIFICATION Spec
CHECK_DEADLOCK FALSE
CONSTANTS
    NoCR = NoCR
    None = None
    Specs <- EditSpecs
    Informers <- OneInformer
    MaxUid = 2
    MaxGen = 2
    MaxFaults = 0
    MaxEpoch = 0
    MaxMon = 0
    DeployTries = 3
    StatusTries = 2
    Foreground = {TRUE}
PROPERTIES DeletionCompletes NoLostEdit
