SPECIFICATION Spec
CHECK_DEADLOCK FALSE
CONSTANTS
    NoCR = NoCR
    None = None
    Specs <- OneSpec
    Informers <- OneInformer
    MaxUid = 2
    MaxGen = 2
    MaxFaults = 1
    MaxEpoch = 1
    MaxMon = 0
    DeployTries = 3
    StatusTries = 2
    Foreground = {FALSE}
INVARIANTS GuardInv FinalizerGuardsObjects RestInv
PROPERTIES InstallsForLiveOwner DeletionCompletes LeavesNothing ImplementsLifecycle
