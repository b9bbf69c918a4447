SPECIFICATION Spec
CHECK_DEADLOCK FALSE
CONSTANTS
    Nodes <- TwoNodes
    Addrs <- TwoAddrs
    Samples <- SomeSamples
    Limits <- SomeLimits
    OtherLimit = 4
    Words = 32
    MaxPods = 2
    MaxConts = 2
    MaxFaults = 1
    None = None
INVARIANTS TypeOK
PROPERTIES DeletesOnlyOverloaded NoneStaysOverloaded
