SPECIFICATION Spec
CHECK_DEADLOCK FALSE
CONSTANTS
    Keys <- TwoKeys
    Values <- TwoValues
    NoLabel = NoLabel
    NoDS = NoDS
    Unset = Unset
    Specs <- AffinitySpecs
    Sidecars <- OneSidecar
INVARIANTS NormalOnOtherNodes
