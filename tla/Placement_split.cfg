SPECIFICATION Spec
CHECK_DEADLOCK FALSE
CONSTANTS
    Keys <- TwoKeys
    Values <- TwoValues
    NoLabel = NoLabel
    NoDS = NoDS
    Unset = Unset
    Specs <- SplitSpecs
    Sidecars <- OneSidecar
INVARIANTS TypeOK NoNodeTwice NoNodeMissed ExporterOnGpuNodes ExporterExact
PROPERTIES SidecarsKept RepeatKeepsTemplates
