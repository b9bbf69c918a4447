SPECIFICATION Spec
CHECK_DEADLOCK FALSE
CONSTANTS
    CRs <- SomeCRs
    Pods <- SomePods
    Namespaces <- SomeNamespaces
    Foreign <- SomeForeign
    MaxForeign = 2
    Unset = Unset
INVARIANTS TypeOK MarkTruthful PodStaysValid
PROPERTIES OneServer UserEnvKept CopiesItsOwnFiles PickedFirst
