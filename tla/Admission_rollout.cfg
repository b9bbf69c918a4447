SPECIFICATION Spec
CHECK_DEADLOCK FALSE
CONSTANTS
    Names <- TwoNames
    Valid = "whatap"
    MaxStarts = 3
    MaxEdits = 3
    MaxFaults = 1
    None = None
INVARIANTS TypeOK OneReconciles
PROPERTIES EndsUpVouched MisnamedGoes
