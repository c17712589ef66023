SPECIFICATION Spec
CONSTANTS
    SerialMod = 6
    IndexSize = 2
    TargetSize = 3
    FirstSerials = {5}
    MaxVersions = 5
    None = None
CHECK_DEADLOCK FALSE
INVARIANTS
    RecoveryIsExact
    
