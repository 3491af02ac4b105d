CONSTANTS
    PanelValues = {500, 1024}
    Steps = {0, 5, 16}
    MaxKeys = 2
    MaxDims = 1
    MaxLost = 1
    None = None
SPECIFICATION Spec
INVARIANTS
    TypeOK
    DisplayComesBack
    KeyMovesOneLevel
    LampFollowsSMC
PROPERTY
    SensorsKeepPolling
CHECK_DEADLOCK FALSE
