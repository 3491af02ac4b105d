CONSTANTS
    Consumers = {trackpad, trackpoint}
    MaxKeys = 2
    MaxChanges = 3
    None = None
SPECIFICATION Spec
INVARIANTS
    TypeOK
    RecordedFollowsLive
    ConsumersAgree
PROPERTY
    PressFlips
CHECK_DEADLOCK FALSE
