CONSTANTS
    x = x
    Connections <- OneConnection
    MaxActive = 1
SPECIFICATION Spec
PROPERTY OnlyExcessClosed
CHECK_DEADLOCK FALSE
