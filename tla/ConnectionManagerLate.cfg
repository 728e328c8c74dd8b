SPECIFICATION Spec
CONSTANTS
    Upgrades = {u1}
    MaxAccepts = 0
    GroupCount = 2
    MaxConnections = 2
PROPERTIES
    FrameworkWindsDown
CHECK_DEADLOCK FALSE
