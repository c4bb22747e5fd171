SPECIFICATION DeviceSpec
CONSTANTS
    Hats <- MCHats
    Timeouts = {0}
    Thresholds = {}
    Levels = {}
INVARIANTS
    ProtocolFits
CHECK_DEADLOCK TRUE
