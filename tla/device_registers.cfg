SPECIFICATION DeviceSpec
CONSTANTS
    Hats <- MCHats
    Timeouts <- MCTimeouts
    Thresholds <- MCThresholds
    Levels = {255, 256}
INVARIANTS
    DeviceTypeOK
    WatchdogAsAsked
    ThresholdAsAsked
CHECK_DEADLOCK TRUE
