SPECIFICATION InstallSpec
CONSTANTS
    Shipped <- MCShipped
    Requests <- MCRequests
    Hats <- MCHats
    MaxRuns = 4
INVARIANTS
    InstallTypeOK
    OneCopy
    RequestHolds
    RetryConverges
PROPERTIES
    SpiWithItsUsers
    OthersUntouched
CHECK_DEADLOCK TRUE
