SPECIFICATION BootSpec
CONSTANTS
    Checks = 2
    Resets = 2
    MaxFaults = 0
    MaxCalls = 1
INVARIANTS
    RequestedRegisterValue
CHECK_DEADLOCK FALSE
