SPECIFICATION BootSpec
CONSTANTS
    Checks = 2
    Resets = 2
    MaxFaults = 1
    MaxCalls = 2
INVARIANTS
    MeantRegister
    BegunIsConfigured
    OneListener
PROPERTIES
    BeginReturns
CHECK_DEADLOCK FALSE
