SPECIFICATION WirelessSpec
CONSTANTS
 Ssids = {"n1", "n2"}
 Passes = {"p"}
 Bssids = {"b1"}
 Nets <- McNets
 Levels = {1, 2}
 MaxFound = 2
 MaxEntries = 2
 MaxRefusals = 1
 MaxRequests = 1
 AtBoot = FALSE
 TimeoutChar = 2
 Clients = {"c1", "c2"}
 NSocks = 2
 Tries = 2
 DownCycles = 0
 MaxCalls = 4
INVARIANTS ResumeRestores TriesEveryEntry WrittenWasSent ClientsApart
PROPERTIES ShutdownSparesFlash RunReturns ShieldCallsReturn
CHECK_DEADLOCK FALSE
