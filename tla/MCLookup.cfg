SPECIFICATION LookupSpec
CONSTANTS
 Hosts = {"h1", "h2"}
 Slots = {"s1"}
 MaxLookups = 2
INVARIANT AddressOfTheHost
CHECK_DEADLOCK FALSE
