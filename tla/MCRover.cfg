SPECIFICATION RoverSpec
CONSTANTS
    Speeds <- MCSpeeds
    Ranges <- MCRanges
    Garbage <- MCGarbage
    MaxLaps = 4
    W = 8
    M = 5
    TurnTime = 12
    Watchdog = 40
INVARIANT SpeedMatchesLeftWheel
INVARIANT SpiralOrder
INVARIANT HeadingBelief
INVARIANT MotorsMatchPhase
INVARIANT StrayStores
INVARIANT TurnLengthHolds
INVARIANT BittenOnlyAtTheWrap
PROPERTY LegMarksItsOwnLine
PROPERTY ImplementsSpiral
