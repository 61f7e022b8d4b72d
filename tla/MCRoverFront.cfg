SPECIFICATION RoverSpec
CONSTANTS
    Speeds <- MCSpeeds
    Ranges <- MCRanges
    Garbage <- MCGarbage
    MaxLaps = 2
    W = 8
    M = 5
    TurnTime = 12
    Watchdog = 40
INVARIANT FrontRowIsFrontSensor
