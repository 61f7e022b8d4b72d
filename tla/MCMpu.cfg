SPECIFICATION MpuSpec
CONSTANTS
    MaxCalls = 2
    MaxFaults = 1
    MaxSamples = 2
    MaxReads = 2
    MaxBroken = 1
    Fills = {{0, 2, 3, 5, 7}}
    Length = 3
    Capacity = 10
    TooMany = 7
    BufferLength = 2
    Gap = 4
    MaxAge = 3
    MaxLost = 1
    BankSize = 3
    Banks = 2
    ChunkSize = 2
    MaxSize = 5
    MaxBlocks = 2
    MaxMissed = 1
    Loops = 2
    Rounds = 5
    MinRound = 1
    MinSamples = 2
    MaxFailed = 1
INVARIANTS
    SettingsStick
    LatestWholePacket
    BlockIsThere
    BitZeroKept
    WordsInPlace
PROPERTIES
    PacketCallReturns
    CalibrationEnds
CHECK_DEADLOCK FALSE
