SPECIFICATION FairSpec
CONSTANTS
    Lengths = {1, 2}
    kLogBufferPieceSize = 3
    kMaximumOfLogBuffer = 2
    Kilobyte = 2
    RollingSizes = {1, 2}
    kDefaultLogFileRollingSize = 2
    kSecondsPerDay = 1
    LogFileTypes = {"SINGLE_FILE", "DAILY_FILE", "ROLLING_FILE"}
    FoundSizes = {3}
    Null = Null
    MaxMessages = 4
    MaxTime = 2
INVARIANTS LogAccounted NoArchiveLost
PROPERTIES OldestIsKept MessageLeavesMemory
CHECK_DEADLOCK FALSE
