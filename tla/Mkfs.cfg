SPECIFICATION FairSpec
CONSTANTS
    Modulus = 64
    MinBlock = 1
    MaxBlock = 8
    ObjectSize = 1
    SuperAlign = 1
    Padding = 1
    ModuleSize = 3
    Sizes = {5, 14, 25, 49, 64}
    Asked = {0, 1, 2, 3, 4, 8, 9}
    Chunk = 4
    MaxPos = 80
    ScanSize = 16
    KernelBlocks = {1, 2, 4}
    Stray = {"elf", "module"}
    Env = {"kill", "fault", "short"}
INVARIANTS
    TypeOK
    LaidOut
    InDevice
    NothingLost
    SuccessMounts
    NeverHalf
    PosInv
    ToolsAgree
PROPERTIES
    Ends
CHECK_DEADLOCK FALSE
