SPECIFICATION Spec
CONSTANTS
    Modulus = 64
    MinBlock = 2
    MaxBlock = 16
    ObjectSize = 1
    SuperAlign = 1
    Padding = 2
    ModuleSize = 3
    Sizes = {39}
    Asked = {3}
    Chunk = 8
    MaxPos = 80
    ScanSize = 32
    KernelBlocks = {2, 4, 8}
    Stray = {}
    Env = {}
INVARIANTS
    AcceptedMounts
CHECK_DEADLOCK FALSE
