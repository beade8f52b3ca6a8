SPECIFICATION Spec
CONSTANTS
    Modulus = 64
    MinBlock = 2
    MaxBlock = 16
    ObjectSize = 1
    SuperAlign = 1
    Padding = 2
    ModuleSize = 3
    Sizes = {63}
    Asked = {2}
    Chunk = 8
    MaxPos = 80
    ScanSize = 32
    KernelBlocks = {2, 4, 8}
    Stray = {}
    Env = {}
INVARIANTS
    InDevice
CHECK_DEADLOCK FALSE
