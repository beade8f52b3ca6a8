SPECIFICATION Spec
CONSTANTS
    N = 3
    W = 2
    PerBlock = 2
    U = 16
    Names = {a, b}
    RootName = root
    NoName = empty
    Data = {d1}
    Threads = {t1}
    Fds = {f1}
    Vnodes = {v1, v2}
    None = none
    Negative = negative
    Lens = {1}
    MaxEnd = 1
    Env = {"crash", "fault", "create_again"}
    Recycle = {"table"}
SYMMETRY Symmetry
INVARIANTS
    CreateTakesEffect
    BlockOwner
    TableInv
PROPERTIES
    NameStep
