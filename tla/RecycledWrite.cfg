SPECIFICATION Spec
CONSTANTS
    N = 3
    W = 2
    PerBlock = 2
    U = 16
    Names = {a}
    RootName = root
    NoName = empty
    Data = {d1}
    Threads = {t1}
    Fds = {f1}
    Vnodes = {v1}
    None = none
    Negative = negative
    Lens = {1}
    MaxEnd = 2
    Env = {}
    Recycle = {"zero"}
INVARIANTS
    WriteInOwnBlock
