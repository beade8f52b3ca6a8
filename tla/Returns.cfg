SPECIFICATION FairSpec
CONSTANTS
    N = 2
    W = 2
    PerBlock = 1
    U = 16
    Names = {root}
    RootName = root
    NoName = empty
    Data = {d1}
    Threads = {t1, t2}
    Fds = {f1}
    Vnodes = {v1}
    None = none
    Negative = negative
    Lens = {1}
    MaxEnd = 2
    Env = {"fault"}
    Recycle = {}
PROPERTIES
    CallsReturn
CHECK_DEADLOCK FALSE
