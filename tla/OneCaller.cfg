SPECIFICATION Spec
CONSTANTS
    N = 3
    W = 2
    PerBlock = 2
    U = 16
    Names = {a, b}
    RootName = root
    NoName = empty
    Data = {d1}
    Threads = {t1}
    Fds = {f1, f2}
    Vnodes = {v1, v2}
    None = none
    Negative = negative
    Lens = {1, 2}
    MaxEnd = 2
    Env = {"truncate"}
    Recycle = {}
SYMMETRY Symmetry
INVARIANTS
    CountsMatch
    DirSound
    CacheCoherent
    UnlinkTakesEffect
    OnlyEmptyOnesStay
    PromiseInv
PROPERTIES
    KeepsPromise
    AppendKeepsPrefix
