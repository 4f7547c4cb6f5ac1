CONSTANTS
    None = None
    Empty = Empty
    Threads = {t1, t2}
    Names = {n1}
    Paths = {p1}
    MaxKey = 3
SPECIFICATION FairSpec
INVARIANTS TypeOK BuiltBeforeUse OneInCache
PROPERTIES TokensOpen DecidedOnce LocksReleased
