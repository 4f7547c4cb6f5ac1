CONSTANTS
    None = None
    Threads = {t1}
    Files = {f1}
    MaxSize = 2
SPECIFICATION Spec
INVARIANT FailuresReported
