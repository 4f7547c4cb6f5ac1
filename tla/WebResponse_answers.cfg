CONSTANTS
    None = None
    Threads = {t1, t2}
    Files = {f1}
    MaxSize = 2
SPECIFICATION FairSpec
INVARIANTS TypeOK BodyMatchesHeader StatusIsReturned EarlyFailuresReported
PROPERTY RequestsAnswered
