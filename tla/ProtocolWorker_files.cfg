CONSTANTS
    None = None
    Workers = {w1, w2}
    Length = 2
    MaxVersion = 3
SPECIFICATION FairSpec
INVARIANTS TypeOK FileIsWhole SuccessIsWhole
PROPERTIES KeptFileIsCurrent CallsEnd AtomicSpec
