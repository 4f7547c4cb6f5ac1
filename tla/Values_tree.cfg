CONSTANTS
    None = None
    summary = summary
    value = value
    Root = n1
    Nodes = {n1, n2, n3, n4}
    Standard <- MCStandard
    Names = {summary, value}
    Texts = {"", "text"}
    Base = 3
SPECIFICATION Spec
SYMMETRY Symmetry
INVARIANTS TypeOK OwnedOnce ArraysInOrder EmptyMeansEmpty
PROPERTIES ReferencesStayGood DocumentSpec
