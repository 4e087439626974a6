SPECIFICATION Spec
CONSTANTS
    NFiles = 3
    Descriptors = {d1, d2, d3, d4}
    INVALID = INVALID
SYMMETRY NumberSymmetry
INVARIANTS
    HandlesInv
    DisposeOwnsNumber
    ListedFilesAreClosed
    UndisposedFilesAreTheirOwn
CHECK_DEADLOCK FALSE
