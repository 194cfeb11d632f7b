\* Two threads look addresses up, and a third searches the list, while the address space changes.
CONSTANTS
    Threads = {t1, t2}
    None = None
    Kernels <- SomeSpaces
    Addresses = {0, 2}
    MayFail = TRUE
    Scans = TRUE
    MaxChanges = 1
    MaxFinds = 1
SPECIFICATION Spec
SYMMETRY Symmetry
INVARIANTS ReparseExact ObjectsKept FindCorrect RawPointersValid
