\* Every method, with and without the cache, in every kind of address space.
CONSTANTS
    Threads = {t1, t2, t3}
    Worlds <- Cases
    NoLock = NoLock
SPECIFICATION Spec
SYMMETRY Symmetry
INVARIANTS ElfNeverChanges FieldsMatchElf ReadOnlyMapSharesElf OrderIndependent
