\* Rows, instructions and layouts of FDEs.
CONSTANTS
    Sections <- AllSections
    MaxPc = 5
SPECIFICATION DwarfSpec
INVARIANTS RowCoversPc CachesDoNotShow FdeFound EvalExact
