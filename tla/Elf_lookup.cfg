CONSTANTS
    Symtabs <- AllSymtabs
    Addrs = {0, 1, 2, 3}
    Names = {"a", "b"}
    NoName = "none"
    kMaxSymbols = 3
SPECIFICATION ElfSpec
INVARIANTS NameExact FdeExact EntryExact UndoesPrologue HeadersExact DexFilesExact CallerFound UnwindsPrepared
PROPERTY LookupsEnd
