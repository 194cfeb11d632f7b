\* Every kind of map, arbitrary steps.
CONSTANTS
    Pcs <- AllPcs
    MapOf <- AllMaps
    DexPcs = {1, 3}
    Sps = {1, 2}
    DeviceSps = {2}
    max_frames_ = 3
SPECIFICATION FairSpec
INVARIANTS GuessesConfirmed AllButInnermostAdjusted
PROPERTIES FramesKept GuessKeepsError Terminates
