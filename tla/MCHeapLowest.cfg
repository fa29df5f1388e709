SPECIFICATION HeapSpec
CONSTANTS
    User = {"u"}
    MemSize = 28
    Header = 4
    MinSize = 3
    Align = 2
    Sizes = {4, 12}
    MaxBlocks = 2
INVARIANT LowestFree
