SPECIFICATION Spec
CONSTANTS
    User = {"u", "v"}
    MemSize = 26
    Header = 4
    MinSize = 3
    Align = 2
    Sizes = {0, 1, 12}
    MaxBlocks = 2
    Timers = {"x", "y"}
    TickMod = 11
    Times = {0, 2}
    MaxLate = 1
INVARIANTS
    TypeOK HeapExact
PROPERTIES
    HeapImplementsAllocator TimersImplementCountdown TimerFires
