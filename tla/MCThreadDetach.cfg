SPECIFICATION Spec
CONSTANTS
    Thread = {"idle", "main", "s", "w"}
    Idle = "idle"
    Manager = "main"
    Wild = "wild"
    NPrio = 3
    Slice = 2
    Queue = {"defunct"}
    InitPrio <- MCInitPrio
    Sleepers = {"main", "w"}
    Exiters = {"s"}
    Resumable = {}
    Detachable = {"w"}
    DetachStats = {"READY", "SUSPEND"}
    Dynamic = {"w"}
    HeapGarbage = {{0, 1, 2}}
    Reprioritised = {"w"}
    NewPrio = {0, 1}
    MaxDelay = 1
    MaxNest = 1
INVARIANT ClosedNotReady
