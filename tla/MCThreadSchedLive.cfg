SPECIFICATION FairSpec
CONSTANTS
    Thread = {"idle", "main", "w"}
    Idle = "idle"
    Manager = "main"
    Wild = "wild"
    NPrio = 3
    Slice = 2
    Queue = {"defunct"}
    InitPrio <- MCInitPrio
    Sleepers = {"main", "w"}
    Exiters = {}
    Resumable = {}
    Detachable = {}
    DetachStats = {"READY", "SUSPEND"}
    Dynamic = {"w"}
    HeapGarbage = {{0, 1, 2}}
    Reprioritised = {}
    NewPrio = {0, 1}
    MaxDelay = 1
    MaxNest = 1
PROPERTIES RoundRobin SleepEnds
