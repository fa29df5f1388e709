SPECIFICATION MutexSpec
CONSTANTS
    Thread = {"idle", "low", "mid", "high"}
    Idle = "idle"
    Wild = "wild"
    NPrio = 4
    Slice = 1
    Queue = {"m1", "m2"}
    InitPrio <- MCInitPrio
    Sleepers = {"low", "mid", "high"}
    MaxDelay = 1
    MaxWait = 0
    Flag = "PRIO"
    CarefulFlush = TRUE
    Consumers = {}
    Producers = {}
    Controllers = {}
    Msg = {"a"}
    MsgFrom <- MCMsgFrom
    IsrMsg = "a"
    Watched = {}
    MutexId = {"m1", "m2"}
    HoldMod = 2
    MaxHold = 1
INVARIANT NoPriorityReversion
