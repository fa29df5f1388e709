SPECIFICATION MutexSpec
CONSTANTS
    Thread = {"idle", "low", "mid", "high"}
    Idle = "idle"
    Wild = "wild"
    NPrio = 4
    Slice = 1
    Queue = {"m1"}
    InitPrio <- MCInitPrio
    Sleepers = {"low", "mid", "high"}
    MaxDelay = 1
    MaxWait = 1
    Flag = "PRIO"
    CarefulFlush = TRUE
    Consumers = {}
    Producers = {}
    Controllers = {}
    Msg = {"a"}
    MsgFrom <- MCMsgFrom
    IsrMsg = "a"
    Watched = {}
    MutexId = {"m1"}
    HoldMod = 3
    MaxHold = 2
INVARIANT FullyPreemptive
