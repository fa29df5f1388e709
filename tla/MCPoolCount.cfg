SPECIFICATION Spec
CONSTANTS
    Kinds = {"pool"}
    Thread = {"idle", "low", "mid", "high"}
    Idle = "idle"
    Wild = "wild"
    NPrio = 4
    Slice = 1
    Queue = {"sem", "m1", "mb", "mbs", "mq", "ev", "mp"}
    InitPrio <- MCInitPrio
    Sleepers = {"mid", "high"}
    MaxDelay = 1
    MaxWait = 1
    Flag = "PRIO"
    CarefulFlush = TRUE
    Consumers = {"mid", "high"}
    Producers = {"low"}
    Controllers = {"mid"}
    Msg = {"a", "b"}
    MsgFrom <- MCMsgFrom
    IsrMsg = "b"
    Watched = {"mid"}
    ValueMod = 3
    MaxCredit = 2
    MutexId = {"m1"}
    HoldMod = 3
    MaxHold = 2
    MailSize = 2
    MaxMsgs = 2
    EventBit = {1, 2}
    Request <- MCRequest
    Block = {"b1", "b2"}
    CarefulPool = FALSE
INVARIANT PoolCountExact
