SPECIFICATION Spec
CONSTANTS
    Topic = {"gate", "dev"}
    NoTopic = "none"
    Gate = "gate"
    Interval = 1
    Threshold = 2
    TickMod = 5
    ConnectAt = {0, 3}
    MaxSend = 1
    MaxInbox = 2
    MayFail = TRUE
    Capacity = 2
    DestroyAt = {1, 2}
INVARIANT DispatchExact
