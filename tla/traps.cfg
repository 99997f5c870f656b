SPECIFICATION FairSpec
CONSTANTS
    Handle = {"a"}
    Context = {"c", "d"}
    Thread = {"t", "u"}
    Triggers <- OneHandle
    MaxMessages = 1
    MaxCalls = 5
INVARIANTS NoLostEvent ReadyExact CancelledIsLast
PROPERTIES DisarmAnnounced CancelDelivered CallsReturn
CHECK_DEADLOCK FALSE
