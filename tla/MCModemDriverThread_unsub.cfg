\* A peer unsubscribes before its ack arrives.
SPECIFICATION Spec
CONSTANTS
    m1 = m1
    m2 = m2
    s1 = s1
    s2 = s2
    Unset = Unset
    Query = Query
    ModemId = 17
    SubnetSize = 16
    Dests = {18}
    BufferIds = {"pose"}
    SubscriptionKey = "subscription"
    Data = {m1}
    Messages = {m1}
    DataSize <- MCDataSize
    BufferOf <- OneBuffer
    DefaultConfig <- MCDefaultConfig
    PublisherCfg <- AckPublisher
    SubscriberCfgs <- OneSubscriber
    SubscriptionCfg <- MCSubscriptionCfg
    AckTimeout = 0
    MaxFrameBytes = 1
    SlotFrames = {1}
    SlotDests = {Query}
    MaxTime = 3
    LastPublish = 2
    MaxFrame = 2
    MaxChanges = 2
    MaxRestarts = 0
INVARIANT NoEraseThrows
CHECK_DEADLOCK FALSE

