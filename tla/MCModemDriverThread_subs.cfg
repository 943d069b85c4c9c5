\* Subscriptions and publications in every order, one restart.
SPECIFICATION Spec
CONSTANTS
    m1 = m1
    m2 = m2
    s1 = s1
    s2 = s2
    Unset = Unset
    Query = Query
    ModemId = 17
    SubnetSize = 16
    Dests = {16, 18, 35}
    BufferIds = {"pose"}
    SubscriptionKey = "subscription"
    Data = {m1, m2, s1}
    Messages = {m1, m2}
    DataSize <- MCDataSize
    BufferOf <- OneBuffer
    DefaultConfig <- MCDefaultConfig
    PublisherCfg <- TwoPublishers
    SubscriberCfgs <- TwoSubscribers
    SubscriptionCfg <- MCSubscriptionCfg
    AckTimeout = 0
    MaxFrameBytes = 1
    SlotFrames = {1}
    SlotDests = {Query}
    MaxTime = 2
    LastPublish = 2
    MaxFrame = 0
    MaxChanges = 3
    MaxRestarts = 1
INVARIANTS TypeOK BuffersMatchSubscriptions NoCreateOrPushThrows
CHECK_DEADLOCK FALSE

