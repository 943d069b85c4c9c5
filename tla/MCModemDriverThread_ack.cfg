\* A message, acked or not as its subscribers ask, two subscriptions of this
\* vehicle with room for one, two peers, slots of one and of two frames.
SPECIFICATION FairSpec
CONSTANTS
    m1 = m1
    m2 = m2
    s1 = s1
    s2 = s2
    Unset = Unset
    Query = Query
    ModemId = 17
    SubnetSize = 16
    Dests = {18, 19}
    BufferIds = {"pose"}
    SubscriptionKey = "subscription"
    Data = {m1, s1, s2}
    Messages = {m1}
    DataSize <- MCDataSize
    BufferOf <- OneBuffer
    DefaultConfig <- MCDefaultConfig
    PublisherCfg <- DeepPublisher
    SubscriberCfgs <- TwoSubscribers
    SubscriptionCfg <- FullSubscriptionCfg
    AckTimeout = 0
    MaxFrameBytes = 1
    SlotFrames = {1, 2}
    SlotDests = {Query}
    MaxTime = 3
    LastPublish = 1
    MaxFrame = 1
    MaxChanges = 2
    MaxRestarts = 0
INVARIANTS AckMeansReceived NoSilentLoss UnackedSentOnce
PROPERTY EventuallyLeaves
