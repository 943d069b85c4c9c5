\* A subscriber without a timeout that also publishes, and a publisher with one; two stores.
SPECIFICATION FairSpec
CONSTANTS
    t1 = t1
    t2 = t2
    c1 = c1
    c2 = c2
    s1 = s1
    s2 = s2
    Threads = {t1, t2}
    Channels = {c1, c2}
    Stores = {s1, s2}
    StoreOf <- TwoStores
    Timed = {t2}
    MaxPublications <- PubPoll
    MaxSubscribes <- SubPoll
    MaxPerChannel = 1
    MaxSpurious = 1
INVARIANTS TypeOK NoLostWakeup PublishesUnlocked
PROPERTIES MailboxSpec Delivered
CHECK_DEADLOCK FALSE
