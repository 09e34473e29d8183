\* Three producers race each other and the consumer.
SPECIFICATION FairSpec
CONSTANTS
    Producers = {p1, p2, p3}
    Consumer = consumer
    Free = free
    Null = null
    MaxEnqueues = 2
INVARIANTS
    TokenAccounting
    NeverPopsEmpty
    DequeAccessExclusive
PROPERTIES
    ImplementsChannel
    PostedIsTaken
