SPECIFICATION FairSpec
CONSTANTS
    s1 = s1
    s2 = s2
    s3 = s3
    p1 = p1
    p2 = p2
    Signals <- MCSignals
    Producers <- MCProducers
    QueueMax = 1
    MaxRestarts = 1
    None = None
INVARIANTS
    OvershootBounded
    NothingEvicted
    AtMostOneDuplicate
PROPERTIES
    FallbackDrained
