CONSTANTS
    t1 = t1
    t2 = t2
    t3 = t3
    a = a
    b = b
    None = None
    Thread <- ThreeThreads
    Item = {a, b}
    QMax = 2
VIEW AnyItemInHand
SPECIFICATION FairSpec
INVARIANTS
    CountersAgree
    NoLostItem
    NoLostRoom
    NoMissedEnd
PROPERTIES
    CompletionIsQuiescent
    Delivery
    CancelReturns
