\* Room for two messages with their tails in the store buffer of the producer.
CONSTANTS
    w1 = w1
    zero = zero
    a = a
    b = b
    Unread = Unread
    Dropped = Dropped
    TailWord = TailWord
    Zero = zero
    Words <- MCWords
    Values <- MCValues
    Messages <- MCMessages
    Capacity = 4
    BufferSize = 4
    MaxOffers = 5
    MaxCrashes = 1
SPECIFICATION FairSpec
INVARIANTS TypeOK ViewsConservative NoLateWord NoTornRead
PROPERTIES ImplementsFifo EverythingFlows
