\* Four lines, enough messages to go round the ring, one death of a process.
CONSTANTS
    w1 = w1
    w2 = w2
    zero = zero
    a = a
    b = b
    Unread = Unread
    Dropped = Dropped
    Zero = zero
    Words <- MCWords
    Values <- MCValues
    Messages <- MCMessages
    Capacity = 4
    MaxOffers = 5
    MaxCrashes = 1
SPECIFICATION FairSpec
INVARIANTS TypeOK CachesConservative ExclusiveLine NoTornRead InFlightIntact
PROPERTIES ImplementsFifo EverythingFlows
