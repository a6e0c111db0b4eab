\* The producer or the consumer asks for the size.
CONSTANTS
    w1 = w1
    zero = zero
    a = a
    Unread = Unread
    Dropped = Dropped
    Zero = zero
    Words <- MCWords
    Values = {zero, a}
    Messages <- MCMessages
    Capacity = 4
    MaxOffers = 9
    MaxCrashes = 0
    Callers = {"producer", "consumer"}
SPECIFICATION SizeSpec
PROPERTY SizeWasTrue
