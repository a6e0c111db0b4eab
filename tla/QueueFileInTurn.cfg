\* Three processes start, stop and start again; calls of mapProducerBuffer do
\* not overlap, processes that wait for the file map it at any time, and two may
\* be killed on the way.
CONSTANTS
    Processes = {p1, p2, p3}
    Blocks = 2
    OneAtATime = TRUE
    MaxStarts = 5
    MaxKills = 2
SPECIFICATION FairSpec
INVARIANTS StartsSucceed SameFile NothingWiped
PROPERTY WaitEnds
CHECK_DEADLOCK FALSE
