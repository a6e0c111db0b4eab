\* Two processes start at once.
CONSTANTS
    Processes = {p1, p2}
    Blocks = 2
    OneAtATime = FALSE
    MaxStarts = 2
    MaxKills = 0
SPECIFICATION Spec
INVARIANT NothingWiped
CHECK_DEADLOCK FALSE
