\* A Java source or any sink is started again, twice, while the other program goes on;
\* they may then end up waiting for each other, their counts no longer agree.
CONSTANTS
    Capacity = 2
    Runs = 2
    Repetitions = 3
    SourceLangs = {"java"}
    SinkLangs = {"cpp", "java"}
    SinkFirst = TRUE
    Displays = "never"
    Restarting = {"source", "sink"}
    MaxSessions = 1
    MaxRestarts = 2
SPECIFICATION Spec
INVARIANTS CountersInOrder AtMostOnce
PROPERTY ConsumerOwnsHead
CHECK_DEADLOCK FALSE
