\* A C++ source is started again while the sink goes on.
CONSTANTS
    Capacity = 2
    Runs = 2
    Repetitions = 3
    SourceLangs = {"cpp"}
    SinkLangs = {"cpp"}
    SinkFirst = TRUE
    Displays = "never"
    Restarting = {"source"}
    MaxSessions = 1
    MaxRestarts = 1
SPECIFICATION Spec
PROPERTY ConsumerOwnsHead
