\* Nothing orders the start of the two Java programs.
CONSTANTS
    Capacity = 2
    Runs = 2
    Repetitions = 3
    SourceLangs = {"java"}
    SinkLangs = {"java"}
    SinkFirst = FALSE
    Displays = "never"
    Restarting = {}
    MaxSessions = 1
    MaxRestarts = 0
SPECIFICATION FairSpec
PROPERTY SessionCompletes
