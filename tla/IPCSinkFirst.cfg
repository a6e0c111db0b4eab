\* Sessions in the order of the integration tests, all but the last cut short
\* anywhere, in every combination of languages.
CONSTANTS
    Capacity = 4
    Runs = 2
    Repetitions = 5
    SourceLangs = {"cpp", "java"}
    SinkLangs = {"cpp", "java"}
    SinkFirst = TRUE
    Displays = "alone"
    Restarting = {}
    MaxSessions = 2
    MaxRestarts = 0
SPECIFICATION FairSpec
INVARIANTS TypeOK ReadsThisRun NoOrderErrors AtMostOnce CountersInOrder
PROPERTIES KeepsPromise ConsumerOwnsHead SessionCompletes
