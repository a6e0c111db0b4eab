\* Eight-bit counters, three capacities, the line sizes of common machines.
CONSTANTS
    W = 8
    Capacities = {2, 4, 8}
    LineSizes = {64, 128}
SPECIFICATION Spec
INVARIANTS TestsExact LinesApart LinesInFile
