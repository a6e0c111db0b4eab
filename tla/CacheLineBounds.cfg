\* The bounds check is against the file, not the line.
CONSTANTS
    LineLength = 16
    HeaderLines = 1
    Lines = 2
    Indexes = {0, 4, 14}
    Lengths = {0, 3}
    Orders = {"plain", "native"}
    MaxPuts = 2
SPECIFICATION Spec
PROPERTY StaysInLine
