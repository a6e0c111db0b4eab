\* Two stores anywhere in a file whose array has two lines.
CONSTANTS
    LineLength = 16
    HeaderLines = 1
    Lines = 2
    Indexes = {0, 4, 14}
    Lengths = {0, 3}
    Orders = {"plain", "native"}
    MaxPuts = 2
SPECIFICATION Spec
INVARIANT RoundTrip
