CONSTANTS
    IntBits = 4
    FloatScale = 7
    Threshold = 2
    Values <- MCValues
SPECIFICATION Spec
INVARIANT RoundTrip
