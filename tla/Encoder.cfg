\* Slow wheels, with counters reset at rest, across the wrap of a counter; fast
\* wheels, with any levels at the start, and encoders stopped and started.
CONSTANTS
    Byte = 2
    SlowEdges = 4
    FastEdges = 3
SPECIFICATION Spec
INVARIANTS EdgesCounted NeverOvercounts
