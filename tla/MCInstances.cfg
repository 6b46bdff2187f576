CONSTANTS
    Systems = {a, b, c}
    MaxStats = 5
    MaxCount = 1
SPECIFICATION Spec
INVARIANTS
    StatsAreOwn
    CountsAreOwn
SYMMETRY Symmetry
CHECK_DEADLOCK FALSE
