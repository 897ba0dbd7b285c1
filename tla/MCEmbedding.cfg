CONSTANTS
    r1 = r1  s1 = s1  s2 = s2
    Runs = {r1}
    Starters = {s1, s2}
    MaxChunks = 3
    BatchSize = 2
    MaxRetries = 1
    MaxStops = 2
SPECIFICATION Spec
INVARIANTS VectorsMatchChunks PointsAreIndexed
PROPERTY EveryRunEnds
CHECK_DEADLOCK FALSE
