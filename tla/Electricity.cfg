SPECIFICATION Spec
CONSTANTS
    Nil = Nil
    Handlers = {h1, h2}
    Meters = {2}
    Plugs = {1}
    Watts = {2}
    MeterWatts = {1}
    Totals = {1}
    Staleness = 1
    MaxGap = 1
    MaxLag = 1
    MaxSkew = 1
    ClockMax = 2
CHECK_DEADLOCK FALSE
SYMMETRY HandlerSymmetry
INVARIANTS Additive NoDoubleCount
PROPERTIES OnTimeMeterTickCounts
