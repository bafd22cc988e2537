SPECIFICATION Spec
CONSTANTS
    Agents = {a1}
    Accepting = {a1}
    Configs = {v1, v2}
    Bad = {v2}
    None = None
    MaxActivations = 1
    MaxResyncs = 1
    MaxFaults = 1
    MaxBlips = 1
    MaxDrops = 1
    MaxWipes = 0
INVARIANT InSyncUnlessMissed
INVARIANT RowInSync
\* Once the operators are done and every agent is settled, nothing is left to do.
CHECK_DEADLOCK FALSE
