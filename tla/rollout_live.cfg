SPECIFICATION LiveSpec
CONSTANTS
    Agents = {a1, a2}
    Accepting = {a1}
    Configs = {v1, v2}
    Bad = {v2}
    None = None
    MaxActivations = 1
    MaxResyncs = 0
    MaxFaults = 0
    MaxBlips = 0
    MaxDrops = 1
    MaxWipes = 1
INVARIANTS TypeOK AppliedIsLive
PROPERTY Converges
\* Once the operators are done and every agent is settled, nothing is left to do.
CHECK_DEADLOCK FALSE
