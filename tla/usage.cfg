SPECIFICATION UsageLiveSpec
CONSTANTS
    None = None
    k1 = k1
    k2 = k2
    c1 = c1
    c2 = c2
    Keys = {k1}
    Calls = {c1, c2}
    Horizon = 3
    MaxFaults = 1
INVARIANTS UsageTypeOK UsageKept
PROPERTY UsageStored
