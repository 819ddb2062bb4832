SPECIFICATION FairSpec
CONSTANTS
    e1 = e1
    e2 = e2
    e3 = e3
    r1 = r1
    r2 = r2
    None = None
    Events <- Two
    Instances <- TwoReplicas
    Skip = {}
    MaxRuns = 4
    MaxParts = 1
    MaxStops <- FirstStops
    MaxFaults = 0
    MaxCancels = 1
    Serial = TRUE
    Prompt = TRUE
PROPERTIES
    DebounceEnds
