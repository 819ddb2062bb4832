SPECIFICATION Spec
CONSTANTS
    e1 = e1
    e2 = e2
    e3 = e3
    r1 = r1
    r2 = r2
    None = None
    Events <- Two
    Instances <- TwoReplicas
    Skip = {}
    MaxRuns = 4
    MaxParts = 1
    MaxStops <- FirstStops
    MaxFaults = 1
    MaxCancels = 0
    Serial = FALSE
    Prompt = TRUE
INVARIANTS
    TypeOK
    MutualExclusion
    AdvancedOnce
    SnapshotComplete
    QuietPeriodKept
SYMMETRY Symmetry
