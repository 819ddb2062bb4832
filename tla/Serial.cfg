SPECIFICATION FairSpec
CONSTANTS
    e1 = e1
    e2 = e2
    e3 = e3
    r1 = r1
    r2 = r2
    None = None
    Events <- Three
    Instances <- TwoReplicas
    Skip = {e1}
    MaxRuns = 4
    MaxParts = 2
    MaxStops <- NoStops
    MaxFaults = 0
    MaxCancels = 0
    Serial = TRUE
    Prompt = TRUE
INVARIANTS
    AnsweredOnce
PROPERTIES
    MessageAnswered
