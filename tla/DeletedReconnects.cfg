SPECIFICATION Spec
CONSTANTS
    MaxCreates = 1
    MaxAsks = 2
    MaxCloses = 1
    MaxCrashes = 0
    MaxFaults = 0
    QrLimit = 1
    DelInstance = FALSE
    Serial = FALSE
    Prompt = TRUE
PROPERTY ReconnectsRegistered
