SPECIFICATION FairSpec
CONSTANTS
    MaxCreates = 1
    MaxAsks = 3
    MaxCloses = 1
    MaxCrashes = 1
    MaxFaults = 1
    QrLimit = 1
    DelInstance = TRUE
    Serial = TRUE
    Prompt = TRUE
INVARIANTS
    RegistryMatchesTable
    NoZombie
    OneSocket
    OpenIsRecorded
PROPERTIES
    ConnectionRestored
