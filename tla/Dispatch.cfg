SPECIFICATION Spec
CONSTANTS
    MaxWords = 4
    MaxRunes = 3
    MaxLimit = 5
INVARIANTS
    PostedIsPrefix
    AtMostOnePartLate
    FewestParts
