SPECIFICATION Spec
CONSTANTS
    c1 = c1
    c2 = c2
    Convs = {c1, c2}
    Target = c1
    MaxMessages = 2
    MaxEffects = 2
    None = None
INVARIANTS
    TypeOK
    ShownOnce
    OthersBelong
    NothingMissedOnceOpen
    TargetStays
PROPERTIES
    ShownStays
