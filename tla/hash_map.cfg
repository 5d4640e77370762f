SPECIFICATION Spec
CONSTANTS
    a = a
    b = b
    c = c
    Keys <- CollidingKeys
    Values = {u, v}
    Hashes <- CollidingHashes
    FirstCapacity = 2
    MaxCapacity = 8
    MaxLen = 5
INVARIANTS
    TypeOK
    KeysAreFindable
    AlwaysRoom
    HandleIsGood
PROPERTIES
    GrowthEnds
    
CHECK_DEADLOCK FALSE
