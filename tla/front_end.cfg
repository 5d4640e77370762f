SPECIFICATION FairSpec
CONSTANTS
    LiteralBits = 6
    MaxDigits = 3
    EXP10_MIN <- MinusFour
    EXP10_MAX = 4
    Cases <- AllCases
INVARIANTS
    TypeOK
    TokensAreTheText
    ReadsWhatIsWritten
    RecoversAtSemicolon
    StaysInside
    NothingIsLost
    NothingIsLostSilently
    LiteralsAreExact
PROPERTY EndsUnlessStrange
CHECK_DEADLOCK FALSE
