SPECIFICATION AssemblerSpec
CONSTANTS
    Base = 6
    WordLen = 4
    Arguments = {100}
    MaxEmitted = 4
    MaxSymbols = 2
    Numbers <- Ns
    Texts <- AllTexts
INVARIANTS
    TypeOK
    ReadsBack
    LinksToTargets
    FailsOnDangling
    AcceptsWellFormed
    AssemblesWhatIsWritten
    DisassemblesInstructions
CHECK_DEADLOCK FALSE
