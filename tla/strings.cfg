SPECIFICATION Spec
CONSTANTS
    Memory = 39
    ElementSize = 4
    FirstCapacities = {0, 4, 9}
    Lengths = {0, 1, 3}
    Alignments = {1, 4}
    FileSizes = {0, 2, 7, 11}
    ReadChunk = 3
    MaxCalls = 4
INVARIANTS
    HoldsWhatWasPut
    RegionsApart
PROPERTIES
    ReadsFile
CHECK_DEADLOCK FALSE
