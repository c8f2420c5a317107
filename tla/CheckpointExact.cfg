CONSTANTS
    TableCount = 2
    TableData = {zeros, records}
    Blank = zeros
    Torn = torn
    LossyDevice = FALSE
    MaxGeneration = 4
    CandidateGenerations = {}
SPECIFICATION Spec
PROPERTIES
    RestoredNeverRegresses
    ImplementsRegister
    WriterFinishes
