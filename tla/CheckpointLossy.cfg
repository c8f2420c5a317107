CONSTANTS
    TableCount = 1
    TableData = {zeros, records}
    Blank = zeros
    Torn = torn
    LossyDevice = TRUE
    MaxGeneration = 4
    CandidateGenerations = {1, 3}
SPECIFICATION Spec
INVARIANTS
    TypeOK
    AckedRecoverable
    CandidateReadableByIdentity
