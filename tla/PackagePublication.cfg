CONSTANTS
    Releases = {A}
    Blocks = {1, 2}
    MaxPackages = 2
    MaxGeneration = 4
    MaxEdits = 1
    LateErrors = TRUE
SPECIFICATION Spec
INVARIANT PublicationSafe
CHECK_DEADLOCK FALSE
