SPECIFICATION Spec
INVARIANTS
    BoundarySafe
    IpcExact
    ServicesSafe
    SessionsSafe
PROPERTIES
    ProcessSteps
    ProcessProgress
CHECK_DEADLOCK FALSE
