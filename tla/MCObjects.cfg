SPECIFICATION Spec
INVARIANTS
    ObjectsSafe
    TasksSafe
    NamesExact
    RegistryConsistent
PROPERTIES
    ObjectSteps
