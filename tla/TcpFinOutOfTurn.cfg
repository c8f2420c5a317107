SPECIFICATION Spec
INVARIANT StreamIntact
CHECK_DEADLOCK FALSE
