SPECIFICATION Spec
INVARIANTS
    PortExact
    ProbesHonest
    StreamExact
PROPERTIES
    NetworkProgress
CHECK_DEADLOCK FALSE
