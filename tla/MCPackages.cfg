SPECIFICATION Spec
INVARIANTS
    WorldsSound
    GraphsSound
PROPERTIES
    PackageProgress
CHECK_DEADLOCK FALSE
