SPECIFICATION Spec
INVARIANTS
    LoaderSafe
    BootSafe
    SpacesSafe
    SchedulerSafe
    AudioSafe
    KeyboardExact
    Ps2Exact
    UsbExact
PROPERTIES
    BootProgress
CHECK_DEADLOCK FALSE
