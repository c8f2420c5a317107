SPECIFICATION Spec
INVARIANTS
    SelfTestsExact
    DiscoveryExact
PROPERTIES
    StoreImplemented
    StorageProgress
CHECK_DEADLOCK FALSE
