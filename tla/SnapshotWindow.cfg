CONSTANTS
    Stores = 2
    MaxArms = 2
    MaxFaults = 3
SPECIFICATION Spec
INVARIANT WindowInv
