SPECIFICATION Spec
CONSTANTS
    x = x
    y = y
    z = z
    Addresses <- MCAddresses
    Alloc <- MCAlloc
    ProvidedKey = FALSE
    MaxFaults = 1
PROPERTY
    RerunCompletes
