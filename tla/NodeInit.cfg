SPECIFICATION Spec
CONSTANTS
    x = x
    y = y
    z = z
    Addresses <- MCAddresses
    Alloc <- MCAlloc
    ProvidedKey = FALSE
    MaxFaults = 3
INVARIANTS
    TypeOK
    
    AllocatedBeforeGenesis
