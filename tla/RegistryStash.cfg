SPECIFICATION Spec
CONSTANTS
    NULL = NULL
    Empty = Empty
    pA = pA
    pB = pB
    Packages <- MCPackages
    VirtualDevices <- MCVirtualDevices
    MaxInstances = 3
    MaxTries = 2
SYMMETRY PackageSymmetry
PROPERTIES
    StashedAfterGet
