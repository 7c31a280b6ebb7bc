SPECIFICATION Spec
CONSTANTS
    f1 = f1
    f2 = f2
    f3 = f3
    p1 = p1
    ann = ann
    Files <- MCFiles
    Owner <- MCOneOwner
    Passes <- MCPasses
    MaxFilesPerOwner = 2
    ReapLimit = 1
    MaxCrashes = 1
INVARIANTS
    TypeOK
    NoOrphan
    NewestKept
PROPERTIES
    ExpiredIsRemoved
