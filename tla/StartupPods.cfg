SPECIFICATION Spec
CONSTANTS
    Pods = {p1}
    Migrators = {m1, m2}
    MaxVersion = 2
    Environments <- AllEnvironments
    None = None
INVARIANT TypeOK
INVARIANT GateSeesWholeSchema
INVARIANT ResourcesHeld
INVARIANT KeySourceSafe
PROPERTY StartupDecides
