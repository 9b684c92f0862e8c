SPECIFICATION Safety
CONSTANTS
    Pods = {p1}
    Migrators = {m1}
    MaxVersion = 1
    Environments <- AllEnvironments
    None = None
INVARIANT DirtyNeverServes
