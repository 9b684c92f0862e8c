SPECIFICATION Spec
CONSTANTS
    Pods = {p1, p2}
    Parties = {r1}
    Settings <- MCSettings
    MaxKeys = 2
INVARIANT TypeOK
INVARIANT StaleWithinMaxAge
INVARIANT OneKeySetPublished
PROPERTY NewDocumentsArrive
