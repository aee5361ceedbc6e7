\* A device that never refreshed saves a secret after a rotation has closed.
SPECIFICATION Spec
CONSTANTS
    Devices = {laptop, phone}
    Secrets = {s1}
    Names = {}
    VaultName = name
    BatchSize = 1
    MaxVersion = 2
    MaxRevision = 2
INVARIANT NothingIsStranded
CHECK_DEADLOCK FALSE
