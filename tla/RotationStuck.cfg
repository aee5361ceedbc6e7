\* A run fails half-way, and the owner asks for the rotation again.
SPECIFICATION InsistentSpec
CONSTANTS
    Devices = {laptop, phone}
    Secrets = {s1}
    Names = {}
    VaultName = name
    BatchSize = 1
    MaxVersion = 2
    MaxRevision = 2
PROPERTY RotationFinishes
CHECK_DEADLOCK FALSE
