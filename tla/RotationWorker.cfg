\* Two devices, one secret, one folder; two rotations; two saves over the first.
SPECIFICATION FairSpec
CONSTANTS
    Devices = {laptop, phone}
    Secrets = {s1}
    Names = {f1}
    VaultName = name
    BatchSize = 1
    MaxVersion = 3
    MaxRevision = 3
INVARIANTS TypeOK QuietRowsOpen SavesSurvive
PROPERTIES RunEnds
CHECK_DEADLOCK FALSE
