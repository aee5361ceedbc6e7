\* An address is invited after it has registered and before it is verified.
SPECIFICATION FairSpec
CONSTANTS
    Vaults = {home}
    Invites = {i1}
    Links = {l1}
    Requests = {r1}
    Anyone = home
PROPERTY WaitingIsAnswered
CHECK_DEADLOCK FALSE
