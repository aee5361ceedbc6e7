\* A row is created while a rotation opens.
SPECIFICATION Spec
CONSTANTS
    Users = {alice, bob}
    Creator = alice
    Secrets = {s1}
    Folders = {}
    Tags = {}
    VaultName = name
    Requests = {r1, r2}
    Roles = {"owner", "editor"}
    Handlers = {"open", "batch", "close", "create", "rename", "delete", "invite", "complete", "accept", "decline", "revoke", "role"}
    MaxVersion = 2
INVARIANT NoRowIsWrittenBehind
CHECK_DEADLOCK FALSE
