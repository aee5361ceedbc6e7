\* One request at a time: someone joins while a rotation runs.
SPECIFICATION Spec
CONSTANTS
    Users = {alice, bob}
    Creator = alice
    Secrets = {s1}
    Folders = {}
    Tags = {}
    VaultName = name
    Requests = {r1}
    Roles = {"owner", "editor"}
    Handlers = {"open", "batch", "close", "create", "rename", "delete", "invite", "complete", "accept", "decline", "revoke", "role"}
    MaxVersion = 2
INVARIANT EveryRowOpensForEveryMember
CHECK_DEADLOCK FALSE
