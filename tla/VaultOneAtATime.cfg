\* Requests served strictly one after another: three users, a secret and a folder.
SPECIFICATION Spec
CONSTANTS
    Users = {alice, bob, carol}
    Creator = alice
    Secrets = {s1}
    Folders = {f1}
    Tags = {}
    VaultName = name
    Requests = {r1}
    Roles = {"owner", "editor"}
    Handlers = {"open", "batch", "close", "create", "rename", "delete", "invite", "complete", "accept", "decline", "revoke", "role"}
    MaxVersion = 2
INVARIANTS AnActiveOwnerRemains
PROPERTIES ImplementsTwoGenerations
CHECK_DEADLOCK FALSE
