\* Two requests in flight at once, two users, one secret and the vault name, three generations.
SPECIFICATION Spec
CONSTANTS
    Users = {alice, bob}
    Creator = alice
    Secrets = {s1}
    Folders = {}
    Tags = {}
    VaultName = name
    Requests = {r1, r2}
    Roles = {"owner"}
    Handlers = {"open", "batch", "close", "create", "rename", "delete", "invite", "complete", "accept", "decline", "revoke", "role"}
    MaxVersion = 3
SYMMETRY Symmetry
INVARIANTS RowsStayOpenable MembersHoldLiveKeys RevokedHoldNoKey
PROPERTIES LiveKeysAreKept
CHECK_DEADLOCK FALSE
