\* One address, two vaults that invite it, two invitations and two links, two requests at a time.
SPECIFICATION Spec
CONSTANTS
    Vaults = {home, work}
    Invites = {i1, i2}
    Links = {l1, l2}
    Requests = {r1, r2}
    Anyone = home
SYMMETRY Symmetry
INVARIANTS SharedOnlyWithVerified ReadyMeansRegistered AtMostOneLive
PROPERTIES OnlyOverlapsReopen VerifiedByAnOutstandingLink
CHECK_DEADLOCK FALSE
