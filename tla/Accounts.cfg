\* One account: two sessions, two codes, two requests at a time, a password changed once; and two
\* accounts with two pages, two passwords, two sessions and two requests on their way.
SPECIFICATION SumSpec
CONSTANTS
    SessionIds = {s1, s2}
    Codes = {c1, c2}
    Requests = {r1, r2}
    Anyone = s1
    NoCode = NoCode
    MaxPassword = 2
    MaxFactor = 2
    MaxStep = 2
    Budget = 4
    MaxSessions = 2
    MaxCalls = 2
SYMMETRY Symmetry
CONSTRAINT WithinBudget
INVARIANTS SessionsKnowThePassword BackupCodesServeOnce StepsServeOnce CodesBelongToTheFactor
    PasswordOpensTheAccount
CHECK_DEADLOCK FALSE
