CONSTANTS
    People = {u1, u2}
    Clients = {c1}
    Handlers = {r1, r2}
    MaxSecrets = 3
    MaxRoles = 2
    MaxCalls = 5
    MaxFaults = 1
    None = None
SPECIFICATION AccSpec
INVARIANTS AdminExists SecretsUsedOnce LastSecretWorks
CHECK_DEADLOCK FALSE
