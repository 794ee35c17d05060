SPECIFICATION FairSpec
CONSTANTS
    Instances = {i1, i2}
    Agents = {a1}
    Hosts = {h1}
    Sessions = {s1, s2}
    None = None
    Disturbances = {"drop", "database", "crash", "age", "die", "lease", "shutdown", "evict"}
    MaxFaults = 2
    MaxClaims = 8

PROPERTIES OfflineUnlessDetached LiveAgentSettles GoneAgentOffline
CHECK_DEADLOCK FALSE
