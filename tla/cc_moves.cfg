SPECIFICATION FairSpec
CONSTANTS
    Instances = {i1}
    Agents = {a1}
    Hosts = {h1, h2}
    Sessions = {s1, s2}
    None = None
    Disturbances = {"drop", "merge", "delete", "age", "database", "evict", "die", "write"}
    MaxFaults = 2
    MaxClaims = 8

PROPERTIES LiveAgentSettles GoneAgentOffline
CHECK_DEADLOCK FALSE
