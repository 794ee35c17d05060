SPECIFICATION FairSpec
CONSTANTS
    Instances = {i1}
    Agents = {a1}
    Hosts = {h1}
    Sessions = {s1, s2}
    None = None
    Disturbances = {"drop", "database"}
    MaxFaults = 2
    MaxClaims = 4
PROPERTY FailedClaimHeals
CHECK_DEADLOCK FALSE
