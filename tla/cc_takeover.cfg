SPECIFICATION Spec
CONSTANTS
    Instances = {i1}
    Agents = {a1, a2}
    Hosts = {h1}
    Sessions = {s1, s2}
    None = None
    Disturbances = {"drop", "rebind"}
    MaxFaults = 2
    MaxClaims = 3
PROPERTY OfflineIsTrue
CHECK_DEADLOCK FALSE
