SPECIFICATION Spec
CONSTANTS
    Instances = {i1}
    Agents = {a1}
    Hosts = {h1}
    Sessions = {s1, s2}
    None = None
    Disturbances = {"drop", "age"}
    MaxFaults = 2
    MaxClaims = 4
INVARIANT EpochFollowsRow
CHECK_DEADLOCK FALSE
