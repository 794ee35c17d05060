SPECIFICATION Spec
CONSTANTS
    Instances = {i1}
    Agents = {a1, a2}
    Hosts = {h1, h2}
    Sessions = {s1, s2}
    None = None
    Disturbances = {"drop", "rebind", "merge", "refresh", "sign"}
    MaxFaults = 3
    MaxClaims = 3
SYMMETRY Symmetry
INVARIANTS TypeOK ConnectOrder OneLiveChannel NoDanglingHost OneValidToken
PROPERTY OfflineUnlessDetached
CHECK_DEADLOCK FALSE
