SPECIFICATION FairSpec
CONSTANTS
    Instances = {i1}
    Openers = {o1}
    Conns = {c1, c2}
    None = None
    Disturbances = {"write", "stall", "dial", "break", "control", "silent", "shutdown"}
    MaxFaults = 2
PROPERTIES AskedComesUp QuietParks
CHECK_DEADLOCK FALSE
