SPECIFICATION HistorySpec
CONSTANTS
    Machines = {m1}
    Original = m1
    Processes = {p1}
    Legacy = {}
    Serials = {s1, s2}
    MachineIDs = {i1, i2}
    None = None
    Disturbances = {"drop", "reset", "hardware"}
    MaxFaults = 3
PROPERTY OneChangeAtATime
CHECK_DEADLOCK FALSE
