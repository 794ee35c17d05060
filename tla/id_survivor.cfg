SPECIFICATION FairSpec
CONSTANTS
    Machines = {m1}
    Original = m1
    Processes = {p1, p2}
    Legacy = {}
    Serials = {s1}
    MachineIDs = {i1}
    None = None
    Disturbances = {"drop", "drift", "database"}
    MaxFaults = 2
PROPERTIES SurvivorAdmitted 
CHECK_DEADLOCK FALSE
