SPECIFICATION Spec
CONSTANTS
    Machines = {m1, m2}
    Original = m1
    Processes = {p1, p2}
    Legacy = {p2}
    Serials = {s1, s2}
    MachineIDs = {i1, i2}
    None = None
    Disturbances = {"database", "drop", "reset", "hardware", "spelling"}
    MaxFaults = 1
SYMMETRY Symmetry
INVARIANTS TypeOK StrangersRefused RowStaysInLineage
CHECK_DEADLOCK FALSE
