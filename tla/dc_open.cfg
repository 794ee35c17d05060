SPECIFICATION Spec
CONSTANTS
    Instances = {i1, i2}
    Openers = {o1, o2}
    Conns = {c1, c2}
    None = None
    Disturbances = {"write", "stall", "dial", "break", "control", "silent", "shutdown"}
    MaxFaults = 1
SYMMETRY Symmetry
INVARIANTS TypeOK NoLostWaiter MapIsServed IdleCloseInvisible
PROPERTY OnlyDeadLeave
CHECK_DEADLOCK FALSE
