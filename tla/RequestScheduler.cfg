CONSTANTS
    RestTasks = {r1}
    ModbusTasks = {m1, m2, m3}
SPECIFICATION FairSpec
INVARIANTS LockInv
PROPERTY ImplementsGate
PROPERTY WaitersLeave
