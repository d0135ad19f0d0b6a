SPECIFICATION Spec
CONSTANTS
    Callers = {c1, c2}
    MaxSessions = 2
    SessionFaults = {"drop", "limit", "odd"}
    Channels = {p1, p2}
    MaxDemand = 1
    MaxIncidents = 1
    MaxDays = 0
    WriteCalls = {w1}
    WriteFaults = {"preread", "write", "verify", "deaf"}
    MaxWriteCalls = 2
    MaxOutages = 1
    KsemReads = 2
    NumberCalls = {n1}
    Limits = {1, 2}
    READBACK_ATTEMPTS = 1
    LeaseRetries = 1
    MaxEvents = 3
    MaxToggles = 3
    MaxPublished = 2
    MaxBrokerLosses = 2
PROPERTIES LocksSound CyclicCommandsEnd RegistrySettles ConnectionsHeal
CHECK_DEADLOCK FALSE
