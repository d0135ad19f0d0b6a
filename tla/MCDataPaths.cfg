SPECIFICATION Spec
CONSTANTS
    Callers = {c1, c2, c3}
    MaxSessions = 3
    SessionFaults = {"drop", "limit", "odd"}
    Channels = {p1, p2}
    MaxDemand = 1
    MaxIncidents = 2
    MaxDays = 1
    MaxAge = 4
    WriteCalls = {w1, w2}
    WriteFaults = {"preread", "write", "verify", "deaf"}
    MaxWriteCalls = 2
    MaxOutages = 1
    DcStrings = {"s1", "s2"}
    MaxSettingAge = 3
    MaxPresses = 3
    Options = {"smart", "time"}
    SelectCalls = {s1, s2}
    MaxSelectAge = 2
    MaxSelects = 2
    Signatures = {"e1", "e2"}
    EventHistoryMax = 3
    Cooldown = 2
    ForgetAfter = 3
    MaxSnapshotAge = 2
    MaxPolls = 7
    NumberCalls = {n1}
    Limits = {1, 2}
    READBACK_ATTEMPTS = 1
    LeaseRetries = 1
    MaxEvents = 4
    MaxPublished = 2
    MaxBrokerLosses = 2
    ActiveFor = 2
    StaleAfter = 1
    MaxDangers = 1
    Shares = {0, 30, 60, 98}
    DC_SHARE_LONG_MAXLEN = 6
    DC_SHARE_SHORT_MAXLEN = 3
    DC_SHARE_MIN_SAMPLES = 5
    ShortMin = 2
    DailyValues = {1, 3}
    MAX_DAILY_SNAPSHOTS = 4
    BASELINE_DAYS = 2
    TrendDays = 3
    LastDay = 4
    DayCount = 2
INVARIANTS OneLoginPerCause ChannelsTrue ShownIsLive EventsOnce AgeingTrue
PROPERTIES RestWritesSafe PartWritesKeepRest OutcomesTrue BridgeWhole  StringFaultsSeen
CHECK_DEADLOCK FALSE
