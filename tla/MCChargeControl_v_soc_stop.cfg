CONSTANTS
    BlockCalls = {}
    BlockKeepalive = keep
    GridCalls = {}
    GridLoops = {}
    GridSurplus = {0, 2}
    SocCalls = {s1}
    SocLoops = {sl1, sl2}
    MaxFails = 2
    Suites = {}
    Phases <- MCPhases
    TestLimit = 20
    MaxKaFails = 2
    ProxyRequests = {}
    MqttCommands = {}
    ExtWatts = {3}
    Tasks <- MCTasks
    DeviceLimit = 10
    UserLimit = 7
    Caps = {}
    MaxRetries = 0
    Faults = {}
    Habits = {}
    MayUnload = FALSE
SPECIFICATION Spec
INVARIANTS LimitsRestored
CHECK_DEADLOCK FALSE
