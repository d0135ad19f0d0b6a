CONSTANTS
    BlockCalls = {b1}
    BlockKeepalive = keep
    GridCalls = {}
    GridLoops = {}
    GridSurplus = {0, 2}
    SocCalls = {s1, s2}
    SocLoops = {sl1}
    MaxFails = 2
    Suites = {}
    Phases <- MCPhases
    TestLimit = 20
    MaxKaFails = 2
    ProxyRequests = {}
    MqttCommands = {}
    ExtWatts = {3}
    Tasks <- MCTasks
    DeviceLimit = 10
    UserLimit = 7
    Caps = {}
    MaxRetries = 0
    Faults = {}
    Habits = {"overlap"}
    MayUnload = TRUE
SPECIFICATION FairSpec
PROPERTY LoopsEndWhenClosed
CHECK_DEADLOCK FALSE
