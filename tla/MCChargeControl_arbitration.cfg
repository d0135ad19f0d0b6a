CONSTANTS
    BlockCalls = {b1}
    BlockKeepalive = keep
    GridCalls = {g1}
    GridLoops = {gl1, gl2}
    GridSurplus = {0, 2}
    SocCalls = {}
    SocLoops = {}
    MaxFails = 2
    Suites = {}
    Phases <- MCPhases
    TestLimit = 20
    MaxKaFails = 2
    ProxyRequests = {p1}
    MqttCommands = {m1, m2}
    ExtWatts = {3}
    Tasks <- MCTasks
    DeviceLimit = 10
    UserLimit = 7
    Caps = {}
    MaxRetries = 1
    Faults = {"falter", "expire"}
    Habits = {}
    MayUnload = FALSE
SPECIFICATION Spec
INVARIANTS OneDriver OwnerPrevails
CHECK_DEADLOCK FALSE
