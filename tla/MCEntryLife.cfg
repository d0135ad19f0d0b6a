SPECIFICATION Spec
CONSTANTS
    MaxInputs = 2
    MAX_SANE_STRING_COUNT = 3
    Entries = {e1, e2}
    MaxExpired = 1
    MaxSetups = 2
    Hosts = {"h1", "h2"}
    Flows = {f1, f2}
    EntryIds = {1, 2, 3}
    MaxMigrations = 5
    LegacyIds = {"l1", "l2"}
    KoreIds = {"k1"}
    Starts = {1, 2}
    UnitsOf = {"W", "kWh"}
    MaxCopies = 1
    Mappings <- MCMappings
    Clients = {c1, c2}
    Words = {1, 2}
    MaxProxyWrites = 2
    IsolationValues = {80, 1000, 60000}
    MaxSampleAge = 2
    MaxRestarts = 2
    GridKind <- MCGridKind
    Frequencies = {500}
    Voltages = {0, 120, 230}
    Temperatures = {}
    ErrorCounts = {6}
    Capacities = {1, 2}
    Closers = {"unload", "stop"}
    MaxChanges = 4
    MaxReloads = 2
    MaxIoErrors = 1
INVARIANTS  EntryWhole EntriesTested
PROPERTIES MigrationKeeps HistoryKept ProxyHonest HealthTrue SohKept
CHECK_DEADLOCK FALSE
