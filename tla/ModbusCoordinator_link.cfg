SPECIFICATION Spec
CONSTANTS
    Writers = {w1}
    Poller = poller
    Values = {0, 1}
    Default = 0
    MaxRetries = 1
    MaxGen = 2
    \* every failure in which the answer of the inverter, if there is one, is true
    Faults = {"busy", "reject", "lose", "reset", "refuse", "expire"}
INVARIANTS CommandTrue NothingFromBeforeRestart StaleIsReadAgain ClosedStaysClosed
