SPECIFICATION Spec
CONSTANTS
    Helper = h
    Conn = {h, x, y}
    MaxInFlight = 2
    Maximum = 1
    MaxFaults = 1
CHECK_DEADLOCK FALSE
INVARIANTS
    BrokerSafe
    SuccessIsWhole
    NothingLeft
PROPERTIES
    NobodyWaits
