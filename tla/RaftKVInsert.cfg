CONSTANTS
    SystemLow = 10
    SystemHigh = 12
    Connections = {1, 2}
    None = None
    Scenarios <- MCScenarios
    System = 11
    Tables <- MCTables
    TableSize = 2
    MaxRequests = 2
    MaxLog = 2
    MaxClients = 2
SPECIFICATION Spec
INVARIANTS InsertNeverOverwrites
CHECK_DEADLOCK FALSE
