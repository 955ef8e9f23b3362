SPECIFICATION Spec
CONSTANTS
    MaxClients = 2
    InterfaceVersion <- MCVersions
    CallbackSets <- MCCallbacks
    Requests <- MCRequests
    MaxRequests = 2
    Stallers = {1}
    MaxStalls = 1
    MaxGlobals = 1
    MaxEvents = 2
CHECK_DEADLOCK FALSE
INVARIANTS FreedNeverDispatched SyncAnswered RegistryKnows
PROPERTY BlockedOutputDrains
