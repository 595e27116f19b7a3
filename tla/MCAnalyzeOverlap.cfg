SPECIFICATION Spec
CONSTANTS
    c1 = c1
    c2 = c2
    Clients <- MCClients
    Workloads <- OverlappingWorkload
    MaxAsks = 3
    MaxCrashes = 0
PROPERTIES
    Accumulates
