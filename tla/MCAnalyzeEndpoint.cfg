SPECIFICATION Spec
CONSTANTS
    c1 = c1
    c2 = c2
    Clients <- MCClients
    Workloads <- AllWorkloads
    MaxAsks = 3
    MaxCrashes = 1
INVARIANTS
    TypeOK
    LostOnlyToOverlap
    SessionIsAHistory
    ArchivedWasStored
PROPERTIES
    PatientAccumulates
    ClientsAreAnswered
