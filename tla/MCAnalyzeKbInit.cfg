SPECIFICATION Spec
CONSTANTS
    c1 = c1
    c2 = c2
    Clients <- MCClients
    Workloads <- PatientWorkload
    MaxAsks = 2
    MaxCrashes = 0
INVARIANTS
    KbFailureIsNotFatal
