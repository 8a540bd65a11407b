SPECIFICATION Spec
CONSTANTS
    A = A
    B = B
    r1 = r1
    r2 = r2
    r3 = r3
    r4 = r4
    Replicas = {A, B}
    Requests = {r1, r3}
    Home <- TwoReplicas
    NoRequest = NoRequest
    MaxRounds = 3
    MaxClaims = 2
    MaxEvictions = 0
    MaxCrashes = 0
    MaxCuts = 0
    MaxFailures = 0
    ClientsLeave = TRUE
    WaitBudget = FALSE
INVARIANTS OneLoader
CHECK_DEADLOCK FALSE
