SPECIFICATION Spec
CONSTANTS
    A = A
    B = B
    r1 = r1
    r2 = r2
    r3 = r3
    r4 = r4
    Replicas = {A, B}
    Requests = {r1, r3, r4}
    Home <- TwoReplicas
    NoRequest = NoRequest
    MaxRounds = 3
    MaxClaims = 3
    MaxEvictions = 0
    MaxCrashes = 0
    MaxCuts = 1
    MaxFailures = 1
    ClientsLeave = FALSE
    WaitBudget = TRUE
PROPERTIES HealthyLoadNotRestarted
CHECK_DEADLOCK FALSE
