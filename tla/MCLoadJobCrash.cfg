SPECIFICATION Spec
CONSTANTS
    A = A
    B = B
    r1 = r1
    r2 = r2
    r3 = r3
    r4 = r4
    Replicas = {A, B}
    Requests = {r1, r2, r3}
    Home <- TwoReplicas
    NoRequest = NoRequest
    MaxRounds = 3
    MaxClaims = 3
    MaxEvictions = 1
    MaxCrashes = 1
    MaxCuts = 0
    MaxFailures = 1
    ClientsLeave = FALSE
    WaitBudget = TRUE
SYMMETRY Symmetry
INVARIANTS RowIsTheLoader
PROPERTIES NoRetryStorm
CHECK_DEADLOCK FALSE
