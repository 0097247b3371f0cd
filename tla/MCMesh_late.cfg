SPECIFICATION Spec
CONSTANTS
    n1 = n1  n2 = n2  n3 = n3  k1 = k1  k2 = k2  alice = alice  bob = bob  app1 = app1
    Nodes = {n1, n2}
    Accounts = {alice}
    Keys = {k1}
    Owner <- OneOwner
    App <- OneApp
    InitialApps <- AppsEverywhere
    Peers <- Mutual
    Policy <- Unfiltered
    Skew <- NoSkew
    Ranks = {1}
    Legacy = {}
    Drift = 0
    Second = 1
    Quota = 0
    Batch = 2
    MaxPages = 2
    Requests = {"write", "unregister", "delayed"}
    UniqueTimes = FALSE
    MaxTime = 0
    MaxRequests = 4
    MaxFailures = 0
    MaxLog = 5
INVARIANTS DeletedAccountsStayEmpty
CHECK_DEADLOCK FALSE
