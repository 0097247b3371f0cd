SPECIFICATION FairSpec
CONSTANTS
    n1 = n1  n2 = n2  n3 = n3  k1 = k1  k2 = k2  alice = alice  bob = bob  app1 = app1
    Nodes = {n1, n2, n3}
    Accounts = {alice}
    Keys = {k1}
    Owner <- OneOwner
    App <- OneApp
    InitialApps <- AppsAtFirst
    Peers <- Line
    Policy <- WithRegistry
    Skew <- NoSkew
    Ranks = {1}
    Legacy = {k1}
    Drift = 0
    Second = 2
    Quota = 0
    Batch = 2
    MaxPages = 2
    Requests = {"write", "install"}
    UniqueTimes = TRUE
    MaxTime = 0
    MaxRequests = 3
    MaxFailures = 1
    MaxLog = 20
PROPERTIES CatchesUp
CHECK_DEADLOCK FALSE
