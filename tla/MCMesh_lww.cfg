SPECIFICATION FairSpec
CONSTANTS
    n1 = n1  n2 = n2  n3 = n3  k1 = k1  k2 = k2  alice = alice  bob = bob  app1 = app1
    Nodes = {n1, n2}
    Accounts = {alice}
    Keys = {k1}
    Owner <- OneOwner
    App <- OneApp
    InitialApps <- AppsEverywhere
    Peers <- Mutual
    Policy <- Unfiltered
    Skew <- NoSkew
    Ranks = {1}
    Legacy = {}
    Drift = 1
    Second = 2
    Quota = 0
    Batch = 1
    MaxPages = 2
    Requests = {"write", "tombstone"}
    UniqueTimes = TRUE
    MaxTime = 1
    MaxRequests = 3
    MaxFailures = 1
    MaxLog = 20
INVARIANTS TypeOK CursorSound ReadersAgree
PROPERTIES NeverOlder Converges KeepsNewest NewestWins
CHECK_DEADLOCK FALSE
