SPECIFICATION Spec
CONSTANTS
    n1 = n1  n2 = n2  n3 = n3  k1 = k1  k2 = k2  alice = alice  bob = bob  app1 = app1
    Nodes = {n1, n2}
    Accounts = {alice}
    Keys = {k1, k2}
    Owner <- OneOwner
    App <- OneApp
    InitialApps <- AppsEverywhere
    Peers <- Mutual
    Policy <- Unfiltered
    Skew <- NoSkew
    Ranks = {1}
    Legacy = {}
    Drift = 0
    Second = 1
    Quota = 1
    Batch = 2
    MaxPages = 2
    Requests = {"write", "tombstone", "clear", "resync", "register", "unregister", "delayed"}
    UniqueTimes = FALSE
    MaxTime = 0
    MaxRequests = 3
    MaxFailures = 0
    MaxLog = 3
INVARIANTS VersionsUnique WithinQuota
PROPERTIES DeletedAccountsNotRevived
CHECK_DEADLOCK FALSE
SYMMETRY Interchangeable
