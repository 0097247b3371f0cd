SPECIFICATION OperationsSpec
CONSTANTS
    game = game  coll = coll  d0 = d0  d1 = d1  d2 = d2  d3 = d3  d4 = d4
    c1 = c1  c2 = c2  p1 = p1  p2 = p2  x = x  y = y  z = z  m1 = m1  m2 = m2
    kIssuer = kIssuer  waozi = waozi  issuer = issuer  rpc = rpc  dRpc = dRpc
    red = red  blue = blue  i1 = i1  i2 = i2  oqs = oqs  other = other
    lumi = lumi  bot = bot  menu = menu  text = text  r1 = r1  r2 = r2
    Apps = {game, coll}
    Digests = {d0, d1, d2, d3, d4, c1, c2}
    Portable = {d0, d4}
    Publishers = {p1, p2}
    Offers <- OfferedReleases
    LegacyOffers <- LegacyOffered
    Staged <- StoresBefore
    Unreadable <- MaybeUnread
    Retained = 2
    MaxStops = 1
    Objects <- MirrorObjects
    Size <- MirrorSize
    MaxArtifact = 2
    MaxMirror = 2
    Mirrors = {m1, m2}
    Names = {kIssuer, waozi, issuer, rpc, dRpc}
    Values = {red, blue}
    Settings = {kIssuer, waozi, issuer, dRpc}
    Ksync <- KsyncNames
    Renamed <- RenamedNames
    Deployed <- DeployedSettings
    MaxLines = 4
    Inputs = {i1, i2}
    MaxVersion = 3
    Sources = {oqs, other}
    Pinned <- PinnedSource
    WithToken = {1, 3}
    MayDie = {0}
    Bots = {lumi, bot}
    Lumi = lumi
    Fields = {menu, text}
    BotRuns = {r1, r2}
INVARIANTS
    OperationsTypeOK
    OffersServed DependenciesServed LegacyServed SpaceCounted NativeFresh
    RunsWhole RollbackRestores AcceptedKept BuiltFromPinned
    VerdictHolds OtherBotsUntouched
PROPERTIES
    NoRollback FormatsRetained SettingsKept DeployedOnce OutageEnds
CHECK_DEADLOCK FALSE
