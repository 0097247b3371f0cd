SPECIFICATION Spec
CONSTANTS
    alice = alice  bob = bob  inbe = inbe  shovey = shovey  entity = entity
    crystal = crystal  tip = tip  skin = skin  island = island  gift1 = gift1  gift2 = gift2  old = old  older = older  sale1 = sale1  wallet1 = wallet1
    Accounts = {alice, bob}
    Titles = {inbe, shovey, entity}
    Entity = entity
    Inbe = inbe
    Island = island
    History <- Past
    Shop <- SkinShop
    Sale <- Sold
    Deposit <- Paid
    Unlocks <- IslandOnly
    Keys <- ClientKeys
    Actions = {crystal, tip}
    GiftIds = {gift1, gift2}
    Amounts = {1, 2}
    MaxEntries = 8
INVARIANTS TypeOK AuditTrail BoughtStaysInTitle GiftsPaired ItemsChargedOnce UnlocksPaidFor
