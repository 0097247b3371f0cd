------------------------------- MODULE MCTokens -------------------------------
(***************************************************************************)
(* An instance of TokenAccounts for TLC.                                   *)
(***************************************************************************)
EXTENDS TokenAccounts

CONSTANTS alice, bob, inbe, shovey, entity, crystal, tip, skin, island, gift1, gift2,
          old, older, sale1, wallet1

Received(a, app, n, source, ref) ==
    [acct |-> a, app |-> app, units |-> n, source |-> source, ref |-> ref]

\* Before there were lots, Alice bought three units and paid Entity for a skin,
\* and Bob bought two and paid Entity for the Island.
Past == <<Received(alice, shovey, 3, "google_play", old),
          Received(alice, entity, -1, "spend", <<crystal, skin>>),
          Received(bob, shovey, 2, "google_play", older),
          Received(bob, entity, -1, "unlock", island)>>

Sold == [s \in {old, older, sale1} |->
           IF s = old THEN [acct |-> alice, app |-> shovey, units |-> 3]
           ELSE IF s = older THEN [acct |-> bob, app |-> shovey, units |-> 2]
           ELSE [acct |-> alice, app |-> shovey, units |-> 2]]

\* The same for Alice alone.
AlicePast == SubSeq(Past, 1, 2)
AliceSold == [s \in {old, sale1} |-> Sold[s]]

Paid == [d \in {wallet1} |-> [acct |-> bob, units |-> 1]]
SkinShop == [action \in {crystal} |-> [app |-> shovey, key |-> skin, units |-> 1]]
IslandOnly == [p \in {island} |-> [app |-> shovey, prices |-> {1, 2}]]

\* Clients choose any key, that of a product or of an unlock too.
ClientKeys == {skin, UnlockKey(island)}
=============================================================================
