----------------------------- MODULE MCOperations -----------------------------
(* An instance of Operations for TLC. *)
EXTENDS Operations

CONSTANTS game, coll, d0, d1, d2, d3, d4, c1, c2, p1, p2,   \* publications
          x, y, z, m1, m2,                                      \* the mirror
          kIssuer, waozi, issuer, rpc, dRpc, red, blue,         \* the environment
          i1, i2,                                               \* native inputs
          oqs, other,                                           \* liboqs sources
          lumi, bot, menu, text, r1, r2                         \* the bot

\* Four releases of a game, of which the first is portable and the third has the
\* bundle of the second, and three of a collection, of which the first needs that
\* bundle too.  The dependencies of the later ones only put them in an order.
GameRelease(seq, module, others, deps) ==
    [app |-> game, seq |-> seq, module |-> module, others |-> others, deps |-> deps]
CollRelease(seq, module, others, deps) ==
    [app |-> coll, seq |-> seq, module |-> module, others |-> others, deps |-> deps]

FirstGame == GameRelease(1, d0, {d4}, {})
SecondColl == CollRelease(2, c2, {}, {})
OfferedReleases ==
    {FirstGame, GameRelease(2, d1, {}, {}),
     GameRelease(3, d1, {}, {<<coll, c2>>}), GameRelease(4, d2, {}, {<<coll, c1>>}),
     CollRelease(1, c1, {}, {<<game, d1>>}), SecondColl,
     CollRelease(3, c1, {}, {<<game, d2>>})}
MaybeUnread == {SecondColl}

\* The second release of the game in format 1, with the same bundle.
SecondLegacy == [app |-> game, seq |-> 2, digest |-> d1]
LegacyOffered == {SecondLegacy}

\* A store with the game's first release where format 1 is at its end, and one
\* where the collection is.
StoresBefore ==
    {[latest |-> game :> {FirstGame} @@ coll :> {},
      legacy |-> game :> {[SecondLegacy EXCEPT !.digest = d3]} @@ coll :> {}],
     [latest |-> game :> {FirstGame} @@ coll :> {CollRelease(4, c1, {c2}, {})},
      legacy |-> [a \in {game, coll} |-> {}]]}
\* Two bundles that do not fit together, and one that is too large.
MirrorObjects == {<<game, x>>, <<game, y>>, <<coll, z>>}
MirrorSize == [o \in MirrorObjects |-> IF o[2] = x THEN 1 ELSE IF o[2] = y THEN 2 ELSE 3]

KsyncNames == kIssuer :> waozi
RenamedNames == waozi :> issuer @@ dRpc :> rpc
DeployedSettings == issuer :> blue

PinnedSource == [v \in 0..MaxVersion |-> oqs]
=============================================================================
