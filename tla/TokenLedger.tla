----------------------------- MODULE TokenLedger -----------------------------
(***************************************************************************)
(* The token ledger of a node (token_ledger.zi) and the allocation of its  *)
(* units to the titles they were bought for (token_allocation.zi), as      *)
(* operators on the value of their tables.                                 *)
(*                                                                         *)
(* A receipt is its position in the ledger, which is its sequence number.  *)
(* A credit opens a lot of units, which only its title may spend when it   *)
(* was bought in a store, and any title otherwise.  A debit consumes lots  *)
(* oldest first, and each unit it takes is traced to its lot.  Receipts    *)
(* from before the lots existed have none.                                 *)
(***************************************************************************)
EXTENDS Integers, Sequences, FiniteSets, Functions

CONSTANTS
    Accounts,  \* accounts (account_id)
    Titles,    \* titles (app_id)
    Entity,    \* the title the shop's purchases were once charged under
    History,   \* the ledger from before the lots existed
    Shop       \* Shop[action] = [app, key, units]: what the shop sells

\* The pool of the units that any title may spend, the lot of a unit that has
\* none, and the title of a receipt that has none.
Shared == "shared"
NoLot == 0
NoTitle == "no title"

ASSUME TokenLedgerAssumption ==
    /\ Entity \in Titles /\ Shared \notin Titles
    /\ \A action \in DOMAIN Shop :
          Shop[action].app \in Titles /\ Shop[action].units \in Nat \ {0}

With(f, x, value) == [y \in DOMAIN f \cup {x} |-> IF y = x THEN value ELSE f[y]]
Positive(n) == IF n > 0 THEN n ELSE 0

-----------------------------------------------------------------------------
(* Balances *)

Units(ledger) == [i \in DOMAIN ledger |-> ledger[i].units]

EntriesOf(b, a) == {i \in DOMAIN b.ledger : b.ledger[i].acct = a}
Total(b, a) == SumFunctionOnSet(Units(b.ledger), EntriesOf(b, a))

Left(b, lots) == SumFunctionOnSet([i \in DOMAIN b.lots |-> b.lots[i].left], lots)
\* Variant of Pool: the shared pool has no condition on the title.
PoolOfAny(b, a, title) ==
    {i \in DOMAIN b.lots : b.ledger[i].acct = a /\ title \in {Shared, b.lots[i].title}}
Pool(b, a, title) ==
    {i \in DOMAIN b.lots : b.ledger[i].acct = a /\ b.lots[i].title = title}
Scoped(b, a) ==
    Left(b, {i \in DOMAIN b.lots : b.ledger[i].acct = a /\ b.lots[i].title # Shared})

SharedUnits(b, a) == Total(b, a) - Scoped(b, a)
TitleUnits(b, a, title) == Left(b, Pool(b, a, title))

\* Only purchases inside a title spend what was bought for it.
MatchingApp(e) == IF e.source \in {"spend", "unlock"} THEN e.app ELSE Shared

Matching(b, a, title) ==
    IF title = Shared THEN 0 ELSE Positive(TitleUnits(b, a, title))
\* Variant of Spendable: what was bought for other titles is counted.
SpendableFromTotal(b, a, title) == Positive(Total(b, a))
Spendable(b, a, title) == Positive(SharedUnits(b, a)) + Matching(b, a, title)

-----------------------------------------------------------------------------
(* Lots.  i is the receipt of the credit or the debit, already in the ledger. *)

\* Takes n units from the lots of a pool, oldest first; what shared lots do not
\* cover was credited before the lots existed.
Consume(b, i, title, n) ==
    LET rich      == {l \in Pool(b, b.ledger[i].acct, title) : b.lots[l].left > 0}
        before(l) == Left(b, {k \in rich : k < l})
        taken     == [l \in rich |-> LET short == Positive(n - before(l))
                                     IN  IF short < b.lots[l].left THEN short ELSE b.lots[l].left]
        rest      == Positive(n - Left(b, rich))
        lots      == [l \in DOMAIN b.lots |->
                        IF l \in rich THEN [b.lots[l] EXCEPT !.left = @ - taken[l]] ELSE b.lots[l]]
        rows      == {[debit |-> i, credit |-> l, units |-> taken[l]] :
                        l \in {k \in rich : taken[k] > 0}}
                     \cup {[debit |-> i, credit |-> NoLot, units |-> rest] :
                              x \in {y \in {1} : rest > 0}}
    IN  [b EXCEPT !.lots = lots, !.traced = b.traced \cup rows]

\* Variant of Debited: the shared lots pay the whole debit again.
DebitedTwice(b, i, n) ==
    LET e     == b.ledger[i]
        title == MatchingApp(e)
        own   == IF Matching(b, e.acct, title) < n THEN Matching(b, e.acct, title) ELSE n
    IN  Consume(IF own > 0 THEN Consume(b, i, title, own) ELSE b, i, Shared, n)

\* A debit takes what it can from its title's own lots, and the rest shared.
Debited(b, i, n) ==
    LET e     == b.ledger[i]
        title == MatchingApp(e)
        own   == IF Matching(b, e.acct, title) < n THEN Matching(b, e.acct, title) ELSE n
    IN  Consume(IF own > 0 THEN Consume(b, i, title, own) ELSE b, i, Shared, n - own)

\* The receipt of a store purchase.
PurchaseOf(b, ref) ==
    CHOOSE i \in DOMAIN b.ledger :
        b.ledger[i].source = "google_play" /\ b.ledger[i].ref = ref /\ b.ledger[i].units > 0

\* What was refunded of a store purchase.
RefundsOf(b, ref) ==
    {i \in DOMAIN b.ledger :
        b.ledger[i].source = "google_play" /\ b.ledger[i].ref = ref /\ b.ledger[i].units < 0}
RefundedUnits(b, ref) == -SumFunctionOnSet(Units(b.ledger), RefundsOf(b, ref))

\* A refund takes from the purchase's own lot, spent or not.
Refunded(b, i, n) ==
    LET p == PurchaseOf(b, b.ledger[i].ref)
    IN  IF p \in DOMAIN b.lots
        THEN [b EXCEPT !.lots[p].left = @ - n,
                       !.traced = @ \cup {[debit |-> i, credit |-> p, units |-> n]}]
        ELSE [b EXCEPT !.traced = @ \cup {[debit |-> i, credit |-> NoLot, units |-> n]}]

\* The lot a credit opens: a store purchase is bound to its title.
Lot(e) == [title |-> IF e.source = "google_play" THEN e.app ELSE Shared, left |-> e.units]

Insert(b, e) ==
    LET i    == Len(b.ledger) + 1
        next == [b EXCEPT !.ledger = Append(@, e)]
    IN  IF e.units > 0 THEN [next EXCEPT !.lots = With(@, i, Lot(e))]
        ELSE IF e.source = "google_play" THEN Refunded(next, i, -e.units)
        ELSE Debited(next, i, -e.units)

-----------------------------------------------------------------------------
(* Payments and spends.  A payment is credited once by its provider's id, and *)
(* a spend charged once by its account, title and key.                        *)

\* A repeated payment must be the one that was credited.
Creditable(b, id, e) ==
    id \in DOMAIN b.paid =>
        LET first == b.ledger[b.paid[id]] IN first.acct = e.acct /\ first.units = e.units

Credited(b, id, e) ==
    IF id \in DOMAIN b.paid THEN b
    ELSE [Insert(b, e) EXCEPT !.paid = With(@, id, Len(b.ledger) + 1)]

NonceOf(e, key) == <<e.acct, e.app, key>>

\* Variant of SettledUnderEntity: charges under Entity are forgotten.
NeverSettled(b, e, key) == FALSE

\* A shop purchase already charged under the Entity title.  The reference of a
\* spend is its action and its key.
SettledUnderEntity(b, e, key) ==
    LET nonce == <<e.acct, Entity, key>>
    IN  /\ e.source = "spend" /\ e.ref[1] \in DOMAIN Shop /\ Shop[e.ref[1]].app = e.app
        /\ nonce \in DOMAIN b.nonces
        /\ LET first == b.ledger[b.nonces[nonce]]
           IN  first.source = "spend" /\ first.ref = e.ref /\ first.units = e.units

\* A new spend, within what the account may spend in the title.
Chargeable(b, e, key) ==
    /\ e.units < 0
    /\ ~SettledUnderEntity(b, e, key)
    /\ NonceOf(e, key) \notin DOMAIN b.nonces
    /\ -e.units <= Spendable(b, e.acct, MatchingApp(e))

\* Variant of Charged: the nonce names the receipt after its own.
ChargedNext(b, e, key) ==
    [Insert(b, e) EXCEPT !.nonces = With(@, NonceOf(e, key), Len(b.ledger) + 2)]

Charged(b, e, key) ==
    [Insert(b, e) EXCEPT !.nonces = With(@, NonceOf(e, key), Len(b.ledger) + 1)]

=============================================================================
