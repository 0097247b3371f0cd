---------------------------- MODULE TokenAccounts ----------------------------
(***************************************************************************)
(* What moves tokens between and out of accounts: store purchases and      *)
(* their refunds, wallet deposits, spends, gifts and unlocks, while        *)
(* accounts befriend each other, are deleted and come back.  Each handler  *)
(* is one transaction of the node's single database connection; a handler  *)
(* that fails rolls back, and a repeated one finds what the first did.     *)
(***************************************************************************)
EXTENDS TokenLedger

CONSTANTS
    Inbe,        \* the title that gifts are charged under
    Sale,        \* Sale[s] = [acct, app, units]: purchases made in the store
    Deposit,     \* Deposit[d] = [acct, units]: payments into a node's wallet
    Actions,     \* spend actions, of the shop and any other
    Keys,        \* spend keys that clients choose
    GiftIds,     \* gift requests that clients choose
    Unlocks,     \* Unlocks[p] = [app, prices]: products, and the prices they had
    Island,      \* the product that Entity once charged
    Amounts,     \* amounts of a spend, a gift or a refund
    MaxEntries   \* bound on the ledger

ASSUME TokenAccountsAssumption ==
    /\ Inbe \in Titles
    /\ \A s \in DOMAIN Sale : Sale[s].acct \in Accounts /\ Sale[s].app \in Titles
                              /\ Sale[s].units \in Nat \ {0}
    /\ \A d \in DOMAIN Deposit : Deposit[d].acct \in Accounts /\ Deposit[d].units \in Nat \ {0}
    /\ \A p \in DOMAIN Unlocks : Unlocks[p].app \in Titles /\ Unlocks[p].prices \subseteq Nat \ {0}
    /\ Amounts \subseteq Nat \ {0}
    /\ MaxEntries \in Nat

UnlockKey(p) == <<"unlock", p>>
GiftKey(q) == <<"gift", q>>

Sources == {"google_play", "monero_account", "spend", "unlock", "gift"}
Refs == DOMAIN Sale \cup DOMAIN Deposit \cup (Actions \X Keys) \cup Accounts \cup DOMAIN Unlocks
           \cup {History[i].ref : i \in DOMAIN History}
Entry == [acct : Accounts, app : Titles \cup {NoTitle}, units : Int, source : Sources, ref : Refs]

\* The keys and payments of the history.
ItemKey(e) == IF e.source = "unlock" THEN UnlockKey(e.ref) ELSE e.ref[2]
Purchase(e) == e.units < 0 /\ e.source \in {"spend", "unlock"}
HistoricDebits == {i \in DOMAIN History : Purchase(History[i])}
HistoricCredits == {i \in DOMAIN History : History[i].units > 0}
HistoricNonce(i) == NonceOf(History[i], ItemKey(History[i]))
HistoricPayment(i) == <<History[i].source, History[i].ref>>

\* What the shop sold for an action, and what unlocked a product, under the title it
\* now has or under Entity.
ShopSale(e) == e.source = "spend" /\ e.ref[1] \in DOMAIN Shop /\ e.units < 0
ShopPrice(e) == LET product == Shop[e.ref[1]]
                IN  e.app \in {product.app, Entity} /\ e.units = -product.units
UnlockSale(e) == e.source = "unlock" /\ e.units < 0
UnlockTitle(e) == e.app = Unlocks[e.ref].app \/ (e.ref = Island /\ e.app = Entity)
Item(e) == ShopSale(e) \/ UnlockSale(e)

\* The purchases of the history, which have no lots.
Historic(s) ==
    \E i \in DOMAIN History :
        History[i].source = "google_play" /\ History[i].ref = s /\ History[i].units > 0

\* The history charged an account once for each item, at the shop's price, had no
\* gifts, and took back no more of a purchase than it had credited.
ASSUME HistoryAssumption ==
    /\ History \in Seq(Entry)
    /\ \A i \in DOMAIN History : History[i].source # "gift"
    /\ \A i, j \in HistoricDebits : HistoricNonce(i) = HistoricNonce(j) => i = j
    /\ \A i, j \in HistoricDebits :
          /\ Item(History[i]) /\ Item(History[j])
          /\ History[i].acct = History[j].acct
          /\ History[i].source = History[j].source /\ History[i].ref = History[j].ref
          => i = j
    /\ \A i \in DOMAIN History : /\ ShopSale(History[i]) => ShopPrice(History[i])
                                 /\ UnlockSale(History[i]) => UnlockTitle(History[i])
    /\ \A s \in DOMAIN Sale :
          RefundedUnits([ledger |-> History], s) <= IF Historic(s) THEN Sale[s].units ELSE 0

VARIABLES
    book,        \* the token tables: ledger, lots, traced, paid, nonces
    sales,       \* the lifecycle of each store purchase
    users,       \* accounts of the node (server_users)
    friends,     \* pairs of friends (server_friendships)
    unlocks      \* unlocks[a][p]: the receipt that paid for it, or 0 (account_unlocks)

vars == <<book, sales, users, friends, unlocks>>

Unpaid == 0

Init ==
    /\ book = [ledger |-> History,
               lots   |-> [i \in {} |-> 0],
               traced |-> {},
               paid   |-> [id \in {HistoricPayment(i) : i \in HistoricCredits} |->
                             CHOOSE i \in HistoricCredits : HistoricPayment(i) = id],
               nonces |-> [n \in {HistoricNonce(i) : i \in HistoricDebits} |->
                             CHOOSE i \in HistoricDebits : HistoricNonce(i) = n]]
    /\ sales = [s \in DOMAIN Sale |->
                  IF <<"google_play", s>> \in DOMAIN book.paid THEN "owned" ELSE "new"]
    /\ users = Accounts
    /\ friends = {}
    /\ unlocks = [a \in Accounts |-> [p \in DOMAIN Unlocks |-> Unpaid]]

Room(n) == Len(book.ledger) + n <= MaxEntries

-----------------------------------------------------------------------------
(* Credits from outside *)

SaleEntry(s) == [acct |-> Sale[s].acct, app |-> Sale[s].app, units |-> Sale[s].units,
                 source |-> "google_play", ref |-> s]

\* A verified store purchase: creditNewPurchase, and its lifecycle row.
ProcessPurchase(s) ==
    /\ Room(1)
    /\ Sale[s].acct \in users
    /\ sales[s] = "new"
    /\ Creditable(book, <<"google_play", s>>, SaleEntry(s))
    /\ book' = Credited(book, <<"google_play", s>>, SaleEntry(s))
    /\ sales' = [sales EXCEPT ![s] = "owned"]
    /\ UNCHANGED <<users, friends, unlocks>>

\* The store voids some of a purchase; a refund beyond what is left is an error.
CompensateVoided(s, n) ==
    /\ Room(1)
    /\ sales[s] = "owned"
    /\ n <= Sale[s].units - RefundedUnits(book, s)
    /\ book' = Insert(book, [SaleEntry(s) EXCEPT !.units = -n])
    /\ sales' = [sales EXCEPT ![s] = IF RefundedUnits(book', s) = Sale[s].units
                                     THEN "refunded" ELSE @]
    /\ UNCHANGED <<users, friends, unlocks>>

DepositEntry(d) == [acct |-> Deposit[d].acct, app |-> NoTitle, units |-> Deposit[d].units,
                    source |-> "monero_account", ref |-> d]

CreditDeposit(d) ==
    /\ Room(1)
    /\ <<"monero_account", d>> \notin DOMAIN book.paid
    /\ book' = Credited(book, <<"monero_account", d>>, DepositEntry(d))
    /\ UNCHANGED <<sales, users, friends, unlocks>>

-----------------------------------------------------------------------------
(* Spends *)

\* An action of the shop buys its own product, for its title, key and price.  Any
\* other spend may use any key, that of a product too.
ValidSpend(app, action, key, n) ==
    action \in DOMAIN Shop => Shop[action] = [app |-> app, key |-> key, units |-> n]

SpendEntry(a, app, action, key, n) ==
    [acct |-> a, app |-> app, units |-> -n, source |-> "spend", ref |-> <<action, key>>]

Spend(a, app, action, key, n) ==
    /\ Room(1)
    /\ a \in users
    /\ ValidSpend(app, action, key, n)
    /\ Chargeable(book, SpendEntry(a, app, action, key, n), key)
    /\ book' = Charged(book, SpendEntry(a, app, action, key, n), key)
    /\ UNCHANGED <<sales, users, friends, unlocks>>

-----------------------------------------------------------------------------
(* Gifts *)

GiftDebit(a, b, n) == [acct |-> a, app |-> Inbe, units |-> -n, source |-> "gift", ref |-> b]
GiftCredit(a, b, n) == [acct |-> b, app |-> Inbe, units |-> n, source |-> "gift", ref |-> a]

\* Variant of GiftPayment: a gift is known by its sender only.
GiftPaymentBySender(a, q) == <<"gift-v1", <<a, a>>>>

\* The payment of a gift: its sender and the request.
GiftPayment(a, q) == <<"gift-v1", <<a, q>>>>

\* The sender's debit and the friend's credit commit together.
Send(a, b, q, n) ==
    /\ Room(2)
    /\ a \in users /\ a # b
    /\ Chargeable(book, GiftDebit(a, b, n), GiftKey(q))
    /\ {a, b} \in friends
    /\ LET charged == Charged(book, GiftDebit(a, b, n), GiftKey(q))
       IN  /\ Creditable(charged, GiftPayment(a, q), GiftCredit(a, b, n))
           /\ book' = Credited(charged, GiftPayment(a, q), GiftCredit(a, b, n))
    /\ UNCHANGED <<sales, users, friends, unlocks>>

-----------------------------------------------------------------------------
(* Unlocks *)

UnlockEntry(a, p, price) ==
    [acct |-> a, app |-> Unlocks[p].app, units |-> -price, source |-> "unlock", ref |-> p]

\* The payments an account made for a product earlier, before it was deleted,
\* under the product's title or, for the Island, under Entity.
EarlierPayments(a, p) ==
    LET titled == <<a, Unlocks[p].app, UnlockKey(p)>>
        former == <<a, Entity, UnlockKey(p)>>
    IN  IF titled \in DOMAIN book.nonces THEN {book.nonces[titled]}
        ELSE {book.nonces[n] : n \in {e \in DOMAIN book.nonces : p = Island /\ e = former}}

\* Variant of Settles: any debit of the account in the title will do.
SettlesAny(b, i, a, p) ==
    LET e == b.ledger[i]
    IN  /\ e.acct = a /\ e.units < 0
        /\ e.app = Unlocks[p].app \/ (p = Island /\ e.app = Entity)

\* A receipt settles an unlock if it is a debit of the account for the product;
\* a spend whose key a client chose to look like an unlock's is none.
Settles(b, i, a, p) ==
    LET e == b.ledger[i]
    IN  /\ e.acct = a /\ e.source = "unlock" /\ e.ref = p /\ e.units < 0
        /\ e.app = Unlocks[p].app \/ (p = Island /\ e.app = Entity)
        /\ p = Island => -e.units \in Unlocks[p].prices

\* The product is unlocked by a payment the account made before it was deleted.
UnlockPaid(a, p) ==
    /\ a \in users
    /\ unlocks[a][p] = Unpaid
    /\ \E i \in EarlierPayments(a, p) :
          /\ Settles(book, i, a, p)
          /\ unlocks' = [unlocks EXCEPT ![a][p] = i]
    /\ UNCHANGED <<book, sales, users, friends>>

UnlockNew(a, p) ==
    /\ Room(1)
    /\ a \in users
    /\ unlocks[a][p] = Unpaid
    /\ EarlierPayments(a, p) = {}
    /\ \E price \in Unlocks[p].prices :
          /\ Chargeable(book, UnlockEntry(a, p, price), UnlockKey(p))
          /\ book' = Charged(book, UnlockEntry(a, p, price), UnlockKey(p))
    /\ unlocks' = [unlocks EXCEPT ![a][p] = Len(book.ledger) + 1]
    /\ UNCHANGED <<sales, users, friends>>

-----------------------------------------------------------------------------
(* Accounts *)

Befriend(a, b) ==
    /\ a # b /\ {a, b} \subseteq users
    /\ friends' = friends \cup {{a, b}}
    /\ UNCHANGED <<book, sales, users, unlocks>>

Unfriend(a, b) ==
    /\ {a, b} \in friends
    /\ friends' = friends \ {{a, b}}
    /\ UNCHANGED <<book, sales, users, unlocks>>

\* The tables of the tokens do not refer to the account and keep their rows.
DeleteAccount(a) ==
    /\ a \in users
    /\ users' = users \ {a}
    /\ friends' = {pair \in friends : a \notin pair}
    /\ unlocks' = [unlocks EXCEPT ![a] = [p \in DOMAIN Unlocks |-> Unpaid]]
    /\ UNCHANGED <<book, sales>>

Restore(a) ==
    /\ users' = users \cup {a}
    /\ UNCHANGED <<book, sales, friends, unlocks>>

-----------------------------------------------------------------------------

Next ==
    \/ \E s \in DOMAIN Sale : ProcessPurchase(s)
    \/ \E s \in DOMAIN Sale, n \in Amounts : CompensateVoided(s, n)
    \/ \E d \in DOMAIN Deposit : CreditDeposit(d)
    \/ \E a \in Accounts, app \in Titles, action \in Actions, key \in Keys, n \in Amounts :
          Spend(a, app, action, key, n)
    \/ \E a, b \in Accounts, q \in GiftIds, n \in Amounts : Send(a, b, q, n)
    \/ \E a \in Accounts, p \in DOMAIN Unlocks : UnlockPaid(a, p) \/ UnlockNew(a, p)
    \/ \E a, b \in Accounts : Befriend(a, b) \/ Unfriend(a, b)
    \/ \E a \in Accounts : DeleteAccount(a) \/ Restore(a)

Spec == Init /\ [][Next]_vars

-----------------------------------------------------------------------------
(* Properties *)

\* The type of the state.  Every lot is of a credit, and every payment and nonce
\* names a receipt of the ledger.
TypeOK ==
    /\ DOMAIN book = {"ledger", "lots", "traced", "paid", "nonces"}
    /\ book.ledger \in Seq(Entry)
    /\ \A i \in DOMAIN book.lots :
          /\ i \in DOMAIN book.ledger /\ book.ledger[i].units > 0
          /\ book.lots[i] \in [title : Titles \cup {Shared}, left : Int]
    /\ \A id \in DOMAIN book.paid : book.paid[id] \in DOMAIN book.ledger
    /\ \A n \in DOMAIN book.nonces : book.nonces[n] \in DOMAIN book.ledger
    /\ sales \in [DOMAIN Sale -> {"new", "owned", "refunded"}]
    /\ users \subseteq Accounts
    /\ friends \subseteq SUBSET Accounts
    /\ unlocks \in [Accounts -> [DOMAIN Unlocks -> Nat]]

TracedUnits(rows) == SumFunction([r \in rows |-> r.units])

\* The units an account had before there were lots.
HistoricUnits(a) ==
    SumFunctionOnSet(Units(History), {i \in DOMAIN History : History[i].acct = a})

\* Every unit is accounted for: what is left of a lot is what was credited less
\* what was traced to it, every debit is traced in full, to lots of its own
\* account, and what has no lot was in the account before there were lots.
AuditTrail ==
    /\ \A i \in DOMAIN book.lots :
          book.lots[i].left = book.ledger[i].units
                                - TracedUnits({r \in book.traced : r.credit = i})
    /\ \A i \in DOMAIN book.ledger \ DOMAIN History : book.ledger[i].units < 0 =>
          TracedUnits({r \in book.traced : r.debit = i}) = -book.ledger[i].units
    /\ \A r \in book.traced : r.credit # NoLot =>
          book.ledger[r.credit].acct = book.ledger[r.debit].acct
    /\ \A a \in Accounts :
          LET untraced == {r \in book.traced : r.credit = NoLot /\ book.ledger[r.debit].acct = a}
              refunded == {r \in untraced : book.ledger[r.debit].source = "google_play"}
          IN  TracedUnits(untraced \ refunded) <= Positive(HistoricUnits(a))

\* What was bought in a store for a title leaves its lot only by a spend or an
\* unlock in that title or by a refund of that purchase.
BoughtStaysInTitle ==
    \A r \in book.traced : r.credit # NoLot =>
        LET debit == book.ledger[r.debit]
            title == book.lots[r.credit].title
        IN  title # Shared =>
              \/ debit.source \in {"spend", "unlock"} /\ debit.app = title
              \/ debit.source = "google_play" /\ debit.ref = book.ledger[r.credit].ref

Mirrors(e, f) ==
    /\ e.source = f.source /\ e.app = f.app
    /\ e.acct = f.ref /\ e.ref = f.acct /\ e.units = -f.units

\* A gift's debit and its credit stand next to each other in the ledger: no
\* tokens leave an account without reaching the other, or the other way round.
GiftsPaired ==
    \A i \in DOMAIN book.ledger : book.ledger[i].source = "gift" =>
        LET e     == book.ledger[i]
            other == IF e.units < 0 THEN i + 1 ELSE i - 1
        IN  /\ other \in DOMAIN book.ledger
            /\ Mirrors(book.ledger[other], e)

\* An account is charged at most once for a product of the shop and once for an
\* unlock, whichever title the charge was made under, and however often the
\* account is deleted and comes back.
ItemsChargedOnce ==
    \A i, j \in DOMAIN book.ledger :
        LET e == book.ledger[i]
            f == book.ledger[j]
        IN  /\ Item(e) /\ Item(f)
            /\ e.acct = f.acct /\ e.source = f.source /\ e.ref = f.ref
            => i = j

\* What is unlocked was paid for: its receipt is a debit that the same account
\* made for that product and for nothing else, and no receipt pays twice.
UnlocksPaidFor ==
    \A a \in Accounts, p \in DOMAIN Unlocks : unlocks[a][p] # Unpaid =>
        LET e == book.ledger[unlocks[a][p]]
        IN  e.acct = a /\ e.source = "unlock" /\ e.ref = p /\ e.units < 0

\* The ledger implements the purses: lots and sums of receipts are how it keeps
\* them, and its payments and nonces are the effects that have happened.
PurseOf(b) ==
    [a \in Accounts |-> [t \in Titles \cup {Shared} |->
        IF t = Shared THEN SharedUnits(b, a) ELSE TitleUnits(b, a, t)]]

BoughtFor(rows, a, t) ==
    {s \in DOMAIN Sale : /\ rows[s] # "new" /\ Sale[s].acct = a
                         /\ t = IF Historic(s) THEN Shared ELSE Sale[s].app}

BoughtOf(b, rows) ==
    [a \in Accounts |-> [t \in Titles \cup {Shared} |->
        SumFunction([s \in BoughtFor(rows, a, t) |-> Sale[s].units - RefundedUnits(b, s)])]]

Purse == INSTANCE Purses WITH
    Amounts <- Amounts \cup {Sale[s].units : s \in DOMAIN Sale}
                      \cup {Deposit[d].units : d \in DOMAIN Deposit}
                      \cup UNION {Unlocks[p].prices : p \in DOMAIN Unlocks},
    purse   <- PurseOf(book),
    bought  <- BoughtOf(book, sales),
    done    <- DOMAIN book.paid \cup DOMAIN book.nonces

PursesKept == Purse!Spec
=============================================================================
