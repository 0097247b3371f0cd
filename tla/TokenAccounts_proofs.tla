------------------------- MODULE TokenAccounts_proofs -------------------------
(***************************************************************************)
(* Proofs about TokenAccounts, for every set of accounts, titles, sales,   *)
(* products, keys and every bound: gifts are paired, items are charged     *)
(* once, and what is unlocked was paid for.                                *)
(*                                                                         *)
(* None of the three depends on how units are summed.  They rest on how a  *)
(* receipt is added: the ledger grows at its end, and a purchase is named  *)
(* by the nonce of its account, its title and its item.                    *)
(***************************************************************************)
EXTENDS TokenAccounts, SequenceTheorems, TLAPS

-----------------------------------------------------------------------------
(* Adding a receipt *)

Book(b) == DOMAIN b = {"ledger", "lots", "traced", "paid", "nonces"}

\* c differs from b in its lots at most.
SameReceipts(b, c) ==
    /\ Book(c)
    /\ c.ledger = b.ledger /\ c.paid = b.paid /\ c.nonces = b.nonces

\* Consuming lots changes no receipt.
LEMMA ConsumeKeeps ==
    ASSUME NEW b, NEW i, NEW title, NEW n, Book(b)
    PROVE  SameReceipts(b, Consume(b, i, title, n))
BY DEF Book, SameReceipts, Consume

\* Nor does debiting them.
LEMMA DebitedKeeps ==
    ASSUME NEW b, NEW i, NEW n, Book(b)
    PROVE  SameReceipts(b, Debited(b, i, n))
<1> DEFINE title == MatchingApp(b.ledger[i])
           held  == Matching(b, b.ledger[i].acct, title)
           own   == IF held < n THEN held ELSE n
           first == IF own > 0 THEN Consume(b, i, title, own) ELSE b
<1>1. SameReceipts(b, first)
  BY ConsumeKeeps DEF SameReceipts, Book
<1>2. SameReceipts(first, Consume(first, i, Shared, n - own))
  <2> HIDE DEF first, own
  <2> QED
    BY <1>1, ConsumeKeeps DEF SameReceipts
<1>3. Debited(b, i, n) = Consume(first, i, Shared, n - own)
  BY DEF Debited
<1> HIDE DEF first, own
<1> QED
  BY <1>1, <1>2, <1>3 DEF SameReceipts

\* Nor does a refund.
LEMMA RefundedKeeps ==
    ASSUME NEW b, NEW i, NEW n, Book(b)
    PROVE  SameReceipts(b, Refunded(b, i, n))
BY DEF Book, SameReceipts, Refunded

\* A receipt is added at the end of the ledger, and changes nothing else but lots.
LEMMA InsertAppends ==
    ASSUME NEW b, NEW e, Book(b)
    PROVE  /\ Book(Insert(b, e))
           /\ Insert(b, e).ledger = Append(b.ledger, e)
           /\ Insert(b, e).paid = b.paid
           /\ Insert(b, e).nonces = b.nonces
<1> DEFINE next == [b EXCEPT !.ledger = Append(@, e)]
           i    == Len(b.ledger) + 1
<1>1. /\ Book(next) /\ next.ledger = Append(b.ledger, e)
      /\ next.paid = b.paid /\ next.nonces = b.nonces
  BY DEF Book
<1>2. CASE e.units > 0
  <2>1. Insert(b, e) = [next EXCEPT !.lots = With(@, i, Lot(e))]
    BY <1>2 DEF Insert
  <2> HIDE DEF next, i
  <2> QED
    BY <1>1, <2>1 DEF Book
<1>3. CASE ~(e.units > 0) /\ e.source = "google_play"
  <2>1. Insert(b, e) = Refunded(next, i, -e.units)
    BY <1>3 DEF Insert
  <2> HIDE DEF next, i
  <2> QED
    BY <1>1, <2>1, RefundedKeeps DEF SameReceipts
<1>4. CASE ~(e.units > 0) /\ e.source # "google_play"
  <2>1. Insert(b, e) = Debited(next, i, -e.units)
    BY <1>4 DEF Insert
  <2> HIDE DEF next, i
  <2> QED
    BY <1>1, <2>1, DebitedKeeps DEF SameReceipts
<1> QED
  BY <1>2, <1>3, <1>4

\* A charge adds the receipt and its nonce.
LEMMA ChargedAppends ==
    ASSUME NEW b, NEW e, NEW key, Book(b)
    PROVE  /\ Book(Charged(b, e, key))
           /\ Charged(b, e, key).ledger = Append(b.ledger, e)
           /\ Charged(b, e, key).paid = b.paid
           /\ Charged(b, e, key).nonces = With(b.nonces, NonceOf(e, key), Len(b.ledger) + 1)
BY InsertAppends DEF Charged, Book

\* A payment that was not credited yet adds the receipt and the payment.
LEMMA CreditedAppends ==
    ASSUME NEW b, NEW id, NEW e, Book(b), id \notin DOMAIN b.paid
    PROVE  /\ Book(Credited(b, id, e))
           /\ Credited(b, id, e).ledger = Append(b.ledger, e)
           /\ DOMAIN Credited(b, id, e).paid = DOMAIN b.paid \cup {id}
           /\ Credited(b, id, e).nonces = b.nonces
BY InsertAppends DEF Credited, Book, With

-----------------------------------------------------------------------------
(* The invariant *)

\* The nonce of a purchase names its receipt.
Named(b) ==
    \A i \in DOMAIN b.ledger : Purchase(b.ledger[i]) =>
        LET nonce == NonceOf(b.ledger[i], ItemKey(b.ledger[i]))
        IN  nonce \in DOMAIN b.nonces /\ b.nonces[nonce] = i

\* A nonce names a receipt.
Receipted(b) == \A n \in DOMAIN b.nonces : b.nonces[n] \in DOMAIN b.ledger

\* An item is charged under its title, or was under Entity.
Titled(b) ==
    \A i \in DOMAIN b.ledger :
        /\ ShopSale(b.ledger[i]) => ShopPrice(b.ledger[i])
        /\ UnlockSale(b.ledger[i]) => UnlockTitle(b.ledger[i])

\* A gift that was credited was charged.
GiftsCharged(b) ==
    \A a \in Accounts, q \in GiftIds :
        GiftPayment(a, q) \in DOMAIN b.paid => <<a, Inbe, GiftKey(q)>> \in DOMAIN b.nonces

Paired(ledger) ==
    \A i \in DOMAIN ledger : ledger[i].source = "gift" =>
        LET e     == ledger[i]
            other == IF e.units < 0 THEN i + 1 ELSE i - 1
        IN  /\ other \in DOMAIN ledger
            /\ Mirrors(ledger[other], e)

SameItem(e, f) ==
    /\ Item(e) /\ Item(f)
    /\ e.acct = f.acct /\ e.source = f.source /\ e.ref = f.ref

ChargedOnce(ledger) ==
    \A i, j \in DOMAIN ledger : SameItem(ledger[i], ledger[j]) => i = j

BookInv(b) ==
    /\ Book(b)
    /\ b.ledger \in Seq(Entry)
    /\ Named(b) /\ Receipted(b) /\ Titled(b) /\ GiftsCharged(b)
    /\ Paired(b.ledger) /\ ChargedOnce(b.ledger)

UnlocksInv ==
    /\ unlocks \in [Accounts -> [DOMAIN Unlocks -> Nat]]
    /\ \A a \in Accounts, p \in DOMAIN Unlocks :
          unlocks[a][p] # Unpaid => unlocks[a][p] \in DOMAIN book.ledger
    /\ UnlocksPaidFor

IInv == BookInv(book) /\ UnlocksInv

\* What appending does to a sequence.
LEMMA AppendParts ==
    ASSUME NEW S, NEW s \in Seq(S), NEW e \in S
    PROVE  /\ Append(s, e) \in Seq(S)
           /\ Len(s) + 1 \in Nat \ {0}
           /\ DOMAIN Append(s, e) = DOMAIN s \cup {Len(s) + 1}
           /\ DOMAIN s \subseteq 1 .. Len(s)
           /\ Len(s) + 1 \notin DOMAIN s
           /\ \A i \in DOMAIN s : Append(s, e)[i] = s[i]
           /\ Append(s, e)[Len(s) + 1] = e
OBVIOUS

\* A pair stays a pair when the ledger grows by something that is no gift.
LEMMA PairedGrows ==
    ASSUME NEW s \in Seq(Entry), NEW e \in Entry, Paired(s), e.source # "gift"
    PROVE  Paired(Append(s, e))
<1> DEFINE t == Append(s, e)
<1>1. /\ DOMAIN t = DOMAIN s \cup {Len(s) + 1}
      /\ \A i \in DOMAIN s : t[i] = s[i]
      /\ t[Len(s) + 1] = e
  BY AppendParts
<1> HIDE DEF t
<1>2. ASSUME NEW i \in DOMAIN t, t[i].source = "gift"
      PROVE  i \in DOMAIN s /\ t[i] = s[i]
  BY <1>1, <1>2
<1> QED
  BY <1>1, <1>2 DEF Paired, t

\* A receipt that is neither a purchase nor a gift keeps the invariant.
LEMMA OtherAdded ==
    ASSUME NEW b, NEW c, NEW e \in Entry, BookInv(b), Book(c),
           ~Purchase(e), e.source # "gift",
           c.ledger = Append(b.ledger, e), c.nonces = b.nonces,
           \A a \in Accounts, q \in GiftIds :
              GiftPayment(a, q) \in DOMAIN c.paid => GiftPayment(a, q) \in DOMAIN b.paid
    PROVE  BookInv(c)
<1>1. b.ledger \in Seq(Entry)
  BY DEF BookInv
<1>2. /\ c.ledger \in Seq(Entry)
      /\ DOMAIN c.ledger = DOMAIN b.ledger \cup {Len(b.ledger) + 1}
      /\ \A i \in DOMAIN b.ledger : c.ledger[i] = b.ledger[i]
      /\ c.ledger[Len(b.ledger) + 1] = e
  BY <1>1, AppendParts
<1>3. ~Item(e)
  BY DEF Item, ShopSale, UnlockSale, Purchase
<1>4. Named(c) /\ Receipted(c)
  BY <1>2 DEF BookInv, Named, Receipted
<1>5. Titled(c)
  BY <1>2, <1>3 DEF BookInv, Titled, Item
<1>6. GiftsCharged(c)
  BY DEF BookInv, GiftsCharged
<1>7. Paired(c.ledger)
  BY <1>1, PairedGrows DEF BookInv
<1>8. ChargedOnce(c.ledger)
  BY <1>2, <1>3 DEF BookInv, ChargedOnce, SameItem
<1> QED
  BY <1>2, <1>4, <1>5, <1>6, <1>7, <1>8 DEF BookInv

\* A purchase keeps it when its nonce is new and no receipt is of the same item.
LEMMA PurchaseAdded ==
    ASSUME NEW b, NEW e \in Entry, BookInv(b), Purchase(e),
           NonceOf(e, ItemKey(e)) \notin DOMAIN b.nonces,
           ShopSale(e) => ShopPrice(e), UnlockSale(e) => UnlockTitle(e),
           \A j \in DOMAIN b.ledger : ~SameItem(b.ledger[j], e)
    PROVE  BookInv(Charged(b, e, ItemKey(e)))
<1> DEFINE c     == Charged(b, e, ItemKey(e))
           nonce == NonceOf(e, ItemKey(e))
           new   == Len(b.ledger) + 1
<1>1. b.ledger \in Seq(Entry) /\ Book(b)
  BY DEF BookInv
<1>2. /\ Book(c) /\ c.ledger = Append(b.ledger, e) /\ c.paid = b.paid
      /\ c.nonces = With(b.nonces, nonce, new)
  BY <1>1, ChargedAppends
<1> HIDE DEF c, nonce, new
<1>3. /\ c.ledger \in Seq(Entry)
      /\ DOMAIN c.ledger = DOMAIN b.ledger \cup {new}
      /\ new \notin DOMAIN b.ledger
      /\ \A i \in DOMAIN b.ledger : c.ledger[i] = b.ledger[i]
      /\ c.ledger[new] = e
  BY <1>1, <1>2, AppendParts DEF new
<1>4. /\ DOMAIN c.nonces = DOMAIN b.nonces \cup {nonce}
      /\ c.nonces[nonce] = new
      /\ \A n \in DOMAIN b.nonces : c.nonces[n] = b.nonces[n]
  BY <1>2 DEF With, nonce
<1>5. Named(c) /\ Receipted(c)
  BY <1>3, <1>4 DEF BookInv, Named, Receipted, nonce
<1>6. Titled(c)
  BY <1>3 DEF BookInv, Titled
<1>7. GiftsCharged(c)
  BY <1>2, <1>4 DEF BookInv, GiftsCharged
<1>8. Paired(c.ledger)
  BY <1>1, <1>2, PairedGrows DEF BookInv, Purchase
<1>9. ChargedOnce(c.ledger)
  <2>1. \A f, g : SameItem(f, g) => SameItem(g, f)
    BY DEF SameItem
  <2> QED
    BY <1>3, <2>1 DEF BookInv, ChargedOnce
<1> QED
  BY <1>2, <1>3, <1>5, <1>6, <1>7, <1>8, <1>9 DEF BookInv, c

\* A gift's two receipts keep it when the gift was not charged before.
LEMMA GiftAdded ==
    ASSUME NEW b, BookInv(b), NEW x \in Accounts, NEW y \in Accounts, NEW q \in GiftIds,
           NEW n \in Amounts, NonceOf(GiftDebit(x, y, n), GiftKey(q)) \notin DOMAIN b.nonces
    PROVE  LET charged == Charged(b, GiftDebit(x, y, n), GiftKey(q))
               both    == Credited(charged, GiftPayment(x, q), GiftCredit(x, y, n))
           IN  /\ BookInv(both)
               /\ both.ledger = Append(Append(b.ledger, GiftDebit(x, y, n)), GiftCredit(x, y, n))
<1> DEFINE d       == GiftDebit(x, y, n)
           e       == GiftCredit(x, y, n)
           nonce   == <<x, Inbe, GiftKey(q)>>
           charged == Charged(b, d, GiftKey(q))
           both    == Credited(charged, GiftPayment(x, q), e)
           new     == Len(b.ledger) + 1
<1>1. b.ledger \in Seq(Entry) /\ Book(b)
  BY DEF BookInv
<1>2. /\ d \in Entry /\ d.source = "gift" /\ d.units < 0
      /\ e \in Entry /\ e.source = "gift" /\ e.units > 0
      /\ Mirrors(d, e) /\ Mirrors(e, d)
      /\ NonceOf(d, GiftKey(q)) = nonce /\ nonce \notin DOMAIN b.nonces
  <2>1. n \in Nat /\ n > 0 /\ Inbe \in Titles
    BY TokenAccountsAssumption
  <2>2. x \in Refs /\ y \in Refs /\ "gift" \in Sources
    BY DEF Refs, Sources
  <2>3. d \in Entry /\ e \in Entry
    BY <2>1, <2>2 DEF GiftDebit, GiftCredit, Entry
  <2> QED
    BY <2>1, <2>3 DEF GiftDebit, GiftCredit, NonceOf, Mirrors
<1>3. /\ Book(charged) /\ charged.ledger = Append(b.ledger, d) /\ charged.paid = b.paid
      /\ charged.nonces = With(b.nonces, nonce, new)
  BY SMTT(30), <1>1, <1>2, ChargedAppends
<1>4. GiftPayment(x, q) \notin DOMAIN charged.paid
  BY <1>2, <1>3 DEF BookInv, GiftsCharged
<1> HIDE DEF charged, d, e
<1>5. /\ Book(both) /\ both.ledger = Append(charged.ledger, e)
      /\ DOMAIN both.paid = DOMAIN b.paid \cup {GiftPayment(x, q)}
      /\ both.nonces = charged.nonces
  BY <1>3, <1>4, CreditedAppends
<1> HIDE DEF both
<1>6. /\ charged.ledger \in Seq(Entry) /\ Len(charged.ledger) = new /\ new \in Nat \ {0}
      /\ DOMAIN charged.ledger = DOMAIN b.ledger \cup {new} /\ new \notin DOMAIN b.ledger
      /\ \A i \in DOMAIN b.ledger : charged.ledger[i] = b.ledger[i]
      /\ charged.ledger[new] = d
  BY <1>1, <1>2, <1>3, AppendParts
<1> HIDE DEF new, nonce
<1>7. /\ both.ledger \in Seq(Entry)
      /\ DOMAIN both.ledger = DOMAIN b.ledger \cup {new, new + 1}
      /\ \A i \in DOMAIN b.ledger : both.ledger[i] = b.ledger[i]
      /\ both.ledger[new] = d /\ both.ledger[new + 1] = e
  <2>1. /\ both.ledger \in Seq(Entry)
        /\ DOMAIN both.ledger = DOMAIN charged.ledger \cup {new + 1}
        /\ \A i \in DOMAIN charged.ledger : both.ledger[i] = charged.ledger[i]
        /\ both.ledger[new + 1] = e
    BY <1>2, <1>5, <1>6, AppendParts
  <2> QED
    BY <1>6, <2>1
<1>8. /\ DOMAIN both.nonces = DOMAIN b.nonces \cup {nonce}
      /\ \A m \in DOMAIN b.nonces : both.nonces[m] = b.nonces[m]
      /\ both.nonces[nonce] = new
  BY <1>2, <1>3, <1>5 DEF With
<1>9. \A i \in DOMAIN both.ledger : Purchase(both.ledger[i]) \/ Item(both.ledger[i]) =>
         i \in DOMAIN b.ledger
  BY <1>2, <1>7 DEF Purchase, Item, ShopSale, UnlockSale
<1>10. Named(both) /\ Receipted(both)
  BY <1>7, <1>8, <1>9 DEF BookInv, Named, Receipted
<1>11. Titled(both)
  BY <1>7, <1>9 DEF BookInv, Titled, Item
<1>12. GiftsCharged(both)
  <2> SUFFICES ASSUME NEW a \in Accounts, NEW r \in GiftIds,
                      GiftPayment(a, r) \in DOMAIN both.paid
               PROVE  <<a, Inbe, GiftKey(r)>> \in DOMAIN both.nonces
    BY DEF GiftsCharged
  <2>1. CASE GiftPayment(a, r) \in DOMAIN b.paid
    BY <1>8, <2>1 DEF BookInv, GiftsCharged
  <2>2. CASE GiftPayment(a, r) = GiftPayment(x, q)
    <3>1. a = x /\ r = q
      BY <2>2 DEF GiftPayment
    <3> QED
      BY <1>8, <3>1 DEF nonce
  <2> QED
    BY <1>5, <2>1, <2>2
<1>13. Paired(both.ledger)
  <2> SUFFICES ASSUME NEW i \in DOMAIN both.ledger, both.ledger[i].source = "gift"
               PROVE  LET f     == both.ledger[i]
                          other == IF f.units < 0 THEN i + 1 ELSE i - 1
                      IN  /\ other \in DOMAIN both.ledger
                          /\ Mirrors(both.ledger[other], f)
    BY DEF Paired
  <2>1. CASE i \in DOMAIN b.ledger
    BY <1>7, <2>1 DEF BookInv, Paired
  <2>2. CASE i = new
    BY <1>2, <1>6, <1>7, <2>2
  <2>3. CASE i = new + 1
    <3>1. (new + 1) - 1 = new
      BY <1>6
    <3>2. ~(e.units < 0)
      BY <1>2 DEF Entry
    <3> QED
      BY <1>2, <1>7, <2>3, <3>1, <3>2
  <2> QED
    BY <1>7, <2>1, <2>2, <2>3
<1>14. ChargedOnce(both.ledger)
  BY <1>7, <1>9 DEF BookInv, ChargedOnce, SameItem
<1>15. BookInv(both)
  BY <1>5, <1>7, <1>10, <1>11, <1>12, <1>13, <1>14 DEF BookInv
<1> QED
  BY <1>3, <1>5, <1>15 DEF both, charged, d, e, new, nonce

-----------------------------------------------------------------------------
(* The invariant holds *)

\* The historic ledger has it.
LEMMA InitBook ==
    ASSUME Init
    PROVE  BookInv(book)
<1>1. /\ Book(book) /\ book.ledger = History
      /\ DOMAIN book.paid = {HistoricPayment(i) : i \in HistoricCredits}
      /\ DOMAIN book.nonces = {HistoricNonce(i) : i \in HistoricDebits}
      /\ \A n \in DOMAIN book.nonces :
            book.nonces[n] = CHOOSE i \in HistoricDebits : HistoricNonce(i) = n
  BY DEF Init, Book
<1>2. book.ledger \in Seq(Entry)
  BY <1>1, HistoryAssumption
<1>3. Named(book) /\ Receipted(book)
  <2> SUFFICES ASSUME NEW i \in HistoricDebits
               PROVE  /\ HistoricNonce(i) \in DOMAIN book.nonces
                      /\ book.nonces[HistoricNonce(i)] = i
    BY <1>1 DEF Named, Receipted, HistoricDebits, HistoricNonce
  <2>1. \A j \in HistoricDebits : HistoricNonce(j) = HistoricNonce(i) => j = i
    BY HistoryAssumption
  <2>2. (CHOOSE j \in HistoricDebits : HistoricNonce(j) = HistoricNonce(i)) = i
    BY <2>1
  <2> QED
    BY <1>1, <2>2
<1>4. Titled(book)
  BY <1>1, HistoryAssumption DEF Titled
<1>5. GiftsCharged(book)
  <2>1. \A i \in HistoricCredits : History[i].source # "gift-v1"
    <3>1. \A i \in DOMAIN History : History[i] \in Entry
      BY HistoryAssumption
    <3> QED
      BY <3>1 DEF HistoricCredits, Entry, Sources
  <2>2. \A a \in Accounts, q \in GiftIds : GiftPayment(a, q) \notin DOMAIN book.paid
    BY <1>1, <2>1 DEF GiftPayment, HistoricPayment
  <2> QED
    BY <2>2 DEF GiftsCharged
<1>6. Paired(book.ledger)
  BY <1>1, HistoryAssumption DEF Paired
<1>7. ChargedOnce(book.ledger)
  <2>1. \A i \in DOMAIN History : Item(History[i]) => i \in HistoricDebits
    BY DEF Item, ShopSale, UnlockSale, HistoricDebits, Purchase
  <2> QED
    BY <1>1, <2>1, HistoryAssumption DEF ChargedOnce, SameItem
<1> QED
  BY <1>1, <1>2, <1>3, <1>4, <1>5, <1>6, <1>7 DEF BookInv

\* A credit from outside keeps the book's invariant.
LEMMA CreditKeeps ==
    ASSUME NEW id, NEW e \in Entry, BookInv(book), e.units > 0, e.source # "gift",
           id \notin DOMAIN book.paid, \A a \in Accounts, q \in GiftIds : id # GiftPayment(a, q)
    PROVE  /\ BookInv(Credited(book, id, e))
           /\ Credited(book, id, e).ledger = Append(book.ledger, e)
<1> DEFINE c == Credited(book, id, e)
<1>1. /\ Book(c) /\ c.ledger = Append(book.ledger, e)
      /\ DOMAIN c.paid = DOMAIN book.paid \cup {id} /\ c.nonces = book.nonces
  BY CreditedAppends DEF BookInv
<1>2. ~Purchase(e)
  BY DEF Purchase, Entry
<1> HIDE DEF c
<1>3. BookInv(c)
  BY <1>1, <1>2, OtherAdded
<1> QED
  BY <1>1, <1>3 DEF c

\* Receipts stay where they are.
Grows(s, t) == DOMAIN s \subseteq DOMAIN t /\ \A i \in DOMAIN s : t[i] = s[i]

LEMMA AppendGrows ==
    ASSUME NEW s \in Seq(Entry), NEW e \in Entry
    PROVE  Grows(s, Append(s, e))
BY AppendParts DEF Grows

\* What was paid for stays paid for.
LEMMA UnlocksKept ==
    ASSUME UnlocksInv, Grows(book.ledger, book'.ledger), UNCHANGED unlocks
    PROVE  UnlocksInv'
BY DEF UnlocksInv, UnlocksPaidFor, Grows

-----------------------------------------------------------------------------
(* One lemma for each action that adds receipts *)

LEMMA ProcessPurchaseKeeps ==
    ASSUME IInv, NEW s \in DOMAIN Sale, ProcessPurchase(s)
    PROVE  IInv'
<1> DEFINE id == <<"google_play", s>>
           e  == SaleEntry(s)
<1>1. /\ e \in Entry /\ e.units > 0 /\ e.source = "google_play"
  BY TokenAccountsAssumption DEF SaleEntry, Entry, Sources, Refs
<1>2. \A a \in Accounts, q \in GiftIds : id # GiftPayment(a, q)
  BY DEF GiftPayment
<1>3. BookInv(book) /\ book.ledger \in Seq(Entry)
  BY DEF IInv, BookInv
<1>4. book' = Credited(book, id, e) /\ UNCHANGED unlocks
  BY DEF ProcessPurchase
<1> HIDE DEF id, e
<1>5. CASE id \in DOMAIN book.paid
  <2>1. book' = book
    BY <1>4, <1>5 DEF Credited
  <2> QED
    BY <1>4, <2>1 DEF IInv, UnlocksInv, UnlocksPaidFor
<1>6. CASE id \notin DOMAIN book.paid
  <2>1. BookInv(book') /\ book'.ledger = Append(book.ledger, e)
    BY <1>1, <1>2, <1>3, <1>4, <1>6, CreditKeeps
  <2> QED
    BY <1>1, <1>3, <1>4, <2>1, AppendGrows, UnlocksKept DEF IInv
<1> QED
  BY <1>5, <1>6

LEMMA CompensateVoidedKeeps ==
    ASSUME IInv, NEW s \in DOMAIN Sale, NEW n \in Amounts, CompensateVoided(s, n)
    PROVE  IInv'
<1> DEFINE e == [SaleEntry(s) EXCEPT !.units = -n]
<1>1. /\ e \in Entry /\ e.source = "google_play"
  BY TokenAccountsAssumption DEF SaleEntry, Entry, Sources, Refs
<1>2. BookInv(book) /\ book.ledger \in Seq(Entry) /\ Book(book)
  BY DEF IInv, BookInv
<1>3. book' = Insert(book, e) /\ UNCHANGED unlocks
  BY DEF CompensateVoided
<1> HIDE DEF e
<1>4. /\ Book(book') /\ book'.ledger = Append(book.ledger, e)
      /\ book'.paid = book.paid /\ book'.nonces = book.nonces
  BY <1>2, <1>3, InsertAppends
<1>5. ~Purchase(e)
  BY <1>1 DEF Purchase
<1>6. BookInv(book')
  BY <1>1, <1>2, <1>4, <1>5, OtherAdded
<1> QED
  BY <1>1, <1>2, <1>3, <1>4, <1>6, AppendGrows, UnlocksKept DEF IInv

LEMMA CreditDepositKeeps ==
    ASSUME IInv, NEW d \in DOMAIN Deposit, CreditDeposit(d)
    PROVE  IInv'
<1> DEFINE id == <<"monero_account", d>>
           e  == DepositEntry(d)
<1>1. e \in Entry /\ e.units > 0 /\ e.source = "monero_account"
  BY TokenAccountsAssumption DEF DepositEntry, Entry, Sources, Refs
<1>2. \A a \in Accounts, q \in GiftIds : id # GiftPayment(a, q)
  BY DEF GiftPayment
<1>3. BookInv(book) /\ book.ledger \in Seq(Entry)
  BY DEF IInv, BookInv
<1>4. book' = Credited(book, id, e) /\ UNCHANGED unlocks /\ id \notin DOMAIN book.paid
  BY DEF CreditDeposit
<1> HIDE DEF id, e
<1>5. BookInv(book') /\ book'.ledger = Append(book.ledger, e)
  BY <1>1, <1>2, <1>3, <1>4, CreditKeeps
<1> QED
  BY <1>1, <1>3, <1>4, <1>5, AppendGrows, UnlocksKept DEF IInv

LEMMA SpendKeeps ==
    ASSUME IInv, NEW a \in Accounts, NEW app \in Titles, NEW action \in Actions, NEW key \in Keys,
           NEW n \in Amounts, Spend(a, app, action, key, n)
    PROVE  IInv'
<1> DEFINE e == SpendEntry(a, app, action, key, n)
<1>1. /\ e \in Entry /\ Purchase(e) /\ ItemKey(e) = key /\ ~UnlockSale(e)
      /\ e.source = "spend" /\ e.acct = a /\ e.app = app /\ e.ref = <<action, key>> /\ e.units = -n
  BY TokenAccountsAssumption
  DEF SpendEntry, Entry, Sources, Refs, Purchase, ItemKey, UnlockSale
<1>2. BookInv(book) /\ book.ledger \in Seq(Entry) /\ Book(book)
  BY DEF IInv, BookInv
<1>3. /\ ValidSpend(app, action, key, n) /\ Chargeable(book, e, key)
      /\ book' = Charged(book, e, key) /\ UNCHANGED unlocks
  BY DEF Spend
<1> HIDE DEF e
<1>4. ShopSale(e) => Shop[action].app = app /\ Shop[action].units = n
  BY <1>1, <1>3 DEF ShopSale, ValidSpend
<1>5. \A j \in DOMAIN book.ledger : ~SameItem(book.ledger[j], e)
  <2> SUFFICES ASSUME NEW j \in DOMAIN book.ledger, SameItem(book.ledger[j], e)
               PROVE  FALSE
    OBVIOUS
  <2> DEFINE f == book.ledger[j]
  <2>1. /\ f.acct = a /\ f.source = "spend" /\ f.ref = <<action, key>>
        /\ ShopSale(e) /\ ShopSale(f) /\ Purchase(f) /\ ItemKey(f) = key
    BY <1>1 DEF SameItem, Item, UnlockSale, ShopSale, Purchase, ItemKey
  <2>2. f.app \in {app, Entity} /\ f.units = -n
    <3>1. ShopPrice(f)
      BY <1>2, <2>1 DEF BookInv, Titled
    <3> QED
      BY <1>1, <1>4, <2>1, <3>1 DEF ShopPrice
  <2>3. NonceOf(f, key) \in DOMAIN book.nonces /\ book.nonces[NonceOf(f, key)] = j
    BY <1>2, <2>1 DEF BookInv, Named
  <2> HIDE DEF f
  <2>4. CASE f.app = app
    <3>1. NonceOf(f, key) = NonceOf(e, key)
      BY <1>1, <2>1, <2>4 DEF NonceOf
    <3> QED
      BY <1>3, <2>3, <3>1 DEF Chargeable
  <2>5. CASE f.app = Entity
    <3>1. NonceOf(f, key) = <<e.acct, Entity, key>>
      BY <1>1, <2>1, <2>5 DEF NonceOf
    <3>2. SettledUnderEntity(book, e, key)
      BY <1>1, <1>4, <2>1, <2>2, <2>3, <3>1 DEF SettledUnderEntity, ShopSale, f
    <3> QED
      BY <1>3, <3>2 DEF Chargeable
  <2> QED
    BY <2>2, <2>4, <2>5
<1>6. BookInv(book') /\ book'.ledger = Append(book.ledger, e)
  <2>1. NonceOf(e, ItemKey(e)) \notin DOMAIN book.nonces
    BY <1>1, <1>3 DEF Chargeable
  <2>2. ShopSale(e) => ShopPrice(e)
    BY <1>1, <1>4 DEF ShopPrice
  <2>3. BookInv(Charged(book, e, ItemKey(e)))
    BY <1>1, <1>2, <1>5, <2>1, <2>2, PurchaseAdded
  <2> QED
    BY <1>1, <1>2, <1>3, <2>3, ChargedAppends
<1> QED
  BY <1>1, <1>2, <1>3, <1>6, AppendGrows, UnlocksKept DEF IInv

LEMMA SendKeeps ==
    ASSUME IInv, NEW x \in Accounts, NEW y \in Accounts, NEW q \in GiftIds, NEW n \in Amounts,
           Send(x, y, q, n)
    PROVE  IInv'
<1> DEFINE d == GiftDebit(x, y, n)
           e == GiftCredit(x, y, n)
<1>1. d \in Entry /\ e \in Entry
  <2>1. n \in Nat /\ Inbe \in Titles
    BY TokenAccountsAssumption
  <2>2. x \in Refs /\ y \in Refs /\ "gift" \in Sources
    BY DEF Refs, Sources
  <2> QED
    BY <2>1, <2>2 DEF GiftDebit, GiftCredit, Entry
<1>2. BookInv(book) /\ book.ledger \in Seq(Entry)
  BY DEF IInv, BookInv
<1>3. /\ NonceOf(d, GiftKey(q)) \notin DOMAIN book.nonces
      /\ book' = Credited(Charged(book, d, GiftKey(q)), GiftPayment(x, q), e)
      /\ UNCHANGED unlocks
  BY DEF Send, Chargeable
<1>4. BookInv(book') /\ book'.ledger = Append(Append(book.ledger, d), e)
  BY <1>2, <1>3, GiftAdded
<1> HIDE DEF d, e
<1>5. Grows(book.ledger, book'.ledger)
  <2>1. Append(book.ledger, d) \in Seq(Entry)
    BY <1>1, <1>2
  <2>2. /\ Grows(book.ledger, Append(book.ledger, d))
        /\ Grows(Append(book.ledger, d), book'.ledger)
    BY <1>1, <1>2, <1>4, <2>1, AppendGrows
  <2> QED
    BY <2>2 DEF Grows
<1> QED
  BY <1>3, <1>4, <1>5, UnlocksKept DEF IInv

LEMMA UnlockNewKeeps ==
    ASSUME IInv, NEW a \in Accounts, NEW p \in DOMAIN Unlocks, UnlockNew(a, p)
    PROVE  IInv'
<1>1. PICK price \in Unlocks[p].prices :
         /\ Chargeable(book, UnlockEntry(a, p, price), UnlockKey(p))
         /\ book' = Charged(book, UnlockEntry(a, p, price), UnlockKey(p))
  BY DEF UnlockNew
<1> DEFINE e   == UnlockEntry(a, p, price)
           new == Len(book.ledger) + 1
<1>2. /\ e \in Entry /\ Purchase(e) /\ ItemKey(e) = UnlockKey(p) /\ ~ShopSale(e)
      /\ e.source = "unlock" /\ e.acct = a /\ e.ref = p /\ e.units < 0
      /\ UnlockTitle(e)
  BY TokenAccountsAssumption
  DEF UnlockEntry, Entry, Sources, Refs, Purchase, ItemKey, ShopSale, UnlockTitle
<1>3. BookInv(book) /\ book.ledger \in Seq(Entry) /\ Book(book)
  BY DEF IInv, BookInv
<1> HIDE DEF e
<1>4. \A j \in DOMAIN book.ledger : ~SameItem(book.ledger[j], e)
  <2> SUFFICES ASSUME NEW j \in DOMAIN book.ledger, SameItem(book.ledger[j], e)
               PROVE  FALSE
    OBVIOUS
  <2> DEFINE f == book.ledger[j]
  <2>1. /\ f.acct = a /\ f.source = "unlock" /\ f.ref = p
        /\ UnlockSale(f) /\ Purchase(f) /\ ItemKey(f) = UnlockKey(p)
    BY <1>2 DEF SameItem, Item, UnlockSale, ShopSale, Purchase, ItemKey
  <2>2. f.app = Unlocks[p].app \/ (p = Island /\ f.app = Entity)
    <3>1. UnlockTitle(f)
      BY <1>3, <2>1 DEF BookInv, Titled
    <3> QED
      BY <2>1, <3>1 DEF UnlockTitle
  <2>3. <<a, f.app, UnlockKey(p)>> \in DOMAIN book.nonces
    BY <1>3, <2>1 DEF BookInv, Named, NonceOf
  <2>4. EarlierPayments(a, p) # {}
    BY <2>2, <2>3 DEF EarlierPayments
  <2> QED
    BY <2>4 DEF UnlockNew
<1>5. BookInv(book') /\ book'.ledger = Append(book.ledger, e)
  <2>1. NonceOf(e, ItemKey(e)) \notin DOMAIN book.nonces /\ book' = Charged(book, e, ItemKey(e))
    BY <1>1, <1>2 DEF Chargeable, e
  <2>2. BookInv(Charged(book, e, ItemKey(e)))
    BY <1>2, <1>3, <1>4, <2>1, PurchaseAdded
  <2> QED
    BY <1>3, <2>1, <2>2, ChargedAppends
<1>6. UnlocksInv'
  <2>1. /\ new \in Nat /\ new \in DOMAIN book'.ledger /\ book'.ledger[new] = e
        /\ Grows(book.ledger, book'.ledger)
    BY <1>2, <1>3, <1>5, AppendParts, AppendGrows
  <2>2. UnlocksInv /\ unlocks' = [unlocks EXCEPT ![a][p] = new]
    BY DEF IInv, UnlockNew
  <2> HIDE DEF new
  <2> QED
    BY <1>2, <2>1, <2>2 DEF UnlocksInv, UnlocksPaidFor, Grows
<1> QED
  BY <1>5, <1>6 DEF IInv

LEMMA UnlockPaidKeeps ==
    ASSUME IInv, NEW a \in Accounts, NEW p \in DOMAIN Unlocks, UnlockPaid(a, p)
    PROVE  IInv'
<1>1. PICK i \in EarlierPayments(a, p) :
         Settles(book, i, a, p) /\ unlocks' = [unlocks EXCEPT ![a][p] = i]
  BY DEF UnlockPaid
<1>2. book' = book /\ UnlocksInv
  BY DEF IInv, UnlockPaid
<1>3. i \in DOMAIN book.ledger /\ i \in Nat
  BY <1>1, <1>2 DEF IInv, BookInv, Receipted, EarlierPayments
<1>4. UnlocksInv'
  BY <1>1, <1>2, <1>3 DEF UnlocksInv, UnlocksPaidFor, Settles
<1> QED
  BY <1>2, <1>4 DEF IInv

-----------------------------------------------------------------------------
(* Theorems *)

\* The invariant is inductive.
LEMMA Inductive ==
    ASSUME IInv, [Next]_vars
    PROVE  IInv'
<1>1. CASE \E s \in DOMAIN Sale : ProcessPurchase(s)
  BY <1>1, ProcessPurchaseKeeps
<1>2. CASE \E s \in DOMAIN Sale, n \in Amounts : CompensateVoided(s, n)
  BY <1>2, CompensateVoidedKeeps
<1>3. CASE \E d \in DOMAIN Deposit : CreditDeposit(d)
  BY <1>3, CreditDepositKeeps
<1>4. CASE \E a \in Accounts, app \in Titles, action \in Actions, key \in Keys, n \in Amounts :
              Spend(a, app, action, key, n)
  BY <1>4, SpendKeeps
<1>5. CASE \E a, b \in Accounts, q \in GiftIds, n \in Amounts : Send(a, b, q, n)
  BY <1>5, SendKeeps
<1>6. CASE \E a \in Accounts, p \in DOMAIN Unlocks : UnlockPaid(a, p) \/ UnlockNew(a, p)
  BY <1>6, UnlockPaidKeeps, UnlockNewKeeps
<1>7. ASSUME UNCHANGED <<book, unlocks>>
      PROVE  IInv'
  BY <1>7 DEF IInv, UnlocksInv, UnlocksPaidFor
<1>8. CASE \E a, b \in Accounts : Befriend(a, b) \/ Unfriend(a, b)
  BY <1>7, <1>8 DEF Befriend, Unfriend
<1>9. CASE \E a \in Accounts : DeleteAccount(a)
  <2>1. PICK a \in Accounts : DeleteAccount(a)
    BY <1>9
  <2>2. book' = book /\ unlocks' = [unlocks EXCEPT ![a] = [p \in DOMAIN Unlocks |-> Unpaid]]
    BY <2>1 DEF DeleteAccount
  <2> QED
    BY <2>2 DEF IInv, UnlocksInv, UnlocksPaidFor, Unpaid
<1>10. CASE \E a \in Accounts : Restore(a)
  BY <1>7, <1>10 DEF Restore
<1>11. CASE UNCHANGED vars
  BY <1>7, <1>11 DEF vars
<1> QED
  BY <1>1, <1>2, <1>3, <1>4, <1>5, <1>6, <1>8, <1>9, <1>10, <1>11 DEF Next

\* The invariant holds in every state.
THEOREM Invariant == Spec => []IInv
<1>1. Init => IInv
  <2> SUFFICES ASSUME Init PROVE IInv
    OBVIOUS
  <2>1. BookInv(book)
    BY InitBook
  <2>2. UnlocksInv
    BY DEF Init, UnlocksInv, UnlocksPaidFor, Unpaid
  <2> QED
    BY <2>1, <2>2 DEF IInv
<1>2. IInv /\ [Next]_vars => IInv'
  BY Inductive
<1> QED
  BY <1>1, <1>2, PTL DEF Spec

\* A gift never takes from one account what it does not give to the other: the
\* debit and the credit of token_gift's Send stand together, whatever requests
\* are repeated and whatever else is credited or charged.
THEOREM GiftsStayPaired == Spec => []GiftsPaired
<1>1. IInv => GiftsPaired
  BY DEF IInv, BookInv, Paired, GiftsPaired
<1> QED
  BY <1>1, Invariant, PTL

\* An item of the shop and an unlock are charged to an account at most once,
\* though the titles they are charged under have changed, and accounts are
\* deleted and restored between two requests.
THEOREM ItemsStayChargedOnce == Spec => []ItemsChargedOnce
<1>1. IInv => ItemsChargedOnce
  BY DEF IInv, BookInv, ChargedOnce, SameItem, ItemsChargedOnce
<1> QED
  BY <1>1, Invariant, PTL

\* Nothing is unlocked that the account did not pay for, whatever keys clients
\* choose for their spends.
THEOREM UnlocksStayPaidFor == Spec => []UnlocksPaidFor
<1>1. IInv => UnlocksPaidFor
  BY DEF IInv, UnlocksInv
<1> QED
  BY <1>1, Invariant, PTL

=============================================================================
