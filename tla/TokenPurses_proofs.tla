-------------------------- MODULE TokenPurses_proofs --------------------------
(***************************************************************************)
(* TokenAccounts implements Purses, for every set of accounts, titles,     *)
(* sales, products, keys and every history: its first states are purses,   *)
(* and each of its steps is a step of theirs or leaves them alone.         *)
(*                                                                         *)
(* PurseMoves says how a handler moves the purses of a book, in the sums   *)
(* of lots and receipts; GridExcept and PaidPurse put it in the form that  *)
(* Purses has.  The invariant adds three facts to the books: each new      *)
(* credit has its lot, so that a refund finds the purse its purchase is    *)
(* in; no more is refunded than was bought; and a payment never is a       *)
(* nonce, so that every effect counts once.                                *)
(***************************************************************************)
EXTENDS TokenBooks_proofs

-----------------------------------------------------------------------------
(* The purses of a book, and shifts of its lots *)

\* The purses of an account.
Purses == Titles \cup {Shared}

\* d has m more units than c in the lots of title t of account a, and the same ledger.
LotsShift(c, d, a, t, m) ==
    /\ d.ledger = c.ledger
    /\ \A x \in Accounts : Scoped(d, x) = Scoped(c, x) + (IF x = a /\ t # Shared THEN m ELSE 0)
    /\ \A x \in Accounts, k \in Titles :
          TitleUnits(d, x, k) = TitleUnits(c, x, k) + (IF x = a /\ k = t THEN m ELSE 0)

\* The purses of a book hold integers.
LEMMA PurseParts ==
    ASSUME NEW b, Sound(b)
    PROVE  /\ PurseOf(b) \in [Accounts -> [Purses -> Int]]
           /\ \A x \in Accounts :
                 /\ PurseOf(b)[x][Shared] = Total(b, x) - Scoped(b, x)
                 /\ Total(b, x) \in Int /\ Scoped(b, x) \in Int
                 /\ \A k \in Titles : /\ PurseOf(b)[x][k] = TitleUnits(b, x, k)
                                      /\ TitleUnits(b, x, k) \in Int
<1>1. \A x : Total(b, x) \in Int /\ Scoped(b, x) \in Int /\ SharedUnits(b, x) \in Int
  BY TotalType, LeftParts DEF SharedUnits
<1>2. \A x, k : TitleUnits(b, x, k) \in Int
  <2> SUFFICES ASSUME NEW x, NEW k PROVE TitleUnits(b, x, k) \in Int
    OBVIOUS
  <2>1. LotsIn(b, Pool(b, x, k))
    BY DEF LotsIn, Pool
  <2> QED
    BY <2>1, LeftType DEF TitleUnits
<1>3. Shared \notin Titles
  BY TokenLedgerAssumption
<1>4. /\ PurseOf(b) = [x \in Accounts |-> [k \in Purses |->
                         IF k = Shared THEN SharedUnits(b, x) ELSE TitleUnits(b, x, k)]]
      /\ Shared \in Purses /\ \A k \in Titles : k \in Purses /\ k # Shared
  BY <1>3 DEF PurseOf, Purses
<1> HIDE DEF Purses
<1>5. \A x \in Accounts : PurseOf(b)[x] = [k \in Purses |->
                         IF k = Shared THEN SharedUnits(b, x) ELSE TitleUnits(b, x, k)]
  BY <1>4
<1>6. \A x \in Accounts : /\ PurseOf(b)[x] \in [Purses -> Int]
                          /\ PurseOf(b)[x][Shared] = SharedUnits(b, x)
                          /\ \A k \in Titles : PurseOf(b)[x][k] = TitleUnits(b, x, k)
  BY <1>1, <1>2, <1>4, <1>5
<1>7. PurseOf(b) \in [Accounts -> [Purses -> Int]]
  BY <1>4, <1>6
<1> QED
  BY <1>1, <1>2, <1>6, <1>7 DEF SharedUnits

\* What a debit takes from a pool leaves its lots, unless no lot has it.
LEMMA ConsumeShifts ==
    ASSUME NEW b, Sound(b), NEW i, NEW title, NEW n \in Nat, NEW t, Taken(b, i, title, n, t)
    PROVE  LotsShift(b, Consume(b, i, title, n), b.ledger[i].acct, title,
                     -(n - Rest(b, i, title, n)))
<1> DEFINE c == Consume(b, i, title, n)
           m == n - Rest(b, i, title, n)
           R == Rich(b, i, title)
           a == b.ledger[i].acct
<1>1. /\ c.ledger = b.ledger /\ DOMAIN c.lots = DOMAIN b.lots
      /\ \A l \in DOMAIN b.lots : c.lots[l].title = b.lots[l].title
  BY DEF Taken, SameReceipts
<1>2. m \in Int
  BY RichLots
<1>3. /\ R \subseteq DOMAIN b.lots
      /\ \A l \in R : b.ledger[l].acct = a /\ b.lots[l].title = title
  BY DEF Rich, Pool
<1>4. \A Q : LotsIn(b, Q) =>
        /\ Left(b, Q) \in Int
        /\ (\A l \in R : l \notin Q) => Left(c, Q) = Left(b, Q)
        /\ (\A l \in R : l \in Q) => Left(c, Q) = Left(b, Q) - m
  BY ZenonT(60), ConsumeLeaves DEF LeavesOf
<1> HIDE DEF c, m, R, a
<1>5. ASSUME NEW x \in Accounts
      PROVE  Scoped(c, x) = Scoped(b, x) + (IF x = a /\ title # Shared THEN -m ELSE 0)
  <2> DEFINE Q == {l \in DOMAIN b.lots : b.ledger[l].acct = x /\ b.lots[l].title # Shared}
  <2>1. {l \in DOMAIN c.lots : c.ledger[l].acct = x /\ c.lots[l].title # Shared} = Q
    BY <1>1
  <2>2. Scoped(b, x) = Left(b, Q) /\ Scoped(c, x) = Left(c, Q)
    BY <2>1 DEF Scoped
  <2>3. LotsIn(b, Q)
    BY DEF LotsIn
  <2>4. CASE x = a /\ title # Shared
    <3>1. \A l \in R : l \in Q
      BY <1>3, <2>4
    <3> HIDE DEF Q
    <3> QED
      BY <1>2, <1>4, <2>2, <2>3, <2>4, <3>1
  <2>5. CASE ~ (x = a /\ title # Shared)
    <3>1. \A l \in R : l \notin Q
      BY <1>3, <2>5
    <3> HIDE DEF Q
    <3> QED
      BY <1>2, <1>4, <2>2, <2>3, <2>5, <3>1
  <2> QED
    BY <2>4, <2>5
<1>6. ASSUME NEW x \in Accounts, NEW k \in Titles
      PROVE  TitleUnits(c, x, k) = TitleUnits(b, x, k) + (IF x = a /\ k = title THEN -m ELSE 0)
  <2> DEFINE Q == Pool(b, x, k)
  <2>1. Pool(c, x, k) = Q
    BY <1>1 DEF Pool
  <2>2. TitleUnits(b, x, k) = Left(b, Q) /\ TitleUnits(c, x, k) = Left(c, Q)
    BY <2>1 DEF TitleUnits
  <2>3. LotsIn(b, Q)
    BY DEF LotsIn, Pool
  <2>4. CASE x = a /\ k = title
    <3>1. \A l \in R : l \in Q
      BY <1>3, <2>4 DEF Pool
    <3> HIDE DEF Q
    <3> QED
      BY <1>2, <1>4, <2>2, <2>3, <2>4, <3>1
  <2>5. CASE ~ (x = a /\ k = title)
    <3>1. \A l \in R : l \notin Q
      BY <1>3, <2>5 DEF Pool
    <3> HIDE DEF Q
    <3> QED
      BY <1>2, <1>4, <2>2, <2>3, <2>5, <3>1
  <2> QED
    BY <2>4, <2>5
<1> QED
  BY <1>1, <1>5, <1>6 DEF LotsShift, c, m, a

\* Two shifts of which the second is of shared lots.
LEMMA SharedShift ==
    ASSUME NEW b, NEW c, NEW d, NEW a, NEW t, NEW m, NEW n, Sound(c),
           LotsShift(b, c, a, t, m), LotsShift(c, d, a, Shared, n)
    PROVE  LotsShift(b, d, a, t, m)
<1>1. Shared \notin Titles
  BY TokenLedgerAssumption
<1>2. \A x \in Accounts : Scoped(c, x) \in Int /\ \A k \in Titles : TitleUnits(c, x, k) \in Int
  BY PurseParts
<1>3. /\ d.ledger = c.ledger /\ c.ledger = b.ledger
      /\ \A x \in Accounts : Scoped(d, x) = Scoped(c, x) + 0
      /\ \A x \in Accounts, k \in Titles : TitleUnits(d, x, k) = TitleUnits(c, x, k) + 0
  BY <1>1 DEF LotsShift
<1>4. /\ \A x \in Accounts : Scoped(d, x) = Scoped(c, x)
      /\ \A x \in Accounts, k \in Titles : TitleUnits(d, x, k) = TitleUnits(c, x, k)
  BY <1>2, <1>3
<1> QED
  BY <1>3, <1>4 DEF LotsShift

-----------------------------------------------------------------------------
(* Debits and credits move the purses *)

\* A receipt in the ledger changes what any title may spend, and a shift of lots of
\* a title moves units between that title and the others.
PurseMoves(b, c, a, t, m, n) ==
    \A x \in Accounts :
        /\ PurseOf(c)[x][Shared] = PurseOf(b)[x][Shared]
                + (IF x = a THEN n - (IF t # Shared THEN m ELSE 0) ELSE 0)
        /\ \A k \in Titles :
              PurseOf(c)[x][k] = PurseOf(b)[x][k] + (IF x = a /\ k = t THEN m ELSE 0)

\* A receipt and a shift of lots move the purses.
LEMMA ShiftMoves ==
    ASSUME NEW b, Sound(b), NEW e \in Entry, NEW d, Sound(d), NEW t, NEW m \in Int,
           LotsShift(Added(b, e), d, e.acct, t, m)
    PROVE  PurseMoves(b, d, e.acct, t, m, e.units)
<1> DEFINE c == Added(b, e)
           a == e.acct
<1>1. e.units \in Int
  BY DEF Entry
<1>2. \A x : Total(c, x) = Total(b, x) + (IF x = a THEN e.units ELSE 0)
  BY AddedTotal
<1>3. \A x, k : Scoped(c, x) = Scoped(b, x) /\ TitleUnits(c, x, k) = TitleUnits(b, x, k)
  BY AddedSame DEF TitleUnits
<1>4. d.ledger = c.ledger
  BY DEF LotsShift
<1>5. \A x : Total(d, x) = Total(c, x)
  BY <1>4 DEF Total, EntriesOf
<1>6. /\ \A x \in Accounts : Scoped(d, x) = Scoped(c, x) + (IF x = a /\ t # Shared THEN m ELSE 0)
      /\ \A x \in Accounts, k \in Titles :
            TitleUnits(d, x, k) = TitleUnits(c, x, k) + (IF x = a /\ k = t THEN m ELSE 0)
  BY DEF LotsShift
<1>7. \A x \in Accounts :
         /\ PurseOf(b)[x][Shared] = Total(b, x) - Scoped(b, x)
         /\ PurseOf(d)[x][Shared] = Total(d, x) - Scoped(d, x)
         /\ Total(b, x) \in Int /\ Scoped(b, x) \in Int
  BY PurseParts
<1>8. \A x \in Accounts, k \in Titles :
         PurseOf(b)[x][k] = TitleUnits(b, x, k) /\ PurseOf(d)[x][k] = TitleUnits(d, x, k)
  BY PurseParts
<1> HIDE DEF c, a
<1> SUFFICES ASSUME NEW x \in Accounts
             PROVE  /\ PurseOf(d)[x][Shared] = PurseOf(b)[x][Shared]
                          + (IF x = a THEN e.units - (IF t # Shared THEN m ELSE 0) ELSE 0)
                    /\ \A k \in Titles :
                          PurseOf(d)[x][k] = PurseOf(b)[x][k] + (IF x = a /\ k = t THEN m ELSE 0)
  BY DEF PurseMoves, a
<1>9. PurseOf(d)[x][Shared] = PurseOf(b)[x][Shared]
          + (IF x = a THEN e.units - (IF t # Shared THEN m ELSE 0) ELSE 0)
  <2>1. /\ PurseOf(b)[x][Shared] = Total(b, x) - Scoped(b, x)
        /\ PurseOf(d)[x][Shared] = Total(d, x) - Scoped(d, x)
        /\ Total(b, x) \in Int /\ Scoped(b, x) \in Int
        /\ Total(d, x) = Total(b, x) + (IF x = a THEN e.units ELSE 0)
        /\ Scoped(d, x) = Scoped(b, x) + (IF x = a /\ t # Shared THEN m ELSE 0)
    BY <1>2, <1>3, <1>5, <1>6, <1>7
  <2> QED
    BY <1>1, <2>1
<1>10. \A k \in Titles : PurseOf(d)[x][k] = PurseOf(b)[x][k] + (IF x = a /\ k = t THEN m ELSE 0)
  BY <1>3, <1>6, <1>8
<1> QED
  BY <1>9, <1>10

\* What a charge takes from its own title, of what it takes in all.
OwnOf(b, e) ==
    LET held == Matching(b, e.acct, MatchingApp(e))
    IN  IF held < -e.units THEN held ELSE -e.units

\* A debit shifts what it takes from its own title.
LEMMA DebitedShifts ==
    ASSUME NEW b, NEW i, NEW n, Owing(b, i, n), \A title : Untouched(b, i, title),
           b.ledger[i].source # "google_play", MatchingApp(b.ledger[i]) \in Titles \cup {Shared}
    PROVE  LotsShift(b, Debited(b, i, n), b.ledger[i].acct, MatchingApp(b.ledger[i]), -OwnUnits(b, i, n))
<1> DEFINE title == MatchingApp(b.ledger[i])
           a     == b.ledger[i].acct
           m     == OwnUnits(b, i, n)
           c     == AfterOwn(b, i, n)
           d     == Consume(c, i, Shared, n - m)
<1>1. Sound(b) /\ i \in New(b) /\ n \in Nat
  BY DEF Owing
<1>2. m \in Nat /\ m <= n /\ Owing(c, i, n - m) /\ c.ledger = b.ledger
  BY OwnTaken
<1>3. Sound(c) /\ n - m \in Nat
  BY <1>2 DEF Owing
<1>4. Debited(b, i, n) = d
  BY DebitedIs
<1>5. /\ Left(b, Rich(b, i, title)) \in Nat /\ Left(b, Pool(b, a, title)) \in Int
      /\ Left(b, Pool(b, a, title)) <= Left(b, Rich(b, i, title))
  BY <1>1, RichCovers
<1>6. m > 0 => m <= Left(b, Pool(b, a, title))
  <2>1. Matching(b, a, title) = IF title = Shared THEN 0 ELSE Positive(Left(b, Pool(b, a, title)))
    BY DEF Matching, TitleUnits
  <2>2. m = IF Matching(b, a, title) < n THEN Matching(b, a, title) ELSE n
    BY DEF OwnUnits
  <2> HIDE DEF m, title, a
  <2> QED
    BY <1>1, <1>5, <2>1, <2>2 DEF Positive
<1>7. LotsShift(b, c, a, title, -m)
  <2>1. CASE m > 0
    <3>1. c = Consume(b, i, title, m)
      BY <2>1 DEF AfterOwn
    <3>2. PICK t : Taken(b, i, title, m, t)
      BY <1>1, <1>2, ConsumeTakes
    <3>3. LotsShift(b, c, a, title, -(m - Rest(b, i, title, m)))
      BY <1>1, <1>2, <3>1, <3>2, ConsumeShifts
    <3>4. Rest(b, i, title, m) = 0
      <4> HIDE DEF m, title, a
      <4> QED
        BY <1>2, <1>5, <1>6, <2>1 DEF Rest, Positive
    <3>5. m - Rest(b, i, title, m) = m
      BY <1>2, <3>4
    <3> QED
      BY <3>3, <3>5
  <2>2. CASE ~ (m > 0)
    <3>1. c = b /\ m = 0
      BY <1>2, <2>2 DEF AfterOwn
    <3>2. \A x \in Accounts : /\ Scoped(b, x) \in Int
                              /\ \A k \in Titles : TitleUnits(b, x, k) \in Int
      BY <1>1, PurseParts
    <3> HIDE DEF m, c, title, a
    <3> QED
      BY <3>1, <3>2 DEF LotsShift
  <2> QED
    BY <2>1, <2>2
<1>8. PICK t : Taken(c, i, Shared, n - m, t)
  BY <1>3, ConsumeTakes
<1>9. LotsShift(c, d, a, Shared, -(n - m - Rest(c, i, Shared, n - m)))
  <2>1. LotsShift(c, d, c.ledger[i].acct, Shared, -(n - m - Rest(c, i, Shared, n - m)))
    BY <1>3, <1>8, ConsumeShifts
  <2> QED
    BY <1>2, <2>1
<1> HIDE DEF c, d, m, a, title
<1>10. LotsShift(b, d, a, title, -m)
  BY <1>3, <1>7, <1>9, SharedShift
<1> QED
  BY <1>4, <1>10 DEF a, title, m

\* Payments and nonces do not matter to the lots.
LEMMA ShiftSame ==
    ASSUME NEW b, NEW c, NEW d, NEW a, NEW t, NEW m, LotsShift(b, c, a, t, m), SameTables(c, d)
    PROVE  LotsShift(b, d, a, t, m)
<1>1. d.ledger = c.ledger /\ d.lots = c.lots
  BY DEF SameTables
<1>2. \A x : Scoped(d, x) = Scoped(c, x)
  BY <1>1 DEF Scoped, Left
<1>3. \A x, k : TitleUnits(d, x, k) = TitleUnits(c, x, k)
  BY <1>1 DEF TitleUnits, Left, Pool
<1> QED
  BY <1>1, <1>2, <1>3 DEF LotsShift

\* A charge pays what its title holds, and the rest from what any title may spend.
LEMMA ChargedMoves ==
    ASSUME NEW b, Fine(b), NEW e \in Entry, NEW key, Chargeable(b, e, key),
           e.source # "google_play", MatchingApp(e) \in Titles \cup {Shared}
    PROVE  /\ PurseMoves(b, Charged(b, e, key), e.acct, MatchingApp(e), -OwnOf(b, e), e.units)
           /\ OwnOf(b, e) \in Nat /\ OwnOf(b, e) <= -e.units
           /\ -e.units - OwnOf(b, e) <= Positive(SharedUnits(b, e.acct))
<1> DEFINE c == Added(b, e)
           k == Next1(b)
           n == -e.units
           a == e.acct
           title == MatchingApp(e)
           d == Debited(c, k, n)
           f == Charged(b, e, key)
           own == OwnOf(b, e)
<1>1. Sound(b) /\ Audited(b, NoLot, 0) /\ Backed(b)
  BY DEF Fine
<1>2. /\ e.units \in Int /\ e.units < 0 /\ n \in Nat
      /\ n <= Positive(SharedUnits(b, a)) + Matching(b, a, title)
  BY DEF Chargeable, Spendable, Entry
<1>3. k \in New(c) /\ c.ledger[k] = e
  BY <1>1, AddedTables
<1>4. Sound(c) /\ Audited(c, k, n) /\ \A t : Untouched(c, k, t)
  BY <1>1, <1>2, AddedSound, AddedAudited
<1>5. Insert(b, e) = d
  <2>1. ~ (e.units > 0)
    BY <1>2
  <2> QED
    BY <2>1 DEF Insert, Added, Next1
<1>6. Fine(f) /\ Sound(f)
  BY ChargedFine DEF Fine
<1>7. SameTables(d, f)
  <2>1. Book(d)
    BY <1>1, <1>5, InsertAppends DEF Sound
  <2>2. f = [d EXCEPT !.nonces = With(@, NonceOf(e, key), Len(b.ledger) + 1)]
    BY <1>5 DEF Charged
  <2> HIDE DEF d, f
  <2> QED
    BY <1>6, <2>1, <2>2 DEF SameTables, Book, Sound
<1>8. OwnUnits(c, k, n) = own
  <2>1. Matching(c, a, title) = Matching(b, a, title)
    BY <1>1, AddedSame DEF Matching, TitleUnits
  <2>2. OwnUnits(c, k, n) = IF Matching(c, a, title) < n THEN Matching(c, a, title) ELSE n
    BY <1>3 DEF OwnUnits
  <2> QED
    BY <2>1, <2>2 DEF OwnOf
<1>9. Owing(c, k, n)
  BY <1>2, <1>3, <1>4 DEF Owing
<1>10. own \in Nat /\ own <= n
  <2> HIDE DEF c, k, n, own
  <2>1. OwnUnits(c, k, n) \in Nat /\ OwnUnits(c, k, n) <= n
    BY <1>3, <1>4, <1>9, OwnTaken
  <2> QED
    BY <1>8, <2>1
<1>11. LotsShift(c, d, a, title, -own)
  <2>1. LotsShift(c, Debited(c, k, n), c.ledger[k].acct, MatchingApp(c.ledger[k]), -OwnUnits(c, k, n))
    <3> HIDE DEF c, k, n, own
    <3> QED
      BY <1>3, <1>4, <1>9, DebitedShifts
  <2> QED
    BY <1>3, <1>8, <2>1
<1>12. LotsShift(c, f, a, title, -own)
  <2> HIDE DEF c, d, f, own, a, title
  <2> QED
    BY <1>7, <1>11, ShiftSame
<1>13. PurseMoves(b, f, a, title, -own, e.units)
  <2> HIDE DEF f, own, title
  <2>1. -own \in Int
    BY <1>10
  <2> QED
    BY <1>1, <1>6, <1>12, <2>1, ShiftMoves
<1>14. n - own <= Positive(SharedUnits(b, a))
  <2>1. Matching(b, a, title) \in Int /\ SharedUnits(b, a) \in Int
    <3>1. LotsIn(b, Pool(b, a, title))
      BY DEF LotsIn, Pool
    <3>2. TitleUnits(b, a, title) \in Int
      BY <1>1, <3>1, LeftType DEF TitleUnits
    <3>3. Total(b, a) \in Int /\ Scoped(b, a) \in Int
      BY <1>1, TotalType, LeftParts
    <3> QED
      BY <3>2, <3>3 DEF Matching, Positive, SharedUnits
  <2>2. own = IF Matching(b, a, title) < n THEN Matching(b, a, title) ELSE n
    BY DEF OwnOf
  <2> HIDE DEF n, own, a, title
  <2> QED
    BY <1>2, <2>1, <2>2 DEF Positive
<1> QED
  BY <1>10, <1>13, <1>14

\* A credit adds its units to its lot's title.
LEMMA OpenedShifts ==
    ASSUME NEW b, Fine(b), NEW e \in Entry, e.units > 0,
           e.source = "google_play" => e.app \in Titles
    PROVE  LotsShift(Added(b, e), Insert(b, e), e.acct, Lot(e).title, e.units)
<1> DEFINE c == Added(b, e)
           k == Next1(b)
           d == Insert(b, e)
           t == Lot(e).title
<1>1. Sound(b)
  BY DEF Fine
<1>2. /\ Book(c) /\ c.lots = b.lots /\ k \notin DOMAIN b.ledger /\ c.ledger[k] = e
      /\ \A l \in DOMAIN b.lots : l \in DOMAIN b.ledger
  BY <1>1, AddedTables
<1>3. d = [c EXCEPT !.lots = With(@, k, Lot(e))]
  BY DEF Insert, Added, Next1
<1>4. e.units \in Int /\ Lot(e).left = e.units
  BY DEF Entry, Lot
<1> HIDE DEF c, d, k, t
<1>5. /\ d.ledger = c.ledger /\ DOMAIN d.lots = DOMAIN c.lots \cup {k} /\ k \notin DOMAIN c.lots
      /\ d.lots[k].left = e.units /\ d.lots[k].title = t
      /\ \A l \in DOMAIN c.lots : d.lots[l] = c.lots[l]
  BY <1>2, <1>3, <1>4 DEF Book, With, t
<1>6. Sound(c)
  BY <1>1, AddedSound DEF c
<1>7. \A Q : LotsIn(c, Q) =>
         /\ Left(c, Q) \in Int /\ Left(d, Q) = Left(c, Q)
         /\ Left(d, Q \cup {k}) = Left(c, Q) + e.units
  <2> SUFFICES ASSUME NEW Q, LotsIn(c, Q)
               PROVE  /\ Left(c, Q) \in Int /\ Left(d, Q) = Left(c, Q)
                      /\ Left(d, Q \cup {k}) = Left(c, Q) + e.units
    OBVIOUS
  <2> DEFINE f == LeftOf(c)
             g == LeftOf(d)
  <2>1. IsFiniteSet(Q) /\ Ints(f, Q) /\ Left(c, Q) \in Int
    BY <1>6, LeftType
  <2>2. (\A l \in Q : l \in DOMAIN c.lots) /\ k \notin Q
    BY <1>5 DEF LotsIn
  <2>3. (\A l \in Q : g[l] = f[l]) /\ g[k] = e.units
    BY <1>5, <2>2 DEF LeftOf
  <2>4. /\ Left(c, Q) = SumFunctionOnSet(f, Q) /\ Left(d, Q) = SumFunctionOnSet(g, Q)
        /\ Left(d, Q \cup {k}) = SumFunctionOnSet(g, Q \cup {k})
    BY LeftSum
  <2> HIDE DEF f, g
  <2>5. SumFunctionOnSet(g, Q) = SumFunctionOnSet(f, Q)
    BY <2>1, <2>3, SumSame
  <2>6. Ints(g, Q \cup {k})
    BY <1>4, <2>1, <2>3 DEF Ints
  <2>7. SumFunctionOnSet(g, Q \cup {k}) = g[k] + SumFunctionOnSet(g, Q)
    BY <2>1, <2>2, <2>6, SumPut
  <2> QED
    BY <1>4, <2>1, <2>3, <2>4, <2>5, <2>7
<1>8. ASSUME NEW x \in Accounts
      PROVE  Scoped(d, x) = Scoped(c, x) + (IF x = e.acct /\ t # Shared THEN e.units ELSE 0)
  <2> DEFINE Q == {l \in DOMAIN c.lots : c.ledger[l].acct = x /\ c.lots[l].title # Shared}
             P == {l \in DOMAIN d.lots : d.ledger[l].acct = x /\ d.lots[l].title # Shared}
  <2>1. P = IF x = e.acct /\ t # Shared THEN Q \cup {k} ELSE Q
    BY <1>2, <1>5
  <2>2. Scoped(c, x) = Left(c, Q) /\ Scoped(d, x) = Left(d, P)
    BY DEF Scoped
  <2>3. LotsIn(c, Q)
    BY DEF LotsIn
  <2> HIDE DEF P, Q
  <2> QED
    BY <1>7, <2>1, <2>2, <2>3
<1>9. ASSUME NEW x \in Accounts, NEW h \in Titles
      PROVE  TitleUnits(d, x, h) = TitleUnits(c, x, h) + (IF x = e.acct /\ h = t THEN e.units ELSE 0)
  <2> DEFINE Q == Pool(c, x, h)
             P == Pool(d, x, h)
  <2>1. P = IF x = e.acct /\ h = t THEN Q \cup {k} ELSE Q
    BY <1>2, <1>5 DEF Pool
  <2>2. TitleUnits(c, x, h) = Left(c, Q) /\ TitleUnits(d, x, h) = Left(d, P)
    BY DEF TitleUnits
  <2>3. LotsIn(c, Q)
    BY DEF LotsIn, Pool
  <2> HIDE DEF P, Q
  <2> QED
    BY <1>7, <2>1, <2>2, <2>3
<1> QED
  BY <1>5, <1>8, <1>9 DEF LotsShift, c, d, t

\* A payment adds to the purse of its lot.
LEMMA CreditedMoves ==
    ASSUME NEW b, Fine(b), NEW id, id \notin DOMAIN b.paid, NEW e \in Entry, e.units > 0,
           e.source = "google_play" => e.app \in Titles
    PROVE  PurseMoves(b, Credited(b, id, e), e.acct, Lot(e).title, e.units, e.units)
<1> DEFINE d == Insert(b, e)
           f == Credited(b, id, e)
           t == Lot(e).title
<1>1. Sound(b) /\ Book(b)
  BY DEF Fine, Sound
<1>2. Fine(f) /\ Sound(f)
  BY CreditedFine DEF Fine
<1>3. LotsShift(Added(b, e), d, e.acct, t, e.units)
  BY OpenedShifts
<1>4. SameTables(d, f)
  <2>1. Book(d)
    BY <1>1, InsertAppends
  <2>2. f = [d EXCEPT !.paid = With(@, id, Len(b.ledger) + 1)]
    BY DEF Credited
  <2> HIDE DEF d, f
  <2> QED
    BY <2>1, <2>2 DEF SameTables, Book
<1>5. e.units \in Int
  BY DEF Entry
<1> HIDE DEF d, f, t
<1>6. LotsShift(Added(b, e), f, e.acct, t, e.units)
  BY <1>3, <1>4, ShiftSame
<1> QED
  BY <1>1, <1>2, <1>5, <1>6, ShiftMoves DEF f, t

-----------------------------------------------------------------------------
(* Refunds move the purses *)

\* The lots of d are those of c, but p has n units less.
OneLess(c, d, p, n) ==
    /\ DOMAIN d.lots = DOMAIN c.lots
    /\ \A l \in DOMAIN c.lots : d.lots[l].left = c.lots[l].left - (IF l = p THEN n ELSE 0)

\* Which is what pools that hold p have less.
LEMMA LessOf ==
    ASSUME NEW c, Sound(c), NEW d, NEW p, NEW n \in Int, OneLess(c, d, p, n), NEW Q, LotsIn(c, Q)
    PROVE  Left(d, Q) = Left(c, Q) + (IF p \in Q THEN -n ELSE 0)
<1> DEFINE f == LeftOf(c)
           g == LeftOf(d)
<1>1. IsFiniteSet(Q) /\ Ints(f, Q) /\ Left(c, Q) \in Int
  BY LeftType
<1>2. \A l \in Q : l \in DOMAIN c.lots
  BY DEF LotsIn
<1>3. /\ \A l \in Q : f[l] \in Int
      /\ \A l \in Q : g[l] = f[l] - (IF l = p THEN n ELSE 0)
  <2>1. \A l \in Q : f[l] \in Int
    BY <1>1 DEF Ints
  <2>2. \A l \in Q : g[l] = d.lots[l].left /\ f[l] = c.lots[l].left
    BY <1>2 DEF LeftOf, OneLess
  <2> QED
    BY <1>2, <2>1, <2>2 DEF OneLess
<1>4. Left(c, Q) = SumFunctionOnSet(f, Q) /\ Left(d, Q) = SumFunctionOnSet(g, Q)
  BY LeftSum
<1> HIDE DEF f, g
<1>5. CASE p \in Q
  <2>1. g[p] = f[p] - n /\ g[p] \in Int /\ f[p] \in Int
    BY <1>3, <1>5
  <2>2. \A l \in Q \ {p} : g[l] = f[l]
    BY <1>3
  <2>3. SumFunctionOnSet(g, Q) = SumFunctionOnSet(f, Q) + (g[p] - f[p])
    BY <1>1, <1>5, <2>1, <2>2, SumChange
  <2> QED
    BY <1>1, <1>4, <1>5, <2>1, <2>3
<1>6. CASE p \notin Q
  <2>1. \A l \in Q : f[l] = g[l]
    BY <1>3, <1>6
  <2>2. SumFunctionOnSet(f, Q) = SumFunctionOnSet(g, Q)
    BY <1>1, <2>1, SumSame
  <2> QED
    BY <1>1, <1>4, <1>6, <2>2
<1> QED
  BY <1>5, <1>6

\* A refund takes from the purchase's lot, if it has one.
LEMMA RefundShifts ==
    ASSUME NEW b, Fine(b), NEW e \in Entry, e.units < 0, e.source = "google_play",
           NEW p \in DOMAIN b.ledger, p = PurchaseOf(Added(b, e), e.ref),
           p \in DOMAIN b.lots => b.ledger[p].acct = e.acct /\ b.lots[p].title \in Titles
    PROVE  /\ p \in DOMAIN b.lots =>
                 LotsShift(Added(b, e), Insert(b, e), e.acct, b.lots[p].title, e.units)
           /\ p \notin DOMAIN b.lots =>
                 LotsShift(Added(b, e), Insert(b, e), e.acct, Shared, e.units)
<1> DEFINE c == Added(b, e)
           k == Next1(b)
           n == -e.units
           d == Insert(b, e)
<1>1. Sound(b)
  BY DEF Fine
<1>2. /\ Book(c) /\ c.lots = b.lots /\ c.ledger[k] = e
      /\ \A i \in DOMAIN b.ledger : c.ledger[i] = b.ledger[i]
      /\ \A l \in DOMAIN b.lots : l \in DOMAIN b.ledger
  BY <1>1, AddedTables
<1>3. e.units \in Int /\ n \in Int /\ -n = e.units
  BY DEF Entry
<1>4. Sound(c)
  BY <1>1, AddedSound
<1>5. d = Refunded(c, k, n)
  <2>1. ~ (e.units > 0)
    BY <1>3
  <2> QED
    BY <2>1 DEF Insert, Added, Next1
<1>6. PurchaseOf(c, c.ledger[k].ref) = p
  BY <1>2
<1>7. Shared \notin Titles
  BY TokenLedgerAssumption
<1> HIDE DEF c, k, d, n
<1>8. ASSUME p \in DOMAIN b.lots
      PROVE  LotsShift(c, d, e.acct, b.lots[p].title, e.units)
  <2> DEFINE row == [debit |-> k, credit |-> p, units |-> n]
             t == b.lots[p].title
  <2>1. d = [c EXCEPT !.lots[p].left = @ - n, !.traced = @ \cup {row}]
    BY <1>2, <1>5, <1>6, <1>8 DEF Refunded
  <2> HIDE DEF row
  <2>2. d.ledger = c.ledger /\ d.lots = [c.lots EXCEPT ![p].left = @ - n]
    BY <1>2, <2>1 DEF Book
  <2>3. \A l \in DOMAIN b.lots : /\ b.lots[l] \in [title : Titles \cup {Shared}, left : Int]
                                 /\ b.lots[l].left \in Int
    BY <1>1 DEF Sound, Lots
  <2>4. /\ DOMAIN d.lots = DOMAIN c.lots
        /\ \A l \in DOMAIN c.lots : d.lots[l] = IF l = p THEN [b.lots[p] EXCEPT !.left = @ - n] ELSE b.lots[l]
    BY <1>2, <1>8, <2>2
  <2>5. \A l \in DOMAIN c.lots :
            /\ d.lots[l].title = c.lots[l].title
            /\ d.lots[l].left = c.lots[l].left - (IF l = p THEN n ELSE 0)
    BY <1>2, <1>3, <2>3, <2>4
  <2>6. \A Q : LotsIn(c, Q) => /\ Left(d, Q) = Left(c, Q) + (IF p \in Q THEN -n ELSE 0)
                               /\ Left(c, Q) \in Int
    <3>1. OneLess(c, d, p, n)
      BY <2>4, <2>5 DEF OneLess
    <3> QED
      BY <1>3, <1>4, <3>1, LessOf, LeftType
  <2>7. p \in DOMAIN c.lots /\ c.ledger[p].acct = e.acct /\ c.lots[p].title = t /\ t # Shared /\ t \in Titles
    BY <1>2, <1>7, <1>8
  <2>8. ASSUME NEW x \in Accounts
        PROVE  Scoped(d, x) = Scoped(c, x) + (IF x = e.acct /\ t # Shared THEN e.units ELSE 0)
    <3> DEFINE Q == {l \in DOMAIN c.lots : c.ledger[l].acct = x /\ c.lots[l].title # Shared}
    <3>1. {l \in DOMAIN d.lots : d.ledger[l].acct = x /\ d.lots[l].title # Shared} = Q
      BY <2>2, <2>4, <2>5
    <3>2. Scoped(c, x) = Left(c, Q) /\ Scoped(d, x) = Left(d, Q)
      BY <3>1 DEF Scoped
    <3>3. LotsIn(c, Q) /\ (p \in Q <=> x = e.acct)
      BY <2>7 DEF LotsIn
    <3> HIDE DEF Q, t
    <3> QED
      BY <1>3, <2>6, <2>7, <3>2, <3>3
  <2>9. ASSUME NEW x \in Accounts, NEW h \in Titles
        PROVE  TitleUnits(d, x, h) = TitleUnits(c, x, h) + (IF x = e.acct /\ h = t THEN e.units ELSE 0)
    <3> DEFINE Q == Pool(c, x, h)
    <3>1. Pool(d, x, h) = Q
      BY <2>2, <2>4, <2>5 DEF Pool
    <3>2. TitleUnits(c, x, h) = Left(c, Q) /\ TitleUnits(d, x, h) = Left(d, Q)
      BY <3>1 DEF TitleUnits
    <3>3. LotsIn(c, Q) /\ (p \in Q <=> x = e.acct /\ h = t)
      BY <2>7 DEF LotsIn, Pool
    <3> HIDE DEF Q, t
    <3> QED
      BY <1>3, <2>6, <3>2, <3>3
  <2> QED
    BY <2>2, <2>8, <2>9 DEF LotsShift
<1>9. ASSUME p \notin DOMAIN b.lots
      PROVE  LotsShift(c, d, e.acct, Shared, e.units)
  <2>1. d.ledger = c.ledger /\ d.lots = c.lots
    BY <1>2, <1>5, <1>6, <1>9 DEF Refunded, Book
  <2>2. \A x \in Accounts : /\ Scoped(c, x) \in Int
                            /\ \A h \in Titles : TitleUnits(c, x, h) \in Int
    BY <1>4, PurseParts
  <2>3. \A x : Scoped(d, x) = Scoped(c, x)
    BY <2>1 DEF Scoped, Left
  <2>4. \A x, h : TitleUnits(d, x, h) = TitleUnits(c, x, h)
    BY <2>1 DEF TitleUnits, Left, Pool
  <2>5. \A h \in Titles : h # Shared
    BY <1>7
  <2>6. \A x \in Accounts : Scoped(d, x) = Scoped(c, x) + 0
    BY <2>2, <2>3
  <2>7. \A x \in Accounts, h \in Titles : TitleUnits(d, x, h) = TitleUnits(c, x, h) + 0
    BY <2>2, <2>4
  <2> QED
    BY <2>1, <2>5, <2>6, <2>7 DEF LotsShift
<1> QED
  BY <1>8, <1>9 DEF c, d

\* Every new credit has its lot, and no purchase of the history is credited again.
Opened(b) ==
    /\ \A i \in New(b) : b.ledger[i].units > 0 => i \in DOMAIN b.lots
    /\ \A s \in DOMAIN Sale : Historic(s) => \A i \in New(b) : ~ IsPurchase(b.ledger[i], s)

\* The purse that a purchase is in.
SaleTitle(s) == IF Historic(s) THEN Shared ELSE Sale[s].app

\* A refund takes from the purse of its purchase, whatever that holds.
LEMMA RefundMoves ==
    ASSUME NEW b, NEW rows, Books(b, rows), Opened(b), NEW s \in DOMAIN Sale, rows[s] # "new",
           NEW n \in Amounts
    PROVE  PurseMoves(b, Insert(b, [SaleEntry(s) EXCEPT !.units = -n]),
                      Sale[s].acct, SaleTitle(s), -n, -n)
<1> DEFINE e == [SaleEntry(s) EXCEPT !.units = -n]
           c == Insert(b, e)
           d == Added(b, e)
           p == PurchaseOf(d, e.ref)
<1>1. Fine(b) /\ Sound(b) /\ Book(b) /\ SoldEntries(b) /\ SoldIn(b, rows)
  BY DEF Books, Fine, Sound
<1>2. /\ e \in Entry /\ e.units = -n /\ e.source = "google_play" /\ e.ref = s
      /\ e.acct = Sale[s].acct /\ e.units < 0 /\ -n \in Int
      /\ \A x : ~ IsPurchase(e, x)
  BY TokenAccountsAssumption DEF SaleEntry, Entry, Sources, Refs, IsPurchase
<1>3. Books(c, rows)
  BY RefundBooks
<1> HIDE DEF e
<1>4. /\ DOMAIN d.ledger = DOMAIN b.ledger \cup {Next1(b)}
      /\ \A i \in DOMAIN b.ledger : d.ledger[i] = b.ledger[i]
      /\ d.ledger[Next1(b)] = e
  BY <1>1, <1>2, AddedTables
<1> HIDE DEF d
<1>5. p \in DOMAIN b.ledger /\ IsPurchase(b.ledger[p], s)
  <2>1. PICK i \in DOMAIN b.ledger : IsPurchase(b.ledger[i], s)
    BY <1>1 DEF SoldIn
  <2>2. i \in DOMAIN d.ledger /\ IsPurchase(d.ledger[i], s)
    BY <1>4, <2>1
  <2>3. p = CHOOSE j \in DOMAIN d.ledger : IsPurchase(d.ledger[j], s)
    BY <1>2 DEF PurchaseOf, IsPurchase
  <2> HIDE DEF p
  <2>4. p \in DOMAIN d.ledger /\ IsPurchase(d.ledger[p], s)
    BY <2>2, <2>3
  <2> QED
    BY <1>2, <1>4, <2>4
<1> HIDE DEF c, p
<1>6. Sound(c)
  BY <1>3 DEF Books, Fine
<1>7. p \in DOMAIN b.lots <=> ~ Historic(s)
  <2>1. ASSUME p \in DOMAIN b.lots PROVE ~ Historic(s)
    <3>1. p \in New(b)
      BY <1>1, <2>1 DEF Sound, Lots
    <3> QED
      BY <1>5, <3>1 DEF Opened
  <2>2. ASSUME ~ Historic(s) PROVE p \in DOMAIN b.lots
    <3>1. p \notin DOMAIN History
      <4> SUFFICES ASSUME p \in DOMAIN History PROVE FALSE
        OBVIOUS
      <4>1. History[p] = b.ledger[p]
        BY <1>1 DEF Sound, Lots
      <4> QED
        BY <1>5, <2>2, <4>1 DEF Historic, IsPurchase
    <3>2. p \in New(b)
      BY <1>5, <3>1 DEF New
    <3> QED
      BY <1>5, <3>2 DEF Opened, IsPurchase
  <2> QED
    BY <2>1, <2>2
<1>8. p \in DOMAIN b.lots => /\ b.ledger[p].acct = e.acct
                             /\ b.lots[p].title = Sale[s].app /\ b.lots[p].title \in Titles
  <2> SUFFICES ASSUME p \in DOMAIN b.lots
               PROVE  /\ b.ledger[p].acct = e.acct
                      /\ b.lots[p].title = Sale[s].app /\ Sale[s].app \in Titles
    OBVIOUS
  <2>1. p \in New(b) /\ b.lots[p].title = Lot(b.ledger[p]).title
    BY <1>1 DEF Sound, Lots
  <2>2. b.ledger[p].acct = Sale[s].acct /\ b.ledger[p].app = Sale[s].app
    BY <1>1, <1>5, <2>1 DEF SoldEntries, IsPurchase
  <2>3. Lot(b.ledger[p]).title = Sale[s].app
    BY <1>5, <2>2 DEF Lot, IsPurchase
  <2> QED
    BY <1>2, <2>1, <2>2, <2>3, TokenAccountsAssumption
<1>9. /\ p \in DOMAIN b.lots => LotsShift(d, c, e.acct, b.lots[p].title, e.units)
      /\ p \notin DOMAIN b.lots => LotsShift(d, c, e.acct, Shared, e.units)
  BY <1>1, <1>2, <1>5, <1>8, RefundShifts DEF p, c, d
<1>10. LotsShift(d, c, e.acct, SaleTitle(s), e.units)
  BY <1>7, <1>8, <1>9 DEF SaleTitle
<1>11. PurseMoves(b, c, e.acct, SaleTitle(s), e.units, e.units)
  BY <1>1, <1>2, <1>6, <1>10, ShiftMoves DEF d
<1> QED
  BY <1>2, <1>11 DEF c, e

-----------------------------------------------------------------------------

\* What was refunded of a purchase is a natural.
LEMMA RefundedType ==
    ASSUME NEW b, b.ledger \in Seq(Entry), NEW s
    PROVE  /\ IsFiniteSet(RefundsOf(b, s)) /\ Ints(Units(b.ledger), RefundsOf(b, s))
           /\ RefundedUnits(b, s) \in Nat
<1> DEFINE S == RefundsOf(b, s)
           f == Units(b.ledger)
           none == [i \in S |-> 0]
           g == [i \in S |-> 0 - f[i]]
<1>1. IsFiniteSet(DOMAIN b.ledger)
  <2>1. DOMAIN b.ledger = 1 .. Len(b.ledger) /\ Len(b.ledger) \in Nat
    OBVIOUS
  <2>2. IsFiniteSet(1 .. Len(b.ledger))
    BY <2>1, FS_Interval
  <2> QED
    BY <2>1, <2>2
<1>2. IsFiniteSet(S)
  BY <1>1, FS_Subset DEF RefundsOf
<1>3. \A i \in S : f[i] \in Int /\ f[i] < 0
  <2>1. \A i \in DOMAIN b.ledger : b.ledger[i] \in Entry
    OBVIOUS
  <2> QED
    BY <2>1 DEF RefundsOf, Units, Entry
<1>4. Ints(f, S) /\ Ints(none, S)
  BY <1>3 DEF Ints
<1>5. \A i \in S : g[i] = none[i] - f[i] /\ none[i] = 0
  OBVIOUS
<1>6. \A i \in S : g[i] \in Nat
  BY <1>3
<1>7. RefundedUnits(b, s) = -SumFunctionOnSet(f, S)
  BY DEF RefundedUnits
<1> HIDE DEF f, g, S, none
<1>8. SumFunctionOnSet(g, S) \in Nat
  BY <1>2, <1>6, SumNatural
<1>9. SumFunctionOnSet(g, S) = SumFunctionOnSet(none, S) - SumFunctionOnSet(f, S)
  BY <1>2, <1>4, <1>5, SumLess
<1>10. SumFunctionOnSet(none, S) = 0 /\ SumFunctionOnSet(f, S) \in Int
  BY <1>2, <1>4, <1>5, SumZero, SumType
<1> QED
  BY <1>2, <1>4, <1>7, <1>8, <1>9, <1>10 DEF f, S

\* A receipt more is a refund more, or none.
LEMMA RefundedGrows ==
    ASSUME NEW b, Sound(b), NEW e \in Entry, NEW c, OneMore(b, c, e), NEW s
    PROVE  RefundedUnits(c, s) = RefundedUnits(b, s)
              + (IF e.source = "google_play" /\ e.ref = s /\ e.units < 0 THEN -e.units ELSE 0)
<1> DEFINE S == RefundsOf(b, s)
           f == Units(b.ledger)
           T == RefundsOf(c, s)
           g == Units(c.ledger)
           k == Next1(b)
           is == e.source = "google_play" /\ e.ref = s /\ e.units < 0
<1>1. /\ k \notin DOMAIN b.ledger /\ DOMAIN c.ledger = DOMAIN b.ledger \cup {k}
      /\ \A i \in DOMAIN b.ledger : c.ledger[i] = b.ledger[i]
      /\ c.ledger[k] = e
  BY OneMoreParts
<1>2. e.units \in Int
  BY DEF Entry
<1> HIDE DEF k
<1>3. T = IF is THEN S \cup {k} ELSE S
  BY <1>1 DEF RefundsOf
<1>4. S \subseteq DOMAIN b.ledger
  BY DEF RefundsOf
<1>5. (\A i \in S : g[i] = f[i]) /\ g[k] = e.units /\ k \notin S
  BY <1>1, <1>4 DEF Units
<1>6. IsFiniteSet(S) /\ Ints(f, S)
  BY RefundedType DEF Sound
<1>7. RefundedUnits(b, s) = -SumFunctionOnSet(f, S) /\ RefundedUnits(c, s) = -SumFunctionOnSet(g, T)
  BY DEF RefundedUnits
<1> HIDE DEF S, T, f, g, is
<1>8. SumFunctionOnSet(g, S) = SumFunctionOnSet(f, S) /\ SumFunctionOnSet(f, S) \in Int
  BY <1>5, <1>6, SumSame, SumType
<1>9. Ints(g, S \cup {k})
  BY <1>2, <1>5, <1>6 DEF Ints
<1>10. SumFunctionOnSet(g, S \cup {k}) = g[k] + SumFunctionOnSet(g, S)
  BY <1>5, <1>6, <1>9, SumPut
<1> QED
  BY <1>2, <1>3, <1>5, <1>7, <1>8, <1>10 DEF is

-----------------------------------------------------------------------------
(* What is bought and not refunded *)

\* No more is refunded of a purchase than its units, and of a new one nothing.
Refunds(b, rows) ==
    \A s \in DOMAIN Sale :
        /\ RefundedUnits(b, s) <= Sale[s].units
        /\ rows[s] = "new" => RefundedUnits(b, s) = 0

\* What is bought of each sale and not refunded.
Held(b) == [s \in DOMAIN Sale |-> Sale[s].units - RefundedUnits(b, s)]

\* What an account has by purse.
Grid == [Accounts -> [Purses -> Int]]

\* q has n more in one place than p.
GridAdds(p, q, a, t, n) ==
    \A x \in Accounts, k \in Purses : q[x][k] = p[x][k] + (IF x = a /\ k = t THEN n ELSE 0)

\* Then q is p with that place changed.
LEMMA GridExcept ==
    ASSUME NEW p \in Grid, NEW q \in Grid, NEW a \in Accounts, NEW t \in Purses, NEW n \in Int,
           GridAdds(p, q, a, t, n)
    PROVE  q = [p EXCEPT ![a][t] = @ + n]
<1> DEFINE r == [p EXCEPT ![a][t] = @ + n]
<1>1. \A x \in Accounts, k \in Purses : q[x][k] = p[x][k] + (IF x = a /\ k = t THEN n ELSE 0)
  BY DEF GridAdds
<1>2. /\ DOMAIN q = Accounts /\ \A x \in Accounts : q[x] \in [Purses -> Int]
      /\ DOMAIN p = Accounts /\ \A x \in Accounts : p[x] \in [Purses -> Int]
  BY DEF Grid
<1>3. r \in [Accounts -> [Purses -> Int]]
  <2>1. p[a] \in [Purses -> Int] /\ p[a][t] + n \in Int
    BY <1>2
  <2> QED
    BY <2>1 DEF Grid
<1>4. \A x \in Accounts, k \in Purses : r[x][k] = IF x = a /\ k = t THEN p[x][k] + n ELSE p[x][k]
  BY <1>2
<1> HIDE DEF r
<1>5. ASSUME NEW x \in Accounts
      PROVE  q[x] = r[x]
  <2>1. q[x] \in [Purses -> Int] /\ r[x] \in [Purses -> Int]
    BY <1>2, <1>3
  <2>2. ASSUME NEW k \in Purses PROVE q[x][k] = r[x][k]
    <3>1. /\ q[x][k] = p[x][k] + (IF x = a /\ k = t THEN n ELSE 0)
          /\ r[x][k] = IF x = a /\ k = t THEN p[x][k] + n ELSE p[x][k]
      BY <1>1, <1>4
    <3>2. p[x][k] \in Int
      BY <1>2
    <3> QED
      BY <3>1, <3>2
  <2> QED
    BY <2>1, <2>2
<1>6. q = r
  <2> DEFINE R == [Purses -> Int]
  <2>1. q \in [Accounts -> R] /\ r \in [Accounts -> R]
    BY <1>3 DEF Grid
  <2> HIDE DEF R
  <2> QED
    BY <2>1, <1>5
<1> QED
  BY <1>6 DEF r

\* What is bought for a title is a sum over its purchases, and a natural.
LEMMA BoughtParts ==
    ASSUME NEW b, Sound(b), NEW rows, SoldIn(b, rows), Refunds(b, rows)
    PROVE  /\ BoughtOf(b, rows) \in [Accounts -> [Purses -> Nat]]
           /\ \A x \in Accounts, k \in Purses :
                 /\ IsFiniteSet(BoughtFor(rows, x, k))
                 /\ \A s \in BoughtFor(rows, x, k) : Held(b)[s] \in Nat
                 /\ BoughtOf(b, rows)[x][k] = SumFunctionOnSet(Held(b), BoughtFor(rows, x, k))
<1>1. \A s \in DOMAIN Sale : Held(b)[s] \in Nat
  <2> SUFFICES ASSUME NEW s \in DOMAIN Sale PROVE Held(b)[s] \in Nat
    OBVIOUS
  <2>1. RefundedUnits(b, s) \in Nat /\ RefundedUnits(b, s) <= Sale[s].units /\ Sale[s].units \in Nat
    BY RefundedType, TokenAccountsAssumption DEF Sound, Refunds
  <2> QED
    BY <2>1 DEF Held
<1>2. ASSUME NEW x, NEW k
      PROVE  IsFiniteSet(BoughtFor(rows, x, k)) /\ BoughtFor(rows, x, k) \subseteq DOMAIN Sale
  <2> DEFINE S == BoughtFor(rows, x, k)
             at == [s \in S |-> CHOOSE i \in DOMAIN b.ledger : IsPurchase(b.ledger[i], s)]
  <2>1. IsFiniteSet(DOMAIN b.ledger)
    BY LotsFinite
  <2>2. \A s \in S : at[s] \in DOMAIN b.ledger /\ b.ledger[at[s]].ref = s
    <3> SUFFICES ASSUME NEW s \in S PROVE at[s] \in DOMAIN b.ledger /\ b.ledger[at[s]].ref = s
      OBVIOUS
    <3>1. \E i \in DOMAIN b.ledger : IsPurchase(b.ledger[i], s)
      BY DEF BoughtFor, SoldIn
    <3>2. at[s] \in DOMAIN b.ledger /\ IsPurchase(b.ledger[at[s]], s)
      BY <3>1
    <3> QED
      BY <3>2 DEF IsPurchase
  <2>3. at \in [S -> DOMAIN b.ledger]
    <3>1. DOMAIN at = S /\ at = [s \in S |-> at[s]]
      OBVIOUS
    <3> HIDE DEF at
    <3> QED
      BY <2>2, <3>1
  <2> HIDE DEF at
  <2>4. at \in Injection(S, DOMAIN b.ledger)
    BY <2>2, <2>3 DEF Injection, IsInjective
  <2>5. IsFiniteSet(S)
    BY <2>1, <2>4, FS_Injection
  <2> QED
    BY <2>5 DEF BoughtFor
<1>3. ASSUME NEW x, NEW k
      PROVE  /\ SumFunction([s \in BoughtFor(rows, x, k) |-> Sale[s].units - RefundedUnits(b, s)])
                  = SumFunctionOnSet(Held(b), BoughtFor(rows, x, k))
             /\ SumFunctionOnSet(Held(b), BoughtFor(rows, x, k)) \in Nat
  <2> DEFINE S == BoughtFor(rows, x, k)
             f == [s \in S |-> Sale[s].units - RefundedUnits(b, s)]
             g == Held(b)
  <2>1. IsFiniteSet(S) /\ \A s \in S : g[s] \in Nat
    BY <1>1, <1>2
  <2>2. \A s \in S : f[s] = g[s]
    BY <1>2 DEF Held
  <2>3. SumFunction(f) = SumFunctionOnSet(f, S)
    BY DEF SumFunction
  <2> HIDE DEF S, f, g
  <2>4. Ints(g, S)
    BY <2>1 DEF Ints
  <2>5. SumFunctionOnSet(g, S) = SumFunctionOnSet(f, S)
    BY <2>1, <2>2, <2>4, SumSame
  <2>6. SumFunctionOnSet(g, S) \in Nat
    BY <2>1, SumNatural
  <2>7. SumFunction(f) = SumFunctionOnSet(g, S)
    BY <2>3, <2>5
  <2> QED
    BY <2>6, <2>7 DEF f, g, S
<1>4. BoughtOf(b, rows) = [x \in Accounts |-> [k \in Purses |->
                              SumFunctionOnSet(Held(b), BoughtFor(rows, x, k))]]
  BY <1>3 DEF BoughtOf, Purses
<1> DEFINE V(x, k) == SumFunctionOnSet(Held(b), BoughtFor(rows, x, k))
<1>5. BoughtOf(b, rows) = [x \in Accounts |-> [k \in Purses |-> V(x, k)]]
  BY <1>4
<1>6. \A x \in Accounts, k \in Purses : V(x, k) \in Nat
  BY <1>3
<1> HIDE DEF V
<1>7. BoughtOf(b, rows) \in [Accounts -> [Purses -> Nat]]
  <2>1. \A x \in Accounts : [k \in Purses |-> V(x, k)] \in [Purses -> Nat]
    BY <1>6
  <2> QED
    BY <1>5, <2>1
<1>8. \A x \in Accounts, k \in Purses : BoughtOf(b, rows)[x][k] = V(x, k)
  BY <1>5
<1>9. \A x \in Accounts, k \in Purses :
         BoughtOf(b, rows)[x][k] = SumFunctionOnSet(Held(b), BoughtFor(rows, x, k))
  BY <1>8 DEF V
<1>10. \A x \in Accounts, k \in Purses :
         /\ IsFiniteSet(BoughtFor(rows, x, k))
         /\ \A s \in BoughtFor(rows, x, k) : Held(b)[s] \in Nat
  BY <1>1, <1>2
<1> QED
  BY <1>7, <1>9, <1>10

\* Where the same purchases are made and as much is refunded, as much is bought.
LEMMA BoughtSame ==
    ASSUME NEW b, NEW c, NEW rows, NEW after,
           \A s \in DOMAIN Sale : after[s] = "new" <=> rows[s] = "new",
           \A s \in DOMAIN Sale : RefundedUnits(c, s) = RefundedUnits(b, s)
    PROVE  BoughtOf(c, after) = BoughtOf(b, rows)
<1>1. \A x, k : BoughtFor(after, x, k) = BoughtFor(rows, x, k)
  BY DEF BoughtFor
<1>2. \A x, k : [s \in BoughtFor(rows, x, k) |-> Sale[s].units - RefundedUnits(c, s)]
                  = [s \in BoughtFor(rows, x, k) |-> Sale[s].units - RefundedUnits(b, s)]
  BY DEF BoughtFor
<1> QED
  BY <1>1, <1>2 DEF BoughtOf

\* The same for a place that has less.
LEMMA GridLess ==
    ASSUME NEW p \in Grid, NEW q \in Grid, NEW a \in Accounts, NEW t \in Purses, NEW n \in Int,
           GridAdds(p, q, a, t, -n)
    PROVE  q = [p EXCEPT ![a][t] = @ - n]
<1>1. q = [p EXCEPT ![a][t] = @ + (-n)]
  BY GridExcept
<1>2. p[a][t] \in Int
  BY DEF Grid
<1>3. p[a][t] + (-n) = p[a][t] - n
  BY <1>2
<1> QED
  BY <1>1, <1>3

\* The types of both grids.
LEMMA GridType ==
    ASSUME NEW b, Sound(b), NEW rows, SoldIn(b, rows), Refunds(b, rows)
    PROVE  PurseOf(b) \in Grid /\ BoughtOf(b, rows) \in Grid
<1>1. BoughtOf(b, rows) \in [Accounts -> [Purses -> Nat]]
  BY BoughtParts
<1>2. [Purses -> Nat] \subseteq [Purses -> Int]
  OBVIOUS
<1>3. BoughtOf(b, rows) \in Grid
  BY <1>1, <1>2 DEF Grid
<1>4. PurseOf(b) \in Grid
  BY PurseParts DEF Grid
<1> QED
  BY <1>3, <1>4

\* A purchase adds what was bought for its title.
LEMMA BoughtGains ==
    ASSUME NEW b, Sound(b), NEW rows, SoldIn(b, rows), Refunds(b, rows),
           NEW c, Sound(c), NEW after, SoldIn(c, after), Refunds(c, after),
           NEW s \in DOMAIN Sale, ~ Historic(s), rows[s] = "new", after[s] # "new",
           \A r \in DOMAIN Sale \ {s} : after[r] = "new" <=> rows[r] = "new",
           \A r \in DOMAIN Sale : RefundedUnits(c, r) = RefundedUnits(b, r)
    PROVE  BoughtOf(c, after)
              = [BoughtOf(b, rows) EXCEPT ![Sale[s].acct][Sale[s].app] = @ + Sale[s].units]
<1> DEFINE a == Sale[s].acct
           t == Sale[s].app
           n == Sale[s].units
<1>1. a \in Accounts /\ t \in Purses /\ n \in Int
  BY TokenAccountsAssumption DEF Purses
<1>2. Held(c) = Held(b)
  BY DEF Held
<1>3. Held(b)[s] = n
  <2>1. RefundedUnits(b, s) = 0
    BY DEF Refunds
  <2> QED
    BY <1>1, <2>1 DEF Held
<1>4. ASSUME NEW x \in Accounts, NEW k \in Purses
      PROVE  BoughtOf(c, after)[x][k]
                = BoughtOf(b, rows)[x][k] + (IF x = a /\ k = t THEN n ELSE 0)
  <2> DEFINE S == BoughtFor(rows, x, k)
             T == BoughtFor(after, x, k)
             f == Held(b)
  <2>1. /\ IsFiniteSet(S) /\ \A r \in S : f[r] \in Nat
        /\ BoughtOf(b, rows)[x][k] = SumFunctionOnSet(f, S)
        /\ BoughtOf(b, rows)[x][k] \in Nat
    BY BoughtParts
  <2>2. /\ IsFiniteSet(T) /\ \A r \in T : f[r] \in Nat
        /\ BoughtOf(c, after)[x][k] = SumFunctionOnSet(f, T)
    BY BoughtParts, <1>2
  <2>3. s \notin S
    BY DEF BoughtFor
  <2>4. CASE x = a /\ k = t
    <3>1. T = S \cup {s}
      BY <2>4 DEF BoughtFor
    <3>2. Ints(f, S \cup {s})
      BY <2>2, <3>1 DEF Ints
    <3> HIDE DEF S, T, f
    <3>3. SumFunctionOnSet(f, T) = f[s] + SumFunctionOnSet(f, S)
      BY <2>1, <2>3, <3>1, <3>2, SumPut
    <3> QED
      BY <1>1, <1>3, <2>1, <2>2, <2>4, <3>3 DEF f
  <2>5. CASE ~ (x = a /\ k = t)
    <3>1. T = S
      BY <2>5 DEF BoughtFor
    <3> QED
      BY <2>1, <2>2, <2>5, <3>1
  <2> QED
    BY <2>4, <2>5
<1>5. BoughtOf(b, rows) \in Grid /\ BoughtOf(c, after) \in Grid
  BY GridType
<1>6. GridAdds(BoughtOf(b, rows), BoughtOf(c, after), a, t, n)
  BY <1>4 DEF GridAdds
<1> QED
  BY <1>1, <1>5, <1>6, GridExcept

\* A refund takes what it refunds from what was bought.
LEMMA BoughtDrops ==
    ASSUME NEW b, Sound(b), NEW rows, SoldIn(b, rows), Refunds(b, rows),
           NEW c, Sound(c), NEW after, SoldIn(c, after), Refunds(c, after),
           NEW s \in DOMAIN Sale, rows[s] # "new", NEW n \in Nat, n <= Held(b)[s],
           \A r \in DOMAIN Sale : after[r] = "new" <=> rows[r] = "new",
           \A r \in DOMAIN Sale :
              RefundedUnits(c, r) = RefundedUnits(b, r) + (IF r = s THEN n ELSE 0)
    PROVE  /\ n <= BoughtOf(b, rows)[Sale[s].acct][SaleTitle(s)]
           /\ BoughtOf(c, after)
                = [BoughtOf(b, rows) EXCEPT ![Sale[s].acct][SaleTitle(s)] = @ - n]
<1> DEFINE a == Sale[s].acct
           t == SaleTitle(s)
<1>1. a \in Accounts /\ t \in Purses
  BY TokenAccountsAssumption DEF Purses, SaleTitle
<1>2. \A r \in DOMAIN Sale : Held(b)[r] \in Int /\ Held(c)[r] = Held(b)[r] - (IF r = s THEN n ELSE 0)
  <2> SUFFICES ASSUME NEW r \in DOMAIN Sale
               PROVE  Held(b)[r] \in Int /\ Held(c)[r] = Held(b)[r] - (IF r = s THEN n ELSE 0)
    OBVIOUS
  <2>1. Sale[r].units \in Int /\ RefundedUnits(b, r) \in Int
    BY TokenAccountsAssumption, RefundedType DEF Sound
  <2> QED
    BY <2>1 DEF Held
<1>3. \A x, k : BoughtFor(after, x, k) = BoughtFor(rows, x, k)
  BY DEF BoughtFor
<1>4. ASSUME NEW x \in Accounts, NEW k \in Purses
      PROVE  /\ BoughtOf(c, after)[x][k]
                  = BoughtOf(b, rows)[x][k] + (IF x = a /\ k = t THEN -n ELSE 0)
             /\ x = a /\ k = t => n <= BoughtOf(b, rows)[x][k]
  <2> DEFINE S == BoughtFor(rows, x, k)
             f == Held(b)
             g == Held(c)
  <2>1. /\ IsFiniteSet(S) /\ \A r \in S : f[r] \in Nat
        /\ BoughtOf(b, rows)[x][k] = SumFunctionOnSet(f, S)
        /\ BoughtOf(b, rows)[x][k] \in Nat
    BY BoughtParts
  <2>2. /\ \A r \in S : g[r] \in Nat
        /\ BoughtOf(c, after)[x][k] = SumFunctionOnSet(g, S)
    BY BoughtParts, <1>3
  <2>3. Ints(f, S) /\ S \subseteq DOMAIN Sale
    BY <2>1 DEF Ints, BoughtFor
  <2>4. CASE x = a /\ k = t
    <3>1. s \in S
      BY <2>4 DEF BoughtFor, SaleTitle
    <3>2. IsFiniteSet(S \ {s}) /\ \A r \in S \ {s} : f[r] \in Nat
      BY <2>1, FS_RemoveElement
    <3>3. \A r \in S \ {s} : g[r] = f[r]
      BY <1>2, <2>1, <2>3
    <3>4. g[s] = f[s] - n /\ f[s] \in Int /\ g[s] \in Int
      BY <1>2
    <3> HIDE DEF S, f, g
    <3>5. SumFunctionOnSet(f, S) = f[s] + SumFunctionOnSet(f, S \ {s})
      BY <2>1, <2>3, <3>1, SumTake
    <3>6. SumFunctionOnSet(f, S \ {s}) \in Nat
      BY <3>2, SumNatural
    <3>7. SumFunctionOnSet(g, S) = SumFunctionOnSet(f, S) + (g[s] - f[s])
      BY <2>1, <2>3, <3>1, <3>3, <3>4, SumChange
    <3>8. n <= f[s]
      BY DEF f
    <3> QED
      BY <2>1, <2>2, <2>4, <3>4, <3>5, <3>6, <3>7, <3>8
  <2>5. CASE ~ (x = a /\ k = t)
    <3>1. s \notin S
      BY <2>5 DEF BoughtFor, SaleTitle
    <3>2. \A r \in S : f[r] = g[r]
      BY <1>2, <2>3, <3>1
    <3> HIDE DEF S, f, g
    <3>3. SumFunctionOnSet(f, S) = SumFunctionOnSet(g, S)
      BY <2>1, <2>3, <3>2, SumSame
    <3> QED
      BY <2>1, <2>2, <2>5, <3>3
  <2> QED
    BY <2>4, <2>5
<1>5. BoughtOf(b, rows) \in Grid /\ BoughtOf(c, after) \in Grid
  BY GridType
<1>6. BoughtOf(c, after) = [BoughtOf(b, rows) EXCEPT ![a][t] = @ - n]
  <2>1. GridAdds(BoughtOf(b, rows), BoughtOf(c, after), a, t, -n)
    BY <1>4 DEF GridAdds
  <2> QED
    BY <1>1, <1>5, <2>1, GridLess
<1> QED
  BY <1>1, <1>4, <1>6

-----------------------------------------------------------------------------
(* The invariant, kept by every change of the books *)

\* The forms of a payment and of a nonce.
Pair(x) == \E y, z : x = <<y, z>>
Triple(x) == \E w, y, z : x = <<w, y, z>>

\* A payment is known by its provider and its id, and a spend by three parts.
Shaped(b) ==
    /\ \A id \in DOMAIN b.paid : Pair(id)
    /\ \A x \in DOMAIN b.nonces : Triple(x)

\* What the purses need of the books beside their order.
Deep(b, rows) == Opened(b) /\ Refunds(b, rows) /\ Shaped(b)

\* No payment is a nonce.
LEMMA PairNoTriple == \A x : ~ (Pair(x) /\ Triple(x))
<1> SUFFICES ASSUME NEW x, Pair(x), Triple(x) PROVE FALSE
  OBVIOUS
<1>1. PICK y, z : x = <<y, z>>
  BY DEF Pair
<1>2. PICK u, v, w : x = <<u, v, w>>
  BY DEF Triple
<1>3. DOMAIN <<y, z>> = 1 .. 2 /\ DOMAIN <<u, v, w>> = 1 .. 3
  OBVIOUS
<1>4. 3 \in 1 .. 3 /\ 3 \notin 1 .. 2
  OBVIOUS
<1> QED
  BY <1>1, <1>2, <1>3, <1>4

\* A credit opens a lot, and nothing closes one.
LEMMA InsertLots ==
    ASSUME NEW b, Book(b), NEW e
    PROVE  DOMAIN Insert(b, e).lots
              = DOMAIN b.lots \cup (IF e.units > 0 THEN {Next1(b)} ELSE {})
<1> DEFINE next == [b EXCEPT !.ledger = Append(@, e)]
           i    == Len(b.ledger) + 1
<1>1. Book(next) /\ next.lots = b.lots
  BY DEF Book
<1>2. CASE e.units > 0
  <2>1. Insert(b, e) = [next EXCEPT !.lots = With(@, i, Lot(e))]
    BY <1>2 DEF Insert
  <2> HIDE DEF next, i
  <2>2. Insert(b, e).lots = With(b.lots, i, Lot(e))
    BY <1>1, <2>1 DEF Book
  <2> QED
    BY <1>2, <2>2 DEF With, Next1, i
<1>3. CASE ~(e.units > 0) /\ e.source = "google_play"
  <2>1. Insert(b, e) = Refunded(next, i, -e.units)
    BY <1>3 DEF Insert
  <2> HIDE DEF next, i
  <2>2. DOMAIN Refunded(next, i, -e.units).lots = DOMAIN next.lots
    BY <1>1 DEF Refunded, Book
  <2> QED
    BY <1>1, <1>3, <2>1, <2>2
<1>4. CASE ~(e.units > 0) /\ e.source # "google_play"
  <2>1. Insert(b, e) = Debited(next, i, -e.units)
    BY <1>4 DEF Insert
  <2> HIDE DEF next, i
  <2>2. \A c, j, title, n : Book(c) => Book(Consume(c, j, title, n))
                                       /\ DOMAIN Consume(c, j, title, n).lots = DOMAIN c.lots
    BY DEF Consume, Book
  <2>3. DOMAIN Debited(next, i, -e.units).lots = DOMAIN next.lots
    BY <1>1, <2>2 DEF Debited
  <2> QED
    BY <1>1, <1>4, <2>1, <2>3
<1> QED
  BY <1>2, <1>3, <1>4

\* A receipt keeps this if no purchase of the history is credited again and no refund
\* is of more than is held.
LEMMA DeepAdds ==
    ASSUME NEW b, NEW rows, Books(b, rows), Deep(b, rows), NEW e \in Entry, NEW c, Sound(c),
           OneMore(b, c, e), Shaped(c), NEW after,
           DOMAIN c.lots = DOMAIN b.lots \cup (IF e.units > 0 THEN {Next1(b)} ELSE {}),
           \A s \in DOMAIN Sale : Historic(s) => ~ IsPurchase(e, s),
           \A s \in DOMAIN Sale : after[s] = "new" => rows[s] = "new",
           \A s \in DOMAIN Sale : e.source = "google_play" /\ e.ref = s /\ e.units < 0 =>
                                      after[s] # "new" /\ -e.units <= Held(b)[s]
    PROVE  /\ Deep(c, after)
           /\ \A s \in DOMAIN Sale :
                 RefundedUnits(c, s) = RefundedUnits(b, s)
                    + (IF e.source = "google_play" /\ e.ref = s /\ e.units < 0 THEN -e.units ELSE 0)
<1>1. Sound(b) /\ b.ledger \in Seq(Entry)
  BY DEF Books, Fine, Sound
<1>2. \A s \in DOMAIN Sale :
         RefundedUnits(c, s) = RefundedUnits(b, s)
            + (IF e.source = "google_play" /\ e.ref = s /\ e.units < 0 THEN -e.units ELSE 0)
  BY <1>1, RefundedGrows
<1>3. Refunds(c, after)
  <2> SUFFICES ASSUME NEW s \in DOMAIN Sale
               PROVE  /\ RefundedUnits(c, s) <= Sale[s].units
                      /\ after[s] = "new" => RefundedUnits(c, s) = 0
    BY DEF Refunds
  <2>1. /\ RefundedUnits(b, s) <= Sale[s].units /\ RefundedUnits(b, s) \in Nat
        /\ rows[s] = "new" => RefundedUnits(b, s) = 0
        /\ Sale[s].units \in Nat /\ e.units \in Int
    BY <1>1, RefundedType, TokenAccountsAssumption DEF Deep, Refunds, Entry
  <2>2. CASE e.source = "google_play" /\ e.ref = s /\ e.units < 0
    <3>1. RefundedUnits(c, s) = RefundedUnits(b, s) + (-e.units)
      BY <1>2, <2>2
    <3>2. after[s] # "new" /\ -e.units <= Sale[s].units - RefundedUnits(b, s)
      BY <2>2 DEF Held
    <3> QED
      BY <2>1, <3>1, <3>2
  <2>3. CASE ~ (e.source = "google_play" /\ e.ref = s /\ e.units < 0)
    <3>1. RefundedUnits(c, s) = RefundedUnits(b, s) + 0
      BY <1>2, <2>3
    <3> QED
      BY <2>1, <3>1
  <2> QED
    BY <2>2, <2>3
<1>4. Opened(c)
  <2>1. /\ \A i \in DOMAIN b.ledger : c.ledger[i] = b.ledger[i]
        /\ c.ledger[Next1(b)] = e
        /\ New(c) \subseteq New(b) \cup {Next1(b)}
        /\ \A i \in New(b) : i \in DOMAIN b.ledger
    BY <1>1, OneMoreParts DEF New
  <2>2. ASSUME NEW i \in New(c), c.ledger[i].units > 0
        PROVE  i \in DOMAIN c.lots
    BY <2>1, <2>2 DEF Deep, Opened
  <2>3. ASSUME NEW s \in DOMAIN Sale, Historic(s), NEW i \in New(c)
        PROVE  ~ IsPurchase(c.ledger[i], s)
    BY <2>1, <2>3 DEF Deep, Opened
  <2> QED
    BY <2>2, <2>3 DEF Opened
<1> QED
  BY <1>2, <1>3, <1>4 DEF Deep

\* A charge keeps it, and changes nothing that is bought.
LEMMA ChargedDeep ==
    ASSUME NEW b, NEW rows, Books(b, rows), Deep(b, rows), NEW e \in Entry, NEW key,
           Chargeable(b, e, key), e.source # "google_play",
           MatchingApp(e) \in Titles \cup {Shared}
    PROVE  LET c == Charged(b, e, key)
           IN  /\ Books(c, rows) /\ Deep(c, rows)
               /\ BoughtOf(c, rows) = BoughtOf(b, rows)
               /\ c.paid = b.paid
               /\ DOMAIN c.nonces = DOMAIN b.nonces \cup {NonceOf(e, key)}
<1> DEFINE c == Charged(b, e, key)
<1>1. Book(b) /\ Sound(b)
  BY DEF Books, Fine, Sound
<1>2. Books(c, rows) /\ Sound(c)
  BY ChargedBooks DEF Books, Fine
<1>3. /\ OneMore(b, c, e) /\ c.paid = b.paid
      /\ c.nonces = With(b.nonces, NonceOf(e, key), Len(b.ledger) + 1)
  BY <1>1, ChargedAppends DEF OneMore
<1>4. c.lots = Insert(b, e).lots
  BY <1>1, InsertAppends DEF Charged, Book
<1>5. e.units < 0 /\ e.units \in Int /\ ~ (e.units > 0)
  BY DEF Chargeable, Entry
<1>6. DOMAIN c.lots = DOMAIN b.lots \cup (IF e.units > 0 THEN {Next1(b)} ELSE {})
  BY <1>1, <1>4, InsertLots
<1>7. DOMAIN c.nonces = DOMAIN b.nonces \cup {NonceOf(e, key)}
  BY <1>3 DEF With
<1>8. Shaped(c)
  BY <1>3, <1>7 DEF Deep, Shaped, Triple, NonceOf
<1>9. \A s \in DOMAIN Sale : ~ IsPurchase(e, s)
  BY DEF IsPurchase
<1> HIDE DEF c
<1>10. /\ Deep(c, rows)
       /\ \A s \in DOMAIN Sale : RefundedUnits(c, s) = RefundedUnits(b, s) + 0
  BY <1>2, <1>3, <1>6, <1>8, <1>9, DeepAdds
<1>11. \A s \in DOMAIN Sale : RefundedUnits(b, s) \in Int
  BY <1>1, RefundedType DEF Sound
<1>12. BoughtOf(c, rows) = BoughtOf(b, rows)
  BY <1>10, <1>11, BoughtSame
<1> QED
  BY <1>2, <1>3, <1>7, <1>10, <1>12 DEF c

\* What a credit does, whatever brings it.
LEMMA CreditedGrows ==
    ASSUME NEW b, Fine(b), NEW rows, Deep(b, rows), NEW id, Pair(id), id \notin DOMAIN b.paid,
           NEW e \in Entry, e.units > 0, e.source = "google_play" => e.app \in Titles
    PROVE  LET c == Credited(b, id, e)
           IN  /\ OneMore(b, c, e) /\ Sound(c) /\ Shaped(c)
               /\ DOMAIN c.lots = DOMAIN b.lots \cup (IF e.units > 0 THEN {Next1(b)} ELSE {})
               /\ DOMAIN c.paid = DOMAIN b.paid \cup {id}
               /\ c.nonces = b.nonces
<1> DEFINE c == Credited(b, id, e)
<1>1. Book(b) /\ Sound(b)
  BY DEF Fine, Sound
<1>2. Fine(c) /\ OneMore(b, c, e)
  BY CreditedFine
<1>3. DOMAIN c.paid = DOMAIN b.paid \cup {id} /\ c.nonces = b.nonces
  BY <1>1, CreditedAppends
<1>4. c.lots = Insert(b, e).lots
  BY <1>1, InsertAppends DEF Credited, Book
<1>5. DOMAIN c.lots = DOMAIN b.lots \cup (IF e.units > 0 THEN {Next1(b)} ELSE {})
  BY <1>1, <1>4, InsertLots
<1>6. Shaped(c)
  BY <1>3 DEF Deep, Shaped
<1> QED
  BY <1>2, <1>3, <1>5, <1>6 DEF Fine, c

\* A payment that is no store purchase keeps it, and changes nothing that is bought.
LEMMA CreditedDeep ==
    ASSUME NEW b, NEW rows, Books(b, rows), Deep(b, rows), NEW id, Pair(id),
           id \notin DOMAIN b.paid, \A s \in DOMAIN Sale : id # <<"google_play", s>>,
           NEW e \in Entry, e.units > 0, e.source # "google_play"
    PROVE  LET c == Credited(b, id, e)
           IN  /\ Books(c, rows) /\ Deep(c, rows)
               /\ BoughtOf(c, rows) = BoughtOf(b, rows)
               /\ DOMAIN c.paid = DOMAIN b.paid \cup {id}
               /\ c.nonces = b.nonces
<1> DEFINE c == Credited(b, id, e)
<1>1. Fine(b) /\ Sound(b)
  BY DEF Books, Fine
<1>2. Books(c, rows)
  BY CreditedBooks
<1>3. /\ OneMore(b, c, e) /\ Sound(c) /\ Shaped(c)
      /\ DOMAIN c.lots = DOMAIN b.lots \cup (IF e.units > 0 THEN {Next1(b)} ELSE {})
      /\ DOMAIN c.paid = DOMAIN b.paid \cup {id}
      /\ c.nonces = b.nonces
  BY <1>1, CreditedGrows
<1>4. \A s \in DOMAIN Sale : ~ IsPurchase(e, s)
  BY DEF IsPurchase
<1> HIDE DEF c
<1>5. /\ Deep(c, rows)
      /\ \A s \in DOMAIN Sale : RefundedUnits(c, s) = RefundedUnits(b, s) + 0
  BY <1>3, <1>4, DeepAdds
<1>6. \A s \in DOMAIN Sale : RefundedUnits(b, s) \in Int
  BY <1>1, RefundedType DEF Sound
<1>7. BoughtOf(c, rows) = BoughtOf(b, rows)
  BY <1>5, <1>6, BoughtSame
<1> QED
  BY <1>2, <1>3, <1>5, <1>7 DEF c

\* A purchase is of its title: it was not in the history, where it would be owned.
LEMMA PurchaseDeep ==
    ASSUME NEW b, NEW rows \in [DOMAIN Sale -> {"new", "owned", "refunded"}], Books(b, rows),
           Deep(b, rows), NEW s \in DOMAIN Sale, rows[s] = "new"
    PROVE  LET id    == <<"google_play", s>>
               c     == Credited(b, id, SaleEntry(s))
               after == [rows EXCEPT ![s] = "owned"]
           IN  /\ id \notin DOMAIN b.paid
               /\ Books(c, after) /\ Deep(c, after)
               /\ PurseMoves(b, c, Sale[s].acct, Sale[s].app, Sale[s].units, Sale[s].units)
               /\ BoughtOf(c, after)
                    = [BoughtOf(b, rows) EXCEPT ![Sale[s].acct][Sale[s].app] = @ + Sale[s].units]
               /\ DOMAIN c.paid = DOMAIN b.paid \cup {id}
               /\ c.nonces = b.nonces
<1> DEFINE e == SaleEntry(s)
           id == <<"google_play", s>>
           c == Credited(b, id, e)
           after == [rows EXCEPT ![s] = "owned"]
<1>1. Fine(b) /\ Sound(b) /\ SoldIn(b, rows) /\ Lots(b)
  BY DEF Books, Fine, Sound
<1>2. /\ e \in Entry /\ e.units > 0 /\ e.source = "google_play" /\ e.app \in Titles /\ e.ref = s
      /\ e.acct = Sale[s].acct /\ e.app = Sale[s].app /\ e.units = Sale[s].units
      /\ Lot(e).title = Sale[s].app
  BY TokenAccountsAssumption DEF SaleEntry, Entry, Sources, Refs, Lot
<1>3. id \notin DOMAIN b.paid
  BY <1>1 DEF SoldIn
<1>4. \A x \in DOMAIN Sale : after[x] = IF x = s THEN "owned" ELSE rows[x]
  OBVIOUS
<1>5. Books(c, after)
  BY PurchaseBooks
<1>6. ~ Historic(s)
  <2> SUFFICES ASSUME Historic(s) PROVE FALSE
    OBVIOUS
  <2>1. PICK i \in DOMAIN History : IsPurchase(History[i], s)
    BY DEF Historic, IsPurchase
  <2>2. i \in DOMAIN b.ledger /\ IsPurchase(b.ledger[i], s)
    BY <1>1, <2>1 DEF Lots
  <2> QED
    BY <1>1, <2>2 DEF SoldIn
<1>7. Pair(id)
  BY DEF Pair
<1> HIDE DEF e, after
<1>8. /\ OneMore(b, c, e) /\ Sound(c) /\ Shaped(c)
      /\ DOMAIN c.lots = DOMAIN b.lots \cup (IF e.units > 0 THEN {Next1(b)} ELSE {})
      /\ DOMAIN c.paid = DOMAIN b.paid \cup {id}
      /\ c.nonces = b.nonces
  <2> HIDE DEF id
  <2> QED
    BY <1>1, <1>2, <1>3, <1>7, CreditedGrows
<1>9. PurseMoves(b, c, Sale[s].acct, Sale[s].app, Sale[s].units, Sale[s].units)
  <2>1. PurseMoves(b, c, e.acct, Lot(e).title, e.units, e.units)
    BY <1>1, <1>2, <1>3, CreditedMoves
  <2> QED
    BY <1>2, <2>1
<1> HIDE DEF c, id
<1>10. \A x \in DOMAIN Sale : Historic(x) => ~ IsPurchase(e, x)
  BY <1>2, <1>6 DEF IsPurchase
<1>11. \A x \in DOMAIN Sale : after[x] = "new" => rows[x] = "new"
  BY <1>4
<1>12. /\ Deep(c, after)
       /\ \A x \in DOMAIN Sale :
             RefundedUnits(c, x) = RefundedUnits(b, x)
                + (IF e.source = "google_play" /\ e.ref = x /\ e.units < 0 THEN -e.units ELSE 0)
  <2>1. ~ (e.units < 0)
    BY <1>2, TokenAccountsAssumption
  <2> QED
    BY <1>2, <1>8, <1>10, <1>11, <2>1, DeepAdds
<1>13. \A x \in DOMAIN Sale : RefundedUnits(c, x) = RefundedUnits(b, x)
  <2>1. ~ (e.units < 0)
    BY <1>2, TokenAccountsAssumption
  <2>2. \A x \in DOMAIN Sale : RefundedUnits(b, x) \in Int
    BY <1>1, RefundedType DEF Sound
  <2> QED
    BY <1>12, <2>1, <2>2
<1>14. BoughtOf(c, after)
         = [BoughtOf(b, rows) EXCEPT ![Sale[s].acct][Sale[s].app] = @ + Sale[s].units]
  <2>1. Refunds(b, rows) /\ Refunds(c, after) /\ SoldIn(c, after)
    BY <1>5, <1>12 DEF Deep, Books
  <2>2. after[s] # "new" /\ \A r \in DOMAIN Sale \ {s} : after[r] = "new" <=> rows[r] = "new"
    BY <1>4
  <2> QED
    BY <1>1, <1>6, <1>8, <1>13, <2>1, <2>2, BoughtGains
<1> QED
  BY <1>3, <1>5, <1>8, <1>9, <1>12, <1>14 DEF c, e, id, after

\* A refund within what is left of its purchase.
LEMMA RefundDeep ==
    ASSUME NEW b, NEW rows, Books(b, rows), Deep(b, rows),
           NEW s \in DOMAIN Sale, rows[s] # "new", NEW n \in Amounts,
           n <= Sale[s].units - RefundedUnits(b, s), NEW after,
           \A x \in DOMAIN Sale : after[x] = "new" <=> rows[x] = "new"
    PROVE  LET c == Insert(b, [SaleEntry(s) EXCEPT !.units = -n])
           IN  /\ Books(c, after) /\ Deep(c, after)
               /\ PurseMoves(b, c, Sale[s].acct, SaleTitle(s), -n, -n)
               /\ n <= BoughtOf(b, rows)[Sale[s].acct][SaleTitle(s)]
               /\ BoughtOf(c, after)
                    = [BoughtOf(b, rows) EXCEPT ![Sale[s].acct][SaleTitle(s)] = @ - n]
               /\ c.paid = b.paid /\ c.nonces = b.nonces
<1> DEFINE e == [SaleEntry(s) EXCEPT !.units = -n]
           c == Insert(b, e)
<1>1. Fine(b) /\ Sound(b) /\ Book(b) /\ SoldIn(b, rows) /\ Opened(b)
  BY DEF Books, Fine, Sound, Deep
<1>2. /\ e \in Entry /\ e.units = -n /\ e.source = "google_play" /\ e.ref = s /\ n \in Nat /\ n > 0
  BY TokenAccountsAssumption DEF SaleEntry, Entry, Sources, Refs
<1>3. e.units < 0 /\ -e.units = n /\ ~ (e.units > 0)
  BY <1>2
<1>4. Books(c, rows)
  BY RefundBooks
<1>5. PurseMoves(b, c, Sale[s].acct, SaleTitle(s), -n, -n)
  BY <1>1, RefundMoves
<1>6. OneMore(b, c, e) /\ c.paid = b.paid /\ c.nonces = b.nonces
  BY <1>1, InsertAppends DEF OneMore
<1>7. DOMAIN c.lots = DOMAIN b.lots \cup (IF e.units > 0 THEN {Next1(b)} ELSE {})
  BY <1>1, InsertLots
<1>8. Shaped(c)
  BY <1>6 DEF Deep, Shaped
<1>9. \A x \in DOMAIN Sale : ~ IsPurchase(e, x)
  BY <1>3 DEF IsPurchase
<1> HIDE DEF c, e
<1>10. Books(c, after) /\ Sound(c)
  BY <1>4 DEF Books, SoldIn, Fine
<1>11. n <= Held(b)[s]
  BY DEF Held
<1>12. /\ Deep(c, after)
       /\ \A x \in DOMAIN Sale :
             RefundedUnits(c, x) = RefundedUnits(b, x)
                + (IF e.source = "google_play" /\ e.ref = x /\ e.units < 0 THEN -e.units ELSE 0)
  <2>1. \A x \in DOMAIN Sale : e.source = "google_play" /\ e.ref = x /\ e.units < 0 =>
                                  after[x] # "new" /\ -e.units <= Held(b)[x]
    BY <1>2, <1>3, <1>11
  <2> QED
    BY <1>2, <1>6, <1>7, <1>8, <1>9, <1>10, <2>1, DeepAdds
<1>13. \A x \in DOMAIN Sale :
          RefundedUnits(c, x) = RefundedUnits(b, x) + (IF x = s THEN n ELSE 0)
  BY <1>2, <1>3, <1>12
<1>14. /\ n <= BoughtOf(b, rows)[Sale[s].acct][SaleTitle(s)]
       /\ BoughtOf(c, after)
            = [BoughtOf(b, rows) EXCEPT ![Sale[s].acct][SaleTitle(s)] = @ - n]
  <2>1. Refunds(b, rows) /\ Refunds(c, after) /\ SoldIn(c, after)
    BY <1>10, <1>12 DEF Deep, Books
  <2> QED
    BY <1>1, <1>2, <1>10, <1>11, <1>13, <2>1, BoughtDrops
<1> QED
  BY <1>5, <1>6, <1>10, <1>12, <1>14 DEF c, e

\* So it is in the history.
LEMMA InitDeep ==
    ASSUME Init
    PROVE  Deep(book, sales)
<1>1. /\ Book(book) /\ book.ledger = History
      /\ DOMAIN book.paid = {HistoricPayment(i) : i \in HistoricCredits}
      /\ DOMAIN book.nonces = {HistoricNonce(i) : i \in HistoricDebits}
  BY DEF Init, Book
<1>2. BooksInv
  BY InitBooks
<1>3. Shaped(book)
  BY <1>1 DEF Shaped, HistoricPayment, HistoricNonce, NonceOf, Pair, Triple
<1>4. New(book) = {}
  BY <1>1 DEF New
<1>5. Opened(book)
  BY <1>4 DEF Opened
<1>6. Refunds(book, sales)
  <2> SUFFICES ASSUME NEW s \in DOMAIN Sale
               PROVE  /\ RefundedUnits(book, s) <= Sale[s].units
                      /\ sales[s] = "new" => RefundedUnits(book, s) = 0
    BY DEF Refunds
  <2>1. RefundedUnits(book, s) = RefundedUnits([ledger |-> History], s)
    BY <1>1 DEF RefundedUnits, RefundsOf
  <2>2. RefundedUnits(book, s) <= IF Historic(s) THEN Sale[s].units ELSE 0
    BY <2>1, HistoryAssumption
  <2>3. RefundedUnits(book, s) \in Nat /\ Sale[s].units \in Nat
    BY <1>1, HistoryAssumption, RefundedType, TokenAccountsAssumption
  <2>4. sales[s] = "new" => ~ Historic(s)
    BY <1>1, <1>2 DEF BooksInv, Books, SoldIn, IsPurchase, Historic
  <2> QED
    BY <2>2, <2>3, <2>4
<1> QED
  BY <1>3, <1>5, <1>6 DEF Deep

-----------------------------------------------------------------------------
(* The purses, as the abstract specification changes them *)

\* One purse has n more.
LEMMA ReceivedPurse ==
    ASSUME NEW b, Sound(b), NEW c, Sound(c), NEW a \in Accounts, NEW t \in Purses, NEW n \in Int,
           PurseMoves(b, c, a, t, n, n)
    PROVE  PurseOf(c) = [PurseOf(b) EXCEPT ![a][t] = @ + n]
<1> DEFINE p == PurseOf(b)
           q == PurseOf(c)
<1>1. p \in Grid /\ q \in Grid
  BY PurseParts DEF Grid
<1>2. \A x \in Accounts, k \in Purses : p[x][k] \in Int
  BY <1>1 DEF Grid
<1>3. Shared \notin Titles
  BY TokenLedgerAssumption
<1>4. GridAdds(p, q, a, t, n)
  <2> HIDE DEF p, q
  <2>1. \A x \in Accounts :
           /\ q[x][Shared] = p[x][Shared]
                 + (IF x = a THEN n - (IF t # Shared THEN n ELSE 0) ELSE 0)
           /\ \A k \in Titles : q[x][k] = p[x][k] + (IF x = a /\ k = t THEN n ELSE 0)
    BY DEF PurseMoves, p, q
  <2> SUFFICES ASSUME NEW x \in Accounts, NEW k \in Purses
               PROVE  q[x][k] = p[x][k] + (IF x = a /\ k = t THEN n ELSE 0)
    BY DEF GridAdds
  <2>2. CASE k \in Titles
    BY <2>1, <2>2
  <2>3. CASE k = Shared
    <3>1. p[x][Shared] \in Int
      BY <1>2, <2>3
    <3> QED
      BY <2>1, <2>3, <3>1
  <2> QED
    BY <2>2, <2>3 DEF Purses
<1> HIDE DEF p, q
<1>5. q = [p EXCEPT ![a][t] = @ + n]
  BY <1>1, <1>4, GridExcept
<1> QED
  BY <1>5 DEF p, q

\* One purse has n less.
LEMMA RefundedPurse ==
    ASSUME NEW b, Sound(b), NEW c, Sound(c), NEW a \in Accounts, NEW t \in Purses, NEW n \in Int,
           PurseMoves(b, c, a, t, -n, -n)
    PROVE  PurseOf(c) = [PurseOf(b) EXCEPT ![a][t] = @ - n]
<1>1. PurseOf(c) = [PurseOf(b) EXCEPT ![a][t] = @ + (-n)]
  BY ReceivedPurse
<1>2. PurseOf(b)[a][t] \in Int
  <2>1. PurseOf(b) \in Grid
    BY PurseParts DEF Grid
  <2> QED
    BY <2>1 DEF Grid
<1>3. PurseOf(b)[a][t] + (-n) = PurseOf(b)[a][t] - n
  BY <1>2
<1> QED
  BY <1>1, <1>3

\* A payment takes its title's own units first.
LEMMA PaidPurse ==
    ASSUME NEW b, Sound(b), NEW c, Sound(c), NEW a \in Accounts, NEW t \in Titles,
           NEW n \in Int, NEW own \in Int, PurseMoves(b, c, a, t, -own, -n)
    PROVE  PurseOf(c) = [PurseOf(b) EXCEPT ![a][t] = @ - own, ![a][Shared] = @ - (n - own)]
<1> DEFINE p == PurseOf(b)
           q == PurseOf(c)
           r == [p EXCEPT ![a][t] = @ - own]
<1>1. p \in Grid /\ q \in Grid /\ t \in Purses /\ Shared \in Purses
  BY PurseParts DEF Grid, Purses
<1>2. \A x \in Accounts, k \in Purses : p[x][k] \in Int
  BY <1>1 DEF Grid
<1>3. Shared \notin Titles
  BY TokenLedgerAssumption
<1>4. \A x \in Accounts :
         /\ q[x][Shared] = p[x][Shared] + (IF x = a THEN -n - (-own) ELSE 0)
         /\ \A k \in Titles : q[x][k] = p[x][k] + (IF x = a /\ k = t THEN -own ELSE 0)
  BY <1>3 DEF PurseMoves
<1> HIDE DEF p, q
<1>5. \A x \in Accounts, k \in Purses : r[x][k] = IF x = a /\ k = t THEN p[x][k] - own ELSE p[x][k]
  BY <1>1 DEF Grid
<1>6. r \in Grid
  <2>1. p[a] \in [Purses -> Int] /\ p[a][t] - own \in Int
    BY <1>1, <1>2 DEF Grid
  <2> QED
    BY <1>1, <2>1 DEF Grid
<1>7. q = [r EXCEPT ![a][Shared] = @ - (n - own)]
  <2> HIDE DEF r
  <2>1. GridAdds(r, q, a, Shared, -(n - own))
    <3> SUFFICES ASSUME NEW x \in Accounts, NEW k \in Purses
                 PROVE  q[x][k] = r[x][k] + (IF x = a /\ k = Shared THEN -(n - own) ELSE 0)
      BY DEF GridAdds
    <3>1. p[x][k] \in Int /\ r[x][k] = IF x = a /\ k = t THEN p[x][k] - own ELSE p[x][k]
      BY <1>2, <1>5
    <3>2. CASE k = Shared
      <4>1. k # t /\ r[x][k] = p[x][k]
        BY <1>3, <3>1, <3>2
      <4>2. q[x][k] = p[x][k] + (IF x = a THEN -n - (-own) ELSE 0)
        BY <1>4, <3>2
      <4> QED
        BY <3>1, <3>2, <4>1, <4>2
    <3>3. CASE k \in Titles
      <4>1. k # Shared /\ q[x][k] = p[x][k] + (IF x = a /\ k = t THEN -own ELSE 0)
        BY <1>3, <1>4, <3>3
      <4> QED
        BY <3>1, <4>1
    <3> QED
      BY <3>2, <3>3 DEF Purses
  <2> QED
    BY <1>1, <1>6, <2>1, GridLess
<1>8. q = [p EXCEPT ![a][t] = @ - own, ![a][Shared] = @ - (n - own)]
  <2> DEFINE u == p[a][t] - own
             v == p[a][Shared] - (n - own)
  <2>1. r[a][Shared] = p[a][Shared]
    BY <1>1, <1>3, <1>5
  <2>2. q = [r EXCEPT ![a][Shared] = v]
    <3> HIDE DEF r
    <3> QED
      BY <1>7, <2>1
  <2>3. r = [p EXCEPT ![a][t] = u]
    OBVIOUS
  <2> HIDE DEF r, u, v
  <2>4. q = [p EXCEPT ![a][t] = u, ![a][Shared] = v]
    BY <2>2, <2>3
  <2> QED
    BY <2>4 DEF u, v
<1> QED
  BY <1>8 DEF p, q

\* A gift moves n between the shared purses of two accounts.
LEMMA GivenPurse ==
    ASSUME NEW b, Sound(b), NEW c, Sound(c), NEW d, Sound(d), NEW a \in Accounts, NEW x \in Accounts,
           a # x, NEW n \in Int, NEW m \in Int,
           PurseMoves(b, c, a, Shared, m, -n), PurseMoves(c, d, x, Shared, n, n)
    PROVE  PurseOf(d) = [PurseOf(b) EXCEPT ![a][Shared] = @ - n, ![x][Shared] = @ + n]
<1>1. PurseMoves(b, c, a, Shared, -n, -n)
  <2>1. \A k \in Titles : k # Shared
    BY TokenLedgerAssumption
  <2>2. \A y \in Accounts, k \in Titles : PurseOf(b)[y][k] \in Int
    BY PurseParts
  <2> QED
    BY <2>1, <2>2 DEF PurseMoves
<1>2. Shared \in Purses
  BY DEF Purses
<1>3. PurseOf(c) = [PurseOf(b) EXCEPT ![a][Shared] = @ - n]
  BY <1>1, <1>2, RefundedPurse
<1>4. PurseOf(d) = [PurseOf(c) EXCEPT ![x][Shared] = @ + n]
  BY <1>2, ReceivedPurse
<1> DEFINE p == PurseOf(b)
           r == PurseOf(c)
           u == p[a][Shared] - n
           v == p[x][Shared] + n
<1>5. r[x][Shared] = p[x][Shared]
  <2>1. p \in Grid
    BY PurseParts DEF Grid
  <2> HIDE DEF p, r
  <2>2. r = [p EXCEPT ![a][Shared] = @ - n]
    BY <1>3 DEF p, r
  <2> QED
    BY <2>1, <2>2 DEF Grid
<1>6. r = [p EXCEPT ![a][Shared] = u] /\ PurseOf(d) = [r EXCEPT ![x][Shared] = v]
  BY <1>3, <1>4, <1>5
<1> HIDE DEF p, r, u, v
<1>7. PurseOf(d) = [p EXCEPT ![a][Shared] = u, ![x][Shared] = v]
  BY <1>6
<1> QED
  BY <1>7 DEF u, v, p

\* Where the books are the same the purses are.
LEMMA Stutters ==
    ASSUME UNCHANGED <<book, sales>>
    PROVE  UNCHANGED Purse!vars
BY DEF Purse!vars

\* What is paid and what is charged.
Done(b) == DOMAIN b.paid \cup DOMAIN b.nonces

\* One payment or charge more is one effect.
LEMMA EffectOne ==
    ASSUME NEW x, x \notin Done(book), Done(book') = Done(book) \cup {x}
    PROVE  Purse!Effects(1)
<1>1. Cardinality(Done(book') \ Done(book)) = 1
  <2>1. Done(book') \ Done(book) = {x}
    OBVIOUS
  <2> QED
    BY <2>1, FS_Singleton
<1>2. Purse!Cardinality(Done(book') \ Done(book)) = 1
  BY <1>1 DEF Cardinality, Purse!Cardinality
<1>3. Done(book) \subseteq Done(book')
  OBVIOUS
<1> QED
  BY <1>2, <1>3 DEF Purse!Effects, Done

\* And two are two: the debit of a gift and its credit.
LEMMA EffectTwo ==
    ASSUME NEW x, NEW y, x # y, x \notin Done(book), y \notin Done(book),
           Done(book') = Done(book) \cup {x, y}
    PROVE  Purse!Effects(2)
<1>1. Cardinality(Done(book') \ Done(book)) = 2
  <2>1. Done(book') \ Done(book) = {x} \cup {y}
    OBVIOUS
  <2>2. IsFiniteSet({x}) /\ Cardinality({x}) = 1
    BY FS_Singleton
  <2>3. Cardinality({x} \cup {y}) = 2
    BY <2>2, FS_AddElement
  <2> QED
    BY <2>1, <2>3
<1>2. Purse!Cardinality(Done(book') \ Done(book)) = 2
  BY <1>1 DEF Cardinality, Purse!Cardinality
<1>3. Done(book) \subseteq Done(book')
  OBVIOUS
<1> QED
  BY <1>2, <1>3 DEF Purse!Effects, Done

\* Units from outside.
LEMMA Receives ==
    ASSUME NEW a \in Accounts, NEW t \in Purses, NEW n, Purse!Effects(1),
           PurseOf(book') = [PurseOf(book) EXCEPT ![a][t] = @ + n],
           BoughtOf(book', sales')
              = IF t = Shared THEN BoughtOf(book, sales)
                ELSE [BoughtOf(book, sales) EXCEPT ![a][t] = @ + n]
    PROVE  Purse!Receive(a, t, n)
BY DEF Purse!Receive

-----------------------------------------------------------------------------
(* Each handler, and the refinement *)

\* The amounts of the purses.
EffectAmounts == Amounts \cup {Sale[s].units : s \in DOMAIN Sale}
                   \cup {Deposit[d].units : d \in DOMAIN Deposit}
                   \cup UNION {Unlocks[p].prices : p \in DOMAIN Unlocks}

\* The invariant of the refinement.
DeepInv == IInv /\ BooksInv /\ Deep(book, sales)

\* A spend and an unlock are payments.
LEMMA Pays ==
    ASSUME DeepInv, NEW e \in Entry, NEW key, NEW n \in Nat, Chargeable(book, e, key),
           e.source \in {"spend", "unlock"}, e.app \in Titles, e.units = -n,
           book' = Charged(book, e, key), sales' = sales
    PROVE  Deep(book', sales') /\ Purse!Pay(e.acct, e.app, n)
<1> DEFINE a == e.acct
           t == e.app
           own == OwnOf(book, e)
<1>1. Books(book, sales) /\ Deep(book, sales) /\ Fine(book) /\ Sound(book)
  BY DEF DeepInv, BooksInv, Books, Fine
<1>2. /\ a \in Accounts /\ MatchingApp(e) = t /\ t # Shared /\ e.source # "google_play"
      /\ -e.units = n
  BY TokenLedgerAssumption DEF Entry, MatchingApp
<1>3. /\ Books(book', sales) /\ Deep(book', sales)
      /\ BoughtOf(book', sales) = BoughtOf(book, sales)
      /\ book'.paid = book.paid
      /\ DOMAIN book'.nonces = DOMAIN book.nonces \cup {NonceOf(e, key)}
  BY <1>1, <1>2, ChargedDeep
<1>4. /\ PurseMoves(book, book', a, t, -own, -n)
      /\ own \in Nat /\ n - own <= Positive(SharedUnits(book, a))
  BY <1>1, <1>2, ChargedMoves
<1>5. /\ PurseOf(book)[a][Shared] = SharedUnits(book, a)
      /\ PurseOf(book)[a][t] = TitleUnits(book, a, t)
  BY <1>2 DEF PurseOf
<1>6. PurseOf(book') = [PurseOf(book) EXCEPT ![a][t] = @ - own, ![a][Shared] = @ - (n - own)]
  <2>1. Sound(book') /\ own \in Int /\ n \in Int
    BY <1>3, <1>4 DEF Books, Fine
  <2> HIDE DEF own, a, t
  <2> QED
    BY <1>1, <1>2, <1>4, <2>1, PaidPurse DEF t
<1>7. Purse!Effects(1)
  <2>1. NonceOf(e, key) \notin DOMAIN book.nonces
    BY DEF Chargeable
  <2>2. NonceOf(e, key) \notin DOMAIN book.paid
    BY <1>1, PairNoTriple DEF Deep, Shaped, NonceOf, Triple
  <2>3. Done(book') = Done(book) \cup {NonceOf(e, key)}
    BY <1>3 DEF Done
  <2> QED
    BY <2>1, <2>2, <2>3, EffectOne DEF Done
<1>8. own = LET held == IF t = Shared THEN 0 ELSE Positive(PurseOf(book)[a][t])
            IN  IF held < n THEN held ELSE n
  BY <1>2, <1>5 DEF OwnOf, Matching
<1>9. \A m : Purse!Positive(m) = Positive(m)
  BY DEF Positive, Purse!Positive
<1> HIDE DEF own
<1>10. n - own <= Positive(PurseOf(book)[a][Shared])
  BY <1>4, <1>5
<1>11. BoughtOf(book', sales') = BoughtOf(book, sales)
  BY <1>3
<1>12. Purse!Pay(a, t, n)
  BY <1>6, <1>7, <1>8, <1>9, <1>10, <1>11 DEF Purse!Pay
<1> QED
  BY <1>3, <1>12

\* A store purchase is received for its title,
LEMMA Purchases ==
    ASSUME DeepInv, NEW s \in DOMAIN Sale, ProcessPurchase(s)
    PROVE  Deep(book', sales') /\ Purse!Receive(Sale[s].acct, Sale[s].app, Sale[s].units)
<1> DEFINE id == <<"google_play", s>>
<1>1. /\ Books(book, sales) /\ Deep(book, sales) /\ Sound(book)
      /\ sales \in [DOMAIN Sale -> {"new", "owned", "refunded"}]
  BY DEF DeepInv, BooksInv, Types, Books, Fine
<1>2. /\ sales[s] = "new" /\ book' = Credited(book, id, SaleEntry(s))
      /\ sales' = [sales EXCEPT ![s] = "owned"]
  BY DEF ProcessPurchase
<1>3. /\ id \notin DOMAIN book.paid
      /\ Books(book', sales') /\ Deep(book', sales')
      /\ PurseMoves(book, book', Sale[s].acct, Sale[s].app, Sale[s].units, Sale[s].units)
      /\ BoughtOf(book', sales')
           = [BoughtOf(book, sales) EXCEPT ![Sale[s].acct][Sale[s].app] = @ + Sale[s].units]
      /\ DOMAIN book'.paid = DOMAIN book.paid \cup {id}
      /\ book'.nonces = book.nonces
  <2> DEFINE c     == Credited(book, id, SaleEntry(s))
             after == [sales EXCEPT ![s] = "owned"]
  <2>1. /\ id \notin DOMAIN book.paid
        /\ Books(c, after) /\ Deep(c, after)
        /\ PurseMoves(book, c, Sale[s].acct, Sale[s].app, Sale[s].units, Sale[s].units)
        /\ BoughtOf(c, after)
             = [BoughtOf(book, sales) EXCEPT ![Sale[s].acct][Sale[s].app] = @ + Sale[s].units]
        /\ DOMAIN c.paid = DOMAIN book.paid \cup {id}
        /\ c.nonces = book.nonces
    BY <1>1, <1>2, PurchaseDeep
  <2>2. book' = c /\ sales' = after
    BY <1>2
  <2> HIDE DEF c, after
  <2> QED
    BY <2>1, <2>2
<1>4. /\ Sale[s].acct \in Accounts /\ Sale[s].app \in Purses /\ Sale[s].units \in Int
      /\ Sale[s].app # Shared
  BY TokenAccountsAssumption, TokenLedgerAssumption DEF Purses
<1>5. Sound(book')
  BY <1>3 DEF Books, Fine
<1>6. PurseOf(book') = [PurseOf(book) EXCEPT ![Sale[s].acct][Sale[s].app] = @ + Sale[s].units]
  BY <1>1, <1>3, <1>4, <1>5, ReceivedPurse
<1>7. Purse!Effects(1)
  <2>1. Pair(id)
    BY DEF Pair
  <2>2. id \notin DOMAIN book.nonces
    BY <1>1, <2>1, PairNoTriple DEF Deep, Shaped
  <2>3. Done(book') = Done(book) \cup {id}
    BY <1>3 DEF Done
  <2> QED
    BY <1>3, <2>2, <2>3, EffectOne DEF Done
<1> QED
  BY <1>3, <1>4, <1>6, <1>7, Receives

\* and a deposit for any.
LEMMA Deposits ==
    ASSUME DeepInv, NEW d \in DOMAIN Deposit, CreditDeposit(d)
    PROVE  Deep(book', sales') /\ Purse!Receive(Deposit[d].acct, Shared, Deposit[d].units)
<1> DEFINE id == <<"monero_account", d>>
           e == DepositEntry(d)
<1>1. Books(book, sales) /\ Deep(book, sales) /\ Fine(book) /\ Sound(book)
  BY DEF DeepInv, BooksInv, Books, Fine
<1>2. id \notin DOMAIN book.paid /\ book' = Credited(book, id, e) /\ sales' = sales
  BY DEF CreditDeposit
<1>3. /\ e \in Entry /\ e.units > 0 /\ e.source # "google_play"
      /\ e.acct = Deposit[d].acct /\ e.units = Deposit[d].units /\ Lot(e).title = Shared
      /\ Deposit[d].acct \in Accounts /\ Deposit[d].units \in Int
  BY TokenAccountsAssumption DEF DepositEntry, Entry, Sources, Refs, Lot
<1>4. Pair(id) /\ \A s \in DOMAIN Sale : id # <<"google_play", s>>
  BY DEF Pair
<1> HIDE DEF e, id
<1>5. /\ Books(book', sales) /\ Deep(book', sales)
      /\ BoughtOf(book', sales) = BoughtOf(book, sales)
      /\ DOMAIN book'.paid = DOMAIN book.paid \cup {id}
      /\ book'.nonces = book.nonces
  BY <1>1, <1>2, <1>3, <1>4, CreditedDeep
<1>6. PurseMoves(book, book', Deposit[d].acct, Shared, Deposit[d].units, Deposit[d].units)
  <2>1. PurseMoves(book, book', e.acct, Lot(e).title, e.units, e.units)
    BY <1>1, <1>2, <1>3, CreditedMoves
  <2> QED
    BY <1>3, <2>1
<1>7. Sound(book') /\ Shared \in Purses
  BY <1>5 DEF Books, Fine, Purses
<1>8. PurseOf(book') = [PurseOf(book) EXCEPT ![Deposit[d].acct][Shared] = @ + Deposit[d].units]
  BY <1>1, <1>3, <1>6, <1>7, ReceivedPurse
<1>9. Purse!Effects(1)
  <2>1. id \notin DOMAIN book.nonces
    BY <1>1, <1>4, PairNoTriple DEF Deep, Shaped
  <2>2. Done(book') = Done(book) \cup {id}
    BY <1>5 DEF Done
  <2> QED
    BY <1>2, <2>1, <2>2, EffectOne DEF Done
<1> QED
  BY <1>2, <1>3, <1>5, <1>7, <1>8, <1>9, Receives

\* The store takes back what was bought.
LEMMA TakesBack ==
    ASSUME DeepInv, NEW s \in DOMAIN Sale, NEW n \in Amounts, CompensateVoided(s, n)
    PROVE  Deep(book', sales') /\ Purse!Refund(Sale[s].acct, SaleTitle(s), n)
<1>1. /\ Books(book, sales) /\ Deep(book, sales) /\ Sound(book)
      /\ sales \in [DOMAIN Sale -> {"new", "owned", "refunded"}]
  BY DEF DeepInv, BooksInv, Types, Books, Fine
<1>2. /\ sales[s] = "owned" /\ n <= Sale[s].units - RefundedUnits(book, s)
      /\ book' = Insert(book, [SaleEntry(s) EXCEPT !.units = -n])
      /\ sales' = [sales EXCEPT ![s] = IF RefundedUnits(book', s) = Sale[s].units
                                       THEN "refunded" ELSE @]
  BY DEF CompensateVoided
<1>3. \A x \in DOMAIN Sale : sales'[x] = "new" <=> sales[x] = "new"
  BY <1>1, <1>2
<1>4. /\ Books(book', sales') /\ Deep(book', sales')
      /\ PurseMoves(book, book', Sale[s].acct, SaleTitle(s), -n, -n)
      /\ n <= BoughtOf(book, sales)[Sale[s].acct][SaleTitle(s)]
      /\ BoughtOf(book', sales')
           = [BoughtOf(book, sales) EXCEPT ![Sale[s].acct][SaleTitle(s)] = @ - n]
      /\ book'.paid = book.paid /\ book'.nonces = book.nonces
  <2> DEFINE c     == Insert(book, [SaleEntry(s) EXCEPT !.units = -n])
  <2>1. \A after : (\A x \in DOMAIN Sale : after[x] = "new" <=> sales[x] = "new") =>
           /\ Books(c, after) /\ Deep(c, after)
           /\ PurseMoves(book, c, Sale[s].acct, SaleTitle(s), -n, -n)
           /\ n <= BoughtOf(book, sales)[Sale[s].acct][SaleTitle(s)]
           /\ BoughtOf(c, after)
                = [BoughtOf(book, sales) EXCEPT ![Sale[s].acct][SaleTitle(s)] = @ - n]
           /\ c.paid = book.paid /\ c.nonces = book.nonces
    BY SMTT(30), <1>1, <1>2, RefundDeep
  <2>2. book' = c
    BY <1>2
  <2> HIDE DEF c
  <2> QED
    BY <1>3, <2>1, <2>2
<1>5. Sale[s].acct \in Accounts /\ SaleTitle(s) \in Purses /\ n \in Int
  BY TokenAccountsAssumption DEF Purses, SaleTitle
<1>6. Sound(book')
  BY <1>4 DEF Books, Fine
<1>7. PurseOf(book') = [PurseOf(book) EXCEPT ![Sale[s].acct][SaleTitle(s)] = @ - n]
  BY <1>1, <1>4, <1>5, <1>6, RefundedPurse
<1>8. Purse!Refund(Sale[s].acct, SaleTitle(s), n)
  BY <1>4, <1>7 DEF Purse!Refund
<1> QED
  BY <1>4, <1>8

\* A gift is given.
LEMMA Gives ==
    ASSUME DeepInv, NEW a \in Accounts, NEW b \in Accounts, NEW q \in GiftIds, NEW n \in Amounts,
           Send(a, b, q, n)
    PROVE  Deep(book', sales') /\ Purse!Give(a, b, n)
<1> DEFINE d == GiftDebit(a, b, n)
           e == GiftCredit(a, b, n)
           key == GiftKey(q)
           id == GiftPayment(a, q)
           nonce == NonceOf(d, key)
           charged == Charged(book, d, key)
<1>1. /\ Books(book, sales) /\ Deep(book, sales) /\ Fine(book) /\ Sound(book)
      /\ GiftsCharged(book)
  BY DEF DeepInv, BooksInv, Books, Fine, IInv, BookInv
<1>2. /\ a # b /\ Chargeable(book, d, key) /\ book' = Credited(charged, id, e) /\ sales' = sales
  BY DEF Send
<1>3. /\ d \in Entry /\ d.source = "gift" /\ d.source # "google_play" /\ MatchingApp(d) = Shared
      /\ d.acct = a /\ d.units = -n
      /\ e \in Entry /\ e.source = "gift" /\ e.source # "google_play" /\ e.units > 0
      /\ e.acct = b /\ e.units = n /\ Lot(e).title = Shared
      /\ n \in Nat /\ n > 0
  BY TokenAccountsAssumption DEF GiftDebit, GiftCredit, Entry, Sources, Refs, MatchingApp, Lot
<1>4. Pair(id) /\ \A s \in DOMAIN Sale : id # <<"google_play", s>>
  BY DEF Pair, GiftPayment
<1>5. Triple(nonce) /\ nonce \notin DOMAIN book.nonces
  BY <1>2 DEF Triple, NonceOf, Chargeable
<1>6. id \notin DOMAIN book.paid
  <2>1. nonce = <<a, Inbe, GiftKey(q)>>
    BY DEF NonceOf, GiftDebit
  <2> QED
    BY <1>1, <1>5, <2>1 DEF GiftsCharged
<1>7. Shared \in Purses /\ Shared \in Titles \cup {Shared}
  BY DEF Purses
<1> HIDE DEF d, e, id, key
<1>8. /\ Books(charged, sales) /\ Deep(charged, sales)
      /\ BoughtOf(charged, sales) = BoughtOf(book, sales)
      /\ charged.paid = book.paid
      /\ DOMAIN charged.nonces = DOMAIN book.nonces \cup {nonce}
  BY <1>1, <1>2, <1>3, <1>7, ChargedDeep
<1>9. /\ PurseMoves(book, charged, a, Shared, -OwnOf(book, d), -n)
      /\ OwnOf(book, d) \in Nat /\ -d.units - OwnOf(book, d) <= Positive(SharedUnits(book, a))
  BY <1>1, <1>2, <1>3, <1>7, ChargedMoves
<1>10. OwnOf(book, d) = 0 /\ -d.units = n
  BY <1>3 DEF OwnOf, Matching
<1>11. n <= Positive(PurseOf(book)[a][Shared])
  <2>1. PurseOf(book)[a][Shared] = SharedUnits(book, a)
    BY DEF PurseOf
  <2> QED
    BY <1>3, <1>9, <1>10, <2>1
<1> HIDE DEF charged, nonce
<1>12. Fine(charged) /\ Sound(charged)
  BY <1>8 DEF Books, Fine
<1>13. /\ Books(book', sales) /\ Deep(book', sales)
       /\ BoughtOf(book', sales) = BoughtOf(charged, sales)
       /\ DOMAIN book'.paid = DOMAIN charged.paid \cup {id}
       /\ book'.nonces = charged.nonces
  BY <1>2, <1>3, <1>4, <1>6, <1>8, CreditedDeep
<1>14. PurseMoves(charged, book', b, Shared, n, n)
  <2>1. PurseMoves(charged, Credited(charged, id, e), e.acct, Lot(e).title, e.units, e.units)
    BY <1>3, <1>6, <1>8, <1>12, CreditedMoves
  <2> QED
    BY <1>2, <1>3, <2>1
<1>15. PurseOf(book') = [PurseOf(book) EXCEPT ![a][Shared] = @ - n, ![b][Shared] = @ + n]
  <2>1. Sound(book') /\ n \in Int /\ -OwnOf(book, d) \in Int
    BY <1>3, <1>9, <1>13 DEF Books, Fine
  <2> QED
    BY <1>1, <1>2, <1>9, <1>12, <1>14, <2>1, GivenPurse
<1>16. Purse!Effects(2)
  <2>1. id # nonce /\ nonce \notin Done(book) /\ id \notin Done(book)
    BY <1>1, <1>4, <1>5, <1>6, PairNoTriple DEF Deep, Shaped, Done
  <2>2. Done(book') = Done(book) \cup {id, nonce}
    BY <1>8, <1>13 DEF Done
  <2> QED
    BY <2>1, <2>2, EffectTwo
<1>17. \A m : Purse!Positive(m) = Positive(m)
  BY DEF Positive, Purse!Positive
<1>18. BoughtOf(book', sales') = BoughtOf(book, sales)
  BY <1>2, <1>8, <1>13
<1>19. Purse!Give(a, b, n)
  BY <1>2, <1>11, <1>15, <1>16, <1>17, <1>18 DEF Purse!Give
<1> QED
  BY <1>2, <1>13, <1>19

\* Every step is a step of the purses or none.
LEMMA StepsMap ==
    ASSUME DeepInv, [Next]_vars
    PROVE  DeepInv' /\ [Purse!Next]_(Purse!vars)
<1> DEFINE Mapped == Deep(book', sales') /\ [Purse!Next]_(Purse!vars)
<1>1. \A s \in DOMAIN Sale : ProcessPurchase(s) => Mapped
  <2> SUFFICES ASSUME NEW s \in DOMAIN Sale, ProcessPurchase(s) PROVE Mapped
    OBVIOUS
  <2>1. Deep(book', sales') /\ Purse!Receive(Sale[s].acct, Sale[s].app, Sale[s].units)
    BY Purchases
  <2>2. /\ Sale[s].acct \in Accounts /\ Sale[s].app \in Purse!Kinds
        /\ Sale[s].units \in EffectAmounts
    BY TokenAccountsAssumption DEF Purse!Kinds, EffectAmounts
  <2> QED
    BY <2>1, <2>2 DEF Purse!Next, EffectAmounts
<1>2. \A s \in DOMAIN Sale, n \in Amounts : CompensateVoided(s, n) => Mapped
  <2> SUFFICES ASSUME NEW s \in DOMAIN Sale, NEW n \in Amounts, CompensateVoided(s, n)
               PROVE  Mapped
    OBVIOUS
  <2>1. Deep(book', sales') /\ Purse!Refund(Sale[s].acct, SaleTitle(s), n)
    BY TakesBack
  <2>2. Sale[s].acct \in Accounts /\ SaleTitle(s) \in Purse!Kinds /\ n \in EffectAmounts
    BY TokenAccountsAssumption DEF Purse!Kinds, EffectAmounts, SaleTitle
  <2> QED
    BY <2>1, <2>2 DEF Purse!Next, EffectAmounts
<1>3. \A d \in DOMAIN Deposit : CreditDeposit(d) => Mapped
  <2> SUFFICES ASSUME NEW d \in DOMAIN Deposit, CreditDeposit(d) PROVE Mapped
    OBVIOUS
  <2>1. Deep(book', sales') /\ Purse!Receive(Deposit[d].acct, Shared, Deposit[d].units)
    BY Deposits
  <2>2. /\ Deposit[d].acct \in Accounts /\ Shared \in Purse!Kinds
        /\ Deposit[d].units \in EffectAmounts
    BY TokenAccountsAssumption DEF Purse!Kinds, EffectAmounts
  <2> QED
    BY <2>1, <2>2 DEF Purse!Next, EffectAmounts
<1>4. \A a \in Accounts, app \in Titles, action \in Actions, key \in Keys, n \in Amounts :
         Spend(a, app, action, key, n) => Mapped
  <2> SUFFICES ASSUME NEW a \in Accounts, NEW app \in Titles, NEW action \in Actions,
                      NEW key \in Keys, NEW n \in Amounts, Spend(a, app, action, key, n)
               PROVE  Mapped
    OBVIOUS
  <2> DEFINE e == SpendEntry(a, app, action, key, n)
  <2>1. Chargeable(book, e, key) /\ book' = Charged(book, e, key) /\ sales' = sales
    BY DEF Spend
  <2>2. /\ e \in Entry /\ e.source = "spend" /\ e.app = app /\ e.acct = a /\ e.units = -n
        /\ n \in Nat
    BY TokenAccountsAssumption DEF SpendEntry, Entry, Sources, Refs
  <2> HIDE DEF e
  <2>3. Deep(book', sales') /\ Purse!Pay(e.acct, e.app, n)
    BY <2>1, <2>2, Pays
  <2>4. app \in Purse!Kinds /\ n \in EffectAmounts
    BY DEF Purse!Kinds, EffectAmounts
  <2>5. Purse!Pay(a, app, n)
    BY <2>2, <2>3
  <2> QED
    BY <2>3, <2>4, <2>5 DEF Purse!Next, EffectAmounts
<1>5. \A a, b \in Accounts, q \in GiftIds, n \in Amounts : Send(a, b, q, n) => Mapped
  <2> SUFFICES ASSUME NEW a \in Accounts, NEW b \in Accounts, NEW q \in GiftIds, NEW n \in Amounts,
                      Send(a, b, q, n)
               PROVE  Mapped
    OBVIOUS
  <2>1. Deep(book', sales') /\ Purse!Give(a, b, n)
    BY Gives
  <2>2. n \in EffectAmounts
    BY DEF EffectAmounts
  <2> QED
    BY <2>1, <2>2 DEF Purse!Next, EffectAmounts
<1>6. \A a \in Accounts, p \in DOMAIN Unlocks : UnlockNew(a, p) => Mapped
  <2> SUFFICES ASSUME NEW a \in Accounts, NEW p \in DOMAIN Unlocks, UnlockNew(a, p) PROVE Mapped
    OBVIOUS
  <2>1. PICK price \in Unlocks[p].prices :
           /\ Chargeable(book, UnlockEntry(a, p, price), UnlockKey(p))
           /\ book' = Charged(book, UnlockEntry(a, p, price), UnlockKey(p))
    BY DEF UnlockNew
  <2> DEFINE e == UnlockEntry(a, p, price)
  <2>2. /\ e \in Entry /\ e.source = "unlock" /\ e.app \in Titles /\ e.acct = a /\ e.units = -price
        /\ price \in Nat
    BY TokenAccountsAssumption DEF UnlockEntry, Entry, Sources, Refs
  <2>3. sales' = sales
    BY DEF UnlockNew
  <2> HIDE DEF e
  <2>4. Deep(book', sales') /\ Purse!Pay(e.acct, e.app, price)
    BY <2>1, <2>2, <2>3, Pays DEF e
  <2>5. e.app \in Purse!Kinds /\ price \in EffectAmounts
    BY <2>2 DEF Purse!Kinds, EffectAmounts
  <2>6. Purse!Pay(a, e.app, price)
    BY <2>2, <2>4
  <2> QED
    BY <2>4, <2>5, <2>6 DEF Purse!Next, EffectAmounts
<1>7. UNCHANGED <<book, sales>> => Mapped
  BY Stutters DEF DeepInv
<1>8. \A a \in Accounts, p \in DOMAIN Unlocks : UnlockPaid(a, p) => UNCHANGED <<book, sales>>
  BY DEF UnlockPaid
<1>9. \A a, b \in Accounts : Befriend(a, b) \/ Unfriend(a, b) => UNCHANGED <<book, sales>>
  BY DEF Befriend, Unfriend
<1>10. \A a \in Accounts : DeleteAccount(a) \/ Restore(a) => UNCHANGED <<book, sales>>
  BY DEF DeleteAccount, Restore
<1>11. UNCHANGED vars => UNCHANGED <<book, sales>>
  BY DEF vars
<1> HIDE DEF Mapped
<1>12. Mapped
  BY <1>1, <1>2, <1>3, <1>4, <1>5, <1>6, <1>7, <1>8, <1>9, <1>10, <1>11 DEF Next
<1>13. IInv' /\ BooksInv'
  BY Inductive, BooksKept DEF DeepInv
<1> QED
  BY <1>12, <1>13 DEF DeepInv, Mapped

\* The history is a first state of the purses.
LEMMA InitMaps ==
    ASSUME Init
    PROVE  DeepInv /\ Purse!Init
<1>1. IInv
  <2>1. BookInv(book)
    BY InitBook
  <2>2. UnlocksInv
    BY DEF Init, UnlocksInv, UnlocksPaidFor, Unpaid
  <2> QED
    BY <2>1, <2>2 DEF IInv
<1>2. BooksInv /\ Deep(book, sales)
  BY InitBooks, InitDeep
<1>3. Sound(book) /\ SoldIn(book, sales) /\ Refunds(book, sales)
  BY <1>2 DEF BooksInv, Books, Fine, Deep
<1>4. PurseOf(book) \in [Accounts -> [Purses -> Int]]
  BY <1>3, PurseParts
<1>5. BoughtOf(book, sales) \in [Accounts -> [Purses -> Nat]]
  BY <1>3, BoughtParts
<1>6. Purse!Init
  BY <1>4, <1>5 DEF Purse!Init, Purse!Kinds, Purses
<1> QED
  BY <1>1, <1>2, <1>6 DEF DeepInv

\* The ledger, with its lots, its traces, its payments and its nonces, implements the
\* purses: every handler is one payment, gift, receipt or refund of them, whose effect
\* was not there before, or leaves them alone.
THEOREM PursesStayKept == Spec => PursesKept
<1>1. Init => DeepInv /\ Purse!Init
  BY InitMaps
<1>2. DeepInv /\ [Next]_vars => DeepInv' /\ [Purse!Next]_(Purse!vars)
  BY StepsMap
<1> QED
  BY <1>1, <1>2, PTL DEF Spec, PursesKept, Purse!Spec
=============================================================================
