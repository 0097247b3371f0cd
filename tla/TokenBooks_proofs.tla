-------------------------- MODULE TokenBooks_proofs --------------------------
(***************************************************************************)
(* Proofs about the sums that TokenAccounts keeps, for every set of        *)
(* accounts, titles, sales, products, keys and every history: each unit is *)
(* traced, and what was bought for a title stays in it.                    *)
(*                                                                         *)
(* The invariant is Audited: lots, rows and receipts sum up to the same    *)
(* units.  Its third part relates the balance of an account to its lots    *)
(* and its history.  Without it nothing bounds what a debit may take from  *)
(* no lot, for the guard of a debit reads the balance and the lots only.   *)
(* A debit is written to the ledger before it takes from its title's lots, *)
(* and then from the shared ones; between these three Audited holds but    *)
(* for the n units that are still to be traced.                            *)
(***************************************************************************)
EXTENDS TokenAccounts_proofs, Sums

-----------------------------------------------------------------------------
(* Sums of rows, and the order in which lots are taken *)

\* Taking n from naturals in the order of their indices takes n, or all there is.
LEMMA OldestFirst ==
    ASSUME NEW R, IsFiniteSet(R), R \subseteq Nat, NEW f, \A l \in R : f[l] \in Nat,
           NEW n \in Nat, NEW t,
           \A l \in R : t[l] = LET short == Positive(n - SumFunctionOnSet(f, {k \in R : k < l}))
                               IN  IF short < f[l] THEN short ELSE f[l]
    PROVE  /\ \A l \in R : t[l] \in Nat /\ t[l] <= f[l]
           /\ SumFunctionOnSet(t, R)
                = IF n < SumFunctionOnSet(f, R) THEN n ELSE SumFunctionOnSet(f, R)
<1> DEFINE Pre(m) == {k \in R : k < m}
           Least(x) == IF n < x THEN n ELSE x
           Good == {m \in Nat : SumFunctionOnSet(t, Pre(m)) = Least(SumFunctionOnSet(f, Pre(m)))}
<1>1. \A m \in Nat : IsFiniteSet(Pre(m)) /\ SumFunctionOnSet(f, Pre(m)) \in Nat
  <2> SUFFICES ASSUME NEW m \in Nat PROVE IsFiniteSet(Pre(m)) /\ SumFunctionOnSet(f, Pre(m)) \in Nat
    OBVIOUS
  <2>1. IsFiniteSet(Pre(m)) /\ \A l \in Pre(m) : f[l] \in Nat
    BY FS_Subset
  <2> HIDE DEF Pre
  <2> QED
    BY <2>1, SumNatural
<1>2. ASSUME NEW l \in R
      PROVE  t[l] \in Nat /\ t[l] <= f[l]
  <2>1. f[l] \in Nat /\ l \in Nat
    OBVIOUS
  <2>2. t[l] = LET short == Positive(n - SumFunctionOnSet(f, Pre(l)))
               IN  IF short < f[l] THEN short ELSE f[l]
    OBVIOUS
  <2>3. SumFunctionOnSet(f, Pre(l)) \in Nat
    BY <1>1, <2>1
  <2> HIDE DEF Pre
  <2> QED
    BY <2>1, <2>2, <2>3 DEF Positive
<1>3. 0 \in Good
  <2>1. Pre(0) = {}
    <3>1. \A k \in R : k \in Nat
      OBVIOUS
    <3>2. \A k \in R : ~ (k < 0)
      BY <3>1
    <3> QED
      BY <3>2
  <2>2. SumFunctionOnSet(t, Pre(0)) = 0 /\ SumFunctionOnSet(f, Pre(0)) = 0
    BY <2>1, SumNone
  <2> HIDE DEF Pre
  <2> QED
    BY <2>2
<1>4. ASSUME NEW m \in Nat, m \in Good
      PROVE  m + 1 \in Good
  <2>0. \A k \in R : k < m + 1 <=> (k < m \/ k = m)
    <3>1. \A k \in R : k \in Nat
      OBVIOUS
    <3> QED
      BY <3>1
  <2>1. CASE m \notin R
    <3>1. Pre(m + 1) = Pre(m)
      BY <2>0, <2>1
    <3> HIDE DEF Pre
    <3> QED
      BY <1>4, <3>1
  <2>2. CASE m \in R
    <3>0. ~ (m < m)
      OBVIOUS
    <3>1. Pre(m + 1) = Pre(m) \cup {m} /\ m \notin Pre(m)
      BY <2>0, <2>2, <3>0
    <3>2. Ints(f, Pre(m) \cup {m}) /\ Ints(t, Pre(m) \cup {m})
      BY <1>2, <2>2 DEF Ints
    <3>3. t[m] = LET short == Positive(n - SumFunctionOnSet(f, Pre(m)))
                 IN  IF short < f[m] THEN short ELSE f[m]
      BY <2>2
    <3>4. f[m] \in Nat
      BY <2>2
    <3>5. SumFunctionOnSet(t, Pre(m)) = Least(SumFunctionOnSet(f, Pre(m)))
      BY <1>4
    <3>6. IsFiniteSet(Pre(m)) /\ SumFunctionOnSet(f, Pre(m)) \in Nat
      BY <1>1
    <3> HIDE DEF Pre
    <3>7. /\ SumFunctionOnSet(f, Pre(m + 1)) = f[m] + SumFunctionOnSet(f, Pre(m))
          /\ SumFunctionOnSet(t, Pre(m + 1)) = t[m] + SumFunctionOnSet(t, Pre(m))
      BY <3>1, <3>2, <3>6, SumPut
    <3> QED
      BY <3>3, <3>4, <3>5, <3>6, <3>7 DEF Positive
  <2> QED
    BY <2>1, <2>2
<1>5. Nat \subseteq Good
  <2> HIDE DEF Good
  <2> QED
    BY <1>3, <1>4, NumbersByInduction
<1>6. PICK m \in Nat : R = Pre(m)
  <2> DEFINE Low == {s \in SUBSET R : \E m \in Nat : \A k \in s : k < m}
  <2>1. ASSUME NEW s \in SUBSET R, \A x \in s : s \ {x} \in Low
        PROVE  s \in Low
    <3>1. CASE s = {}
      BY <3>1
    <3>2. CASE s # {}
      <4>1. PICK x \in s : TRUE
        BY <3>2
      <4>2. PICK m \in Nat : \A k \in s \ {x} : k < m
        BY <2>1, <4>1
      <4>3. x \in Nat
        BY <4>1
      <4> DEFINE top == m + x + 1
      <4>4. top \in Nat /\ m <= top /\ x < top
        BY <4>2, <4>3
      <4>5. \A k \in s : k < top
        <5> SUFFICES ASSUME NEW k \in s PROVE k < top
          OBVIOUS
        <5>1. k \in Nat
          OBVIOUS
        <5> QED
          BY <4>2, <4>3, <5>1
      <4> HIDE DEF top
      <4> QED
        BY <4>4, <4>5
    <3> QED
      BY <3>1, <3>2
  <2>2. SUBSET R \subseteq Low
    <3> HIDE DEF Low
    <3> QED
      BY <2>1, SetsByInduction
  <2> QED
    BY <2>2
<1> QED
  BY <1>2, <1>5, <1>6


\* Rows of the trace whose units can be summed.
Rows(A) == IsFiniteSet(A) /\ \A r \in A : r.units \in Int

\* The sums of rows, of two disjoint sets of them, of none and of one.
LEMMA TracedType ==
    ASSUME NEW A, Rows(A)
    PROVE  TracedUnits(A) \in Int
BY SumType DEF TracedUnits, SumFunction, Rows, Ints

LEMMA TracedUnion ==
    ASSUME NEW A, NEW B, Rows(A), Rows(B), A \cap B = {}
    PROVE  Rows(A \cup B) /\ TracedUnits(A \cup B) = TracedUnits(A) + TracedUnits(B)
<1> DEFINE f == [r \in A \cup B |-> r.units]
           g == [r \in A |-> r.units]
           h == [r \in B |-> r.units]
<1>1. /\ IsFiniteSet(A) /\ IsFiniteSet(B) /\ IsFiniteSet(A \cup B)
      /\ Ints(g, A) /\ Ints(h, B) /\ Ints(f, A \cup B)
      /\ \A r \in A : g[r] = f[r]
      /\ \A r \in B : h[r] = f[r]
  BY FS_Union DEF Rows, Ints
<1>2. /\ TracedUnits(A) = SumFunctionOnSet(g, A) /\ TracedUnits(B) = SumFunctionOnSet(h, B)
      /\ TracedUnits(A \cup B) = SumFunctionOnSet(f, A \cup B)
  BY DEF TracedUnits, SumFunction
<1> HIDE DEF f, g, h
<1>3. SumFunctionOnSet(g, A) = SumFunctionOnSet(f, A) /\ SumFunctionOnSet(h, B) = SumFunctionOnSet(f, B)
  BY <1>1, SumSame
<1>4. SumFunctionOnSet(f, A \cup B) = SumFunctionOnSet(f, A) + SumFunctionOnSet(f, B)
  BY <1>1, SumUnion
<1>5. Rows(A \cup B)
  BY <1>1 DEF Rows
<1> QED
  BY <1>2, <1>3, <1>4, <1>5

LEMMA TracedNone == TracedUnits({}) = 0
BY SumNone DEF TracedUnits, SumFunction

LEMMA TracedOne ==
    ASSUME NEW r, r.units \in Int
    PROVE  Rows({r}) /\ TracedUnits({r}) = r.units
<1> DEFINE f == [x \in {r} |-> x.units]
<1>1. TracedUnits({r}) = SumFunctionOnSet(f, {r})
  BY DEF TracedUnits, SumFunction
<1>2. IsFiniteSet({r}) /\ Ints(f, {r}) /\ f[r] = r.units /\ {r} \ {r} = {}
  BY FS_Singleton DEF Ints
<1> HIDE DEF f
<1>3. SumFunctionOnSet(f, {r}) = f[r] + SumFunctionOnSet(f, {r} \ {r})
  BY <1>2, SumTake
<1>4. SumFunctionOnSet(f, {r} \ {r}) = 0
  BY <1>2, SumNone
<1> QED
  BY <1>1, <1>2, <1>3, <1>4 DEF Rows

\* The row that traces n units of debit i to lot l.
TracedRow(i, l, n) == [debit |-> i, credit |-> l, units |-> n]

\* The units traced to a set of lots.
LEMMA TracedOver ==
    ASSUME NEW L, IsFiniteSet(L), NEW t, \A l \in L : t[l] \in Int, NEW i,
           NEW A, \A l \in L : TracedRow(i, l, t[l]) \in A,
           \A r \in A : \E l \in L : r = TracedRow(i, l, t[l])
    PROVE  Rows(A) /\ TracedUnits(A) = SumFunctionOnSet(t, L)
<1> DEFINE at == [l \in L |-> TracedRow(i, l, t[l])]
           h == [r \in A |-> r.units]
<1>1. A = {at[l] : l \in L} /\ Ints(t, L)
  BY DEF Ints
<1>2. \A l \in L : h[at[l]] = t[l]
  BY DEF TracedRow
<1>3. \A k, l \in L : at[k] = at[l] => k = l
  BY DEF TracedRow
<1>4. TracedUnits(A) = SumFunctionOnSet(h, A)
  BY DEF TracedUnits, SumFunction
<1>5. \A r \in A : r.units \in Int
  BY DEF TracedRow
<1> HIDE DEF at, h
<1>6. IsFiniteSet({at[l] : l \in L}) /\ SumFunctionOnSet(h, {at[l] : l \in L}) = SumFunctionOnSet(t, L)
  BY <1>1, <1>2, <1>3, SumImage
<1> QED
  BY <1>1, <1>4, <1>5, <1>6 DEF Rows

-----------------------------------------------------------------------------
(* Books, and what a debit takes from a pool *)

\* The receipts since there are lots, and the lots of an account.
New(b) == DOMAIN b.ledger \ DOMAIN History
LotsOf(b, a) == {l \in DOMAIN b.lots : b.ledger[l].acct = a}

\* The ledger begins with the history, a lot is of a new credit, with the title of
\* that credit, and a lot that any title may spend is never overdrawn.
Lots(b) ==
    /\ DOMAIN History \subseteq DOMAIN b.ledger
    /\ \A i \in DOMAIN History : b.ledger[i] = History[i]
    /\ \A l \in DOMAIN b.lots :
          /\ l \in New(b) /\ b.ledger[l].units > 0
          /\ b.lots[l] \in [title : Titles \cup {Shared}, left : Int]
          /\ b.lots[l].title = Lot(b.ledger[l]).title
          /\ b.lots[l].title = Shared => b.lots[l].left >= 0

\* Only a debit in the lot's title, or a refund of its purchase, is traced to a
\* lot of a title.
BoundRow(b, r) ==
    LET e     == b.ledger[r.debit]
        title == b.lots[r.credit].title
    IN  title # Shared =>
          \/ e.source \in {"spend", "unlock"} /\ e.app = title
          \/ e.source = "google_play" /\ e.ref = b.ledger[r.credit].ref

\* Every row traces units of a new debit, to a lot of its own account if to any.
Traces(b) ==
    /\ IsFiniteSet(b.traced)
    /\ \A r \in b.traced :
          /\ r = [debit |-> r.debit, credit |-> r.credit, units |-> r.units]
          /\ r.units \in Nat \ {0}
          /\ r.debit \in New(b) /\ b.ledger[r.debit].units < 0
          /\ r.credit # NoLot =>
                /\ r.credit \in DOMAIN b.lots
                /\ b.ledger[r.credit].acct = b.ledger[r.debit].acct
                /\ BoundRow(b, r)

\* The rows of a lot, of a debit, of no lot, and of no lot by spending.
FromLot(b, l) == {r \in b.traced : r.credit = l}
OfDebit(b, i) == {r \in b.traced : r.debit = i}
Untraced(b, a) == {r \in b.traced : r.credit = NoLot /\ b.ledger[r.debit].acct = a}
UntracedSpends(b, a) == {r \in Untraced(b, a) : b.ledger[r.debit].source # "google_play"}

\* The sums agree, but for n units of debit i that are still to be traced.
Audited(b, i, n) ==
    /\ \A l \in DOMAIN b.lots : b.lots[l].left = b.ledger[l].units - TracedUnits(FromLot(b, l))
    /\ \A j \in New(b) : b.ledger[j].units < 0 =>
          TracedUnits(OfDebit(b, j)) = -b.ledger[j].units - (IF j = i THEN n ELSE 0)
    /\ \A a \in Accounts :
          Total(b, a) = HistoricUnits(a) + Left(b, LotsOf(b, a)) - TracedUnits(Untraced(b, a))
                          - (IF i \in DOMAIN b.ledger /\ b.ledger[i].acct = a THEN n ELSE 0)

\* What was spent from no lot was in the account before there were lots.
Backed(b) == \A a \in Accounts : TracedUnits(UntracedSpends(b, a)) <= Positive(HistoricUnits(a))

\* The new receipts of a store purchase are those of its sale.
SoldEntries(b) ==
    \A i \in New(b) : b.ledger[i].source = "google_play" =>
        LET s == b.ledger[i].ref
        IN  /\ s \in DOMAIN Sale /\ b.ledger[i].acct = Sale[s].acct /\ b.ledger[i].app = Sale[s].app
            /\ b.ledger[i].units > 0 => b.ledger[i].units = Sale[s].units

Sound(b) == Book(b) /\ b.ledger \in Seq(Entry) /\ Lots(b) /\ Traces(b)

LeftOf(b) == [l \in DOMAIN b.lots |-> b.lots[l].left]

\* The lots that a debit may take from, what it takes, and what they lack.
Rich(b, i, title) == {l \in Pool(b, b.ledger[i].acct, title) : b.lots[l].left > 0}
Rest(b, i, title, n) == Positive(n - Left(b, Rich(b, i, title)))
NewRows(b, i, title, n, t) ==
    {TracedRow(i, l, t[l]) : l \in {k \in Rich(b, i, title) : t[k] > 0}}
      \cup {TracedRow(i, NoLot, Rest(b, i, title, n)) : x \in {y \in {1} : Rest(b, i, title, n) > 0}}

\* A debit takes t[l] of every rich lot l: together, with the rest, n.
Taken(b, i, title, n, t) ==
    /\ \A l \in Rich(b, i, title) : t[l] \in Nat /\ t[l] <= b.lots[l].left
    /\ SumFunctionOnSet(t, Rich(b, i, title)) + Rest(b, i, title, n) = n
    /\ LET c == Consume(b, i, title, n)
       IN  /\ SameReceipts(b, c)
           /\ DOMAIN c.lots = DOMAIN b.lots
           /\ \A l \in DOMAIN b.lots :
                 /\ c.lots[l] \in [title : Titles \cup {Shared}, left : Int]
                 /\ c.lots[l].title = b.lots[l].title
                 /\ c.lots[l].left = b.lots[l].left - (IF l \in Rich(b, i, title) THEN t[l] ELSE 0)
           /\ c.traced = b.traced \cup NewRows(b, i, title, n, t)

\* The tables of a book are finite.
LEMMA LotsFinite ==
    ASSUME NEW b, Sound(b)
    PROVE  /\ IsFiniteSet(DOMAIN b.ledger) /\ IsFiniteSet(DOMAIN b.lots)
           /\ DOMAIN b.ledger \subseteq Nat \ {0}
           /\ DOMAIN b.lots \subseteq DOMAIN b.ledger
           /\ \A l \in DOMAIN b.lots : b.lots[l].left \in Int /\ l \in Nat \ {0}
           /\ Ints(LeftOf(b), DOMAIN b.lots)
<1>1. DOMAIN b.ledger = 1 .. Len(b.ledger) /\ Len(b.ledger) \in Nat
  BY DEF Sound
<1>2. IsFiniteSet(DOMAIN b.ledger) /\ DOMAIN b.ledger \subseteq Nat \ {0}
  <2>1. IsFiniteSet(1 .. Len(b.ledger))
    BY <1>1, FS_Interval
  <2> QED
    BY <1>1, <2>1
<1>3. DOMAIN b.lots \subseteq DOMAIN b.ledger /\ \A l \in DOMAIN b.lots : b.lots[l].left \in Int
  BY DEF Sound, Lots, New
<1> QED
  BY <1>2, <1>3, FS_Subset DEF Ints, LeftOf

\* What is left of lots is a sum of LeftOf.
LEMMA LeftSum ==
    ASSUME NEW b, NEW Q
    PROVE  Left(b, Q) = SumFunctionOnSet(LeftOf(b), Q)
BY DEF Left, LeftOf

\* Consume takes so, oldest first.
LEMMA ConsumeTakes ==
    ASSUME NEW b, Sound(b), NEW i, NEW title, NEW n \in Nat
    PROVE  \E t : Taken(b, i, title, n, t)
<1> DEFINE R    == Rich(b, i, title)
           left == LeftOf(b)
           t    == [l \in R |-> LET short == Positive(n - Left(b, {k \in R : k < l}))
                                IN  IF short < b.lots[l].left THEN short ELSE b.lots[l].left]
           rest == Rest(b, i, title, n)
           c    == Consume(b, i, title, n)
<1>1. /\ R \subseteq DOMAIN b.lots /\ IsFiniteSet(R) /\ R \subseteq Nat
      /\ \A l \in R : left[l] \in Nat /\ left[l] = b.lots[l].left
  <2>1. R \subseteq DOMAIN b.lots /\ \A l \in R : b.lots[l].left > 0
    BY DEF Rich, Pool
  <2> HIDE DEF R
  <2>2. \A l \in R : left[l] = b.lots[l].left /\ b.lots[l].left \in Int /\ l \in Nat
    BY <2>1, LotsFinite DEF LeftOf
  <2> QED
    BY <2>1, <2>2, LotsFinite, FS_Subset
<1>2. \A l \in R : t[l] = LET short == Positive(n - SumFunctionOnSet(left, {k \in R : k < l}))
                          IN  IF short < left[l] THEN short ELSE left[l]
  BY <1>1 DEF Left, LeftOf
<1> DEFINE lots == [k \in DOMAIN b.lots |->
                      IF k \in R THEN [b.lots[k] EXCEPT !.left = @ - t[k]] ELSE b.lots[k]]
           traced == b.traced \cup NewRows(b, i, title, n, t)
<1>3. c = [b EXCEPT !.lots = lots, !.traced = traced]
  BY DEF Consume, NewRows, TracedRow, Rich, Rest
<1> HIDE DEF t, R, c, left, lots, traced
<1>4. /\ \A l \in R : t[l] \in Nat /\ t[l] <= left[l]
      /\ SumFunctionOnSet(t, R) = IF n < SumFunctionOnSet(left, R) THEN n ELSE SumFunctionOnSet(left, R)
  BY <1>1, <1>2, OldestFirst
<1>5. SumFunctionOnSet(left, R) \in Nat /\ rest = Positive(n - SumFunctionOnSet(left, R))
  BY <1>1, SumNatural, LeftSum DEF Rest, R, left
<1>6. SumFunctionOnSet(t, R) + rest = n
  BY <1>4, <1>5 DEF Positive
<1>7. /\ SameReceipts(b, c) /\ c.lots = lots
      /\ c.traced = b.traced \cup NewRows(b, i, title, n, t)
  BY <1>3 DEF Sound, Book, SameReceipts, traced
<1>8. ASSUME NEW l \in DOMAIN b.lots
      PROVE  /\ c.lots[l] \in [title : Titles \cup {Shared}, left : Int]
             /\ c.lots[l].title = b.lots[l].title
             /\ c.lots[l].left = b.lots[l].left - (IF l \in R THEN t[l] ELSE 0)
  <2>1. b.lots[l] \in [title : Titles \cup {Shared}, left : Int] /\ b.lots[l].left \in Int
    BY DEF Sound, Lots
  <2>2. c.lots[l] = IF l \in R THEN [b.lots[l] EXCEPT !.left = @ - t[l]] ELSE b.lots[l]
    BY <1>7 DEF lots
  <2>3. l \in R => t[l] \in Nat
    BY <1>4
  <2> QED
    BY <2>1, <2>2, <2>3
<1>9. Taken(b, i, title, n, t)
  BY <1>1, <1>4, <1>6, <1>7, <1>8 DEF Taken, R, c, lots
<1> QED
  BY <1>9

\* The lots it takes from.
LEMMA RichLots ==
    ASSUME NEW b, Sound(b), NEW i, NEW title, NEW n \in Nat, NEW t, Taken(b, i, title, n, t)
    PROVE  /\ Rich(b, i, title) \subseteq DOMAIN b.lots /\ IsFiniteSet(Rich(b, i, title))
           /\ Ints(t, Rich(b, i, title))
           /\ Rest(b, i, title, n) \in Nat
<1>1. Rich(b, i, title) \subseteq DOMAIN b.lots
  BY DEF Rich, Pool
<1>2. IsFiniteSet(Rich(b, i, title))
  BY <1>1, LotsFinite, FS_Subset
<1>3. Left(b, Rich(b, i, title)) \in Int
  <2>1. Ints(LeftOf(b), Rich(b, i, title))
    BY <1>1, LotsFinite DEF Ints
  <2> QED
    BY <1>2, <2>1, LeftSum, SumType
<1> QED
  BY <1>1, <1>2, <1>3 DEF Ints, Taken, Rest, Positive

LotsIn(b, Q) == Q \subseteq DOMAIN b.lots

\* What is left of the lots Q, of which none or all were taken from.
LeavesOf(b, i, title, n, Q) ==
    /\ Left(b, Q) \in Int
    /\ (\A l \in Rich(b, i, title) : l \notin Q) =>
          Left(Consume(b, i, title, n), Q) = Left(b, Q)
    /\ (\A l \in Rich(b, i, title) : l \in Q) =>
          Left(Consume(b, i, title, n), Q) = Left(b, Q) - (n - Rest(b, i, title, n))

\* What is left of any lots is less by what was taken from them.
LEMMA ConsumeLeaves ==
    ASSUME NEW b, Sound(b), NEW i, NEW title, NEW n \in Nat, NEW t, Taken(b, i, title, n, t),
           NEW Q, LotsIn(b, Q)
    PROVE  LeavesOf(b, i, title, n, Q)
<1> DEFINE R == Rich(b, i, title)
           c == Consume(b, i, title, n)
           took == [l \in DOMAIN b.lots |-> IF l \in R THEN t[l] ELSE 0]
<1>0. Q \subseteq DOMAIN b.lots
  BY DEF LotsIn
<1>1. R \subseteq DOMAIN b.lots /\ IsFiniteSet(R) /\ Ints(t, R) /\ Rest(b, i, title, n) \in Nat
  BY RichLots
<1>2. /\ DOMAIN c.lots = DOMAIN b.lots
      /\ \A l \in DOMAIN b.lots : LeftOf(c)[l] = LeftOf(b)[l] - took[l]
  BY DEF Taken, LeftOf
<1>3. IsFiniteSet(Q) /\ Ints(LeftOf(b), Q)
  BY <1>0, LotsFinite, FS_Subset DEF Ints
<1>4. Ints(took, Q)
  BY <1>0, <1>1 DEF Ints
<1>5. /\ \A l \in DOMAIN b.lots \ R : took[l] = 0
      /\ \A l \in R : took[l] = t[l]
  BY <1>1
<1>6. \A l \in Q : l \in DOMAIN b.lots
  BY <1>0
<1>7. SumFunctionOnSet(t, R) \in Int /\ SumFunctionOnSet(t, R) + Rest(b, i, title, n) = n
  BY <1>1, SumType DEF Taken
<1> SUFFICES /\ Left(b, Q) \in Int
             /\ (\A l \in R : l \notin Q) => Left(c, Q) = Left(b, Q)
             /\ (\A l \in R : l \in Q) => Left(c, Q) = Left(b, Q) - (n - Rest(b, i, title, n))
  BY DEF LeavesOf
<1> HIDE DEF took, c, R
<1>8. Left(c, Q) = Left(b, Q) - SumFunctionOnSet(took, Q) /\ Left(b, Q) \in Int
  BY <1>2, <1>3, <1>4, <1>6, SumLess, SumType, LeftSum
<1>9. CASE \A l \in R : l \notin Q
  <2>1. \A l \in Q : took[l] = 0
    BY <1>5, <1>6, <1>9
  <2>2. SumFunctionOnSet(took, Q) = 0
    BY <1>3, <2>1, SumZero
  <2>3. (\A l \in R : l \in Q) => n = Rest(b, i, title, n)
    <3>1. (\A l \in R : l \in Q) => R = {}
      BY <1>9
    <3> QED
      BY <1>1, <1>7, <3>1, SumNone
  <2> QED
    BY <1>8, <1>1, <2>2, <2>3
<1>10. CASE \A l \in R : l \in Q
  <2>1. /\ Q = R \cup (Q \ R) /\ R \cap (Q \ R) = {} /\ IsFiniteSet(Q \ R)
        /\ Ints(took, R \cup (Q \ R))
    BY <1>3, <1>4, <1>10, FS_Subset
  <2>2. SumFunctionOnSet(took, Q) = SumFunctionOnSet(took, R) + SumFunctionOnSet(took, Q \ R)
    BY <1>1, <2>1, SumUnion
  <2>3. SumFunctionOnSet(took, Q \ R) = 0
    BY <1>5, <1>6, <2>1, SumZero
  <2>4. SumFunctionOnSet(took, R) = SumFunctionOnSet(t, R)
    BY <1>1, <1>5, SumSame
  <2>5. (\A l \in R : l \notin Q) => n = Rest(b, i, title, n)
    <3>1. (\A l \in R : l \notin Q) => R = {}
      BY <1>10
    <3> QED
      BY <1>1, <1>7, <3>1, SumNone
  <2>6. Left(c, Q) = Left(b, Q) - (n - Rest(b, i, title, n))
    BY <1>1, <1>7, <1>8, <2>2, <2>3, <2>4
  <2>7. (\A l \in R : l \notin Q) => Left(c, Q) = Left(b, Q)
    BY <1>1, <1>8, <2>5, <2>6
  <2> QED
    BY <1>8, <2>6, <2>7
<1> QED
  BY <1>8, <1>9, <1>10

-----------------------------------------------------------------------------
(* The rows of a debit *)

\* Rows of a book are rows, and so are any of them.
LEMMA TracedRows ==
    ASSUME NEW b, Sound(b), NEW A, A \subseteq b.traced
    PROVE  Rows(A) /\ TracedUnits(A) \in Int
<1>1. Rows(A)
  BY FS_Subset DEF Sound, Traces, Rows
<1> QED
  BY <1>1, TracedType

\* What a debit takes is traced to lots, and the rest to none.
TakenRows(b, i, title, t) == {TracedRow(i, l, t[l]) : l \in {k \in Rich(b, i, title) : t[k] > 0}}
RestRows(b, i, title, n) ==
    {TracedRow(i, NoLot, Rest(b, i, title, n)) : x \in {y \in {1} : Rest(b, i, title, n) > 0}}

\* The new rows sum up to what is taken: from each lot, from none, in all.
LEMMA NewRowsSum ==
    ASSUME NEW b, Sound(b), NEW i, NEW title, NEW n \in Nat, NEW t, Taken(b, i, title, n, t)
    PROVE  /\ Rows(TakenRows(b, i, title, t))
           /\ Rows(RestRows(b, i, title, n))
           /\ TracedUnits(RestRows(b, i, title, n)) = Rest(b, i, title, n)
           /\ Rows(NewRows(b, i, title, n, t)) /\ TracedUnits(NewRows(b, i, title, n, t)) = n
<1> DEFINE R    == Rich(b, i, title)
           L    == {k \in R : t[k] > 0}
           rest == Rest(b, i, title, n)
           took == TakenRows(b, i, title, t)
           left == RestRows(b, i, title, n)
<1>1. R \subseteq DOMAIN b.lots /\ IsFiniteSet(R) /\ Ints(t, R) /\ rest \in Nat
  BY RichLots
<1>2. \A l \in R : t[l] \in Nat
  BY DEF Taken
<1>3. IsFiniteSet(L) /\ IsFiniteSet(R \ L) /\ L \cup (R \ L) = R /\ L \cap (R \ L) = {}
  BY <1>1, FS_Subset
<1>4. SumFunctionOnSet(t, R) = SumFunctionOnSet(t, L)
  <2>1. \A l \in R \ L : t[l] = 0
    BY <1>2
  <2> HIDE DEF L, R
  <2>2. SumFunctionOnSet(t, R \ L) = 0
    BY <1>3, <2>1, SumZero
  <2>3. SumFunctionOnSet(t, R) = SumFunctionOnSet(t, L) + SumFunctionOnSet(t, R \ L)
    BY <1>1, <1>3, SumUnion
  <2>4. SumFunctionOnSet(t, L) \in Int
    <3>1. Ints(t, L)
      BY <1>1, <1>3 DEF Ints
    <3> QED
      BY <1>3, <3>1, SumType
  <2> QED
    BY <2>2, <2>3, <2>4
<1>5. Rows(took) /\ TracedUnits(took) = SumFunctionOnSet(t, L)
  <2>1. \A l \in L : t[l] \in Int
    BY <1>2
  <2>2. /\ \A l \in L : TracedRow(i, l, t[l]) \in took
        /\ \A r \in took : \E l \in L : r = TracedRow(i, l, t[l])
    BY DEF TakenRows
  <2> HIDE DEF took, L
  <2> QED
    BY <1>3, <2>1, <2>2, TracedOver
<1>6. Rows(left) /\ TracedUnits(left) = rest
  <2> HIDE DEF rest
  <2>1. CASE rest > 0
    <3>1. left = {TracedRow(i, NoLot, rest)}
      <4>1. {y \in {1} : rest > 0} = {1}
        BY <2>1
      <4> QED
        BY <4>1 DEF RestRows, rest
    <3>2. TracedRow(i, NoLot, rest).units = rest
      BY DEF TracedRow
    <3> QED
      BY <1>1, <3>1, <3>2, TracedOne
  <2>2. CASE ~ (rest > 0)
    <3>1. left = {} /\ rest = 0
      BY <1>1, <2>2 DEF RestRows, rest
    <3> QED
      BY <3>1, TracedNone, FS_EmptySet DEF Rows
  <2> QED
    BY <2>1, <2>2
<1>7. took \cap left = {}
  <2>1. \A r \in took : r.credit \in DOMAIN b.lots
    BY <1>1 DEF TakenRows, TracedRow
  <2>2. \A r \in left : r.credit = NoLot
    BY DEF RestRows, TracedRow
  <2>3. NoLot \notin DOMAIN b.lots
    BY LotsFinite DEF NoLot
  <2> QED
    BY <2>1, <2>2, <2>3
<1>8. NewRows(b, i, title, n, t) = took \cup left
  BY DEF NewRows, TakenRows, RestRows
<1>9. SumFunctionOnSet(t, R) + rest = n
  BY DEF Taken
<1> HIDE DEF R, L, rest, took, left
<1>10. Rows(took \cup left) /\ TracedUnits(took \cup left) = TracedUnits(took) + TracedUnits(left)
  BY <1>5, <1>6, <1>7, TracedUnion
<1>11. Rows(NewRows(b, i, title, n, t)) /\ TracedUnits(NewRows(b, i, title, n, t)) = n
  BY <1>4, <1>5, <1>6, <1>8, <1>9, <1>10
<1> QED
  BY <1>5, <1>6, <1>11 DEF took, left, rest

\* Before debit i takes from a pool, it has taken nothing from it, nor what no lot covers.
Untouched(b, i, title) ==
    \A r \in OfDebit(b, i) : r.credit # NoLot /\ r.credit \notin Pool(b, b.ledger[i].acct, title)

\* A debit takes from a title only if it is a spend or an unlock in it.
MaySpend(b, i, title) ==
    title # Shared => b.ledger[i].source \in {"spend", "unlock"} /\ b.ledger[i].app = title

\* The book is a sound one when a debit has taken from a pool.
LEMMA ConsumeSound ==
    ASSUME NEW b, Sound(b), NEW i \in New(b), b.ledger[i].units < 0, NEW title, NEW n \in Nat,
           MaySpend(b, i, title), NEW t, Taken(b, i, title, n, t)
    PROVE  Sound(Consume(b, i, title, n))
<1> DEFINE c == Consume(b, i, title, n)
           R == Rich(b, i, title)
           rest == Rest(b, i, title, n)
<1>1. /\ Book(c) /\ c.ledger = b.ledger /\ DOMAIN c.lots = DOMAIN b.lots
      /\ \A l \in DOMAIN b.lots :
            /\ c.lots[l] \in [title : Titles \cup {Shared}, left : Int]
            /\ c.lots[l].title = b.lots[l].title
            /\ c.lots[l].left = b.lots[l].left - (IF l \in R THEN t[l] ELSE 0)
      /\ c.traced = b.traced \cup NewRows(b, i, title, n, t)
  BY DEF Taken, SameReceipts
<1>2. /\ R \subseteq DOMAIN b.lots /\ rest \in Nat
      /\ \A l \in R : /\ t[l] \in Nat /\ t[l] <= b.lots[l].left /\ b.lots[l].left \in Int
                      /\ b.lots[l].title = title /\ b.ledger[l].acct = b.ledger[i].acct
  <2>1. R \subseteq DOMAIN b.lots /\ rest \in Nat
    BY RichLots
  <2>2. \A l \in R : b.lots[l].title = title /\ b.ledger[l].acct = b.ledger[i].acct
    BY DEF Rich, Pool
  <2> QED
    BY <2>1, <2>2, LotsFinite DEF Taken
<1>3. New(c) = New(b)
  BY <1>1 DEF New
<1> HIDE DEF c, R, rest
<1>4. Lots(c)
  <2>1. ASSUME NEW l \in DOMAIN b.lots, c.lots[l].title = Shared
        PROVE  c.lots[l].left >= 0
    <3>1. b.lots[l].left >= 0 /\ b.lots[l].left \in Int
      BY <1>1, <2>1 DEF Sound, Lots
    <3> QED
      BY <1>1, <1>2, <3>1
  <2> QED
    BY <1>1, <1>3, <2>1 DEF Sound, Lots
<1>5. Rows(NewRows(b, i, title, n, t))
  BY NewRowsSum
<1>6. ASSUME NEW r \in NewRows(b, i, title, n, t)
      PROVE  /\ r = [debit |-> r.debit, credit |-> r.credit, units |-> r.units]
             /\ r.units \in Nat \ {0} /\ r.debit = i
             /\ r.credit # NoLot => r.credit \in R
  <2>1. CASE r \in TakenRows(b, i, title, t)
    <3>1. PICK l \in R : t[l] > 0 /\ r = TracedRow(i, l, t[l])
      BY <2>1 DEF TakenRows, R
    <3> QED
      BY <1>2, <3>1 DEF TracedRow
  <2>2. CASE r \in RestRows(b, i, title, n)
    <3>1. rest > 0 /\ r = TracedRow(i, NoLot, rest)
      BY <2>2 DEF RestRows, rest
    <3> QED
      BY <1>2, <3>1 DEF TracedRow
  <2> QED
    BY <2>1, <2>2 DEF NewRows, TakenRows, RestRows
<1>7. Traces(c)
  <2>1. IsFiniteSet(c.traced)
    <3>1. IsFiniteSet(b.traced) /\ IsFiniteSet(NewRows(b, i, title, n, t))
      BY <1>5 DEF Sound, Traces, Rows
    <3>2. IsFiniteSet(b.traced \cup NewRows(b, i, title, n, t))
      BY <3>1, FS_Union
    <3> QED
      BY <1>1, <3>2
  <2>2. ASSUME NEW r \in c.traced
        PROVE  /\ r = [debit |-> r.debit, credit |-> r.credit, units |-> r.units]
               /\ r.units \in Nat \ {0}
               /\ r.debit \in New(c) /\ c.ledger[r.debit].units < 0
               /\ r.credit # NoLot =>
                     /\ r.credit \in DOMAIN c.lots
                     /\ c.ledger[r.credit].acct = c.ledger[r.debit].acct
                     /\ BoundRow(c, r)
    <3>1. CASE r \in b.traced
      BY <1>1, <1>3, <3>1 DEF Sound, Traces, BoundRow
    <3>2. CASE r \in NewRows(b, i, title, n, t)
      BY <1>1, <1>2, <1>3, <1>6, <3>2 DEF BoundRow, MaySpend
    <3> QED
      BY <1>1, <3>1, <3>2
  <2> QED
    BY <2>1, <2>2 DEF Traces
<1>8. c.ledger \in Seq(Entry)
  BY <1>1 DEF Sound
<1> QED
  BY <1>1, <1>4, <1>7, <1>8 DEF Sound, c

-----------------------------------------------------------------------------
(* The sums after a debit took from a pool *)

\* What the rows of a book come to when others join them.
LEMMA RowsJoin ==
    ASSUME NEW b, Sound(b), NEW N, Rows(N), \A r \in N : r \notin b.traced,
           NEW A \in SUBSET b.traced, NEW B \in SUBSET N
    PROVE  /\ TracedUnits(A \cup B) = TracedUnits(A) + TracedUnits(B)
           /\ TracedUnits(A) \in Int /\ TracedUnits(B) \in Int
<1>1. Rows(A) /\ TracedUnits(A) \in Int
  BY TracedRows
<1>2. Rows(B) /\ TracedUnits(B) \in Int
  <2>1. Rows(B)
    BY FS_Subset DEF Rows
  <2> QED
    BY <2>1, TracedType
<1>3. A \cap B = {}
  OBVIOUS
<1> QED
  BY <1>1, <1>2, <1>3, TracedUnion

\* The receipts of a sound book.
LEMMA EntryTyped ==
    ASSUME NEW b, Sound(b)
    PROVE  \A i \in DOMAIN b.ledger : /\ b.ledger[i] \in Entry /\ b.ledger[i].units \in Int
                                     /\ b.ledger[i].acct \in Accounts
<1>1. \A i \in DOMAIN b.ledger : b.ledger[i] \in Entry
  BY DEF Sound
<1> QED
  BY <1>1 DEF Entry

\* What an account had before there were lots is an integer,
LEMMA HistoricType ==
    ASSUME NEW a
    PROVE  HistoricUnits(a) \in Int
<1>1. IsFiniteSet(DOMAIN History) /\ \A j \in DOMAIN History : History[j].units \in Int
  <2>1. DOMAIN History = 1 .. Len(History) /\ Len(History) \in Nat
    BY HistoryAssumption
  <2>2. IsFiniteSet(1 .. Len(History))
    BY <2>1, FS_Interval
  <2>3. \A j \in DOMAIN History : History[j] \in Entry
    BY HistoryAssumption
  <2> QED
    BY <2>1, <2>2, <2>3 DEF Entry
<1> DEFINE own == {j \in DOMAIN History : History[j].acct = a}
<1>2. IsFiniteSet(own) /\ Ints(Units(History), own)
  BY <1>1, FS_Subset DEF Ints, Units
<1> HIDE DEF own
<1>3. SumFunctionOnSet(Units(History), own) \in Int
  BY <1>2, SumType
<1> QED
  BY <1>3 DEF HistoricUnits, own

\* and so is what is left of any lots.
LEMMA LeftType ==
    ASSUME NEW b, Sound(b), NEW Q, LotsIn(b, Q)
    PROVE  Left(b, Q) \in Int /\ IsFiniteSet(Q) /\ Ints(LeftOf(b), Q)
<1>1. IsFiniteSet(Q) /\ Ints(LeftOf(b), Q)
  BY LotsFinite, FS_Subset DEF Ints, LotsIn
<1> QED
  BY <1>1, SumType, LeftSum

\* After debit i took n from a pool, its books agree but for what is still to take.
LEMMA ConsumeAudited ==
    ASSUME NEW b, Sound(b), NEW i \in New(b), b.ledger[i].units < 0, NEW title, NEW n \in Nat,
           NEW m \in Nat, Audited(b, i, n + m), Untouched(b, i, title)
    PROVE  LET c == Consume(b, i, title, n)
               rest == Rest(b, i, title, n)
           IN  /\ Audited(c, i, m)
               /\ \A r \in OfDebit(c, i) :
                     \/ r \in OfDebit(b, i) \/ r.credit \in Pool(b, b.ledger[i].acct, title)
                     \/ r.credit = NoLot /\ rest > 0
               /\ \A a \in Accounts :
                     /\ TracedUnits(UntracedSpends(b, a)) \in Int
                     /\ TracedUnits(UntracedSpends(c, a)) =
                          TracedUnits(UntracedSpends(b, a))
                            + (IF a = b.ledger[i].acct /\ b.ledger[i].source # "google_play"
                               THEN rest ELSE 0)
<1> DEFINE c == Consume(b, i, title, n)
           R == Rich(b, i, title)
           rest == Rest(b, i, title, n)
           mine == b.ledger[i].acct
<1>t. PICK t : Taken(b, i, title, n, t)
  BY ConsumeTakes
<1> DEFINE new == NewRows(b, i, title, n, t)
           took == TakenRows(b, i, title, t)
           left == RestRows(b, i, title, n)
<1>1. /\ c.ledger = b.ledger /\ DOMAIN c.lots = DOMAIN b.lots
      /\ \A l \in DOMAIN b.lots :
            c.lots[l].left = b.lots[l].left - (IF l \in R THEN t[l] ELSE 0)
      /\ c.traced = b.traced \cup new
      /\ \A l \in R : t[l] \in Nat
  BY <1>t DEF Taken, SameReceipts
<1>2. R \subseteq DOMAIN b.lots /\ rest \in Nat /\ R \subseteq Pool(b, mine, title)
  BY <1>t, RichLots DEF Rich
<1>3. /\ Rows(took) /\ Rows(left) /\ Rows(new)
      /\ TracedUnits(left) = rest /\ TracedUnits(new) = n
  BY <1>t, NewRowsSum
<1>4. new = took \cup left
  BY DEF NewRows, TakenRows, RestRows
<1>5. \A r \in took : \E l \in R : t[l] > 0 /\ r = TracedRow(i, l, t[l])
  BY DEF TakenRows
<1>6. \A l \in R : t[l] > 0 => TracedRow(i, l, t[l]) \in took
  BY DEF TakenRows
<1>7. \A r \in left : rest > 0 /\ r = TracedRow(i, NoLot, rest)
  BY DEF RestRows
<1>8. NoLot \notin DOMAIN b.lots
  BY LotsFinite DEF NoLot
<1>9. \A r \in new : r.debit = i /\ (r.credit = NoLot \/ r.credit \in Pool(b, mine, title))
  BY <1>2, <1>4, <1>5, <1>7 DEF TracedRow
<1>10. \A r \in new : r \notin b.traced
  BY <1>9 DEF Untouched, OfDebit
<1>11. New(c) = New(b)
  BY <1>1 DEF New
<1> HIDE DEF c, R, rest, mine, new, took, left
<1>12. \A A \in SUBSET b.traced, B \in SUBSET new :
          /\ TracedUnits(A \cup B) = TracedUnits(A) + TracedUnits(B)
          /\ TracedUnits(A) \in Int /\ TracedUnits(B) \in Int
  <2> SUFFICES ASSUME NEW A \in SUBSET b.traced, NEW B \in SUBSET new
               PROVE  /\ TracedUnits(A \cup B) = TracedUnits(A) + TracedUnits(B)
                      /\ TracedUnits(A) \in Int /\ TracedUnits(B) \in Int
    OBVIOUS
  <2> QED
    BY <1>3, <1>10, RowsJoin
<1>13. ASSUME NEW l \in DOMAIN c.lots
       PROVE  c.lots[l].left = c.ledger[l].units - TracedUnits(FromLot(c, l))
  <2> DEFINE B == {r \in new : r.credit = l}
  <2>1. l # NoLot /\ l \in DOMAIN b.lots
    BY <1>1, <1>8
  <2>2. FromLot(c, l) = FromLot(b, l) \cup B /\ FromLot(b, l) \subseteq b.traced /\ B \subseteq new
    BY <1>1 DEF FromLot
  <2>3. b.lots[l].left = b.ledger[l].units - TracedUnits(FromLot(b, l))
    BY <2>1 DEF Audited
  <2>4. TracedUnits(B) = IF l \in R THEN t[l] ELSE 0
    <3>1. CASE l \in R /\ t[l] > 0
      <4>1. TracedRow(i, l, t[l]) \in B
        BY <1>4, <1>6, <3>1 DEF TracedRow
      <4>2. B = {TracedRow(i, l, t[l])}
        BY <1>4, <1>5, <1>7, <2>1, <4>1 DEF TracedRow
      <4>3. TracedRow(i, l, t[l]).units = t[l] /\ t[l] \in Int
        BY <1>1, <3>1 DEF TracedRow
      <4> HIDE DEF B
      <4> QED
        BY <3>1, <4>2, <4>3, TracedOne
    <3>2. CASE ~ (l \in R /\ t[l] > 0)
      <4>1. B = {}
        BY <1>4, <1>5, <1>7, <2>1, <3>2 DEF TracedRow
      <4>2. l \in R => t[l] = 0
        BY <1>1, <3>2
      <4> HIDE DEF B
      <4> QED
        BY <4>1, <4>2, TracedNone
    <3> QED
      BY <3>1, <3>2
  <2> HIDE DEF B
  <2>5. /\ TracedUnits(FromLot(c, l)) = TracedUnits(FromLot(b, l)) + TracedUnits(B)
        /\ TracedUnits(FromLot(b, l)) \in Int /\ TracedUnits(B) \in Int
    BY <1>12, <2>2
  <2>6. b.ledger[l].units \in Int
    BY <2>1, LotsFinite, EntryTyped
  <2> QED
    BY <1>1, <2>1, <2>3, <2>4, <2>5, <2>6
<1>14. ASSUME NEW j \in New(c), c.ledger[j].units < 0
       PROVE  TracedUnits(OfDebit(c, j)) = -c.ledger[j].units - (IF j = i THEN m ELSE 0)
  <2>1. TracedUnits(OfDebit(b, j)) = -b.ledger[j].units - (IF j = i THEN n + m ELSE 0)
    BY <1>1, <1>11, <1>14 DEF Audited
  <2>2. OfDebit(b, j) \subseteq b.traced
    BY DEF OfDebit
  <2>3. CASE j = i
    <3>1. OfDebit(c, j) = OfDebit(b, j) \cup new
      BY <1>1, <1>9, <2>3 DEF OfDebit
    <3>2. TracedUnits(OfDebit(c, j)) = TracedUnits(OfDebit(b, j)) + n
      BY <1>3, <1>12, <2>2, <3>1
    <3>3. b.ledger[i].units \in Int
      BY EntryTyped DEF New
    <3> QED
      BY <1>1, <2>1, <2>3, <3>2, <3>3
  <2>4. CASE j # i
    <3>1. OfDebit(c, j) = OfDebit(b, j)
      BY <1>1, <1>9, <2>4 DEF OfDebit
    <3> QED
      BY <1>1, <2>1, <2>4, <3>1
  <2> QED
    BY <2>3, <2>4
<1>15. ASSUME NEW a \in Accounts
       PROVE  /\ TracedUnits(Untraced(c, a))
                   = TracedUnits(Untraced(b, a)) + (IF a = mine THEN rest ELSE 0)
              /\ TracedUnits(Untraced(b, a)) \in Int
              /\ TracedUnits(UntracedSpends(b, a)) \in Int
              /\ TracedUnits(UntracedSpends(c, a)) =
                   TracedUnits(UntracedSpends(b, a))
                     + (IF a = mine /\ b.ledger[i].source # "google_play" THEN rest ELSE 0)
  <2>1. Untraced(b, a) \subseteq b.traced /\ UntracedSpends(b, a) \subseteq b.traced
    BY DEF Untraced, UntracedSpends
  <2>2. TracedUnits(Untraced(b, a)) \in Int /\ TracedUnits(UntracedSpends(b, a)) \in Int
    BY <2>1, TracedRows
  <2>3. \A r \in new : r.credit = NoLot <=> r \in left
    BY <1>2, <1>4, <1>5, <1>7, <1>8 DEF TracedRow
  <2>4. left \subseteq new /\ \A r \in left : r.debit = i /\ c.ledger[r.debit] = b.ledger[i]
    BY <1>1, <1>4, <1>9
  <2>5. Untraced(c, a) = IF a = mine THEN Untraced(b, a) \cup left ELSE Untraced(b, a)
    BY <1>1, <1>9, <2>3, <2>4 DEF Untraced, mine
  <2>6. UntracedSpends(c, a) = IF a = mine /\ b.ledger[i].source # "google_play"
                               THEN UntracedSpends(b, a) \cup left ELSE UntracedSpends(b, a)
    BY <1>1, <2>4, <2>5 DEF Untraced, UntracedSpends, mine
  <2>7. /\ TracedUnits(Untraced(b, a) \cup left) = TracedUnits(Untraced(b, a)) + rest
        /\ TracedUnits(UntracedSpends(b, a) \cup left) = TracedUnits(UntracedSpends(b, a)) + rest
    BY <1>3, <1>12, <2>1, <2>4
  <2> QED
    BY <2>2, <2>5, <2>6, <2>7
<1>16. ASSUME NEW a \in Accounts
       PROVE  Total(c, a) = HistoricUnits(a) + Left(c, LotsOf(c, a)) - TracedUnits(Untraced(c, a))
                              - (IF i \in DOMAIN c.ledger /\ c.ledger[i].acct = a THEN m ELSE 0)
  <2>1. Total(c, a) = Total(b, a) /\ LotsOf(c, a) = LotsOf(b, a) /\ i \in DOMAIN b.ledger
    BY <1>1 DEF Total, EntriesOf, LotsOf, New
  <2>2. Total(b, a) = HistoricUnits(a) + Left(b, LotsOf(b, a)) - TracedUnits(Untraced(b, a))
                              - (IF mine = a THEN n + m ELSE 0)
    BY <2>1 DEF Audited, mine
  <2>3. LotsOf(b, a) \subseteq DOMAIN b.lots
    BY DEF LotsOf
  <2>4. /\ Left(b, LotsOf(b, a)) \in Int
        /\ Left(c, LotsOf(b, a)) = Left(b, LotsOf(b, a)) - (IF mine = a THEN n - rest ELSE 0)
    <3>1. /\ Left(b, LotsOf(b, a)) \in Int
          /\ (\A l \in R : l \notin LotsOf(b, a)) => Left(c, LotsOf(b, a)) = Left(b, LotsOf(b, a))
          /\ (\A l \in R : l \in LotsOf(b, a)) =>
                Left(c, LotsOf(b, a)) = Left(b, LotsOf(b, a)) - (n - rest)
      <4> DEFINE Q == LotsOf(b, a)
      <4> HIDE DEF Q
      <4>1. LotsIn(b, Q)
        BY <2>3 DEF Q, LotsIn
      <4>2. LeavesOf(b, i, title, n, Q)
        BY <1>t, <4>1, ConsumeLeaves
      <4> QED
        BY <4>2 DEF LeavesOf, c, R, rest, Q
    <3>2. CASE mine = a
      <4>1. \A l \in R : l \in LotsOf(b, a)
        BY <1>2, <3>2 DEF LotsOf, Pool
      <4> QED
        BY <3>1, <3>2, <4>1
    <3>3. CASE mine # a
      <4>1. \A l \in R : l \notin LotsOf(b, a)
        BY <1>2, <3>3 DEF LotsOf, Pool
      <4> QED
        BY <3>1, <3>3, <4>1
    <3> QED
      BY <3>2, <3>3
  <2>5. HistoricUnits(a) \in Int
    BY HistoricType
  <2> QED
    BY <1>1, <1>2, <1>15, <2>1, <2>2, <2>4, <2>5 DEF mine
<1>17. Audited(c, i, m)
  BY <1>13, <1>14, <1>16 DEF Audited
<1>18. \A r \in OfDebit(c, i) :
          \/ r \in OfDebit(b, i) \/ r.credit \in Pool(b, mine, title)
          \/ r.credit = NoLot /\ rest > 0
  BY <1>1, <1>2, <1>4, <1>5, <1>7 DEF OfDebit, TracedRow
<1> QED
  BY <1>15, <1>17, <1>18 DEF c, rest, mine

-----------------------------------------------------------------------------
(* A receipt more *)

\* A receipt more, its lots and its rows not yet made.
Added(b, e) == [b EXCEPT !.ledger = Append(@, e)]
Next1(b) == Len(b.ledger) + 1

\* The sums of the book are sums of integers.
LEMMA TotalType ==
    ASSUME NEW b, Sound(b), NEW a
    PROVE  /\ Ints(Units(b.ledger), EntriesOf(b, a)) /\ IsFiniteSet(EntriesOf(b, a))
           /\ Total(b, a) \in Int
<1>1. IsFiniteSet(EntriesOf(b, a))
  BY LotsFinite, FS_Subset DEF EntriesOf
<1>2. \A i \in EntriesOf(b, a) : Units(b.ledger)[i] \in Int
  BY EntryTyped DEF EntriesOf, Units
<1> QED
  BY <1>1, <1>2, SumType DEF Ints, Total

\* The new receipt is at the end of the ledger, and nothing else changes.
LEMMA AddedTables ==
    ASSUME NEW b, Sound(b), NEW e \in Entry
    PROVE  LET c == Added(b, e)
               k == Next1(b)
           IN  /\ Book(c) /\ c.ledger \in Seq(Entry) /\ c.ledger = Append(b.ledger, e)
               /\ c.lots = b.lots /\ c.traced = b.traced /\ c.paid = b.paid /\ c.nonces = b.nonces
               /\ k \in Nat \ {0} /\ k \notin DOMAIN b.ledger
               /\ DOMAIN c.ledger = DOMAIN b.ledger \cup {k}
               /\ \A i \in DOMAIN b.ledger : c.ledger[i] = b.ledger[i]
               /\ c.ledger[k] = e
               /\ New(c) = New(b) \cup {k}
               /\ \A l \in DOMAIN b.lots : l \in DOMAIN b.ledger
               /\ \A r \in b.traced : /\ r.debit \in DOMAIN b.ledger
                                      /\ r.credit # NoLot => r.credit \in DOMAIN b.lots
<1>1. Book(b) /\ b.ledger \in Seq(Entry) /\ DOMAIN History \subseteq DOMAIN b.ledger
  BY DEF Sound, Lots
<1>2. LET c == Added(b, e)
          k == Next1(b)
      IN  /\ Book(c) /\ c.ledger = Append(b.ledger, e)
          /\ c.lots = b.lots /\ c.traced = b.traced /\ c.paid = b.paid /\ c.nonces = b.nonces
          /\ c.ledger \in Seq(Entry)
          /\ k \in Nat \ {0} /\ k \notin DOMAIN b.ledger
          /\ DOMAIN c.ledger = DOMAIN b.ledger \cup {k}
          /\ \A i \in DOMAIN b.ledger : c.ledger[i] = b.ledger[i]
          /\ c.ledger[k] = e
  BY <1>1, AppendParts DEF Added, Book, Next1
<1>3. New(Added(b, e)) = New(b) \cup {Next1(b)}
  BY <1>1, <1>2 DEF New
<1>4. /\ \A l \in DOMAIN b.lots : l \in DOMAIN b.ledger
      /\ \A r \in b.traced : /\ r.debit \in DOMAIN b.ledger
                             /\ r.credit # NoLot => r.credit \in DOMAIN b.lots
  BY DEF Sound, Lots, Traces, New
<1> QED
  BY <1>2, <1>3, <1>4

\* It adds its units to the total of its account, and to no other sum.
LEMMA AddedTotal ==
    ASSUME NEW b, Sound(b), NEW e \in Entry, NEW a
    PROVE  /\ Total(Added(b, e), a) = Total(b, a) + (IF e.acct = a THEN e.units ELSE 0)
           /\ Total(b, a) \in Int /\ e.units \in Int
<1> DEFINE c == Added(b, e)
           k == Next1(b)
           S == EntriesOf(b, a)
           T == EntriesOf(c, a)
           f == Units(b.ledger)
           g == Units(c.ledger)
<1>1. /\ k \notin DOMAIN b.ledger /\ DOMAIN c.ledger = DOMAIN b.ledger \cup {k}
      /\ \A i \in DOMAIN b.ledger : c.ledger[i] = b.ledger[i]
      /\ c.ledger[k] = e
  BY AddedTables
<1>2. Ints(f, S) /\ IsFiniteSet(S) /\ Total(b, a) \in Int /\ e.units \in Int
  BY TotalType DEF Entry
<1> HIDE DEF c, k
<1>3. \A i \in S : g[i] = f[i]
  BY <1>1 DEF EntriesOf, Units
<1>4. SumFunctionOnSet(g, S) = SumFunctionOnSet(f, S)
  <2> HIDE DEF f, g, S
  <2> QED
    BY <1>2, <1>3, SumSame
<1>5. Total(b, a) = SumFunctionOnSet(f, S) /\ Total(c, a) = SumFunctionOnSet(g, T)
  BY DEF Total
<1>6. CASE e.acct = a
  <2>1. T = S \cup {k} /\ k \notin S /\ g[k] = e.units
    BY <1>1, <1>6 DEF EntriesOf, Units
  <2>2. Ints(g, S \cup {k})
    BY <1>2, <1>3, <2>1 DEF Ints
  <2> HIDE DEF f, g, S, T
  <2>3. SumFunctionOnSet(g, S \cup {k}) = g[k] + SumFunctionOnSet(g, S)
    BY <1>2, <2>1, <2>2, SumPut
  <2> QED
    BY <1>2, <1>4, <1>5, <1>6, <2>1, <2>3 DEF c
<1>7. CASE e.acct # a
  <2>1. T = S
    BY <1>1, <1>7 DEF EntriesOf
  <2> HIDE DEF f, g, S, T
  <2> QED
    BY <1>2, <1>4, <1>5, <1>7, <2>1 DEF c
<1> QED
  BY <1>6, <1>7

\* It has no rows, and no lot has more or less.
LEMMA AddedSame ==
    ASSUME NEW b, Sound(b), NEW e \in Entry
    PROVE  LET c == Added(b, e)
           IN  /\ \A Q : Left(c, Q) = Left(b, Q)
               /\ \A a : LotsOf(c, a) = LotsOf(b, a) /\ Scoped(c, a) = Scoped(b, a)
               /\ \A a, title : Pool(c, a, title) = Pool(b, a, title)
               /\ \A l : FromLot(c, l) = FromLot(b, l)
               /\ \A j : OfDebit(c, j) = OfDebit(b, j)
               /\ OfDebit(c, Next1(b)) = {}
               /\ \A a : Untraced(c, a) = Untraced(b, a)
               /\ \A a : UntracedSpends(c, a) = UntracedSpends(b, a)
<1> DEFINE c == Added(b, e)
<1>1. /\ c.lots = b.lots /\ c.traced = b.traced /\ Next1(b) \notin DOMAIN b.ledger
      /\ \A l \in DOMAIN b.lots : c.ledger[l] = b.ledger[l]
      /\ \A r \in b.traced : r.debit \in DOMAIN b.ledger /\ c.ledger[r.debit] = b.ledger[r.debit]
  BY AddedTables
<1> HIDE DEF c
<1>2. \A Q : Left(c, Q) = Left(b, Q)
  BY <1>1 DEF Left
<1>3. \A a : LotsOf(c, a) = LotsOf(b, a)
  BY <1>1 DEF LotsOf
<1>4. \A a, title : Pool(c, a, title) = Pool(b, a, title)
  BY <1>1 DEF Pool
<1>5. \A a : Scoped(c, a) = Scoped(b, a)
  <2> SUFFICES ASSUME NEW a PROVE Scoped(c, a) = Scoped(b, a)
    OBVIOUS
  <2>1. {i \in DOMAIN c.lots : c.ledger[i].acct = a /\ c.lots[i].title # Shared}
          = {i \in DOMAIN b.lots : b.ledger[i].acct = a /\ b.lots[i].title # Shared}
    BY <1>1
  <2> QED
    BY <1>2, <2>1 DEF Scoped
<1>6. /\ \A l : FromLot(c, l) = FromLot(b, l)
      /\ \A j : OfDebit(c, j) = OfDebit(b, j)
      /\ OfDebit(c, Next1(b)) = {}
  BY <1>1 DEF FromLot, OfDebit
<1>7. \A a : Untraced(c, a) = Untraced(b, a)
  BY <1>1 DEF Untraced
<1>8. \A a : UntracedSpends(c, a) = UntracedSpends(b, a)
  <2>1. \A a : \A r \in Untraced(b, a) : c.ledger[r.debit] = b.ledger[r.debit]
    BY <1>1 DEF Untraced
  <2> QED
    BY <1>7, <2>1 DEF UntracedSpends
<1> QED
  BY <1>2, <1>3, <1>4, <1>5, <1>6, <1>7, <1>8 DEF c

\* The book is as sound as before.
LEMMA AddedSound ==
    ASSUME NEW b, Sound(b), NEW e \in Entry
    PROVE  Sound(Added(b, e))
<1> DEFINE c == Added(b, e)
<1>1. /\ Book(c) /\ c.ledger \in Seq(Entry)
      /\ c.lots = b.lots /\ c.traced = b.traced
      /\ DOMAIN c.ledger = DOMAIN b.ledger \cup {Next1(b)}
      /\ \A i \in DOMAIN b.ledger : c.ledger[i] = b.ledger[i]
      /\ New(c) = New(b) \cup {Next1(b)}
      /\ \A l \in DOMAIN b.lots : l \in DOMAIN b.ledger
      /\ \A r \in b.traced : /\ r.debit \in DOMAIN b.ledger
                             /\ r.credit # NoLot => r.credit \in DOMAIN b.lots
  BY AddedTables
<1> HIDE DEF c
<1>2. Lots(c)
  BY <1>1 DEF Sound, Lots
<1>3. \A r \in b.traced : r.credit # NoLot /\ BoundRow(b, r) => BoundRow(c, r)
  BY <1>1 DEF BoundRow
<1>4. Traces(c)
  BY <1>1, <1>3 DEF Sound, Traces
<1> QED
  BY <1>1, <1>2, <1>4 DEF Sound, c

\* A debit is audited but for its own units.
LEMMA AddedAudited ==
    ASSUME NEW b, Sound(b), NEW e \in Entry, e.units < 0, Audited(b, NoLot, 0), Backed(b)
    PROVE  /\ Audited(Added(b, e), Next1(b), -e.units)
           /\ Backed(Added(b, e))
           /\ \A title : Untouched(Added(b, e), Next1(b), title)
<1> DEFINE c == Added(b, e)
           k == Next1(b)
<1>1. /\ c.lots = b.lots /\ k \in Nat \ {0} /\ k \notin DOMAIN b.ledger
      /\ DOMAIN c.ledger = DOMAIN b.ledger \cup {k}
      /\ \A i \in DOMAIN b.ledger : c.ledger[i] = b.ledger[i]
      /\ c.ledger[k] = e
      /\ New(c) = New(b) \cup {k}
      /\ \A l \in DOMAIN b.lots : l \in DOMAIN b.ledger
  BY AddedTables
<1>2. /\ \A a : Left(c, LotsOf(c, a)) = Left(b, LotsOf(b, a))
      /\ \A l : FromLot(c, l) = FromLot(b, l)
      /\ \A j : OfDebit(c, j) = OfDebit(b, j)
      /\ OfDebit(c, k) = {}
      /\ \A a : Untraced(c, a) = Untraced(b, a)
      /\ \A a : UntracedSpends(c, a) = UntracedSpends(b, a)
  BY AddedSame
<1>3. \A a : /\ Total(c, a) = Total(b, a) + (IF e.acct = a THEN e.units ELSE 0)
             /\ Total(b, a) \in Int /\ e.units \in Int
  BY AddedTotal
<1>4. NoLot \notin DOMAIN b.ledger
  BY LotsFinite DEF NoLot
<1>e. e.units \in Int
  BY DEF Entry
<1> HIDE DEF c, k
<1>5. \A l \in DOMAIN c.lots : c.lots[l].left = c.ledger[l].units - TracedUnits(FromLot(c, l))
  BY <1>1, <1>2 DEF Audited
<1>6. ASSUME NEW j \in New(c), c.ledger[j].units < 0
      PROVE  TracedUnits(OfDebit(c, j)) = -c.ledger[j].units - (IF j = k THEN -e.units ELSE 0)
  <2>1. CASE j = k
    <3>1. TracedUnits(OfDebit(c, k)) = 0
      BY <1>2, TracedNone
    <3>2. 0 = -e.units - (-e.units)
      BY <1>e
    <3> QED
      BY <1>1, <2>1, <3>1, <3>2
  <2>2. CASE j # k
    <3>1. j \in New(b) /\ c.ledger[j] = b.ledger[j] /\ j # NoLot
      BY <1>1, <1>4, <2>2 DEF New
    <3>2. TracedUnits(OfDebit(b, j)) = -b.ledger[j].units - 0
      BY <1>6, <3>1 DEF Audited
    <3> QED
      BY <1>2, <2>2, <3>1, <3>2
  <2> QED
    BY <2>1, <2>2
<1>7. ASSUME NEW a \in Accounts
      PROVE  Total(c, a) = HistoricUnits(a) + Left(c, LotsOf(c, a)) - TracedUnits(Untraced(c, a))
                             - (IF k \in DOMAIN c.ledger /\ c.ledger[k].acct = a THEN -e.units ELSE 0)
  <2>1. Total(b, a) = HistoricUnits(a) + Left(b, LotsOf(b, a)) - TracedUnits(Untraced(b, a)) - 0
    BY <1>4 DEF Audited
  <2>2. HistoricUnits(a) \in Int
    BY HistoricType
  <2>3. Left(b, LotsOf(b, a)) \in Int
    BY LeftType DEF LotsOf, LotsIn
  <2>4. TracedUnits(Untraced(b, a)) \in Int
    <3>1. Untraced(b, a) \subseteq b.traced
      BY DEF Untraced
    <3> QED
      BY <3>1, TracedRows
  <2>5. Total(c, a) = Total(b, a) + (IF e.acct = a THEN e.units ELSE 0)
    BY <1>3
  <2>6. Total(c, a) = HistoricUnits(a) + Left(b, LotsOf(b, a)) - TracedUnits(Untraced(b, a))
                        - (IF e.acct = a THEN -e.units ELSE 0)
    BY <1>e, <2>1, <2>2, <2>3, <2>4, <2>5
  <2> QED
    BY <1>1, <1>2, <2>6
<1>8. Audited(c, k, -e.units)
  BY <1>5, <1>6, <1>7 DEF Audited
<1>9. Backed(c)
  BY <1>2 DEF Backed
<1>10. \A title : Untouched(c, k, title)
  BY <1>2 DEF Untouched
<1> QED
  BY <1>8, <1>9, <1>10 DEF c, k

-----------------------------------------------------------------------------
(* What an account may spend *)

\* What is not more than nothing adds up to no more.
LEMMA SumNegative ==
    ASSUME NEW S, IsFiniteSet(S), NEW f, Ints(f, S), \A x \in S : f[x] <= 0
    PROVE  SumFunctionOnSet(f, S) <= 0 /\ SumFunctionOnSet(f, S) \in Int
<1> DEFINE none == [x \in S |-> 0]
           g    == [x \in S |-> 0 - f[x]]
<1>1. \A x \in S : f[x] \in Int /\ g[x] \in Nat /\ none[x] = 0 /\ g[x] = none[x] - f[x]
  <2> SUFFICES ASSUME NEW x \in S
               PROVE  f[x] \in Int /\ g[x] \in Nat /\ none[x] = 0 /\ g[x] = none[x] - f[x]
    OBVIOUS
  <2>1. f[x] \in Int /\ f[x] <= 0
    BY DEF Ints
  <2> QED
    BY <2>1
<1>2. Ints(none, S)
  BY <1>1 DEF Ints
<1> HIDE DEF none, g
<1>3. SumFunctionOnSet(g, S) = SumFunctionOnSet(none, S) - SumFunctionOnSet(f, S)
  BY <1>1, <1>2, SumLess
<1>4. SumFunctionOnSet(g, S) \in Nat /\ SumFunctionOnSet(none, S) = 0
  BY <1>1, SumNatural, SumZero
<1>5. SumFunctionOnSet(f, S) \in Int
  BY SumType
<1> QED
  BY <1>3, <1>4, <1>5

\* Lots with something left hold at least what the pool holds; of the shared pool, all.
LEMMA RichCovers ==
    ASSUME NEW b, Sound(b), NEW i, NEW title
    PROVE  LET pool == Pool(b, b.ledger[i].acct, title)
           IN  /\ Left(b, Rich(b, i, title)) \in Nat /\ Left(b, pool) \in Int
               /\ Left(b, pool) <= Left(b, Rich(b, i, title))
               /\ title = Shared => Left(b, pool) = Left(b, Rich(b, i, title))
<1> DEFINE pool == Pool(b, b.ledger[i].acct, title)
           R == Rich(b, i, title)
           P == pool \ R
           f == LeftOf(b)
<1>1. /\ pool \subseteq DOMAIN b.lots /\ R \subseteq pool /\ R \cup P = pool /\ R \cap P = {}
      /\ \A l \in pool : b.lots[l].title = title /\ (l \in R <=> b.lots[l].left > 0)
  BY DEF Rich, Pool
<1>2. \A l \in DOMAIN b.lots : /\ f[l] = b.lots[l].left /\ f[l] \in Int
                               /\ b.lots[l].title = Shared => f[l] >= 0
  BY LotsFinite DEF LeftOf, Sound, Lots
<1> HIDE DEF pool, R, P, f
<1>3. IsFiniteSet(R) /\ IsFiniteSet(P) /\ Ints(f, R) /\ Ints(f, P) /\ Ints(f, R \cup P)
  <2>1. IsFiniteSet(pool)
    BY <1>1, LotsFinite, FS_Subset
  <2>2. IsFiniteSet(R) /\ IsFiniteSet(P)
    BY <1>1, <2>1, FS_Subset
  <2> QED
    BY <1>1, <1>2, <2>2 DEF Ints
<1>4. SumFunctionOnSet(f, pool) = SumFunctionOnSet(f, R) + SumFunctionOnSet(f, P)
  BY <1>1, <1>3, SumUnion
<1>5. SumFunctionOnSet(f, R) \in Nat
  <2>1. \A l \in R : f[l] \in Nat
    <3> SUFFICES ASSUME NEW l \in R PROVE f[l] \in Nat
      OBVIOUS
    <3>1. f[l] \in Int /\ f[l] > 0
      BY <1>1, <1>2
    <3> QED
      BY <3>1
  <2> QED
    BY <1>3, <2>1, SumNatural
<1>6. SumFunctionOnSet(f, P) <= 0 /\ SumFunctionOnSet(f, P) \in Int
  <2>1. \A l \in P : f[l] <= 0
    <3> SUFFICES ASSUME NEW l \in P PROVE f[l] <= 0
      OBVIOUS
    <3>1. f[l] \in Int /\ ~ (f[l] > 0)
      BY <1>1, <1>2
    <3> QED
      BY <3>1
  <2> QED
    BY <1>3, <2>1, SumNegative
<1>7. title = Shared => SumFunctionOnSet(f, P) = 0
  <2> SUFFICES ASSUME title = Shared PROVE SumFunctionOnSet(f, P) = 0
    OBVIOUS
  <2>1. \A l \in P : f[l] = 0
    <3> SUFFICES ASSUME NEW l \in P PROVE f[l] = 0
      OBVIOUS
    <3>1. f[l] \in Int /\ ~ (f[l] > 0) /\ f[l] >= 0
      BY <1>1, <1>2
    <3> QED
      BY <3>1
  <2> QED
    BY <1>3, <2>1, SumZero
<1>8. Left(b, R) = SumFunctionOnSet(f, R) /\ Left(b, pool) = SumFunctionOnSet(f, pool)
  BY LeftSum DEF f
<1> QED
  BY <1>4, <1>5, <1>6, <1>7, <1>8 DEF pool, R

\* What is left of an account's lots is left of the shared ones or of its titles'.
LEMMA LeftParts ==
    ASSUME NEW b, Sound(b), NEW a
    PROVE  /\ Left(b, LotsOf(b, a)) = Left(b, Pool(b, a, Shared)) + Scoped(b, a)
           /\ Left(b, Pool(b, a, Shared)) \in Int /\ Scoped(b, a) \in Int
<1> DEFINE P == Pool(b, a, Shared)
           Q == {i \in DOMAIN b.lots : b.ledger[i].acct = a /\ b.lots[i].title # Shared}
<1>1. /\ LotsOf(b, a) = P \cup Q /\ P \cap Q = {}
      /\ LotsIn(b, P) /\ LotsIn(b, Q) /\ LotsIn(b, P \cup Q)
  BY DEF Pool, LotsOf, LotsIn
<1>2. Scoped(b, a) = Left(b, Q)
  BY DEF Scoped
<1> HIDE DEF P, Q
<1>3. /\ Left(b, P) \in Int /\ Left(b, Q) \in Int
      /\ IsFiniteSet(P) /\ IsFiniteSet(Q) /\ Ints(LeftOf(b), P \cup Q)
  BY <1>1, LeftType
<1>4. SumFunctionOnSet(LeftOf(b), P \cup Q)
        = SumFunctionOnSet(LeftOf(b), P) + SumFunctionOnSet(LeftOf(b), Q)
  BY <1>1, <1>3, SumUnion
<1> QED
  BY <1>1, <1>2, <1>3, <1>4, LeftSum DEF P

\* What any title may spend is what was there before the lots and is left of the
\* shared ones, less what was traced to none.
LEMMA SharedIs ==
    ASSUME NEW b, Sound(b), NEW i, NEW n \in Nat, Audited(b, i, n), NEW a \in Accounts
    PROVE  /\ SharedUnits(b, a) = HistoricUnits(a) + Left(b, Pool(b, a, Shared))
                                    - TracedUnits(Untraced(b, a))
                                    - (IF i \in DOMAIN b.ledger /\ b.ledger[i].acct = a THEN n ELSE 0)
           /\ SharedUnits(b, a) \in Int /\ HistoricUnits(a) \in Int
           /\ Left(b, Pool(b, a, Shared)) \in Int /\ TracedUnits(Untraced(b, a)) \in Int
<1> DEFINE owed == IF i \in DOMAIN b.ledger /\ b.ledger[i].acct = a THEN n ELSE 0
<1>1. Total(b, a) = HistoricUnits(a) + Left(b, LotsOf(b, a)) - TracedUnits(Untraced(b, a)) - owed
  BY DEF Audited
<1>2. owed \in Int
  OBVIOUS
<1> HIDE DEF owed
<1>3. /\ Left(b, LotsOf(b, a)) = Left(b, Pool(b, a, Shared)) + Scoped(b, a)
      /\ Left(b, Pool(b, a, Shared)) \in Int /\ Scoped(b, a) \in Int
  BY LeftParts
<1>4. TracedUnits(Untraced(b, a)) \in Int
  <2>1. Untraced(b, a) \subseteq b.traced
    BY DEF Untraced
  <2> QED
    BY <2>1, TracedRows
<1>5. HistoricUnits(a) \in Int
  BY HistoricType
<1>6. SharedUnits(b, a) = HistoricUnits(a) + Left(b, Pool(b, a, Shared)) - TracedUnits(Untraced(b, a)) - owed
  BY <1>1, <1>2, <1>3, <1>4, <1>5 DEF SharedUnits
<1> QED
  BY <1>2, <1>3, <1>4, <1>5, <1>6 DEF owed

\* What spends took from no lot is part of what was taken from none.
LEMMA SpendsAmongUntraced ==
    ASSUME NEW b, Sound(b), NEW a
    PROVE  /\ TracedUnits(UntracedSpends(b, a)) \in Int /\ TracedUnits(Untraced(b, a)) \in Int
           /\ TracedUnits(UntracedSpends(b, a)) <= TracedUnits(Untraced(b, a))
<1> DEFINE A == UntracedSpends(b, a)
           B == Untraced(b, a) \ A
<1>1. A \cup B = Untraced(b, a) /\ A \cap B = {} /\ A \subseteq b.traced /\ B \subseteq b.traced
  BY DEF Untraced, UntracedSpends
<1> HIDE DEF A, B
<1>2. Rows(A) /\ Rows(B) /\ TracedUnits(A) \in Int
  BY <1>1, TracedRows
<1>3. TracedUnits(A \cup B) = TracedUnits(A) + TracedUnits(B)
  BY <1>1, <1>2, TracedUnion
<1>4. TracedUnits(B) \in Nat
  <2> DEFINE h == [r \in B |-> r.units]
  <2>1. \A r \in B : h[r] \in Nat
    BY <1>1 DEF Sound, Traces
  <2>2. TracedUnits(B) = SumFunctionOnSet(h, B)
    BY DEF TracedUnits, SumFunction
  <2> HIDE DEF h
  <2> QED
    BY <1>2, <2>1, <2>2, SumNatural DEF Rows
<1>5. TracedUnits(Untraced(b, a)) = TracedUnits(A) + TracedUnits(B)
  BY <1>1, <1>3
<1>6. TracedUnits(A) <= TracedUnits(Untraced(b, a)) /\ TracedUnits(Untraced(b, a)) \in Int
  BY <1>2, <1>4, <1>5
<1> QED
  BY <1>2, <1>6 DEF A

-----------------------------------------------------------------------------
(* A debit: first what its own title holds, then the shared lots *)

\* A book in order: every unit is traced.
Fine(b) == Sound(b) /\ Audited(b, NoLot, 0) /\ Backed(b)

\* b owes n of debit i still.
Owing(b, i, n) ==
    /\ Sound(b) /\ i \in New(b) /\ b.ledger[i].units < 0 /\ n \in Nat /\ Audited(b, i, n)

\* What a debit takes from its title, and from the shared lots.
OwnUnits(b, i, n) ==
    LET title == MatchingApp(b.ledger[i])
    IN  IF Matching(b, b.ledger[i].acct, title) < n THEN Matching(b, b.ledger[i].acct, title) ELSE n
AfterOwn(b, i, n) ==
    IF OwnUnits(b, i, n) > 0 THEN Consume(b, i, MatchingApp(b.ledger[i]), OwnUnits(b, i, n)) ELSE b

\* A debit consumes its own lots, then the shared ones.
LEMMA DebitedIs ==
    ASSUME NEW b, NEW i, NEW n
    PROVE  Debited(b, i, n) = Consume(AfterOwn(b, i, n), i, Shared, n - OwnUnits(b, i, n))
BY DEF Debited, AfterOwn, OwnUnits

\* What was taken from a title's own lots is there, and nothing else changes.
LEMMA OwnTaken ==
    ASSUME NEW b, NEW i, NEW n, Owing(b, i, n), \A title : Untouched(b, i, title),
           b.ledger[i].source # "google_play", MatchingApp(b.ledger[i]) \in Titles \cup {Shared}
    PROVE  LET c == AfterOwn(b, i, n)
               m == OwnUnits(b, i, n)
               a == b.ledger[i].acct
           IN  /\ m \in Nat /\ m <= n /\ Owing(c, i, n - m) /\ c.ledger = b.ledger
               /\ Untouched(c, i, Shared)
               /\ Left(c, Pool(c, a, Shared)) = Left(b, Pool(b, a, Shared))
               /\ \A x \in Accounts :
                     TracedUnits(UntracedSpends(c, x)) = TracedUnits(UntracedSpends(b, x))
<1> DEFINE title == MatchingApp(b.ledger[i])
           a     == b.ledger[i].acct
           m     == OwnUnits(b, i, n)
           c     == AfterOwn(b, i, n)
<1>1. Sound(b) /\ i \in New(b) /\ b.ledger[i].units < 0 /\ n \in Nat /\ Audited(b, i, n)
  BY DEF Owing
<1>2. /\ Left(b, Rich(b, i, title)) \in Nat /\ Left(b, Pool(b, a, title)) \in Int
      /\ Left(b, Pool(b, a, title)) <= Left(b, Rich(b, i, title))
  BY <1>1, RichCovers
<1>3. /\ m \in Nat /\ m <= n
      /\ m > 0 => title # Shared /\ m <= Left(b, Pool(b, a, title))
  <2>1. Matching(b, a, title) = IF title = Shared THEN 0 ELSE Positive(Left(b, Pool(b, a, title)))
    BY DEF Matching, TitleUnits
  <2>2. m = IF Matching(b, a, title) < n THEN Matching(b, a, title) ELSE n
    BY DEF OwnUnits
  <2> HIDE DEF m, title, a
  <2> QED
    BY <1>1, <1>2, <2>1, <2>2 DEF Positive
<1>4. CASE ~ (m > 0)
  <2>1. c = b /\ m = 0
    BY <1>3, <1>4 DEF AfterOwn
  <2>2. n - m = n
    BY <1>1, <2>1
  <2> QED
    BY <1>1, <1>3, <2>1, <2>2
<1>5. CASE m > 0
  <2>1. c = Consume(b, i, title, m)
    BY <1>5 DEF AfterOwn
  <2>2. title # Shared /\ title \in Titles /\ n - m \in Nat /\ m + (n - m) = n
    BY <1>1, <1>3, <1>5
  <2>3. MaySpend(b, i, title)
    <3>1. title = IF b.ledger[i].source \in {"spend", "unlock"} THEN b.ledger[i].app ELSE Shared
      BY DEF MatchingApp
    <3> QED
      BY <2>2, <3>1 DEF MaySpend
  <2>4. Rest(b, i, title, m) = 0
    <3> HIDE DEF m, title, a
    <3> QED
      BY <1>2, <1>3, <1>5 DEF Rest, Positive
  <2> HIDE DEF m, title, a, c
  <2>5. PICK t : Taken(b, i, title, m, t)
    BY <1>1, <1>3, ConsumeTakes
  <2>6. Sound(c)
    BY <1>1, <1>3, <2>1, <2>3, <2>5, ConsumeSound
  <2>7. /\ c.ledger = b.ledger /\ DOMAIN c.lots = DOMAIN b.lots
        /\ \A l \in DOMAIN b.lots : c.lots[l].title = b.lots[l].title
    BY <2>1, <2>5 DEF Taken, SameReceipts
  <2>8. /\ Audited(c, i, n - m)
        /\ \A r \in OfDebit(c, i) :
              \/ r \in OfDebit(b, i) \/ r.credit \in Pool(b, b.ledger[i].acct, title)
              \/ r.credit = NoLot /\ Rest(b, i, title, m) > 0
        /\ \A x \in Accounts :
              /\ TracedUnits(UntracedSpends(b, x)) \in Int
              /\ TracedUnits(UntracedSpends(c, x)) =
                   TracedUnits(UntracedSpends(b, x))
                     + (IF x = b.ledger[i].acct /\ b.ledger[i].source # "google_play"
                        THEN Rest(b, i, title, m) ELSE 0)
    <3>1. Audited(b, i, m + (n - m))
      BY <1>1, <2>2
    <3>2. Untouched(b, i, title)
      OBVIOUS
    <3> QED
      BY <1>1, <1>3, <2>1, <2>2, <3>1, <3>2, ConsumeAudited
  <2>9. New(c) = New(b)
    BY <2>7 DEF New
  <2>10. Owing(c, i, n - m)
    BY <1>1, <2>2, <2>6, <2>7, <2>8, <2>9 DEF Owing
  <2>11. Pool(c, a, Shared) = Pool(b, a, Shared)
    BY <2>7 DEF Pool
  <2>12. Untouched(c, i, Shared)
    <3>1. ASSUME NEW r \in OfDebit(c, i)
          PROVE  r.credit # NoLot /\ r.credit \notin Pool(b, a, Shared)
      <4>1. CASE r \in OfDebit(b, i)
        BY <4>1 DEF Untouched, a
      <4>2. CASE r.credit \in Pool(b, a, title)
        <5>1. r.credit \in DOMAIN b.lots /\ b.lots[r.credit].title = title
          BY <4>2 DEF Pool
        <5> QED
          BY <1>1, <2>2, <5>1, LotsFinite DEF Pool, NoLot
      <4> QED
        BY <2>4, <2>8, <4>1, <4>2 DEF a
    <3> QED
      BY <2>7, <2>11, <3>1 DEF Untouched, a
  <2>13. Left(c, Pool(b, a, Shared)) = Left(b, Pool(b, a, Shared))
    <3> DEFINE Q == Pool(b, a, Shared)
    <3>1. LotsIn(b, Q)
      BY DEF LotsIn, Pool
    <3>2. \A l \in Rich(b, i, title) : l \notin Q
      BY <2>2 DEF Rich, Pool
    <3> HIDE DEF Q
    <3>3. LeavesOf(b, i, title, m, Q)
      BY <1>1, <1>3, <2>5, <3>1, ConsumeLeaves
    <3>4. Left(c, Q) = Left(b, Q)
      BY <2>1, <3>2, <3>3 DEF LeavesOf
    <3> QED
      BY <3>4 DEF Q
  <2>14. \A x \in Accounts :
            TracedUnits(UntracedSpends(c, x)) = TracedUnits(UntracedSpends(b, x))
    <3> SUFFICES ASSUME NEW x \in Accounts
                 PROVE  TracedUnits(UntracedSpends(c, x)) = TracedUnits(UntracedSpends(b, x))
      OBVIOUS
    <3>1. /\ TracedUnits(UntracedSpends(b, x)) \in Int
          /\ TracedUnits(UntracedSpends(c, x)) =
               TracedUnits(UntracedSpends(b, x))
                 + (IF x = b.ledger[i].acct /\ b.ledger[i].source # "google_play"
                    THEN Rest(b, i, title, m) ELSE 0)
      BY <2>8
    <3> QED
      BY <2>4, <3>1
  <2> QED
    BY <1>3, <2>7, <2>10, <2>11, <2>12, <2>13, <2>14 DEF m, a, c
<1> QED
  BY <1>4, <1>5

\* A debit within what the account may spend leaves the books in order.
LEMMA DebitedFine ==
    ASSUME NEW b, NEW i, NEW n, Owing(b, i, n), \A title : Untouched(b, i, title),
           b.ledger[i].source # "google_play", MatchingApp(b.ledger[i]) \in Titles \cup {Shared},
           Backed(b),
           LET e == b.ledger[i]
           IN  n <= Positive(SharedUnits(b, e.acct) + n) + Matching(b, e.acct, MatchingApp(e))
    PROVE  Fine(Debited(b, i, n))
<1> DEFINE a == b.ledger[i].acct
           m == OwnUnits(b, i, n)
           c == AfterOwn(b, i, n)
           d == Consume(c, i, Shared, n - m)
           rest == Rest(c, i, Shared, n - m)
           spent(x) == TracedUnits(UntracedSpends(b, x))
           held == Left(b, Pool(b, a, Shared))
<1>1. Sound(b) /\ i \in New(b) /\ b.ledger[i].units < 0 /\ n \in Nat /\ Audited(b, i, n)
  BY DEF Owing
<1>2. /\ m \in Nat /\ m <= n /\ Owing(c, i, n - m) /\ c.ledger = b.ledger
      /\ Untouched(c, i, Shared)
      /\ Left(c, Pool(c, a, Shared)) = held
      /\ \A x \in Accounts : TracedUnits(UntracedSpends(c, x)) = spent(x)
  BY OwnTaken
<1>3. a \in Accounts /\ i \in DOMAIN b.ledger
  BY <1>1, EntryTyped DEF New
<1>4. /\ Sound(c) /\ i \in New(c) /\ c.ledger[i].units < 0 /\ n - m \in Nat /\ Audited(c, i, n - m)
  BY <1>2 DEF Owing
<1>5. Debited(b, i, n) = d
  BY DebitedIs
<1>6. /\ SharedUnits(b, a) = HistoricUnits(a) + held - TracedUnits(Untraced(b, a)) - n
      /\ HistoricUnits(a) \in Int /\ held \in Int /\ TracedUnits(Untraced(b, a)) \in Int
  <2>1. /\ SharedUnits(b, a) = HistoricUnits(a) + Left(b, Pool(b, a, Shared))
                                 - TracedUnits(Untraced(b, a))
                                 - (IF i \in DOMAIN b.ledger /\ b.ledger[i].acct = a THEN n ELSE 0)
        /\ SharedUnits(b, a) \in Int /\ HistoricUnits(a) \in Int
        /\ Left(b, Pool(b, a, Shared)) \in Int /\ TracedUnits(Untraced(b, a)) \in Int
    BY <1>1, <1>3, SharedIs
  <2> QED
    BY <1>3, <2>1
<1>7. spent(a) \in Int /\ spent(a) <= TracedUnits(Untraced(b, a))
  BY <1>1, SpendsAmongUntraced
<1>8. Left(c, Rich(c, i, Shared)) \in Nat /\ Left(c, Rich(c, i, Shared)) = held
  BY <1>2, <1>4, RichCovers
<1>9. rest = Positive(n - m - held) /\ held \in Nat
  BY <1>8 DEF Rest
<1>10. m = (IF Matching(b, a, MatchingApp(b.ledger[i])) < n
            THEN Matching(b, a, MatchingApp(b.ledger[i])) ELSE n)
  BY DEF OwnUnits
<1>11. n <= Positive(SharedUnits(b, a) + n) + Matching(b, a, MatchingApp(b.ledger[i]))
  OBVIOUS
<1>12. MaySpend(c, i, Shared)
  BY DEF MaySpend
<1>13. Matching(b, a, MatchingApp(b.ledger[i])) \in Int
  <2>1. Left(b, Pool(b, a, MatchingApp(b.ledger[i]))) \in Int
    BY <1>1, RichCovers
  <2> QED
    BY <2>1 DEF Matching, TitleUnits, Positive
<1> HIDE DEF a, m, c, d, rest, spent, held
<1>14. rest \in Nat /\ (rest > 0 => spent(a) + rest <= HistoricUnits(a))
  <2> DEFINE mine == Matching(b, a, MatchingApp(b.ledger[i]))
             none == TracedUnits(Untraced(b, a))
             shared == SharedUnits(b, a)
  <2>1. mine \in Int /\ none \in Int /\ shared \in Int
    BY <1>1, <1>6, <1>13
  <2>2. /\ m = (IF mine < n THEN mine ELSE n) /\ n <= Positive(shared + n) + mine
        /\ shared = HistoricUnits(a) + held - none - n /\ spent(a) <= none
    BY <1>6, <1>7, <1>10, <1>11
  <2> HIDE DEF mine, none, shared
  <2> QED
    BY <1>1, <1>2, <1>6, <1>7, <1>9, <2>1, <2>2 DEF Positive
<1>15. PICK t : Taken(c, i, Shared, n - m, t)
  BY <1>4, ConsumeTakes
<1>16. Sound(d)
  BY <1>4, <1>12, <1>15, ConsumeSound DEF d
<1>17. /\ Audited(d, i, 0)
       /\ \A x \in Accounts :
            /\ TracedUnits(UntracedSpends(c, x)) \in Int
            /\ TracedUnits(UntracedSpends(d, x)) =
                 TracedUnits(UntracedSpends(c, x))
                   + (IF x = c.ledger[i].acct /\ c.ledger[i].source # "google_play"
                      THEN Rest(c, i, Shared, n - m) ELSE 0)
  <2>1. Audited(c, i, (n - m) + 0)
    BY <1>4
  <2> QED
    BY <1>2, <1>4, <2>1, ConsumeAudited DEF d
<1>18. Audited(d, NoLot, 0)
  BY <1>17 DEF Audited
<1>19. Backed(d)
  <2> SUFFICES ASSUME NEW x \in Accounts
               PROVE  TracedUnits(UntracedSpends(d, x)) <= Positive(HistoricUnits(x))
    BY DEF Backed
  <2>1. /\ spent(x) \in Int
        /\ TracedUnits(UntracedSpends(d, x)) = spent(x) + (IF x = a THEN rest ELSE 0)
    BY <1>2, <1>17 DEF a, rest
  <2>2. spent(x) <= Positive(HistoricUnits(x)) /\ Positive(HistoricUnits(x)) \in Int
    BY HistoricType DEF Backed, spent, Positive
  <2>3. HistoricUnits(x) \in Int /\ HistoricUnits(x) <= Positive(HistoricUnits(x))
    BY HistoricType DEF Positive
  <2> QED
    BY <1>14, <2>1, <2>2, <2>3
<1> QED
  BY <1>5, <1>16, <1>18, <1>19 DEF Fine

-----------------------------------------------------------------------------
(* Charges and credits *)

\* The books are those of the ledger, the lots and the rows.
SameTables(b, c) == Book(c) /\ c.ledger = b.ledger /\ c.lots = b.lots /\ c.traced = b.traced

\* Payments and nonces do not matter to it.
LEMMA FineSame ==
    ASSUME NEW b, NEW c, Fine(b), SameTables(b, c)
    PROVE  Fine(c)
<1>1. Book(c) /\ c.ledger = b.ledger /\ c.lots = b.lots /\ c.traced = b.traced
  BY DEF SameTables
<1>2. New(c) = New(b) /\ \A a : LotsOf(c, a) = LotsOf(b, a)
  BY <1>1 DEF New, LotsOf
<1>3. \A Q : Left(c, Q) = Left(b, Q)
  BY <1>1 DEF Left
<1>4. \A a : Total(c, a) = Total(b, a)
  BY <1>1 DEF Total, EntriesOf
<1>5. /\ \A l : FromLot(c, l) = FromLot(b, l)
      /\ \A i : OfDebit(c, i) = OfDebit(b, i)
      /\ \A a : Untraced(c, a) = Untraced(b, a)
  BY <1>1 DEF FromLot, OfDebit, Untraced
<1>6. \A a : UntracedSpends(c, a) = UntracedSpends(b, a)
  BY <1>1, <1>5 DEF UntracedSpends
<1>7. Lots(c)
  BY <1>1, <1>2 DEF Fine, Sound, Lots
<1>8. Traces(c)
  BY <1>1, <1>2 DEF Fine, Sound, Traces, BoundRow
<1>9. c.ledger \in Seq(Entry)
  BY <1>1 DEF Fine, Sound
<1>10. Audited(c, NoLot, 0)
  <2>1. Audited(b, NoLot, 0)
    BY DEF Fine
  <2>2. \A l \in DOMAIN c.lots : c.lots[l].left = c.ledger[l].units - TracedUnits(FromLot(c, l))
    BY <1>1, <1>5, <2>1 DEF Audited
  <2>3. \A j \in New(c) : c.ledger[j].units < 0 =>
           TracedUnits(OfDebit(c, j)) = -c.ledger[j].units - (IF j = NoLot THEN 0 ELSE 0)
    BY <1>1, <1>2, <1>5, <2>1 DEF Audited
  <2>4. \A a \in Accounts :
           Total(c, a) = HistoricUnits(a) + Left(c, LotsOf(c, a)) - TracedUnits(Untraced(c, a))
                           - (IF NoLot \in DOMAIN c.ledger /\ c.ledger[NoLot].acct = a THEN 0 ELSE 0)
    BY <1>1, <1>2, <1>3, <1>4, <1>5, <2>1 DEF Audited
  <2> QED
    BY <2>2, <2>3, <2>4 DEF Audited
<1>11. Backed(c)
  BY <1>6 DEF Fine, Backed
<1> QED
  BY <1>1, <1>7, <1>8, <1>9, <1>10, <1>11 DEF Fine, Sound

\* A charge within what the account may spend leaves the books in order.
LEMMA ChargedFine ==
    ASSUME NEW b, Fine(b), NEW e \in Entry, NEW key, Chargeable(b, e, key),
           e.source # "google_play", MatchingApp(e) \in Titles \cup {Shared}
    PROVE  Fine(Charged(b, e, key))
<1> DEFINE c == Added(b, e)
           k == Next1(b)
           n == -e.units
           a == e.acct
           title == MatchingApp(e)
           d == Debited(c, k, n)
<1>1. Sound(b) /\ Audited(b, NoLot, 0) /\ Backed(b)
  BY DEF Fine
<1>2. /\ e.units \in Int /\ e.units < 0 /\ n \in Nat
      /\ n <= Positive(SharedUnits(b, a)) + Matching(b, a, title)
  BY DEF Chargeable, Spendable, Entry
<1>3. k \in New(c) /\ c.ledger[k] = e /\ c.paid = b.paid
  BY <1>1, AddedTables
<1>4. Sound(c) /\ Audited(c, k, n) /\ Backed(c) /\ \A t : Untouched(c, k, t)
  BY <1>1, <1>2, AddedSound, AddedAudited
<1>5. /\ \A Q : Left(c, Q) = Left(b, Q)
      /\ Scoped(c, a) = Scoped(b, a) /\ Pool(c, a, title) = Pool(b, a, title)
  BY <1>1, AddedSame
<1>6. /\ Total(c, a) = Total(b, a) + (IF e.acct = a THEN e.units ELSE 0)
      /\ Total(b, a) \in Int
  BY <1>1, AddedTotal
<1>7. Scoped(b, a) \in Int
  BY <1>1, LeftParts
<1>8. Insert(b, e) = d
  <2>1. ~ (e.units > 0)
    BY <1>2
  <2> QED
    BY <2>1 DEF Insert, Added, Next1
<1> HIDE DEF c, k, d
<1>9. SharedUnits(c, a) + n = SharedUnits(b, a)
  BY <1>2, <1>5, <1>6, <1>7 DEF SharedUnits
<1>10. Matching(c, a, title) = Matching(b, a, title)
  BY <1>5 DEF Matching, TitleUnits
<1>11. Owing(c, k, n)
  BY <1>2, <1>3, <1>4 DEF Owing
<1>12. Fine(d)
  <2>1. LET f == c.ledger[k]
        IN  n <= Positive(SharedUnits(c, f.acct) + n) + Matching(c, f.acct, MatchingApp(f))
    BY <1>2, <1>3, <1>9, <1>10
  <2> HIDE DEF n
  <2> QED
    BY <1>3, <1>4, <1>11, <2>1, DebitedFine DEF d
<1>13. SameTables(d, Charged(b, e, key))
  <2>1. Book(d)
    BY <1>12 DEF Fine, Sound
  <2> QED
    BY <1>8, <2>1 DEF Charged, SameTables, Book
<1> QED
  BY <1>12, <1>13, FineSame

\* What a credit opens is one lot more.
LEMMA OpenedFine ==
    ASSUME NEW b, Fine(b), NEW e \in Entry, e.units > 0,
           e.source = "google_play" => e.app \in Titles
    PROVE  Fine(Insert(b, e))
<1> DEFINE c == Added(b, e)
           k == Next1(b)
           lots == With(b.lots, k, Lot(e))
           d == [c EXCEPT !.lots = lots]
<1>1. Sound(b) /\ Audited(b, NoLot, 0) /\ Backed(b)
  BY DEF Fine
<1>2. /\ Book(c) /\ c.ledger \in Seq(Entry)
      /\ c.lots = b.lots /\ c.traced = b.traced
      /\ k \in Nat \ {0} /\ k \notin DOMAIN b.ledger
      /\ DOMAIN c.ledger = DOMAIN b.ledger \cup {k}
      /\ \A i \in DOMAIN b.ledger : c.ledger[i] = b.ledger[i]
      /\ c.ledger[k] = e
      /\ New(c) = New(b) \cup {k}
      /\ \A l \in DOMAIN b.lots : l \in DOMAIN b.ledger
      /\ \A r \in b.traced : /\ r.debit \in DOMAIN b.ledger
                             /\ r.credit # NoLot => r.credit \in DOMAIN b.lots
  BY <1>1, AddedTables
<1>3. Insert(b, e) = d
  <2>1. Insert(b, e) = [c EXCEPT !.lots = With(@, k, Lot(e))]
    BY DEF Insert, Added, Next1
  <2> HIDE DEF c, k
  <2> QED
    BY <1>2, <2>1 DEF Book
<1>4. e.units \in Int /\ e.units > 0
  BY DEF Entry
<1>5. Lot(e) \in [title : Titles \cup {Shared}, left : Int] /\ Lot(e).left = e.units
  BY <1>4 DEF Lot
<1>6. Sound(c)
  BY <1>1, AddedSound
<1>7. /\ \A Q : Left(c, Q) = Left(b, Q)
      /\ \A a : LotsOf(c, a) = LotsOf(b, a)
      /\ \A l : FromLot(c, l) = FromLot(b, l)
      /\ \A j : OfDebit(c, j) = OfDebit(b, j)
      /\ \A a : Untraced(c, a) = Untraced(b, a)
      /\ \A a : UntracedSpends(c, a) = UntracedSpends(b, a)
  BY <1>1, AddedSame
<1>8. /\ Book(d) /\ d.ledger = c.ledger /\ d.lots = lots /\ d.traced = c.traced
      /\ DOMAIN lots = DOMAIN b.lots \cup {k}
      /\ \A l \in DOMAIN b.lots : lots[l] = b.lots[l]
      /\ lots[k] = Lot(e)
  <2> HIDE DEF c, k
  <2> QED
    BY <1>2 DEF Book, With
<1> HIDE DEF c, k, lots, d
<1>9. k \notin DOMAIN b.lots /\ k # NoLot /\ NoLot \notin DOMAIN b.ledger
  BY <1>1, <1>2, LotsFinite DEF NoLot
<1>10. New(d) = New(b) \cup {k}
  BY <1>2, <1>8 DEF New
<1>11. Lots(d)
  <2>1. \A l \in DOMAIN b.lots :
          /\ l \in New(b) /\ b.ledger[l].units > 0
          /\ b.lots[l] \in [title : Titles \cup {Shared}, left : Int]
          /\ b.lots[l].title = Lot(b.ledger[l]).title
          /\ b.lots[l].title = Shared => b.lots[l].left >= 0
    BY <1>1 DEF Sound, Lots
  <2>2. e.units >= 0
    BY <1>4
  <2>3. DOMAIN History \subseteq DOMAIN b.ledger /\ \A i \in DOMAIN History : b.ledger[i] = History[i]
    BY <1>1 DEF Sound, Lots
  <2>4. DOMAIN History \subseteq DOMAIN d.ledger /\ \A i \in DOMAIN History : d.ledger[i] = History[i]
    BY <1>2, <1>8, <2>3
  <2>5. ASSUME NEW l \in DOMAIN d.lots
        PROVE  /\ l \in New(d) /\ d.ledger[l].units > 0
               /\ d.lots[l] \in [title : Titles \cup {Shared}, left : Int]
               /\ d.lots[l].title = Lot(d.ledger[l]).title
               /\ d.lots[l].title = Shared => d.lots[l].left >= 0
    <3>1. CASE l = k
      BY <1>2, <1>4, <1>5, <1>8, <1>10, <2>2, <3>1
    <3>2. CASE l \in DOMAIN b.lots
      BY <1>2, <1>8, <1>10, <2>1, <3>2
    <3> QED
      BY <1>8, <3>1, <3>2
  <2> QED
    BY <2>4, <2>5 DEF Lots
<1>12. Traces(d)
  <2>1. Traces(b)
    BY <1>1 DEF Sound
  <2>2. ASSUME NEW r \in b.traced, r.credit # NoLot, BoundRow(b, r)
        PROVE  BoundRow(d, r)
    <3>1. r.credit \in DOMAIN b.lots /\ r.credit \in DOMAIN b.ledger /\ r.debit \in DOMAIN b.ledger
      BY <1>2, <2>2
    <3>2. /\ d.lots[r.credit] = b.lots[r.credit]
          /\ d.ledger[r.credit] = b.ledger[r.credit] /\ d.ledger[r.debit] = b.ledger[r.debit]
      BY <1>2, <1>8, <3>1
    <3> QED
      BY <2>2, <3>2 DEF BoundRow
  <2> QED
    BY <1>2, <1>8, <1>10, <2>1, <2>2 DEF Traces
<1>13. Sound(d)
  BY <1>2, <1>8, <1>11, <1>12 DEF Sound
<1>14. /\ \A l : FromLot(d, l) = FromLot(b, l)
       /\ \A j : OfDebit(d, j) = OfDebit(b, j)
       /\ \A a : Untraced(d, a) = Untraced(b, a)
       /\ \A a : UntracedSpends(d, a) = UntracedSpends(b, a)
  <2>1. /\ \A l : FromLot(d, l) = FromLot(c, l)
        /\ \A j : OfDebit(d, j) = OfDebit(c, j)
        /\ \A a : Untraced(d, a) = Untraced(c, a)
    BY <1>8 DEF FromLot, OfDebit, Untraced
  <2>2. \A a : UntracedSpends(d, a) = UntracedSpends(c, a)
    BY <1>8, <2>1 DEF UntracedSpends
  <2> QED
    BY <1>7, <2>1, <2>2
<1>15. ASSUME NEW l \in DOMAIN d.lots
       PROVE  d.lots[l].left = d.ledger[l].units - TracedUnits(FromLot(d, l))
  <2>1. CASE l = k
    <3>1. FromLot(b, k) = {}
      BY <1>2, <1>9 DEF FromLot
    <3>2. e.units = e.units - 0
      BY <1>4
    <3> QED
      BY <1>2, <1>5, <1>8, <1>14, <2>1, <3>1, <3>2, TracedNone
  <2>2. CASE l \in DOMAIN b.lots
    <3>1. b.lots[l].left = b.ledger[l].units - TracedUnits(FromLot(b, l))
      BY <1>1, <2>2 DEF Audited
    <3> QED
      BY <1>2, <1>8, <1>14, <2>2, <3>1
  <2> QED
    BY <1>8, <2>1, <2>2
<1>16. ASSUME NEW j \in New(d), d.ledger[j].units < 0
       PROVE  TracedUnits(OfDebit(d, j)) = -d.ledger[j].units - (IF j = NoLot THEN 0 ELSE 0)
  <2>1. j # k
    BY <1>2, <1>4, <1>8, <1>16
  <2>2. j \in New(b) /\ d.ledger[j] = b.ledger[j]
    BY <1>2, <1>8, <1>10, <2>1 DEF New
  <2>3. TracedUnits(OfDebit(b, j)) = -b.ledger[j].units - (IF j = NoLot THEN 0 ELSE 0)
    BY <1>1, <1>16, <2>2 DEF Audited
  <2> QED
    BY <1>14, <2>2, <2>3
<1>17. ASSUME NEW a \in Accounts
       PROVE  Total(d, a) = HistoricUnits(a) + Left(d, LotsOf(d, a)) - TracedUnits(Untraced(d, a))
                              - (IF NoLot \in DOMAIN d.ledger /\ d.ledger[NoLot].acct = a THEN 0 ELSE 0)
  <2>1. Total(b, a) = HistoricUnits(a) + Left(b, LotsOf(b, a)) - TracedUnits(Untraced(b, a)) - 0
    BY <1>1 DEF Audited
  <2>2. HistoricUnits(a) \in Int
    BY HistoricType
  <2>3. Left(b, LotsOf(b, a)) \in Int
    BY <1>1, LeftType DEF LotsOf, LotsIn
  <2>4. TracedUnits(Untraced(b, a)) \in Int
    BY <1>1, SpendsAmongUntraced
  <2>5. Total(d, a) = Total(b, a) + (IF e.acct = a THEN e.units ELSE 0)
    <3>1. Total(c, a) = Total(b, a) + (IF e.acct = a THEN e.units ELSE 0)
      BY <1>1, AddedTotal DEF c
    <3>2. Total(d, a) = Total(c, a)
      BY <1>8 DEF Total, EntriesOf
    <3> QED
      BY <3>1, <3>2
  <2>6. Left(d, LotsOf(d, a)) = Left(b, LotsOf(b, a)) + (IF e.acct = a THEN e.units ELSE 0)
    <3> DEFINE S == LotsOf(b, a)
               f == LeftOf(b)
               g == LeftOf(d)
    <3>1. IsFiniteSet(S) /\ Ints(f, S)
      BY <1>1, LeftType DEF LotsOf, LotsIn
    <3>2. S \subseteq DOMAIN b.lots
      BY DEF LotsOf
    <3>3. (\A l \in S : g[l] = f[l]) /\ g[k] = e.units
      BY <1>5, <1>8, <3>2 DEF LeftOf
    <3>4. LotsOf(d, a) = IF e.acct = a THEN S \cup {k} ELSE S
      BY <1>2, <1>8 DEF LotsOf
    <3>5. k \notin S
      BY <1>9, <3>2
    <3>6. Ints(g, S \cup {k})
      BY <1>4, <3>1, <3>3 DEF Ints
    <3> HIDE DEF S, f, g
    <3>7. SumFunctionOnSet(g, S) = SumFunctionOnSet(f, S) /\ SumFunctionOnSet(f, S) \in Int
      BY <3>1, <3>3, SumSame, SumType
    <3>8. SumFunctionOnSet(g, S \cup {k}) = g[k] + SumFunctionOnSet(g, S)
      BY <3>1, <3>5, <3>6, SumPut
    <3>9. /\ Left(d, LotsOf(d, a)) = SumFunctionOnSet(g, LotsOf(d, a))
          /\ Left(b, LotsOf(b, a)) = SumFunctionOnSet(f, S)
      BY LeftSum DEF f, g, S
    <3> QED
      BY <1>4, <3>3, <3>4, <3>7, <3>8, <3>9
  <2>7. Total(d, a) = HistoricUnits(a) + Left(d, LotsOf(d, a)) - TracedUnits(Untraced(b, a)) - 0
    BY <1>4, <2>1, <2>2, <2>3, <2>4, <2>5, <2>6
  <2> QED
    BY <1>14, <2>7
<1>18. Audited(d, NoLot, 0)
  BY <1>15, <1>16, <1>17 DEF Audited
<1>19. Backed(d)
  BY <1>1, <1>14 DEF Backed
<1> QED
  BY <1>3, <1>13, <1>18, <1>19 DEF Fine

-----------------------------------------------------------------------------
(* Refunds *)

\* A refund of a purchase leaves the books in order, whether or not its lot still
\* holds what is taken from it, and whether or not it has one.
LEMMA RefundFine ==
    ASSUME NEW b, Fine(b), NEW e \in Entry, e.units < 0, e.source = "google_play",
           NEW p \in DOMAIN b.ledger, p = PurchaseOf(Added(b, e), e.ref),
           b.ledger[p].source = "google_play", b.ledger[p].ref = e.ref,
           p \in DOMAIN b.lots => b.ledger[p].acct = e.acct /\ b.ledger[p].app \in Titles
    PROVE  Fine(Insert(b, e))
<1> DEFINE c == Added(b, e)
           k == Next1(b)
           n == -e.units
           has == p \in DOMAIN b.lots
           row == TracedRow(k, IF has THEN p ELSE NoLot, n)
           d == Insert(b, e)
<1>1. Sound(b) /\ Audited(b, NoLot, 0) /\ Backed(b)
  BY DEF Fine
<1>2. /\ Book(c) /\ c.ledger \in Seq(Entry)
      /\ c.lots = b.lots /\ c.traced = b.traced
      /\ k \in Nat \ {0} /\ k \notin DOMAIN b.ledger
      /\ DOMAIN c.ledger = DOMAIN b.ledger \cup {k}
      /\ \A i \in DOMAIN b.ledger : c.ledger[i] = b.ledger[i]
      /\ c.ledger[k] = e
      /\ New(c) = New(b) \cup {k}
      /\ \A l \in DOMAIN b.lots : l \in DOMAIN b.ledger
      /\ \A r \in b.traced : /\ r.debit \in DOMAIN b.ledger
                             /\ r.credit # NoLot => r.credit \in DOMAIN b.lots
  BY <1>1, AddedTables
<1>3. e.units \in Int /\ n \in Nat \ {0} /\ n \in Int /\ -n = e.units
  BY DEF Entry
<1>4. Sound(c) /\ Audited(c, k, n) /\ Backed(c) /\ \A t : Untouched(c, k, t)
  BY <1>1, AddedSound, AddedAudited
<1>5. d = Refunded(c, k, n)
  <2>1. ~ (e.units > 0)
    BY <1>3
  <2> QED
    BY <2>1 DEF Insert, Added, Next1
<1> HIDE DEF c, k, d, n
<1>6. PurchaseOf(c, c.ledger[k].ref) = p
  BY <1>2 DEF c
<1>7. NoLot \notin DOMAIN b.lots /\ NoLot \notin DOMAIN b.ledger
  BY <1>1, LotsFinite DEF NoLot
<1>8. /\ Book(d) /\ d.ledger = c.ledger /\ d.traced = c.traced \cup {row}
      /\ DOMAIN d.lots = DOMAIN b.lots
      /\ \A l \in DOMAIN b.lots :
            /\ d.lots[l] \in [title : Titles \cup {Shared}, left : Int]
            /\ d.lots[l].title = b.lots[l].title
            /\ d.lots[l].left = b.lots[l].left - (IF has /\ l = p THEN n ELSE 0)
  <2>1. \A l \in DOMAIN b.lots : /\ b.lots[l] \in [title : Titles \cup {Shared}, left : Int]
                                 /\ b.lots[l].left \in Int
    BY <1>1 DEF Sound, Lots
  <2>2. CASE has
    <3>1. d = [c EXCEPT !.lots[p].left = @ - n, !.traced = @ \cup {row}]
      BY <1>2, <1>5, <1>6, <2>2 DEF Refunded, TracedRow
    <3> HIDE DEF row
    <3>2. /\ Book(d) /\ d.ledger = c.ledger /\ d.traced = c.traced \cup {row}
          /\ d.lots = [c.lots EXCEPT ![p].left = @ - n]
      BY <1>2, <3>1 DEF Book
    <3>3. /\ DOMAIN d.lots = DOMAIN b.lots
          /\ \A l \in DOMAIN b.lots : d.lots[l] = IF l = p THEN [b.lots[p] EXCEPT !.left = @ - n] ELSE b.lots[l]
      BY <1>2, <2>2, <3>2
    <3> QED
      BY <1>3, <2>1, <2>2, <3>2, <3>3
  <2>3. CASE ~ has
    <3>1. d = [c EXCEPT !.traced = @ \cup {row}]
      BY <1>2, <1>5, <1>6, <2>3 DEF Refunded, TracedRow
    <3> HIDE DEF row
    <3>2. /\ Book(d) /\ d.ledger = c.ledger /\ d.traced = c.traced \cup {row}
          /\ d.lots = c.lots
      BY <1>2, <3>1 DEF Book
    <3> QED
      BY <1>2, <2>1, <2>3, <3>2
  <2> QED
    BY <2>2, <2>3
<1>9. /\ row = [debit |-> row.debit, credit |-> row.credit, units |-> row.units]
      /\ row.debit = k /\ row.units = n /\ (has => row.credit = p) /\ (~has => row.credit = NoLot)
  BY DEF TracedRow
<1> HIDE DEF has, row
<1>10. New(d) = New(c)
  BY <1>8 DEF New
<1>11. has => b.lots[p].title \in Titles /\ b.lots[p].title # Shared
  <2> SUFFICES ASSUME has PROVE b.lots[p].title \in Titles /\ b.lots[p].title # Shared
    OBVIOUS
  <2>1. b.lots[p].title = Lot(b.ledger[p]).title
    BY <1>1 DEF has, Sound, Lots
  <2>2. Lot(b.ledger[p]).title = b.ledger[p].app
    BY DEF Lot
  <2> QED
    BY <2>1, <2>2, TokenLedgerAssumption DEF has
<1>12. Lots(d)
  <2>1. Lots(c)
    BY <1>4 DEF Sound
  <2>2. \A l \in DOMAIN b.lots : d.lots[l].title = Shared => d.lots[l].left >= 0
    <3> SUFFICES ASSUME NEW l \in DOMAIN b.lots, d.lots[l].title = Shared
                 PROVE  d.lots[l].left >= 0
      OBVIOUS
    <3>1. b.lots[l].left >= 0 /\ b.lots[l].left \in Int /\ ~ (has /\ l = p)
      BY <1>1, <1>8, <1>11 DEF Sound, Lots
    <3> QED
      BY <1>8, <3>1
  <2> QED
    BY <1>2, <1>8, <1>10, <2>1, <2>2 DEF Lots
<1>13. row.units \in Nat \ {0} /\ row.debit \in New(d) /\ d.ledger[row.debit].units < 0
  BY <1>2, <1>3, <1>8, <1>9, <1>10
<1>14. row.credit # NoLot =>
          /\ row.credit \in DOMAIN d.lots
          /\ d.ledger[row.credit].acct = d.ledger[row.debit].acct
          /\ BoundRow(d, row)
  <2> SUFFICES ASSUME has PROVE /\ row.credit \in DOMAIN d.lots
                                /\ d.ledger[row.credit].acct = d.ledger[row.debit].acct
                                /\ BoundRow(d, row)
    BY <1>9
  <2>1. row.credit = p /\ row.credit \in DOMAIN d.lots /\ d.ledger[p] = b.ledger[p] /\ d.ledger[k] = e
    BY <1>2, <1>8, <1>9 DEF has
  <2> QED
    BY <1>9, <2>1 DEF BoundRow, has
<1>15. Traces(d)
  <2>1. Traces(c)
    BY <1>4 DEF Sound
  <2>2. ASSUME NEW r \in c.traced, r.credit # NoLot, BoundRow(c, r)
        PROVE  BoundRow(d, r)
    <3>1. d.lots[r.credit].title = c.lots[r.credit].title
      BY <1>2, <1>8, <2>2
    <3> QED
      BY <1>8, <2>2, <3>1 DEF BoundRow
  <2>3. IsFiniteSet(c.traced \cup {row})
    BY <2>1, FS_AddElement DEF Traces
  <2> QED
    BY <1>2, <1>8, <1>9, <1>10, <1>13, <1>14, <2>1, <2>2, <2>3 DEF Traces
<1>16. Sound(d)
  BY <1>2, <1>8, <1>12, <1>15 DEF Sound
<1>17. OfDebit(c, k) = {} /\ row \notin c.traced
  <2>1. OfDebit(c, k) = {}
    BY <1>1, AddedSame DEF c, k
  <2> QED
    BY <1>9, <2>1 DEF OfDebit
<1>18. \A A \in SUBSET c.traced : /\ TracedUnits(A \cup {row}) = TracedUnits(A) + n
                                  /\ TracedUnits(A) \in Int
  <2>1. Rows({row}) /\ TracedUnits({row}) = n
    BY <1>3, <1>9, TracedOne
  <2> SUFFICES ASSUME NEW A \in SUBSET c.traced
               PROVE  TracedUnits(A \cup {row}) = TracedUnits(A) + n /\ TracedUnits(A) \in Int
    OBVIOUS
  <2>2. A \subseteq c.traced /\ A \cap {row} = {}
    BY <1>17
  <2>3. Rows(A) /\ TracedUnits(A) \in Int
    BY <1>4, <2>2, TracedRows
  <2> DEFINE N == {row}
  <2> HIDE DEF N
  <2>4. TracedUnits(A \cup N) = TracedUnits(A) + TracedUnits(N)
    BY <2>1, <2>2, <2>3, TracedUnion DEF N
  <2> QED
    BY <2>1, <2>3, <2>4 DEF N
<1>19. ASSUME NEW l \in DOMAIN d.lots
       PROVE  d.lots[l].left = d.ledger[l].units - TracedUnits(FromLot(d, l))
  <2>1. c.lots[l].left = c.ledger[l].units - TracedUnits(FromLot(c, l))
    BY <1>2, <1>4, <1>8 DEF Audited
  <2>2. FromLot(c, l) \in SUBSET c.traced
    BY DEF FromLot
  <2>3. l \in DOMAIN b.lots /\ l # NoLot
    BY <1>7, <1>8
  <2>4. FromLot(d, l) = IF has /\ l = p THEN FromLot(c, l) \cup {row} ELSE FromLot(c, l)
    BY <1>8, <1>9, <2>3 DEF FromLot
  <2>5. c.ledger[l].units \in Int
    BY <1>2, <1>4, <2>3, EntryTyped
  <2>6. TracedUnits(FromLot(d, l)) = TracedUnits(FromLot(c, l)) + (IF has /\ l = p THEN n ELSE 0)
    BY <1>18, <2>2, <2>4
  <2>7. TracedUnits(FromLot(c, l)) \in Int
    BY <1>18, <2>2
  <2> DEFINE took == IF has /\ l = p THEN n ELSE 0
  <2>8. /\ d.lots[l].left = b.lots[l].left - took /\ took \in Int
        /\ c.lots[l] = b.lots[l] /\ d.ledger[l] = c.ledger[l]
    BY <1>2, <1>3, <1>8, <2>3
  <2>9. TracedUnits(FromLot(d, l)) = TracedUnits(FromLot(c, l)) + took
    BY <2>6
  <2> HIDE DEF took
  <2> QED
    BY <2>1, <2>5, <2>7, <2>8, <2>9
<1>20. ASSUME NEW j \in New(d), d.ledger[j].units < 0
       PROVE  TracedUnits(OfDebit(d, j)) = -d.ledger[j].units - (IF j = NoLot THEN 0 ELSE 0)
  <2>1. TracedUnits(OfDebit(c, j)) = -c.ledger[j].units - (IF j = k THEN n ELSE 0)
    BY <1>4, <1>8, <1>10, <1>20 DEF Audited
  <2>2. OfDebit(c, j) \in SUBSET c.traced
    BY DEF OfDebit
  <2>3. OfDebit(d, j) = IF j = k THEN OfDebit(c, j) \cup {row} ELSE OfDebit(c, j)
    BY <1>8, <1>9 DEF OfDebit
  <2>4. TracedUnits(OfDebit(d, j)) = TracedUnits(OfDebit(c, j)) + (IF j = k THEN n ELSE 0)
    BY <1>18, <2>2, <2>3
  <2>5. c.ledger[j].units \in Int
    BY <1>4, <1>10, EntryTyped DEF New
  <2> QED
    BY <1>3, <1>8, <2>1, <2>4, <2>5
<1>21. ASSUME NEW a \in Accounts
       PROVE  Total(d, a) = HistoricUnits(a) + Left(d, LotsOf(d, a)) - TracedUnits(Untraced(d, a))
                              - (IF NoLot \in DOMAIN d.ledger /\ d.ledger[NoLot].acct = a THEN 0 ELSE 0)
  <2>1. Total(c, a) = HistoricUnits(a) + Left(c, LotsOf(c, a)) - TracedUnits(Untraced(c, a))
                        - (IF e.acct = a THEN n ELSE 0)
    BY <1>2, <1>4 DEF Audited
  <2>2. HistoricUnits(a) \in Int
    BY HistoricType
  <2>3. Left(c, LotsOf(c, a)) \in Int
    BY <1>4, LeftType DEF LotsOf, LotsIn
  <2>4. Untraced(c, a) \in SUBSET c.traced
    BY DEF Untraced
  <2>5. TracedUnits(Untraced(c, a)) \in Int
    BY <1>18, <2>4
  <2>6. Total(d, a) = Total(c, a)
    BY <1>8 DEF Total, EntriesOf
  <2>7. TracedUnits(Untraced(d, a))
          = TracedUnits(Untraced(c, a)) + (IF ~has /\ e.acct = a THEN n ELSE 0)
    <3>1. d.ledger[row.debit] = e /\ (row.credit = NoLot <=> ~has)
      BY <1>2, <1>7, <1>8, <1>9 DEF has
    <3>2. Untraced(d, a) = IF ~has /\ e.acct = a THEN Untraced(c, a) \cup {row} ELSE Untraced(c, a)
      BY <1>8, <3>1 DEF Untraced
    <3> QED
      BY <1>18, <2>4, <2>5, <3>2
  <2>8. Left(d, LotsOf(d, a)) = Left(c, LotsOf(c, a)) - (IF has /\ e.acct = a THEN n ELSE 0)
    <3> DEFINE S == LotsOf(c, a)
               f == LeftOf(c)
               g == LeftOf(d)
    <3>1. IsFiniteSet(S) /\ Ints(f, S) /\ LotsOf(d, a) = S
      <4>1. IsFiniteSet(S) /\ Ints(f, S)
        BY <1>4, LeftType DEF LotsOf, LotsIn
      <4> QED
        BY <1>2, <1>8, <4>1 DEF LotsOf
    <3>2. /\ \A l \in S : l \in DOMAIN b.lots /\ g[l] = f[l] - (IF has /\ l = p THEN n ELSE 0)
          /\ p \in S <=> has /\ e.acct = a
      <4>1. S = {l \in DOMAIN b.lots : c.ledger[l].acct = a}
        BY <1>2 DEF LotsOf
      <4>2. \A l \in DOMAIN b.lots : f[l] = b.lots[l].left /\ g[l] = d.lots[l].left
        BY <1>2, <1>8 DEF LeftOf
      <4>3. has => c.ledger[p].acct = e.acct
        BY <1>2 DEF has
      <4> HIDE DEF S, f, g
      <4> QED
        BY <1>8, <4>1, <4>2, <4>3 DEF has
    <3>3. /\ Left(d, LotsOf(d, a)) = SumFunctionOnSet(g, S)
          /\ Left(c, LotsOf(c, a)) = SumFunctionOnSet(f, S)
      BY <3>1, LeftSum
    <3>4. \A l \in S : f[l] \in Int
      BY <3>1 DEF Ints
    <3> HIDE DEF S, f, g
    <3>5. SumFunctionOnSet(f, S) \in Int
      BY <3>1, SumType
    <3>6. CASE p \in S
      <4>1. has /\ e.acct = a /\ g[p] = f[p] - n /\ g[p] \in Int /\ f[p] \in Int
        BY <1>3, <3>2, <3>4, <3>6
      <4>2. \A l \in S \ {p} : g[l] = f[l]
        BY <3>2, <3>4
      <4>3. SumFunctionOnSet(g, S) = SumFunctionOnSet(f, S) + (g[p] - f[p])
        BY <3>1, <3>6, <4>1, <4>2, SumChange
      <4> QED
        BY <1>3, <3>3, <3>5, <4>1, <4>3
    <3>7. CASE p \notin S
      <4>1. \A l \in S : f[l] = g[l]
        BY <3>2, <3>4, <3>7
      <4>2. SumFunctionOnSet(f, S) = SumFunctionOnSet(g, S)
        BY <3>1, <4>1, SumSame
      <4> QED
        BY <3>2, <3>3, <3>5, <3>7, <4>2
    <3> QED
      BY <3>6, <3>7
  <2>9. Total(d, a) = HistoricUnits(a) + Left(d, LotsOf(d, a)) - TracedUnits(Untraced(d, a)) - 0
    BY <1>3, <2>1, <2>2, <2>3, <2>5, <2>6, <2>7, <2>8
  <2> QED
    BY <2>9
<1>22. Audited(d, NoLot, 0)
  BY <1>19, <1>20, <1>21 DEF Audited
<1>23. Backed(d)
  <2>1. \A a : UntracedSpends(d, a) = UntracedSpends(c, a)
    <3>1. d.ledger[row.debit].source = "google_play"
      BY <1>2, <1>8, <1>9
    <3> QED
      BY <1>8, <3>1 DEF UntracedSpends, Untraced
  <2> QED
    BY <1>4, <2>1 DEF Backed
<1> QED
  BY <1>16, <1>22, <1>23 DEF Fine, d

-----------------------------------------------------------------------------
(* Store purchases, and the books as the handlers change them *)

\* A payment names a receipt.
PaidNamed(b) == \A id \in DOMAIN b.paid : b.paid[id] \in DOMAIN b.ledger

\* A receipt that credits store purchase s.
IsPurchase(e, s) == e.source = "google_play" /\ e.ref = s /\ e.units > 0

\* A store purchase has its receipt once it has its lifecycle row, and until then its
\* payment was not credited.
SoldIn(b, rows) ==
    \A s \in DOMAIN Sale :
        /\ rows[s] # "new" <=> \E i \in DOMAIN b.ledger : IsPurchase(b.ledger[i], s)
        /\ rows[s] = "new" => <<"google_play", s>> \notin DOMAIN b.paid

\* What the books always are, with the lifecycle of the store purchases.
Books(b, rows) == Fine(b) /\ SoldEntries(b) /\ PaidNamed(b) /\ SoldIn(b, rows)

\* A receipt of a store purchase is that of its sale.
OfSale(e) ==
    e.source = "google_play" =>
        /\ e.ref \in DOMAIN Sale /\ e.acct = Sale[e.ref].acct /\ e.app = Sale[e.ref].app
        /\ e.units > 0 => e.units = Sale[e.ref].units

\* c is b with one receipt more.
OneMore(b, c, e) == Book(c) /\ c.ledger = Append(b.ledger, e)

\* The receipts of the two.
LEMMA OneMoreParts ==
    ASSUME NEW b, Sound(b), NEW e \in Entry, NEW c, OneMore(b, c, e)
    PROVE  /\ Next1(b) \notin DOMAIN b.ledger
           /\ DOMAIN c.ledger = DOMAIN b.ledger \cup {Next1(b)}
           /\ \A i \in DOMAIN b.ledger : c.ledger[i] = b.ledger[i]
           /\ c.ledger[Next1(b)] = e
           /\ New(c) \subseteq New(b) \cup {Next1(b)}
<1>1. b.ledger \in Seq(Entry) /\ c.ledger = Append(b.ledger, e)
  BY DEF Sound, OneMore
<1>2. /\ Next1(b) \notin DOMAIN b.ledger
      /\ DOMAIN c.ledger = DOMAIN b.ledger \cup {Next1(b)}
      /\ \A i \in DOMAIN b.ledger : c.ledger[i] = b.ledger[i]
      /\ c.ledger[Next1(b)] = e
  BY <1>1, AppendParts DEF Next1
<1> QED
  BY <1>2 DEF New

\* A receipt of a sale keeps the receipts those of their sales.
LEMMA SoldGrows ==
    ASSUME NEW b, Sound(b), NEW e \in Entry, NEW c, OneMore(b, c, e), SoldEntries(b), OfSale(e)
    PROVE  SoldEntries(c)
<1>1. /\ New(c) \subseteq New(b) \cup {Next1(b)}
      /\ \A i \in New(b) : c.ledger[i] = b.ledger[i]
      /\ c.ledger[Next1(b)] = e
  BY OneMoreParts DEF New
<1> QED
  BY <1>1 DEF SoldEntries, OfSale

\* A receipt that is no purchase adds none.
LEMMA SoldSame ==
    ASSUME NEW b, Sound(b), NEW e \in Entry, NEW c, OneMore(b, c, e), NEW rows, SoldIn(b, rows),
           e.source = "google_play" => e.units < 0,
           \A s \in DOMAIN Sale : <<"google_play", s>> \in DOMAIN c.paid => <<"google_play", s>> \in DOMAIN b.paid
    PROVE  SoldIn(c, rows)
<1>1. /\ Next1(b) \notin DOMAIN b.ledger
      /\ DOMAIN c.ledger = DOMAIN b.ledger \cup {Next1(b)}
      /\ \A i \in DOMAIN b.ledger : c.ledger[i] = b.ledger[i]
      /\ c.ledger[Next1(b)] = e
  BY OneMoreParts
<1>2. \A s : ~ IsPurchase(e, s)
  <2>1. e.units \in Int
    BY DEF Entry
  <2> QED
    BY <2>1 DEF IsPurchase
<1> SUFFICES ASSUME NEW s \in DOMAIN Sale
             PROVE  /\ rows[s] # "new" <=> \E i \in DOMAIN c.ledger : IsPurchase(c.ledger[i], s)
                    /\ rows[s] = "new" => <<"google_play", s>> \notin DOMAIN c.paid
  BY DEF SoldIn
<1>3. (\E i \in DOMAIN c.ledger : IsPurchase(c.ledger[i], s))
         <=> (\E i \in DOMAIN b.ledger : IsPurchase(b.ledger[i], s))
  BY <1>1, <1>2
<1> QED
  BY <1>3 DEF SoldIn

\* A payment that names the new receipt names one.
LEMMA PaidGrows ==
    ASSUME NEW b, Sound(b), NEW e \in Entry, NEW c, OneMore(b, c, e), PaidNamed(b),
           \/ c.paid = b.paid
           \/ \E id : c.paid = With(b.paid, id, Next1(b))
    PROVE  PaidNamed(c)
<1>1. DOMAIN c.ledger = DOMAIN b.ledger \cup {Next1(b)}
  BY OneMoreParts
<1>2. CASE c.paid = b.paid
  BY <1>1, <1>2 DEF PaidNamed
<1>3. CASE \E id : c.paid = With(b.paid, id, Next1(b))
  BY <1>1, <1>3 DEF PaidNamed, With
<1> QED
  BY <1>2, <1>3

\* A charge keeps the books.
LEMMA ChargedBooks ==
    ASSUME NEW b, NEW rows, Books(b, rows), NEW e \in Entry, NEW key, Chargeable(b, e, key),
           e.source # "google_play", MatchingApp(e) \in Titles \cup {Shared}
    PROVE  Books(Charged(b, e, key), rows)
<1> DEFINE c == Charged(b, e, key)
<1>1. Fine(b) /\ Sound(b) /\ Book(b) /\ SoldEntries(b) /\ PaidNamed(b) /\ SoldIn(b, rows)
  BY DEF Books, Fine, Sound
<1>2. Fine(c)
  BY <1>1, ChargedFine
<1>3. OneMore(b, c, e) /\ c.paid = b.paid
  BY <1>1, ChargedAppends DEF OneMore
<1>4. OfSale(e)
  BY DEF OfSale
<1> HIDE DEF c
<1>5. SoldEntries(c)
  BY <1>1, <1>3, <1>4, SoldGrows
<1>6. SoldIn(c, rows)
  BY <1>1, <1>3, SoldSame
<1>7. PaidNamed(c)
  BY <1>1, <1>3, PaidGrows
<1> QED
  BY <1>2, <1>5, <1>6, <1>7 DEF Books, c

\* A new payment is credited once.
LEMMA CreditedFine ==
    ASSUME NEW b, Fine(b), NEW id, id \notin DOMAIN b.paid, NEW e \in Entry, e.units > 0,
           e.source = "google_play" => e.app \in Titles
    PROVE  LET c == Credited(b, id, e)
           IN  /\ Fine(c) /\ OneMore(b, c, e)
               /\ c.paid = With(b.paid, id, Next1(b))
               /\ DOMAIN c.paid = DOMAIN b.paid \cup {id}
<1> DEFINE c == Credited(b, id, e)
           d == Insert(b, e)
<1>1. Book(b)
  BY DEF Fine, Sound
<1>2. Fine(d)
  BY OpenedFine
<1>3. /\ Book(d) /\ d.ledger = Append(b.ledger, e) /\ d.paid = b.paid
  BY <1>1, InsertAppends
<1>4. c = [d EXCEPT !.paid = With(@, id, Len(b.ledger) + 1)]
  BY DEF Credited
<1> HIDE DEF c, d
<1>5. SameTables(d, c) /\ OneMore(b, c, e) /\ c.paid = With(b.paid, id, Next1(b))
  BY <1>3, <1>4 DEF SameTables, OneMore, Book, Next1
<1>6. Fine(c)
  BY <1>2, <1>5, FineSame
<1>7. DOMAIN c.paid = DOMAIN b.paid \cup {id}
  BY <1>5 DEF With
<1> QED
  BY <1>5, <1>6, <1>7 DEF c

\* A payment that is no store purchase keeps the books, credited or not.
LEMMA CreditedBooks ==
    ASSUME NEW b, NEW rows, Books(b, rows), NEW id, NEW e \in Entry, e.units > 0,
           e.source # "google_play", \A s \in DOMAIN Sale : id # <<"google_play", s>>
    PROVE  Books(Credited(b, id, e), rows)
<1> DEFINE c == Credited(b, id, e)
<1>1. Fine(b) /\ Sound(b) /\ SoldEntries(b) /\ PaidNamed(b) /\ SoldIn(b, rows)
  BY DEF Books, Fine
<1>2. CASE id \in DOMAIN b.paid
  BY <1>2 DEF Credited
<1>3. CASE id \notin DOMAIN b.paid
  <2>1. /\ Fine(c) /\ OneMore(b, c, e) /\ c.paid = With(b.paid, id, Next1(b))
        /\ DOMAIN c.paid = DOMAIN b.paid \cup {id}
    BY <1>1, <1>3, CreditedFine
  <2>2. OfSale(e)
    BY DEF OfSale
  <2> HIDE DEF c
  <2>3. SoldEntries(c)
    BY <1>1, <2>1, <2>2, SoldGrows
  <2>4. SoldIn(c, rows)
    <3>1. \A s \in DOMAIN Sale : <<"google_play", s>> \in DOMAIN c.paid => <<"google_play", s>> \in DOMAIN b.paid
      BY <2>1
    <3> QED
      BY <1>1, <2>1, <3>1, SoldSame
  <2>5. PaidNamed(c)
    BY <1>1, <2>1, PaidGrows
  <2> QED
    BY <2>1, <2>3, <2>4, <2>5 DEF Books, c
<1> QED
  BY <1>2, <1>3

\* A purchase that is new becomes owned.
LEMMA PurchaseBooks ==
    ASSUME NEW b, NEW rows \in [DOMAIN Sale -> {"new", "owned", "refunded"}], Books(b, rows),
           NEW s \in DOMAIN Sale, rows[s] = "new"
    PROVE  Books(Credited(b, <<"google_play", s>>, SaleEntry(s)), [rows EXCEPT ![s] = "owned"])
<1> DEFINE e == SaleEntry(s)
           id == <<"google_play", s>>
           c == Credited(b, id, e)
           after == [rows EXCEPT ![s] = "owned"]
<1>1. Fine(b) /\ Sound(b) /\ SoldEntries(b) /\ PaidNamed(b) /\ SoldIn(b, rows)
  BY DEF Books, Fine
<1>2. /\ e \in Entry /\ e.units > 0 /\ e.source = "google_play" /\ e.app \in Titles /\ e.ref = s
      /\ IsPurchase(e, s) /\ OfSale(e)
  BY TokenAccountsAssumption DEF SaleEntry, Entry, Sources, Refs, IsPurchase, OfSale
<1>3. id \notin DOMAIN b.paid
  BY <1>1 DEF SoldIn
<1>4. \A x \in DOMAIN Sale : after[x] = IF x = s THEN "owned" ELSE rows[x]
  OBVIOUS
<1> HIDE DEF e, after
<1>5. /\ Fine(c) /\ OneMore(b, c, e) /\ c.paid = With(b.paid, id, Next1(b))
      /\ DOMAIN c.paid = DOMAIN b.paid \cup {id}
  BY <1>1, <1>2, <1>3, CreditedFine
<1> HIDE DEF c
<1>6. SoldEntries(c)
  BY <1>1, <1>2, <1>5, SoldGrows
<1>7. PaidNamed(c)
  BY <1>1, <1>2, <1>5, PaidGrows
<1>8. /\ Next1(b) \in DOMAIN c.ledger /\ c.ledger[Next1(b)] = e
      /\ \A i \in DOMAIN c.ledger : i = Next1(b) \/ (i \in DOMAIN b.ledger /\ c.ledger[i] = b.ledger[i])
      /\ \A i \in DOMAIN b.ledger : i \in DOMAIN c.ledger /\ c.ledger[i] = b.ledger[i]
  BY <1>1, <1>2, <1>5, OneMoreParts
<1>9. SoldIn(c, after)
  <2> SUFFICES ASSUME NEW x \in DOMAIN Sale
               PROVE  /\ after[x] # "new" <=> \E i \in DOMAIN c.ledger : IsPurchase(c.ledger[i], x)
                      /\ after[x] = "new" => <<"google_play", x>> \notin DOMAIN c.paid
    BY DEF SoldIn
  <2>1. CASE x = s
    <3>1. after[x] = "owned" /\ IsPurchase(c.ledger[Next1(b)], x)
      BY <1>2, <1>4, <1>8, <2>1
    <3> QED
      BY <1>8, <3>1
  <2>2. CASE x # s
    <3>1. after[x] = rows[x] /\ <<"google_play", x>> # id
      BY <1>4, <2>2
    <3>2. ~ IsPurchase(e, x)
      BY <1>2, <2>2 DEF IsPurchase
    <3>3. (\E i \in DOMAIN c.ledger : IsPurchase(c.ledger[i], x))
             <=> (\E i \in DOMAIN b.ledger : IsPurchase(b.ledger[i], x))
      BY <1>8, <3>2
    <3> QED
      BY <1>1, <1>5, <3>1, <3>3 DEF SoldIn
  <2> QED
    BY <2>1, <2>2
<1> QED
  BY <1>5, <1>6, <1>7, <1>9 DEF Books, c, e, after

\* A refund of a purchase that is not new.
LEMMA RefundBooks ==
    ASSUME NEW b, NEW rows, Books(b, rows), NEW s \in DOMAIN Sale, rows[s] # "new",
           NEW n \in Amounts
    PROVE  Books(Insert(b, [SaleEntry(s) EXCEPT !.units = -n]), rows)
<1> DEFINE e == [SaleEntry(s) EXCEPT !.units = -n]
           c == Insert(b, e)
           d == Added(b, e)
           p == PurchaseOf(d, e.ref)
<1>1. Fine(b) /\ Sound(b) /\ Book(b) /\ SoldEntries(b) /\ PaidNamed(b) /\ SoldIn(b, rows)
  BY DEF Books, Fine, Sound
<1>2. /\ e \in Entry /\ e.units = -n /\ e.source = "google_play" /\ e.app \in Titles /\ e.ref = s
      /\ e.acct = Sale[s].acct /\ e.app = Sale[s].app /\ n \in Nat /\ n > 0
  BY TokenAccountsAssumption DEF SaleEntry, Entry, Sources, Refs
<1>3. e.units < 0 /\ OfSale(e) /\ \A x : ~ IsPurchase(e, x)
  BY <1>2 DEF OfSale, IsPurchase
<1> HIDE DEF e
<1>4. /\ DOMAIN d.ledger = DOMAIN b.ledger \cup {Next1(b)}
      /\ \A i \in DOMAIN b.ledger : d.ledger[i] = b.ledger[i]
      /\ d.ledger[Next1(b)] = e
  BY <1>1, <1>2, AddedTables
<1> HIDE DEF d
<1>5. p \in DOMAIN b.ledger /\ IsPurchase(b.ledger[p], s)
  <2>1. PICK i \in DOMAIN b.ledger : IsPurchase(b.ledger[i], s)
    BY <1>1 DEF SoldIn
  <2>2. i \in DOMAIN d.ledger /\ IsPurchase(d.ledger[i], s)
    BY <1>4, <2>1
  <2>3. p = CHOOSE j \in DOMAIN d.ledger : IsPurchase(d.ledger[j], s)
    BY <1>2 DEF PurchaseOf, IsPurchase
  <2> HIDE DEF p
  <2>4. p \in DOMAIN d.ledger /\ IsPurchase(d.ledger[p], s)
    BY <2>2, <2>3
  <2> QED
    BY <1>3, <1>4, <2>4
<1>6. p \in DOMAIN b.lots => b.ledger[p].acct = e.acct /\ b.ledger[p].app \in Titles
  <2>1. \A l \in DOMAIN b.lots : l \in New(b)
    BY <1>1 DEF Sound, Lots
  <2> HIDE DEF p
  <2> QED
    BY <1>1, <1>2, <1>5, <2>1 DEF SoldEntries, IsPurchase
<1>7. Fine(c)
  <2>1. b.ledger[p].source = "google_play" /\ b.ledger[p].ref = e.ref
    BY <1>2, <1>5 DEF IsPurchase
  <2> QED
    BY <1>1, <1>2, <1>3, <1>5, <1>6, <2>1, RefundFine DEF d
<1>8. OneMore(b, c, e) /\ c.paid = b.paid
  BY <1>1, InsertAppends DEF OneMore
<1> HIDE DEF c, p
<1>9. SoldEntries(c)
  BY <1>1, <1>2, <1>3, <1>8, SoldGrows
<1>10. SoldIn(c, rows)
  BY <1>1, <1>2, <1>3, <1>8, SoldSame
<1>11. PaidNamed(c)
  BY <1>1, <1>2, <1>8, PaidGrows
<1> QED
  BY <1>7, <1>9, <1>10, <1>11 DEF Books, c, e

-----------------------------------------------------------------------------
(* The invariant, and what follows *)

\* The types of the other variables.
Types ==
    /\ sales \in [DOMAIN Sale -> {"new", "owned", "refunded"}]
    /\ users \subseteq Accounts
    /\ friends \subseteq SUBSET Accounts

BooksInv == Books(book, sales) /\ Types

\* The books of the history are in order.
LEMMA InitFine ==
    ASSUME Init
    PROVE  Fine(book)
<1>1. /\ Book(book) /\ book.ledger = History /\ DOMAIN book.lots = {} /\ book.traced = {}
  BY DEF Init, Book
<1>2. New(book) = {}
  BY <1>1 DEF New
<1>3. History \in Seq(Entry)
  BY HistoryAssumption
<1>4. Sound(book)
  BY <1>1, <1>2, <1>3, FS_EmptySet DEF Sound, Lots, Traces
<1>5. \A a \in Accounts : Total(book, a) = HistoricUnits(a)
  BY <1>1 DEF Total, EntriesOf, HistoricUnits
<1>6. \A a : LotsOf(book, a) = {} /\ Untraced(book, a) = {} /\ UntracedSpends(book, a) = {}
  BY <1>1 DEF LotsOf, Untraced, UntracedSpends
<1>7. Left(book, {}) = 0 /\ TracedUnits({}) = 0
  BY SumNone, TracedNone DEF Left
<1>8. \A a : HistoricUnits(a) \in Int
  BY HistoricType
<1>9. \A a \in Accounts :
        Total(book, a) = HistoricUnits(a) + Left(book, LotsOf(book, a)) - TracedUnits(Untraced(book, a))
                          - (IF NoLot \in DOMAIN book.ledger /\ book.ledger[NoLot].acct = a THEN 0 ELSE 0)
  <2> SUFFICES ASSUME NEW a \in Accounts
               PROVE  Total(book, a) = HistoricUnits(a) + Left(book, LotsOf(book, a))
                                         - TracedUnits(Untraced(book, a)) - 0
    OBVIOUS
  <2>1. Left(book, LotsOf(book, a)) = 0 /\ TracedUnits(Untraced(book, a)) = 0
    BY <1>6, <1>7
  <2>2. HistoricUnits(a) \in Int /\ Total(book, a) = HistoricUnits(a)
    BY <1>5, <1>8
  <2> QED
    BY <2>1, <2>2
<1>10. Audited(book, NoLot, 0)
  BY <1>1, <1>2, <1>9 DEF Audited
<1>11. Backed(book)
  BY <1>6, <1>7, <1>8 DEF Backed, Positive
<1> QED
  BY <1>4, <1>10, <1>11 DEF Fine

\* With the lifecycle of the purchases in it.
LEMMA InitBooks ==
    ASSUME Init
    PROVE  BooksInv
<1>1. /\ book.ledger = History
      /\ DOMAIN book.paid = {HistoricPayment(i) : i \in HistoricCredits}
      /\ \A id \in DOMAIN book.paid :
            book.paid[id] = CHOOSE i \in HistoricCredits : HistoricPayment(i) = id
      /\ sales = [s \in DOMAIN Sale |-> IF <<"google_play", s>> \in DOMAIN book.paid THEN "owned" ELSE "new"]
      /\ users = Accounts /\ friends = {}
  BY DEF Init
<1>2. SoldEntries(book)
  BY <1>1 DEF SoldEntries, New
<1>3. PaidNamed(book)
  <2>1. \A id \in DOMAIN book.paid : \E i \in HistoricCredits : HistoricPayment(i) = id
    BY <1>1
  <2>2. \A id \in DOMAIN book.paid : book.paid[id] \in HistoricCredits
    BY <1>1, <2>1
  <2> QED
    BY <1>1, <2>2 DEF PaidNamed, HistoricCredits
<1>4. SoldIn(book, sales)
  <2> SUFFICES ASSUME NEW s \in DOMAIN Sale
               PROVE  /\ sales[s] # "new" <=> \E i \in DOMAIN book.ledger : IsPurchase(book.ledger[i], s)
                      /\ sales[s] = "new" => <<"google_play", s>> \notin DOMAIN book.paid
    BY DEF SoldIn
  <2>1. sales[s] = IF <<"google_play", s>> \in DOMAIN book.paid THEN "owned" ELSE "new"
    BY <1>1
  <2>2. <<"google_play", s>> \in DOMAIN book.paid <=>
          \E i \in DOMAIN book.ledger : IsPurchase(book.ledger[i], s)
    <3>1. \A i \in DOMAIN History : HistoricPayment(i) = <<"google_play", s>> <=>
             History[i].source = "google_play" /\ History[i].ref = s
      BY DEF HistoricPayment
    <3> QED
      BY <1>1, <3>1 DEF HistoricCredits, IsPurchase
  <2> QED
    BY <2>1, <2>2
<1>5. Types
  BY <1>1 DEF Types
<1> QED
  BY <1>2, <1>3, <1>4, <1>5, InitFine DEF BooksInv, Books

\* Every action keeps the books.
LEMMA BooksKept ==
    ASSUME BooksInv, [Next]_vars
    PROVE  BooksInv'
<1>1. Books(book, sales) /\ Types
  BY DEF BooksInv
<1>2. ASSUME NEW s \in DOMAIN Sale, ProcessPurchase(s)
      PROVE  BooksInv'
  <2>1. /\ sales[s] = "new" /\ book' = Credited(book, <<"google_play", s>>, SaleEntry(s))
        /\ sales' = [sales EXCEPT ![s] = "owned"] /\ UNCHANGED <<users, friends>>
    BY <1>2 DEF ProcessPurchase
  <2>2. Books(book', sales')
    BY <1>1, <2>1, PurchaseBooks DEF Types
  <2>3. Types'
    BY <1>1, <2>1 DEF Types
  <2> QED
    BY <2>2, <2>3 DEF BooksInv
<1>3. ASSUME NEW s \in DOMAIN Sale, NEW n \in Amounts, CompensateVoided(s, n)
      PROVE  BooksInv'
  <2>1. /\ sales[s] = "owned" /\ book' = Insert(book, [SaleEntry(s) EXCEPT !.units = -n])
        /\ sales' = [sales EXCEPT ![s] = IF RefundedUnits(book', s) = Sale[s].units
                                         THEN "refunded" ELSE @]
        /\ UNCHANGED <<users, friends>>
    BY <1>3 DEF CompensateVoided
  <2>2. Books(book', sales)
    BY <1>1, <2>1, RefundBooks
  <2>3. Types' /\ \A x \in DOMAIN Sale : sales'[x] = "new" <=> sales[x] = "new"
    BY <1>1, <2>1 DEF Types
  <2>4. SoldIn(book', sales')
    BY <2>2, <2>3 DEF Books, SoldIn
  <2> QED
    BY <2>2, <2>3, <2>4 DEF BooksInv, Books
<1>4. ASSUME NEW d \in DOMAIN Deposit, CreditDeposit(d)
      PROVE  BooksInv'
  <2>1. /\ book' = Credited(book, <<"monero_account", d>>, DepositEntry(d))
        /\ UNCHANGED <<sales, users, friends>>
    BY <1>4 DEF CreditDeposit
  <2>2. /\ DepositEntry(d) \in Entry /\ DepositEntry(d).units > 0
        /\ DepositEntry(d).source # "google_play"
    BY TokenAccountsAssumption DEF DepositEntry, Entry, Sources, Refs
  <2>3. Books(book', sales)
    BY <1>1, <2>1, <2>2, CreditedBooks
  <2> QED
    BY <1>1, <2>1, <2>3 DEF BooksInv, Types
<1>5. ASSUME NEW a \in Accounts, NEW app \in Titles, NEW action \in Actions, NEW key \in Keys,
             NEW n \in Amounts, Spend(a, app, action, key, n)
      PROVE  BooksInv'
  <2> DEFINE e == SpendEntry(a, app, action, key, n)
  <2>1. /\ Chargeable(book, e, key) /\ book' = Charged(book, e, key)
        /\ UNCHANGED <<sales, users, friends>>
    BY <1>5 DEF Spend
  <2>2. e \in Entry /\ e.source = "spend" /\ MatchingApp(e) \in Titles
    BY TokenAccountsAssumption DEF SpendEntry, Entry, Sources, Refs, MatchingApp
  <2> HIDE DEF e
  <2>3. Books(book', sales)
    BY <1>1, <2>1, <2>2, ChargedBooks
  <2> QED
    BY <1>1, <2>1, <2>3 DEF BooksInv, Types
<1>6. ASSUME NEW a \in Accounts, NEW b \in Accounts, NEW q \in GiftIds, NEW n \in Amounts,
             Send(a, b, q, n)
      PROVE  BooksInv'
  <2> DEFINE d == GiftDebit(a, b, n)
             e == GiftCredit(a, b, n)
             charged == Charged(book, d, GiftKey(q))
  <2>1. /\ Chargeable(book, d, GiftKey(q)) /\ book' = Credited(charged, GiftPayment(a, q), e)
        /\ UNCHANGED <<sales, users, friends>>
    BY <1>6 DEF Send
  <2>2. /\ d \in Entry /\ d.source = "gift" /\ MatchingApp(d) = Shared
        /\ e \in Entry /\ e.source = "gift" /\ e.units > 0
    BY TokenAccountsAssumption DEF GiftDebit, GiftCredit, Entry, Sources, Refs, MatchingApp
  <2>3. \A s \in DOMAIN Sale : GiftPayment(a, q) # <<"google_play", s>>
    BY DEF GiftPayment
  <2> HIDE DEF d, e
  <2>4. Books(charged, sales)
    BY <1>1, <2>1, <2>2, ChargedBooks
  <2> HIDE DEF charged
  <2>5. Books(book', sales)
    BY <2>1, <2>2, <2>3, <2>4, CreditedBooks
  <2> QED
    BY <1>1, <2>1, <2>5 DEF BooksInv, Types
<1>7. ASSUME NEW a \in Accounts, NEW p \in DOMAIN Unlocks, UnlockNew(a, p)
      PROVE  BooksInv'
  <2>1. PICK price \in Unlocks[p].prices :
           /\ Chargeable(book, UnlockEntry(a, p, price), UnlockKey(p))
           /\ book' = Charged(book, UnlockEntry(a, p, price), UnlockKey(p))
    BY <1>7 DEF UnlockNew
  <2> DEFINE e == UnlockEntry(a, p, price)
  <2>2. e \in Entry /\ e.source = "unlock" /\ MatchingApp(e) \in Titles
    BY TokenAccountsAssumption DEF UnlockEntry, Entry, Sources, Refs, MatchingApp
  <2>3. UNCHANGED <<sales, users, friends>>
    BY <1>7 DEF UnlockNew
  <2> HIDE DEF e
  <2>4. Books(book', sales)
    BY <1>1, <2>1, <2>2, ChargedBooks DEF e
  <2> QED
    BY <1>1, <2>3, <2>4 DEF BooksInv, Types
<1>8. ASSUME UNCHANGED <<book, sales>>, Types'
      PROVE  BooksInv'
  BY <1>1, <1>8 DEF BooksInv
<1>9. ASSUME NEW a \in Accounts, NEW b \in Accounts, Befriend(a, b) \/ Unfriend(a, b)
      PROVE  BooksInv'
  <2>1. UNCHANGED <<book, sales>> /\ Types'
    BY <1>1, <1>9 DEF Types, Befriend, Unfriend
  <2> QED
    BY <1>8, <2>1
<1>10. ASSUME NEW a \in Accounts, DeleteAccount(a) \/ Restore(a)
       PROVE  BooksInv'
  <2>1. UNCHANGED <<book, sales>> /\ Types'
    BY <1>1, <1>10 DEF Types, DeleteAccount, Restore
  <2> QED
    BY <1>8, <2>1
<1>11. ASSUME NEW a \in Accounts, NEW p \in DOMAIN Unlocks, UnlockPaid(a, p)
       PROVE  BooksInv'
  <2>1. UNCHANGED <<book, sales>> /\ Types'
    BY <1>1, <1>11 DEF Types, UnlockPaid
  <2> QED
    BY <1>8, <2>1
<1>12. CASE UNCHANGED vars
  <2>1. UNCHANGED <<book, sales>> /\ Types'
    BY <1>1, <1>12 DEF Types, vars
  <2> QED
    BY <1>8, <2>1
<1> QED
  BY <1>2, <1>3, <1>4, <1>5, <1>6, <1>7, <1>9, <1>10, <1>11, <1>12 DEF Next

\* The inductive invariant: whatever is bought, refunded, deposited, spent, given
\* and unlocked, in any order, the books stay in order.
THEOREM BooksStayInOrder == Spec => []BooksInv
<1>1. Init => BooksInv
  BY InitBooks
<1>2. BooksInv /\ [Next]_vars => BooksInv'
  BY BooksKept
<1> QED
  BY <1>1, <1>2, PTL DEF Spec

\* Every receipt, lot, payment and nonce has its type.
THEOREM Typed == Spec => []TypeOK
<1>1. IInv /\ BooksInv => TypeOK
  BY DEF IInv, BookInv, UnlocksInv, BooksInv, Books, Fine, Sound, Lots, New, Types, TypeOK,
         PaidNamed, Receipted, Book
<1> QED
  BY <1>1, Invariant, BooksStayInOrder, PTL

\* Every unit is accounted for: each lot holds what was credited less what was traced
\* to it, each debit is traced in full, to lots of its own account, and what no lot
\* covers was in the account before there were lots.
THEOREM EveryUnitIsTraced == Spec => []AuditTrail
<1>1. BooksInv => AuditTrail
  <2> SUFFICES ASSUME BooksInv PROVE AuditTrail
    OBVIOUS
  <2>1. Traces(book) /\ Audited(book, NoLot, 0) /\ Backed(book) /\ Sound(book)
    BY DEF BooksInv, Books, Fine, Sound
  <2>2. \A i \in DOMAIN book.lots :
           book.lots[i].left = book.ledger[i].units - TracedUnits({r \in book.traced : r.credit = i})
    BY <2>1 DEF Audited, FromLot
  <2>3. ASSUME NEW i \in DOMAIN book.ledger \ DOMAIN History, book.ledger[i].units < 0
        PROVE  TracedUnits({r \in book.traced : r.debit = i}) = -book.ledger[i].units
    <3>1. TracedUnits(OfDebit(book, i)) = -book.ledger[i].units - (IF i = NoLot THEN 0 ELSE 0)
      BY <2>1, <2>3 DEF Audited, New
    <3>2. book.ledger[i].units \in Int
      BY <2>1, EntryTyped
    <3> QED
      BY <3>1, <3>2 DEF OfDebit
  <2>4. \A r \in book.traced : r.credit # NoLot =>
           book.ledger[r.credit].acct = book.ledger[r.debit].acct
    BY <2>1 DEF Traces
  <2>5. ASSUME NEW a \in Accounts
        PROVE  LET untraced == {r \in book.traced : r.credit = NoLot /\ book.ledger[r.debit].acct = a}
                   refunded == {r \in untraced : book.ledger[r.debit].source = "google_play"}
               IN  TracedUnits(untraced \ refunded) <= Positive(HistoricUnits(a))
    <3> DEFINE untraced == {r \in book.traced : r.credit = NoLot /\ book.ledger[r.debit].acct = a}
               refunded == {r \in untraced : book.ledger[r.debit].source = "google_play"}
    <3>1. untraced \ refunded = UntracedSpends(book, a)
      BY DEF UntracedSpends, Untraced
    <3> HIDE DEF untraced, refunded
    <3>2. TracedUnits(untraced \ refunded) <= Positive(HistoricUnits(a))
      BY <2>1, <3>1 DEF Backed
    <3> QED
      BY <3>2 DEF untraced, refunded
  <2> QED
    BY <2>2, <2>3, <2>4, <2>5 DEF AuditTrail
<1> QED
  BY <1>1, BooksStayInOrder, PTL

\* What was bought in a store for a title is traced only to spends and unlocks in it
\* and to refunds of that purchase.
THEOREM BoughtUnitsStayInTitle == Spec => []BoughtStaysInTitle
<1>1. BooksInv => BoughtStaysInTitle
  BY DEF BooksInv, Books, Fine, Sound, Traces, BoundRow, BoughtStaysInTitle
<1> QED
  BY <1>1, BooksStayInOrder, PTL
=============================================================================
