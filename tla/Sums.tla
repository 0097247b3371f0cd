--------------------------------- MODULE Sums ---------------------------------
(***************************************************************************)
(* Lemmas about SumFunctionOnSet of the community modules.  The sum is a   *)
(* recursive function on the subsets of a finite set; that it exists, and  *)
(* what it is, follow by induction, which is here the choice of a least    *)
(* counterexample: every nonempty set of numbers, or of finite sets, has   *)
(* a member with none below it.                                            *)
(***************************************************************************)
EXTENDS FiniteSetTheorems, FunctionTheorems, TLAPS

-----------------------------------------------------------------------------
(* Induction, over sets instead of predicates: the numbers or the sets that *)
(* have a property are all of them.                                         *)

\* Numbers that hold zero and the next of each are all numbers.
LEMMA NumbersByInduction ==
    ASSUME NEW Good, 0 \in Good, \A n \in Nat : n \in Good => n + 1 \in Good
    PROVE  Nat \subseteq Good
<1> DEFINE Bad == Nat \ Good
<1> SUFFICES ASSUME Bad # {} PROVE FALSE
  OBVIOUS
<1>1. PICK n \in Bad : \A m \in Bad : ~ (<<m, n>> \in OpToRel(<, Nat))
  BY NatLessThanWellFounded, WFMin
<1>2. n # 0 /\ n \in Nat
  BY <1>1
<1>3. n - 1 \in Nat /\ n - 1 < n /\ (n - 1) + 1 = n
  BY <1>2
<1>4. n - 1 \in Good
  BY <1>1, <1>2, <1>3 DEF OpToRel
<1> QED
  BY <1>1, <1>3, <1>4

\* Subsets that hold every set of which they hold each part that lacks one element
\* are all subsets.
LEMMA SetsByInduction ==
    ASSUME NEW S, IsFiniteSet(S), NEW Good,
           \A s \in SUBSET S : (\A x \in s : s \ {x} \in Good) => s \in Good
    PROVE  SUBSET S \subseteq Good
<1> DEFINE Bad == {s \in SUBSET S : s \notin Good}
<1> SUFFICES ASSUME Bad # {} PROVE FALSE
  OBVIOUS
<1>1. FiniteSubsetsOf(S) = SUBSET S
  BY FS_FiniteSubsetsOfFinite
<1>2. IsWellFoundedOn(StrictSubsetOrdering(S), FiniteSubsetsOf(S))
  BY FS_StrictSubsetOrderingWellFounded
<1>3. Bad \subseteq FiniteSubsetsOf(S)
  BY <1>1
<1>4. PICK s \in Bad : \A t \in Bad : ~ (<<t, s>> \in StrictSubsetOrdering(S))
  <2> HIDE DEF Bad
  <2> QED
    BY <1>2, <1>3, WFMin
<1>5. ASSUME NEW x \in s
      PROVE  s \ {x} \in Good
  <2>1. <<s \ {x}, s>> \in StrictSubsetOrdering(S)
    BY <1>4 DEF StrictSubsetOrdering
  <2> QED
    BY <1>4, <2>1
<1> QED
  BY <1>4, <1>5

-----------------------------------------------------------------------------
(* The sum that the community modules compute *)

\* A function has integers for values on a set.
Ints(f, S) == \A x \in S : f[x] \in Int

\* One element of a set, and the step of the sum that takes it.
Some(s) == CHOOSE x \in s : TRUE
Step(f, g, s) == IF s = {} THEN 0 ELSE f[Some(s)] + g[s \ {Some(s)}]

\* g is the sum of f over each subset, taken one element at a time.
Unfolds(f, S, g) == g = [s \in SUBSET S |-> Step(f, g, s)]

Iter(f, S) == CHOOSE g : Unfolds(f, S, g)

\* It is the value of a function that unfolds so, if there is one.
LEMMA SumIter ==
    ASSUME NEW f, NEW S
    PROVE  SumFunctionOnSet(f, S) = Iter(f, S)[S]
BY DEF SumFunctionOnSet, FoldFunctionOnSet, MapThenFoldSet, Iter, Unfolds, Step, Some

\* The element taken is one of the set, which is smaller without it.
LEMMA SomeOf ==
    ASSUME NEW S, IsFiniteSet(S), NEW s \in SUBSET S, s # {}
    PROVE  /\ Some(s) \in s /\ s \ {Some(s)} \in SUBSET S
           /\ Cardinality(s) \in Nat /\ Cardinality(s \ {Some(s)}) = Cardinality(s) - 1
<1>1. IsFiniteSet(s)
  BY FS_Subset
<1>2. Some(s) \in s
  BY DEF Some
<1> QED
  BY <1>1, <1>2, FS_CardinalityType, FS_RemoveElement

\* There is one: it is found for sets of more and more elements.
LEMMA SumExists ==
    ASSUME NEW S, IsFiniteSet(S), NEW f, Ints(f, S)
    PROVE  \E g : Unfolds(f, S, g)
<1> DEFINE Small(n)   == {s \in SUBSET S : Cardinality(s) <= n}
           Partial(g, n) == g \in [SUBSET S -> Int] /\ \A s \in Small(n) : g[s] = Step(f, g, s)
           Good == {n \in Nat : \E g : Partial(g, n)}
<1>0. \A s \in SUBSET S : IsFiniteSet(s) /\ Cardinality(s) \in Nat
  BY FS_Subset, FS_CardinalityType
<1>1. 0 \in Good
  <2> DEFINE g == [s \in SUBSET S |-> 0]
  <2>1. \A s \in Small(0) : s = {}
    BY <1>0, FS_EmptySet
  <2>2. Partial(g, 0)
    BY <2>1 DEF Step
  <2> QED
    BY <2>2
<1>2. ASSUME NEW n \in Nat, n \in Good
      PROVE  n + 1 \in Good
  <2>1. PICK g : Partial(g, n)
    BY <1>2
  <2> DEFINE h == [s \in SUBSET S |-> Step(f, g, s)]
  <2>2. h \in [SUBSET S -> Int]
    <3> SUFFICES ASSUME NEW s \in SUBSET S PROVE Step(f, g, s) \in Int
      OBVIOUS
    <3>1. CASE s = {}
      BY <3>1 DEF Step
    <3>2. CASE s # {}
      <4>1. f[Some(s)] \in Int /\ g[s \ {Some(s)}] \in Int
        BY <2>1, <3>2, SomeOf DEF Ints
      <4> QED
        BY <3>2, <4>1 DEF Step
    <3> QED
      BY <3>1, <3>2
  <2>3. ASSUME NEW s \in Small(n + 1)
        PROVE  h[s] = Step(f, h, s)
    <3>1. CASE s = {}
      BY <3>1 DEF Step
    <3>2. CASE s # {}
      <4>1. s \ {Some(s)} \in Small(n)
        BY <3>2, SomeOf
      <4>2. h[s \ {Some(s)}] = g[s \ {Some(s)}]
        BY <2>1, <4>1
      <4> QED
        BY <3>2, <4>2 DEF Step
    <3> QED
      BY <3>1, <3>2
  <2>4. Partial(h, n + 1)
    BY <2>2, <2>3
  <2> HIDE DEF h
  <2> QED
    BY <2>4
<1>3. Cardinality(S) \in Good
  <2> HIDE DEF Good
  <2> QED
    BY <1>0, <1>1, <1>2, NumbersByInduction
<1>4. PICK g : Partial(g, Cardinality(S))
  BY <1>3
<1>5. \A s \in SUBSET S : s \in Small(Cardinality(S))
  BY FS_Subset
<1>6. Unfolds(f, S, g)
  BY <1>4, <1>5 DEF Unfolds
<1> QED
  BY <1>6

\* The sum unfolds, and is an integer.
LEMMA SumUnfolds ==
    ASSUME NEW S, IsFiniteSet(S), NEW f, Ints(f, S)
    PROVE  \A s \in SUBSET S : /\ Iter(f, S)[s] = Step(f, Iter(f, S), s)
                               /\ Iter(f, S)[s] \in Int
<1> DEFINE g == Iter(f, S)
           Good == {s \in SUBSET S : g[s] \in Int}
<1>1. \A s \in SUBSET S : g[s] = Step(f, g, s)
  <2>1. Unfolds(f, S, g)
    BY SumExists DEF Iter
  <2> HIDE DEF g
  <2> QED
    BY <2>1 DEF Unfolds
<1> HIDE DEF g
<1>2. ASSUME NEW s \in SUBSET S, \A x \in s : s \ {x} \in Good
      PROVE  s \in Good
  <2> SUFFICES Step(f, g, s) \in Int
    BY <1>1
  <2>1. CASE s = {}
    BY <2>1 DEF Step
  <2>2. CASE s # {}
    <3>1. Some(s) \in s /\ f[Some(s)] \in Int
      BY <2>2, SomeOf DEF Ints
    <3>2. g[s \ {Some(s)}] \in Int
      BY <1>2, <3>1
    <3> QED
      BY <2>2, <3>1, <3>2 DEF Step
  <2> QED
    BY <2>1, <2>2
<1>3. SUBSET S \subseteq Good
  <2> HIDE DEF Good
  <2> QED
    BY <1>2, SetsByInduction
<1> QED
  BY <1>1, <1>3 DEF g

\* In whichever order its elements are taken.
LEMMA SumTakesAny ==
    ASSUME NEW S, IsFiniteSet(S), NEW f, Ints(f, S)
    PROVE  \A s \in SUBSET S : \A x \in s : Iter(f, S)[s] = f[x] + Iter(f, S)[s \ {x}]
<1> DEFINE g == Iter(f, S)
           Good == {s \in SUBSET S : \A x \in s : g[s] = f[x] + g[s \ {x}]}
<1>1. \A s \in SUBSET S : g[s] = Step(f, g, s) /\ g[s] \in Int
  BY SumUnfolds
<1> HIDE DEF g
<1>2. ASSUME NEW s \in SUBSET S, \A x \in s : s \ {x} \in Good
      PROVE  s \in Good
  <2> SUFFICES ASSUME NEW x \in s PROVE g[s] = f[x] + g[s \ {x}]
    OBVIOUS
  <2> DEFINE p == Some(s)
  <2>1. p \in s /\ g[s] = f[p] + g[s \ {p}]
    BY <1>1, SomeOf DEF Step
  <2> HIDE DEF p
  <2>2. CASE x # p
    <3> DEFINE rest == (s \ {p}) \ {x}
    <3>1. g[s \ {p}] = f[x] + g[rest]
      BY <1>2, <2>1, <2>2
    <3>2. g[s \ {x}] = f[p] + g[(s \ {x}) \ {p}]
      BY <1>2, <2>1, <2>2
    <3>3. rest = (s \ {x}) \ {p}
      OBVIOUS
    <3>4. f[x] \in Int /\ f[p] \in Int /\ g[rest] \in Int
      <4>1. rest \in SUBSET S
        OBVIOUS
      <4> QED
        BY <1>1, <2>1, <4>1 DEF Ints
    <3> HIDE DEF rest
    <3> QED
      BY <2>1, <3>1, <3>2, <3>3, <3>4
  <2> QED
    BY <2>1, <2>2
<1>3. SUBSET S \subseteq Good
  <2> HIDE DEF Good
  <2> QED
    BY <1>2, SetsByInduction
<1> QED
  BY <1>3 DEF g

\* Sums agree where their functions do.
LEMMA SumAgrees ==
    ASSUME NEW S, IsFiniteSet(S), NEW f, Ints(f, S),
           NEW T, IsFiniteSet(T), NEW h, Ints(h, T),
           NEW U, U \subseteq S, U \subseteq T, \A x \in U : f[x] = h[x]
    PROVE  Iter(f, S)[U] = Iter(h, T)[U]
<1> DEFINE g == Iter(f, S)
           k == Iter(h, T)
           Good == {s \in SUBSET U : g[s] = k[s]}
<1>1. /\ \A s \in SUBSET S : g[s] = Step(f, g, s)
      /\ \A s \in SUBSET T : k[s] = Step(h, k, s)
  BY SumUnfolds
<1> HIDE DEF g, k
<1>2. IsFiniteSet(U)
  BY FS_Subset
<1>3. ASSUME NEW s \in SUBSET U, \A x \in s : s \ {x} \in Good
      PROVE  s \in Good
  <2>1. s \in SUBSET S /\ s \in SUBSET T
    OBVIOUS
  <2>2. CASE s = {}
    BY <1>1, <2>1, <2>2 DEF Step
  <2>3. CASE s # {}
    <3>1. Some(s) \in s
      BY <1>2, <2>3, SomeOf
    <3>2. g[s \ {Some(s)}] = k[s \ {Some(s)}] /\ f[Some(s)] = h[Some(s)]
      BY <1>3, <3>1
    <3> QED
      BY <1>1, <2>1, <2>3, <3>2 DEF Step
  <2> QED
    BY <2>2, <2>3
<1>4. SUBSET U \subseteq Good
  <2> HIDE DEF Good
  <2> QED
    BY <1>2, <1>3, SetsByInduction
<1> QED
  BY <1>4 DEF g, k

-----------------------------------------------------------------------------
(* What sums do *)

\* Functions that agree on a set have the same sum over it.
LEMMA SumSame ==
    ASSUME NEW S, IsFiniteSet(S), NEW f, NEW h, Ints(f, S), \A x \in S : f[x] = h[x]
    PROVE  SumFunctionOnSet(f, S) = SumFunctionOnSet(h, S)
<1>1. Ints(h, S)
  BY DEF Ints
<1> QED
  BY <1>1, SumAgrees, SumIter

\* A sum of integers is an integer.
LEMMA SumType ==
    ASSUME NEW S, IsFiniteSet(S), NEW f, Ints(f, S)
    PROVE  SumFunctionOnSet(f, S) \in Int
BY SumUnfolds, SumIter

\* A sum over nothing is zero.
LEMMA SumNone ==
    ASSUME NEW f
    PROVE  SumFunctionOnSet(f, {}) = 0
<1>1. IsFiniteSet({}) /\ Ints(f, {})
  BY FS_EmptySet DEF Ints
<1> QED
  BY <1>1, SumUnfolds, SumIter DEF Step

\* Any element may be taken from a sum first.
LEMMA SumTake ==
    ASSUME NEW S, IsFiniteSet(S), NEW f, Ints(f, S), NEW x \in S
    PROVE  SumFunctionOnSet(f, S) = f[x] + SumFunctionOnSet(f, S \ {x})
<1>1. IsFiniteSet(S \ {x}) /\ Ints(f, S \ {x})
  BY FS_RemoveElement DEF Ints
<1>2. Iter(f, S)[S] = f[x] + Iter(f, S)[S \ {x}]
  BY SumTakesAny
<1>3. Iter(f, S)[S \ {x}] = Iter(f, S \ {x})[S \ {x}]
  BY <1>1, SumAgrees
<1> QED
  BY <1>2, <1>3, SumIter

\* And any may be put to it.
LEMMA SumPut ==
    ASSUME NEW S, IsFiniteSet(S), NEW f, NEW x, x \notin S, Ints(f, S \cup {x})
    PROVE  SumFunctionOnSet(f, S \cup {x}) = f[x] + SumFunctionOnSet(f, S)
<1>1. IsFiniteSet(S \cup {x}) /\ (S \cup {x}) \ {x} = S
  BY FS_AddElement
<1> QED
  BY <1>1, SumTake

\* Parts of a set add up.
LEMMA SumUnion ==
    ASSUME NEW S, IsFiniteSet(S), NEW T, IsFiniteSet(T), S \cap T = {},
           NEW f, Ints(f, S \cup T)
    PROVE  SumFunctionOnSet(f, S \cup T) = SumFunctionOnSet(f, S) + SumFunctionOnSet(f, T)
<1> DEFINE Good == {s \in SUBSET T : SumFunctionOnSet(f, S \cup s)
                                       = SumFunctionOnSet(f, S) + SumFunctionOnSet(f, s)}
<1>1. ASSUME NEW s \in SUBSET T, \A x \in s : s \ {x} \in Good
      PROVE  s \in Good
  <2>1. CASE s = {}
    <3>1. SumFunctionOnSet(f, S) \in Int /\ S \cup {} = S
      BY SumType DEF Ints
    <3> QED
      BY <2>1, <3>1, SumNone
  <2>2. CASE s # {}
    <3>1. PICK x \in s : TRUE
      BY <2>2
    <3>2. IsFiniteSet(s) /\ IsFiniteSet(s \ {x}) /\ IsFiniteSet(S \cup s)
      BY FS_Subset, FS_Union, FS_RemoveElement
    <3>3. (S \cup s) \ {x} = S \cup (s \ {x}) /\ x \in S \cup s
      BY <3>1
    <3>4. Ints(f, S \cup s) /\ Ints(f, s) /\ Ints(f, S) /\ Ints(f, s \ {x}) /\ f[x] \in Int
      BY <3>1 DEF Ints
    <3>5. SumFunctionOnSet(f, S \cup s) = f[x] + SumFunctionOnSet(f, S \cup (s \ {x}))
      BY <3>2, <3>3, <3>4, SumTake
    <3>6. SumFunctionOnSet(f, s) = f[x] + SumFunctionOnSet(f, s \ {x})
      BY <3>1, <3>2, <3>4, SumTake
    <3>7. SumFunctionOnSet(f, S \cup (s \ {x})) = SumFunctionOnSet(f, S) + SumFunctionOnSet(f, s \ {x})
      BY <1>1, <3>1
    <3>8. SumFunctionOnSet(f, S) \in Int /\ SumFunctionOnSet(f, s \ {x}) \in Int
      BY <3>2, <3>4, SumType
    <3> QED
      BY <3>4, <3>5, <3>6, <3>7, <3>8
  <2> QED
    BY <2>1, <2>2
<1>2. SUBSET T \subseteq Good
  <2> HIDE DEF Good
  <2> QED
    BY <1>1, SetsByInduction
<1> QED
  BY <1>2

\* A set of zeros adds nothing.
LEMMA SumZero ==
    ASSUME NEW S, IsFiniteSet(S), NEW f, \A x \in S : f[x] = 0
    PROVE  SumFunctionOnSet(f, S) = 0
<1> DEFINE Good == {s \in SUBSET S : SumFunctionOnSet(f, s) = 0}
<1>1. ASSUME NEW s \in SUBSET S, \A x \in s : s \ {x} \in Good
      PROVE  s \in Good
  <2>1. CASE s = {}
    BY <2>1, SumNone
  <2>2. CASE s # {}
    <3>1. PICK x \in s : TRUE
      BY <2>2
    <3>2. IsFiniteSet(s) /\ Ints(f, s) /\ f[x] = 0
      BY <3>1, FS_Subset DEF Ints
    <3>3. SumFunctionOnSet(f, s) = f[x] + SumFunctionOnSet(f, s \ {x})
      BY <3>1, <3>2, SumTake
    <3>4. SumFunctionOnSet(f, s \ {x}) = 0
      BY <1>1, <3>1
    <3> QED
      BY <3>2, <3>3, <3>4
  <2> QED
    BY <2>1, <2>2
<1>2. SUBSET S \subseteq Good
  <2> HIDE DEF Good
  <2> QED
    BY <1>1, SetsByInduction
<1> QED
  BY <1>2

\* A sum of differences is the difference of the sums.
LEMMA SumLess ==
    ASSUME NEW S, IsFiniteSet(S), NEW f, NEW g, NEW h, Ints(f, S), Ints(g, S),
           \A x \in S : h[x] = f[x] - g[x]
    PROVE  SumFunctionOnSet(h, S) = SumFunctionOnSet(f, S) - SumFunctionOnSet(g, S)
<1> DEFINE Good == {s \in SUBSET S :
                       SumFunctionOnSet(h, s) = SumFunctionOnSet(f, s) - SumFunctionOnSet(g, s)}
<1>1. ASSUME NEW s \in SUBSET S, \A x \in s : s \ {x} \in Good
      PROVE  s \in Good
  <2>1. CASE s = {}
    BY <2>1, SumNone
  <2>2. CASE s # {}
    <3>1. PICK x \in s : TRUE
      BY <2>2
    <3>2. IsFiniteSet(s) /\ IsFiniteSet(s \ {x})
      BY FS_Subset, FS_RemoveElement
    <3>3. /\ Ints(f, s) /\ Ints(g, s) /\ Ints(h, s) /\ Ints(f, s \ {x}) /\ Ints(g, s \ {x})
          /\ f[x] \in Int /\ g[x] \in Int /\ h[x] = f[x] - g[x]
      BY <3>1 DEF Ints
    <3>4. /\ SumFunctionOnSet(f, s) = f[x] + SumFunctionOnSet(f, s \ {x})
          /\ SumFunctionOnSet(g, s) = g[x] + SumFunctionOnSet(g, s \ {x})
          /\ SumFunctionOnSet(h, s) = h[x] + SumFunctionOnSet(h, s \ {x})
      BY <3>1, <3>2, <3>3, SumTake
    <3>5. SumFunctionOnSet(h, s \ {x}) = SumFunctionOnSet(f, s \ {x}) - SumFunctionOnSet(g, s \ {x})
      BY <1>1, <3>1
    <3>6. SumFunctionOnSet(f, s \ {x}) \in Int /\ SumFunctionOnSet(g, s \ {x}) \in Int
      BY <3>2, <3>3, SumType
    <3> QED
      BY <3>3, <3>4, <3>5, <3>6
  <2> QED
    BY <2>1, <2>2
<1>2. SUBSET S \subseteq Good
  <2> HIDE DEF Good
  <2> QED
    BY <1>1, SetsByInduction
<1> QED
  BY <1>2

\* A sum of naturals is a natural.
LEMMA SumNatural ==
    ASSUME NEW S, IsFiniteSet(S), NEW f, \A x \in S : f[x] \in Nat
    PROVE  SumFunctionOnSet(f, S) \in Nat
<1> DEFINE Good == {s \in SUBSET S : SumFunctionOnSet(f, s) \in Nat}
<1>1. ASSUME NEW s \in SUBSET S, \A x \in s : s \ {x} \in Good
      PROVE  s \in Good
  <2>1. CASE s = {}
    BY <2>1, SumNone
  <2>2. CASE s # {}
    <3>1. PICK x \in s : TRUE
      BY <2>2
    <3>2. IsFiniteSet(s) /\ Ints(f, s) /\ f[x] \in Nat
      BY <3>1, FS_Subset DEF Ints
    <3>3. SumFunctionOnSet(f, s) = f[x] + SumFunctionOnSet(f, s \ {x})
      BY <3>1, <3>2, SumTake
    <3>4. SumFunctionOnSet(f, s \ {x}) \in Nat
      BY <1>1, <3>1
    <3> QED
      BY <3>2, <3>3, <3>4
  <2> QED
    BY <2>1, <2>2
<1>2. SUBSET S \subseteq Good
  <2> HIDE DEF Good
  <2> QED
    BY <1>1, SetsByInduction
<1> QED
  BY <1>2

\* A sum follows the change of one of its values.
LEMMA SumChange ==
    ASSUME NEW S, IsFiniteSet(S), NEW f, NEW h, Ints(f, S), NEW x \in S, h[x] \in Int,
           \A y \in S \ {x} : h[y] = f[y]
    PROVE  SumFunctionOnSet(h, S) = SumFunctionOnSet(f, S) + (h[x] - f[x])
<1>1. IsFiniteSet(S \ {x}) /\ Ints(f, S \ {x}) /\ Ints(h, S) /\ f[x] \in Int
  BY FS_RemoveElement DEF Ints
<1>2. SumFunctionOnSet(h, S \ {x}) = SumFunctionOnSet(f, S \ {x})
  BY <1>1, SumSame
<1>3. /\ SumFunctionOnSet(f, S) = f[x] + SumFunctionOnSet(f, S \ {x})
      /\ SumFunctionOnSet(h, S) = h[x] + SumFunctionOnSet(h, S \ {x})
  BY <1>1, SumTake
<1>4. SumFunctionOnSet(f, S \ {x}) \in Int
  BY <1>1, SumType
<1> QED
  BY <1>1, <1>2, <1>3, <1>4

\* A sum over the values that a function takes once each.
LEMMA SumImage ==
    ASSUME NEW S, IsFiniteSet(S), NEW f, Ints(f, S), NEW at, NEW h,
           \A x, y \in S : at[x] = at[y] => x = y, \A x \in S : h[at[x]] = f[x]
    PROVE  /\ IsFiniteSet({at[x] : x \in S})
           /\ SumFunctionOnSet(h, {at[x] : x \in S}) = SumFunctionOnSet(f, S)
<1> DEFINE Image(s) == {at[x] : x \in s}
           Good == {s \in SUBSET S : /\ IsFiniteSet(Image(s))
                                     /\ SumFunctionOnSet(h, Image(s)) = SumFunctionOnSet(f, s)}
<1>1. ASSUME NEW s \in SUBSET S, \A x \in s : s \ {x} \in Good
      PROVE  s \in Good
  <2>1. CASE s = {}
    <3>1. Image(s) = {}
      BY <2>1
    <3> QED
      BY <2>1, <3>1, SumNone, FS_EmptySet
  <2>2. CASE s # {}
    <3>1. PICK x \in s : TRUE
      BY <2>2
    <3> DEFINE rest == Image(s \ {x})
    <3>2. Image(s) = rest \cup {at[x]} /\ at[x] \notin rest
      BY <3>1
    <3>3. IsFiniteSet(s) /\ Ints(f, s) /\ Ints(h, rest \cup {at[x]}) /\ f[x] = h[at[x]]
      BY <3>1, FS_Subset DEF Ints
    <3>4. IsFiniteSet(rest) /\ SumFunctionOnSet(h, rest) = SumFunctionOnSet(f, s \ {x})
      BY <1>1, <3>1
    <3> HIDE DEF rest
    <3>5. IsFiniteSet(Image(s))
      BY <3>2, <3>4, FS_AddElement
    <3>6. SumFunctionOnSet(h, Image(s)) = h[at[x]] + SumFunctionOnSet(h, rest)
      BY <3>2, <3>3, <3>4, SumPut
    <3>7. SumFunctionOnSet(f, s) = f[x] + SumFunctionOnSet(f, s \ {x})
      BY <3>1, <3>3, SumTake
    <3> QED
      BY <3>3, <3>4, <3>5, <3>6, <3>7
  <2> QED
    BY <2>1, <2>2
<1>2. SUBSET S \subseteq Good
  <2> HIDE DEF Good
  <2> QED
    BY <1>1, SetsByInduction
<1> QED
  BY <1>2
=============================================================================
