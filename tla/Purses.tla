-------------------------------- MODULE Purses --------------------------------
(***************************************************************************)
(* What the token ledger promises: each account has a purse that any title *)
(* may spend and a purse for each title, each effect happens once, and     *)
(* only a refund may take what a purse does not hold.                      *)
(***************************************************************************)
EXTENDS Integers, FiniteSets

CONSTANTS
    Accounts, Titles,
    Shared,    \* the purse that any title may spend
    Amounts    \* amounts that one effect may have

Kinds == Titles \cup {Shared}

VARIABLES
    purse,     \* purse[a][t]: the units of account a in the purse of t
    bought,    \* bought[a][t]: units bought in a store for t and not refunded
    done       \* the payments and spends that took effect

vars == <<purse, bought, done>>

Positive(n) == IF n > 0 THEN n ELSE 0

\* Earlier refunds may have taken what a purse did not hold.
Init ==
    /\ purse \in [Accounts -> [Kinds -> Int]]
    /\ bought \in [Accounts -> [Kinds -> Nat]]

\* n payments or spends take effect that had not before.
Effects(n) == done \subseteq done' /\ Cardinality(done' \ done) = n

\* Units from outside for any title, or for the one they were bought for.
Receive(a, t, n) ==
    /\ Effects(1)
    /\ purse' = [purse EXCEPT ![a][t] = @ + n]
    /\ bought' = IF t = Shared THEN bought ELSE [bought EXCEPT ![a][t] = @ + n]

\* A purchase takes its title's own units first.
Pay(a, t, n) ==
    LET held == IF t = Shared THEN 0 ELSE Positive(purse[a][t])
        own  == IF held < n THEN held ELSE n
    IN  /\ Effects(1)
        /\ n - own <= Positive(purse[a][Shared])
        /\ purse' = [purse EXCEPT ![a][t] = @ - own, ![a][Shared] = @ - (n - own)]
        /\ UNCHANGED bought

\* A gift moves what any title may spend from one account to another.
Give(a, b, n) ==
    /\ Effects(2)
    /\ a # b
    /\ n <= Positive(purse[a][Shared])
    /\ purse' = [purse EXCEPT ![a][Shared] = @ - n, ![b][Shared] = @ + n]
    /\ UNCHANGED bought

\* A refund takes what was bought, whether or not the purse still holds it.
Refund(a, t, n) ==
    /\ UNCHANGED done
    /\ n <= bought[a][t]
    /\ bought' = [bought EXCEPT ![a][t] = @ - n]
    /\ purse' = [purse EXCEPT ![a][t] = @ - n]

Next ==
    \/ \E a \in Accounts, t \in Kinds, n \in Amounts :
          Receive(a, t, n) \/ Pay(a, t, n) \/ Refund(a, t, n)
    \/ \E a, b \in Accounts, n \in Amounts : Give(a, b, n)

Spec == Init /\ [][Next]_vars
=============================================================================
