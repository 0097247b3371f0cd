------------------------------- MODULE MCMesh -------------------------------
(***************************************************************************)
(* Instances of MeshReplication for TLC.                                   *)
(***************************************************************************)
EXTENDS MeshReplication, TLC

CONSTANTS n1, n2, n3, k1, k2, alice, bob, app1

OneOwner == [k \in Keys |-> alice]
TwoOwners == [k \in Keys |-> IF k = k1 THEN alice ELSE bob]
OneApp == [k \in Keys |-> app1]

\* Peers: each the other's; or a line in which n3 pulls from n2 and n2 from n1.
Mutual == [n \in Nodes |-> Nodes \ {n}]
Line == [n \in Nodes |-> IF n = n1 THEN {} ELSE IF n = n2 THEN {n1} ELSE {n2}]

Everything == [keys |-> Keys, byApp |-> FALSE, registry |-> FALSE]
Unfiltered == [n \in Nodes |-> [m \in Nodes |-> Everything]]
WithRegistry == [n \in Nodes |-> [m \in Nodes |->
                   [keys |-> Keys, byApp |-> TRUE, registry |-> TRUE]]]

AppsEverywhere == [n \in Nodes |-> AllApps]
AppsAtFirst == [n \in Nodes |-> IF n = n1 THEN AllApps ELSE {}]

\* Nodes and keys that no constant tells apart may be exchanged.
Interchangeable == Permutations(Nodes) \cup Permutations(Keys)

NoSkew == [n \in Nodes |-> 0]
=============================================================================
