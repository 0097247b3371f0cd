---------------------------- MODULE LastWriterWins ----------------------------
(***************************************************************************)
(* What replicas of last-writer-wins records promise.  A record holds one   *)
(* of the contents that clients have written to it, each at a time of its   *)
(* own, and a replica leaves it only for a newer one: because a client      *)
(* writes there, or because the replica learns what others hold, of any     *)
(* records at once and skipping what was written in between.                *)
(***************************************************************************)
EXTENDS Integers, FiniteSets

CONSTANTS
    Replicas,
    Records,
    Contents,   \* contents of a record, with the time they were written
    None        \* what a record holds that was never written; it is older than all

VARIABLES
    written,    \* written[k]: what clients have written to record k
    held        \* held[n][k]: what replica n holds of record k

Newer(x, y) == x.at > y.at

Init ==
    /\ written = [k \in Records |-> {}]
    /\ held = [n \in Replicas |-> [k \in Records |-> None]]

\* A client writes at a replica, which keeps what is newer.
Write(n, k, c) ==
    /\ \A w \in written[k] : w.at # c.at
    /\ written' = [written EXCEPT ![k] = @ \cup {c}]
    /\ held' = [held EXCEPT ![n][k] = IF Newer(c, @) THEN c ELSE @]

\* A replica learns newer contents.
Learn(n) ==
    \E news \in [Records -> Contents \cup {None}] :
        /\ \A k \in Records : news[k] # held[n][k] =>
              news[k] \in written[k] /\ Newer(news[k], held[n][k])
        /\ held' = [held EXCEPT ![n] = news]
        /\ UNCHANGED written

Next ==
    \E n \in Replicas :
        \/ Learn(n)
        \/ \E k \in Records, c \in Contents : Write(n, k, c)

Spec == Init /\ [][Next]_<<written, held>>

-----------------------------------------------------------------------------
\* Every replica holds the newest of what was written of every record.
AllNewest ==
    \A n \in Replicas, k \in Records : \A w \in written[k] :
        held[n][k] \in written[k] /\ ~Newer(w, held[n][k])

Settled == <>[]AllNewest
=============================================================================
