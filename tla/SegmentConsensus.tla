-------------------------- MODULE SegmentConsensus --------------------------
(***************************************************************************)
(* What the writers and the JournalNodes promise together: of every        *)
(* segment one log is chosen, once and for all, and it holds what was      *)
(* acknowledged of the segment.                                            *)
(***************************************************************************)
CONSTANTS Segment, At(_, _, _)

\* At(s, log, t) is the transaction at txid t of log, the log of segment s.

VARIABLES
  acked,   \* [s] the acknowledged transactions, as pairs <<txid, transaction>>
  chosen   \* [s] the logs chosen, at most one

Holds(s, log, txns) == \A txn \in txns : At(s, log, txn[1]) = txn[2]

Init ==
  /\ acked = [s \in Segment |-> {}]
  /\ chosen = [s \in Segment |-> {}]

\* A transaction is acknowledged before the log is chosen, or is in it.
Acknowledge(s) ==
  /\ UNCHANGED chosen
  /\ \E txn \in acked'[s] :
       /\ acked' = [acked EXCEPT ![s] = @ \cup {txn}]
       /\ \A log \in chosen[s] : Holds(s, log, {txn})

Choose(s) ==
  /\ UNCHANGED acked
  /\ chosen[s] = {}
  /\ \E log \in chosen'[s] :
       /\ chosen' = [chosen EXCEPT ![s] = {log}]
       /\ Holds(s, log, acked[s])

Next == \E s \in Segment : Acknowledge(s) \/ Choose(s)

Spec == Init /\ [][Next]_<<acked, chosen>>
=============================================================================
