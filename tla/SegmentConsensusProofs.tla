----------------------- MODULE SegmentConsensusProofs -----------------------
(***************************************************************************)
(* What every system that implements SegmentConsensus has: the model of    *)
(* writers and JournalNodes does (ImplementsConsensus of QuorumRecovery).  *)
(***************************************************************************)
EXTENDS SegmentConsensus, TLAPS

ChosenOnce ==
  \A s \in Segment : \A a, b \in chosen[s] : a = b

ChosenHoldsAcked ==
  \A s \in Segment : \A log \in chosen[s] : Holds(s, log, acked[s])

\* acked and chosen are functions on the segments.
ConsensusInv ==
  /\ acked = [s \in Segment |-> acked[s]]
  /\ chosen = [s \in Segment |-> chosen[s]]
  /\ ChosenOnce
  /\ ChosenHoldsAcked

LEMMA InitConsensus == Init => ConsensusInv
BY DEF Init, ConsensusInv, ChosenOnce, ChosenHoldsAcked

LEMMA AcknowledgeKeeps ==
  ASSUME ConsensusInv, NEW s \in Segment, Acknowledge(s)
  PROVE  ConsensusInv'
<1>1. PICK txn : /\ acked' = [acked EXCEPT ![s] = @ \cup {txn}]
                 /\ \A log \in chosen[s] : Holds(s, log, {txn})
  BY DEF Acknowledge
<1>2. chosen' = chosen
  BY DEF Acknowledge
<1>3. \A r \in Segment : acked'[r] = IF r = s THEN acked[r] \cup {txn} ELSE acked[r]
  BY <1>1 DEF ConsensusInv
<1>4. acked' = [r \in Segment |-> acked'[r]]
  BY <1>1 DEF ConsensusInv
<1>5. ChosenHoldsAcked'
  BY <1>1, <1>2, <1>3 DEF ConsensusInv, ChosenHoldsAcked, Holds
<1>6. ChosenOnce'
  BY <1>2 DEF ConsensusInv, ChosenOnce
<1>7. QED BY <1>2, <1>4, <1>5, <1>6 DEF ConsensusInv

LEMMA ChooseKeeps ==
  ASSUME ConsensusInv, NEW s \in Segment, Choose(s)
  PROVE  ConsensusInv'
<1>1. PICK log : /\ chosen' = [chosen EXCEPT ![s] = {log}]
                 /\ Holds(s, log, acked[s])
  BY DEF Choose
<1>2. acked' = acked
  BY DEF Choose
<1>3. \A r \in Segment : chosen'[r] = IF r = s THEN {log} ELSE chosen[r]
  BY <1>1 DEF ConsensusInv
<1>4. chosen' = [r \in Segment |-> chosen'[r]]
  BY <1>1 DEF ConsensusInv
<1>5. ChosenOnce' /\ ChosenHoldsAcked'
  BY <1>1, <1>2, <1>3 DEF ConsensusInv, ChosenOnce, ChosenHoldsAcked, Holds
<1>6. QED BY <1>2, <1>4, <1>5 DEF ConsensusInv

LEMMA StepConsensus ==
  ConsensusInv /\ [Next]_<<acked, chosen>> => ConsensusInv'
<1>1. ASSUME ConsensusInv, UNCHANGED <<acked, chosen>> PROVE ConsensusInv'
  BY <1>1 DEF ConsensusInv, ChosenOnce, ChosenHoldsAcked, Holds
<1>2. QED BY <1>1, AcknowledgeKeeps, ChooseKeeps DEF Next

\* Of every segment at most one log is chosen, and it holds every transaction
\* of the segment that was acknowledged, before or after the choice
\* (finalizeLogSegment, Journal.cpp:274: "a different length will never be
\* decided").
THEOREM OneLogWithAllAcked == Spec => [](ChosenOnce /\ ChosenHoldsAcked)
<1>1. ConsensusInv => ChosenOnce /\ ChosenHoldsAcked
  BY DEF ConsensusInv
<1>2. QED BY <1>1, InitConsensus, StepConsensus, PTL DEF Spec

\* A log once chosen stays chosen, and an acknowledgement is never taken back.
Lasting ==
  \A s \in Segment : acked[s] \subseteq acked'[s] /\ chosen[s] \subseteq chosen'[s]

LEMMA StepLasts ==
  ASSUME ConsensusInv, [Next]_<<acked, chosen>>
  PROVE  Lasting
<1>1. ASSUME NEW s \in Segment, Acknowledge(s) PROVE Lasting
  BY <1>1 DEF Acknowledge, Lasting, ConsensusInv
<1>2. ASSUME NEW s \in Segment, Choose(s) PROVE Lasting
  BY <1>2 DEF Choose, Lasting, ConsensusInv
<1>3. CASE UNCHANGED <<acked, chosen>>
  BY <1>3 DEF Lasting
<1>4. QED BY <1>1, <1>2, <1>3 DEF Next

\* The same as a property of steps: no recovery revises an earlier one.
THEOREM ChoiceLasts == Spec => [][Lasting]_<<acked, chosen>>
BY InitConsensus, StepConsensus, StepLasts, PTL DEF Spec
=============================================================================
