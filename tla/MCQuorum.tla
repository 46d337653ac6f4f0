------------------------------ MODULE MCQuorum ------------------------------
(***************************************************************************)
(* Constants for model-checking writers and three journals.                *)
(***************************************************************************)
EXTENDS QuorumRecovery, TLC

CONSTANTS n1, n2, n3, ns1

Payloads   == 0..MaxEpoch
OneTxn     == {<<x>> : x \in 0..MaxEpoch}
NoProposal == [e \in Epoch |-> [s \in Txid |-> {}]]
AnyCommit  == Txid \cup {InvalidTxid}

NodeSymmetry == Permutations(Node)
=============================================================================
