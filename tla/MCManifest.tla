----------------------------- MODULE MCManifest -----------------------------
(***************************************************************************)
(* Constants for model-checking one journal and its manifests with TLC.    *)
(***************************************************************************)
EXTENDS JournalManifest

CONSTANTS n1, ns1, p

NotCommitted == {InvalidTxid}
OneOrTwo     == {<<p>>, <<p, p>>}
NoProposal   == [e \in Epoch |-> [s \in Txid |-> {}]]
=============================================================================
