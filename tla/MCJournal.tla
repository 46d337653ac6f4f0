----------------------------- MODULE MCJournal ------------------------------
(***************************************************************************)
(* Constants for model-checking one journal with TLC.                      *)
(***************************************************************************)
EXTENDS Journal, TLC

CONSTANTS n1, ns1, ns2, p

NotCommitted == {InvalidTxid}
MayCommit    == {InvalidTxid, 1, 2}

One == {<<p>>}

\* Segment 1 is recovered: as one transaction by the writer of an odd epoch,
\* as two by that of an even epoch.
RecoverSegmentOne ==
  [e \in Epoch |-> [s \in Txid |->
     IF s # 1 THEN {} ELSE IF e % 2 = 1 THEN {<<p>>} ELSE {<<p, p>>}]]

\* The two namespaces differ in name only.
NamespaceSymmetry == Permutations(Namespace)

\* All but rc, which only the step that sets it reads.
ViewOfJournal == <<disk, memory, status>>
=============================================================================
