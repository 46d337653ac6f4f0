----------------------------- MODULE MCEditScan -----------------------------
(***************************************************************************)
(* Constants for model-checking the scan of an edit log.                   *)
(***************************************************************************)
EXTENDS EditScan

\* Records without and with data, and one with another opcode.
ThreeRecords == {[data |-> 0, known |-> TRUE], [data |-> 2, known |-> TRUE],
                 [data |-> 1, known |-> FALSE]}
=============================================================================
