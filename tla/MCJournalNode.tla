--------------------------- MODULE MCJournalNode ----------------------------
(***************************************************************************)
(* Constants for model-checking the process around the journals: two       *)
(* processes configured with one directory, the second without HTTP.       *)
(***************************************************************************)
EXTENDS JournalNode

CONSTANTS p1, p2

TwoAndOne == [p \in Process |-> IF p = p1 THEN {"rpc", "http"} ELSE {"rpc"}]
=============================================================================
