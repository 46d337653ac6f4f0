------------------------------ MODULE LongFiles ------------------------------
(***************************************************************************)
(* The files of one journal that hold a number (refreshCachedData in       *)
(* Journal.cpp): an epoch in a PersistentLongFile and committed-txid in a  *)
(* BestEffortLongFile.  They are made together, when a process starts or   *)
(* the journal is formatted, and used by one thread, so that a process may *)
(* end within a write of the one but not of the other.                     *)
(***************************************************************************)
EXTENDS PersistentLongFile

VARIABLES committedFile, committedValue, opened, lastSet

committed == <<committedFile, committedValue, opened, lastSet>>

CommittedTxnId == INSTANCE BestEffortLongFile WITH
  file <- committedFile, value <- committedValue

LInit == Init /\ CommittedTxnId!Init

LNext ==
  \/ Use /\ UNCHANGED committed
  \/ writing = None /\ CommittedTxnId!Use /\ UNCHANGED vars
  \/ Restart /\ CommittedTxnId!Restart

LSpec == LInit /\ [][LNext]_<<vars, committed>>

-----------------------------------------------------------------------------
\* Types of both files' states.
FilesTypeOK == TypeOK /\ CommittedTxnId!TypeOK

\* Within one process committed-txid reads as last set, whatever became of the
\* writes to the epoch beside it (BestEffortLongFile.h:75-85).
CommittedReadsLastSet == CommittedTxnId!ReadsLastSet
=============================================================================
