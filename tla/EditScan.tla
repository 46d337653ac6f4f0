------------------------------ MODULE EditScan ------------------------------
(***************************************************************************)
(* The bytes of an edit log and the scan that finds its last transaction:  *)
(* src/src/JNClientOutputStream.cpp and src/src/JNClientInputStream.cpp.   *)
(*                                                                         *)
(* A log is a header of 8 bytes and records: one byte opcode, 4 bytes      *)
(* length (of txid, data and checksum), 8 bytes txid, the data, 4 bytes    *)
(* checksum.  A crash or a full disk ends the file anywhere.  The scan     *)
(* takes the file as a std::string and checks only at the start of a       *)
(* record whether it is at the end, so that in a file torn within a record *)
(* it reads on: the byte at the end of a std::string is 0, those after it  *)
(* are whatever is in memory.  Module Journal relies on what this module   *)
(* shows about Scanned.                                                    *)
(***************************************************************************)
EXTENDS Integers, Sequences, FiniteSets

CONSTANTS
  Record,      \* the records writers send: size of the data, and whether the
               \* opcode is OPCODE
  MaxTxns,     \* how many transactions the log gets, at most
  FirstTxid,   \* the txid of the first
  Garbage      \* what the low-order byte of a number beyond the end reads as

ASSUME ScanAssumption ==
  /\ Record \subseteq [data : Nat, known : BOOLEAN]
  /\ MaxTxns \in Nat /\ FirstTxid \in Nat \ {0}
  /\ Garbage \subseteq 0..255

InvalidTxid == -12345
HeaderSize  == 8

VARIABLES
  records,       \* what was written and where each record starts; the last ones
                 \* are perhaps torn or not in the file
  fileLength,    \* the bytes that are in the file
  acked,         \* how many transactions were acknowledged
  pc,            \* "create", "writing", then the scan: "header", "ops", and its
                 \* end: "done", "error", "killed"
  mCurPosition,
  tempLast,      \* the highest txid seen
  overread       \* this scan has read beyond the end

file == <<records, fileLength, acked>>
scan == <<mCurPosition, tempLast, overread>>
vars == <<file, pc, scan>>

Size(r) == 17 + r.data

\* The length in bytes of a log of the records.
LengthOf(rs) ==
  IF rs = <<>> THEN HeaderSize ELSE rs[Len(rs)].start + Size(rs[Len(rs)])

TypeOK ==
  /\ records \in Seq([data : Nat, known : BOOLEAN, start : Nat])
  /\ Len(records) <= MaxTxns
  /\ fileLength \in 0..LengthOf(records)
  /\ acked \in 0..Len(records)
  /\ pc \in {"create", "writing", "header", "ops", "done", "error", "killed"}
  /\ mCurPosition \in Nat
  /\ tempLast \in Nat \cup {InvalidTxid}
  /\ overread \in BOOLEAN

Init ==
  /\ records = <<>> /\ fileLength = 0 /\ acked = 0
  /\ pc = "create"
  /\ mCurPosition = 0 /\ tempLast = InvalidTxid /\ overread = FALSE

-----------------------------------------------------------------------------
(* The log is written *)

BeginScan ==
  /\ pc' = "header"
  /\ mCurPosition' = 0 /\ tempLast' = InvalidTxid /\ overread' = FALSE

\* create(): the header goes to the file, or a part of it before the end of
\* the process.
Create ==
  /\ pc = "create"
  /\ \/ fileLength' = HeaderSize /\ pc' = "writing" /\ UNCHANGED scan
     \/ fileLength' \in 0..HeaderSize - 1 /\ BeginScan
  /\ UNCHANGED <<records, acked>>

\* A record goes where the one before it ends.
Placed(r, at) == [data |-> r.data, known |-> r.known, start |-> at]

Batches(at) ==
  {<<Placed(r, at)>> : r \in Record} \cup
  {<<Placed(r, at), Placed(s, at + Size(r))>> : r, s \in Record}

\* writeRaw() and flush(): a batch is in the file and acknowledged, or the
\* process ends (it aborts when flush fails) with a part of it in the file.
WriteRaw ==
  /\ pc = "writing"
  /\ \E batch \in Batches(LengthOf(records)) :
       /\ Len(records) + Len(batch) <= MaxTxns
       /\ records' = records \o batch
       /\ \/ /\ fileLength' = LengthOf(records')
             /\ acked' = Len(records')
             /\ UNCHANGED <<pc, scan>>
          \/ /\ fileLength' \in fileLength..LengthOf(records') - 1
             /\ BeginScan
             /\ UNCHANGED acked

\* A recovery, or the next process, scans the log; it may be scanned again.
ScanAgain ==
  /\ pc \in {"writing", "done", "error", "killed"}
  /\ BeginScan
  /\ UNCHANGED file

-----------------------------------------------------------------------------
(* scanLog *)

\* What is read of the big-endian number v, at "from", of the given width: the
\* first byte beyond the end is 0.
NumberRead(v, from, width) ==
  LET present == fileLength - from
  IN  IF present >= width THEN {v}
      ELSE IF present = width - 1 THEN {(v \div 256) * 256}
      ELSE {(v \div 65536) * 65536 + g : g \in Garbage}

\* A txid that begins beyond that first byte may be negative, too.
TxidRead(v, from) ==
  NumberRead(v, from, 8) \cup (IF from > fileLength THEN {InvalidTxid} ELSE {})

\* A read beyond the end may also end the process.
ReadUpTo(position) ==
  /\ mCurPosition' = position
  /\ overread' = (overread \/ position > fileLength)

KilledReading(position) ==
  /\ position > fileLength
  /\ pc' = "killed"
  /\ UNCHANGED scan

\* skipHeader: the layout flags must read as 0.
SkipHeader ==
  /\ pc = "header"
  /\ \/ /\ \E flags \in NumberRead(0, 4, 4) : pc' = IF flags = 0 THEN "ops" ELSE "error"
        /\ ReadUpTo(HeaderSize)
        /\ UNCHANGED tempLast
     \/ KilledReading(HeaderSize)
  /\ UNCHANGED file

AtEnd == mCurPosition >= fileLength

\* scanOp at the end: the log has no more transactions.
ScanEnd ==
  /\ pc = "ops" /\ AtEnd
  /\ pc' = "done"
  /\ UNCHANGED <<file, scan>>

\* The record at the position; there is none in the middle of one.
RecordsHere == {i \in DOMAIN records : records[i].start = mCurPosition}

\* Mutant: the scan tries again where it is.
ScanWrongOpcodeAgain ==
  /\ pc = "ops" /\ ~AtEnd
  /\ \A i \in RecordsHere : ~records[i].known
  /\ UNCHANGED vars

\* scanOp: the opcode is not the one every record begins with.
ScanWrongOpcode ==
  /\ pc = "ops" /\ ~AtEnd
  /\ \A i \in RecordsHere : ~records[i].known
  /\ pc' = "error"
  /\ mCurPosition' = mCurPosition + 1
  /\ UNCHANGED <<file, tempLast, overread>>

\* Mutants: what is skipped is the length itself, the position is lost.
NextWholeLength(length) == mCurPosition + 1 + 4 + 8 + length + 4
NextFromZero(length)    == length - 12

\* Opcode, length, txid, what the length leaves, checksum.  A length below 12
\* makes a skip of nearly 2^32, which the unsigned position takes as backward.
NextPosition(length) == mCurPosition + 1 + 4 + 8 + (length - 12) + 4

\* Mutants: the last txid read, the first one.
CountedLast(txid)  == txid
CountedFirst(txid) == IF tempLast = InvalidTxid THEN txid ELSE tempLast

Counted(txid) == IF tempLast = InvalidTxid \/ txid > tempLast THEN txid ELSE tempLast

ScanOp ==
  /\ pc = "ops" /\ ~AtEnd
  /\ \E i \in RecordsHere :
     \E length \in NumberRead(12 + records[i].data, mCurPosition + 1, 4) :
       /\ records[i].known
       /\ \/ \E txid \in TxidRead(FirstTxid + i - 1, mCurPosition + 5) :
               /\ ReadUpTo(NextPosition(length))
               /\ IF txid = InvalidTxid THEN pc' = "done" /\ UNCHANGED tempLast
                  ELSE tempLast' = Counted(txid) /\ UNCHANGED pc
          \/ KilledReading(NextPosition(length))
  /\ UNCHANGED file

ScanStep == SkipHeader \/ ScanEnd \/ ScanWrongOpcode \/ ScanOp

Next == Create \/ WriteRaw \/ ScanAgain \/ ScanStep

\* A scan waits for nothing.
Spec == Init /\ [][Next]_vars /\ WF_vars(ScanStep)

-----------------------------------------------------------------------------
(* Properties *)

EndOf(i) == records[i].start + Size(records[i])

\* The records of which at least n bytes are in the file.
WithBytes(n) == {i \in DOMAIN records : records[i].start + n <= fileLength}

EndsBetweenRecords ==
  fileLength = HeaderSize \/ \E i \in DOMAIN records : EndOf(i) = fileLength

\* The file ends after the opcode and before the end of the txid of a record.
TornInTxid == \E i \in WithBytes(1) : i \notin WithBytes(13)

\* A scan that succeeds reports every acknowledged transaction, whatever the
\* rest of a torn batch makes it read (JNClientInputStream.cpp:65).
AckedIsReported ==
  pc = "done" /\ acked > 0 => tempLast >= FirstTxid + acked - 1

\* Unless the file is torn within opcode, length and txid, what is reported is
\* the last transaction whose txid is in the file: a record torn behind its
\* txid counts as a whole one.
ReportsLastTxid ==
  pc = "done" /\ ~TornInTxid =>
    LET count == Cardinality(WithBytes(13))
    IN  tempLast = IF count = 0 THEN InvalidTxid ELSE FirstTxid + count - 1

\* The scan reads beyond the end only in a file that a write left torn.
OverreadOnlyIfTorn == overread => ~EndsBetweenRecords

\* Whatever length is read, the scan comes to its end (JNClientInputStream.cpp:112:
\* the data is skipped by a length that was not checked).
ScanEnds == (pc = "header") ~> (pc \in {"done", "error", "killed"})
=============================================================================
