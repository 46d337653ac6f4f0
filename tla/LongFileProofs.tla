--------------------------- MODULE LongFileProofs ---------------------------
(***************************************************************************)
(* The file of an epoch implements LongRegister, for any values and        *)
(* faults and beside any use of committed-txid; and committed-txid reads   *)
(* as last set within a process.                                           *)
(***************************************************************************)
EXTENDS LongFiles, TLAPS

\* A value is being written exactly into a file that is empty.
EpochFileOk == TypeOK /\ (writing # None => file = Empty)

LEMMA DefaultIsValue == DefaultVal \in Value
<1>1. MaxValue \in Nat
  BY FileAssumption
<1>2. QED BY <1>1 DEF DefaultVal, Value

LEMMA ReadIsTyped ==
  ASSUME EpochFileOk
  PROVE  ReadFile \in Value \cup {Empty}
BY DefaultIsValue DEF EpochFileOk, TypeOK, ReadFile

LEMMA InitEpochFile == Init => EpochFileOk
BY DefaultIsValue DEF Init, EpochFileOk, TypeOK

LEMMA StepEpochFile == EpochFileOk /\ [Use \/ Restart]_vars => EpochFileOk'
<1> SUFFICES ASSUME EpochFileOk, [Use \/ Restart]_vars PROVE EpochFileOk'
  OBVIOUS
<1> USE FileAssumption
<1>1. CASE Get
  BY <1>1, ReadIsTyped DEF Get, EpochFileOk, TypeOK
<1>2. ASSUME NEW v \in Value, SetSame(v) PROVE EpochFileOk'
  BY <1>2 DEF SetSame, EpochFileOk, TypeOK
<1>3. ASSUME NEW v \in Value, Truncate(v) PROVE EpochFileOk'
  BY <1>3 DEF Truncate, EpochFileOk, TypeOK
<1>4. CASE WriteLine
  BY <1>4 DEF WriteLine, EpochFileOk, TypeOK
<1>5. CASE Restart
  BY <1>5, DefaultIsValue DEF Restart, Construct, EpochFileOk, TypeOK
<1>6. CASE UNCHANGED vars
  BY <1>6 DEF vars, EpochFileOk, TypeOK
<1>7. QED BY <1>1, <1>2, <1>3, <1>4, <1>5, <1>6 DEF Use

-----------------------------------------------------------------------------
LEMMA InitRegister == Init => Register!Init
BY FileAssumption DEF Init, Register!Init, ReadFile, DefaultVal

\* Every step of the file is a step of the register, or none.
LEMMA StepRegister ==
  EpochFileOk /\ [Use \/ Restart]_vars => [Register!Next]_(Register!vars)
<1> SUFFICES ASSUME EpochFileOk, [Use \/ Restart]_vars
             PROVE  [Register!Next]_(Register!vars)
  OBVIOUS
<1> USE FileAssumption DEF EpochFileOk, TypeOK
<1>1. CASE Get
  <2>1. Register!Read
    BY <1>1, ReadIsTyped DEF Get, Register!Read, ReadFile
  <2>2. QED BY <2>1 DEF Register!Next
<1>2. ASSUME NEW v \in Value, SetSame(v) PROVE Register!Next
  <2>1. Register!Read
    BY <1>2 DEF SetSame, Register!Read, ReadFile
  <2>2. QED BY <2>1 DEF Register!Next
<1>3. ASSUME NEW v \in Value, Truncate(v) PROVE Register!Next
  <2>1. Register!BeginWrite
    BY <1>3 DEF Truncate, Register!BeginWrite, ReadFile
  <2>2. QED BY <2>1 DEF Register!Next
<1>4. CASE WriteLine
  <2>1. writing \in Register!Value
    BY <1>4 DEF WriteLine, Value, DefaultVal, Register!Value
  <2>2. Register!EndWrite(writing)
    BY <1>4 DEF WriteLine, Register!EndWrite, ReadFile
  <2>3. QED BY <2>1, <2>2 DEF Register!Next
<1>5. CASE Restart
  <2>1. Register!Restart
    BY <1>5 DEF Restart, Construct, Register!Restart, ReadFile
  <2>2. QED BY <2>1 DEF Register!Next
<1>6. CASE UNCHANGED vars
  BY <1>6 DEF vars, Register!vars, ReadFile
<1>7. QED BY <1>1, <1>2, <1>3, <1>4, <1>5, <1>6 DEF Use

\* The other file's steps leave this one alone.
LEMMA StepOfFiles == [LNext]_<<vars, committed>> => [Use \/ Restart]_vars
BY DEF LNext

\* PersistentLongFile.h, get() and set(): what a process reads is what it set,
\* and the next process reads the same or an error, whatever crash or full
\* disk came in between.
THEOREM EpochFileIsRegister == LSpec => ImplementsRegister
<1>1. LInit => EpochFileOk /\ Register!Init
  BY InitEpochFile, InitRegister DEF LInit
<1>2. EpochFileOk /\ [LNext]_<<vars, committed>> => EpochFileOk'
  BY StepEpochFile, StepOfFiles
<1>3. EpochFileOk /\ [LNext]_<<vars, committed>> => [Register!Next]_(Register!vars)
  BY StepRegister, StepOfFiles
<1>4. QED BY <1>1, <1>2, <1>3, PTL DEF LSpec, ImplementsRegister, Register!Spec
-----------------------------------------------------------------------------
(* committed-txid *)

\* What is in the file never makes a line, so that an object that opens it
\* starts from the default, as lastSet does.
CommittedFileOk ==
  /\ CommittedTxnId!TypeOK /\ CommittedTxnId!ReadsLastSet
  /\ committedFile # Absent => ~committedFile.newline
  /\ ~opened => lastSet = CommittedTxnId!DefaultVal

LEMMA NoLineIsRead ==
  ASSUME CommittedFileOk
  PROVE  CommittedTxnId!LineRead = CommittedTxnId!DefaultVal
BY DEF CommittedFileOk, CommittedTxnId!LineRead

LEMMA InitCommittedFile == CommittedTxnId!Init => CommittedFileOk
BY DEF CommittedTxnId!Init, CommittedFileOk, CommittedTxnId!TypeOK,
       CommittedTxnId!ReadsLastSet

\* The file after set(): it holds the digits, and no line.
LEMMA DigitsMakeNoLine ==
  ASSUME NEW v \in CommittedTxnId!Value \cup {CommittedTxnId!DefaultVal},
         committedFile' = [digits |-> v, newline |-> FALSE]
  PROVE  /\ committedFile' \in CommittedTxnId!Content
         /\ committedFile'.digits = v /\ ~committedFile'.newline
BY DEF CommittedTxnId!Content

LEMMA StepCommittedFile ==
  CommittedFileOk /\ [CommittedTxnId!Next]_committed => CommittedFileOk'
<1> SUFFICES ASSUME CommittedFileOk, [CommittedTxnId!Next]_committed
             PROVE  CommittedFileOk'
  OBVIOUS
<1>1. CASE CommittedTxnId!Get
  <2>1. CASE opened
    BY <1>1, <2>1 DEF CommittedTxnId!Get, CommittedTxnId!Opened, CommittedFileOk,
                      CommittedTxnId!TypeOK, CommittedTxnId!ReadsLastSet
  <2>2. CASE ~opened
    <3>1. /\ committedValue' = CommittedTxnId!DefaultVal
          /\ committedFile' = CommittedTxnId!NoLine
          /\ opened' = TRUE /\ lastSet' = lastSet
      BY <1>1, <2>2, NoLineIsRead DEF CommittedTxnId!Get, CommittedTxnId!Opened
    <3>2. /\ committedFile' \in CommittedTxnId!Content
          /\ ~committedFile'.newline
      BY <3>1, DigitsMakeNoLine DEF CommittedTxnId!NoLine
    <3>3. lastSet = CommittedTxnId!DefaultVal
      BY <2>2 DEF CommittedFileOk
    <3>4. QED BY <3>1, <3>2, <3>3 DEF CommittedFileOk, CommittedTxnId!TypeOK,
                                      CommittedTxnId!ReadsLastSet
  <2>3. QED BY <2>1, <2>2
<1>2. ASSUME NEW v \in CommittedTxnId!Value, CommittedTxnId!Set(v)
      PROVE  CommittedFileOk'
  <2>1. /\ committedFile' \in CommittedTxnId!Content
        /\ committedFile'.digits = v /\ ~committedFile'.newline
    BY <1>2, DigitsMakeNoLine DEF CommittedTxnId!Set
  <2>2. QED BY <1>2, <2>1 DEF CommittedTxnId!Set, CommittedFileOk,
                              CommittedTxnId!TypeOK, CommittedTxnId!ReadsLastSet
<1>3. CASE CommittedTxnId!Restart
  BY <1>3 DEF CommittedTxnId!Restart, CommittedFileOk, CommittedTxnId!TypeOK,
              CommittedTxnId!ReadsLastSet
<1>4. CASE UNCHANGED committed
  BY <1>4 DEF committed, CommittedFileOk, CommittedTxnId!TypeOK,
              CommittedTxnId!ReadsLastSet
<1>5. QED BY <1>1, <1>2, <1>3, <1>4 DEF CommittedTxnId!Next, CommittedTxnId!Use

\* The steps of the files, seen from committed-txid.
LEMMA StepOfCommitted ==
  [LNext]_<<vars, committed>> => [CommittedTxnId!Next]_committed
BY DEF LNext, CommittedTxnId!Next

\* Both files' states keep their types, whatever crash or full disk comes
\* between their steps.
THEOREM FilesTyped == LSpec => []FilesTypeOK
<1>1. LInit => EpochFileOk /\ CommittedFileOk
  BY InitEpochFile, InitCommittedFile DEF LInit
<1>2. EpochFileOk /\ [LNext]_<<vars, committed>> => EpochFileOk'
  BY StepEpochFile, StepOfFiles
<1>3. CommittedFileOk /\ [LNext]_<<vars, committed>> => CommittedFileOk'
  BY StepCommittedFile, StepOfCommitted
<1>4. EpochFileOk /\ CommittedFileOk => FilesTypeOK
  BY DEF EpochFileOk, CommittedFileOk, FilesTypeOK
<1>5. QED BY <1>1, <1>2, <1>3, <1>4, PTL DEF LSpec

\* BestEffortLongFile.h, lazyOpen(), get() and set(): within a process
\* committed-txid reads as last set, and the file holds it; what an earlier
\* process wrote is not read.
THEOREM CommittedIsRead == LSpec => []CommittedReadsLastSet
<1>1. LInit => CommittedFileOk
  BY InitCommittedFile DEF LInit
<1>2. CommittedFileOk /\ [LNext]_<<vars, committed>> => CommittedFileOk'
  BY StepCommittedFile, StepOfCommitted
<1>3. CommittedFileOk => CommittedReadsLastSet
  BY DEF CommittedFileOk, CommittedReadsLastSet
<1>4. QED BY <1>1, <1>2, <1>3, PTL DEF LSpec
=============================================================================
