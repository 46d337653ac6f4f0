--------------------------- MODULE JournalProofs ----------------------------
(***************************************************************************)
(* What holds of module Journal for every value of its constants.  A step  *)
(* is a step of one node; NodeInv is what it preserves there, SameAt what  *)
(* it leaves alone elsewhere.                                              *)
(***************************************************************************)
EXTENDS JournalManifest, TLAPS, SequenceTheorems, FiniteSetTheorems,
        WellFoundedInduction

LogFile == Body \cup {NoFile, Blank}

\* The conjuncts of the safety invariants of module Journal, for one node.
\* That a process that is not up has no segment open is what the constructor
\* needs: it sets no cursor.
CursorOk(n) ==
  /\ ~Up(n) => ~segmentOpen[n]
  /\ ~segmentOpen[n] => curSegmentTxId[n] = InvalidTxid
  /\ curSegmentTxId[n] # InvalidTxid =>
       /\ WrittenSegmentOnDisk(n, curSegmentTxId[n])
       /\ paxos[n][curSegmentTxId[n]] = NoFile

EpochsOk(n) == promised[n] # Torn => NoEpochAbove(n, promised[n])

NamesOk(n) ==
  \A s \in Txid : finalized[n][s] # NoFile => EndsAsNamed(s, finalized[n][s])

NodeInv(n) == CursorOk(n) /\ EpochsOk(n) /\ NamesOk(n)

IInv == TypeOK /\ \A n \in Node : NodeInv(n)

DiskSameAt(m) ==
  /\ promised'[m] = promised[m]
  /\ writer'[m] = writer[m]
  /\ inProgress'[m] = inProgress[m]
  /\ finalized'[m] = finalized[m]
  /\ paxos'[m] = paxos[m]

MemorySameAt(m) ==
  /\ status'[m] = status[m]
  /\ segmentOpen'[m] = segmentOpen[m]
  /\ curSegmentTxId'[m] = curSegmentTxId[m]
  /\ nextTxId'[m] = nextTxId[m]

Preserves(n) ==
  /\ TypeOK'
  /\ NodeInv(n)'
  /\ \A m \in Node \ {n} : DiskSameAt(m) /\ MemorySameAt(m)

\* A node whose own state did not change keeps its invariant.
LEMMA Frame ==
  ASSUME NEW m \in Node, NodeInv(m), DiskSameAt(m), MemorySameAt(m)
  PROVE  NodeInv(m)'
BY DEF NodeInv, CursorOk, EpochsOk, NamesOk, DiskSameAt, MemorySameAt, Up,
       WrittenSegmentOnDisk, NoEpochAbove, EndsAsNamed, IsLog, End

\* So it is enough to look at the node that took the step.
LEMMA StepPreserves ==
  ASSUME IInv, NEW n \in Node, Preserves(n)
  PROVE  IInv'
BY Frame DEF IInv, Preserves

\* The value that stands for no txid is not a txid.
LEMMA InvalidTxidIsNoTxid ==
  /\ InvalidTxid \notin Txid
  /\ InvalidTxid \notin 0..MaxTxid + 1
BY BoundsAssumption DEF InvalidTxid, Txid

-----------------------------------------------------------------------------
(* Parts that several steps share *)

\* A process that ends leaves a clean memory; of the other nodes it touches
\* nothing.
LEMMA DieResult ==
  ASSUME MemoryTypeOK, NEW n \in Node, NEW why \in Status, Die(n, why)
  PROVE  /\ MemoryTypeOK'
         /\ ~segmentOpen'[n] /\ curSegmentTxId'[n] = InvalidTxid
         /\ \A m \in Node \ {n} : MemorySameAt(m)
BY BoundsAssumption DEF MemoryTypeOK, Die, Return, Serial, MemorySameAt

\* A step after which no segment is current needs only its disk checked.
LEMMA IdlePreserves ==
  ASSUME NEW n \in Node,
         DiskTypeOK', MemoryTypeOK',
         ~segmentOpen'[n], curSegmentTxId'[n] = InvalidTxid,
         EpochsOk(n)', NamesOk(n)',
         \A m \in Node \ {n} : DiskSameAt(m),
         \A m \in Node \ {n} : MemorySameAt(m)
  PROVE  Preserves(n)
BY DEF Preserves, TypeOK, NodeInv, CursorOk

\* abortCurSegment leaves no segment current.
LEMMA AbortSegmentResult ==
  ASSUME MemoryTypeOK, NEW n \in Node, CursorOk(n), AbortSegment(n)
  PROVE  /\ segmentOpen' \in [Node -> BOOLEAN]
         /\ curSegmentTxId' \in [Node -> Txid \cup {InvalidTxid}]
         /\ ~segmentOpen'[n] /\ curSegmentTxId'[n] = InvalidTxid
         /\ \A m \in Node \ {n} :
              /\ segmentOpen'[m] = segmentOpen[m]
              /\ curSegmentTxId'[m] = curSegmentTxId[m]
BY DEF MemoryTypeOK, CursorOk, AbortSegment

\* A request has an epoch above 0, a serial and perhaps a committed txid.
LEMMA RequestType ==
  ASSUME NEW req \in Request
  PROVE  /\ req.epoch \in Epoch /\ req.epoch \in Int /\ req.epoch > 0
         /\ req.epoch # Torn
         /\ req.serial \in Serial
         /\ req.committed \in Txid \cup {InvalidTxid}
<1>1. req.epoch \in Epoch /\ req.serial \in Serial /\ req.committed \in Committed
  BY DEF Request
<1> QED
  BY <1>1, BoundsAssumption DEF Epoch, Torn

\* The epochs on disk are integers, whole or torn.
LEMMA EpochsAreIntegers ==
  ASSUME DiskTypeOK, NEW n \in Node
  PROVE  promised[n] \in Int /\ writer[n] \in Int
<1>1. promised[n] \in Epoch \cup {0, Torn} /\ writer[n] \in Epoch \cup {0, Torn}
  BY DEF DiskTypeOK
<1>2. \A x \in Epoch \cup {0, Torn} : x \in Int
  BY BoundsAssumption DEF Epoch, Torn
<1> QED
  BY <1>1, <1>2

\* checkRequest lets pass only what the promise, whole on disk, allows.
LEMMA PassesResult ==
  ASSUME DiskTypeOK, NEW n \in Node, NEW req \in Request, Passes(n, req)
  PROVE  Up(n) /\ promised[n] # Torn /\ promised[n] <= req.epoch
<1>1. Up(n) /\ promised[n] # Torn /\ ~(req.epoch < promised[n])
  BY DEF Passes, Formatted, Fenced
<1>2. promised[n] \in Int
  BY EpochsAreIntegers
<1>3. req.epoch \in Int
  BY RequestType
<1> QED
  BY <1>1, <1>2, <1>3

\* The promise of a request is written for its node only.
LEMMA PromiseResult ==
  ASSUME DiskTypeOK, NEW n \in Node, NEW e \in Epoch \cup {Torn}, Promise(n, e)
  PROVE  /\ promised' \in [Node -> Epoch \cup {0, Torn}]
         /\ promised'[n] = e
         /\ \A m \in Node \ {n} : promised'[m] = promised[m]
BY DEF DiskTypeOK, Promise

\* What checkRequest remembers has its type.
LEMMA RememberResult ==
  ASSUME MemoryTypeOK, NEW n \in Node, NEW req \in Request, Remember(n, req)
  PROVE  /\ ipcSerial' \in [Node -> Serial \cup {-1}]
         /\ committed' \in [Node -> Txid \cup {InvalidTxid}]
BY RequestType DEF MemoryTypeOK, Remember

\* Moving files aside disturbs nothing but the in-progress files of the node.
LEMMA MoveAsideResult ==
  ASSUME DiskTypeOK, NEW n \in Node, NEW aside, MoveAside(n, aside)
  PROVE  /\ inProgress' \in [Node -> [Txid -> LogFile]]
         /\ \A m \in Node \ {n} : inProgress'[m] = inProgress[m]
BY DEF DiskTypeOK, MoveAside, LogFile

\* A step that raises the promise to e, and writes no writer epoch and no
\* decision of another epoch, leaves no epoch above the promise.
LEMMA EpochsStay ==
  ASSUME DiskTypeOK, NEW n \in Node, EpochsOk(n), NEW e \in Epoch,
         promised[n] # Torn, promised[n] <= e, promised'[n] = e,
         writer'[n] \in {writer[n], e, Torn},
         \A s \in Txid : \/ paxos'[n][s] = paxos[n][s]
                         \/ paxos'[n][s] = NoFile
                         \/ paxos'[n][s].epoch = e
  PROVE  EpochsOk(n)'
<1>1. /\ promised[n] \in Int /\ writer[n] \in Int /\ e \in Int /\ e > 0
      /\ Torn \in Int /\ Torn < e
  BY BoundsAssumption DEF DiskTypeOK, Epoch, Torn
<1>2. writer'[n] <= e
  BY <1>1 DEF EpochsOk, NoEpochAbove
<1>3. ASSUME NEW s \in Txid, paxos'[n][s] # NoFile
      PROVE  paxos'[n][s].epoch <= e
  <2>1. paxos[n][s] # NoFile => paxos[n][s].epoch \in Int
    BY BoundsAssumption DEF DiskTypeOK, Decision, Epoch
  <2> QED
    BY <1>1, <1>3, <2>1 DEF EpochsOk, NoEpochAbove
<1> QED
  BY <1>2, <1>3 DEF EpochsOk, NoEpochAbove

\* The same when nothing of the epochs changes.
LEMMA EpochsUnchanged ==
  ASSUME NEW n \in Node, EpochsOk(n), promised'[n] = promised[n],
         writer'[n] = writer[n], paxos'[n] = paxos[n]
  PROVE  EpochsOk(n)'
BY DEF EpochsOk, NoEpochAbove

\* Finalized segments keep their names as long as nothing is finalized.
LEMMA NamesUnchanged ==
  ASSUME NEW n \in Node, NamesOk(n), finalized'[n] = finalized[n]
  PROVE  NamesOk(n)'
BY DEF NamesOk, EndsAsNamed, IsLog, End

\* The process ends after it raised the promise, or tore it.
LEMMA PromiseThenDie ==
  ASSUME IInv, NEW n \in Node, NEW e \in Epoch \cup {Torn}, NEW why \in Status,
         promised[n] # Torn, e # Torn => promised[n] <= e,
         Promise(n, e), Die(n, why),
         UNCHANGED <<namespace, paxosDir, writer, logs>>
  PROVE  Preserves(n)
<1> USE DEF IInv, TypeOK
<1>1. DiskTypeOK'
  BY PromiseResult DEF DiskTypeOK, logs
<1>2. \A m \in Node \ {n} : DiskSameAt(m)
  BY PromiseResult DEF DiskSameAt, logs
<1>3. EpochsOk(n)'
  <2>1. CASE e = Torn
    BY <2>1, PromiseResult DEF EpochsOk
  <2>2. CASE e # Torn
    <3>1. e \in Epoch /\ promised'[n] = e /\ EpochsOk(n)
      BY <2>2, PromiseResult DEF NodeInv
    <3>2. writer' = writer /\ paxos' = paxos
      BY DEF logs
    <3> QED
      BY <2>2, <3>1, <3>2, EpochsStay
  <2> QED BY <2>1, <2>2
<1>4. NamesOk(n)'
  BY NamesUnchanged DEF NodeInv, logs
<1> QED
  BY <1>1, <1>2, <1>3, <1>4, DieResult, IdlePreserves

\* A call that changes nothing but its result.
LEMMA ReturnPreserves ==
  ASSUME IInv, NEW n \in Node, Return(n, -1), UNCHANGED <<disk, memory, status>>
  PROVE  Preserves(n)
<1> USE DEF disk, memory, cursor, logs
<1>1. TypeOK'
  BY DEF IInv, TypeOK, DiskTypeOK, MemoryTypeOK, Return
<1>2. \A m \in Node : DiskSameAt(m) /\ MemorySameAt(m)
  BY DEF DiskSameAt, MemorySameAt
<1>3. NodeInv(n)'
  BY <1>2, Frame DEF IInv
<1> QED
  BY <1>1, <1>2, <1>3 DEF Preserves

-----------------------------------------------------------------------------
(* One lemma per action: what the process and format do *)

\* A crash touches no file.
LEMMA CrashPreserves ==
  ASSUME IInv, NEW n \in Node, Crash(n)
  PROVE  Preserves(n)
<1> USE DEF IInv, TypeOK, disk, logs
<1>1. Die(n, "down") /\ UNCHANGED disk
  BY DEF Crash
<1>2. "down" \in Status
  BY DEF Status
<1>3. DiskTypeOK'
  BY <1>1 DEF DiskTypeOK
<1>4. \A m \in Node \ {n} : DiskSameAt(m)
  BY <1>1 DEF DiskSameAt
<1>5. EpochsOk(n)' /\ NamesOk(n)'
  BY <1>1, EpochsUnchanged, NamesUnchanged DEF NodeInv
<1> QED
  BY <1>1, <1>2, <1>3, <1>4, <1>5, DieResult, IdlePreserves

\* The constructor moves empty files aside and leaves no segment current.
LEMMA LoadPreserves ==
  ASSUME IInv, NEW n \in Node, Load(n)
  PROVE  Preserves(n)
<1> USE DEF IInv, TypeOK
<1>1. PICK scan \in ScanOutcomes(n) :
        /\ MoveAside(n, scan.aside)
        /\ \/ /\ status' = [status EXCEPT ![n] = "up"]
              /\ Return(n, 0)
              /\ \E h \in 0..MaxTxid :
                   highestWrittenTxId' = [highestWrittenTxId EXCEPT ![n] = h]
           \/ /\ status' = [status EXCEPT ![n] = "down"]
              /\ Return(n, -1)
              /\ UNCHANGED highestWrittenTxId
  BY DEF Load
<1>2. /\ ~Up(n)
      /\ UNCHANGED <<namespace, paxosDir, promised, writer, finalized, paxos,
                     tmp, committed, cursor, ipcSerial>>
  BY DEF Load
<1>3. /\ inProgress' \in [Node -> [Txid -> LogFile]]
      /\ \A m \in Node \ {n} : inProgress'[m] = inProgress[m]
  BY <1>1, MoveAsideResult
<1>4. DiskTypeOK'
  BY <1>2, <1>3 DEF DiskTypeOK, LogFile
<1>5. MemoryTypeOK'
  BY <1>1, <1>2 DEF MemoryTypeOK, Return, Status, cursor
<1>6. ~segmentOpen'[n] /\ curSegmentTxId'[n] = InvalidTxid
  BY <1>2 DEF NodeInv, CursorOk, cursor
<1>7. EpochsOk(n)' /\ NamesOk(n)'
  BY <1>2, EpochsUnchanged, NamesUnchanged DEF NodeInv
<1>8. \A m \in Node \ {n} : DiskSameAt(m)
  BY <1>2, <1>3 DEF DiskSameAt
<1>9. \A m \in Node \ {n} : MemorySameAt(m)
  BY <1>1, <1>2 DEF MemorySameAt, cursor, MemoryTypeOK
<1> QED
  BY <1>4, <1>5, <1>6, <1>7, <1>8, <1>9, IdlePreserves

\* What the emptied directory looks like.
LEMMA WipeResult ==
  ASSUME DiskTypeOK, NEW n \in Node, Wipe(n)
  PROVE  /\ promised' \in [Node -> Epoch \cup {0, Torn}]
         /\ writer' \in [Node -> Epoch \cup {0, Torn}]
         /\ inProgress' \in [Node -> [Txid -> LogFile]]
         /\ finalized' \in [Node -> [Txid -> FinalLog \cup {NoFile}]]
         /\ paxos' \in [Node -> [Txid -> Decision \cup {NoFile}]]
         /\ tmp' \in [Node -> [Txid -> [Epoch -> LogFile]]]
         /\ EpochsOk(n)' /\ NamesOk(n)'
         /\ writer'[n] = 0
         /\ \A s \in Txid : /\ inProgress'[n][s] = NoFile
                            /\ finalized'[n][s] = NoFile
                            /\ paxos'[n][s] = NoFile
         /\ \A m \in Node \ {n} : DiskSameAt(m)
<1> USE DEF DiskTypeOK, Wipe, NoLogs, LogFile
<1>1. /\ promised' \in [Node -> Epoch \cup {0, Torn}]
      /\ writer' \in [Node -> Epoch \cup {0, Torn}]
      /\ promised'[n] = 0 /\ writer'[n] = 0
  OBVIOUS
<1>2. /\ inProgress' \in [Node -> [Txid -> LogFile]]
      /\ finalized' \in [Node -> [Txid -> FinalLog \cup {NoFile}]]
      /\ paxos' \in [Node -> [Txid -> Decision \cup {NoFile}]]
  OBVIOUS
<1>3. tmp' \in [Node -> [Txid -> [Epoch -> LogFile]]]
  OBVIOUS
<1>4. \A s \in Txid : /\ inProgress'[n][s] = NoFile
                      /\ finalized'[n][s] = NoFile
                      /\ paxos'[n][s] = NoFile
  OBVIOUS
<1>5. EpochsOk(n)'
  BY <1>1, <1>4 DEF EpochsOk, NoEpochAbove
<1>6. NamesOk(n)'
  BY <1>4 DEF NamesOk
<1>7. \A m \in Node \ {n} : DiskSameAt(m)
  BY DEF DiskSameAt
<1> QED
  BY <1>1, <1>2, <1>3, <1>4, <1>5, <1>6, <1>7

\* A format may leave a segment current, but on a wiped directory.
LEMMA FormatPreserves ==
  ASSUME IInv, NEW n \in Node, NEW ns \in Namespace, Format(n, ns)
  PROVE  Preserves(n)
<1> USE DEF IInv, TypeOK
<1>1. DiskTypeOK'
  BY WipeResult DEF Format, DiskTypeOK, LogFile
<1>2. MemoryTypeOK'
  BY DEF Format, MemoryTypeOK, Return, cursor
<1>3. CursorOk(n)'
  <2>1. /\ ~Up(n)' => ~segmentOpen'[n]
        /\ ~segmentOpen'[n] => curSegmentTxId'[n] = InvalidTxid
    BY DEF Format, cursor, NodeInv, CursorOk, Up
  <2>2. ASSUME curSegmentTxId'[n] # InvalidTxid
        PROVE  /\ WrittenSegmentOnDisk(n, curSegmentTxId[n])'
               /\ paxos'[n][curSegmentTxId'[n]] = NoFile
    <3>1. curSegmentTxId'[n] \in Txid
      BY <1>2, <2>2 DEF MemoryTypeOK
    <3> QED
      BY <3>1, WipeResult DEF Format, WrittenSegmentOnDisk
  <2> QED BY <2>1, <2>2 DEF CursorOk
<1>4. EpochsOk(n)' /\ NamesOk(n)'
  BY WipeResult DEF Format
<1>5. \A m \in Node \ {n} : DiskSameAt(m) /\ MemorySameAt(m)
  BY WipeResult DEF Format, MemorySameAt, cursor
<1> QED
  BY <1>1, <1>2, <1>3, <1>4, <1>5 DEF Preserves, NodeInv

\* So does a format that the end of the process interrupts.
LEMMA CrashInFormatPreserves ==
  ASSUME IInv, NEW n \in Node, NEW ns \in Namespace, CrashInFormat(n, ns)
  PROVE  Preserves(n)
<1> USE DEF IInv, TypeOK
<1>1. DiskTypeOK'
  BY WipeResult DEF CrashInFormat, DiskTypeOK, LogFile
<1>2. Die(n, "down") /\ "down" \in Status
  BY DEF CrashInFormat, Status
<1>3. EpochsOk(n)' /\ NamesOk(n)' /\ \A m \in Node \ {n} : DiskSameAt(m)
  BY WipeResult DEF CrashInFormat
<1> QED
  BY <1>1, <1>2, <1>3, DieResult, IdlePreserves

-----------------------------------------------------------------------------
(* Refusals and newEpoch *)

\* A request only raised the promise; the segment being written, if any,
\* stays the current one.
LEMMA PromiseOnlyPreserves ==
  ASSUME IInv, NEW n \in Node, NEW e \in Epoch,
         promised[n] # Torn, promised[n] <= e, Promise(n, e),
         UNCHANGED <<namespace, paxosDir, writer, logs, cursor, status>>,
         MemoryTypeOK'
  PROVE  Preserves(n)
<1> USE DEF IInv, TypeOK
<1>1. DiskTypeOK'
  BY PromiseResult DEF DiskTypeOK, logs
<1>2. CursorOk(n)'
  BY DEF NodeInv, CursorOk, WrittenSegmentOnDisk, IsLog, Up, logs, cursor
<1>3. EpochsOk(n)'
  BY PromiseResult, EpochsStay DEF NodeInv, logs
<1>4. NamesOk(n)'
  BY NamesUnchanged DEF NodeInv, logs
<1>5. \A m \in Node \ {n} : DiskSameAt(m) /\ MemorySameAt(m)
  BY PromiseResult DEF DiskSameAt, MemorySameAt, logs, cursor
<1> QED
  BY <1>1, <1>2, <1>3, <1>4, <1>5 DEF Preserves, NodeInv

\* The serial a request is compared with is a serial.
LEMMA RefuseOutOfOrderPreserves ==
  ASSUME IInv, NEW n \in Node, NEW req \in Request, RefuseOutOfOrder(n, req)
  PROVE  Preserves(n)
<1>1. promised[n] # Torn /\ promised[n] <= req.epoch
  <2>1. promised[n] # Torn /\ ~(req.epoch < promised[n])
    BY DEF RefuseOutOfOrder, Fenced
  <2>2. promised[n] \in Int /\ req.epoch \in Int
    BY EpochsAreIntegers, RequestType DEF IInv, TypeOK
  <2> QED BY <2>1, <2>2
<1>2. SerialFloor(n, req.epoch) \in Serial \cup {-1}
  BY BoundsAssumption DEF SerialFloor, IInv, TypeOK, MemoryTypeOK, Serial
<1>3. MemoryTypeOK'
  BY <1>2 DEF RefuseOutOfOrder, IInv, TypeOK, MemoryTypeOK, Return, cursor
<1> QED
  BY <1>1, <1>3, PromiseOnlyPreserves, RequestType DEF RefuseOutOfOrder

\* The process ends on a committed txid that moves back.
LEMMA AbortCommittedBackwardPreserves ==
  ASSUME IInv, NEW n \in Node, NEW req \in Request, AbortCommittedBackward(n, req)
  PROVE  Preserves(n)
<1>1. promised[n] # Torn /\ promised[n] <= req.epoch
  <2>1. promised[n] # Torn /\ ~(req.epoch < promised[n])
    BY DEF AbortCommittedBackward, Fenced
  <2>2. promised[n] \in Int /\ req.epoch \in Int
    BY EpochsAreIntegers, RequestType DEF IInv, TypeOK
  <2> QED BY <2>1, <2>2
<1>2. "committedBackward" \in Status
  BY DEF Status
<1> QED
  BY <1>1, <1>2, PromiseThenDie, RequestType DEF AbortCommittedBackward

\* A process that ends while it writes the promise leaves the new one or none.
LEMMA CrashInPromisePreserves ==
  ASSUME IInv, NEW n \in Node, NEW e \in Epoch, CrashInPromise(n, e)
  PROVE  Preserves(n)
<1>1. promised[n] # Torn /\ promised[n] <= e
  <2>1. promised[n] \in Int /\ e \in Int
    BY EpochsAreIntegers DEF IInv, TypeOK, Epoch
  <2> QED BY <2>1 DEF CrashInPromise
<1>2. "down" \in Status
  BY DEF Status
<1>3. PICK value \in {Torn, e} : Promise(n, value)
  BY DEF CrashInPromise
<1>4. Die(n, "down") /\ UNCHANGED <<namespace, paxosDir, writer, logs>>
  BY DEF CrashInPromise
<1> QED
  BY <1>1, <1>2, <1>3, <1>4, PromiseThenDie

\* newEpoch ends the segment being written before it scans.
LEMMA NewEpochPreserves ==
  ASSUME IInv, NEW n \in Node, NEW ns \in Namespace, NEW e \in Epoch,
         NewEpoch(n, ns, e)
  PROVE  Preserves(n)
<1> USE DEF IInv, TypeOK
<1>1. PICK scan \in ScanOutcomes(n) :
        MoveAside(n, scan.aside) /\ Return(n, IF scan.ok THEN 0 ELSE -1)
  BY DEF NewEpoch
<1>2. /\ promised[n] # Torn /\ e > promised[n]
      /\ Promise(n, e) /\ AbortSegment(n)
      /\ ipcSerial' = [ipcSerial EXCEPT ![n] = 0]
      /\ UNCHANGED <<namespace, paxosDir, writer, finalized, paxos, tmp,
                     committed, nextTxId, highestWrittenTxId, status>>
  BY DEF NewEpoch
<1>3. /\ inProgress' \in [Node -> [Txid -> LogFile]]
      /\ \A m \in Node \ {n} : inProgress'[m] = inProgress[m]
  BY <1>1, MoveAsideResult
<1>4. /\ promised' \in [Node -> Epoch \cup {0, Torn}]
      /\ promised'[n] = e
      /\ \A m \in Node \ {n} : promised'[m] = promised[m]
  BY <1>2, PromiseResult
<1>5. CursorOk(n)
  BY DEF NodeInv
<1>6. /\ segmentOpen' \in [Node -> BOOLEAN]
      /\ curSegmentTxId' \in [Node -> Txid \cup {InvalidTxid}]
      /\ ~segmentOpen'[n] /\ curSegmentTxId'[n] = InvalidTxid
      /\ \A m \in Node \ {n} : /\ segmentOpen'[m] = segmentOpen[m]
                               /\ curSegmentTxId'[m] = curSegmentTxId[m]
  BY <1>2, <1>5, AbortSegmentResult
<1>7. DiskTypeOK'
  BY <1>2, <1>3, <1>4 DEF DiskTypeOK, LogFile
<1>8. MemoryTypeOK'
  <2>1. 0 \in Serial
    BY BoundsAssumption DEF Serial
  <2>2. rc' \in [Node -> {0, -1}]
    BY <1>1 DEF Return, MemoryTypeOK
  <2>3. ipcSerial' \in [Node -> Serial \cup {-1}]
    BY <1>2, <2>1 DEF MemoryTypeOK
  <2> QED
    BY <1>2, <1>6, <2>2, <2>3 DEF MemoryTypeOK
<1>9. promised[n] <= e
  <2>1. promised[n] \in Int /\ e \in Int
    BY EpochsAreIntegers DEF Epoch
  <2> QED BY <1>2, <2>1
<1>10. EpochsOk(n)'
  BY <1>2, <1>4, <1>9, EpochsStay DEF NodeInv
<1>11. NamesOk(n)'
  BY <1>2, NamesUnchanged DEF NodeInv
<1>12. \A m \in Node \ {n} : DiskSameAt(m)
  BY <1>2, <1>3, <1>4 DEF DiskSameAt
<1>13. \A m \in Node \ {n} : MemorySameAt(m)
  BY <1>2, <1>6 DEF MemorySameAt
<1> QED
  BY <1>6, <1>7, <1>8, <1>10, <1>11, <1>12, <1>13, IdlePreserves

-----------------------------------------------------------------------------
(* startLogSegment *)

\* What a step may use once its request passed and raised the promise.
LEMMA PassingResult ==
  ASSUME IInv, NEW n \in Node, NEW req \in Request,
         Passes(n, req), Promise(n, req.epoch)
  PROVE  /\ Up(n) /\ promised[n] # Torn /\ promised[n] <= req.epoch
         /\ req.epoch \in Epoch
         /\ promised' \in [Node -> Epoch \cup {0, Torn}]
         /\ promised'[n] = req.epoch
         /\ \A m \in Node \ {n} : promised'[m] = promised[m]
BY PassesResult, PromiseResult, RequestType DEF IInv, TypeOK

\* Ending the current segment, with nothing but the promise written.
LEMMA AbortOnlyPreserves ==
  ASSUME IInv, NEW n \in Node, NEW req \in Request,
         Passes(n, req), Promise(n, req.epoch), Remember(n, req),
         AbortSegment(n), Return(n, -1),
         UNCHANGED <<namespace, paxosDir, writer, logs, nextTxId,
                     highestWrittenTxId, status>>
  PROVE  Preserves(n)
<1> USE DEF IInv, TypeOK
<1>1. CursorOk(n)
  BY DEF NodeInv
<1>2. DiskTypeOK'
  BY PassingResult DEF DiskTypeOK, logs
<1>3. MemoryTypeOK'
  BY <1>1, AbortSegmentResult, RememberResult DEF MemoryTypeOK, Return
<1>4. EpochsOk(n)'
  BY PassingResult, EpochsStay DEF NodeInv, logs
<1>5. NamesOk(n)'
  BY NamesUnchanged DEF NodeInv, logs
<1>6. \A m \in Node \ {n} : DiskSameAt(m)
  BY PassingResult DEF DiskSameAt, logs
<1>7. \A m \in Node \ {n} : MemorySameAt(m)
  BY <1>1, AbortSegmentResult DEF MemorySameAt
<1> QED
  BY <1>1, <1>2, <1>3, <1>4, <1>5, <1>6, <1>7, AbortSegmentResult, IdlePreserves

\* A refused segment leaves none current.
LEMMA RefuseStartLogSegmentPreserves ==
  ASSUME IInv, NEW n \in Node, NEW req \in Request, NEW s \in Txid,
         RefuseStartLogSegment(n, req, s)
  PROVE  Preserves(n)
BY AbortOnlyPreserves DEF RefuseStartLogSegment

\* The process ends on a segment it will not overwrite.
LEMMA AbortStartLogSegmentPreserves ==
  ASSUME IInv, NEW n \in Node, NEW req \in Request, NEW s \in Txid,
         AbortStartLogSegment(n, req, s)
  PROVE  Preserves(n)
<1>1. PICK why \in Status : Die(n, why)
  BY DEF AbortStartLogSegment, Status
<1>2. promised[n] # Torn /\ promised[n] <= req.epoch /\ req.epoch \in Epoch
  BY PassingResult DEF AbortStartLogSegment
<1> QED
  BY <1>1, <1>2, PromiseThenDie DEF AbortStartLogSegment

\* The new segment is on disk, empty, without a decision, and nextTxId is its
\* first txid.
LEMMA StartLogSegmentPreserves ==
  ASSUME IInv, NEW n \in Node, NEW req \in Request, NEW s \in Txid,
         StartLogSegment(n, req, s)
  PROVE  Preserves(n)
<1> USE DEF IInv, TypeOK
<1>1. /\ Passes(n, req) /\ MayStart(n, s)
      /\ Promise(n, req.epoch) /\ Remember(n, req)
      /\ writer' = [writer EXCEPT ![n] = req.epoch]
      /\ paxos' = [paxos EXCEPT ![n][s] = NoFile]
      /\ inProgress' = [inProgress EXCEPT ![n][s] = <<>>]
      /\ segmentOpen' = [segmentOpen EXCEPT ![n] = TRUE]
      /\ curSegmentTxId' = [curSegmentTxId EXCEPT ![n] = s]
      /\ nextTxId' = [nextTxId EXCEPT ![n] = s]
      /\ Return(n, 0)
      /\ UNCHANGED <<namespace, paxosDir, finalized, tmp, highestWrittenTxId,
                     status>>
  BY DEF StartLogSegment, OpenSegment
<1>2. /\ Up(n) /\ promised[n] # Torn /\ promised[n] <= req.epoch
      /\ req.epoch \in Epoch
      /\ promised' \in [Node -> Epoch \cup {0, Torn}]
      /\ promised'[n] = req.epoch
      /\ \A m \in Node \ {n} : promised'[m] = promised[m]
  BY <1>1, PassingResult
<1>3. <<>> \in Body
  BY DEF Body
<1>4. DiskTypeOK'
  BY <1>1, <1>2, <1>3 DEF DiskTypeOK
<1>5. s \in 1..MaxTxid + 1
  BY BoundsAssumption DEF Txid
<1>6. MemoryTypeOK'
  BY <1>1, <1>5, RememberResult DEF MemoryTypeOK, Return
<1>7. CursorOk(n)'
  <2>1. Up(n)' /\ segmentOpen'[n] /\ curSegmentTxId'[n] = s
    BY <1>1, <1>2 DEF Up, MemoryTypeOK
  <2>2. /\ finalized'[n][s] = NoFile /\ paxos'[n][s] = NoFile
        /\ inProgress'[n][s] = <<>> /\ writer'[n] = req.epoch
        /\ nextTxId'[n] = s
    BY <1>1 DEF MayStart, DiskTypeOK, MemoryTypeOK
  <2>3. IsLog(<<>>)
    BY <1>3, AbsentAssumption DEF IsLog
  <2>4. s = s + Len(<<>>) /\ req.epoch # 0
    BY RequestType DEF Txid
  <2> QED
    BY <2>1, <2>2, <2>3, <2>4 DEF CursorOk, WrittenSegmentOnDisk
<1>8. EpochsOk(n)'
  <2>1. writer'[n] = req.epoch
    BY <1>1 DEF DiskTypeOK
  <2>2. \A t \in Txid : paxos'[n][t] = paxos[n][t] \/ paxos'[n][t] = NoFile
    BY <1>1 DEF DiskTypeOK
  <2> QED
    BY <1>2, <2>1, <2>2, EpochsStay DEF NodeInv
<1>9. NamesOk(n)'
  BY <1>1, NamesUnchanged DEF NodeInv
<1>10. \A m \in Node \ {n} : DiskSameAt(m)
  BY <1>1, <1>2 DEF DiskSameAt, DiskTypeOK
<1>11. \A m \in Node \ {n} : MemorySameAt(m)
  BY <1>1 DEF MemorySameAt, MemoryTypeOK
<1> QED
  BY <1>4, <1>6, <1>7, <1>8, <1>9, <1>10, <1>11 DEF Preserves, NodeInv

\* A header that cannot be written leaves a stream open on no segment.
LEMMA StartLogSegmentNoSpacePreserves ==
  ASSUME IInv, NEW n \in Node, NEW req \in Request, NEW s \in Txid,
         StartLogSegmentNoSpace(n, req, s)
  PROVE  Preserves(n)
<1> USE DEF IInv, TypeOK
<1>1. /\ Passes(n, req)
      /\ Promise(n, req.epoch) /\ Remember(n, req)
      /\ writer' = [writer EXCEPT ![n] = req.epoch]
      /\ paxos' = [paxos EXCEPT ![n][s] = NoFile]
      /\ inProgress' = [inProgress EXCEPT ![n][s] = Blank]
      /\ segmentOpen' = [segmentOpen EXCEPT ![n] = TRUE]
      /\ curSegmentTxId' = [curSegmentTxId EXCEPT ![n] =
                              IF segmentOpen[n] THEN InvalidTxid ELSE @]
      /\ Return(n, -1)
      /\ UNCHANGED <<namespace, paxosDir, finalized, tmp, nextTxId,
                     highestWrittenTxId, status>>
  BY DEF StartLogSegmentNoSpace, OpenSegment
<1>2. /\ Up(n) /\ promised[n] # Torn /\ promised[n] <= req.epoch
      /\ req.epoch \in Epoch
      /\ promised' \in [Node -> Epoch \cup {0, Torn}]
      /\ promised'[n] = req.epoch
      /\ \A m \in Node \ {n} : promised'[m] = promised[m]
  BY <1>1, PassingResult
<1>3. DiskTypeOK'
  BY <1>1, <1>2 DEF DiskTypeOK
<1>4. MemoryTypeOK'
  BY <1>1, RememberResult DEF MemoryTypeOK, Return
<1>5. CursorOk(n)'
  <2>1. Up(n)' /\ segmentOpen'[n]
    BY <1>1, <1>2 DEF Up, MemoryTypeOK
  <2>2. curSegmentTxId'[n] = InvalidTxid
    BY <1>1 DEF NodeInv, CursorOk, MemoryTypeOK
  <2> QED
    BY <2>1, <2>2 DEF CursorOk
<1>6. EpochsOk(n)'
  <2>1. writer'[n] = req.epoch
    BY <1>1 DEF DiskTypeOK
  <2>2. \A t \in Txid : paxos'[n][t] = paxos[n][t] \/ paxos'[n][t] = NoFile
    BY <1>1 DEF DiskTypeOK
  <2> QED
    BY <1>2, <2>1, <2>2, EpochsStay DEF NodeInv
<1>7. NamesOk(n)'
  BY <1>1, NamesUnchanged DEF NodeInv
<1>8. \A m \in Node \ {n} : DiskSameAt(m)
  BY <1>1, <1>2 DEF DiskSameAt, DiskTypeOK
<1>9. \A m \in Node \ {n} : MemorySameAt(m)
  BY <1>1 DEF MemorySameAt, MemoryTypeOK
<1> QED
  BY <1>3, <1>4, <1>5, <1>6, <1>7, <1>8, <1>9 DEF Preserves, NodeInv

\* Whatever the process did before it ended, the writer epoch is the old one,
\* the promised one or torn, and the decision is the old one or gone.
LEMMA CrashInStartLogSegmentPreserves ==
  ASSUME IInv, NEW n \in Node, NEW req \in Request, NEW s \in Txid,
         CrashInStartLogSegment(n, req, s)
  PROVE  Preserves(n)
<1> USE DEF IInv, TypeOK
<1>1. /\ Passes(n, req) /\ Promise(n, req.epoch) /\ Die(n, "down")
      /\ UNCHANGED <<namespace, paxosDir, finalized, tmp>>
      /\ "down" \in Status
  BY DEF CrashInStartLogSegment, Status
<1>2. PICK w \in {Torn, req.epoch} : writer' = [writer EXCEPT ![n] = w]
  BY DEF CrashInStartLogSegment
<1>3. paxos' = paxos \/ paxos' = [paxos EXCEPT ![n][s] = NoFile]
  BY DEF CrashInStartLogSegment
<1>4. \/ inProgress' = inProgress
      \/ \E file \in {inProgress[n][s], Blank} :
           inProgress' = [inProgress EXCEPT ![n][s] = file]
  BY DEF CrashInStartLogSegment
<1>5. /\ promised[n] # Torn /\ promised[n] <= req.epoch
      /\ req.epoch \in Epoch
      /\ promised' \in [Node -> Epoch \cup {0, Torn}]
      /\ promised'[n] = req.epoch
      /\ \A m \in Node \ {n} : promised'[m] = promised[m]
  BY <1>1, PassingResult
<1>6. DiskTypeOK'
  <2>1. writer' \in [Node -> Epoch \cup {0, Torn}]
    BY <1>2, <1>5 DEF DiskTypeOK
  <2>2. paxos' \in [Node -> [Txid -> Decision \cup {NoFile}]]
    <3>1. paxos \in [Node -> [Txid -> Decision \cup {NoFile}]]
      BY DEF DiskTypeOK
    <3> QED
      BY <1>3, <3>1
  <2>3. inProgress' \in [Node -> [Txid -> Body \cup {NoFile, Blank}]]
    <3>1. inProgress \in [Node -> [Txid -> Body \cup {NoFile, Blank}]]
      BY DEF DiskTypeOK
    <3>2. inProgress[n][s] \in Body \cup {NoFile, Blank}
      BY <3>1
    <3> QED
      BY <1>4, <3>1, <3>2
  <2> QED
    BY <1>1, <1>5, <2>1, <2>2, <2>3 DEF DiskTypeOK
<1>7. EpochsOk(n)'
  <2>1. writer'[n] \in {Torn, req.epoch}
    BY <1>2 DEF DiskTypeOK
  <2>2. \A t \in Txid : paxos'[n][t] = paxos[n][t] \/ paxos'[n][t] = NoFile
    BY <1>3 DEF DiskTypeOK
  <2> QED
    BY <1>5, <2>1, <2>2, EpochsStay DEF NodeInv
<1>8. NamesOk(n)'
  BY <1>1, NamesUnchanged DEF NodeInv
<1>9. \A m \in Node \ {n} : DiskSameAt(m)
  BY <1>1, <1>2, <1>3, <1>4, <1>5 DEF DiskSameAt, DiskTypeOK
<1> QED
  BY <1>1, <1>6, <1>7, <1>8, <1>9, DieResult, IdlePreserves

-----------------------------------------------------------------------------
(* journal *)

\* A refused batch leaves the segment current, or ends it.
LEMMA RefuseJournalPreserves ==
  ASSUME IInv, NEW n \in Node, NEW req \in Request, NEW s \in Txid,
         NEW first \in Txid, RefuseJournal(n, req, s, first)
  PROVE  Preserves(n)
<1>1. /\ Passes(n, req) /\ Promise(n, req.epoch) /\ Remember(n, req)
      /\ Return(n, -1)
      /\ UNCHANGED <<namespace, paxosDir, writer, logs, cursor,
                     highestWrittenTxId, status>>
  BY DEF RefuseJournal
<1>2. MemoryTypeOK'
  BY <1>1, RememberResult DEF IInv, TypeOK, MemoryTypeOK, Return, cursor
<1> QED
  BY <1>1, <1>2, PassingResult, PromiseOnlyPreserves

\* A writer on another segment ends the current one.
LEMMA JournalOutOfSyncPreserves ==
  ASSUME IInv, NEW n \in Node, NEW req \in Request, NEW s \in Txid,
         JournalOutOfSync(n, req, s)
  PROVE  Preserves(n)
BY AbortOnlyPreserves DEF JournalOutOfSync

\* A batch appended to a log gives a log, as long as both together.
LEMMA WrittenResult ==
  ASSUME NEW file \in LogFile, NEW recs \in Body
  PROVE  /\ Written(file, recs) \in LogFile
         /\ IsLog(file) => /\ IsLog(Written(file, recs))
                           /\ Len(Written(file, recs)) = Len(file) + Len(recs)
<1>1. CASE file \in {NoFile, Blank}
  BY <1>1 DEF Written, LogFile, IsLog
<1>2. CASE file \notin {NoFile, Blank}
  <2>1. file \in Body /\ Written(file, recs) = file \o recs
    BY <1>2 DEF Written, LogFile
  <2>2. file \o recs \in Body /\ Len(file \o recs) = Len(file) + Len(recs)
    BY <2>1, ConcatProperties DEF Body
  <2> QED
    BY <2>1, <2>2, AbsentAssumption DEF LogFile, IsLog
<1> QED BY <1>1, <1>2

\* A batch is written at the end of the log, and nextTxId moves as far.
LEMMA WritePreserves ==
  ASSUME IInv, NEW n \in Node, NEW req \in Request, NEW s \in Txid,
         NEW first \in Txid, NEW recs \in Records,
         Write(n, req, s, first, recs)
  PROVE  Preserves(n)
<1> USE DEF IInv, TypeOK
<1>1. /\ Passes(n, req) /\ Promise(n, req.epoch) /\ Remember(n, req)
      /\ writer[n] = req.epoch
      /\ curSegmentTxId[n] = s /\ nextTxId[n] = first
      /\ first + Len(recs) - 1 <= MaxTxid
      /\ inProgress' = [inProgress EXCEPT ![n][s] = Written(@, recs)]
      /\ highestWrittenTxId' = [highestWrittenTxId EXCEPT ![n] =
                                  first + Len(recs) - 1]
      /\ nextTxId' = [nextTxId EXCEPT ![n] = first + Len(recs)]
      /\ Return(n, 0)
      /\ UNCHANGED <<namespace, paxosDir, writer, finalized, paxos, tmp,
                     segmentOpen, curSegmentTxId, status>>
  BY DEF Write, CanWrite
<1>2. /\ Up(n) /\ promised[n] # Torn /\ promised[n] <= req.epoch
      /\ req.epoch \in Epoch
      /\ promised' \in [Node -> Epoch \cup {0, Torn}]
      /\ promised'[n] = req.epoch
      /\ \A m \in Node \ {n} : promised'[m] = promised[m]
  BY <1>1, PassingResult
<1>3. recs \in Body /\ Len(recs) \in Nat
  BY LogAssumption, LenProperties DEF Body
<1>4. inProgress[n][s] \in LogFile
  BY DEF DiskTypeOK, LogFile
<1>5. inProgress' \in [Node -> [Txid -> LogFile]]
  BY <1>1, <1>3, <1>4, WrittenResult DEF DiskTypeOK, LogFile
<1>6. DiskTypeOK'
  BY <1>1, <1>2, <1>5 DEF DiskTypeOK, LogFile
<1>7. /\ first + Len(recs) - 1 \in 0..MaxTxid
      /\ first + Len(recs) \in 1..MaxTxid + 1
  <2>1. first \in Int /\ first >= 1
    BY DEF Txid
  <2>2. MaxTxid \in Nat
    BY BoundsAssumption
  <2> QED
    BY <1>1, <1>3, <2>1, <2>2
<1>8. MemoryTypeOK'
  BY <1>1, <1>7, RememberResult DEF MemoryTypeOK, Return
<1>9. CursorOk(n)'
  <2>1. s # InvalidTxid /\ WrittenSegmentOnDisk(n, s) /\ paxos[n][s] = NoFile
    BY <1>1, InvalidTxidIsNoTxid DEF NodeInv, CursorOk
  <2>2. req.epoch # 0
    BY RequestType
  <2>3. /\ finalized[n][s] = NoFile /\ IsLog(inProgress[n][s])
        /\ first = s + Len(inProgress[n][s])
    BY <1>1, <2>1, <2>2 DEF WrittenSegmentOnDisk
  <2>4. inProgress'[n][s] = Written(inProgress[n][s], recs)
    BY <1>1 DEF DiskTypeOK
  <2>5. /\ IsLog(inProgress'[n][s])
        /\ Len(inProgress'[n][s]) = Len(inProgress[n][s]) + Len(recs)
    BY <1>3, <1>4, <2>3, <2>4, WrittenResult
  <2>6. nextTxId'[n] = s + Len(inProgress'[n][s])
    <3>1. Len(inProgress[n][s]) \in Nat
      BY <1>4, <2>3, LenProperties DEF LogFile, IsLog, Body
    <3>2. s \in Int
      BY DEF Txid
    <3>3. nextTxId'[n] = first + Len(recs)
      BY <1>1 DEF MemoryTypeOK
    <3> QED
      BY <1>3, <2>3, <2>5, <3>1, <3>2, <3>3
  <2>7. segmentOpen[n]
    BY <1>1, <2>1 DEF NodeInv, CursorOk
  <2> QED
    <3>1. curSegmentTxId'[n] = s /\ segmentOpen'[n] /\ writer'[n] # 0
      BY <1>1, <2>2, <2>7
    <3>2. Up(n)' /\ paxos'[n][s] = NoFile /\ finalized'[n][s] = NoFile
      BY <1>1, <1>2, <2>1, <2>3 DEF Up
    <3> QED
      BY <2>5, <2>6, <3>1, <3>2 DEF CursorOk, WrittenSegmentOnDisk
<1>10. EpochsOk(n)'
  BY <1>1, <1>2, EpochsStay DEF NodeInv
<1>11. NamesOk(n)'
  BY <1>1, NamesUnchanged DEF NodeInv
<1>12. \A m \in Node \ {n} : DiskSameAt(m)
  BY <1>1, <1>2 DEF DiskSameAt, DiskTypeOK
<1>13. \A m \in Node \ {n} : MemorySameAt(m)
  BY <1>1 DEF MemorySameAt, MemoryTypeOK
<1> QED
  BY <1>6, <1>8, <1>9, <1>10, <1>11, <1>12, <1>13 DEF Preserves, NodeInv

\* The beginning of a batch is a batch.
LEMMA PrefixIsBody ==
  ASSUME NEW body \in Body, NEW k \in 0..Len(body)
  PROVE  SubSeq(body, 1, k) \in Body
<1>1. Len(body) \in Nat /\ \A i \in 1..Len(body) : body[i] \in Payload
  BY LenProperties DEF Body
<1>2. k \in Int /\ \A i \in 1..k : body[i] \in Payload
  BY <1>1
<1> QED
  BY <1>2, SubSeqProperties DEF Body

\* On a full disk the beginning of a batch is written and the process ends.
LEMMA WriteNoSpacePreserves ==
  ASSUME IInv, NEW n \in Node, NEW req \in Request, NEW s \in Txid,
         NEW first \in Txid, NEW recs \in Records,
         WriteNoSpace(n, req, s, first, recs)
  PROVE  Preserves(n)
<1> USE DEF IInv, TypeOK
<1>1. /\ Passes(n, req) /\ Promise(n, req.epoch) /\ Die(n, "flushFailed")
      /\ UNCHANGED <<namespace, paxosDir, writer, finalized, paxos, tmp>>
      /\ "flushFailed" \in Status
  BY DEF WriteNoSpace, CanWrite, Status
<1>2. PICK k \in 0..Len(recs) :
        inProgress' = [inProgress EXCEPT ![n][s] =
                         Written(@, SubSeq(recs, 1, k))]
  BY DEF WriteNoSpace
<1>3. SubSeq(recs, 1, k) \in Body
  <2>1. recs \in Body
    BY LogAssumption
  <2> QED BY <2>1, PrefixIsBody
<1>4. inProgress' \in [Node -> [Txid -> LogFile]]
  BY <1>2, <1>3, WrittenResult DEF DiskTypeOK, LogFile
<1>5. DiskTypeOK'
  BY <1>1, <1>4, PassingResult DEF DiskTypeOK, LogFile
<1>6. EpochsOk(n)'
  BY <1>1, PassingResult, EpochsStay DEF NodeInv
<1>7. NamesOk(n)'
  BY <1>1, NamesUnchanged DEF NodeInv
<1>8. \A m \in Node \ {n} : DiskSameAt(m)
  BY <1>1, <1>2, PassingResult DEF DiskSameAt, DiskTypeOK
<1> QED
  BY <1>1, <1>5, <1>6, <1>7, <1>8, DieResult, IdlePreserves

-----------------------------------------------------------------------------
(* finalizeLogSegment *)

\* The segment asked for is not current any more, and another one stays so.
LEMMA CloseResult ==
  ASSUME MemoryTypeOK, NEW n \in Node, NEW s \in Txid, CursorOk(n),
         CloseIfWriting(n, s)
  PROVE  /\ segmentOpen' \in [Node -> BOOLEAN]
         /\ curSegmentTxId' \in [Node -> Txid \cup {InvalidTxid}]
         /\ ~segmentOpen'[n] => curSegmentTxId'[n] = InvalidTxid
         /\ curSegmentTxId'[n] # InvalidTxid =>
              curSegmentTxId'[n] = curSegmentTxId[n] /\ curSegmentTxId[n] # s
         /\ \A m \in Node \ {n} :
              /\ segmentOpen'[m] = segmentOpen[m]
              /\ curSegmentTxId'[m] = curSegmentTxId[m]
<1>1. CASE Writing(n, s)
  BY <1>1, AbortSegmentResult DEF CloseIfWriting
<1>2. CASE ~Writing(n, s)
  BY <1>2 DEF CloseIfWriting, Writing, MemoryTypeOK, CursorOk
<1> QED BY <1>1, <1>2

\* A segment other than s stays as it is written when only the files of s
\* change.
LEMMA OtherSegmentStays ==
  ASSUME TypeOK, TypeOK', NEW n \in Node, NEW s \in Txid, CursorOk(n), Up(n)',
         ~segmentOpen'[n] => curSegmentTxId'[n] = InvalidTxid,
         curSegmentTxId'[n] # InvalidTxid =>
           curSegmentTxId'[n] = curSegmentTxId[n] /\ curSegmentTxId[n] # s,
         UNCHANGED <<writer, nextTxId>>,
         \A t \in Txid \ {s} : /\ inProgress'[n][t] = inProgress[n][t]
                               /\ finalized'[n][t] = finalized[n][t]
                               /\ paxos'[n][t] = paxos[n][t]
  PROVE  CursorOk(n)'
<1> SUFFICES ASSUME curSegmentTxId'[n] # InvalidTxid
             PROVE  /\ WrittenSegmentOnDisk(n, curSegmentTxId[n])'
                    /\ paxos'[n][curSegmentTxId'[n]] = NoFile
  BY DEF CursorOk
<1> DEFINE t == curSegmentTxId[n]
<1>1. t \in Txid \ {s} /\ t # InvalidTxid /\ curSegmentTxId'[n] = t
  BY DEF TypeOK, MemoryTypeOK
<1>2. WrittenSegmentOnDisk(n, t) /\ paxos[n][t] = NoFile
  BY <1>1 DEF CursorOk
<1>3. /\ inProgress'[n][t] = inProgress[n][t]
      /\ finalized'[n][t] = finalized[n][t]
      /\ paxos'[n][t] = paxos[n][t]
  BY <1>1
<1> HIDE DEF t
<1> QED
  BY <1>1, <1>2, <1>3 DEF WrittenSegmentOnDisk, IsLog

\* What may be finalized is a log, and ends where the request says: known
\* from nextTxId while it is written, from a scan otherwise.
LEMMA MayFinalizeResult ==
  ASSUME IInv, NEW n \in Node, NEW s \in Txid, NEW end \in s..MaxTxid,
         MayFinalize(n, s, end)
  PROVE  /\ end \in Txid
         /\ inProgress[n][s] \in Body /\ IsLog(inProgress[n][s])
         /\ End(s, inProgress[n][s]) = end
<1>1. s \in Int /\ s >= 1 /\ end \in Int /\ s <= end /\ end \in Txid
  BY BoundsAssumption DEF Txid
<1>2. inProgress[n][s] \in LogFile /\ inProgress[n][s] # NoFile
  BY DEF MayFinalize, OnlyInProgress, IInv, TypeOK, DiskTypeOK, LogFile
<1>3. CASE Writing(n, s)
  <2>1. WrittenSegmentOnDisk(n, s)
    BY <1>3, InvalidTxidIsNoTxid DEF Writing, IInv, NodeInv, CursorOk
  <2>2. IsLog(inProgress[n][s]) /\ nextTxId[n] = s + Len(inProgress[n][s])
    BY <1>2, <2>1 DEF WrittenSegmentOnDisk
  <2>3. nextTxId[n] = end + 1
    BY <1>3 DEF MayFinalize, EndAgrees
  <2>4. inProgress[n][s] \in Body /\ Len(inProgress[n][s]) \in Nat
    BY <1>2, <2>2, LenProperties DEF LogFile, IsLog, Body
  <2> QED
    BY <1>1, <2>2, <2>3, <2>4 DEF End
<1>4. CASE ~Writing(n, s)
  <2>1. Scanned(inProgress[n][s]) = {end + 1 - s}
    BY <1>4 DEF MayFinalize
  <2>2. inProgress[n][s] # Blank
    <3> SUFFICES ASSUME inProgress[n][s] = Blank
                 PROVE  FALSE
      OBVIOUS
    <3>1. Unreadable \in Scanned(inProgress[n][s]) /\ 0 \in Scanned(inProgress[n][s])
      BY <1>2 DEF Scanned
    <3> QED
      BY <2>1, <3>1 DEF Unreadable
  <2>3. inProgress[n][s] \in Body /\ IsLog(inProgress[n][s])
    BY <1>2, <2>2 DEF LogFile, IsLog
  <2>4. Len(inProgress[n][s]) \in Nat
    BY <2>3, LenProperties DEF Body
  <2>5. Scanned(inProgress[n][s]) = {Len(inProgress[n][s])}
    BY <1>2, <2>2 DEF Scanned
  <2>6. Len(inProgress[n][s]) = end + 1 - s
    BY <2>1, <2>5
  <2> QED
    BY <1>1, <2>3, <2>4, <2>6 DEF End
<1> QED BY <1>3, <1>4

\* The renamed log is finalized under its true end.
LEMMA RenameResult ==
  ASSUME IInv, NEW n \in Node, NEW s \in Txid, NEW end \in s..MaxTxid,
         MayFinalize(n, s, end), Rename(n, s, end)
  PROVE  /\ inProgress' \in [Node -> [Txid -> LogFile]]
         /\ finalized' \in [Node -> [Txid -> FinalLog \cup {NoFile}]]
         /\ NamesOk(n)'
         /\ \A t \in Txid \ {s} : /\ inProgress'[n][t] = inProgress[n][t]
                                  /\ finalized'[n][t] = finalized[n][t]
         /\ \A m \in Node \ {n} : /\ inProgress'[m] = inProgress[m]
                                  /\ finalized'[m] = finalized[m]
<1> DEFINE new == [end |-> end, body |-> inProgress[n][s]]
<1>1. /\ inProgress[n][s] \in Body /\ IsLog(inProgress[n][s])
      /\ End(s, inProgress[n][s]) = end
      /\ new \in FinalLog
  BY MayFinalizeResult DEF FinalLog
<1>2. EndsAsNamed(s, new)
  BY <1>1 DEF EndsAsNamed
<1>3. /\ inProgress \in [Node -> [Txid -> LogFile]]
      /\ finalized \in [Node -> [Txid -> FinalLog \cup {NoFile}]]
  BY DEF IInv, TypeOK, DiskTypeOK, LogFile
<1>4. /\ finalized' = [finalized EXCEPT ![n][s] = new]
      /\ inProgress' = [inProgress EXCEPT ![n][s] = NoFile]
  BY DEF Rename
<1> HIDE DEF new
<1>5. /\ inProgress' \in [Node -> [Txid -> LogFile]]
      /\ finalized' \in [Node -> [Txid -> FinalLog \cup {NoFile}]]
  BY <1>1, <1>3, <1>4 DEF LogFile
<1>6. \A t \in Txid \ {s} : /\ inProgress'[n][t] = inProgress[n][t]
                            /\ finalized'[n][t] = finalized[n][t]
  BY <1>3, <1>4
<1>7. \A m \in Node \ {n} : /\ inProgress'[m] = inProgress[m]
                            /\ finalized'[m] = finalized[m]
  BY <1>3, <1>4
<1>8. NamesOk(n)'
  <2> SUFFICES ASSUME NEW t \in Txid, finalized'[n][t] # NoFile
               PROVE  EndsAsNamed(t, finalized'[n][t])
    BY DEF NamesOk, EndsAsNamed, IsLog, End
  <2>1. CASE t = s
    BY <1>2, <1>3, <1>4, <2>1
  <2>2. CASE t # s
    BY <1>6, <2>2 DEF IInv, NodeInv, NamesOk
  <2> QED BY <2>1, <2>2
<1> QED
  BY <1>5, <1>6, <1>7, <1>8

\* The steps of finalizeLogSegment that return, with or without a rename and
\* a purge.
LEMMA FinalizingPreserves ==
  ASSUME IInv, NEW n \in Node, NEW req \in Request, NEW s \in Txid,
         Passes(n, req), Promise(n, req.epoch), Remember(n, req),
         CloseIfWriting(n, s), NEW code \in {0, -1}, Return(n, code),
         inProgress' \in [Node -> [Txid -> LogFile]],
         finalized' \in [Node -> [Txid -> FinalLog \cup {NoFile}]],
         NamesOk(n)',
         \A t \in Txid \ {s} : /\ inProgress'[n][t] = inProgress[n][t]
                               /\ finalized'[n][t] = finalized[n][t],
         \A m \in Node \ {n} : /\ inProgress'[m] = inProgress[m]
                               /\ finalized'[m] = finalized[m],
         paxos' = paxos \/ paxos' = [paxos EXCEPT ![n][s] = NoFile],
         UNCHANGED <<namespace, paxosDir, writer, tmp, nextTxId,
                     highestWrittenTxId, status>>
  PROVE  Preserves(n)
<1> USE DEF IInv, TypeOK
<1>1. /\ Up(n) /\ promised[n] # Torn /\ promised[n] <= req.epoch
      /\ req.epoch \in Epoch
      /\ promised' \in [Node -> Epoch \cup {0, Torn}]
      /\ promised'[n] = req.epoch
      /\ \A m \in Node \ {n} : promised'[m] = promised[m]
  BY PassingResult
<1>2. CursorOk(n) /\ EpochsOk(n)
  BY DEF NodeInv
<1>3. /\ paxos' \in [Node -> [Txid -> Decision \cup {NoFile}]]
      /\ \A t \in Txid : paxos'[n][t] = paxos[n][t] \/ paxos'[n][t] = NoFile
      /\ \A t \in Txid \ {s} : paxos'[n][t] = paxos[n][t]
      /\ \A m \in Node \ {n} : paxos'[m] = paxos[m]
  <2>1. paxos \in [Node -> [Txid -> Decision \cup {NoFile}]]
    BY DEF DiskTypeOK
  <2>2. CASE paxos' = paxos
    BY <2>1, <2>2
  <2>3. CASE paxos' = [paxos EXCEPT ![n][s] = NoFile]
    BY <2>1, <2>3
  <2> QED BY <2>2, <2>3
<1>4. DiskTypeOK'
  BY <1>1, <1>3 DEF DiskTypeOK, LogFile
<1>5. /\ segmentOpen' \in [Node -> BOOLEAN]
      /\ curSegmentTxId' \in [Node -> Txid \cup {InvalidTxid}]
      /\ ~segmentOpen'[n] => curSegmentTxId'[n] = InvalidTxid
      /\ curSegmentTxId'[n] # InvalidTxid =>
           curSegmentTxId'[n] = curSegmentTxId[n] /\ curSegmentTxId[n] # s
      /\ \A m \in Node \ {n} : /\ segmentOpen'[m] = segmentOpen[m]
                               /\ curSegmentTxId'[m] = curSegmentTxId[m]
  BY <1>2, CloseResult
<1>6. MemoryTypeOK'
  BY <1>5, RememberResult DEF MemoryTypeOK, Return
<1>7. CursorOk(n)'
  <2>1. Up(n)'
    BY <1>1 DEF Up
  <2>2. TypeOK /\ TypeOK'
    BY <1>4, <1>6
  <2> QED
    BY <1>2, <1>3, <1>5, <2>1, <2>2, OtherSegmentStays
<1>8. EpochsOk(n)'
  BY <1>1, <1>2, <1>3, EpochsStay
<1>9. \A m \in Node \ {n} : DiskSameAt(m)
  BY <1>1, <1>3 DEF DiskSameAt
<1>10. \A m \in Node \ {n} : MemorySameAt(m)
  BY <1>5 DEF MemorySameAt
<1> QED
  BY <1>4, <1>6, <1>7, <1>8, <1>9, <1>10 DEF Preserves, NodeInv

\* The log is renamed and the decision purged.
LEMMA FinalizeLogSegmentPreserves ==
  ASSUME IInv, NEW n \in Node, NEW req \in Request, NEW s \in Txid,
         NEW end \in s..MaxTxid, FinalizeLogSegment(n, req, s, end)
  PROVE  Preserves(n)
<1>1. /\ Passes(n, req) /\ MayFinalize(n, s, end)
      /\ Promise(n, req.epoch) /\ Remember(n, req) /\ CloseIfWriting(n, s)
      /\ Rename(n, s, end)
      /\ paxos' = [paxos EXCEPT ![n][s] = NoFile]
      /\ Return(n, 0)
      /\ UNCHANGED <<namespace, paxosDir, writer, tmp, nextTxId,
                     highestWrittenTxId, status>>
  BY DEF FinalizeLogSegment
<1>2. /\ inProgress' \in [Node -> [Txid -> LogFile]]
      /\ finalized' \in [Node -> [Txid -> FinalLog \cup {NoFile}]]
      /\ NamesOk(n)'
      /\ \A t \in Txid \ {s} : /\ inProgress'[n][t] = inProgress[n][t]
                               /\ finalized'[n][t] = finalized[n][t]
      /\ \A m \in Node \ {n} : /\ inProgress'[m] = inProgress[m]
                               /\ finalized'[m] = finalized[m]
  BY <1>1, RenameResult
<1> QED
  BY <1>1, <1>2, FinalizingPreserves

\* The logs stay: only a decision may be purged.
LEMMA FinalizeAgainPreserves ==
  ASSUME IInv, NEW n \in Node, NEW req \in Request, NEW s \in Txid,
         NEW end \in s..MaxTxid, FinalizeAgain(n, req, s, end)
  PROVE  Preserves(n)
<1>1. /\ Passes(n, req)
      /\ Promise(n, req.epoch) /\ Remember(n, req) /\ CloseIfWriting(n, s)
      /\ paxos' = [paxos EXCEPT ![n][s] = NoFile]
      /\ Return(n, 0)
      /\ UNCHANGED <<namespace, paxosDir, writer, inProgress, finalized, tmp,
                     nextTxId, highestWrittenTxId, status>>
  BY DEF FinalizeAgain
<1>2. /\ inProgress' \in [Node -> [Txid -> LogFile]]
      /\ finalized' \in [Node -> [Txid -> FinalLog \cup {NoFile}]]
  BY <1>1 DEF IInv, TypeOK, DiskTypeOK, LogFile
<1>3. NamesOk(n)'
  BY <1>1, NamesUnchanged DEF IInv, NodeInv
<1> QED
  BY <1>1, <1>2, <1>3, FinalizingPreserves

\* A refused finalization may have closed the segment all the same.
LEMMA RefuseFinalizePreserves ==
  ASSUME IInv, NEW n \in Node, NEW req \in Request, NEW s \in Txid,
         NEW end \in s..MaxTxid, RefuseFinalize(n, req, s, end)
  PROVE  Preserves(n)
<1>1. /\ Passes(n, req)
      /\ Promise(n, req.epoch) /\ Remember(n, req) /\ CloseIfWriting(n, s)
      /\ Return(n, -1)
      /\ UNCHANGED <<namespace, paxosDir, writer, inProgress, finalized, paxos,
                     tmp, nextTxId, highestWrittenTxId, status>>
  BY DEF RefuseFinalize, logs
<1>2. /\ inProgress' \in [Node -> [Txid -> LogFile]]
      /\ finalized' \in [Node -> [Txid -> FinalLog \cup {NoFile}]]
  BY <1>1 DEF IInv, TypeOK, DiskTypeOK, LogFile
<1>3. NamesOk(n)'
  BY <1>1, NamesUnchanged DEF IInv, NodeInv
<1> QED
  BY <1>1, <1>2, <1>3, FinalizingPreserves

\* The process ends on a segment finalized to another end.
LEMMA AbortFinalizePreserves ==
  ASSUME IInv, NEW n \in Node, NEW req \in Request, NEW s \in Txid,
         NEW end \in s..MaxTxid, AbortFinalize(n, req, s, end)
  PROVE  Preserves(n)
<1>1. Die(n, "differentEnd") /\ "differentEnd" \in Status
  BY DEF AbortFinalize, Status
<1>2. promised[n] # Torn /\ promised[n] <= req.epoch /\ req.epoch \in Epoch
  BY PassingResult DEF AbortFinalize
<1> QED
  BY <1>1, <1>2, PromiseThenDie DEF AbortFinalize

\* The process ends after the rename.
LEMMA CrashInFinalizePreserves ==
  ASSUME IInv, NEW n \in Node, NEW req \in Request, NEW s \in Txid,
         NEW end \in s..MaxTxid, CrashInFinalize(n, req, s, end)
  PROVE  Preserves(n)
<1> USE DEF IInv, TypeOK
<1>1. /\ Passes(n, req) /\ MayFinalize(n, s, end) /\ Promise(n, req.epoch)
      /\ Rename(n, s, end) /\ Die(n, "down")
      /\ UNCHANGED <<namespace, paxosDir, writer, paxos, tmp>>
      /\ "down" \in Status
  BY DEF CrashInFinalize, Status
<1>2. /\ inProgress' \in [Node -> [Txid -> LogFile]]
      /\ finalized' \in [Node -> [Txid -> FinalLog \cup {NoFile}]]
      /\ NamesOk(n)'
      /\ \A m \in Node \ {n} : /\ inProgress'[m] = inProgress[m]
                               /\ finalized'[m] = finalized[m]
  BY <1>1, RenameResult
<1>3. DiskTypeOK'
  BY <1>1, <1>2, PassingResult DEF DiskTypeOK, LogFile
<1>4. EpochsOk(n)'
  BY <1>1, PassingResult, EpochsStay DEF NodeInv
<1>5. \A m \in Node \ {n} : DiskSameAt(m)
  BY <1>1, <1>2, PassingResult DEF DiskSameAt
<1> QED
  BY <1>1, <1>2, <1>3, <1>4, <1>5, DieResult, IdlePreserves

-----------------------------------------------------------------------------
(* prepareRecovery and acceptRecovery *)

\* One in-progress file of a node is replaced.
LEMMA SetLog ==
  ASSUME DiskTypeOK, NEW n \in Node, NEW s \in Txid, NEW file \in LogFile,
         inProgress' = [inProgress EXCEPT ![n][s] = file]
  PROVE  /\ inProgress' \in [Node -> [Txid -> LogFile]]
         /\ \A m \in Node \ {n} : inProgress'[m] = inProgress[m]
BY DEF DiskTypeOK, LogFile

\* One temporary file of a node is replaced.
LEMMA SetTmp ==
  ASSUME DiskTypeOK, NEW n \in Node, NEW s \in Txid, NEW e \in Epoch,
         NEW file \in LogFile, tmp' = [tmp EXCEPT ![n][s][e] = file]
  PROVE  tmp' \in [Node -> [Txid -> [Epoch -> LogFile]]]
<1>1. tmp \in [Node -> [Txid -> [Epoch -> LogFile]]]
  BY DEF DiskTypeOK, LogFile
<1> QED BY <1>1

\* A file that is kept, or moved aside, is a file or none.
LEMMA KeptIsLogFile ==
  ASSUME NEW n, NEW s, NEW len, NEW file \in LogFile
  PROVE  Kept(n, s, file, len) \in LogFile
BY DEF Kept, LogFile

\* The disk after a step of a recovery of segment s: the log and its download
\* may change, and the decision may become that of the request.
LEMMA RecoveryDisk ==
  ASSUME IInv, NEW n \in Node, NEW req \in Request, NEW s \in Txid,
         NEW end \in Txid, Passes(n, req), Promise(n, req.epoch),
         inProgress' \in [Node -> [Txid -> LogFile]],
         \A m \in Node \ {n} : inProgress'[m] = inProgress[m],
         tmp' \in [Node -> [Txid -> [Epoch -> LogFile]]],
         paxos' = paxos \/ Decide(n, s, req.epoch, end),
         UNCHANGED <<namespace, paxosDir, writer, finalized>>
  PROVE  /\ DiskTypeOK'
         /\ EpochsOk(n)' /\ NamesOk(n)'
         /\ \A m \in Node \ {n} : DiskSameAt(m)
<1> USE DEF IInv, TypeOK
<1> DEFINE new == [epoch |-> req.epoch, end |-> end]
<1>1. /\ promised[n] # Torn /\ promised[n] <= req.epoch
      /\ req.epoch \in Epoch
      /\ promised' \in [Node -> Epoch \cup {0, Torn}]
      /\ promised'[n] = req.epoch
      /\ \A m \in Node \ {n} : promised'[m] = promised[m]
  BY PassingResult
<1>2. new \in Decision /\ new.epoch = req.epoch
  BY <1>1 DEF Decision
<1>3. paxos \in [Node -> [Txid -> Decision \cup {NoFile}]]
  BY DEF DiskTypeOK
<1>4. paxos' = paxos \/ paxos' = [paxos EXCEPT ![n][s] = new]
  BY DEF Decide
<1> HIDE DEF new
<1>5. /\ paxos' \in [Node -> [Txid -> Decision \cup {NoFile}]]
      /\ \A t \in Txid : \/ paxos'[n][t] = paxos[n][t]
                         \/ paxos'[n][t] = NoFile
                         \/ paxos'[n][t].epoch = req.epoch
      /\ \A m \in Node \ {n} : paxos'[m] = paxos[m]
  <2>1. CASE paxos' = paxos
    BY <1>3, <2>1
  <2>2. CASE paxos' = [paxos EXCEPT ![n][s] = new]
    BY <1>2, <1>3, <2>2
  <2> QED BY <1>4, <2>1, <2>2
<1>6. DiskTypeOK'
  BY <1>1, <1>5 DEF DiskTypeOK, LogFile
<1>7. EpochsOk(n)'
  BY <1>1, <1>5, EpochsStay DEF NodeInv
<1>8. NamesOk(n)'
  BY NamesUnchanged DEF NodeInv
<1>9. \A m \in Node \ {n} : DiskSameAt(m)
  BY <1>1, <1>5 DEF DiskSameAt
<1> QED
  BY <1>6, <1>7, <1>8, <1>9

\* A step of a recovery that returns has ended the current segment.
LEMMA RecoveringPreserves ==
  ASSUME IInv, NEW n \in Node, NEW req \in Request,
         Remember(n, req), AbortSegment(n), NEW code \in {0, -1},
         Return(n, code),
         highestWrittenTxId' \in [Node -> 0..MaxTxid],
         UNCHANGED <<nextTxId, status>>,
         DiskTypeOK', EpochsOk(n)', NamesOk(n)',
         \A m \in Node \ {n} : DiskSameAt(m)
  PROVE  Preserves(n)
<1> USE DEF IInv, TypeOK
<1>1. CursorOk(n)
  BY DEF NodeInv
<1>2. MemoryTypeOK'
  BY <1>1, AbortSegmentResult, RememberResult DEF MemoryTypeOK, Return
<1>3. \A m \in Node \ {n} : MemorySameAt(m)
  BY <1>1, AbortSegmentResult DEF MemorySameAt
<1> QED
  BY <1>1, <1>2, <1>3, AbortSegmentResult, IdlePreserves

\* What rolling forward leaves are files.
LEMMA RollForwardResult ==
  ASSUME IInv, NEW n \in Node, NEW s \in Txid, NEW len, RollForward(n, s, len)
  PROVE  /\ inProgress' \in [Node -> [Txid -> LogFile]]
         /\ \A m \in Node \ {n} : inProgress'[m] = inProgress[m]
         /\ tmp' \in [Node -> [Txid -> [Epoch -> LogFile]]]
<1> USE DEF IInv, TypeOK
<1>1. HalfDone(n, s) => paxos[n][s].epoch \in Epoch
  <2>1. paxos[n][s] \in Decision \cup {NoFile}
    BY DEF DiskTypeOK
  <2> QED
    BY <2>1 DEF HalfDone, Decision
<1>2. RolledForward(n, s) \in LogFile
  <2>1. /\ inProgress[n][s] \in LogFile
        /\ \A e \in Epoch : tmp[n][s][e] \in LogFile
    BY DEF DiskTypeOK, LogFile
  <2> QED
    BY <1>1, <2>1 DEF RolledForward
<1>3. Kept(n, s, RolledForward(n, s), len) \in LogFile
  BY <1>2, KeptIsLogFile
<1>4. inProgress' = [inProgress EXCEPT ![n][s] =
                       Kept(n, s, RolledForward(n, s), len)]
  BY DEF RollForward
<1>5. tmp' \in [Node -> [Txid -> [Epoch -> LogFile]]]
  <2>1. CASE HalfDone(n, s)
    <3>1. tmp' = [tmp EXCEPT ![n][s][paxos[n][s].epoch] = NoFile]
      BY <2>1 DEF RollForward
    <3>2. NoFile \in LogFile
      BY DEF LogFile
    <3> QED
      BY <1>1, <2>1, <3>1, <3>2, SetTmp
  <2>2. CASE ~HalfDone(n, s)
    BY <2>2 DEF RollForward, DiskTypeOK, LogFile
  <2> QED BY <2>1, <2>2
<1> QED
  BY <1>3, <1>4, <1>5, SetLog

\* A prepared recovery may have rolled one forward.
LEMMA PrepareRecoveryPreserves ==
  ASSUME IInv, NEW n \in Node, NEW req \in Request, NEW s \in Txid,
         PrepareRecovery(n, req, s)
  PROVE  Preserves(n)
<1>1. PICK len \in Scanned(RolledForward(n, s)), code \in {0, -1} :
        RollForward(n, s, len) /\ Return(n, code)
  BY DEF PrepareRecovery
<1>2. /\ Passes(n, req) /\ Promise(n, req.epoch) /\ Remember(n, req)
      /\ AbortSegment(n)
      /\ UNCHANGED <<namespace, paxosDir, writer, finalized, paxos, nextTxId,
                     highestWrittenTxId, status>>
  BY DEF PrepareRecovery
<1>3. /\ DiskTypeOK' /\ EpochsOk(n)' /\ NamesOk(n)'
      /\ \A m \in Node \ {n} : DiskSameAt(m)
  BY <1>1, <1>2, RollForwardResult, RecoveryDisk
<1>4. highestWrittenTxId' \in [Node -> 0..MaxTxid]
  BY <1>2 DEF IInv, TypeOK, MemoryTypeOK
<1> QED
  BY <1>1, <1>2, <1>3, <1>4, RecoveringPreserves

\* The process ends on a decision that differs from the log.
LEMMA AbortPrepareRecoveryPreserves ==
  ASSUME IInv, NEW n \in Node, NEW req \in Request, NEW s \in Txid,
         AbortPrepareRecovery(n, req, s)
  PROVE  Preserves(n)
<1>1. PICK len \in Scanned(RolledForward(n, s)) : RollForward(n, s, len)
  BY DEF AbortPrepareRecovery
<1>2. /\ Passes(n, req) /\ Promise(n, req.epoch)
      /\ Die(n, "acceptedMismatch") /\ "acceptedMismatch" \in Status
      /\ UNCHANGED <<namespace, paxosDir, writer, finalized, paxos>>
  BY DEF AbortPrepareRecovery, Status
<1>3. /\ DiskTypeOK' /\ EpochsOk(n)' /\ NamesOk(n)'
      /\ \A m \in Node \ {n} : DiskSameAt(m)
  BY <1>1, <1>2, RollForwardResult, RecoveryDisk
<1> QED
  BY <1>2, <1>3, DieResult, IdlePreserves DEF IInv, TypeOK

\* The process ends within replaceFile, the old log gone.
LEMMA CrashInPrepareRecoveryPreserves ==
  ASSUME IInv, NEW n \in Node, NEW req \in Request, NEW s \in Txid,
         CrashInPrepareRecovery(n, req, s)
  PROVE  Preserves(n)
<1>1. /\ Passes(n, req) /\ Promise(n, req.epoch)
      /\ inProgress' = [inProgress EXCEPT ![n][s] = NoFile]
      /\ Die(n, "down") /\ "down" \in Status
      /\ UNCHANGED <<namespace, paxosDir, writer, finalized, paxos, tmp>>
  BY DEF CrashInPrepareRecovery, Status
<1>2. /\ inProgress' \in [Node -> [Txid -> LogFile]]
      /\ \A m \in Node \ {n} : inProgress'[m] = inProgress[m]
      /\ tmp' \in [Node -> [Txid -> [Epoch -> LogFile]]]
  BY <1>1, SetLog DEF IInv, TypeOK, DiskTypeOK, LogFile
<1>3. /\ DiskTypeOK' /\ EpochsOk(n)' /\ NamesOk(n)'
      /\ \A m \in Node \ {n} : DiskSameAt(m)
  BY <1>1, <1>2, RecoveryDisk
<1> QED
  BY <1>1, <1>3, DieResult, IdlePreserves DEF IInv, TypeOK

\* What a writer proposes is a log that is not empty, so it ends at a txid.
LEMMA ProposalResult ==
  ASSUME NEW req \in Request, NEW s \in Txid,
         NEW body \in Proposal[req.epoch][s], End(s, body) <= MaxTxid
  PROVE  body \in Body /\ End(s, body) \in Txid
<1>1. body \in Body /\ body # <<>>
  BY LogAssumption, RequestType
<1>2. Len(body) \in Nat \ {0}
  BY <1>1, EmptySeq DEF Body
<1>3. s \in Int /\ s >= 1
  BY DEF Txid
<1> QED
  BY <1>1, <1>2, <1>3, BoundsAssumption DEF End, Txid

\* The highest txid known stays within bounds.
LEMMA HighestAfterResult ==
  ASSUME MemoryTypeOK, NEW n \in Node, NEW s, NEW len, NEW end \in Txid,
         highestWrittenTxId' = [highestWrittenTxId EXCEPT ![n] =
                                  HighestAfter(n, s, len, end)]
  PROVE  highestWrittenTxId' \in [Node -> 0..MaxTxid]
<1>1. highestWrittenTxId \in [Node -> 0..MaxTxid]
  BY DEF MemoryTypeOK
<1>2. end \in 0..MaxTxid
  BY BoundsAssumption DEF Txid
<1>3. HighestAfter(n, s, len, end) \in {end, highestWrittenTxId[n]}
  BY DEF HighestAfter
<1> QED
  BY <1>1, <1>2, <1>3

\* Only the decision is written.
LEMMA AcceptInPlacePreserves ==
  ASSUME IInv, NEW n \in Node, NEW req \in Request, NEW s \in Txid, NEW len,
         NEW end \in Txid, AcceptInPlace(n, req, s, len, end)
  PROVE  Preserves(n)
<1>1. /\ Passes(n, req) /\ Promise(n, req.epoch) /\ Remember(n, req)
      /\ AbortSegment(n)
      /\ UNCHANGED <<namespace, paxosDir, writer, inProgress, finalized, tmp,
                     nextTxId, highestWrittenTxId, status>>
  BY DEF AcceptInPlace, Admitted
<1>2. PICK code \in {0, -1} : Return(n, code)
  BY DEF AcceptInPlace
<1>3. paxos' = paxos \/ Decide(n, s, req.epoch, end)
  BY DEF AcceptInPlace
<1>4. /\ inProgress' \in [Node -> [Txid -> LogFile]]
      /\ tmp' \in [Node -> [Txid -> [Epoch -> LogFile]]]
      /\ highestWrittenTxId' \in [Node -> 0..MaxTxid]
  BY <1>1 DEF IInv, TypeOK, DiskTypeOK, MemoryTypeOK, LogFile
<1>5. /\ DiskTypeOK' /\ EpochsOk(n)' /\ NamesOk(n)'
      /\ \A m \in Node \ {n} : DiskSameAt(m)
  BY <1>1, <1>3, <1>4, RecoveryDisk
<1> QED
  BY <1>1, <1>2, <1>4, <1>5, RecoveringPreserves

\* The downloaded log takes the place of the old one.
LEMMA AcceptRecoveryPreserves ==
  ASSUME IInv, NEW n \in Node, NEW req \in Request, NEW s \in Txid, NEW len,
         NEW end \in Txid, NEW body \in Body \cup {Blank},
         AcceptRecovery(n, req, s, len, end, body)
  PROVE  Preserves(n)
<1>1. /\ Passes(n, req) /\ Promise(n, req.epoch) /\ Remember(n, req)
      /\ AbortSegment(n) /\ Return(n, 0)
      /\ Decide(n, s, req.epoch, end)
      /\ highestWrittenTxId' = [highestWrittenTxId EXCEPT ![n] =
                                  HighestAfter(n, s, len, end)]
      /\ inProgress' = [inProgress EXCEPT ![n][s] = body]
      /\ tmp' = [tmp EXCEPT ![n][s][req.epoch] = NoFile]
      /\ UNCHANGED <<namespace, paxosDir, writer, finalized, nextTxId, status>>
  BY DEF AcceptRecovery, Admitted
<1>2. body \in LogFile /\ NoFile \in LogFile /\ req.epoch \in Epoch
  BY RequestType DEF LogFile
<1>3. /\ inProgress' \in [Node -> [Txid -> LogFile]]
      /\ \A m \in Node \ {n} : inProgress'[m] = inProgress[m]
  BY <1>1, <1>2, SetLog DEF IInv, TypeOK
<1>4. tmp' \in [Node -> [Txid -> [Epoch -> LogFile]]]
  BY <1>1, <1>2, SetTmp DEF IInv, TypeOK
<1>5. highestWrittenTxId' \in [Node -> 0..MaxTxid]
  BY <1>1, HighestAfterResult DEF IInv, TypeOK
<1>6. /\ DiskTypeOK' /\ EpochsOk(n)' /\ NamesOk(n)'
      /\ \A m \in Node \ {n} : DiskSameAt(m)
  BY <1>1, <1>3, <1>4, RecoveryDisk
<1> QED
  BY <1>1, <1>5, <1>6, RecoveringPreserves

\* The old log stays, or is moved aside when it is empty.
LEMMA KeptLog ==
  ASSUME IInv, NEW n \in Node, NEW s \in Txid, NEW len,
         inProgress' = [inProgress EXCEPT ![n][s] = Kept(n, s, @, len)]
  PROVE  /\ inProgress' \in [Node -> [Txid -> LogFile]]
         /\ \A m \in Node \ {n} : inProgress'[m] = inProgress[m]
<1>1. inProgress[n][s] \in LogFile
  BY DEF IInv, TypeOK, DiskTypeOK, LogFile
<1>2. Kept(n, s, inProgress[n][s], len) \in LogFile
  BY <1>1, KeptIsLogFile
<1>3. inProgress' = [inProgress EXCEPT ![n][s] =
                       Kept(n, s, inProgress[n][s], len)]
  OBVIOUS
<1> QED
  BY <1>2, <1>3, SetLog DEF IInv, TypeOK

\* A failed download, or a decision that cannot be stored, leaves the log.
LEMMA FailAcceptRecoveryPreserves ==
  ASSUME IInv, NEW n \in Node, NEW req \in Request, NEW s \in Txid, NEW len,
         NEW end \in Txid, NEW body \in Body \cup {Blank},
         FailAcceptRecovery(n, req, s, len, end, body)
  PROVE  Preserves(n)
<1>1. /\ Passes(n, req) /\ Promise(n, req.epoch) /\ Remember(n, req)
      /\ AbortSegment(n) /\ Return(n, -1)
      /\ highestWrittenTxId' = [highestWrittenTxId EXCEPT ![n] =
                                  HighestAfter(n, s, len, end)]
      /\ inProgress' = [inProgress EXCEPT ![n][s] = Kept(n, s, @, len)]
      /\ UNCHANGED <<namespace, paxosDir, writer, finalized, paxos, nextTxId,
                     status>>
  BY DEF FailAcceptRecovery, Admitted
<1>2. PICK file \in {NoFile, body} : tmp' = [tmp EXCEPT ![n][s][req.epoch] = file]
  BY DEF FailAcceptRecovery
<1>3. file \in LogFile /\ req.epoch \in Epoch
  BY RequestType DEF LogFile
<1>4. tmp' \in [Node -> [Txid -> [Epoch -> LogFile]]]
  BY <1>2, <1>3, SetTmp DEF IInv, TypeOK
<1>5. highestWrittenTxId' \in [Node -> 0..MaxTxid]
  BY <1>1, HighestAfterResult DEF IInv, TypeOK
<1>6. /\ DiskTypeOK' /\ EpochsOk(n)' /\ NamesOk(n)'
      /\ \A m \in Node \ {n} : DiskSameAt(m)
  BY <1>1, <1>4, KeptLog, RecoveryDisk
<1> QED
  BY <1>1, <1>5, <1>6, RecoveringPreserves

\* The process ends on one of the checks of acceptRecovery.
LEMMA AbortAcceptRecoveryPreserves ==
  ASSUME IInv, NEW n \in Node, NEW req \in Request, NEW s \in Txid,
         NEW end \in Txid, AbortAcceptRecovery(n, req, s, end)
  PROVE  Preserves(n)
<1>1. PICK len \in Scanned(inProgress[n][s]), why \in Status :
        /\ inProgress' = [inProgress EXCEPT ![n][s] = Kept(n, s, @, len)]
        /\ Die(n, why)
  BY DEF AbortAcceptRecovery, Status
<1>2. /\ Passes(n, req) /\ Promise(n, req.epoch)
      /\ UNCHANGED <<namespace, paxosDir, writer, finalized, paxos, tmp>>
  BY DEF AbortAcceptRecovery
<1>3. tmp' \in [Node -> [Txid -> [Epoch -> LogFile]]]
  BY <1>2 DEF IInv, TypeOK, DiskTypeOK, LogFile
<1>4. /\ DiskTypeOK' /\ EpochsOk(n)' /\ NamesOk(n)'
      /\ \A m \in Node \ {n} : DiskSameAt(m)
  BY <1>1, <1>2, <1>3, KeptLog, RecoveryDisk
<1> QED
  BY <1>1, <1>4, DieResult, IdlePreserves DEF IInv, TypeOK

\* The process ends in the download, before or after the decision, or within
\* replaceFile.
LEMMA CrashInAcceptRecoveryPreserves ==
  ASSUME IInv, NEW n \in Node, NEW req \in Request, NEW s \in Txid, NEW len,
         NEW end \in Txid, NEW body \in Body \cup {Blank},
         CrashInAcceptRecovery(n, req, s, len, end, body)
  PROVE  Preserves(n)
<1>1. /\ Passes(n, req) /\ Promise(n, req.epoch)
      /\ Die(n, "down") /\ "down" \in Status
      /\ UNCHANGED <<namespace, paxosDir, writer, finalized>>
  BY DEF CrashInAcceptRecovery, Admitted, Status
<1>2. PICK file \in CutOff(body) \cup {Blank, body} :
        tmp' = [tmp EXCEPT ![n][s][req.epoch] = file]
  BY DEF CrashInAcceptRecovery
<1>3. file \in LogFile
  <2>1. CutOff(body) \subseteq LogFile
    BY PrefixIsBody DEF LogFile, CutOff
  <2> QED BY <2>1 DEF LogFile
<1>4. tmp' \in [Node -> [Txid -> [Epoch -> LogFile]]]
  BY <1>2, <1>3, RequestType, SetTmp DEF IInv, TypeOK
<1>5. PICK log \in {Kept(n, s, inProgress[n][s], len), NoFile} :
        inProgress' = [inProgress EXCEPT ![n][s] = log]
  BY DEF CrashInAcceptRecovery
<1>6. log \in LogFile
  <2>1. inProgress[n][s] \in LogFile /\ NoFile \in LogFile
    BY DEF IInv, TypeOK, DiskTypeOK, LogFile
  <2> QED BY <2>1, KeptIsLogFile
<1>7. /\ inProgress' \in [Node -> [Txid -> LogFile]]
      /\ \A m \in Node \ {n} : inProgress'[m] = inProgress[m]
  BY <1>5, <1>6, SetLog DEF IInv, TypeOK
<1>8. paxos' = paxos \/ Decide(n, s, req.epoch, end)
  BY DEF CrashInAcceptRecovery
<1>9. /\ DiskTypeOK' /\ EpochsOk(n)' /\ NamesOk(n)'
      /\ \A m \in Node \ {n} : DiskSameAt(m)
  BY <1>1, <1>4, <1>7, <1>8, RecoveryDisk
<1> QED
  BY <1>1, <1>9, DieResult, IdlePreserves DEF IInv, TypeOK

-----------------------------------------------------------------------------
(* The inductive invariant *)

LEMMA InitIInv == Init => IInv
<1> SUFFICES ASSUME Init PROVE IInv
  OBVIOUS
<1>1. DiskTypeOK
  BY DEF Init, DiskTypeOK, NoLogs
<1>2. MemoryTypeOK
  BY BoundsAssumption DEF Init, MemoryTypeOK, Status
<1>3. ASSUME NEW n \in Node PROVE NodeInv(n)
  BY DEF Init, NodeInv, CursorOk, EpochsOk, NamesOk, NoEpochAbove, Up, NoLogs,
         Torn, InvalidTxid
<1> QED
  BY <1>1, <1>2, <1>3 DEF IInv, TypeOK

LEMMA StutterPreserves == IInv /\ UNCHANGED vars => IInv'
<1> SUFFICES ASSUME IInv, UNCHANGED vars PROVE IInv'
  OBVIOUS
<1>1. TypeOK'
  BY DEF IInv, TypeOK, DiskTypeOK, MemoryTypeOK, vars, disk, logs, memory, cursor
<1>2. \A m \in Node : DiskSameAt(m) /\ MemorySameAt(m)
  BY DEF DiskSameAt, MemorySameAt, vars, disk, logs, memory, cursor
<1> QED
  BY <1>1, <1>2, Frame DEF IInv

\* The steps outside a segment.
LEMMA EpochStepPreserves ==
  ASSUME IInv, NEW n \in Node,
         Lifecycle(n) \/ Formatting(n) \/ Epochs(n) \/ Refusals(n)
  PROVE  Preserves(n)
<1>1. CASE Lifecycle(n)
  BY <1>1, CrashPreserves, LoadPreserves, ReturnPreserves
  DEF Lifecycle, LoadFails
<1>2. CASE Formatting(n)
  BY <1>2, FormatPreserves, CrashInFormatPreserves DEF Formatting
<1>3. CASE Epochs(n)
  BY <1>3, NewEpochPreserves, CrashInPromisePreserves, ReturnPreserves
  DEF Epochs, RefuseNewEpoch
<1>4. CASE Refusals(n)
  BY <1>4, RefuseOutOfOrderPreserves, AbortCommittedBackwardPreserves,
     ReturnPreserves
  DEF Refusals, RefuseUnformatted, RefuseFenced
<1> QED
  BY <1>1, <1>2, <1>3, <1>4

\* The steps of a writer on its segment.
LEMMA SegmentStepPreserves ==
  ASSUME IInv, NEW n \in Node, Starting(n) \/ Journaling(n) \/ Finalizing(n)
  PROVE  Preserves(n)
<1>1. CASE Starting(n)
  BY <1>1, StartLogSegmentPreserves, StartLogSegmentNoSpacePreserves,
     RefuseStartLogSegmentPreserves, AbortStartLogSegmentPreserves,
     CrashInStartLogSegmentPreserves
  DEF Starting
<1>2. CASE Journaling(n)
  BY <1>2, RefuseJournalPreserves, JournalOutOfSyncPreserves, WritePreserves,
     WriteNoSpacePreserves
  DEF Journaling
<1>3. CASE Finalizing(n)
  BY <1>3, FinalizeLogSegmentPreserves, FinalizeAgainPreserves,
     RefuseFinalizePreserves, AbortFinalizePreserves, CrashInFinalizePreserves
  DEF Finalizing
<1> QED
  BY <1>1, <1>2, <1>3

\* The steps of a writer that recovers a segment.
LEMMA RecoveryStepPreserves ==
  ASSUME IInv, NEW n \in Node, Preparing(n) \/ Accepting(n)
  PROVE  Preserves(n)
<1>1. CASE Preparing(n)
  BY <1>1, PrepareRecoveryPreserves, AbortPrepareRecoveryPreserves,
     CrashInPrepareRecoveryPreserves
  DEF Preparing
<1>2. CASE Accepting(n)
  <2>1. PICK req \in Request, s \in Txid :
          \E body \in Proposal[req.epoch][s] :
            /\ End(s, body) <= MaxTxid
            /\ \/ AbortAcceptRecovery(n, req, s, End(s, body))
               \/ \E len \in Scanned(inProgress[n][s]) :
                    \/ AcceptInPlace(n, req, s, len, End(s, body))
                    \/ AcceptRecovery(n, req, s, len, End(s, body), body)
                    \/ FailAcceptRecovery(n, req, s, len, End(s, body), body)
                    \/ CrashInAcceptRecovery(n, req, s, len, End(s, body), body)
    BY <1>2 DEF Accepting
  <2>2. PICK body \in Proposal[req.epoch][s] :
          /\ End(s, body) <= MaxTxid
          /\ \/ AbortAcceptRecovery(n, req, s, End(s, body))
             \/ \E len \in Scanned(inProgress[n][s]) :
                  \/ AcceptInPlace(n, req, s, len, End(s, body))
                  \/ AcceptRecovery(n, req, s, len, End(s, body), body)
                  \/ FailAcceptRecovery(n, req, s, len, End(s, body), body)
                  \/ CrashInAcceptRecovery(n, req, s, len, End(s, body), body)
    BY <2>1
  <2>3. body \in Body /\ End(s, body) \in Txid
    BY <2>2, ProposalResult
  <2>4. CASE AbortAcceptRecovery(n, req, s, End(s, body))
    BY <2>3, <2>4, AbortAcceptRecoveryPreserves
  <2>5. CASE \E len \in Scanned(inProgress[n][s]) :
               \/ AcceptInPlace(n, req, s, len, End(s, body))
               \/ AcceptRecovery(n, req, s, len, End(s, body), body)
               \/ FailAcceptRecovery(n, req, s, len, End(s, body), body)
               \/ CrashInAcceptRecovery(n, req, s, len, End(s, body), body)
    BY <2>3, <2>5, AcceptInPlacePreserves, AcceptRecoveryPreserves,
       FailAcceptRecoveryPreserves, CrashInAcceptRecoveryPreserves
  <2> QED
    BY <2>2, <2>4, <2>5
<1> QED
  BY <1>1, <1>2

LEMMA NextPreserves == IInv /\ [Next]_vars => IInv'
<1> SUFFICES ASSUME IInv, [Next]_vars PROVE IInv'
  OBVIOUS
<1>1. ASSUME NEW n \in Node,
             \/ Lifecycle(n) \/ Formatting(n) \/ Epochs(n) \/ Refusals(n)
             \/ Starting(n)  \/ Journaling(n) \/ Finalizing(n)
             \/ Preparing(n) \/ Accepting(n)
      PROVE  IInv'
  BY <1>1, EpochStepPreserves, SegmentStepPreserves, RecoveryStepPreserves,
     StepPreserves
<1>2. CASE Next
  BY <1>1, <1>2 DEF Next
<1>3. CASE UNCHANGED vars
  BY <1>3, StutterPreserves
<1> QED
  BY <1>2, <1>3

THEOREM Invariant == Spec => []IInv
<1>1. Init => IInv
  BY InitIInv
<1>2. IInv /\ [Next]_vars => IInv'
  BY NextPreserves
<1> QED
  BY <1>1, <1>2, PTL DEF Spec

-----------------------------------------------------------------------------
(* What follows from it *)

\* Every variable keeps its type: cursors, serials and epochs stay within
\* what requests carry, and files are logs, blank or absent.
THEOREM TypeCorrect == Spec => []TypeOK
<1>1. IInv => TypeOK
  BY DEF IInv
<1> QED
  BY <1>1, Invariant, PTL

\* No segment txid is left behind by a segment that was closed, which is all
\* that keeps journal() from writing through a null curSegment.
THEOREM ClosedSegmentLeavesNoTxid == Spec => []NoTxidWithoutSegment
<1>1. IInv => NoTxidWithoutSegment
  BY DEF IInv, NodeInv, CursorOk, NoTxidWithoutSegment
<1> QED
  BY <1>1, Invariant, PTL

\* The file of the segment being written is in progress on disk and ends just
\* below nextTxId: what journal() acknowledged is what recovery will find.
THEOREM WritingIsOnDisk == Spec => []SegmentBeingWrittenIsOnDisk
<1>1. IInv => SegmentBeingWrittenIsOnDisk
  BY DEF IInv, NodeInv, CursorOk, SegmentBeingWrittenIsOnDisk
<1> QED
  BY <1>1, Invariant, PTL

\* The segment being written has no accepted decision for prepareRecovery to
\* compare with a log that has outgrown it.
THEOREM WritingIsUndecided == Spec => []NoDecisionOnSegmentBeingWritten
<1>1. IInv => NoDecisionOnSegmentBeingWritten
  BY DEF IInv, NodeInv, CursorOk, NoDecisionOnSegmentBeingWritten
<1> QED
  BY <1>1, Invariant, PTL

\* In whatever order the epoch files were written, none holds an epoch above
\* the promise that fences older writers.
THEOREM PromiseBoundsEpochs == Spec => []EpochsBelowPromise
<1>1. IInv => EpochsBelowPromise
  BY DEF IInv, NodeInv, EpochsOk, EpochsBelowPromise
<1> QED
  BY <1>1, Invariant, PTL

\* The end in the name of a finalized segment, which the manifest and a
\* recovering writer believe, is where its content ends.
THEOREM NamesTellEnds == Spec => []FinalizedEndsAsNamed
<1>1. IInv => FinalizedEndsAsNamed
  BY DEF IInv, NodeInv, NamesOk, FinalizedEndsAsNamed
<1> QED
  BY <1>1, Invariant, PTL

-----------------------------------------------------------------------------
(* What a step may never do *)

\* Every request of a writer that gets past checkRequest leaves the promise
\* at its epoch, whatever becomes of the request.
LEMMA WriterPromises ==
  ASSUME NEW n \in Node,
         \/ Starting(n)  \/ Journaling(n) \/ Finalizing(n)
         \/ Preparing(n) \/ Accepting(n)
  PROVE  \E req \in Request : Passes(n, req) /\ Promise(n, req.epoch)
<1>1. CASE Starting(n)
  BY <1>1 DEF Starting, StartLogSegment, StartLogSegmentNoSpace,
     RefuseStartLogSegment, AbortStartLogSegment, CrashInStartLogSegment
<1>2. CASE Journaling(n)
  BY <1>2 DEF Journaling, RefuseJournal, JournalOutOfSync, Write, WriteNoSpace,
     CanWrite
<1>3. CASE Finalizing(n)
  BY <1>3 DEF Finalizing, FinalizeLogSegment, FinalizeAgain, RefuseFinalize,
     AbortFinalize, CrashInFinalize
<1>4. CASE Preparing(n)
  BY <1>4 DEF Preparing, PrepareRecovery, AbortPrepareRecovery,
     CrashInPrepareRecovery
<1>5. CASE Accepting(n)
  BY <1>5 DEF Accepting, AbortAcceptRecovery, AcceptInPlace, AcceptRecovery,
     FailAcceptRecovery, CrashInAcceptRecovery, Admitted
<1> QED
  BY <1>1, <1>2, <1>3, <1>4, <1>5

PromiseKept(n) ==
  \/ promised'[n] = Torn
  \/ promised[n] # Torn /\ promised'[n] >= promised[n]
  \/ Wiped(n)

\* A promise that stays is kept.
LEMMA SamePromiseIsKept ==
  ASSUME DiskTypeOK, NEW m \in Node, promised'[m] = promised[m]
  PROVE  PromiseKept(m)
BY EpochsAreIntegers DEF PromiseKept

\* One that is not torn and is overwritten with a later epoch, too.
LEMMA LaterPromiseIsKept ==
  ASSUME DiskTypeOK, NEW n \in Node, NEW e \in Epoch \cup {Torn},
         promised[n] # Torn, e # Torn => promised[n] <= e, Promise(n, e)
  PROVE  PromiseKept(n)
<1>1. promised'[n] = e
  BY PromiseResult
<1>2. CASE e = Torn
  BY <1>1, <1>2 DEF PromiseKept
<1>3. CASE e # Torn
  <2>1. promised[n] \in Int /\ e \in Int /\ promised[n] <= e
    BY <1>3, EpochsAreIntegers, BoundsAssumption DEF Epoch
  <2> QED
    BY <1>1, <2>1 DEF PromiseKept
<1> QED
  BY <1>2, <1>3

LEMMA EpochStepKeepsPromise ==
  ASSUME IInv, NEW n \in Node,
         Lifecycle(n) \/ Formatting(n) \/ Epochs(n) \/ Refusals(n)
  PROVE  PromiseKept(n)
<1>1. DiskTypeOK
  BY DEF IInv, TypeOK
<1>2. CASE Lifecycle(n)
  <2>1. promised' = promised
    BY <1>2 DEF Lifecycle, Crash, Load, LoadFails, disk
  <2> QED BY <1>1, <2>1, SamePromiseIsKept
<1>3. CASE Formatting(n)
  BY <1>3 DEF Formatting, PromiseKept, Wiped
<1>4. CASE Epochs(n)
  <2>1. ASSUME NEW ns \in Namespace, NEW e \in Epoch, RefuseNewEpoch(n, ns, e)
        PROVE  PromiseKept(n)
    BY <1>1, <2>1, SamePromiseIsKept DEF RefuseNewEpoch, disk
  <2>2. ASSUME NEW ns \in Namespace, NEW e \in Epoch, NewEpoch(n, ns, e)
        PROVE  PromiseKept(n)
    <3>1. promised[n] # Torn /\ e > promised[n] /\ Promise(n, e)
      BY <2>2 DEF NewEpoch
    <3>2. promised[n] <= e
      BY <1>1, <3>1, EpochsAreIntegers, BoundsAssumption DEF Epoch
    <3> QED BY <1>1, <3>1, <3>2, LaterPromiseIsKept
  <2>3. ASSUME NEW e \in Epoch, CrashInPromise(n, e)
        PROVE  PromiseKept(n)
    <3>1. PICK value \in {Torn, e} :
            promised[n] # Torn /\ e > promised[n] /\ Promise(n, value)
      BY <2>3 DEF CrashInPromise
    <3>2. promised[n] <= e
      BY <1>1, <3>1, EpochsAreIntegers, BoundsAssumption DEF Epoch
    <3> QED BY <1>1, <3>1, <3>2, LaterPromiseIsKept
  <2> QED BY <1>4, <2>1, <2>2, <2>3 DEF Epochs
<1>5. CASE Refusals(n)
  <2>1. ASSUME NEW req \in Request, Formatted(n), ~Fenced(n, req.epoch),
               Promise(n, req.epoch)
        PROVE  PromiseKept(n)
    <3>1. /\ promised[n] # Torn /\ ~(req.epoch < promised[n])
          /\ promised[n] \in Int /\ req.epoch \in Int /\ req.epoch \in Epoch
      BY <1>1, <2>1, EpochsAreIntegers, RequestType DEF Fenced
    <3>2. promised[n] <= req.epoch
      BY <3>1
    <3> QED BY <1>1, <2>1, <3>1, <3>2, LaterPromiseIsKept
  <2>2. CASE \E req \in Request :
               RefuseOutOfOrder(n, req) \/ AbortCommittedBackward(n, req)
    BY <2>1, <2>2 DEF RefuseOutOfOrder, AbortCommittedBackward
  <2>3. CASE RefuseUnformatted(n) \/ \E req \in Request : RefuseFenced(n, req)
    BY <1>1, <2>3, SamePromiseIsKept DEF RefuseUnformatted, RefuseFenced, disk
  <2> QED BY <1>5, <2>2, <2>3 DEF Refusals
<1> QED
  BY <1>2, <1>3, <1>4, <1>5

LEMMA WriterStepKeepsPromise ==
  ASSUME IInv, NEW n \in Node,
         \/ Starting(n)  \/ Journaling(n) \/ Finalizing(n)
         \/ Preparing(n) \/ Accepting(n)
  PROVE  PromiseKept(n)
<1>1. PICK req \in Request : Passes(n, req) /\ Promise(n, req.epoch)
  BY WriterPromises
<1>2. promised[n] # Torn /\ promised[n] <= req.epoch
  BY <1>1, PassesResult DEF IInv, TypeOK
<1> QED
  BY <1>1, <1>2, RequestType, LaterPromiseIsKept DEF IInv, TypeOK

\* A promise, once whole on disk, is never lowered by any request, refusal,
\* crash or restart; it is at worst torn, and then refuses everything.
THEOREM PromiseIsKept == Spec => PromiseNeverRegresses
<1>1. ASSUME IInv, [Next]_vars PROVE \A m \in Node : PromiseKept(m)
  <2>1. DiskTypeOK
    BY <1>1 DEF IInv, TypeOK
  <2>2. ASSUME NEW n \in Node,
               \/ Lifecycle(n) \/ Formatting(n) \/ Epochs(n) \/ Refusals(n)
               \/ Starting(n)  \/ Journaling(n) \/ Finalizing(n)
               \/ Preparing(n) \/ Accepting(n)
        PROVE  \A m \in Node : PromiseKept(m)
    <3>1. PromiseKept(n)
      BY <1>1, <2>2, EpochStepKeepsPromise, WriterStepKeepsPromise
    <3>2. Preserves(n)
      BY <1>1, <2>2, EpochStepPreserves, SegmentStepPreserves,
         RecoveryStepPreserves
    <3>3. ASSUME NEW m \in Node \ {n} PROVE PromiseKept(m)
      BY <2>1, <3>2, SamePromiseIsKept DEF Preserves, DiskSameAt
    <3> QED BY <3>1, <3>3
  <2>3. CASE UNCHANGED vars
    BY <2>1, <2>3, SamePromiseIsKept DEF vars, disk
  <2> QED
    BY <1>1, <2>2, <2>3 DEF Next
<1>2. IInv /\ [Next]_vars =>
        [\A n \in Node :
           \/ promised'[n] = Torn
           \/ promised[n] # Torn /\ promised'[n] >= promised[n]
           \/ Wiped(n)]_vars
  BY <1>1 DEF PromiseKept
<1> QED
  BY <1>2, Invariant, PTL DEF Spec, PromiseNeverRegresses

\* What the fencing theorem asks of the node that takes a step.
AppendsAsWriter(n) ==
  \/ writer'[n] = promised'[n]
  \/ \A s \in Txid : \/ inProgress'[n][s] \in {inProgress[n][s], NoFile, Blank}
                     \/ paxos'[n][s] # NoFile

\* The crashes and refusals of a segment's writer, and its recovery, append
\* nothing but what a decision covers.
LEMMA EpochStepAppends ==
  ASSUME IInv, NEW n \in Node,
         Lifecycle(n) \/ Formatting(n) \/ Epochs(n) \/ Refusals(n)
  PROVE  AppendsAsWriter(n)
<1>1. DiskTypeOK
  BY DEF IInv, TypeOK
<1>2. ASSUME NEW aside, MoveAside(n, aside) PROVE AppendsAsWriter(n)
  BY <1>1, <1>2 DEF MoveAside, DiskTypeOK, AppendsAsWriter
<1>3. ASSUME Wipe(n) PROVE AppendsAsWriter(n)
  BY <1>1, <1>3 DEF Wipe, NoLogs, DiskTypeOK, AppendsAsWriter
<1>4. ASSUME UNCHANGED inProgress PROVE AppendsAsWriter(n)
  BY <1>4 DEF AppendsAsWriter
<1>5. CASE Lifecycle(n)
  BY <1>2, <1>4, <1>5 DEF Lifecycle, Crash, Load, LoadFails, disk, logs
<1>6. CASE Formatting(n)
  BY <1>3, <1>6 DEF Formatting, Format, CrashInFormat
<1>7. CASE Epochs(n)
  BY <1>2, <1>4, <1>7
  DEF Epochs, NewEpoch, RefuseNewEpoch, CrashInPromise, disk, logs
<1>8. CASE Refusals(n)
  BY <1>4, <1>8 DEF Refusals, RefuseUnformatted, RefuseFenced,
     RefuseOutOfOrder, AbortCommittedBackward, disk, logs
<1> QED
  BY <1>5, <1>6, <1>7, <1>8

LEMMA SegmentStepAppends ==
  ASSUME IInv, NEW n \in Node, Starting(n) \/ Journaling(n) \/ Finalizing(n)
  PROVE  AppendsAsWriter(n)
<1>1. DiskTypeOK
  BY DEF IInv, TypeOK
<1>2. ASSUME UNCHANGED inProgress PROVE AppendsAsWriter(n)
  BY <1>2 DEF AppendsAsWriter
<1>3. ASSUME NEW s \in Txid, NEW file \in {inProgress[n][s], NoFile, Blank},
             inProgress' = [inProgress EXCEPT ![n][s] = file]
      PROVE  AppendsAsWriter(n)
  BY <1>1, <1>3 DEF DiskTypeOK, AppendsAsWriter
<1>4. ASSUME NEW req \in Request, Promise(n, req.epoch),
             writer' = [writer EXCEPT ![n] = req.epoch]
      PROVE  AppendsAsWriter(n)
  BY <1>1, <1>4 DEF Promise, DiskTypeOK, AppendsAsWriter
<1>5. CASE Starting(n)
  <2>1. PICK req \in Request, s \in Txid :
          \/ StartLogSegment(n, req, s) \/ StartLogSegmentNoSpace(n, req, s)
          \/ RefuseStartLogSegment(n, req, s) \/ AbortStartLogSegment(n, req, s)
          \/ CrashInStartLogSegment(n, req, s)
    BY <1>5 DEF Starting
  <2>2. CASE \/ StartLogSegment(n, req, s) \/ StartLogSegmentNoSpace(n, req, s)
    BY <1>4, <2>2 DEF StartLogSegment, StartLogSegmentNoSpace
  <2>3. CASE RefuseStartLogSegment(n, req, s) \/ AbortStartLogSegment(n, req, s)
    BY <1>2, <2>3 DEF RefuseStartLogSegment, AbortStartLogSegment, logs
  <2>4. CASE CrashInStartLogSegment(n, req, s)
    BY <1>2, <1>4, <2>4 DEF CrashInStartLogSegment
  <2> QED BY <2>1, <2>2, <2>3, <2>4
<1>6. CASE Journaling(n)
  <2>1. ASSUME NEW req \in Request, NEW s \in Txid, NEW first \in Txid,
               NEW recs \in Records,
               \/ Write(n, req, s, first, recs)
               \/ WriteNoSpace(n, req, s, first, recs)
        PROVE  AppendsAsWriter(n)
    <3>1. writer[n] = req.epoch /\ Promise(n, req.epoch) /\ writer' = writer
      BY <2>1 DEF Write, WriteNoSpace, CanWrite
    <3> QED BY <1>1, <3>1 DEF Promise, DiskTypeOK, AppendsAsWriter
  <2>2. ASSUME NEW req \in Request, NEW s \in Txid, NEW first \in Txid,
               RefuseJournal(n, req, s, first) \/ JournalOutOfSync(n, req, s)
        PROVE  AppendsAsWriter(n)
    BY <1>2, <2>2 DEF RefuseJournal, JournalOutOfSync, logs
  <2>3. CASE \E req \in Request, s \in Txid : JournalOutOfSync(n, req, s)
    BY <1>2, <2>3 DEF JournalOutOfSync, logs
  <2> QED BY <1>6, <2>1, <2>2, <2>3 DEF Journaling
<1>7. CASE Finalizing(n)
  <2>1. PICK req \in Request, s \in Txid : \E end \in s..MaxTxid :
          \/ FinalizeLogSegment(n, req, s, end) \/ FinalizeAgain(n, req, s, end)
          \/ RefuseFinalize(n, req, s, end) \/ AbortFinalize(n, req, s, end)
          \/ CrashInFinalize(n, req, s, end)
    BY <1>7 DEF Finalizing
  <2>2. CASE \E end \in s..MaxTxid :
               FinalizeLogSegment(n, req, s, end) \/ CrashInFinalize(n, req, s, end)
    BY <1>3, <2>2 DEF FinalizeLogSegment, CrashInFinalize, Rename
  <2>3. CASE \E end \in s..MaxTxid :
               \/ FinalizeAgain(n, req, s, end) \/ RefuseFinalize(n, req, s, end)
               \/ AbortFinalize(n, req, s, end)
    BY <1>2, <2>3 DEF FinalizeAgain, RefuseFinalize, AbortFinalize, logs
  <2> QED BY <2>1, <2>2, <2>3
<1> QED
  BY <1>5, <1>6, <1>7

LEMMA PreparingAppends ==
  ASSUME IInv, NEW n \in Node, Preparing(n)
  PROVE  AppendsAsWriter(n)
<1>1. DiskTypeOK
  BY DEF IInv, TypeOK
<1>2. ASSUME NEW s \in Txid, NEW len, RollForward(n, s, len), paxos' = paxos
      PROVE  AppendsAsWriter(n)
  <2>1. CASE HalfDone(n, s)
    <3>1. paxos'[n][s] # NoFile
      BY <1>2, <2>1 DEF HalfDone
    <3>2. \A t \in Txid \ {s} : inProgress'[n][t] = inProgress[n][t]
      BY <1>1, <1>2 DEF RollForward, DiskTypeOK
    <3> QED BY <3>1, <3>2 DEF AppendsAsWriter
  <2>2. CASE ~HalfDone(n, s)
    BY <1>1, <1>2, <2>2
    DEF RollForward, RolledForward, Kept, DiskTypeOK, AppendsAsWriter
  <2> QED BY <2>1, <2>2
<1>3. ASSUME NEW req \in Request, NEW s \in Txid,
             \/ PrepareRecovery(n, req, s) \/ AbortPrepareRecovery(n, req, s)
      PROVE  AppendsAsWriter(n)
  BY <1>2, <1>3 DEF PrepareRecovery, AbortPrepareRecovery
<1>4. ASSUME NEW req \in Request, NEW s \in Txid, CrashInPrepareRecovery(n, req, s)
      PROVE  AppendsAsWriter(n)
  BY <1>1, <1>4 DEF CrashInPrepareRecovery, DiskTypeOK, AppendsAsWriter
<1> QED
  BY <1>3, <1>4 DEF Preparing

LEMMA AcceptingAppends ==
  ASSUME IInv, NEW n \in Node, Accepting(n)
  PROVE  AppendsAsWriter(n)
<1>1. DiskTypeOK
  BY DEF IInv, TypeOK
<1>2. ASSUME NEW s \in Txid, NEW len,
             \E file \in {Kept(n, s, inProgress[n][s], len), NoFile} :
               inProgress' = [inProgress EXCEPT ![n][s] = file]
      PROVE  AppendsAsWriter(n)
  BY <1>1, <1>2 DEF Kept, DiskTypeOK, AppendsAsWriter
<1>3. ASSUME NEW req \in Request, NEW s \in Txid, NEW len, NEW end, NEW body,
             \/ FailAcceptRecovery(n, req, s, len, end, body)
             \/ CrashInAcceptRecovery(n, req, s, len, end, body)
      PROVE  AppendsAsWriter(n)
  BY <1>1, <1>2, <1>3 DEF FailAcceptRecovery, CrashInAcceptRecovery, DiskTypeOK
<1>4. ASSUME NEW req \in Request, NEW s \in Txid, NEW end,
             AbortAcceptRecovery(n, req, s, end)
      PROVE  AppendsAsWriter(n)
  BY <1>1, <1>2, <1>4 DEF AbortAcceptRecovery, DiskTypeOK
<1>5. ASSUME NEW req \in Request, NEW s \in Txid, NEW len, NEW end,
             AcceptInPlace(n, req, s, len, end)
      PROVE  AppendsAsWriter(n)
  BY <1>5 DEF AcceptInPlace, AppendsAsWriter
<1>6. ASSUME NEW req \in Request, NEW s \in Txid, NEW len, NEW end \in Txid,
             NEW body, AcceptRecovery(n, req, s, len, end, body)
      PROVE  AppendsAsWriter(n)
  <2>1. paxos'[n][s] # NoFile
    <3>1. paxos'[n][s] = [epoch |-> req.epoch, end |-> end]
      BY <1>1, <1>6 DEF AcceptRecovery, Decide, DiskTypeOK
    <3>2. req.epoch \in Epoch
      BY RequestType
    <3> QED BY <3>1, <3>2, AbsentAssumption
  <2>2. \A t \in Txid \ {s} : inProgress'[n][t] = inProgress[n][t]
    BY <1>1, <1>6 DEF AcceptRecovery, DiskTypeOK
  <2> QED BY <2>1, <2>2 DEF AppendsAsWriter
<1> QED
  BY <1>3, <1>4, <1>5, <1>6, ProposalResult DEF Accepting

\* A log without a decision grows only in the hands of the writer that holds
\* the promise: a fenced writer appends nothing, not even a part of a batch.
THEOREM FencedWriterIsSilent == Spec => FencedWriterNeverAppends
<1>1. ASSUME IInv, [Next]_vars PROVE \A m \in Node : AppendsAsWriter(m)
  <2>1. ASSUME NEW n \in Node,
               \/ Lifecycle(n) \/ Formatting(n) \/ Epochs(n) \/ Refusals(n)
               \/ Starting(n)  \/ Journaling(n) \/ Finalizing(n)
               \/ Preparing(n) \/ Accepting(n)
        PROVE  \A m \in Node : AppendsAsWriter(m)
    <3>1. AppendsAsWriter(n)
      BY <1>1, <2>1, EpochStepAppends, SegmentStepAppends, PreparingAppends,
         AcceptingAppends
    <3>2. Preserves(n)
      BY <1>1, <2>1, EpochStepPreserves, SegmentStepPreserves,
         RecoveryStepPreserves
    <3>3. ASSUME NEW m \in Node \ {n} PROVE AppendsAsWriter(m)
      BY <3>2 DEF Preserves, DiskSameAt, AppendsAsWriter
    <3> QED BY <3>1, <3>3
  <2>2. CASE UNCHANGED vars
    BY <2>2 DEF vars, disk, logs, AppendsAsWriter
  <2> QED
    BY <1>1, <2>1, <2>2 DEF Next
<1>2. ASSUME IInv, NEW n \in Node, NEW s \in Txid, AppendsAsWriter(n),
             IsLog(inProgress[n][s]), IsLog(inProgress'[n][s]),
             Len(inProgress'[n][s]) > Len(inProgress[n][s]),
             paxos'[n][s] = NoFile
      PROVE  writer'[n] = promised'[n]
  <2>1. inProgress[n][s] \in Seq(Payload)
    BY <1>2 DEF IInv, TypeOK, DiskTypeOK, IsLog, Body
  <2>2. inProgress'[n][s] # inProgress[n][s]
    BY <1>2, <2>1
  <2> QED
    BY <1>2, <2>2 DEF AppendsAsWriter, IsLog
<1>3. IInv /\ [Next]_vars =>
        [\A n \in Node, s \in Txid :
           /\ IsLog(inProgress[n][s]) /\ IsLog(inProgress'[n][s])
           /\ Len(inProgress'[n][s]) > Len(inProgress[n][s])
           /\ paxos'[n][s] = NoFile
           => writer'[n] = promised'[n]]_vars
  BY <1>1, <1>2
<1> QED
  BY <1>3, Invariant, PTL DEF Spec, FencedWriterNeverAppends


-----------------------------------------------------------------------------
(* What becomes of a log and of a decision *)

LogSpared(n, s) ==
  IsLog(inProgress[n][s]) /\ Len(inProgress[n][s]) >= 2 =>
    \/ /\ IsLog(inProgress'[n][s])
       /\ Len(inProgress'[n][s]) >= Len(inProgress[n][s])
       /\ SubSeq(inProgress'[n][s], 1, Len(inProgress[n][s])) = inProgress[n][s]
    \/ finalized'[n][s] # NoFile /\ finalized'[n][s].body = inProgress[n][s]
    \/ paxos'[n][s] # NoFile

DecisionSpared(n, s) ==
  paxos[n][s] # NoFile =>
    \/ paxos'[n][s] # NoFile /\ paxos'[n][s].epoch >= paxos[n][s].epoch
    \/ finalized'[n][s] # NoFile
    \/ MayStart(n, s) /\ writer'[n] = promised'[n]

CommittedSpared(n, s) ==
  /\ HasTxns(n, s) /\ committed'[n] \in s..LastTxid(n, s)
  /\ paxos'[n][s] # NoFile /\ paxos'[n][s] # paxos[n][s]
  => HasTxns(n, s)' /\ committed'[n] <= LastTxid(n, s)'

Spared(n) ==
  \/ Wiped(n)
  \/ \A s \in Txid : LogSpared(n, s) /\ DecisionSpared(n, s) /\ CommittedSpared(n, s)

\* A log is the beginning of itself and of what is appended to it.
LEMMA LogBegins ==
  ASSUME NEW log \in Body, NEW recs \in Body
  PROVE  SubSeq(log, 1, Len(log)) = log /\ SubSeq(log \o recs, 1, Len(log)) = log
BY SubSeqFull, SubSeqOfConcat1, ConcatEmptySeq DEF Body

\* Files that stay are spared.
LEMMA SameLogSpared ==
  ASSUME DiskTypeOK, NEW n \in Node, NEW s \in Txid,
         inProgress'[n][s] = inProgress[n][s]
  PROVE  LogSpared(n, s)
<1>1. CASE IsLog(inProgress[n][s])
  <2>1. inProgress[n][s] \in Body /\ <<>> \in Body
    BY <1>1, EmptySeq DEF DiskTypeOK, IsLog, Body
  <2>2. Len(inProgress[n][s]) \in Nat
    BY <2>1, LenProperties DEF Body
  <2> QED BY <1>1, <2>1, <2>2, LogBegins DEF LogSpared
<1>2. CASE ~IsLog(inProgress[n][s])
  BY <1>2 DEF LogSpared
<1> QED BY <1>1, <1>2

LEMMA SameDecisionSpared ==
  ASSUME DiskTypeOK, NEW n \in Node, NEW s \in Txid,
         paxos'[n][s] = paxos[n][s]
  PROVE  DecisionSpared(n, s) /\ CommittedSpared(n, s)
<1>1. paxos[n][s] # NoFile => paxos[n][s].epoch \in Int
  BY BoundsAssumption DEF DiskTypeOK, Decision, Epoch
<1> QED
  BY <1>1 DEF DecisionSpared, CommittedSpared

LEMMA SameFilesSpared ==
  ASSUME DiskTypeOK, NEW n \in Node, inProgress'[n] = inProgress[n],
         paxos'[n] = paxos[n]
  PROVE  Spared(n)
BY SameLogSpared, SameDecisionSpared DEF Spared

\* A step on the files of one segment.
LEMMA OneSegmentSpared ==
  ASSUME DiskTypeOK, NEW n \in Node, NEW s \in Txid,
         \A t \in Txid \ {s} : /\ inProgress'[n][t] = inProgress[n][t]
                               /\ paxos'[n][t] = paxos[n][t],
         LogSpared(n, s), DecisionSpared(n, s), CommittedSpared(n, s)
  PROVE  Spared(n)
BY SameLogSpared, SameDecisionSpared DEF Spared

\* A file that a scan moves aside, or that may be started again, holds less
\* than two transactions.
LEMMA MovedAsideSpared ==
  ASSUME DiskTypeOK, NEW n \in Node, NEW scan \in ScanOutcomes(n),
         MoveAside(n, scan.aside), paxos' = paxos
  PROVE  Spared(n)
<1>1. scan.aside \subseteq Vacant(n)
  BY DEF ScanOutcomes
<1>2. ASSUME NEW s \in Txid PROVE LogSpared(n, s)
  <2>1. CASE s \in scan.aside
    <3>1. ~HasTxns(n, s)
      BY <1>1, <2>1 DEF Vacant, Txid
    <3>2. inProgress[n][s] \in {NoFile, Blank, <<>>}
      BY <3>1 DEF HasTxns
    <3> QED BY <3>2 DEF LogSpared, IsLog
  <2>2. CASE s \notin scan.aside
    BY <2>2, SameLogSpared DEF MoveAside, DiskTypeOK
  <2> QED BY <2>1, <2>2
<1> QED
  BY <1>2, SameDecisionSpared DEF Spared

LEMMA StartableSpared ==
  ASSUME DiskTypeOK, NEW n \in Node, NEW s \in Txid, MayStart(n, s)
  PROVE  LogSpared(n, s)
<1>1. CASE IsLog(inProgress[n][s])
  <2>1. Len(inProgress[n][s]) = 1
    BY <1>1 DEF MayStart, Scanned, IsLog
  <2> QED BY <2>1 DEF LogSpared
<1>2. CASE ~IsLog(inProgress[n][s])
  BY <1>2 DEF LogSpared
<1> QED BY <1>1, <1>2

\* A file that getSegmentInfo looked at is a log or was empty.
LEMMA KeptSpared ==
  ASSUME DiskTypeOK, NEW n \in Node, NEW s \in Txid,
         NEW len \in Scanned(inProgress[n][s]),
         inProgress'[n][s] = Kept(n, s, inProgress[n][s], len)
  PROVE  LogSpared(n, s)
<1>1. CASE len = 0 /\ IsLog(inProgress[n][s])
  BY <1>1 DEF Scanned, IsLog, LogSpared
<1>2. CASE ~IsLog(inProgress[n][s])
  BY <1>2 DEF LogSpared
<1>3. CASE len # 0
  BY <1>3, SameLogSpared DEF Kept
<1> QED BY <1>1, <1>2, <1>3

LEMMA EpochStepSpares ==
  ASSUME IInv, NEW n \in Node,
         Lifecycle(n) \/ Formatting(n) \/ Epochs(n) \/ Refusals(n)
  PROVE  Spared(n)
<1>1. DiskTypeOK
  BY DEF IInv, TypeOK
<1>2. ASSUME UNCHANGED <<inProgress, paxos>> PROVE Spared(n)
  BY <1>1, <1>2, SameFilesSpared
<1>3. CASE Lifecycle(n)
  BY <1>1, <1>2, <1>3, MovedAsideSpared
  DEF Lifecycle, Crash, Load, LoadFails, disk, logs
<1>4. CASE Formatting(n)
  BY <1>4 DEF Formatting, Spared, Wiped
<1>5. CASE Epochs(n)
  BY <1>1, <1>2, <1>5, MovedAsideSpared
  DEF Epochs, NewEpoch, RefuseNewEpoch, CrashInPromise, disk, logs
<1>6. CASE Refusals(n)
  BY <1>2, <1>6 DEF Refusals, RefuseUnformatted, RefuseFenced,
     RefuseOutOfOrder, AbortCommittedBackward, disk, logs
<1> QED
  BY <1>3, <1>4, <1>5, <1>6

LEMMA StartingSpares ==
  ASSUME IInv, NEW n \in Node, Starting(n)
  PROVE  Spared(n)
<1>1. DiskTypeOK
  BY DEF IInv, TypeOK
<1>2. ASSUME NEW req \in Request, NEW s \in Txid, MayStart(n, s),
             Promise(n, req.epoch), writer' = [writer EXCEPT ![n] = req.epoch],
             \/ paxos' = paxos
             \/ paxos' = [paxos EXCEPT ![n][s] = NoFile],
             \/ inProgress' = inProgress
             \/ \E file : inProgress' = [inProgress EXCEPT ![n][s] = file]
      PROVE  Spared(n)
  <2>1. writer'[n] = promised'[n]
    BY <1>1, <1>2 DEF Promise, DiskTypeOK
  <2>2. DecisionSpared(n, s)
    BY <1>2, <2>1 DEF DecisionSpared
  <2>3. CommittedSpared(n, s)
    BY <1>1, <1>2 DEF CommittedSpared, DiskTypeOK
  <2>4. \A t \in Txid \ {s} : /\ inProgress'[n][t] = inProgress[n][t]
                              /\ paxos'[n][t] = paxos[n][t]
    BY <1>1, <1>2 DEF DiskTypeOK
  <2> QED BY <1>1, <1>2, <2>2, <2>3, <2>4, StartableSpared, OneSegmentSpared
<1>3. ASSUME UNCHANGED <<inProgress, paxos>> PROVE Spared(n)
  BY <1>1, <1>3, SameFilesSpared
<1>4. PICK req \in Request, s \in Txid :
        \/ StartLogSegment(n, req, s) \/ StartLogSegmentNoSpace(n, req, s)
        \/ RefuseStartLogSegment(n, req, s) \/ AbortStartLogSegment(n, req, s)
        \/ CrashInStartLogSegment(n, req, s)
  BY DEF Starting
<1>5. CASE StartLogSegment(n, req, s) \/ StartLogSegmentNoSpace(n, req, s)
  BY <1>2, <1>5 DEF StartLogSegment, StartLogSegmentNoSpace, OpenSegment
<1>6. CASE RefuseStartLogSegment(n, req, s) \/ AbortStartLogSegment(n, req, s)
  BY <1>3, <1>6 DEF RefuseStartLogSegment, AbortStartLogSegment, logs
<1>7. CASE CrashInStartLogSegment(n, req, s)
  <2>1. \/ UNCHANGED <<inProgress, paxos>>
        \/ /\ writer' = [writer EXCEPT ![n] = req.epoch]
           /\ paxos' = [paxos EXCEPT ![n][s] = NoFile]
           /\ \E file : inProgress' = [inProgress EXCEPT ![n][s] = file]
    BY <1>7 DEF CrashInStartLogSegment
  <2> QED BY <1>2, <1>3, <1>7, <2>1 DEF CrashInStartLogSegment
<1> QED
  BY <1>4, <1>5, <1>6, <1>7

LEMMA JournalingSpares ==
  ASSUME IInv, NEW n \in Node, Journaling(n)
  PROVE  Spared(n)
<1>1. DiskTypeOK
  BY DEF IInv, TypeOK
<1>2. ASSUME NEW s \in Txid, NEW recs \in Body, paxos' = paxos,
             inProgress' = [inProgress EXCEPT ![n][s] = Written(@, recs)]
      PROVE  Spared(n)
  <2>1. inProgress'[n][s] = Written(inProgress[n][s], recs)
    BY <1>1, <1>2 DEF DiskTypeOK
  <2>2. LogSpared(n, s)
    <3>1. CASE IsLog(inProgress[n][s])
      <4>1. /\ inProgress[n][s] \in Body
            /\ inProgress'[n][s] = inProgress[n][s] \o recs
        BY <1>1, <2>1, <3>1 DEF DiskTypeOK, IsLog, Written
      <4>2. /\ inProgress'[n][s] \in Body
            /\ Len(inProgress'[n][s]) = Len(inProgress[n][s]) + Len(recs)
            /\ Len(inProgress[n][s]) \in Nat /\ Len(recs) \in Nat
        BY <1>2, <4>1, ConcatProperties, LenProperties DEF Body
      <4>3. IsLog(inProgress'[n][s])
        BY <4>2, AbsentAssumption DEF IsLog
      <4>4. SubSeq(inProgress'[n][s], 1, Len(inProgress[n][s])) = inProgress[n][s]
        BY <1>2, <4>1, LogBegins
      <4> QED BY <4>2, <4>3, <4>4 DEF LogSpared
    <3>2. CASE ~IsLog(inProgress[n][s])
      BY <3>2 DEF LogSpared
    <3> QED BY <3>1, <3>2
  <2>3. \A t \in Txid \ {s} : /\ inProgress'[n][t] = inProgress[n][t]
                              /\ paxos'[n][t] = paxos[n][t]
    BY <1>1, <1>2 DEF DiskTypeOK
  <2> QED BY <1>1, <1>2, <2>2, <2>3, SameDecisionSpared, OneSegmentSpared
<1>3. ASSUME UNCHANGED <<inProgress, paxos>> PROVE Spared(n)
  BY <1>1, <1>3, SameFilesSpared
<1>4. ASSUME NEW req \in Request, NEW s \in Txid, NEW first \in Txid,
             NEW recs \in Records, Write(n, req, s, first, recs)
      PROVE  Spared(n)
  BY <1>2, <1>4, LogAssumption DEF Write
<1>5. ASSUME NEW req \in Request, NEW s \in Txid, NEW first \in Txid,
             NEW recs \in Records, WriteNoSpace(n, req, s, first, recs)
      PROVE  Spared(n)
  <2>1. PICK k \in 0..Len(recs) :
          inProgress' = [inProgress EXCEPT ![n][s] =
                           Written(@, SubSeq(recs, 1, k))]
    BY <1>5 DEF WriteNoSpace
  <2>2. recs \in Body
    BY LogAssumption
  <2>3. SubSeq(recs, 1, k) \in Body
    BY <2>2, PrefixIsBody
  <2> QED BY <1>2, <1>5, <2>1, <2>3 DEF WriteNoSpace
<1>6. ASSUME NEW req \in Request, NEW s \in Txid,
             \/ \E first \in Txid : RefuseJournal(n, req, s, first)
             \/ JournalOutOfSync(n, req, s)
      PROVE  Spared(n)
  BY <1>3, <1>6 DEF RefuseJournal, JournalOutOfSync, logs
<1> QED
  BY <1>4, <1>5, <1>6 DEF Journaling

LEMMA FinalizingSpares ==
  ASSUME IInv, NEW n \in Node, Finalizing(n)
  PROVE  Spared(n)
<1>1. DiskTypeOK
  BY DEF IInv, TypeOK
<1>2. PICK req \in Request, s \in Txid : \E end \in s..MaxTxid :
        \/ FinalizeLogSegment(n, req, s, end) \/ FinalizeAgain(n, req, s, end)
        \/ RefuseFinalize(n, req, s, end) \/ AbortFinalize(n, req, s, end)
        \/ CrashInFinalize(n, req, s, end)
  BY DEF Finalizing
<1>3. ASSUME NEW end \in s..MaxTxid, MayFinalize(n, s, end), Rename(n, s, end),
             paxos' = paxos \/ paxos' = [paxos EXCEPT ![n][s] = NoFile]
      PROVE  Spared(n)
  <2>1. finalized'[n][s] = [end |-> end, body |-> inProgress[n][s]]
    BY <1>1, <1>3 DEF Rename, DiskTypeOK
  <2>2. finalized'[n][s] # NoFile
    BY <1>3, <2>1, MayFinalizeResult, AbsentAssumption
  <2>3. LogSpared(n, s) /\ DecisionSpared(n, s)
    BY <2>1, <2>2 DEF LogSpared, DecisionSpared
  <2>4. CommittedSpared(n, s)
    BY <1>1, <1>3 DEF CommittedSpared, DiskTypeOK
  <2>5. \A t \in Txid \ {s} : /\ inProgress'[n][t] = inProgress[n][t]
                              /\ paxos'[n][t] = paxos[n][t]
    BY <1>1, <1>3 DEF Rename, DiskTypeOK
  <2> QED BY <1>1, <2>3, <2>4, <2>5, OneSegmentSpared
<1>4. ASSUME NEW end, FinalizeAgain(n, req, s, end) PROVE Spared(n)
  <2>1. finalized[n][s] # NoFile /\ finalized' = finalized
    BY <1>4 DEF FinalizeAgain, OnlyFinalized
  <2>2. inProgress' = inProgress /\ paxos' = [paxos EXCEPT ![n][s] = NoFile]
    BY <1>4 DEF FinalizeAgain
  <2>3. LogSpared(n, s)
    BY <1>1, <2>2, SameLogSpared
  <2>4. DecisionSpared(n, s) /\ CommittedSpared(n, s)
    BY <1>1, <2>1, <2>2 DEF DecisionSpared, CommittedSpared, DiskTypeOK
  <2>5. \A t \in Txid \ {s} : /\ inProgress'[n][t] = inProgress[n][t]
                              /\ paxos'[n][t] = paxos[n][t]
    BY <1>1, <2>2 DEF DiskTypeOK
  <2> QED BY <1>1, <2>3, <2>4, <2>5, OneSegmentSpared
<1>5. ASSUME NEW end \in s..MaxTxid, FinalizeLogSegment(n, req, s, end)
      PROVE  Spared(n)
  BY <1>3, <1>5 DEF FinalizeLogSegment
<1>6. ASSUME NEW end \in s..MaxTxid, CrashInFinalize(n, req, s, end)
      PROVE  Spared(n)
  BY <1>3, <1>6 DEF CrashInFinalize
<1>7. ASSUME NEW end,
             RefuseFinalize(n, req, s, end) \/ AbortFinalize(n, req, s, end)
      PROVE  Spared(n)
  BY <1>1, <1>7, SameFilesSpared DEF RefuseFinalize, AbortFinalize, logs
<1> QED
  BY <1>2, <1>4, <1>5, <1>6, <1>7

LEMMA PreparingSpares ==
  ASSUME IInv, NEW n \in Node, Preparing(n)
  PROVE  Spared(n)
<1>1. DiskTypeOK
  BY DEF IInv, TypeOK
<1>2. ASSUME NEW s \in Txid, NEW file, paxos' = paxos,
             inProgress' = [inProgress EXCEPT ![n][s] = file],
             \/ HalfDone(n, s)
             \/ \E len \in Scanned(inProgress[n][s]) :
                  file = Kept(n, s, inProgress[n][s], len)
      PROVE  Spared(n)
  <2>1. inProgress'[n][s] = file
    BY <1>1, <1>2 DEF DiskTypeOK
  <2>2. LogSpared(n, s)
    BY <1>1, <1>2, <2>1, KeptSpared DEF HalfDone, LogSpared
  <2>3. \A t \in Txid \ {s} : inProgress'[n][t] = inProgress[n][t]
    BY <1>1, <1>2 DEF DiskTypeOK
  <2> QED BY <1>1, <1>2, <2>2, <2>3, SameDecisionSpared, OneSegmentSpared
<1>3. ASSUME NEW s \in Txid, NEW len \in Scanned(RolledForward(n, s)),
             RollForward(n, s, len), paxos' = paxos
      PROVE  Spared(n)
  <2>1. inProgress' = [inProgress EXCEPT ![n][s] = Kept(n, s, RolledForward(n, s), len)]
    BY <1>3 DEF RollForward
  <2>2. ~HalfDone(n, s) => RolledForward(n, s) = inProgress[n][s]
    BY DEF RolledForward
  <2> QED BY <1>2, <1>3, <2>1, <2>2
<1>4. ASSUME NEW req \in Request, NEW s \in Txid,
             PrepareRecovery(n, req, s) \/ AbortPrepareRecovery(n, req, s)
      PROVE  Spared(n)
  BY <1>3, <1>4 DEF PrepareRecovery, AbortPrepareRecovery
<1>5. ASSUME NEW req \in Request, NEW s \in Txid, CrashInPrepareRecovery(n, req, s)
      PROVE  Spared(n)
  BY <1>2, <1>5 DEF CrashInPrepareRecovery
<1> QED
  BY <1>4, <1>5 DEF Preparing

\* The decision that is written is of the writer of this epoch, and the promise
\* bounds those of earlier ones.
LEMMA DecideSpares ==
  ASSUME IInv, NEW n \in Node, NEW req \in Request, NEW s \in Txid, NEW end \in Txid,
         Passes(n, req), Decide(n, s, req.epoch, end)
  PROVE  /\ LogSpared(n, s) /\ DecisionSpared(n, s)
         /\ \A t \in Txid \ {s} : paxos'[n][t] = paxos[n][t]
<1>1. DiskTypeOK
  BY DEF IInv, TypeOK
<1>2. paxos'[n][s] = [epoch |-> req.epoch, end |-> end]
  BY <1>1 DEF Decide, DiskTypeOK
<1>3. paxos'[n][s] # NoFile /\ paxos'[n][s].epoch = req.epoch
  BY <1>2, RequestType, AbsentAssumption
<1>4. ASSUME paxos[n][s] # NoFile PROVE paxos[n][s].epoch <= req.epoch
  <2>1. promised[n] # Torn /\ promised[n] <= req.epoch
    BY <1>1, PassesResult
  <2>2. paxos[n][s].epoch <= promised[n]
    BY <1>4, <2>1 DEF IInv, NodeInv, EpochsOk, NoEpochAbove
  <2>3. paxos[n][s].epoch \in Int /\ promised[n] \in Int /\ req.epoch \in Int
    BY <1>1, <1>4, EpochsAreIntegers, RequestType, BoundsAssumption
    DEF DiskTypeOK, Decision, Epoch
  <2> QED BY <2>1, <2>2, <2>3
<1>5. \A t \in Txid \ {s} : paxos'[n][t] = paxos[n][t]
  BY <1>1 DEF Decide, DiskTypeOK
<1> QED
  BY <1>3, <1>4, <1>5 DEF LogSpared, DecisionSpared

\* What is accepted is not shorter than what is known to be committed.
LEMMA AcceptedKeepsCommitted ==
  ASSUME IInv, NEW n \in Node, NEW req \in Request, NEW s \in Txid,
         NEW len \in Scanned(inProgress[n][s]), NEW end \in Txid, NEW body \in Body,
         body # <<>>, End(s, body) = end, AcceptRecovery(n, req, s, len, end, body)
  PROVE  CommittedSpared(n, s)
<1>1. DiskTypeOK /\ MemoryTypeOK
  BY DEF IInv, TypeOK
<1>2. inProgress'[n][s] = body /\ finalized' = finalized
  BY <1>1 DEF AcceptRecovery, DiskTypeOK
<1>3. body \notin {NoFile, Blank, <<>>}
  BY AbsentAssumption
<1>4. CASE finalized[n][s] # NoFile
  <2>1. LastTxid(n, s)' = LastTxid(n, s) /\ HasTxns(n, s)'
    BY <1>2, <1>4 DEF LastTxid, HasTxns
  <2> QED BY <2>1 DEF CommittedSpared, Txid
<1>5. CASE finalized[n][s] = NoFile
  <2> SUFFICES ASSUME HasTxns(n, s), committed'[n] \in s..LastTxid(n, s)
               PROVE  committed'[n] <= end
    BY <1>2, <1>3, <1>5 DEF CommittedSpared, LastTxid, HasTxns
  <2>1. inProgress[n][s] \in Body /\ inProgress[n][s] \notin {NoFile, Blank, <<>>}
    BY <1>1, <1>5 DEF HasTxns, DiskTypeOK
  <2>2. len = Len(inProgress[n][s]) /\ len \in Nat /\ len # 0
    BY <2>1, EmptySeq, LenProperties DEF Scanned, Body
  <2>3. ~NoSegment(n, s, len)
    BY <1>5, <2>2 DEF NoSegment, TwoFiles, Unreadable
  <2>4. CurrentEnd(n, s, len) = LastTxid(n, s)
    BY <1>5, <2>2 DEF CurrentEnd, LastTxid, End
  <2>5. ~DiscardsCommitted(n, req, s, len, end)
    BY <2>3 DEF AcceptRecovery, Admitted, AcceptAborts, InPlace, Replaces
  <2>6. committed'[n] = IF req.committed = InvalidTxid THEN committed[n]
                                                       ELSE req.committed
    BY <1>1 DEF AcceptRecovery, Remember, MemoryTypeOK
  <2>7. committed'[n] \in s..end
    BY <2>4, <2>5, <2>6 DEF DiscardsCommitted
  <2> QED BY <2>7
<1> QED BY <1>4, <1>5

LEMMA AcceptingSpares ==
  ASSUME IInv, NEW n \in Node, Accepting(n)
  PROVE  Spared(n)
<1>1. DiskTypeOK /\ MemoryTypeOK
  BY DEF IInv, TypeOK
<1>2. ASSUME NEW s \in Txid, NEW len \in Scanned(inProgress[n][s]), paxos' = paxos,
             inProgress' = [inProgress EXCEPT ![n][s] = Kept(n, s, @, len)]
      PROVE  Spared(n)
  <2>1. inProgress'[n][s] = Kept(n, s, inProgress[n][s], len)
    BY <1>1, <1>2 DEF DiskTypeOK
  <2>2. \A t \in Txid \ {s} : inProgress'[n][t] = inProgress[n][t]
    BY <1>1, <1>2 DEF DiskTypeOK
  <2> QED
    BY <1>1, <1>2, <2>1, <2>2, KeptSpared, SameDecisionSpared, OneSegmentSpared
<1>3. ASSUME NEW req \in Request, NEW s \in Txid, NEW end,
             AbortAcceptRecovery(n, req, s, end)
      PROVE  Spared(n)
  BY <1>2, <1>3 DEF AbortAcceptRecovery
<1>4. ASSUME NEW req \in Request, NEW s \in Txid,
             NEW len \in Scanned(inProgress[n][s]), NEW end, NEW body,
             FailAcceptRecovery(n, req, s, len, end, body)
      PROVE  Spared(n)
  BY <1>2, <1>4 DEF FailAcceptRecovery
<1>5. ASSUME NEW req \in Request, NEW s \in Txid, NEW len, NEW end \in Txid,
             AcceptInPlace(n, req, s, len, end)
      PROVE  Spared(n)
  <2>1. inProgress' = inProgress /\ finalized' = finalized
    BY <1>5 DEF AcceptInPlace
  <2>2. CASE paxos' = paxos
    BY <1>1, <2>1, <2>2, SameFilesSpared
  <2>3. CASE Decide(n, s, req.epoch, end)
    <3>1. CommittedSpared(n, s)
      BY <2>1 DEF CommittedSpared, HasTxns, LastTxid, Txid
    <3> QED
      BY <1>1, <1>5, <2>1, <2>3, <3>1, DecideSpares, OneSegmentSpared
      DEF AcceptInPlace, Admitted
  <2> QED BY <1>5, <2>2, <2>3 DEF AcceptInPlace
<1>6. ASSUME NEW req \in Request, NEW s \in Txid,
             NEW len \in Scanned(inProgress[n][s]), NEW end \in Txid,
             NEW body \in Body, body # <<>>, End(s, body) = end,
             AcceptRecovery(n, req, s, len, end, body)
      PROVE  Spared(n)
  <2>1. \A t \in Txid \ {s} : inProgress'[n][t] = inProgress[n][t]
    BY <1>1, <1>6 DEF AcceptRecovery, DiskTypeOK
  <2> QED
    BY <1>1, <1>6, <2>1, DecideSpares, AcceptedKeepsCommitted, OneSegmentSpared
    DEF AcceptRecovery, Admitted
<1>7. ASSUME NEW req \in Request, NEW s \in Txid,
             NEW len \in Scanned(inProgress[n][s]), NEW end \in Txid, NEW body,
             CrashInAcceptRecovery(n, req, s, len, end, body)
      PROVE  Spared(n)
  <2>1. CASE /\ inProgress' = [inProgress EXCEPT ![n][s] = Kept(n, s, @, len)]
             /\ paxos' = paxos
    BY <1>2, <2>1
  <2>2. CASE /\ Decide(n, s, req.epoch, end)
             /\ \E file : inProgress' = [inProgress EXCEPT ![n][s] = file]
    <3>1. \A t \in Txid \ {s} : inProgress'[n][t] = inProgress[n][t]
      BY <1>1, <2>2 DEF DiskTypeOK
    <3>2. committed'[n] = InvalidTxid
      BY <1>1, <1>7 DEF CrashInAcceptRecovery, Die, MemoryTypeOK
    <3>3. CommittedSpared(n, s)
      BY <3>2 DEF CommittedSpared, InvalidTxid, Txid
    <3> QED
      BY <1>1, <1>7, <2>2, <3>1, <3>3, DecideSpares, OneSegmentSpared
      DEF CrashInAcceptRecovery, Admitted
  <2> QED BY <1>7, <2>1, <2>2 DEF CrashInAcceptRecovery
<1>8. PICK req \in Request, s \in Txid :
        \E body \in Proposal[req.epoch][s] :
          /\ End(s, body) <= MaxTxid
          /\ \/ AbortAcceptRecovery(n, req, s, End(s, body))
             \/ \E len \in Scanned(inProgress[n][s]) :
                  \/ AcceptInPlace(n, req, s, len, End(s, body))
                  \/ AcceptRecovery(n, req, s, len, End(s, body), body)
                  \/ FailAcceptRecovery(n, req, s, len, End(s, body), body)
                  \/ CrashInAcceptRecovery(n, req, s, len, End(s, body), body)
  BY DEF Accepting
<1>9. ASSUME NEW body \in Proposal[req.epoch][s], End(s, body) <= MaxTxid
      PROVE  body \in Body /\ body # <<>> /\ End(s, body) \in Txid
  BY <1>9, ProposalResult, LogAssumption, RequestType
<1> QED
  BY <1>3, <1>4, <1>5, <1>6, <1>7, <1>8, <1>9

\* What every step does to the files of every node.
LEMMA StepSpares == IInv /\ [Next]_vars => \A m \in Node : Spared(m)
<1> SUFFICES ASSUME IInv, [Next]_vars PROVE \A m \in Node : Spared(m)
  OBVIOUS
<1>1. DiskTypeOK
  BY DEF IInv, TypeOK
<1>2. ASSUME NEW n \in Node,
             \/ Lifecycle(n) \/ Formatting(n) \/ Epochs(n) \/ Refusals(n)
             \/ Starting(n)  \/ Journaling(n) \/ Finalizing(n)
             \/ Preparing(n) \/ Accepting(n)
      PROVE  \A m \in Node : Spared(m)
  <2>1. Spared(n)
    BY <1>2, EpochStepSpares, StartingSpares, JournalingSpares,
       FinalizingSpares, PreparingSpares, AcceptingSpares
  <2>2. Preserves(n)
    BY <1>2, EpochStepPreserves, SegmentStepPreserves, RecoveryStepPreserves
  <2>3. ASSUME NEW m \in Node \ {n} PROVE Spared(m)
    BY <1>1, <2>2, SameFilesSpared DEF Preserves, DiskSameAt
  <2> QED BY <2>1, <2>3
<1>3. CASE UNCHANGED vars
  BY <1>1, <1>3, SameFilesSpared DEF vars, disk, logs
<1> QED
  BY <1>2, <1>3 DEF Next

\* No handler, and no crash within one, truncates a log of two transactions or
\* moves it aside: it is extended, finalized, or given up for a decision.
THEOREM LogsAreNotLost == Spec => LogOnlyLostToDecision
<1>1. IInv /\ [Next]_vars =>
        [\A n \in Node, s \in Txid :
           LET old == inProgress[n][s]
               new == inProgress'[n][s]
           IN  IsLog(old) /\ Len(old) >= 2 =>
                 \/ IsLog(new) /\ Len(new) >= Len(old)
                    /\ SubSeq(new, 1, Len(old)) = old
                 \/ finalized'[n][s] # NoFile /\ finalized'[n][s].body = old
                 \/ paxos'[n][s] # NoFile
                 \/ Wiped(n)]_vars
  BY StepSpares DEF Spared, LogSpared
<1> QED
  BY <1>1, Invariant, PTL DEF Spec, LogOnlyLostToDecision

\* An accepted decision is overwritten by a later one only, and purged only by
\* the finalization of its segment or by a start of it that overwrites at most
\* one transaction, in whatever order the files of the handler are written.
THEOREM DecisionsLast == Spec => DecisionOnlySuperseded
<1>1. IInv /\ [Next]_vars =>
        [\A n \in Node, s \in Txid : paxos[n][s] # NoFile =>
           \/ paxos'[n][s] # NoFile /\ paxos'[n][s].epoch >= paxos[n][s].epoch
           \/ finalized'[n][s] # NoFile
           \/ MayStart(n, s) /\ writer'[n] = promised'[n]
           \/ Wiped(n)]_vars
  BY StepSpares DEF Spared, DecisionSpared
<1> QED
  BY <1>1, Invariant, PTL DEF Spec, DecisionOnlySuperseded

\* acceptRecovery cuts off no transaction that is known to be committed, also
\* when the request that is accepted is the one that tells.
THEOREM CommittedIsKept == Spec => CommittedSurvivesAccept
<1>1. IInv /\ [Next]_vars =>
        [\A n \in Node, s \in Txid :
           LET cti == committed'[n]
           IN  /\ HasTxns(n, s) /\ cti \in s..LastTxid(n, s)
               /\ paxos'[n][s] # NoFile /\ paxos'[n][s] # paxos[n][s]
               => HasTxns(n, s)' /\ cti <= LastTxid(n, s)']_vars
  <2> SUFFICES ASSUME IInv, [Next]_vars
               PROVE  [\A n \in Node, s \in Txid : CommittedSpared(n, s)]_vars
    BY DEF CommittedSpared
  <2>1. \A n \in Node : Wiped(n) => \A s \in Txid : CommittedSpared(n, s)
    BY DEF IInv, TypeOK, DiskTypeOK, Wiped, Format, CrashInFormat, Wipe, NoLogs,
       CommittedSpared
  <2> QED BY <2>1, StepSpares DEF Spared
<1> QED
  BY <1>1, Invariant, PTL DEF Spec, CommittedSurvivesAccept

-----------------------------------------------------------------------------
(* The manifest *)

\* A non-empty set of natural numbers has a least element, which Min is.
LEMMA MinIsLeast ==
  ASSUME NEW S \in SUBSET Nat, S # {}
  PROVE  Min(S) \in S /\ \A y \in S : Min(S) <= y
<1> DEFINE R == OpToRel(<, Nat)
<1>1. IsWellFoundedOn(R, Nat)
  BY NatLessThanWellFounded
<1>2. \A x, y \in Nat : <<y, x>> \in R <=> y < x
  BY DEF OpToRel
<1> HIDE DEF R
<1>3. \E x \in S : \A y \in S : ~ (<<y, x>> \in R)
  BY <1>1, WFMin
<1>4. \E x \in S : \A y \in S : x <= y
  <2>1. PICK x \in S : \A y \in S : ~ (<<y, x>> \in R)
    BY <1>3
  <2>2. \A y \in S : ~ (y < x)
    BY <1>2, <2>1
  <2>3. \A y \in S : x <= y
    BY <2>2
  <2>4. QED BY <2>3
<1>5. QED BY <1>4 DEF Min

Before(S, f) == {g \in S : Precedes(g, f)}

\* Files of which any two have an order.
Ordered(S) ==
  /\ \A f \in S : f.first \in Int /\ f.last \in Int
  /\ \A f, g \in S : f = g \/ Precedes(f, g) \/ Precedes(g, f)

\* What precedes a file is counted from 0 up, each number once.
LEMMA RanksAreAll ==
  ASSUME NEW S, IsFiniteSet(S), Ordered(S)
  PROVE  /\ \A f, g \in S : Precedes(f, g) => Cardinality(Before(S, f)) < Cardinality(Before(S, g))
         /\ \A f, g \in S : Cardinality(Before(S, f)) = Cardinality(Before(S, g)) => f = g
         /\ \A i \in 1..Cardinality(S) : \E f \in S : Cardinality(Before(S, f)) = i - 1
         /\ \A f \in S : Cardinality(Before(S, f)) \in 0..Cardinality(S) - 1
         /\ Cardinality(S) \in Nat
<1>1. Cardinality(S) \in Nat
  BY FS_CardinalityType
<1>2. \A f \in S : /\ IsFiniteSet(Before(S, f))
                   /\ Cardinality(Before(S, f)) \in Nat
  <2>1. \A f \in S : Before(S, f) \in SUBSET S
    BY DEF Before
  <2>2. QED BY <2>1, FS_Subset, FS_CardinalityType
<1>3. ASSUME NEW f \in S, NEW g \in S, Precedes(f, g)
      PROVE  Cardinality(Before(S, f)) < Cardinality(Before(S, g))
  <2>1. Before(S, f) \subseteq Before(S, g)
    BY <1>3 DEF Before, Precedes, Ordered
  <2>2. f \in Before(S, g) /\ f \notin Before(S, f)
    BY <1>3 DEF Before, Precedes, Ordered
  <2>3. /\ Cardinality(Before(S, f)) <= Cardinality(Before(S, g))
        /\ Cardinality(Before(S, g)) # Cardinality(Before(S, f))
    BY <1>2, <2>1, <2>2, FS_Subset
  <2>4. QED BY <1>2, <2>3
<1>4. ASSUME NEW f \in S, NEW g \in S,
             Cardinality(Before(S, f)) = Cardinality(Before(S, g))
      PROVE  f = g
  <2>1. f = g \/ Precedes(f, g) \/ Precedes(g, f)
    BY DEF Ordered
  <2>2. ~Precedes(f, g) /\ ~Precedes(g, f)
    BY <1>2, <1>3, <1>4
  <2>3. QED BY <2>1, <2>2
<1>5. \A f \in S : Cardinality(Before(S, f)) \in 0..Cardinality(S) - 1
  <2>1. ASSUME NEW f \in S PROVE Cardinality(Before(S, f)) < Cardinality(S)
    <3>1. Before(S, f) \in SUBSET S /\ f \notin Before(S, f)
      BY DEF Before, Precedes, Ordered
    <3>2. /\ Cardinality(Before(S, f)) <= Cardinality(S)
          /\ Cardinality(S) # Cardinality(Before(S, f))
      BY <3>1, FS_Subset
    <3>3. QED BY <1>1, <1>2, <3>2
  <2>2. QED BY <1>1, <1>2, <2>1
<1>6. \A i \in 1..Cardinality(S) : \E f \in S : Cardinality(Before(S, f)) = i - 1
  <2> DEFINE T    == 0..Cardinality(S) - 1
             rank == [f \in S |-> Cardinality(Before(S, f))]
  <2>1. rank \in Injection(S, T)
    BY <1>4, <1>5 DEF Injection, IsInjective
  <2>2. IsFiniteSet(T) /\ Cardinality(T) = Cardinality(S)
    BY <1>1, FS_Interval
  <2>3. rank \in Surjection(S, T)
    BY <2>1, <2>2, FS_Injection
  <2>4. \A t \in T : \E f \in S : rank[f] = t
    BY <2>3 DEF Surjection
  <2>5. \A i \in 1..Cardinality(S) : i - 1 \in T
    BY <1>1
  <2>6. QED BY <2>4, <2>5
<1>7. QED BY <1>1, <1>3, <1>4, <1>5, <1>6

\* sort(): each file is in the list, once, behind those that precede it.
LEMMA SortedIs ==
  ASSUME NEW S, IsFiniteSet(S), Ordered(S)
  PROVE  /\ Sorted(S) \in Seq(S)
         /\ \A f \in S : \E i \in 1..Len(Sorted(S)) : Sorted(S)[i] = f
         /\ \A i, j \in 1..Len(Sorted(S)) :
              /\ i < j => Precedes(Sorted(S)[i], Sorted(S)[j])
              /\ Sorted(S)[i] = Sorted(S)[j] => i = j
<1>1. /\ \A f, g \in S : Precedes(f, g) => Cardinality(Before(S, f)) < Cardinality(Before(S, g))
      /\ \A i \in 1..Cardinality(S) : \E f \in S : Cardinality(Before(S, f)) = i - 1
      /\ \A f \in S : Cardinality(Before(S, f)) \in 0..Cardinality(S) - 1
      /\ Cardinality(S) \in Nat
  BY RanksAreAll
<1>2. \A f, g \in S : Cardinality(Before(S, f)) = Cardinality(Before(S, g)) => f = g
  BY RanksAreAll
<1>3. Sorted(S) = [i \in 1..Cardinality(S) |->
                     CHOOSE f \in S : Cardinality(Before(S, f)) = i - 1]
  BY DEF Sorted, Before
<1>4. \A i \in 1..Cardinality(S) :
        /\ Sorted(S)[i] \in S
        /\ Cardinality(Before(S, Sorted(S)[i])) = i - 1
  BY <1>1, <1>3
<1>5. Sorted(S) \in Seq(S) /\ Len(Sorted(S)) = Cardinality(S)
  BY <1>1, <1>3, <1>4
<1>6. ASSUME NEW f \in S PROVE \E i \in 1..Cardinality(S) : Sorted(S)[i] = f
  <2>1. /\ Cardinality(Before(S, f)) + 1 \in 1..Cardinality(S)
        /\ Cardinality(Before(S, f)) \in Int
    BY <1>1
  <2>2. Cardinality(Before(S, Sorted(S)[Cardinality(Before(S, f)) + 1])) = Cardinality(Before(S, f))
    BY <1>4, <2>1
  <2>3. QED BY <1>2, <1>4, <2>1, <2>2
<1>7. ASSUME NEW i \in 1..Cardinality(S), NEW j \in 1..Cardinality(S), i < j
      PROVE  Precedes(Sorted(S)[i], Sorted(S)[j]) /\ Sorted(S)[i] # Sorted(S)[j]
  <2>1. /\ Sorted(S)[i] \in S /\ Sorted(S)[j] \in S
        /\ Cardinality(Before(S, Sorted(S)[i])) = i - 1
        /\ Cardinality(Before(S, Sorted(S)[j])) = j - 1
    BY <1>4
  <2>2. Sorted(S)[i] # Sorted(S)[j]
    BY <1>7, <2>1
  <2>3. ~Precedes(Sorted(S)[j], Sorted(S)[i])
    BY <1>1, <1>7, <2>1
  <2>4. QED BY <2>1, <2>2, <2>3 DEF Ordered
<1>8. \A i, j \in 1..Cardinality(S) : i = j \/ i < j \/ j < i
  BY <1>1
<1>9. QED BY <1>5, <1>6, <1>7, <1>8

\* A directory holds finitely many files, in an order.
LEMMA FilesAre ==
  ASSUME TypeOK, NEW n \in Node, NEW S \in SUBSET Files(n)
  PROVE  /\ IsFiniteSet(S) /\ Ordered(S)
         /\ \A f \in Files(n) :
              /\ f.first \in Txid
              /\ ~f.inProgress => /\ finalized[n][f.first] # NoFile
                                  /\ f = FileEntry(f.first, finalized[n][f.first].end, FALSE)
              /\ f.inProgress => /\ inProgress[n][f.first] # NoFile
                                 /\ f = FileEntry(f.first, InvalidTxid, TRUE)
              /\ f.inProgress \in BOOLEAN
<1>1. ASSUME NEW f \in Files(n)
      PROVE  /\ f.first \in Txid /\ f.inProgress \in BOOLEAN
             /\ \/ /\ finalized[n][f.first] # NoFile /\ ~f.inProgress
                   /\ f = FileEntry(f.first, finalized[n][f.first].end, FALSE)
                   /\ f.last = finalized[n][f.first].end
                \/ /\ inProgress[n][f.first] # NoFile /\ f.inProgress
                   /\ f = FileEntry(f.first, InvalidTxid, TRUE)
                   /\ f.last = InvalidTxid
  <2>1. CASE \E s \in Txid : finalized[n][s] # NoFile /\ f = FileEntry(s, finalized[n][s].end, FALSE)
    <3>1. PICK s \in Txid : finalized[n][s] # NoFile /\ f = FileEntry(s, finalized[n][s].end, FALSE)
      BY <2>1
    <3>2. f.first = s /\ f.last = finalized[n][s].end /\ f.inProgress = FALSE
      BY <3>1 DEF FileEntry
    <3>3. QED BY <3>1, <3>2
  <2>2. CASE \E s \in Txid : inProgress[n][s] # NoFile /\ f = FileEntry(s, InvalidTxid, TRUE)
    <3>1. PICK s \in Txid : inProgress[n][s] # NoFile /\ f = FileEntry(s, InvalidTxid, TRUE)
      BY <2>2
    <3>2. f.first = s /\ f.last = InvalidTxid /\ f.inProgress = TRUE
      BY <3>1 DEF FileEntry
    <3>3. QED BY <3>1, <3>2
  <2>3. QED BY <2>1, <2>2 DEF Files
<1>2. \A s \in Txid : finalized[n][s] # NoFile => finalized[n][s].end \in Txid
  BY DEF TypeOK, DiskTypeOK, FinalLog
<1>3. ASSUME NEW f \in Files(n)
      PROVE  /\ f.first \in Int /\ f.last \in Int
             /\ f.first \in 1..MaxTxid /\ MaxTxid \in Nat
             /\ ~f.inProgress => f.last > InvalidTxid
  <2>1. \A s \in Txid : s \in Int /\ s > InvalidTxid
    BY DEF Txid, InvalidTxid
  <2>2. InvalidTxid \in Int
    BY DEF InvalidTxid
  <2>3. \/ f.last \in Txid
        \/ f.last = InvalidTxid /\ f.inProgress
    BY <1>1, <1>2
  <2>4. f.first \in Int /\ f.first \in 1..MaxTxid /\ MaxTxid \in Nat
    <3>1. f.first \in Txid
      BY <1>1
    <3>2. QED BY <2>1, <3>1, BoundsAssumption DEF Txid
  <2>5. QED BY <2>1, <2>2, <2>3, <2>4
<1>4. ASSUME NEW f \in Files(n), NEW g \in Files(n)
      PROVE  f = g \/ Precedes(f, g) \/ Precedes(g, f)
  <2>1. CASE f.first # g.first
    BY <1>3, <2>1 DEF Precedes
  <2>2. CASE f.first = g.first /\ f.inProgress # g.inProgress
    <3>1. f.last # g.last
      <4>1. CASE f.inProgress
        <5>1. f.last = InvalidTxid /\ ~g.inProgress
          BY <1>1, <2>2, <4>1
        <5>2. g.last \in Int /\ g.last > InvalidTxid /\ InvalidTxid \in Int
          BY <1>3, <5>1 DEF InvalidTxid
        <5>3. QED BY <5>1, <5>2
      <4>2. CASE ~f.inProgress
        <5>1. g.last = InvalidTxid
          BY <1>1, <2>2, <4>2
        <5>2. f.last \in Int /\ f.last > InvalidTxid /\ InvalidTxid \in Int
          BY <1>3, <4>2 DEF InvalidTxid
        <5>3. QED BY <5>1, <5>2
      <4>3. QED BY <4>1, <4>2
    <3>2. QED BY <1>3, <2>2, <3>1 DEF Precedes
  <2>3. CASE f.first = g.first /\ f.inProgress = g.inProgress
    <3>1. CASE f.inProgress
      <4>1. f = FileEntry(f.first, InvalidTxid, TRUE) /\ g = FileEntry(g.first, InvalidTxid, TRUE)
        BY <1>1, <2>3, <3>1
      <4>2. QED BY <2>3, <4>1
    <3>2. CASE ~f.inProgress
      <4>1. /\ f = FileEntry(f.first, finalized[n][f.first].end, FALSE)
            /\ g = FileEntry(g.first, finalized[n][g.first].end, FALSE)
        BY <1>1, <2>3, <3>2
      <4>2. QED BY <2>3, <4>1
    <3>3. QED BY <3>1, <3>2
  <2>4. QED BY <2>1, <2>2, <2>3
<1>5. Ordered(S)
  BY <1>3, <1>4 DEF Ordered
<1>6. IsFiniteSet(Files(n))
  <2> DEFINE T    == 0..2 * MaxTxid + 1
             code == [f \in Files(n) |-> IF f.inProgress THEN 2 * f.first + 1 ELSE 2 * f.first]
  <2>1. ASSUME NEW f \in Files(n) PROVE code[f] \in T
    <3>1. \A a, m \in Nat : a \in 1..m => 2 * a \in 0..2 * m + 1 /\ 2 * a + 1 \in 0..2 * m + 1
      OBVIOUS
    <3>2. f.first \in Nat /\ f.first \in 1..MaxTxid /\ MaxTxid \in Nat
      BY <1>3
    <3>3. 2 * f.first \in T /\ 2 * f.first + 1 \in T
      BY <3>1, <3>2
    <3>4. QED BY <3>3
  <2>2. ASSUME NEW f \in Files(n), NEW g \in Files(n), code[f] = code[g] PROVE f = g
    <3>1. \A a, b \in Int : 2 * a + 1 # 2 * b /\ (2 * a = 2 * b => a = b)
                            /\ (2 * a + 1 = 2 * b + 1 => a = b)
      OBVIOUS
    <3>2. f.first \in Int /\ g.first \in Int
      BY <1>3
    <3>3. /\ (IF f.inProgress THEN 2 * f.first + 1 ELSE 2 * f.first)
             = (IF g.inProgress THEN 2 * g.first + 1 ELSE 2 * g.first)
      BY <2>2
    <3>4. f.first = g.first /\ (f.inProgress <=> g.inProgress)
      BY <3>1, <3>2, <3>3
    <3>5. f.inProgress \in BOOLEAN /\ g.inProgress \in BOOLEAN
      BY <1>1
    <3>6. f.inProgress = g.inProgress
      BY <3>4, <3>5
    <3>7. ~Precedes(f, g) /\ ~Precedes(g, f)
      <4>1. f.last = g.last
        BY <1>1, <3>4, <3>6
      <4>2. QED BY <1>3, <3>4, <4>1 DEF Precedes
    <3>8. QED BY <1>4, <3>7
  <2>3. code \in Injection(Files(n), T)
    BY <2>1, <2>2 DEF Injection, IsInjective
  <2>4. IsFiniteSet(T)
    BY BoundsAssumption, FS_Interval
  <2>5. QED BY <2>3, <2>4, FS_Injection
<1>7. IsFiniteSet(S)
  BY <1>6, FS_Subset
<1>8. QED BY <1>1, <1>5, <1>7

\* Where the elements of two sequences are once they are joined.
LEMMA JoinIs ==
  ASSUME NEW E, NEW a \in Seq(E), NEW b \in Seq(E)
  PROVE  /\ a \o b \in Seq(E) /\ Len(a \o b) = Len(a) + Len(b)
         /\ \A j \in 1..Len(a) : (a \o b)[j] = a[j]
         /\ \A j \in Len(a) + 1..Len(a) + Len(b) : (a \o b)[j] = b[j - Len(a)]
OBVIOUS

\* The first file in progress is taken out of a list and put at its end.
LEMMA OpenTailIs ==
  ASSUME NEW n \in Node, NEW E, NEW q \in Seq(E)
  PROVE  \/ /\ \A i \in 1..Len(q) : ~q[i].inProgress
            /\ WithOpenTail(n, q) = q
         \/ \E k \in 1..Len(q) :
              /\ q[k].inProgress
              /\ Len(WithOpenTail(n, q)) = Len(q)
              /\ DOMAIN WithOpenTail(n, q) = 1..Len(q)
              /\ \A j \in 1..k - 1 : WithOpenTail(n, q)[j] = q[j]
              /\ \A j \in k..Len(q) - 1 : WithOpenTail(n, q)[j] = q[j + 1]
              /\ WithOpenTail(n, q)[Len(q)] =
                   FileEntry(q[k].first, highestWrittenTxId[n], FALSE)
<1> DEFINE I == {i \in 1..Len(q) : q[i].inProgress}
           k == Min(I)
           tail == FileEntry(q[k].first, highestWrittenTxId[n], FALSE)
<1>1. Len(q) \in Nat
  OBVIOUS
<1>2. CASE I = {}
  <2>1. SelectInSeq(q, LAMBDA f : f.inProgress) = 0
    BY <1>2 DEF SelectInSeq
  <2>2. WithOpenTail(n, q) = q
    BY <2>1 DEF WithOpenTail
  <2>3. QED BY <1>2, <2>2
<1>3. CASE I # {}
  <2>1. k \in I
    <3>1. I \in SUBSET Nat
      BY <1>1
    <3>2. QED BY <1>3, <3>1, MinIsLeast
  <2>2. k \in 1..Len(q) /\ q[k].inProgress
    BY <2>1
  <2>3. SelectInSeq(q, LAMBDA f : f.inProgress) = k
    BY <1>3 DEF SelectInSeq
  <2> HIDE DEF k, I
  <2>4. WithOpenTail(n, q) = Append(SubSeq(q, 1, k - 1) \o SubSeq(q, k + 1, Len(q)), tail)
    <3>1. k # 0
      BY <1>1, <2>2
    <3>2. QED BY <2>3, <3>1 DEF WithOpenTail, RemoveAt
  <2> DEFINE a == SubSeq(q, 1, k - 1)
             b == SubSeq(q, k + 1, Len(q))
             r == a \o b
  <2>5. /\ r \in Seq(E) /\ Len(r) = Len(q) - 1
        /\ \A j \in 1..k - 1 : r[j] = q[j]
        /\ \A j \in k..Len(q) - 1 : r[j] = q[j + 1]
    <3>1. /\ a \in Seq(E) /\ Len(a) = k - 1
          /\ \A j \in 1..k - 1 : a[j] = q[j]
      BY <1>1, <2>2
    <3>2. /\ b \in Seq(E) /\ Len(b) = Len(q) - k
          /\ \A j \in 1..Len(q) - k : b[j] = q[k + j]
      BY <1>1, <2>2
    <3> HIDE DEF a, b
    <3>3. /\ r \in Seq(E) /\ Len(r) = Len(a) + Len(b)
          /\ \A j \in 1..Len(a) : r[j] = a[j]
          /\ \A j \in Len(a) + 1..Len(a) + Len(b) : r[j] = b[j - Len(a)]
      BY <3>1, <3>2, JoinIs
    <3> HIDE DEF r
    <3>4. /\ Len(r) = Len(q) - 1
          /\ \A j \in 1..k - 1 : r[j] = q[j]
      BY <1>1, <2>2, <3>1, <3>2, <3>3
    <3>5. ASSUME NEW j \in k..Len(q) - 1 PROVE r[j] = q[j + 1]
      <4>1. /\ j \in Len(a) + 1..Len(a) + Len(b)
            /\ j - Len(a) \in 1..Len(q) - k
            /\ k + (j - Len(a)) = j + 1
        BY <1>1, <2>2, <3>1, <3>2
      <4>2. QED BY <3>2, <3>3, <4>1
    <3>6. QED BY <3>3, <3>4, <3>5
  <2> HIDE DEF r, tail
  <2>6. /\ Len(Append(r, tail)) = Len(q)
        /\ DOMAIN Append(r, tail) = 1..Len(q)
        /\ \A j \in 1..Len(q) - 1 : Append(r, tail)[j] = r[j]
        /\ Append(r, tail)[Len(q)] = tail
    BY <1>1, <2>5
  <2>7. WithOpenTail(n, q) = Append(r, tail)
    BY <2>4 DEF r, a, b
  <2>8. /\ \A j \in 1..k - 1 : Append(r, tail)[j] = q[j]
        /\ \A j \in k..Len(q) - 1 : Append(r, tail)[j] = q[j + 1]
    BY <1>1, <2>2, <2>5, <2>6
  <2>9. QED BY <2>2, <2>6, <2>7, <2>8 DEF tail
<1>4. QED BY <1>2, <1>3

RemoteFiles(n, since, ok) == {f \in Files(n) : Wanted(f, since, ok)}

\* A finalized segment that is wanted is listed once, unless a file in progress
\* has the same start and is listed too.
LEMMA ListedIfAlone ==
  ASSUME IInv, NEW n \in Node, NEW since \in Txid, NEW ok \in BOOLEAN, NEW s \in Txid,
         finalized[n][s] # NoFile, End(s, finalized[n][s].body) >= since,
         ok => inProgress[n][s] = NoFile
  PROVE  ListedOnce(s, finalized[n][s].body, Listing(n, since, ok))
<1> DEFINE e == FileEntry(s, End(s, finalized[n][s].body), FALSE)
           S == RemoteFiles(n, since, ok)
           q == Sorted(S)
<1>1. End(s, finalized[n][s].body) = finalized[n][s].end /\ finalized[n][s].end \in Txid
  BY DEF IInv, NodeInv, NamesOk, EndsAsNamed, TypeOK, DiskTypeOK, FinalLog
<1>2. /\ IsFiniteSet(S) /\ Ordered(S)
      /\ \A f \in Files(n) :
           /\ ~f.inProgress => f = FileEntry(f.first, finalized[n][f.first].end, FALSE)
           /\ f.inProgress => inProgress[n][f.first] # NoFile
  BY FilesAre DEF IInv, RemoteFiles
<1>3. e \in S /\ e.first = s /\ ~e.inProgress
  <2>1. e \in Files(n)
    BY <1>1 DEF Files
  <2>2. e.first = s /\ e.last = End(s, finalized[n][s].body) /\ e.inProgress = FALSE
    BY DEF FileEntry
  <2>3. since <= e.last
    BY <1>1, <2>2 DEF Txid
  <2>4. QED BY <2>1, <2>2, <2>3 DEF RemoteFiles, Wanted
<1>4. \A f \in S : f.first = s => f = e
  BY <1>1, <1>2 DEF RemoteFiles, Wanted
<1> HIDE DEF e, S
<1>5. /\ q \in Seq(S)
      /\ \A f \in S : \E i \in 1..Len(q) : q[i] = f
      /\ \A i, j \in 1..Len(q) : q[i] = q[j] => i = j
  BY <1>2, SortedIs
<1> HIDE DEF q
<1>6. Len(q) \in Nat /\ \A i \in 1..Len(q) : q[i] \in S
  BY <1>5
<1>7. PICK i \in 1..Len(q) : q[i] = e
  BY <1>3, <1>5
<1>8. \A j \in 1..Len(q) : q[j].first = s => j = i
  BY <1>4, <1>5, <1>6, <1>7
<1>9. RemoteEditLogs(n, since, ok) = q
  BY DEF RemoteEditLogs, RemoteFiles, q, S
<1>10. ListedOnce(s, finalized[n][s].body, q)
  <2>1. DOMAIN q = 1..Len(q)
    BY <1>5
  <2>2. QED BY <1>7, <1>8, <2>1 DEF ListedOnce, e
<1>11. ListedOnce(s, finalized[n][s].body, WithOpenTail(n, q))
  <2>1. CASE WithOpenTail(n, q) = q
    BY <1>10, <2>1
  <2>2. ASSUME NEW k \in 1..Len(q),
               q[k].inProgress,
               DOMAIN WithOpenTail(n, q) = 1..Len(q),
               \A j \in 1..k - 1 : WithOpenTail(n, q)[j] = q[j],
               \A j \in k..Len(q) - 1 : WithOpenTail(n, q)[j] = q[j + 1],
               WithOpenTail(n, q)[Len(q)] =
                 FileEntry(q[k].first, highestWrittenTxId[n], FALSE)
        PROVE  ListedOnce(s, finalized[n][s].body, WithOpenTail(n, q))
    <3> DEFINE L == WithOpenTail(n, q)
               at == IF i < k THEN i ELSE i - 1
    <3>1. k # i /\ q[k].first # s
      BY <1>3, <1>7, <1>8, <2>2
    <3>2. at \in 1..Len(q) /\ L[at] = e
      <4>1. CASE i < k
        <5>1. i \in 1..k - 1
          BY <1>6, <4>1
        <5>2. QED BY <1>7, <2>2, <4>1, <5>1
      <4>2. CASE i > k
        <5>1. i - 1 \in k..Len(q) - 1 /\ (i - 1) + 1 = i /\ i - 1 \in 1..Len(q) /\ ~(i < k)
          BY <1>6, <4>2
        <5>2. QED BY <1>7, <2>2, <4>2, <5>1
      <4>3. QED BY <1>6, <3>1, <4>1, <4>2
    <3>3. ASSUME NEW j \in 1..Len(q), L[j].first = s PROVE j = at
      <4>1. CASE j < k
        <5>1. j \in 1..k - 1 /\ q[j].first = s
          BY <1>6, <2>2, <3>3, <4>1
        <5>2. QED BY <1>8, <4>1, <5>1
      <4>2. CASE j >= k /\ j < Len(q)
        <5>1. j \in k..Len(q) - 1 /\ j + 1 \in 1..Len(q)
          BY <1>6, <4>2
        <5>2. q[j + 1].first = s
          BY <2>2, <3>3, <5>1
        <5>3. j + 1 = i
          BY <1>8, <5>1, <5>2
        <5>4. QED BY <1>6, <4>2, <5>3
      <4>3. CASE j = Len(q)
        <5>1. L[j].first = q[k].first
          BY <2>2, <4>3 DEF FileEntry
        <5>2. QED BY <3>1, <3>3, <5>1
      <4>4. QED BY <1>6, <4>1, <4>2, <4>3
    <3>4. DOMAIN L = 1..Len(q)
      BY <2>2
    <3> HIDE DEF L, at
    <3>5. ListedOnce(s, finalized[n][s].body, L)
      BY <3>2, <3>3, <3>4 DEF ListedOnce, e
    <3>6. QED BY <3>5 DEF L
  <2>3. QED BY <1>5, <2>1, <2>2, OpenTailIs
<1>12. QED BY <1>9, <1>10, <1>11 DEF Listing

\* A reader that asks from a txid on misses no finalized transaction, and
\* finds none twice: getEditLogManifest lists each finalized segment once, as
\* it ends.
THEOREM FinalizedAreListed == Spec => []FinalizedSegmentsListed
<1>1. IInv => FinalizedSegmentsListed
  BY ListedIfAlone DEF FinalizedSegmentsListed
<1>2. QED BY Invariant, <1>1, PTL

\* What journal() keeps of the segment it writes: once it holds a transaction,
\* the highest txid written is its last.
HighestOk(n) ==
  curSegmentTxId[n] # InvalidTxid /\ nextTxId[n] > curSegmentTxId[n] =>
    highestWrittenTxId[n] = nextTxId[n] - 1

TailSameAt(m) ==
  /\ curSegmentTxId'[m] = curSegmentTxId[m]
  /\ nextTxId'[m] = nextTxId[m]
  /\ highestWrittenTxId'[m] = highestWrittenTxId[m]

\* What a step may do to it.
TailKept(m) ==
  \/ curSegmentTxId'[m] = InvalidTxid
  \/ TailSameAt(m)
  \/ nextTxId'[m] = curSegmentTxId'[m]
  \/ highestWrittenTxId'[m] = nextTxId'[m] - 1

TailInv == \A m \in Node : HighestOk(m)

\* A step that leaves the three numbers alone, on every node but one that it
\* leaves without a segment.
LEMMA ClosedKeepsTail ==
  ASSUME MemoryTypeOK, NEW n \in Node, curSegmentTxId'[n] = InvalidTxid,
         \A m \in Node \ {n} : curSegmentTxId'[m] = curSegmentTxId[m],
         \A m \in Node \ {n} : nextTxId'[m] = nextTxId[m],
         \A m \in Node \ {n} : highestWrittenTxId'[m] = highestWrittenTxId[m]
  PROVE  \A m \in Node : TailKept(m)
BY DEF TailKept, TailSameAt

LEMMA DyingKeepsTail ==
  ASSUME MemoryTypeOK, NEW n \in Node, NEW why, Die(n, why)
  PROVE  \A m \in Node : TailKept(m)
BY DEF MemoryTypeOK, Die, TailKept, TailSameAt

LEMMA AbortingKeepsTail ==
  ASSUME MemoryTypeOK, NEW n \in Node, CursorOk(n), AbortSegment(n),
         UNCHANGED nextTxId,
         \A m \in Node \ {n} : highestWrittenTxId'[m] = highestWrittenTxId[m]
  PROVE  \A m \in Node : TailKept(m)
BY AbortSegmentResult, ClosedKeepsTail

LEMMA StillKeepsTail ==
  ASSUME UNCHANGED <<curSegmentTxId, nextTxId, highestWrittenTxId>>
  PROVE  \A m \in Node : TailKept(m)
BY DEF TailKept, TailSameAt

LEMMA EpochStepKeepsTail ==
  ASSUME IInv, NEW n \in Node,
         Lifecycle(n) \/ Formatting(n) \/ Epochs(n) \/ Refusals(n)
  PROVE  \A m \in Node : TailKept(m)
<1>1. MemoryTypeOK /\ CursorOk(n)
  BY DEF IInv, TypeOK, NodeInv
<1>2. CASE Lifecycle(n)
  <2>1. CASE Crash(n)
    BY <1>1, <2>1, DyingKeepsTail DEF Crash
  <2>2. CASE Load(n)
    <3>1. /\ ~Up(n) /\ UNCHANGED <<curSegmentTxId, nextTxId>>
          /\ \A m \in Node \ {n} : highestWrittenTxId'[m] = highestWrittenTxId[m]
      BY <1>1, <2>2 DEF Load, cursor, MemoryTypeOK
    <3>2. curSegmentTxId'[n] = InvalidTxid
      BY <1>1, <3>1 DEF CursorOk
    <3>3. QED BY <1>1, <3>1, <3>2, ClosedKeepsTail
  <2>3. CASE LoadFails(n)
    BY <2>3, StillKeepsTail DEF LoadFails, memory, cursor
  <2>4. QED BY <1>2, <2>1, <2>2, <2>3 DEF Lifecycle
<1>3. CASE Formatting(n)
  BY <1>1, <1>3, DyingKeepsTail, StillKeepsTail DEF Formatting, Format, CrashInFormat, cursor
<1>4. CASE Epochs(n)
  <2>1. ASSUME NEW ns \in Namespace, NEW e \in Epoch, RefuseNewEpoch(n, ns, e)
        PROVE  \A m \in Node : TailKept(m)
    BY <2>1, StillKeepsTail DEF RefuseNewEpoch, memory, cursor
  <2>2. ASSUME NEW ns \in Namespace, NEW e \in Epoch, NewEpoch(n, ns, e)
        PROVE  \A m \in Node : TailKept(m)
    BY <1>1, <2>2, AbortingKeepsTail DEF NewEpoch
  <2>3. ASSUME NEW e \in Epoch, CrashInPromise(n, e)
        PROVE  \A m \in Node : TailKept(m)
    BY <1>1, <2>3, DyingKeepsTail DEF CrashInPromise
  <2>4. QED BY <1>4, <2>1, <2>2, <2>3 DEF Epochs
<1>5. CASE Refusals(n)
  <2>1. CASE RefuseUnformatted(n)
    BY <2>1, StillKeepsTail DEF RefuseUnformatted, memory, cursor
  <2>2. ASSUME NEW req \in Request,
               RefuseFenced(n, req) \/ RefuseOutOfOrder(n, req)
        PROVE  \A m \in Node : TailKept(m)
    BY <2>2, StillKeepsTail DEF RefuseFenced, RefuseOutOfOrder, memory, cursor
  <2>3. ASSUME NEW req \in Request, AbortCommittedBackward(n, req)
        PROVE  \A m \in Node : TailKept(m)
    BY <1>1, <2>3, DyingKeepsTail DEF AbortCommittedBackward
  <2>4. QED BY <1>5, <2>1, <2>2, <2>3 DEF Refusals
<1>6. QED BY <1>2, <1>3, <1>4, <1>5

LEMMA StartingKeepsTail ==
  ASSUME IInv, NEW n \in Node, Starting(n)
  PROVE  \A m \in Node : TailKept(m)
<1>1. MemoryTypeOK /\ CursorOk(n)
  BY DEF IInv, TypeOK, NodeInv
<1>2. PICK req \in Request, s \in Txid :
        \/ StartLogSegment(n, req, s)
        \/ StartLogSegmentNoSpace(n, req, s)
        \/ RefuseStartLogSegment(n, req, s)
        \/ AbortStartLogSegment(n, req, s)
        \/ CrashInStartLogSegment(n, req, s)
  BY DEF Starting
<1>3. CASE StartLogSegment(n, req, s)
  <2>1. /\ curSegmentTxId' = [curSegmentTxId EXCEPT ![n] = s]
        /\ nextTxId' = [nextTxId EXCEPT ![n] = s]
        /\ UNCHANGED highestWrittenTxId
    BY <1>3 DEF StartLogSegment
  <2>2. QED BY <1>1, <2>1 DEF MemoryTypeOK, TailKept, TailSameAt
<1>4. CASE StartLogSegmentNoSpace(n, req, s)
  <2>1. /\ curSegmentTxId' = [curSegmentTxId EXCEPT ![n] =
                                IF segmentOpen[n] THEN InvalidTxid ELSE @]
        /\ UNCHANGED <<nextTxId, highestWrittenTxId>>
    BY <1>4 DEF StartLogSegmentNoSpace
  <2>2. QED BY <1>1, <2>1 DEF MemoryTypeOK, CursorOk, TailKept, TailSameAt
<1>5. CASE RefuseStartLogSegment(n, req, s)
  BY <1>1, <1>5, AbortingKeepsTail DEF RefuseStartLogSegment
<1>6. CASE AbortStartLogSegment(n, req, s) \/ CrashInStartLogSegment(n, req, s)
  BY <1>1, <1>6, DyingKeepsTail DEF AbortStartLogSegment, CrashInStartLogSegment
<1>7. QED BY <1>2, <1>3, <1>4, <1>5, <1>6

LEMMA JournalingKeepsTail ==
  ASSUME IInv, NEW n \in Node, Journaling(n)
  PROVE  \A m \in Node : TailKept(m)
<1>1. MemoryTypeOK /\ CursorOk(n)
  BY DEF IInv, TypeOK, NodeInv
<1>2. PICK req \in Request, s \in Txid :
        \/ \E first \in Txid : RefuseJournal(n, req, s, first)
        \/ JournalOutOfSync(n, req, s)
        \/ \E first \in Txid, recs \in Records : Write(n, req, s, first, recs)
        \/ \E first \in Txid, recs \in Records : WriteNoSpace(n, req, s, first, recs)
  BY DEF Journaling
<1>3. ASSUME NEW first \in Txid, RefuseJournal(n, req, s, first)
      PROVE  \A m \in Node : TailKept(m)
  BY <1>3, StillKeepsTail DEF RefuseJournal, cursor
<1>4. CASE JournalOutOfSync(n, req, s)
  BY <1>1, <1>4, AbortingKeepsTail DEF JournalOutOfSync
<1>5. ASSUME NEW first \in Txid, NEW recs \in Records, Write(n, req, s, first, recs)
      PROVE  \A m \in Node : TailKept(m)
  <2>1. /\ highestWrittenTxId' = [highestWrittenTxId EXCEPT ![n] = first + Len(recs) - 1]
        /\ nextTxId' = [nextTxId EXCEPT ![n] = first + Len(recs)]
        /\ UNCHANGED curSegmentTxId
    BY <1>5 DEF Write
  <2>2. Len(recs) \in Nat /\ first \in Int
    BY LogAssumption DEF Body, Txid
  <2>3. highestWrittenTxId'[n] = nextTxId'[n] - 1
    BY <1>1, <2>1, <2>2 DEF MemoryTypeOK
  <2>4. QED BY <1>1, <2>1, <2>3 DEF MemoryTypeOK, TailKept, TailSameAt
<1>6. ASSUME NEW first \in Txid, NEW recs \in Records, WriteNoSpace(n, req, s, first, recs)
      PROVE  \A m \in Node : TailKept(m)
  BY <1>1, <1>6, DyingKeepsTail DEF WriteNoSpace
<1>7. QED BY <1>2, <1>3, <1>4, <1>5, <1>6

LEMMA FinalizingKeepsTail ==
  ASSUME IInv, NEW n \in Node, Finalizing(n)
  PROVE  \A m \in Node : TailKept(m)
<1>1. MemoryTypeOK /\ CursorOk(n)
  BY DEF IInv, TypeOK, NodeInv
<1>2. PICK req \in Request, s \in Txid : \E end \in s..MaxTxid :
        \/ FinalizeLogSegment(n, req, s, end)
        \/ FinalizeAgain(n, req, s, end)
        \/ RefuseFinalize(n, req, s, end)
        \/ AbortFinalize(n, req, s, end)
        \/ CrashInFinalize(n, req, s, end)
  BY DEF Finalizing
<1>3. PICK end \in s..MaxTxid :
        \/ FinalizeLogSegment(n, req, s, end)
        \/ FinalizeAgain(n, req, s, end)
        \/ RefuseFinalize(n, req, s, end)
        \/ AbortFinalize(n, req, s, end)
        \/ CrashInFinalize(n, req, s, end)
  BY <1>2
<1>4. CASE \/ FinalizeLogSegment(n, req, s, end)
           \/ FinalizeAgain(n, req, s, end)
           \/ RefuseFinalize(n, req, s, end)
  <2>1. CloseIfWriting(n, s) /\ UNCHANGED <<nextTxId, highestWrittenTxId>>
    BY <1>4 DEF FinalizeLogSegment, FinalizeAgain, RefuseFinalize
  <2>2. CASE AbortSegment(n)
    BY <1>1, <2>1, <2>2, AbortingKeepsTail
  <2>3. CASE UNCHANGED curSegmentTxId
    BY <2>1, <2>3, StillKeepsTail
  <2>4. QED BY <2>1, <2>2, <2>3 DEF CloseIfWriting
<1>5. CASE AbortFinalize(n, req, s, end) \/ CrashInFinalize(n, req, s, end)
  BY <1>1, <1>5, DyingKeepsTail DEF AbortFinalize, CrashInFinalize
<1>6. QED BY <1>3, <1>4, <1>5

LEMMA RecoveryKeepsTail ==
  ASSUME IInv, NEW n \in Node, Preparing(n) \/ Accepting(n)
  PROVE  \A m \in Node : TailKept(m)
<1>1. MemoryTypeOK /\ CursorOk(n)
  BY DEF IInv, TypeOK, NodeInv
<1>2. ASSUME NEW req \in Request, NEW s \in Txid, PrepareRecovery(n, req, s)
      PROVE  \A m \in Node : TailKept(m)
  BY <1>1, <1>2, AbortingKeepsTail DEF PrepareRecovery
<1>3. ASSUME NEW req \in Request, NEW s \in Txid,
             AbortPrepareRecovery(n, req, s) \/ CrashInPrepareRecovery(n, req, s)
      PROVE  \A m \in Node : TailKept(m)
  BY <1>1, <1>3, DyingKeepsTail DEF AbortPrepareRecovery, CrashInPrepareRecovery
<1>4. ASSUME NEW req \in Request, NEW s \in Txid, NEW len, NEW end, NEW body,
             \/ AcceptInPlace(n, req, s, len, end)
             \/ AcceptRecovery(n, req, s, len, end, body)
             \/ FailAcceptRecovery(n, req, s, len, end, body)
      PROVE  \A m \in Node : TailKept(m)
  <2>1. /\ AbortSegment(n) /\ UNCHANGED nextTxId
        /\ \/ UNCHANGED highestWrittenTxId
           \/ highestWrittenTxId' = [highestWrittenTxId EXCEPT ![n] = HighestAfter(n, s, len, end)]
    BY <1>4 DEF AcceptInPlace, AcceptRecovery, FailAcceptRecovery
  <2>2. \A m \in Node \ {n} : highestWrittenTxId'[m] = highestWrittenTxId[m]
    BY <1>1, <2>1 DEF MemoryTypeOK
  <2>3. QED BY <1>1, <2>1, <2>2, AbortingKeepsTail
<1>5. ASSUME NEW req \in Request, NEW s \in Txid, NEW len, NEW end, NEW body,
             \/ AbortAcceptRecovery(n, req, s, end)
             \/ CrashInAcceptRecovery(n, req, s, len, end, body)
      PROVE  \A m \in Node : TailKept(m)
  BY <1>1, <1>5, DyingKeepsTail DEF AbortAcceptRecovery, CrashInAcceptRecovery
<1>6. QED BY <1>2, <1>3, <1>4, <1>5 DEF Preparing, Accepting

\* Every step, and a stutter, keeps the three numbers as they should be.
LEMMA StepKeepsTail == IInv /\ TailInv /\ [Next]_vars => TailInv'
<1> SUFFICES ASSUME IInv, TailInv, [Next]_vars
             PROVE  TailInv'
  OBVIOUS
<1>1. \A m \in Node : TailKept(m)
  <2>1. CASE Next
    BY <2>1, EpochStepKeepsTail, StartingKeepsTail, JournalingKeepsTail,
       FinalizingKeepsTail, RecoveryKeepsTail DEF Next
  <2>2. CASE UNCHANGED vars
    BY <2>2, StillKeepsTail DEF vars, memory, cursor
  <2>3. QED BY <2>1, <2>2
<1>2. TypeOK'
  BY NextPreserves DEF IInv
<1>3. ASSUME NEW m \in Node PROVE HighestOk(m)'
  <2>1. CASE nextTxId'[m] = curSegmentTxId'[m]
    <3>1. nextTxId'[m] \in Int
      BY <1>2, BoundsAssumption DEF TypeOK, MemoryTypeOK, InvalidTxid
    <3>2. QED BY <2>1, <3>1 DEF HighestOk
  <2>2. CASE TailSameAt(m)
    BY <2>2 DEF TailInv, HighestOk, TailSameAt
  <2>3. QED BY <1>1, <2>1, <2>2 DEF TailKept, HighestOk
<1>4. QED BY <1>3 DEF TailInv

\* The segment in progress that a reader is shown last ends with the highest
\* txid written.
LEMMA TailIsShown ==
  ASSUME IInv, TailInv, NEW n \in Node, NEW s \in Txid,
         s = curSegmentTxId[n], writer[n] # 0, nextTxId[n] > s,
         \A t \in Txid \ {s} : inProgress[n][t] = NoFile
  PROVE  Last(Listing(n, s, TRUE)) = FileEntry(s, End(s, inProgress[n][s]), FALSE)
<1> DEFINE e == FileEntry(s, InvalidTxid, TRUE)
           S == RemoteFiles(n, s, TRUE)
           q == Sorted(S)
<1>1. /\ s # InvalidTxid /\ s \in Int
      /\ IsLog(inProgress[n][s]) /\ nextTxId[n] = s + Len(inProgress[n][s])
      /\ nextTxId[n] \in Int
  <2>1. s # InvalidTxid /\ s \in Int
    BY InvalidTxidIsNoTxid DEF Txid
  <2>2. nextTxId[n] \in Int
    BY BoundsAssumption DEF IInv, TypeOK, MemoryTypeOK, InvalidTxid
  <2>3. QED BY <2>1, <2>2 DEF IInv, NodeInv, CursorOk, WrittenSegmentOnDisk
<1>2. End(s, inProgress[n][s]) = highestWrittenTxId[n]
  <2>1. highestWrittenTxId[n] = nextTxId[n] - 1
    BY <1>1 DEF TailInv, HighestOk
  <2>2. QED BY <1>1, <2>1 DEF End
<1>3. /\ IsFiniteSet(S) /\ Ordered(S)
      /\ \A f \in Files(n) :
           /\ f.first \in Txid
           /\ f.inProgress => inProgress[n][f.first] # NoFile
  BY FilesAre DEF IInv, RemoteFiles
<1>4. e \in S /\ e.inProgress
  <2>1. e.first = s /\ e.inProgress = TRUE
    BY DEF FileEntry
  <2>2. e \in Files(n)
    BY <1>1 DEF Files, IsLog
  <2>3. e.first >= s
    <3>1. s >= s
      BY <1>1
    <3>2. QED BY <2>1, <3>1
  <2>4. QED BY <2>1, <2>2, <2>3 DEF RemoteFiles, Wanted
<1>5. \A f \in S : f.inProgress => f.first = s
  BY <1>3 DEF RemoteFiles
<1> HIDE DEF e, S
<1>6. q \in Seq(S) /\ \E i \in 1..Len(q) : q[i] = e
  BY <1>3, <1>4, SortedIs
<1>7. Listing(n, s, TRUE) = WithOpenTail(n, q)
  BY DEF Listing, RemoteEditLogs, RemoteFiles, S
<1> HIDE DEF q
<1>8. \A k \in 1..Len(q) : q[k] \in S
  BY <1>6
<1>9. PICK k \in 1..Len(q) :
        /\ q[k].inProgress
        /\ Len(WithOpenTail(n, q)) = Len(q)
        /\ WithOpenTail(n, q)[Len(q)] = FileEntry(q[k].first, highestWrittenTxId[n], FALSE)
  <2>1. ~ \A i \in 1..Len(q) : ~q[i].inProgress
    BY <1>4, <1>6
  <2>2. QED BY <1>6, <2>1, OpenTailIs
<1>10. q[k].first = s
  BY <1>5, <1>8, <1>9
<1>11. Last(WithOpenTail(n, q)) = FileEntry(s, highestWrittenTxId[n], FALSE)
  BY <1>9, <1>10 DEF Last
<1>12. QED BY <1>2, <1>7, <1>11

\* The end a reader is shown for the segment being written is the end of what
\* journal() acknowledged.
THEOREM OpenTailIsShown == Spec => []OpenTailIsWhatWasWritten
<1>1. Init => TailInv
  BY DEF Init, TailInv, HighestOk
<1>2. IInv /\ TailInv => OpenTailIsWhatWasWritten
  <2> SUFFICES ASSUME IInv, TailInv, NEW n \in Node,
                      curSegmentTxId[n] # InvalidTxid, writer[n] # 0,
                      nextTxId[n] > curSegmentTxId[n],
                      \A t \in Txid \ {curSegmentTxId[n]} : inProgress[n][t] = NoFile
               PROVE  Last(Listing(n, curSegmentTxId[n], TRUE)) =
                        FileEntry(curSegmentTxId[n],
                                  End(curSegmentTxId[n], inProgress[n][curSegmentTxId[n]]), FALSE)
    BY DEF OpenTailIsWhatWasWritten
  <2>1. curSegmentTxId[n] \in Txid
    BY DEF IInv, TypeOK, MemoryTypeOK
  <2>2. QED BY <2>1, TailIsShown
<1>3. QED BY Invariant, <1>1, <1>2, StepKeepsTail, PTL DEF Spec
=============================================================================
