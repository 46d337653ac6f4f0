------------------------------ MODULE Journal -------------------------------
(***************************************************************************)
(* One journal of a JournalNode: src/src/Journal.cpp and Journal.h with    *)
(* the file operations they call in FileJournalManager, EditLogFile,       *)
(* JNStorage and the long files.                                           *)
(*                                                                         *)
(* Every handler holds mMutex from entry to return, so a handler is one    *)
(* atomic action.  What is not atomic is the disk: the process can die     *)
(* between two system calls of a handler.  Each handler therefore has a    *)
(* second action, CrashIn..., that leaves on disk what the handler had     *)
(* done so far and loses the memory.                                       *)
(*                                                                         *)
(* All state is indexed by the node so that several journals can be        *)
(* composed with the writers that drive them.  A transaction is a member   *)
(* of Payload; an edit log is the sequence of transactions after its       *)
(* header, and the file that starts at txid s ends at s + Len - 1.         *)
(***************************************************************************)
EXTENDS Integers, Sequences, FiniteSets

CONSTANTS
  Node,        \* the JournalNodes
  Namespace,   \* the namespaces a client may format for
  Payload,     \* what one transaction carries
  Records,     \* the batches one journal() call may carry
  Proposal,    \* Proposal[e][s]: the logs the writer of epoch e may propose
               \* when it recovers the segment that starts at s
  Committed,   \* what a request may carry as committed txid
  MaxEpoch, MaxSerial, MaxTxid,  \* bounds on what requests carry
  Faults,      \* which of "crash", "diskFull", "download" may happen
  NoFile,      \* no such file
  Blank        \* a file of zero bytes: opened, its header not yet flushed

InvalidTxid == -12345          \* INVALID_TXID
Torn        == -1              \* a long file truncated and not written again
Unformatted == "unformatted"   \* no VERSION file
TornVersion == "tornVersion"   \* a VERSION file that cannot be parsed
Unreadable  == -1              \* scanLog returned an error

Epoch  == 1..MaxEpoch
Serial == 0..MaxSerial
Txid   == 1..MaxTxid
Body   == Seq(Payload)

ASSUME BoundsAssumption ==
  /\ MaxEpoch \in Nat /\ MaxSerial \in Nat /\ MaxTxid \in Nat
  /\ Committed \subseteq Txid \cup {InvalidTxid}
  /\ Faults \subseteq {"crash", "diskFull", "download"}

ASSUME LogAssumption ==
  /\ \A recs \in Records : recs \in Body /\ recs # <<>>
  /\ Proposal \in [Epoch -> [Txid -> SUBSET Body]]
  /\ \A e \in Epoch, s \in Txid : <<>> \notin Proposal[e][s]

ASSUME AbsentAssumption ==
  /\ NoFile # Blank
  /\ NoFile \notin Body /\ Blank \notin Body
  /\ NoFile \notin [epoch : Epoch, end : Txid]
  /\ NoFile \notin [end : Txid, body : Body]
  /\ Unformatted \notin Namespace /\ TornVersion \notin Namespace

VARIABLES
  \* on disk
  namespace,           \* VERSION: the namespace, or Unformatted, TornVersion
  paxosDir,            \* whether current/paxos exists
  promised,            \* last-promised-epoch
  writer,              \* last-writer-epoch
  inProgress,          \* [s] edits_inprogress_s
  finalized,           \* [s] edits_s-end: the end in its name and its content
  paxos,               \* [s] paxos/s: the accepted epoch and end
  tmp,                 \* [s][e] edits_inprogress_s.epoch=e
  \* in memory
  committed,           \* committedTxnId
  segmentOpen,         \* curSegment is not null
  curSegmentTxId,
  nextTxId,
  highestWrittenTxId,
  ipcSerial,           \* currentEpochIpcSerial
  \* the process
  status,              \* "up", "down", or the failed check that aborted it
  rc                   \* what the last call returned: 0 or -1

logs   == <<inProgress, finalized, paxos, tmp>>
disk   == <<namespace, paxosDir, promised, writer, logs>>
cursor == <<segmentOpen, curSegmentTxId, nextTxId>>
memory == <<committed, cursor, highestWrittenTxId, ipcSerial>>
vars   == <<disk, memory, status, rc>>

Request == [epoch : Epoch, serial : Serial, committed : Committed]
Decision == [epoch : Epoch, end : Txid]
FinalLog == [end : Txid, body : Body]

Status == {"up", "down", "committedBackward", "containsTransactions",
           "finalizedSegment", "flushFailed", "differentEnd",
           "acceptedMismatch", "outOfOrderEpochs", "discardsCommitted"}

DiskTypeOK ==
  /\ namespace \in [Node -> Namespace \cup {Unformatted, TornVersion}]
  /\ paxosDir \in [Node -> BOOLEAN]
  /\ promised \in [Node -> Epoch \cup {0, Torn}]
  /\ writer \in [Node -> Epoch \cup {0, Torn}]
  /\ inProgress \in [Node -> [Txid -> Body \cup {NoFile, Blank}]]
  /\ finalized \in [Node -> [Txid -> FinalLog \cup {NoFile}]]
  /\ paxos \in [Node -> [Txid -> Decision \cup {NoFile}]]
  /\ tmp \in [Node -> [Txid -> [Epoch -> Body \cup {NoFile, Blank}]]]

MemoryTypeOK ==
  /\ committed \in [Node -> Txid \cup {InvalidTxid}]
  /\ segmentOpen \in [Node -> BOOLEAN]
  /\ curSegmentTxId \in [Node -> Txid \cup {InvalidTxid}]
  /\ nextTxId \in [Node -> (1..MaxTxid + 1) \cup {InvalidTxid}]
  /\ highestWrittenTxId \in [Node -> 0..MaxTxid]
  /\ ipcSerial \in [Node -> Serial \cup {-1}]
  /\ status \in [Node -> Status]
  /\ rc \in [Node -> {0, -1}]

TypeOK == DiskTypeOK /\ MemoryTypeOK

-----------------------------------------------------------------------------
(* The files of one node *)

End(s, body) == s + Len(body) - 1

NoLogs == [s \in Txid |-> NoFile]

HasTxns(n, s) ==
  \/ finalized[n][s] # NoFile
  \/ inProgress[n][s] \notin {NoFile, Blank, <<>>}

\* What getLogFile(s) finds: it fails when two files start at s.
TwoFiles(n, s)      == inProgress[n][s] # NoFile /\ finalized[n][s] # NoFile
NoLogFile(n, s)     == inProgress[n][s] = NoFile /\ finalized[n][s] = NoFile
OnlyInProgress(n, s) == inProgress[n][s] # NoFile /\ finalized[n][s] = NoFile
OnlyFinalized(n, s) == inProgress[n][s] = NoFile /\ finalized[n][s] # NoFile

\* The number of transactions scanLog may report for a file.  In a blank file
\* skipHeader reads the eight header bytes beyond the end of the data: the
\* flags it sees may be zero (an empty log) or not (an error).
Scanned(file) ==
  IF file = NoFile THEN {0}
  ELSE IF file = Blank THEN {Unreadable, 0}
  ELSE {Len(file)}

\* A file found without transactions is renamed to *.empty.
Kept(n, s, file, len) ==
  IF finalized[n][s] = NoFile /\ len = 0 THEN NoFile ELSE file

\* The in-progress files above the last segment that holds a transaction:
\* the ones the storage scan meets first, from the highest start down.
Vacant(n) ==
  {s \in Txid : /\ inProgress[n][s] # NoFile
                /\ \A t \in Txid : t >= s => ~HasTxns(n, t)}

\* One scan of the storage: it moves the files in "aside" out of the way, and
\* fails at the first unreadable one.
ScanOutcomes(n) ==
  {[ok |-> TRUE, aside |-> Vacant(n)]} \cup
  {[ok |-> FALSE, aside |-> {s \in Vacant(n) : s > b}] :
      b \in {s \in Vacant(n) : inProgress[n][s] = Blank}}

MoveAside(n, aside) ==
  inProgress' = [inProgress EXCEPT ![n] =
                   [s \in Txid |-> IF s \in aside THEN NoFile ELSE @[s]]]

\* The segment a successful newEpoch reports: the last one with transactions.
IsLatest(n, s) ==
  /\ HasTxns(n, s)
  /\ \A t \in Txid : HasTxns(n, t) => t <= s

LastTxid(n, s) ==
  IF finalized[n][s] # NoFile THEN finalized[n][s].end
                              ELSE End(s, inProgress[n][s])

-----------------------------------------------------------------------------
(* The process *)

Up(n) == status[n] = "up"
Formatted(n) == Up(n) /\ namespace[n] \in Namespace
CanCrash == "crash" \in Faults

Return(n, code) == rc' = [rc EXCEPT ![n] = code]

\* The process ends, by a crash or by abort(), and its memory is gone.
Die(n, why) ==
  /\ status' = [status EXCEPT ![n] = why]
  /\ committed' = [committed EXCEPT ![n] = InvalidTxid]
  /\ segmentOpen' = [segmentOpen EXCEPT ![n] = FALSE]
  /\ curSegmentTxId' = [curSegmentTxId EXCEPT ![n] = InvalidTxid]
  /\ nextTxId' = [nextTxId EXCEPT ![n] = InvalidTxid]
  /\ highestWrittenTxId' = [highestWrittenTxId EXCEPT ![n] = 0]
  /\ ipcSerial' = [ipcSerial EXCEPT ![n] = -1]
  /\ Return(n, -1)

Crash(n) ==
  /\ Up(n) /\ CanCrash
  /\ Die(n, "down")
  /\ UNCHANGED disk

\* The constructor, in a new process: the caches are empty, the storage is
\* scanned.  A failed scan leaves a journal nobody can use: the next request
\* constructs another one.
Load(n) ==
  /\ ~Up(n) /\ namespace[n] # TornVersion
  /\ \E scan \in ScanOutcomes(n) :
       /\ MoveAside(n, scan.aside)
       /\ IF scan.ok
          THEN /\ status' = [status EXCEPT ![n] = "up"]
               /\ Return(n, 0)
               /\ \E h \in 0..MaxTxid :
                    /\ \/ h = 0 /\ \A s \in Txid : ~HasTxns(n, s)
                       \/ \E s \in Txid : IsLatest(n, s) /\ h = LastTxid(n, s)
                    /\ highestWrittenTxId' =
                         [highestWrittenTxId EXCEPT ![n] = h]
          ELSE /\ status' = [status EXCEPT ![n] = "down"]
               /\ Return(n, -1)
               /\ UNCHANGED highestWrittenTxId
  /\ UNCHANGED <<namespace, paxosDir, promised, writer, finalized, paxos, tmp,
                 committed, cursor, ipcSerial>>

\* A VERSION file that cannot be parsed: the constructor gives up.
LoadFails(n) ==
  /\ ~Up(n) /\ namespace[n] = TornVersion
  /\ Return(n, -1)
  /\ UNCHANGED <<disk, memory, status>>

-----------------------------------------------------------------------------
(* format *)

Wipe(n) ==
  /\ promised' = [promised EXCEPT ![n] = 0]
  /\ writer' = [writer EXCEPT ![n] = 0]
  /\ inProgress' = [inProgress EXCEPT ![n] = NoLogs]
  /\ finalized' = [finalized EXCEPT ![n] = NoLogs]
  /\ paxos' = [paxos EXCEPT ![n] = NoLogs]
  /\ tmp' = [tmp EXCEPT ![n] = [s \in Txid |-> [e \in Epoch |-> NoFile]]]

\* The directory is emptied and the three long files forgotten; the rest of
\* the memory stays as it was.
Format(n, ns) ==
  /\ Up(n)
  /\ Wipe(n)
  /\ namespace' = [namespace EXCEPT ![n] = ns]
  /\ paxosDir' = [paxosDir EXCEPT ![n] = TRUE]
  /\ committed' = [committed EXCEPT ![n] = InvalidTxid]
  /\ Return(n, 0)
  /\ UNCHANGED <<cursor, highestWrittenTxId, ipcSerial, status>>

\* After remove_all: before VERSION, between its truncation and its content,
\* or before the paxos directory.
CrashInFormat(n, ns) ==
  /\ Up(n) /\ CanCrash
  /\ Wipe(n)
  /\ \E v \in {Unformatted, TornVersion, ns} :
       namespace' = [namespace EXCEPT ![n] = v]
  /\ paxosDir' = [paxosDir EXCEPT ![n] = FALSE]
  /\ Die(n, "down")

-----------------------------------------------------------------------------
(* checkRequest and what every handler does first *)

\* The last serial heard in the request's epoch: updateLastPromisedEpoch
\* resets it to 0.
SerialFloor(n, e) == IF e > promised[n] THEN 0 ELSE ipcSerial[n]

\* Mutant: a request of an older epoch is not refused.
FencedOnlyIfTorn(n, e) == promised[n] = Torn

Fenced(n, e) == promised[n] = Torn \/ e < promised[n]
OutOfOrder(n, req) == req.serial <= SerialFloor(n, req.epoch)
MovesCommittedBack(n, req) ==
  req.committed # InvalidTxid /\ req.committed < committed[n]

Passes(n, req) ==
  /\ Formatted(n)
  /\ ~Fenced(n, req.epoch)
  /\ ~OutOfOrder(n, req)
  /\ ~MovesCommittedBack(n, req)

\* The two lasting effects of a request that passes: the promise on disk, the
\* serial and the committed txid in memory.
Promise(n, e) == promised' = [promised EXCEPT ![n] = e]
Remember(n, req) ==
  /\ ipcSerial' = [ipcSerial EXCEPT ![n] = req.serial]
  /\ committed' = IF req.committed = InvalidTxid THEN committed
                  ELSE [committed EXCEPT ![n] = req.committed]

RefuseUnformatted(n) ==
  /\ Up(n) /\ namespace[n] = Unformatted
  /\ Return(n, -1)
  /\ UNCHANGED <<disk, memory, status>>

RefuseFenced(n, req) ==
  /\ Formatted(n) /\ Fenced(n, req.epoch)
  /\ Return(n, -1)
  /\ UNCHANGED <<disk, memory, status>>

\* The promise to a newer epoch stays although the request is refused.
RefuseOutOfOrder(n, req) ==
  /\ Formatted(n) /\ ~Fenced(n, req.epoch) /\ OutOfOrder(n, req)
  /\ Promise(n, req.epoch)
  /\ ipcSerial' = [ipcSerial EXCEPT ![n] = SerialFloor(n, req.epoch)]
  /\ Return(n, -1)
  /\ UNCHANGED <<namespace, paxosDir, writer, logs, committed, cursor,
                 highestWrittenTxId, status>>

AbortCommittedBackward(n, req) ==
  /\ Formatted(n) /\ ~Fenced(n, req.epoch) /\ ~OutOfOrder(n, req)
  /\ MovesCommittedBack(n, req)
  /\ Promise(n, req.epoch)
  /\ Die(n, "committedBackward")
  /\ UNCHANGED <<namespace, paxosDir, writer, logs>>

\* PersistentLongFile::writeFile truncates the file, then writes it.
CrashInPromise(n, e) ==
  /\ Formatted(n) /\ CanCrash
  /\ promised[n] # Torn /\ e > promised[n]
  /\ \E value \in {Torn, e} : Promise(n, value)
  /\ Die(n, "down")
  /\ UNCHANGED <<namespace, paxosDir, writer, logs>>

\* Mutants: the segment txid outlives the stream; the segment is not aborted.
AbortKeepsTxid(n) ==
  /\ segmentOpen' = [segmentOpen EXCEPT ![n] = FALSE]
  /\ UNCHANGED curSegmentTxId
AbortNothing(n) == UNCHANGED <<segmentOpen, curSegmentTxId>>

\* abortCurSegment
AbortSegment(n) ==
  /\ segmentOpen' = [segmentOpen EXCEPT ![n] = FALSE]
  /\ curSegmentTxId' = [curSegmentTxId EXCEPT ![n] =
                          IF segmentOpen[n] THEN InvalidTxid ELSE @]

-----------------------------------------------------------------------------
(* newEpoch *)

\* checkConsistentNamespace: the writer is of the cluster VERSION names.
ConsistentNamespace(n, ns) == ns = namespace[n]

RefuseNewEpoch(n, ns, e) ==
  /\ Formatted(n)
  /\ ~ConsistentNamespace(n, ns) \/ promised[n] = Torn \/ e <= promised[n]
  /\ Return(n, -1)
  /\ UNCHANGED <<disk, memory, status>>

\* The promise is made before the scan, which may still fail.
NewEpoch(n, ns, e) ==
  /\ Formatted(n) /\ ConsistentNamespace(n, ns)
  /\ promised[n] # Torn /\ e > promised[n]
  /\ Promise(n, e)
  /\ ipcSerial' = [ipcSerial EXCEPT ![n] = 0]
  /\ AbortSegment(n)
  /\ \E scan \in ScanOutcomes(n) :
       /\ MoveAside(n, scan.aside)
       /\ Return(n, IF scan.ok THEN 0 ELSE -1)
  /\ UNCHANGED <<namespace, paxosDir, writer, finalized, paxos, tmp,
                 committed, nextTxId, highestWrittenTxId, status>>

-----------------------------------------------------------------------------
(* startLogSegment *)

\* Mutant: any file in progress may be overwritten.
MayStartOverAnything(n, s) == finalized[n][s] = NoFile

\* An existing file may be overwritten only if it is in progress and holds
\* exactly one transaction.
MayStart(n, s) ==
  /\ finalized[n][s] = NoFile
  /\ inProgress[n][s] # NoFile => Scanned(inProgress[n][s]) = {1}

\* The new stream truncates the file and writes its header.
OpenSegment(n, s, file) ==
  /\ inProgress' = [inProgress EXCEPT ![n][s] = file]
  /\ segmentOpen' = [segmentOpen EXCEPT ![n] = TRUE]

StartLogSegment(n, req, s) ==
  /\ Passes(n, req)
  /\ MayStart(n, s) /\ writer[n] # Torn
  /\ Promise(n, req.epoch) /\ Remember(n, req)
  /\ writer' = [writer EXCEPT ![n] = req.epoch]
  /\ paxos' = [paxos EXCEPT ![n][s] = NoFile]
  /\ OpenSegment(n, s, <<>>)
  /\ curSegmentTxId' = [curSegmentTxId EXCEPT ![n] = s]
  /\ nextTxId' = [nextTxId EXCEPT ![n] = s]
  /\ Return(n, 0)
  /\ UNCHANGED <<namespace, paxosDir, finalized, tmp, highestWrittenTxId,
                 status>>

\* The header cannot be written: the stream stays open, on no segment.
StartLogSegmentNoSpace(n, req, s) ==
  /\ Passes(n, req) /\ "diskFull" \in Faults
  /\ MayStart(n, s) /\ writer[n] # Torn
  /\ Promise(n, req.epoch) /\ Remember(n, req)
  /\ writer' = [writer EXCEPT ![n] = req.epoch]
  /\ paxos' = [paxos EXCEPT ![n][s] = NoFile]
  /\ OpenSegment(n, s, Blank)
  /\ curSegmentTxId' = [curSegmentTxId EXCEPT ![n] =
                          IF segmentOpen[n] THEN InvalidTxid ELSE @]
  /\ Return(n, -1)
  /\ UNCHANGED <<namespace, paxosDir, finalized, tmp, nextTxId,
                 highestWrittenTxId, status>>

\* Two files at s, an unreadable one, or a torn last-writer-epoch.
RefuseStartLogSegment(n, req, s) ==
  /\ Passes(n, req)
  /\ \/ TwoFiles(n, s)
     \/ OnlyInProgress(n, s) /\ Unreadable \in Scanned(inProgress[n][s])
     \/ MayStart(n, s) /\ writer[n] = Torn
  /\ Promise(n, req.epoch) /\ Remember(n, req) /\ AbortSegment(n)
  /\ Return(n, -1)
  /\ UNCHANGED <<namespace, paxosDir, writer, logs, nextTxId,
                 highestWrittenTxId, status>>

\* A finalized file, or one in progress without exactly one transaction.
AbortStartLogSegment(n, req, s) ==
  /\ Passes(n, req)
  /\ \/ OnlyFinalized(n, s)
     \/ OnlyInProgress(n, s) /\ Scanned(inProgress[n][s]) \ {Unreadable, 1} # {}
  /\ Promise(n, req.epoch)
  /\ Die(n, IF OnlyFinalized(n, s) THEN "finalizedSegment"
                                   ELSE "containsTransactions")
  /\ UNCHANGED <<namespace, paxosDir, writer, logs>>

\* Mutant: the decision is purged before the writer epoch is written.
PurgeBeforeWriterEpoch(n, req, s) ==
  /\ Passes(n, req) /\ CanCrash
  /\ MayStart(n, s) /\ writer[n] # Torn
  /\ Promise(n, req.epoch)
  /\ paxos' = [paxos EXCEPT ![n][s] = NoFile]
  /\ Die(n, "down")
  /\ UNCHANGED <<namespace, paxosDir, writer, inProgress, finalized, tmp>>

\* Before or within the write of the writer epoch, after it, after the purge
\* of the old decision, or between the truncation of the file and its header.
CrashInStartLogSegment(n, req, s) ==
  /\ Passes(n, req) /\ CanCrash
  /\ MayStart(n, s) /\ writer[n] # Torn
  /\ Promise(n, req.epoch)
  /\ \/ /\ writer[n] # req.epoch
        /\ writer' = [writer EXCEPT ![n] = Torn]
        /\ UNCHANGED <<inProgress, paxos>>
     \/ /\ writer' = [writer EXCEPT ![n] = req.epoch]
        /\ UNCHANGED <<inProgress, paxos>>
     \/ /\ writer' = [writer EXCEPT ![n] = req.epoch]
        /\ paxos' = [paxos EXCEPT ![n][s] = NoFile]
        /\ \E file \in {inProgress[n][s], Blank} :
             inProgress' = [inProgress EXCEPT ![n][s] = file]
  /\ Die(n, "down")
  /\ UNCHANGED <<namespace, paxosDir, finalized, tmp>>

-----------------------------------------------------------------------------
(* journal *)

\* What a batch adds to the file it is written to; a stream whose file was
\* deleted writes to a file nobody can see.
Written(file, recs) == IF file \in {NoFile, Blank} THEN file ELSE file \o recs

\* Not the current writer, or a gap.
RefuseJournal(n, req, s, first) ==
  /\ Passes(n, req)
  /\ \/ writer[n] # req.epoch
     \/ curSegmentTxId[n] = s /\ nextTxId[n] # first
  /\ Promise(n, req.epoch) /\ Remember(n, req)
  /\ Return(n, -1)
  /\ UNCHANGED <<namespace, paxosDir, writer, logs, cursor,
                 highestWrittenTxId, status>>

\* The writer is on another segment: the current one is aborted.
JournalOutOfSync(n, req, s) ==
  /\ Passes(n, req)
  /\ writer[n] = req.epoch /\ curSegmentTxId[n] # s
  /\ Promise(n, req.epoch) /\ Remember(n, req) /\ AbortSegment(n)
  /\ Return(n, -1)
  /\ UNCHANGED <<namespace, paxosDir, writer, logs, nextTxId,
                 highestWrittenTxId, status>>

\* Mutant: the writer epoch is not checked.
CanWriteUnchecked(n, req, s, first, recs) ==
  /\ Passes(n, req)
  /\ curSegmentTxId[n] = s /\ nextTxId[n] = first
  /\ first + Len(recs) - 1 <= MaxTxid

\* curSegment is dereferenced here without a check.
CanWrite(n, req, s, first, recs) ==
  /\ Passes(n, req)
  /\ writer[n] = req.epoch
  /\ curSegmentTxId[n] = s /\ nextTxId[n] = first
  /\ first + Len(recs) - 1 <= MaxTxid      \* bound of the model

Write(n, req, s, first, recs) ==
  /\ CanWrite(n, req, s, first, recs)
  /\ Promise(n, req.epoch) /\ Remember(n, req)
  /\ inProgress' = [inProgress EXCEPT ![n][s] = Written(@, recs)]
  /\ highestWrittenTxId' = [highestWrittenTxId EXCEPT ![n] =
                              first + Len(recs) - 1]
  /\ nextTxId' = [nextTxId EXCEPT ![n] = first + Len(recs)]
  /\ Return(n, 0)
  /\ UNCHANGED <<namespace, paxosDir, writer, finalized, paxos, tmp,
                 segmentOpen, curSegmentTxId, status>>

\* flush() fails after part of the batch: abort().  scanOp takes a record that
\* lost its end after the txid for a whole one (JNClientInputStream.cpp:112),
\* so k goes up to the whole batch.
WriteNoSpace(n, req, s, first, recs) ==
  /\ CanWrite(n, req, s, first, recs) /\ "diskFull" \in Faults
  /\ Promise(n, req.epoch)
  /\ \E k \in 0..Len(recs) :
       inProgress' = [inProgress EXCEPT ![n][s] =
                        Written(@, SubSeq(recs, 1, k))]
  /\ Die(n, "flushFailed")
  /\ UNCHANGED <<namespace, paxosDir, writer, finalized, paxos, tmp>>

-----------------------------------------------------------------------------
(* finalizeLogSegment *)

Writing(n, s) == curSegmentTxId[n] = s

\* Whatever the outcome, a current segment asked for is closed.
CloseIfWriting(n, s) ==
  IF Writing(n, s) THEN AbortSegment(n)
                   ELSE UNCHANGED <<segmentOpen, curSegmentTxId>>

\* Mutant: nextTxId taken for the last txid written.
EndAgreesWithNext(n, s, end) == Writing(n, s) => nextTxId[n] = end

EndAgrees(n, s, end) == Writing(n, s) => nextTxId[n] = end + 1

MayFinalize(n, s, end) ==
  /\ EndAgrees(n, s, end) /\ OnlyInProgress(n, s)
  /\ ~Writing(n, s) => Scanned(inProgress[n][s]) = {end + 1 - s}

\* Mutant: the name carries the txid before the last.
RenameShort(n, s, end) ==
  /\ finalized' = [finalized EXCEPT ![n][s] =
                     [end |-> end - 1, body |-> inProgress[n][s]]]
  /\ inProgress' = [inProgress EXCEPT ![n][s] = NoFile]

\* The in-progress file is renamed to carry its end, then the decision that
\* recovery may have left is purged.
Rename(n, s, end) ==
  /\ finalized' = [finalized EXCEPT ![n][s] =
                     [end |-> end, body |-> inProgress[n][s]]]
  /\ inProgress' = [inProgress EXCEPT ![n][s] = NoFile]

FinalizeLogSegment(n, req, s, end) ==
  /\ Passes(n, req) /\ MayFinalize(n, s, end)
  /\ Promise(n, req.epoch) /\ Remember(n, req) /\ CloseIfWriting(n, s)
  /\ Rename(n, s, end)
  /\ paxos' = [paxos EXCEPT ![n][s] = NoFile]
  /\ Return(n, 0)
  /\ UNCHANGED <<namespace, paxosDir, writer, tmp, nextTxId,
                 highestWrittenTxId, status>>

\* Already finalized, with the same end.
FinalizeAgain(n, req, s, end) ==
  /\ Passes(n, req) /\ EndAgrees(n, s, end)
  /\ OnlyFinalized(n, s) /\ finalized[n][s].end = end
  /\ Promise(n, req.epoch) /\ Remember(n, req) /\ CloseIfWriting(n, s)
  /\ paxos' = [paxos EXCEPT ![n][s] = NoFile]
  /\ Return(n, 0)
  /\ UNCHANGED <<namespace, paxosDir, writer, inProgress, finalized, tmp,
                 nextTxId, highestWrittenTxId, status>>

RefuseFinalize(n, req, s, end) ==
  /\ Passes(n, req)
  /\ \/ ~EndAgrees(n, s, end)
     \/ TwoFiles(n, s)
     \/ NoLogFile(n, s)
     \/ /\ OnlyInProgress(n, s) /\ ~Writing(n, s)
        /\ Scanned(inProgress[n][s]) # {end + 1 - s}
  /\ Promise(n, req.epoch) /\ Remember(n, req) /\ CloseIfWriting(n, s)
  /\ Return(n, -1)
  /\ UNCHANGED <<namespace, paxosDir, writer, logs, nextTxId,
                 highestWrittenTxId, status>>

AbortFinalize(n, req, s, end) ==
  /\ Passes(n, req) /\ EndAgrees(n, s, end)
  /\ OnlyFinalized(n, s) /\ finalized[n][s].end # end
  /\ Promise(n, req.epoch)
  /\ Die(n, "differentEnd")
  /\ UNCHANGED <<namespace, paxosDir, writer, logs>>

\* Between the rename and the purge.
CrashInFinalize(n, req, s, end) ==
  /\ Passes(n, req) /\ CanCrash /\ MayFinalize(n, s, end)
  /\ Promise(n, req.epoch)
  /\ Rename(n, s, end)
  /\ Die(n, "down")
  /\ UNCHANGED <<namespace, paxosDir, writer, paxos, tmp>>

-----------------------------------------------------------------------------
(* prepareRecovery *)

\* acceptRecovery persisted its decision and did not get to rename the log.
HalfDone(n, s) ==
  paxos[n][s] # NoFile /\ tmp[n][s][paxos[n][s].epoch] # NoFile

RolledForward(n, s) ==
  IF HalfDone(n, s) THEN tmp[n][s][paxos[n][s].epoch] ELSE inProgress[n][s]

\* completeHalfDoneAcceptRecovery, then getSegmentInfo, which found len
\* transactions in the in-progress file if it looked at it.
RollForward(n, s, len) ==
  /\ inProgress' = [inProgress EXCEPT ![n][s] =
                      Kept(n, s, RolledForward(n, s), len)]
  /\ tmp' = IF HalfDone(n, s)
            THEN [tmp EXCEPT ![n][s][paxos[n][s].epoch] = NoFile]
            ELSE tmp

\* The assertion: a decision without a finalized segment must end where the
\* log on disk ends; endtxid() of an absent segment is 0.
DecisionDiffers(n, s, len) ==
  /\ paxos[n][s] # NoFile /\ finalized[n][s] = NoFile
  /\ paxos[n][s].end # (IF len > 0 THEN s + len - 1 ELSE 0)

SegmentInfoFails(n, s, len) ==
  \/ RolledForward(n, s) # NoFile /\ finalized[n][s] # NoFile
  \/ finalized[n][s] = NoFile /\ len = Unreadable

PrepareRecovery(n, req, s) ==
  /\ Passes(n, req)
  /\ Promise(n, req.epoch) /\ Remember(n, req) /\ AbortSegment(n)
  /\ \E len \in Scanned(RolledForward(n, s)) :
       /\ RollForward(n, s, len)
       /\ \/ SegmentInfoFails(n, s, len) /\ Return(n, -1)
          \/ /\ ~SegmentInfoFails(n, s, len) /\ ~DecisionDiffers(n, s, len)
             /\ Return(n, IF writer[n] = Torn THEN -1 ELSE 0)
  /\ UNCHANGED <<namespace, paxosDir, writer, finalized, paxos, nextTxId,
                 highestWrittenTxId, status>>

AbortPrepareRecovery(n, req, s) ==
  /\ Passes(n, req)
  /\ Promise(n, req.epoch)
  /\ \E len \in Scanned(RolledForward(n, s)) :
       /\ ~SegmentInfoFails(n, s, len) /\ DecisionDiffers(n, s, len)
       /\ RollForward(n, s, len)
  /\ Die(n, "acceptedMismatch")
  /\ UNCHANGED <<namespace, paxosDir, writer, finalized, paxos>>

\* replaceFile deletes its target, then renames.
CrashInPrepareRecovery(n, req, s) ==
  /\ Passes(n, req) /\ CanCrash /\ HalfDone(n, s)
  /\ Promise(n, req.epoch)
  /\ inProgress' = [inProgress EXCEPT ![n][s] = NoFile]
  /\ Die(n, "down")
  /\ UNCHANGED <<namespace, paxosDir, writer, finalized, paxos, tmp>>

-----------------------------------------------------------------------------
(* acceptRecovery, of the segment [s, end]; body is what the other node      *)
(* serves for it, len what getSegmentInfo counted in the in-progress file    *)

\* An error of getSegmentInfo is taken for "no current segment".
NoSegment(n, s, len) ==
  TwoFiles(n, s) \/ (finalized[n][s] = NoFile /\ len \in {0, Unreadable})

CurrentEnd(n, s, len) ==
  IF finalized[n][s] # NoFile THEN finalized[n][s].end ELSE s + len - 1

InPlace(n, s, len, end) == ~NoSegment(n, s, len) /\ CurrentEnd(n, s, len) = end

\* Mutant: the committed txid as it was before this request.
DiscardsOldCommitted(n, req, s, len, end) ==
  committed[n] \in s..CurrentEnd(n, s, len) /\ committed[n] \notin s..end

DiscardsCommitted(n, req, s, len, end) ==
  LET cti == IF req.committed = InvalidTxid THEN committed[n]
                                            ELSE req.committed
  IN  cti \in s..CurrentEnd(n, s, len) /\ cti \notin s..end

OldDecisionIsNewer(n, e, s) == paxos[n][s] # NoFile /\ paxos[n][s].epoch > e

Replaces(n, s, len, end) ==
  ~NoSegment(n, s, len) /\ CurrentEnd(n, s, len) # end

AcceptAborts(n, req, s, len, end) ==
  \/ OldDecisionIsNewer(n, req.epoch, s)
  \/ /\ Replaces(n, s, len, end)
     /\ DiscardsCommitted(n, req, s, len, end) \/ finalized[n][s] # NoFile

\* highestWrittenTxId is raised, or lowered with the log it lies in, before
\* the download is tried.
HighestAfter(n, s, len, end) ==
  LET highest == highestWrittenTxId[n]
  IN  IF NoSegment(n, s, len)
      THEN IF end > highest THEN end ELSE highest
      ELSE IF highest \in s..CurrentEnd(n, s, len) THEN end ELSE highest

Admitted(n, req, s, len, end) ==
  /\ Passes(n, req)
  /\ len \in Scanned(inProgress[n][s])
  /\ ~AcceptAborts(n, req, s, len, end)
  /\ Promise(n, req.epoch)

Decide(n, s, e, end) ==
  paxos' = [paxos EXCEPT ![n][s] = [epoch |-> e, end |-> end]]

\* The log on disk has the right length already: only the decision is written.
AcceptInPlace(n, req, s, len, end) ==
  /\ Admitted(n, req, s, len, end) /\ InPlace(n, s, len, end)
  /\ Remember(n, req) /\ AbortSegment(n)
  /\ IF paxosDir[n] THEN Decide(n, s, req.epoch, end) /\ Return(n, 0)
                    ELSE UNCHANGED paxos /\ Return(n, -1)
  /\ UNCHANGED <<namespace, paxosDir, writer, inProgress, finalized, tmp,
                 nextTxId, highestWrittenTxId, status>>

\* syncLog, persistPaxosData, replaceFile
AcceptRecovery(n, req, s, len, end, body) ==
  /\ Admitted(n, req, s, len, end) /\ ~InPlace(n, s, len, end)
  /\ paxosDir[n]
  /\ Remember(n, req) /\ AbortSegment(n)
  /\ highestWrittenTxId' = [highestWrittenTxId EXCEPT ![n] =
                              HighestAfter(n, s, len, end)]
  /\ tmp' = [tmp EXCEPT ![n][s][req.epoch] = NoFile]
  /\ Decide(n, s, req.epoch, end)
  /\ inProgress' = [inProgress EXCEPT ![n][s] = body]
  /\ Return(n, 0)
  /\ UNCHANGED <<namespace, paxosDir, writer, finalized, nextTxId, status>>

\* The download fails and its file is deleted, or there is no directory for
\* the decision and the download stays.
FailAcceptRecovery(n, req, s, len, end, body) ==
  /\ Admitted(n, req, s, len, end) /\ ~InPlace(n, s, len, end)
  /\ Remember(n, req) /\ AbortSegment(n)
  /\ highestWrittenTxId' = [highestWrittenTxId EXCEPT ![n] =
                              HighestAfter(n, s, len, end)]
  /\ inProgress' = [inProgress EXCEPT ![n][s] = Kept(n, s, @, len)]
  /\ \/ /\ "download" \in Faults
        /\ tmp' = [tmp EXCEPT ![n][s][req.epoch] = NoFile]
     \/ /\ ~paxosDir[n]
        /\ tmp' = [tmp EXCEPT ![n][s][req.epoch] = body]
  /\ Return(n, -1)
  /\ UNCHANGED <<namespace, paxosDir, writer, finalized, paxos, nextTxId,
                 status>>

AbortAcceptRecovery(n, req, s, end) ==
  /\ Passes(n, req)
  /\ \E len \in Scanned(inProgress[n][s]) :
       /\ AcceptAborts(n, req, s, len, end)
       /\ inProgress' = [inProgress EXCEPT ![n][s] = Kept(n, s, @, len)]
       /\ Die(n, IF OldDecisionIsNewer(n, req.epoch, s) THEN "outOfOrderEpochs"
                 ELSE IF DiscardsCommitted(n, req, s, len, end)
                      THEN "discardsCommitted" ELSE "finalizedSegment")
  /\ Promise(n, req.epoch)
  /\ UNCHANGED <<namespace, paxosDir, writer, finalized, paxos, tmp>>

\* What a download that is cut off leaves.
CutOff(body) ==
  IF body = Blank THEN {} ELSE {SubSeq(body, 1, k) : k \in 0..Len(body)}

\* During or after the download, after the decision, or in replaceFile
\* between the deletion of the old log and the rename of the new one.
CrashInAcceptRecovery(n, req, s, len, end, body) ==
  /\ Admitted(n, req, s, len, end) /\ ~InPlace(n, s, len, end) /\ CanCrash
  /\ \/ /\ \E file \in CutOff(body) \cup {Blank} :
             tmp' = [tmp EXCEPT ![n][s][req.epoch] = file]
        /\ inProgress' = [inProgress EXCEPT ![n][s] = Kept(n, s, @, len)]
        /\ UNCHANGED paxos
     \/ /\ paxosDir[n]
        /\ tmp' = [tmp EXCEPT ![n][s][req.epoch] = body]
        /\ Decide(n, s, req.epoch, end)
        /\ \E file \in {Kept(n, s, inProgress[n][s], len), NoFile} :
             inProgress' = [inProgress EXCEPT ![n][s] = file]
  /\ Die(n, "down")
  /\ UNCHANGED <<namespace, paxosDir, writer, finalized>>

-----------------------------------------------------------------------------
(* The specification *)

Init ==
  /\ namespace = [n \in Node |-> Unformatted]
  /\ paxosDir = [n \in Node |-> FALSE]
  /\ promised = [n \in Node |-> 0]
  /\ writer = [n \in Node |-> 0]
  /\ inProgress = [n \in Node |-> NoLogs]
  /\ finalized = [n \in Node |-> NoLogs]
  /\ paxos = [n \in Node |-> NoLogs]
  /\ tmp = [n \in Node |-> [s \in Txid |-> [e \in Epoch |-> NoFile]]]
  /\ committed = [n \in Node |-> InvalidTxid]
  /\ segmentOpen = [n \in Node |-> FALSE]
  /\ curSegmentTxId = [n \in Node |-> InvalidTxid]
  /\ nextTxId = [n \in Node |-> InvalidTxid]
  /\ highestWrittenTxId = [n \in Node |-> 0]
  /\ ipcSerial = [n \in Node |-> -1]
  /\ status = [n \in Node |-> "up"]
  /\ rc = [n \in Node |-> 0]

Lifecycle(n) ==
  \/ Crash(n)
  \/ Load(n)
  \/ LoadFails(n)

Formatting(n) ==
  \/ \E ns \in Namespace : Format(n, ns)
  \/ \E ns \in Namespace : CrashInFormat(n, ns)

Epochs(n) ==
  \/ \E ns \in Namespace, e \in Epoch : RefuseNewEpoch(n, ns, e)
  \/ \E ns \in Namespace, e \in Epoch : NewEpoch(n, ns, e)
  \/ \E e \in Epoch : CrashInPromise(n, e)

Refusals(n) ==
  \/ RefuseUnformatted(n)
  \/ \E req \in Request : RefuseFenced(n, req)
  \/ \E req \in Request : RefuseOutOfOrder(n, req)
  \/ \E req \in Request : AbortCommittedBackward(n, req)

Starting(n) ==
  \E req \in Request, s \in Txid :
    \/ StartLogSegment(n, req, s)
    \/ StartLogSegmentNoSpace(n, req, s)
    \/ RefuseStartLogSegment(n, req, s)
    \/ AbortStartLogSegment(n, req, s)
    \/ CrashInStartLogSegment(n, req, s)

Journaling(n) ==
  \E req \in Request, s \in Txid :
    \/ \E first \in Txid : RefuseJournal(n, req, s, first)
    \/ JournalOutOfSync(n, req, s)
    \/ \E first \in Txid, recs \in Records : Write(n, req, s, first, recs)
    \/ \E first \in Txid, recs \in Records : WriteNoSpace(n, req, s, first, recs)

Finalizing(n) ==
  \E req \in Request, s \in Txid : \E end \in s..MaxTxid :
    \/ FinalizeLogSegment(n, req, s, end)
    \/ FinalizeAgain(n, req, s, end)
    \/ RefuseFinalize(n, req, s, end)
    \/ AbortFinalize(n, req, s, end)
    \/ CrashInFinalize(n, req, s, end)

Preparing(n) ==
  \E req \in Request, s \in Txid :
    \/ PrepareRecovery(n, req, s)
    \/ AbortPrepareRecovery(n, req, s)
    \/ CrashInPrepareRecovery(n, req, s)

\* The source serves what the writer proposed; in module QuorumRecovery it
\* serves what its log holds by then.
Accepting(n) ==
  \E req \in Request, s \in Txid :
    \E body \in Proposal[req.epoch][s] :
      LET end == End(s, body)
      IN  /\ end <= MaxTxid                \* bound of the model
          /\ \/ AbortAcceptRecovery(n, req, s, end)
             \/ \E len \in Scanned(inProgress[n][s]) :
                  \/ AcceptInPlace(n, req, s, len, end)
                  \/ AcceptRecovery(n, req, s, len, end, body)
                  \/ FailAcceptRecovery(n, req, s, len, end, body)
                  \/ CrashInAcceptRecovery(n, req, s, len, end, body)

Next ==
  \E n \in Node :
    \/ Lifecycle(n)  \/ Formatting(n) \/ Epochs(n)    \/ Refusals(n)
    \/ Starting(n)   \/ Journaling(n) \/ Finalizing(n)
    \/ Preparing(n)  \/ Accepting(n)

Spec == Init /\ [][Next]_vars

-----------------------------------------------------------------------------
(* Safety *)

IsLog(file) == file \notin {NoFile, Blank}

\* The only steps that may make a journal forget: a format, whole or not.
Wiped(n) == \E ns \in Namespace : Format(n, ns) \/ CrashInFormat(n, ns)

\* journal() logs "no segment open" but does not return before it writes
\* through curSegment: it is saved by the segment txid, which no request can
\* match while no segment is open.
NoTxidWithoutSegment ==
  \A n \in Node : ~segmentOpen[n] => curSegmentTxId[n] = InvalidTxid

\* The segment being written is on disk, in progress only, and ends just
\* below nextTxId: what journal() acknowledges is in the file that recovery
\* and finalizeLogSegment will look at.  After a format the old segment may
\* still be current, but its file is gone and no writer is admitted to it.
WrittenSegmentOnDisk(n, s) ==
  /\ finalized[n][s] = NoFile
  /\ IF writer[n] = 0
     THEN inProgress[n][s] = NoFile
     ELSE IsLog(inProgress[n][s]) /\ nextTxId[n] = s + Len(inProgress[n][s])

SegmentBeingWrittenIsOnDisk ==
  \A n \in Node :
    curSegmentTxId[n] # InvalidTxid => WrittenSegmentOnDisk(n, curSegmentTxId[n])

\* A segment being written has no accepted decision: a recovery of it that
\* was accepted is purged by startLogSegment, and acceptRecovery ends the
\* writing.  Otherwise prepareRecovery would find a decision that does not
\* match the disk, and abort.
NoDecisionOnSegmentBeingWritten ==
  \A n \in Node :
    curSegmentTxId[n] # InvalidTxid => paxos[n][curSegmentTxId[n]] = NoFile

\* No writer started a segment, and no decision was accepted, in an epoch
\* above the promise, in whatever order the files were written.
NoEpochAbove(n, e) ==
  /\ writer[n] <= e
  /\ \A s \in Txid : paxos[n][s] # NoFile => paxos[n][s].epoch <= e

EpochsBelowPromise ==
  \A n \in Node : promised[n] # Torn => NoEpochAbove(n, promised[n])

\* finalizeLogSegment does not look into the file it was just writing to;
\* still the end in the name of every finalized segment is where it ends.
EndsAsNamed(s, file) == IsLog(file.body) /\ End(s, file.body) = file.end

FinalizedEndsAsNamed ==
  \A n \in Node, s \in Txid :
    finalized[n][s] # NoFile => EndsAsNamed(s, finalized[n][s])

\* A promise, once written, is never taken back or lowered, whatever
\* requests, crashes and restarts follow; a torn one refuses everything.
PromiseNeverRegresses ==
  [][\A n \in Node :
       \/ promised'[n] = Torn
       \/ promised[n] # Torn /\ promised'[n] >= promised[n]
       \/ Wiped(n)]_vars

\* A log without a decision only grows in the hands of the writer that holds
\* the promise: a fenced writer appends nothing, not even in a write that
\* runs out of space.
FencedWriterNeverAppends ==
  [][\A n \in Node, s \in Txid :
       /\ IsLog(inProgress[n][s]) /\ IsLog(inProgress'[n][s])
       /\ Len(inProgress'[n][s]) > Len(inProgress[n][s])
       /\ paxos'[n][s] = NoFile
       => writer'[n] = promised'[n]]_vars

\* A log of two transactions or more is extended, finalized as it is, or
\* replaced under an accepted decision; no other step, and no crash within
\* a step, truncates it or moves it aside.
LogOnlyLostToDecision ==
  [][\A n \in Node, s \in Txid :
       LET old == inProgress[n][s]
           new == inProgress'[n][s]
       IN  IsLog(old) /\ Len(old) >= 2 =>
             \/ IsLog(new) /\ Len(new) >= Len(old)
                /\ SubSeq(new, 1, Len(old)) = old
             \/ finalized'[n][s] # NoFile /\ finalized'[n][s].body = old
             \/ paxos'[n][s] # NoFile
             \/ Wiped(n)]_vars

\* An accepted decision gives way only to one of the same or a later epoch,
\* to the finalized segment, or to the writer holding the promise starting
\* the segment afresh over at most one transaction.
DecisionOnlySuperseded ==
  [][\A n \in Node, s \in Txid : paxos[n][s] # NoFile =>
       \/ paxos'[n][s] # NoFile /\ paxos'[n][s].epoch >= paxos[n][s].epoch
       \/ finalized'[n][s] # NoFile
       \/ MayStart(n, s) /\ writer'[n] = promised'[n]
       \/ Wiped(n)]_vars

\* acceptRecovery never drops a transaction that this node knows, by this
\* request at the latest, to be committed.
CommittedSurvivesAccept ==
  [][\A n \in Node, s \in Txid :
       LET cti == committed'[n]
       IN  /\ HasTxns(n, s) /\ cti \in s..LastTxid(n, s)
           /\ paxos'[n][s] # NoFile /\ paxos'[n][s] # paxos[n][s]
           => HasTxns(n, s)' /\ cti <= LastTxid(n, s)']_vars
=============================================================================
