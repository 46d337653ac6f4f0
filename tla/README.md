# A verification of the JournalNode

This directory models the JournalNode of this repository in TLA+: the server
that stores the edit log of an HDFS NameNode together with its peers, in the
protocol of the Quorum Journal Manager, and that serves finalized and open
segments to its peers over HTTP. The models are checked with TLC; most of them
are also proved about with TLAPS.

## 1. The system

A JournalNode process serves RPCs on one thread (Ice) and HTTP on another
(mongoose). It keeps one journal per journal id. Writers (NameNodes) call it;
they are not part of this repository. A writer gains a majority of the
journals for its *epoch* with `newEpoch`, recovers the last segment with
`prepareRecovery` / `acceptRecovery` / `finalizeLogSegment`, then writes
segments with `startLogSegment` / `journal` / `finalizeLogSegment`. For
`acceptRecovery` a node downloads the segment from another node's HTTP server.

| Component | State | Operations | Talks to |
|---|---|---|---|
| **Journal** (`src/src/Journal.*`) | in memory: `curSegment` (a stream), `curSegmentTxId`, `nextTxId`, `highestWrittenTxId`, `currentEpochIpcSerial`; `lastPromisedEpoch`, `lastWriterEpoch`, `committedTxnId` as long files; on disk `paxos/<txid>` | the RPCs above, `format`, `getEditLogManifest`, the constructor's scan | edit log directory, storage, long files; downloads a segment from another node in `acceptRecovery` |
| **Edit log directory** (`FileJournalManager`, `EditLogFile`) | `edits_inprogress_<s>`, `edits_<s>-<e>`, `*.empty`, `*.epoch=<e>` | start, finalize (rename), look up, list, scan and move aside | streams, file system |
| **Edit log streams** (`JNClientOutputStream`, `JNClientInputStream`) | buffer, position and descriptor | write header, write records, flush, scan | file system |
| **Storage** (`JNStorage`, `StorageInfo`) | `VERSION`, `in_use.lock` and its descriptor, `paxos/` | format, analyse, lock, unlock, namespace check | file system |
| **PersistentLongFile** | one file, a cached value | get, set | file system |
| **BestEffortLongFile** | one file kept open, a cached value | get, set | file system |
| **JournalNode, RPC server** | the map of journals | getOrCreateJournal, exit | both threads |
| **HTTP server** (`JournalNodeHttpServer`) | none of its own | loop, `ev_handler`, `checkStorageInfo`, `send_reply` | map of journals, journals, mongoose |
| **mongoose** (vendored) | connections with buffers, request, endpoint, descriptor; the listening socket | poll, accept, read, parse, send a file block by block, expire, close | clients, file system |
| **Writers, quorum** | not in this repository | only `QJournalProtocol.proto` and comments speak of them | RPC |
| Ice, Logger, tests | no journal state | | |

### What is hard

* **Crashes between system calls.** Almost every handler makes several changes
  on disk. `startLogSegment` writes the writer epoch, purges a decision,
  truncates a file and writes its header; `acceptRecovery` downloads a file,
  persists a decision and replaces a log; `replaceFile` deletes its target
  before it renames; an epoch file is truncated before it is written; a record
  may be cut at any byte. Tests see only whole handlers.
* **Effects that outlive a refusal.** `checkRequest` raises the promise, the
  serial and the committed txid before the handler refuses, fails or aborts.
* **Two writers in any order.** The fenced writer goes on sending; its late
  calls mix with the recovery by the new one, on one node and across nodes.
* **Memory against disk.** What `journal` writes next is decided by memory
  alone, what recovery does by disk alone; six operations move them apart and
  together again.
* **`abort()` as error handling.** Asserted conditions end the process, on
  states that are still on disk at the next start.
* **Threads.** `getOrCreateJournal` and the HTTP server share state with the
  RPC thread without a lock; a file is listed, `stat()`ed, opened and sent in
  steps while the RPC thread renames, truncates or replaces it.
* **Processes.** The storage lock is released and taken again within `format`,
  and it is a POSIX lock, which goes with any descriptor of the file.
* **Descriptors and buffers.** A response ends in many ways; each must close
  its file, and a slow client must not make the server buffer the segment.

`PROJECT.json` lists these at their lines under "hazards", each with the
properties that cover it or the reason why none does.

### What makes each component correct

* Journal: a promise is never lowered; a fenced writer appends nothing; what
  was acknowledged is in the file recovery looks at; a log is lost to an
  accepted decision only; a decision is only superseded; a known committed
  transaction survives a recovery.
* Edit log directory: the name of a finalized segment tells its end; a listing
  shows every finalized segment.
* Streams: a scan ends, reports no less than was acknowledged and reads beyond
  the end of torn files only.
* Long files: what was set is read back, also after a restart, or the loss is
  noticed.
* Storage: one process at a time; a directory is formatted or it is not.
* Node: no thread works on a deleted journal; one Journal object for one
  directory.
* HTTP server: a response is what one content of the file was, as long as
  promised; every descriptor is closed; a signal stops the server.
* Quorum: a transaction acknowledged by a majority is in every later recovery,
  and of a segment one log is ever finalized.

## 2. Modules

| Module | Models | |
|---|---|---|
| `Journal` | one journal per node: every handler, the constructor, all crash points, files, epochs, decisions | |
| `JournalManifest` | `getEditLogManifest` as a function of a journal's state | extends `Journal` |
| `JournalProofs` | the inductive invariant of `Journal` and what follows, of the manifest too | TLAPS |
| `MCJournal`, `MCManifest` | constants of the runs on one journal | |
| `PersistentLongFile` | get, set, the two system calls of a write, the cache, a full disk | refines `LongRegister` |
| `BestEffortLongFile` | lazyOpen, get, set, the line without a newline | |
| `LongFiles` | the two kinds of file in one process | composes the two above |
| `LongRegister` | a register that may lose a write | abstract |
| `LongFileProofs` | the refinement of `LongRegister`, and what is read of the committed txid | TLAPS |
| `EditScan`, `MCEditScan` | the bytes of a log, where it may be cut, `scanLog` | |
| `EditScanProofs` | its inductive invariant and what a scan reports | TLAPS |
| `JournalNode`, `MCJournalNode` | processes, threads, the map of journals, Journal objects, the lock and its descriptors, `format` step by step | |
| `JournalNodeProofs` | its inductive invariant and what follows | TLAPS |
| `HttpServer`, `MCHttpServer` | the server thread, mongoose's connections, clients, and the RPC thread's changes to the file being served | |
| `HttpServerProofs` | its inductive invariant and what follows | TLAPS |
| `QuorumRecovery`, `MCQuorum` | writers, their calls, and several journals | composes `Journal`, refines `SegmentConsensus` |
| `SegmentConsensus` | one log per segment, holding all that was acknowledged | abstract |
| `SegmentConsensusProofs` | what every system that implements it has | TLAPS |
| `QuorumLemmas` | the inductive invariant of `QuorumRecovery` and what follows from it in a state | TLAPS |
| `QuorumProofs` | that every step keeps it, and that the writers and journals implement `SegmentConsensus` | TLAPS |

### Journal: how state and actions correspond to the code

Every handler of `Journal.cpp` that a writer calls holds `mMutex` from entry to
return and the default configuration has one RPC thread, so **a handler is one
atomic action**: guard = the conditions and early returns, primed variables =
what it and all it calls assign. A handler has one action per outcome, so that
each is seen to fire: success (`StartLogSegment`), an error return
(`RefuseStartLogSegment`), an `abort()` (`AbortStartLogSegment`), a full disk
(`StartLogSegmentNoSpace`), and an end of the process after a part of its
system calls (`CrashInStartLogSegment`). `Die` then loses the memory and `Load`
is the constructor in the next process; `status` tells which failed check ended
the last one.

* Files are functions of their start txid: `inProgress[n][s]` is `NoFile`,
  `Blank` (zero bytes: opened and truncated, the header not flushed) or a
  sequence of transactions; `finalized[n][s]` adds the end in its name;
  `paxos[n][s]` is the accepted epoch and end; `tmp[n][s][e]` the download of
  the writer of epoch e.
* A torn epoch file is `Torn`: `get()` fails, and so does every request.
* `Scanned(file)` is what `scanLog` may report. In a blank file `skipHeader`
  reads past the end of what was read; whether those bytes make an error or an
  empty log is undefined and modelled as a choice. `EditScan` shows what it
  rests on.
* `Vacant`, `ScanOutcomes`, `MoveAside` are `scanStorageForLatestEdits`:
  in-progress files above the last segment with transactions are renamed to
  `*.empty`, from the highest down, until one is unreadable.
* `Fenced`, `OutOfOrder`, `MovesCommittedBack`, `Promise`, `Remember` are
  `checkRequest`. `Passes` is the guard of everything that comes after it.
  `SerialFloor` says that a newer epoch resets the serial to 0.
  `ConsistentNamespace` is the check of the storage information.
* `RolledForward`, `RollForward` are `completeHalfDoneAcceptRecovery` followed
  by `getSegmentInfo`; `DecisionDiffers` is the assertion after them.
* `Proposal[e][s]` are the logs the writer of epoch e may propose for the
  segment at s; the node it names serves that log. What a writer would really
  propose depends on other journals and is what `QuorumRecovery` adds.
* The serial of a request, its epoch, its txids and its batch are chosen
  freely: any writer, any order, any retry. A restarted journal may be driven
  by a writer that does not know of the restart.

Of the memory, everything is a variable except the caches of the long files
(`PersistentLongFile` shows they cannot be told from the file).

### EditScan: the bytes of a log

A log is an 8-byte header and records: opcode (1), length (4), txid (8), data,
checksum (4). Of a record `records` keeps the size of its data, its opcode and
where it starts, which is where the one before it ends (`Placed`). `Create` and `WriteRaw` let a crash or a full disk end the file
after any byte. `scanLog` is `SkipHeader` and `ScanOp`: it asks only at the
start of a record whether it is at the end, so that in a torn record it reads
on. The buffer is a `std::string`: its byte at the end is 0, what follows is
memory, of which the low-order byte of a number is sampled (`Garbage`); a read
that far may also end the process. What the run shows is why `Journal` may take
a log as a sequence of transactions: a record torn behind its txid counts as
whole, one torn before may add a txid made of garbage, but never one that loses
what was acknowledged. The position always advances, since the high-order bytes
of a length that is read across the end are 0.

### JournalNode: threads and processes

The state is the directory (exists, `VERSION`, one log, the lock), and for each
process its descriptors, the map, the Journal objects with an identity each,
and what the RPC and the HTTP thread do. `getOrCreateJournal` is taken apart
where the other thread can come between: look-up (`Find`, `Miss`), the
constructor's lock and `VERSION` (`CreateOn...`, `CreateLockedOut`), its scan
(`Scan`), the insertion (`Insert`). `Format...` are the steps of `format`:
unlock, empty the directory, write `VERSION`, lock again. `Exit` and `Die` are
`exit()`, with the destructor of the map while the HTTP thread runs, and the
kernel's clean-up. A Journal's own handlers are in `Journal`; here they only
begin, extend and read one log. What follows from the code and shows in the
model, for a reader of the runs:

* both threads may construct the journal at once; the second object's scan
  moves the empty log of the first aside, and a transaction acknowledged after
  that is in a file no recovery looks at (`disturbed` marks it);
* a `format` that fails half-way leaves the journal serving without its lock;
  `format` empties the directory whoever holds the lock; a `format` while a
  segment is open leaves a writer with an unlinked file;
* with a torn `VERSION` every construction fails and leaks a descriptor of the
  lock file (the object is destroyed, the lock stays);
* the HTTP thread uses the deleted object after a failed construction.

### HttpServer: the loop and its connections

`conn[c]` is `ns_connection` and mongoose's `connection`: receive and send
buffer, request, endpoint (`EP_NONE`, `EP_USER`, `EP_FILE`), descriptor,
offset, content length left (`cl`), flags, idle time. One thread runs the loop:
`PollTransfer` / `PollClose` / `PollNothing` (NS_POLL on each connection),
`Select`, `Accept`, `Recv...` / `RecvEnd` (one per outcome of `on_recv_data` and
`ev_handler`), `Write`, `Sweep` (close what is doomed; the loop condition).
`send_reply` is `RecvGetJournal`, `Lookup`, `Stat`, `OpenFile` or `Vanished`,
between which the RPC thread's actions may come: `AppendBlock`,
`RenameFinalized`, `TruncateLog`, `RemoveFile`, `RenameAccepted`.
`getLogFile` and `finalizeLogSegment` exclude each other by the lock of
`FileJournalManager`; `replaceFile` does not take it. Tokens stand for the bytes
of a client, blocks with a generation for those of a file.

### QuorumRecovery: writers and journals

A writer (external) gives each call to every node and goes on when a majority
has answered; `calls[e]` is what it has sent, and any of it may reach a node
late, in another order, again or never (`Handle` takes any call at any time),
and its answer may be lost; `answers[e]` is what was answered, newEpoch being
call 0. Nodes are the journals of `Journal`, with its actions conjoined whole.
What `acceptRecovery` downloads is the log the serving node has *then*
(`Served`). A node crashes between or within handlers (`NodeCrash`, at the
places `CrashIn` names). However its process ends, by a crash or by the
`abort()` of a failed check, what was under way to it is lost with its
connection (`Disconnect`, `lost`). A call that reached a restarted node twice
would pass, as the serial is in memory: that is left out (the interface
declares no operation idempotent, and a connection is not outlived by what was
sent on it). Writers begin with epoch 1 and txid 1 (`WritersAssumption`).

### What is abstracted

* **Atomic writes.** In `Journal` one `write(2)` is whole or did not happen. A
  batch that runs out of space leaves a prefix of its transactions and the
  process aborts. `EditScan` is what a write cut anywhere leaves.
* **fsync.** What was written is there after a crash of the process. A power
  failure that loses unsynced data is not modelled.
* **Other I/O errors** (permissions, missing directories, a failing `rename`,
  the retries of `replaceFile` after a failed deletion) are not modelled. The
  full disk is, where a segment or an epoch is written.
* **Requests are well formed**: an end is not below its start, a batch has as
  many transactions as it says.
* **HTTP**: ranges are `bytes=0-<until>`; conditional requests, `Expect`,
  websockets, CGI and all that the journal node does not use are not modelled;
  a client sends finitely many bytes; the model has a descriptor for every
  connection. The chunk that ends an empty answer is written twice
  (`SendStatus`), as in the code. The receive buffer grows without a bound
  while a file is sent.
* **remove_all** in `format` is one step, and so is the deletion in
  `clearLogDirectory`.
* Renamed `*.empty` files are not kept: nothing reads them.
* Reading calls (`getJournalState`, `isFormatted`) have no action in `Journal`;
  in `JournalNode` they are `Reply`.

## 3. What is checked

`tlc -workers 2 -config X.cfg M`; the names are those of `PROJECT.json`.

| Run | cfg | Bounds | Distinct states |
|---|---|---|---|
| writing | `JournalWriting` | 1 node, 2 epochs, serials 0..3, txids 1..3, batches of 1 or 2, crash and full disk | 115,756 |
| recovery | `JournalRecovery` | 1 node, 2 namespaces, 2 epochs, serials 0..2, txids 1..2, two proposals of different length, committed txids, crash and failed download | 160,075 |
| long_files | `LongFiles` | values 0..3, crash and full disk | 288 |
| edit_scan | `EditScan` | 3 kinds of record, logs of up to 3, batches of 1 or 2, cut at every byte | 16,248 |
| quorum | `Quorum` | 3 nodes, 3 writers of up to 3 calls after `newEpoch`, 1 crash within `acceptRecovery` | 1,304,747 |
| quorum_crash | `QuorumCrash` | 3 nodes, 2 writers of up to 4 calls, 1 crash anywhere, failed downloads | 611,558 |
| journal_node | `JournalNode` | 2 processes (RPC + HTTP thread; RPC thread), 2 objects and 4 descriptors each, 1 format, 1 socket | 2,769,045 |
| http | `HttpServer` | 1 client, 4 kinds of request, files of up to 2 blocks, 1 truncation or replacement | 108,411 |
| http_clients | `HttpServerClients` | 2 clients, 4 kinds of stream, files of 1 block | 2,389,230 |
| hidden_segment | `QuorumHidden` | 3 nodes, 2 writers, 1 crash within `replaceFile` | violation |
| quorum_mismatch | `QuorumMismatch` | 3 nodes, 3 writers, no crash | violation |
| unlock | `JournalNodeUnlock` | as journal_node, 2 formats | violation |

What they show:

* **writing**: `SegmentBeingWrittenIsOnDisk` (memory and disk agree on the
  segment being written, after any mix of start, journal, finalize, abort and
  crash), `NoTxidWithoutSegment` (all that keeps `journal` from dereferencing a
  null stream), `FinalizedEndsAsNamed` (the end is checked against memory only,
  and still right), `PromiseNeverRegresses`, `FencedWriterNeverAppends`,
  `LogOnlyLostToDecision` (no crash truncates a log of two transactions or
  moves it aside), and of every manifest that could be answered on the way
  `FinalizedSegmentsListed`, `OpenTailIsWhatWasWritten`.
* **recovery**: `NoDecisionOnSegmentBeingWritten`, `EpochsBelowPromise`,
  `DecisionOnlySuperseded`, `LogOnlyLostToDecision` with accepted decisions, and
  `CommittedSurvivesAccept`: `acceptRecovery` cuts off no transaction that is
  known to be committed, also when the request itself brings the knowledge.
* **long_files**: `ImplementsRegister`, a refinement: a process reads what it
  set, the next process reads that or an error, never an older value;
  `CommittedReadsLastSet` of the committed txid beside it.
* **edit_scan**: `AckedIsReported`, `ReportsLastTxid`, `OverreadOnlyIfTorn`,
  and `ScanEnds` (liveness).
* **quorum**, **quorum_crash**: `AckedIsFinalized`, `FinalizedCopiesAgree`,
  `FinalizedIsFinal` (none of the assertions about finalized segments,
  committed transactions and epochs fails in a recovery), and
  `ImplementsConsensus`, a refinement: of each segment one log is chosen, once,
  and it holds every transaction that a majority acknowledged. With two writers
  this holds whatever crash comes, one within `replaceFile` included; with three
  that crash breaks it (see below), so that the theorems exclude it.
* **journal_node**: `LockedWhileServing`, `RpcUsesLiveJournal`,
  `HttpUsesDeadOnlyIfFailed`, and `AckedIsInLog`: the ways an acknowledged
  transaction is lost are a second object, a format under a writer, and a
  failed format, and no other.
* **http**: what a response can be while the segment changes
  (`ShortOnlyIfCut`, `BodyOfOneContent`), how much is buffered
  (`BufferedBlocksBounded`), `EveryFileIsReleased` and `SignalStopsServer`
  (liveness).
* **http_clients**: `DescriptorsAreOwned`, `StoppedMeansClosed` (no descriptor
  leaks on any way out), `NotFoundOnlyIfMoved`.

*Why the bounds are enough.* Two epochs are a fenced and a fencing writer; all
epoch comparisons are between two of request, promise, writer epoch and
decision. Serials only order requests within an epoch: three per epoch let a
segment be started, written and closed, and every crash restarts the count, so
runs through several segments are in reach. Segments interact only through
"the last one with transactions" and through overlapping starts; three txids
give two segments, one of them with two transactions, which `MayStart` treats
differently from one. The journals of a node set do not interact within
`Journal`, so one is enough there. Over a quorum three nodes have majorities
that overlap in one node; the first writer writes, the second recovers and may
stop half-way, the third recovers what is left: three calls (prepare, accept,
finalize). Three calls also let the first writer write two transactions; the
fourth of `QuorumCrash` lets it finalize them, and lets the second writer start
the next segment. A log of three records has one
before, one after and one at the cut; every number read across the end occurs.
Of the Journal objects of a process two suffice for a race, and two processes
for a lock. One block per file and read, with a file of two, gives a transfer
that is interrupted between blocks. The passing runs together fire every action
and every disjunct of every next-state relation.

*Symmetry and views.* `recovery` is symmetric in the namespaces, the quorum
runs in the nodes; no liveness is checked there. Their views leave out `rc`, the
result of the last call, which the step that sets it reads and nothing else.

*Deadlock* is checked except in the HTTP runs, where the server is done after a
signal, and in the quorum runs, where writers stop after `MaxSerial` calls.

*Fairness.* `WF_vars(ServerThread)`: the loop of `run_httpserver` never waits
longer than the second it gives `select()`. `WF_vars(Tick)`: time passes.
`WF_vars(ScanStep)`: a scan waits for nothing. Nothing is assumed of clients,
writers or the RPC thread: a journal only reacts, and nothing in this
repository makes a writer go on, so nothing is claimed to be acknowledged
eventually.

### Where the code does not do what it says

Runs that expect a violation check one sentence of the code's own comments.
They are listed as "findings" in `PROJECT.json`.

| Run | Sentence | What happens |
|---|---|---|
| hidden_segment | download and decision are a transaction to others | `replaceFile` deletes first; after a crash `newEpoch` does not see a segment whose transactions were acknowledged |
| quorum_mismatch | the log downloaded is that of the segment accepted | a late call downloads a log lengthened since; decision and log end differently, and each `prepareRecovery` aborts at the assertion, again after every restart |
| unlock | unlocking without the lock is a no-op | the number of the closed descriptor is kept; a second `format` after a failed one closes a socket |

What `hidden_segment` leads to with a third writer, one transaction more and
the same single crash (found by TLC with `MaxEpoch = 3`, `MaxSerial = 4`, a
larger search than the runs): writer 1 starts segment 1 and writes transaction
1 to nodes 2 and 3 and transaction 2 to node 3. Writer 2 prepares on nodes 2
and 3 and asks both to accept the log of node 3; node 2 crashes within
`replaceFile`, and its log is gone. Writer 3 gets its promises from nodes 1 and
2, which report no segment, so it starts segment 1 anew and writes other
transactions 1 and 2. Its `finalizeLogSegment(1, 2)` reaches node 1, and node 3,
whose old log ends at 2 as well. Now two finalized logs of segment 1 differ,
and an acknowledged transaction is in one of them only. This is why the
theorems about the quorum have the hypothesis `"replace" \notin CrashIn`: with a
`replaceFile` that is one `rename`, the journals keep what was acknowledged.

How `quorum_mismatch` comes about: the writer of epoch 2 chooses the log of a
node and calls `acceptRecovery`, which reaches another node late. Meanwhile the
writer of epoch 3 finds a longer log of the same segment on the third node and
recovers the serving node to it. The late call passes at the node that has not
heard of epoch 3, and downloads from the serving node what that has by then.

Smaller ones, which follow from the text of the code and have no run of their
own:

* `Journal.cpp:352` says that a file without transactions may be started again;
  the check at line 371 is for exactly one transaction, and the process aborts.
* `Journal.cpp:668` says that the manifest is sorted and does not overlap; with
  two segments in progress the lower is put last (line 719), unnoticed.
* `PersistentLongFile.h:69` says "Atomically ... including fsyncing"; the code
  truncates, then writes, and syncs nothing. Line 73 says that a file that
  cannot be written is reported; on a full disk `set` returns success.
* The committed txid is written without a newline and never read back, though
  it is there to tell it after a restart.
* `Journal.h` says that a new epoch resets the IPC serial "back to -1"; the code
  resets it to 0, as `SerialFloor` does, and a first request with serial 0 is
  refused.
* `mongoose.c:4735` expects pipelined requests to be taken up; what was received
  beyond the request goes with the buffer (`CloseLocalEndpoint`).
* The message that `mg_set_option` returns for a port that is taken is not
  looked at (`JournalNodeHttpServer.cpp:128`): the server runs on without a
  listening socket (`SetListeningPort`), and still stops on a signal.

## 4. What is proved

Every theorem holds for all values of the constants that satisfy the named
assumptions of its module.

| Module | Theorem | Property |
|---|---|---|
| `JournalProofs` | `Invariant` | `[]IInv` |
| | `TypeCorrect` | `TypeOK` |
| | `ClosedSegmentLeavesNoTxid` | `NoTxidWithoutSegment` |
| | `WritingIsOnDisk` | `SegmentBeingWrittenIsOnDisk` |
| | `WritingIsUndecided` | `NoDecisionOnSegmentBeingWritten` |
| | `PromiseBoundsEpochs` | `EpochsBelowPromise` |
| | `NamesTellEnds` | `FinalizedEndsAsNamed` |
| | `PromiseIsKept` | `PromiseNeverRegresses` |
| | `FencedWriterIsSilent` | `FencedWriterNeverAppends` |
| | `LogsAreNotLost` | `LogOnlyLostToDecision` |
| | `DecisionsLast` | `DecisionOnlySuperseded` |
| | `CommittedIsKept` | `CommittedSurvivesAccept` |
| | `FinalizedAreListed` | `FinalizedSegmentsListed` |
| | `OpenTailIsShown` | `OpenTailIsWhatWasWritten` |
| `LongFileProofs` | `EpochFileIsRegister` | `ImplementsRegister` |
| | `FilesTyped` | `FilesTypeOK` |
| | `CommittedIsRead` | `CommittedReadsLastSet` |
| `EditScanProofs` | `ScanInvariant` | `[]SInv` |
| | `ScanTyped` | `TypeOK` of `EditScan` |
| | `AckedReported` | `AckedIsReported` |
| | `LastReported` | `ReportsLastTxid` |
| | `OverreadTorn` | `OverreadOnlyIfTorn` |
| `JournalNodeProofs` | `NodeInvariant` | `[]NodeInv` |
| | `NodeTypeCorrect` | `TypeOK` |
| | `LockGuardsDirectory` | `LockedWhileServing` |
| | `RpcNeverDangles` | `RpcUsesLiveJournal` |
| | `HttpDanglesOnlyOnFailure` | `HttpUsesDeadOnlyIfFailed` |
| | `AckedStaysInLog` | `AckedIsInLog` |
| `HttpServerProofs` | `ServerInvariant` | `[]HInv` |
| | `ServerTypeCorrect` | `TypeOK` of `HttpServer` |
| | `DescriptorsHaveOwners` | `DescriptorsAreOwned` |
| | `StoppedIsClosed` | `StoppedMeansClosed` |
| | `ResponsesInvariant` | `[]ResponsesOk` |
| | `BodyIsOneContent` | `BodyOfOneContent` |
| | `ShortIsCut` | `ShortOnlyIfCut` |
| | `NotFoundIsMoved` | `NotFoundOnlyIfMoved` |
| | `BufferIsBounded` | `BufferedBlocksBounded` |
| `SegmentConsensusProofs` | `OneLogWithAllAcked`, `ChoiceLasts` | of the abstract specification |
| `QuorumProofs` (\*) | `QuorumInvariant` | `[]QInv` |
| | `AckedAreFinalized` | `AckedIsFinalized` |
| | `CopiesAgree` | `FinalizedCopiesAgree` |
| | `AckedAreSeen` | `AckedSegmentsAreSeen` |
| | `RecoveryIsConsensus` | `ImplementsConsensus` |
| | `ChecksHold` | `FinalizedIsFinal` |

(\*) if no process ends within `replaceFile`: `"replace" \notin CrashIn`.

**Journal.** For every set of nodes, namespaces and payloads, every bound, every
batch and proposal, from `BoundsAssumption` (the bounds are natural numbers),
`LogAssumption` (batches and proposals are non-empty sequences of transactions)
and `AbsentAssumption` (the values for "no file" are no files). The inductive
invariant is `IInv == TypeOK /\ \A n : NodeInv(n)`, with three parts for one
node:

* `CursorOk`: a process that is not up has no segment open, no segment open
  means no segment txid, and the segment of the txid is on disk and undecided.
  The first clause is no property anyone asks for; `Load` needs it, since the
  constructor sets no cursor. The parts need each other:
  `SegmentBeingWrittenIsOnDisk` alone is not inductive, because aborting a
  segment resets the txid only if the segment is open, and recovery makes a
  decision on a segment only after aborting it.
* `EpochsOk`: writer epoch and decisions are not above an untorn promise.
  It is kept because every handler writes the promise first.
* `NamesOk`: finalized segments end as named. It needs `CursorOk`: when the
  segment being written is finalized only `nextTxId` is compared.

A step is a step of one node (`Frame`, `StepPreserves`), so each action has one
lemma `<Action>Preserves` about that node. What actions share is factored out:
`DieResult` (a dead process has a clean memory), `PromiseThenDie`,
`PassingResult` (what `checkRequest` lets pass), `AbortOnlyPreserves`,
`FinalizingPreserves`, `OtherSegmentStays`, `RecoveryDisk`. The action theorems
use `WriterPromises`: every call that gets past `checkRequest` leaves the
promise at its epoch. Three more are about single steps: what may become of a
log, of a decision, of the committed txid. They follow from one lemma,
`StepSpares`. A decision is written only by a call whose epoch passed
`checkRequest`, and the promise bounds every decision there is (`EpochsOk`), so
that one of an earlier writer never replaces it (`DecideSpares`). A log is
truncated by a new segment or moved aside only if it is blank or holds its one
`START_LOG_SEGMENT` (`StartableSpared`, `KeptSpared`, `MovedAsideSpared`), and
is replaced only by `acceptRecovery`.

The two theorems about the manifest hold with recoveries, which the run
**writing** leaves out. The list is sorted, so what has to be known of it is that
each file has a place of its own (`SortedIs`): the number of files that precede
a file is different for any two and below the number of files, so each number
occurs (`RanksAreAll`). Of the files of a node any two are ordered (`FilesAre`):
a start has at most one finalized file and one in progress, whose end is below
every txid. Then the first file in progress goes to the end of the list and the
others move up (`OpenTailIs`). `FinalizedSegmentsListed` makes no promise, to a
reader who asks for open segments, about a start that has a finalized file and
one in progress. That happens: a process dies within `acceptRecovery` after the
decision, the old log is finalized as it is, the process dies again before the
decision is purged, and the next `prepareRecovery` renames the download beside
the finalized file. `OpenTailIsShown` needs, beside `IInv`, that
`highestWrittenTxId` is `nextTxId - 1` once the segment being written holds a
transaction (`HighestOk`); `acceptRecovery` moves it elsewhere, but has aborted
the segment by then (`StepKeepsTail`).

**Long files.** The refinement needs that a value is being written only into a
file that is empty (`EpochFileOk`); then each action of the file is one action
of the register (`StepRegister`). `FileAssumption` only keeps the markers apart
from values. `CommittedIsRead` is about the other kind of file, and its
invariant (`CommittedFileOk`) is the reason for the finding about that file: no
newline is ever in it, so an object that did not set a value itself reads the
default.

**JournalNode.** For any processes, threads, objects and descriptors.
`NodeInv` is `TypeOK` with three parts, `LockOk`, `LiveOk`, `WritesOk`. `LockOk`: a process that has not
formatted since it started and has any object that found `VERSION` holds the
lock. `LockedWhileServing` alone speaks of the object in the map; between the
construction and the insertion the object is in no map, so the invariant is
about all objects. `LiveOk` says of a process that a journal being built is
known to its thread only (else the deletion after a failed construction could
take one that is in use), that a journal in hand or in the map is alive while
the process runs, and that `exit()` falls between two requests. That `open()`
returns a descriptor that is free, the least, rests on the well-foundedness of
the natural numbers (`FreeFdIsFree`).

`AckedIsInLog` needs `WritesOk`, which speaks of a directory that nothing has
disturbed: no second object was made, no format removed a written log or
failed. Then one object of a process is alive, the one being built or the one
in the map (`OneJournal`); it holds the lock, unless the process gave it away
to format (`HoldsLock`); and what has a log open for writing is the journal of
the map, under the lock, or one whose files are about to be removed
(`WriterOk`). A journal that starts scans, with the lock, the log of a process
that has ended, and moves it aside only if it is empty; so that what can take an
acknowledged transaction away is a `clear`, and that disturbs. TLC checked the
part on the run first (2,769,045 states).

**EditScan.** For records of any sizes, a log of any length, cut after any
byte, and any memory behind the end. `SInv` says that records follow on each
other from the header (`Laid`), that what was acknowledged is in the file
(`FileOk`), and where the scan can be (`ScanOk`): in order, with k records
passed and the txid of the kth seen (`InOrder`), or beyond the end, which is
where a file torn within the header or within record k + 1 takes it (`Beyond`).
Between the two lies `LengthRead`: of a record that is in the file its length
is read as written, and of one that is not, the position goes beyond the end,
whatever number is read. `LastReported` then counts the records with a txid in
the file: they are the first n (`WithTxid`).

**HttpServer.** For any connections, clients, requests, files and bounds.
`HInv == TypeOK /\ Owned /\ Control`. `Owned`: a connection that sends a file is
open, has a descriptor of its own, and its request is one the server supports;
every open descriptor is that of such a connection. The clause about the
request is what the descriptors need: while a file is sent more may arrive, and
if `IsBad` could hold then, the answer to it would close the endpoint without
the descriptor (`ReceivedTyped`). `Control`: the server reads from open
connections only, and while it looks up, stats or opens a file the connection
it answers is open, has a request and no file yet, so that no descriptor is
overwritten. `OwnedKept`, `OwnedReleased` and `OwnedOpened` are the three things
a step can do to the descriptors; each action is one of them.

What a response holds is a second invariant on top of the first, `ResponsesOk`
(checked by TLC in both HTTP runs before it was proved). `SegmentOk`: the blocks
of a file are of one generation, that of the log in progress is the one that is
appended, and the segment has one name. `BodyOk`: what was sent is like every
block the open file has now; this, not `BodyOfOneContent`, is kept by an append.
`LeftOk`: offset and what is left to send do not exceed the file, unless
something befell it. `AnswerOk`: between the listing, `stat()` and `open()`,
what was seen is still so or the change is in `since`. The changes of the RPC
thread fall into two kinds: those that only let a file grow by blocks like those
it has (`Grown`: append, rename, remove, and the log that recovery brings, whose
inode is new), and the truncation in place, which `since` records. The bound of
the buffer rests on one line: a block is read only into a buffer that is not
full, and it is no larger than `IOBUF_SIZE` (`BlocksOfMore`).

**SegmentConsensus.** Of a segment at most one log is ever chosen, it holds all
that is acknowledged of it, and neither is ever taken back.

**QuorumRecovery.** For any number of nodes, writers, segments and calls, from
`WritersAssumption` and the assumptions of `Journal`, and if no process ends
within `replaceFile`. The inductive invariant is
`QInv == IInv /\ QTypeOK /\ WritersOk /\ DiskOk /\ AnswersOk` (`QuorumLemmas`):

* `IInv` is that of each journal; a step of `QuorumRecovery` is one of `Journal`
  (or none), so its proof is taken over.
* `WritersOk`, of the writers: what they sent follows the protocol (`CallsOk`)
  and its segments follow each other without gaps (`Chain`). A writer that
  begins a segment anew has shut out what earlier writers call on it: a majority
  never answers those any more (`RestartBlocks`). A log that a writer asks to
  accept respects every earlier call on the segment, that is, it holds its
  transactions or that call is shut out likewise (`AcceptSafe`); it was written
  to its end by an earlier writer, and no writer between can get a transaction
  of the segment acknowledged (`AcceptWritten`).
* `DiskOk`, of each journal's disk: each log is one that a writer wrote, apart
  from its first transaction, which is the same in all (`FilesOk`); what is there came
  with calls that the node heard (`WriterHeard`, `HeardOk`) and from where the
  recovery that brought it could find it (`SourceOk`); a decision with no log yet has
  its log downloaded, unless the segment began anew (`HalfDoneOk`).
* `AnswersOk`: what a journal answered lasts on its disk (`LastsOk`), shows in
  what it told later writers (`LatestShows`, `InfoShows`), and what it told was
  so (`ToldOk`).

The argument is that of Paxos. A transaction is acknowledged, or a log accepted,
by a majority; the majority that answers a later `newEpoch` and
`prepareRecovery` has a node in common with it, on which the log was before the
promise, since the node is shut to the earlier writer after it (`Shut`). The
writer takes the log with the highest epoch, which holds the transaction by
induction over the epochs; that induction is in the invariant, which speaks of
all earlier writers at once. Where it would break is a node that answered, and
then no longer has the log: a crash within `replaceFile`.

TLC checked `QInv` first (800,226 states), which refuted several earlier forms:
among them one that took it that a process which ends by a failed check keeps
its connections, and one without the hypothesis about `replaceFile`.

The refinement maps the abstract `chosen` to the set of finalized copies of a
segment and `acked` to what a majority has acknowledged of it (`Durable`). A step of the system adds one copy at most,
and the invariant of the next state says that the copies agree (`OneCopy`) and
hold all that is acknowledged (`AckedIsIn`). `FinalizedIsFinal` needs one thing
more, `CommittedOk`: the committed txid in a call is that of a `journal` call
that a majority answered, and a node's came with a call it heard. TLC searched
5.4 million states for a counterexample to that part without completing. With `RecoveryIsConsensus`, what `SegmentConsensusProofs` says
of the abstract specification holds of the writers and journals.

**Only model-checked**: the quorum's properties when a process ends within
`replaceFile`, for two writers. Out of the prover's reach: liveness
under fairness (`ScanEnds`, `EveryFileIsReleased`, `SignalStopsServer`) and
`ENABLED`. Every other property of a passing run is a theorem.

## 5. The plan

*(done)* `Journal`, `JournalManifest`; the long files and their refinement;
`QuorumRecovery` with `SegmentConsensus`; `JournalNode`; `EditScan`;
`HttpServer`; the theorems of section 4.

What is left:

1. A directory that `remove_all` left half empty.
2. The quorum's properties when a process ends within `replaceFile`, proved for
   two writers.

## 6. What is not modelled

The logger and the tests carry no state of a journal; the tests were read as a
description of the behaviour. The Ice transport is modelled by what it does to
a call: it arrives, late, or does not; `Server::start` and its `exit()` are in
`JournalNode`. The RPC server's translation of messages to calls makes no
decisions beyond those modelled (the journal, its result, the call). Of
mongoose all is left out that the journal node does not use: CGI, SSI, DAV,
websockets, proxy, UDP, SSL, authorization, directory listings, the client. Two
signal handlers compete for SIGTERM, the one of Ice and that of the HTTP
server; which thread gets it is the system's choice, and each model lets its
own come at any time.
