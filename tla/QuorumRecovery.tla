--------------------------- MODULE QuorumRecovery ---------------------------
(***************************************************************************)
(* Writers and the journals of several JournalNodes (module Journal).      *)
(*                                                                         *)
(* The writer is not in src/: it is modelled from what the code in src/    *)
(* says about it and asks of it.  A writer has an epoch of its own, gives  *)
(* each call to every node, and goes on when a majority has answered.  It  *)
(* begins with newEpoch, recovers the segment that newEpoch reported       *)
(* (prepareRecovery, acceptRecovery, finalizeLogSegment), then starts the  *)
(* next segment.  The first transaction of a segment is written alone      *)
(* (Journal.cpp:360) and is the same for every writer.                     *)
(*                                                                         *)
(* A call once sent may reach a node late, in any order, again, or never,  *)
(* and its answer may be lost; a writer may stop after any call.  Nodes    *)
(* crash within their handlers and start again; what was on its way to a   *)
(* node when it crashed is lost with its connection.                       *)
(***************************************************************************)
EXTENDS Journal, FiniteSetsExt

CONSTANTS
  MaxCrashes,   \* how often nodes crash, all together
  CrashIn       \* when: between two calls, within one, within replaceFile

ASSUME CrashesAssumption ==
  /\ MaxCrashes \in Nat
  /\ CrashIn \subseteq {"none", "newEpoch", "start", "finalize", "accept", "replace"}

\* What a node takes from a writer is what writers send, from txid 1 and from
\* the first epoch on.
ASSUME WritersAssumption ==
  /\ IsFiniteSet(Node) /\ Node # {}
  /\ 1 \in Txid /\ 1 \in Epoch
  /\ Committed = Txid \cup {InvalidTxid}
  /\ \A txn \in {0} \cup Epoch : txn \in Payload /\ <<txn>> \in Records

VARIABLES
  begun,    \* [e] the writer of epoch e has called newEpoch
  calls,    \* [e] what it has called since; the serial is the index
  answers,  \* [e][i][n] how node n has answered call i with success, newEpoch
            \* being call 0
  lost,     \* [e][n] how many calls were sent when n's process ended last
  crashes   \* how often nodes have crashed

writers == <<begun, calls, answers>>
qvars   == <<vars, writers, lost, crashes>>

Quorum == {Q \in SUBSET Node : 2 * Cardinality(Q) > Cardinality(Node)}

NoAnswer == [answered |-> FALSE]
Done     == [answered |-> TRUE]

-----------------------------------------------------------------------------
(* What a node tells a writer *)

\* newEpoch's answer: the latest segment with transactions, or 0.
LatestOf(n) ==
  LET segments == {s \in Txid : HasTxns(n, s)}
  IN  IF segments = {} THEN 0 ELSE Max(segments)

\* prepareRecovery's answer, from the state it leaves.
InfoOf(n, s) ==
  IF ~HasTxns(n, s) THEN [answered |-> TRUE, exists |-> FALSE]
  ELSE [answered |-> TRUE, exists |-> TRUE, end |-> LastTxid(n, s),
        finalized |-> finalized[n][s] # NoFile,
        epoch |-> IF paxos[n][s] # NoFile /\ finalized[n][s] = NoFile
                     /\ paxos[n][s].epoch > writer[n]
                  THEN paxos[n][s].epoch ELSE writer[n]]

\* What the HTTP server of a node serves for the segment.
Served(n, s) ==
  IF ~Up(n) \/ TwoFiles(n, s) \/ NoLogFile(n, s) THEN {}
  ELSE {IF finalized[n][s] # NoFile THEN finalized[n][s].body
                                    ELSE inProgress[n][s]}

-----------------------------------------------------------------------------
(* The writer, external *)

Sent(e) == Len(calls[e])
LastCall(e) == calls[e][Sent(e)]

Answered(e, i, Q) == \A n \in Q : answers[e][i][n].answered

\* The writer goes on only when a majority has answered its last call.
QuorumAnswered(e, i) == \E Q \in Quorum : Answered(e, i, Q)

\* All but rc, which only the step that sets it reads, and the answers to calls
\* that the writer no longer waits for.
View == <<disk, memory, status, begun, calls,
          [e \in Epoch |-> answers[e][Sent(e)]], lost, crashes>>

\* The writer's committed txid: the last of its transactions a majority has.
KnownCommitted(e) ==
  LET mine == {i \in 1..Sent(e) : calls[e][i].op = "journal" /\ QuorumAnswered(e, i)}
  IN  IF mine = {} THEN InvalidTxid ELSE calls[e][Max(mine)].end

Send(e, op, s, end, from) ==
  /\ Sent(e) < MaxSerial
  /\ calls' = [calls EXCEPT ![e] = Append(@,
                 [op |-> op, s |-> s, end |-> end, from |-> from,
                  committed |-> KnownCommitted(e)])]
  /\ UNCHANGED <<vars, begun, answers, lost, crashes>>

\* The next epoch after the highest promise that a majority reported.
Begin(e) ==
  /\ ~begun[e]
  /\ \E Q \in Quorum : e = 1 + Max({promised[n] : n \in Q})
  /\ begun' = [begun EXCEPT ![e] = TRUE]
  /\ UNCHANGED <<vars, calls, answers, lost, crashes>>

\* A majority has answered newEpoch: recover the latest segment it reported.
AfterNewEpoch(e) ==
  /\ Sent(e) = 0
  /\ \E Q \in Quorum :
       /\ Answered(e, 0, Q)
       /\ LET s == Max({answers[e][0][n].latest : n \in Q})
          IN  IF s = 0 THEN Send(e, "start", 1, 0, NoFile)
                       ELSE Send(e, "prepare", s, 0, NoFile)

\* a is at least as good a log to recover from as b.
AsGood(a, b) ==
  \/ a.finalized
  \/ /\ ~b.finalized
     /\ a.epoch > b.epoch \/ (a.epoch = b.epoch /\ a.end >= b.end)

\* A majority has prepared: accept the best log, from the node that has it.
AfterPrepare(e) ==
  /\ Sent(e) = 1 /\ LastCall(e).op = "prepare"
  /\ \E Q \in Quorum :
       /\ Answered(e, 1, Q)
       /\ LET having == {n \in Q : answers[e][1][n].exists}
              s == LastCall(e).s
          IN  IF having = {} THEN Send(e, "start", s, 0, NoFile)
              ELSE \E best \in having :
                     /\ \A n \in having : AsGood(answers[e][1][best], answers[e][1][n])
                     /\ Send(e, "accept", s, answers[e][1][best].end, best)

\* A majority has done what was asked last: go on with the segment.
Continue(e) ==
  /\ Sent(e) > 0 /\ QuorumAnswered(e, Sent(e))
  /\ LET c == LastCall(e)
     IN  \/ c.op = "accept" /\ Send(e, "finalize", c.s, c.end, NoFile)
         \/ /\ c.op = "finalize" /\ c.end < MaxTxid
            /\ Send(e, "start", c.end + 1, 0, NoFile)
         \/ c.op = "start" /\ Send(e, "journal", c.s, c.s, NoFile)
         \/ /\ c.op = "journal" /\ c.end < MaxTxid
            /\ Send(e, "journal", c.s, c.end + 1, NoFile)
         \/ c.op = "journal" /\ Send(e, "finalize", c.s, c.end, NoFile)

Writer(e) == Begin(e) \/ AfterNewEpoch(e) \/ AfterPrepare(e) \/ Continue(e)

-----------------------------------------------------------------------------
(* The nodes *)

\* The transaction at txid t of a segment that starts at s, from writer e.
TxnOf(e, s, t) == IF t = s THEN 0 ELSE e

\* An answer may come when the writer no longer waits for it, or never.
Answer(n, e, i, a) ==
  answers' = IF rc'[n] = 0 THEN [answers EXCEPT ![e][i][n] = a] ELSE answers

HandleNewEpoch(n, e) ==
  /\ begun[e]
  /\ \E ns \in Namespace : NewEpoch(n, ns, e)
  /\ Answer(n, e, 0, [answered |-> TRUE, latest |-> LatestOf(n)'])
  /\ UNCHANGED <<begun, calls, lost, crashes>>

\* What a node may do with call c of serial req.serial.
Start(n, req, c) ==
  /\ c.op = "start"
  /\ \/ StartLogSegment(n, req, c.s)
     \/ RefuseStartLogSegment(n, req, c.s)
     \/ AbortStartLogSegment(n, req, c.s)

JournalCall(n, req, c) ==
  /\ c.op = "journal"
  /\ \/ RefuseJournal(n, req, c.s, c.end)
     \/ JournalOutOfSync(n, req, c.s)
     \/ Write(n, req, c.s, c.end, <<TxnOf(req.epoch, c.s, c.end)>>)

Finalize(n, req, c) ==
  /\ c.op = "finalize"
  /\ \/ FinalizeLogSegment(n, req, c.s, c.end)
     \/ FinalizeAgain(n, req, c.s, c.end)
     \/ RefuseFinalize(n, req, c.s, c.end)
     \/ AbortFinalize(n, req, c.s, c.end)

Prepare(n, req, c) ==
  /\ c.op = "prepare"
  /\ PrepareRecovery(n, req, c.s) \/ AbortPrepareRecovery(n, req, c.s)

\* The download is tried only when the log is not in place.
Accept(n, req, c) ==
  /\ c.op = "accept"
  /\ \/ AbortAcceptRecovery(n, req, c.s, c.end)
     \/ \E len \in Scanned(inProgress[n][c.s]) :
          \/ AcceptInPlace(n, req, c.s, len, c.end)
          \/ FailAcceptRecovery(n, req, c.s, len, c.end, <<>>)
          \/ \E body \in Served(c.from, c.s) :
               AcceptRecovery(n, req, c.s, len, c.end, body)

\* What is on its way to a node whose process ends is lost.
Disconnect(n) == lost' = [e \in Epoch |-> [lost[e] EXCEPT ![n] = Sent(e)]]

\* A call that is fenced or out of order changes nothing (serials begin at 1)
\* and is left out.
Handle(n, e, i) ==
  LET c == calls[e][i]
      req == [epoch |-> e, serial |-> i, committed |-> c.committed]
  IN  /\ i > lost[e][n]
      /\ ~Fenced(n, e) /\ ~OutOfOrder(n, req)
      /\ \/ Start(n, req, c)   \/ JournalCall(n, req, c) \/ Finalize(n, req, c)
         \/ Prepare(n, req, c) \/ Accept(n, req, c)
         \/ AbortCommittedBackward(n, req)
      /\ IF Up(n)' THEN UNCHANGED lost ELSE Disconnect(n)
      /\ UNCHANGED <<begun, calls, crashes>>
      /\ Answer(n, e, i, IF c.op = "prepare" THEN InfoOf(n, c.s)' ELSE Done)

\* A process that ends within acceptRecovery leaves the log, unless it ends
\* within replaceFile.
LogStays(n, s) == HasTxns(n, s) => inProgress'[n][s] = inProgress[n][s]

\* A crash within a call.
CrashWithin(n, e, i) ==
  LET c == calls[e][i]
      req == [epoch |-> e, serial |-> i, committed |-> c.committed]
  IN  /\ i > lost[e][n]
      /\ \/ c.op = "start" /\ "start" \in CrashIn /\ CrashInStartLogSegment(n, req, c.s)
         \/ c.op = "finalize" /\ "finalize" \in CrashIn /\ CrashInFinalize(n, req, c.s, c.end)
         \/ c.op = "prepare" /\ "replace" \in CrashIn /\ CrashInPrepareRecovery(n, req, c.s)
         \/ /\ c.op = "accept"
            /\ \E len \in Scanned(inProgress[n][c.s]),
                  body \in Served(c.from, c.s) :
                 CrashInAcceptRecovery(n, req, c.s, len, c.end, body)
            /\ IF LogStays(n, c.s) THEN "accept" \in CrashIn
                                   ELSE "replace" \in CrashIn

NodeCrash(n) ==
  /\ crashes < MaxCrashes /\ crashes' = crashes + 1
  /\ \/ "none" \in CrashIn /\ Crash(n)
     \/ "newEpoch" \in CrashIn /\ \E e \in Epoch : begun[e] /\ CrashInPromise(n, e)
     \/ \E e \in Epoch : \E i \in 1..Sent(e) : CrashWithin(n, e, i)
  /\ Disconnect(n)
  /\ UNCHANGED writers

Restart(n) == Load(n) /\ UNCHANGED <<writers, lost, crashes>>

-----------------------------------------------------------------------------
\* The journals are formatted and have promised epoch 1 to the first writer.
QInit ==
  /\ namespace \in [Node -> Namespace]
  /\ paxosDir = [n \in Node |-> TRUE]
  /\ promised = [n \in Node |-> 1]
  /\ writer = [n \in Node |-> 0]
  /\ inProgress = [n \in Node |-> NoLogs]
  /\ finalized = [n \in Node |-> NoLogs]
  /\ paxos = [n \in Node |-> NoLogs]
  /\ tmp = [n \in Node |-> [s \in Txid |-> [e \in Epoch |-> NoFile]]]
  /\ committed = [n \in Node |-> InvalidTxid]
  /\ segmentOpen = [n \in Node |-> FALSE]
  /\ curSegmentTxId = [n \in Node |-> InvalidTxid]
  /\ nextTxId = [n \in Node |-> InvalidTxid]
  /\ highestWrittenTxId = [n \in Node |-> 0]
  /\ ipcSerial = [n \in Node |-> 0]
  /\ status = [n \in Node |-> "up"]
  /\ rc = [n \in Node |-> 0]
  /\ begun = [e \in Epoch |-> e = 1]
  /\ calls = [e \in Epoch |-> <<>>]
  /\ answers = [e \in Epoch |-> [i \in Serial |-> [n \in Node |->
       IF e = 1 /\ i = 0 THEN [answered |-> TRUE, latest |-> 0] ELSE NoAnswer]]]
  /\ lost = [e \in Epoch |-> [n \in Node |-> 0]]
  /\ crashes = 0

QNext ==
  \/ \E e \in Epoch : Writer(e)
  \/ \E n \in Node :
       \/ NodeCrash(n) \/ Restart(n)
       \/ \E e \in Epoch : HandleNewEpoch(n, e)
       \/ \E e \in Epoch : \E i \in 1..Sent(e) : Handle(n, e, i)

QSpec == QInit /\ [][QNext]_qvars

-----------------------------------------------------------------------------
(* Properties *)

\* The transactions of segment s that a majority has acknowledged.
Durable(s) ==
  UNION {LET stored == {i \in 1..Sent(e) : /\ calls[e][i].op = "journal"
                                           /\ calls[e][i].s = s
                                           /\ QuorumAnswered(e, i)}
         IN  {<<calls[e][i].end, TxnOf(e, s, calls[e][i].end)>> : i \in stored}
         : e \in Epoch}

Consensus == INSTANCE SegmentConsensus WITH
  Segment <- Txid,
  At <- LAMBDA s, log, t :
          IF t <= log.end /\ t + 1 - s \in DOMAIN log.body
          THEN log.body[t + 1 - s] ELSE NoFile,
  acked <- [s \in Txid |-> Durable(s)],
  chosen <- [s \in Txid |-> {finalized[n][s] : n \in Node} \ {NoFile}]

\* Whatever calls are lost, late or repeated and whichever nodes crash: the
\* finalized copies of a segment agree ("Once logs are finalized, a different
\* length will never be decided", Journal.cpp:274), and hold every transaction
\* that a majority acknowledged, however many writers recover the segment.
ImplementsConsensus == Consensus!Spec

\* The same as invariants, which take TLC less time.
AckedIsFinalized ==
  \A s \in Txid, n \in Node : finalized[n][s] # NoFile =>
    \A txn \in Durable(s) :
      /\ txn[1] <= finalized[n][s].end
      /\ finalized[n][s].body[txn[1] + 1 - s] = txn[2]

FinalizedCopiesAgree ==
  \A n, m \in Node, s \in Txid :
    finalized[n][s] # NoFile /\ finalized[m][s] # NoFile
    => finalized[n][s] = finalized[m][s]

\* The other checks that end the process hold in recovery: no node is asked to
\* re-finalize or to replace a finalized segment, nor to discard a transaction
\* it knows to be committed, and no decision of a later epoch is overwritten.
FinalizedIsFinal ==
  \A n \in Node : status[n] \notin
    {"differentEnd", "finalizedSegment", "discardsCommitted", "outOfOrderEpochs"}

-----------------------------------------------------------------------------
(* What comments of the code say and the code does not do *)

\* Journal.cpp:530: what prepareRecovery finds accepted ends where the log on
\* disk ends.
DecisionEndsWithLog == \A n \in Node : status[n] # "acceptedMismatch"

\* Journal.cpp:846-847: the download and the decision "need to be treated as a
\* transaction from the perspective of any external process": the writer that
\* comes next, whichever majority it asks, hears of every segment that holds
\* an acknowledged transaction.
AckedSegmentsAreSeen ==
  \A s \in Txid, Q \in Quorum :
    Durable(s) # {} => \E n \in Q : HasTxns(n, s)
=============================================================================
