-------------------------- MODULE JournalManifest ---------------------------
(***************************************************************************)
(* getEditLogManifest: the list of segments a journal answers a reader     *)
(* with, as a function of the state of module Journal.  The call checks    *)
(* no request and changes nothing.                                         *)
(***************************************************************************)
EXTENDS Journal, SequencesExt

\* One entry: a file found in the directory.  The last txid of a file in
\* progress is not in its name.
FileEntry(first, last, inprog) ==
  [first |-> first, last |-> last, inProgress |-> inprog]

Files(n) ==
  {FileEntry(s, finalized[n][s].end, FALSE) :
     s \in {t \in Txid : finalized[n][t] # NoFile}} \cup
  {FileEntry(s, InvalidTxid, TRUE) :
     s \in {t \in Txid : inProgress[n][t] # NoFile}}

Precedes(f, g) == f.first < g.first \/ (f.first = g.first /\ f.last < g.last)

\* Mutant: a segment that ends at the txid asked for is left out.
WantedAfter(f, since, inProgressOk) ==
  /\ f.inProgress => inProgressOk
  /\ f.first >= since \/ since < f.last

\* A segment is wanted from its first txid on, or when it holds the one asked
\* for.
Wanted(f, since, inProgressOk) ==
  /\ f.inProgress => inProgressOk
  /\ f.first >= since \/ since <= f.last

\* The files in order: the i-th is the one that i - 1 of them precede.
Sorted(files) ==
  [i \in 1..Cardinality(files) |->
     CHOOSE f \in files : Cardinality({g \in files : Precedes(g, f)}) = i - 1]

RemoteEditLogs(n, since, inProgressOk) ==
  Sorted({f \in Files(n) : Wanted(f, since, inProgressOk)})

\* Mutant: the last txid is the one about to be written.
WithOpenTailNext(n, files) ==
  LET first == SelectInSeq(files, LAMBDA f : f.inProgress)
  IN  IF first = 0 THEN files
      ELSE Append(RemoveAt(files, first),
                  FileEntry(files[first].first, nextTxId[n], FALSE))

\* The first segment in progress is taken out and put at the end, as if it
\* ended at the highest txid written.
WithOpenTail(n, files) ==
  LET first == SelectInSeq(files, LAMBDA f : f.inProgress)
  IN  IF first = 0 THEN files
      ELSE Append(RemoveAt(files, first),
                  FileEntry(files[first].first, highestWrittenTxId[n], FALSE))

InSequence(files) ==
  \A i \in 2..Len(files) : files[i].first > files[i - 1].last

Listing(n, since, inProgressOk) ==
  LET files == RemoteEditLogs(n, since, inProgressOk)
  IN  IF inProgressOk THEN WithOpenTail(n, files) ELSE files

\* The answer: refused, or the list.
Answers(n, since, inProgressOk) ==
  Formatted(n) /\ InSequence(Listing(n, since, inProgressOk))

-----------------------------------------------------------------------------
\* A segment is in the list once, and it is there as it ends.
ListedOnce(s, body, files) ==
  \E i \in DOMAIN files :
    /\ files[i] = FileEntry(s, End(s, body), FALSE)
    /\ \A j \in DOMAIN files : files[j].first = s /\ ~files[j].inProgress => j = i

\* A reader that asks from a txid on misses no finalized transaction: each
\* finalized segment that reaches it is listed, once, with its true ends,
\* whatever is in progress beside it.  Only a reader of open segments may be
\* shown a start twice, when a recovery was rolled forward over a segment
\* finalized meanwhile and left a file in progress with the same start.
FinalizedSegmentsListed ==
  \A n \in Node, since \in Txid, ok \in BOOLEAN :
    Answers(n, since, ok) =>
      \A s \in Txid :
        /\ finalized[n][s] # NoFile /\ End(s, finalized[n][s].body) >= since
        /\ ok => inProgress[n][s] = NoFile
        => ListedOnce(s, finalized[n][s].body, Listing(n, since, ok))

\* While a segment is being written and nothing else is in progress, the tail
\* a reader is shown is exactly what has been acknowledged: the highest txid
\* written belongs to this segment once it holds a transaction.
OpenTailIsWhatWasWritten ==
  \A n \in Node :
    LET s == curSegmentTxId[n]
    IN  /\ s # InvalidTxid /\ writer[n] # 0 /\ nextTxId[n] > s
        /\ \A t \in Txid \ {s} : inProgress[n][t] = NoFile
        /\ Answers(n, s, TRUE)
        => Last(Listing(n, s, TRUE)) =
             FileEntry(s, End(s, inProgress[n][s]), FALSE)
=============================================================================
