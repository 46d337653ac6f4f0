---------------------------- MODULE QuorumLemmas ----------------------------
(***************************************************************************)
(* The inductive invariant of module QuorumRecovery, and what follows from *)
(* it in one state by the intersection of majorities.                      *)
(***************************************************************************)
EXTENDS QuorumRecovery, JournalProofs, FiniteSetTheorems

\* A non-empty set of numbers below a bound has a greatest element, which Max is.
LEMMA MaxIsGreatest ==
  ASSUME NEW N \in Nat, NEW S \in SUBSET (0..N), S # {}
  PROVE  Max(S) \in S /\ \A y \in S : Max(S) >= y
<1> DEFINE T == {N - x : x \in S}
<1>1. T \in SUBSET Nat /\ T # {}
  <2>1. \A x \in S : N - x \in Nat
    BY SMT
  <2>2. PICK x \in S : TRUE
    OBVIOUS
  <2>3. N - x \in T
    OBVIOUS
  <2>4. QED BY <2>1, <2>3
<1>2. Min(T) \in T /\ \A y \in T : Min(T) <= y
  BY <1>1, MinIsLeast
<1>3. PICK x \in S : Min(T) = N - x
  BY <1>2
<1>4. \A y \in S : N - x <= N - y
  BY <1>2, <1>3
<1>5. \A y \in S : y \in Int
  OBVIOUS
<1>6. \A y \in S : x >= y
  BY <1>4, <1>5
<1>7. QED BY <1>3, <1>6 DEF Max

Ans(e, i, n) == answers[e][i][n].answered

\* The calls of a writer.
IsCall(e, i, op, s) ==
  i \in 1..Sent(e) /\ calls[e][i].op = op /\ calls[e][i].s = s

Started(e, s) == e \in Epoch /\ \E i \in 1..Sent(e) : IsCall(e, i, "start", s)
Used(s)       == \E e \in Epoch : Started(e, s)
Journaled(e, s, t) ==
  e \in Epoch /\ \E i \in 1..Sent(e) : IsCall(e, i, "journal", s) /\ calls[e][i].end = t
AcceptSent(e, s, end) ==
  e \in Epoch /\ \E i \in 1..Sent(e) : IsCall(e, i, "accept", s) /\ calls[e][i].end = end
FinalizeSent(e, s, end) ==
  e \in Epoch /\ \E i \in 1..Sent(e) : IsCall(e, i, "finalize", s) /\ calls[e][i].end = end

\* Two transactions of a segment come from one writer only.
Owns(e, s) == \E t \in Txid : t > s /\ Journaled(e, s, t)

\* A later writer began the segment anew.
Restarted(e, s) == \E f \in Epoch : f > e /\ Started(f, s)

\* What a later recovery must respect of call i: the transactions it stores,
\* the log it proposes.
IsVote(e, i) == i \in 1..Sent(e) /\ calls[e][i].op \in {"journal", "accept"}

\* n refuses what the writer of epoch e still calls.
Shut(n, e) == promised[n] = Torn \/ promised[n] > e

\* A majority never answers call i.
Blocked(e, i) == \E Q \in Quorum : \A n \in Q : ~Ans(e, i, n) /\ Shut(n, e)

\* n does not handle call i of the writer of epoch e any more.
Past(n, e, i) ==
  Shut(n, e) \/ (promised[n] = e /\ (i <= ipcSerial[n] \/ i <= lost[e][n]))

\* A majority has finalized the segment, for a writer not later than b.
Settled(b, s) ==
  \E f \in Epoch : f <= b /\ \E j \in 1..Sent(f) :
     IsCall(f, j, "finalize", s) /\ QuorumAnswered(f, j)

-----------------------------------------------------------------------------
(* Types *)

Op   == {"start", "journal", "finalize", "prepare", "accept"}
Call == [op : Op, s : Txid, end : 0..MaxTxid, from : Node \cup {NoFile},
         committed : Txid \cup {InvalidTxid}]
Latest == [answered : {TRUE}, latest : 0..MaxTxid]
Info   == [answered : {TRUE}, exists : {FALSE}]
          \cup [answered : {TRUE}, exists : {TRUE}, end : Int,
                finalized : BOOLEAN, epoch : Epoch \cup {0}]

Reply  == {NoAnswer, Done} \cup Latest \cup Info

QTypeOK ==
  /\ calls \in [Epoch -> Seq(Call)]
  /\ \A e \in Epoch : Sent(e) <= MaxSerial
  /\ answers \in [Epoch -> [Serial -> [Node -> Reply]]]
  /\ \A e \in Epoch, n \in Node : answers[e][0][n] \in {NoAnswer} \cup Latest
  /\ lost \in [Epoch -> [Node -> Serial]]

-----------------------------------------------------------------------------
(* The calls of one writer *)

\* c may be the first call.
First(e, c) ==
  LET m == IF c.op = "start" THEN 0 ELSE c.s
  IN  /\ c.op = "prepare" \/ (c.op = "start" /\ c.s = 1)
      /\ \E Q \in Quorum : /\ Answered(e, 0, Q)
                           /\ \A n \in Q : answers[e][0][n].latest <= m
                           /\ \E n \in Q : answers[e][0][n].latest = m

\* c proposes the best log that a majority reported.
Proposes(e, c) ==
  \E Q \in Quorum :
    /\ Answered(e, 1, Q)
    /\ c.from \in Q
    /\ answers[e][1][c.from].exists /\ answers[e][1][c.from].end = c.end
    /\ \A n \in Q : answers[e][1][n].exists =>
         AsGood(answers[e][1][c.from], answers[e][1][n])

NothingFound(e) ==
  \E Q \in Quorum : Answered(e, 1, Q) /\ \A n \in Q : ~answers[e][1][n].exists

\* c may come next after call i.
Follows(e, i, c) ==
  LET p == calls[e][i]
  IN  /\ QuorumAnswered(e, i)
      /\ c.op # "prepare"
      /\ c.op = "accept" => /\ i = 1 /\ p.op = "prepare" /\ c.s = p.s /\ c.end >= c.s
                            /\ Proposes(e, c)
      /\ c.op = "start" => \/ i = 1 /\ p.op = "prepare" /\ c.s = p.s /\ NothingFound(e)
                           \/ p.op = "finalize" /\ c.s = p.end + 1
      /\ c.op = "finalize" => /\ p.op \in {"accept", "journal"}
                              /\ c.s = p.s /\ c.end = p.end /\ c.end >= c.s
      /\ c.op = "journal" => \/ p.op = "start" /\ c.s = p.s /\ c.end = c.s
                             \/ p.op = "journal" /\ c.s = p.s /\ c.end = p.end + 1

\* Of two calls of a writer, d is the later.
Later(c, d) ==
  /\ c.s <= d.s
  /\ c.op = "finalize" => c.end < d.s
  /\ d.op = "start" => c.s < d.s \/ c.op = "prepare"
  /\ c.s = d.s /\ c.op = "journal" =>
       \/ d.op = "journal" /\ c.end < d.end
       \/ d.op = "finalize" /\ c.end <= d.end
  /\ c.s = d.s /\ c.op = "start" => d.op \in {"journal", "finalize"}
  /\ c.s = d.s /\ c.op = "accept" => d.op = "finalize"

\* A segment is started before it is journaled.
StartedBefore(e, j) ==
  calls[e][j].op = "journal" =>
    /\ calls[e][j].end >= calls[e][j].s
    /\ \E i \in 1..Sent(e) : i < j /\ IsCall(e, i, "start", calls[e][j].s)

CallsOk(e) ==
  /\ Sent(e) >= 1 => First(e, calls[e][1])
  /\ \A i \in 2..Sent(e) : Follows(e, i - 1, calls[e][i])
  /\ \A i, j \in 1..Sent(e) : i < j => Later(calls[e][i], calls[e][j])
  /\ \A j \in 1..Sent(e) : StartedBefore(e, j)

-----------------------------------------------------------------------------
(* What writers do to each other *)

\* Who begins a segment anew, has shut out what earlier writers call on it.
RestartBlocks ==
  \A e \in Epoch : \A i \in 1..Sent(e) :
    IsVote(e, i) /\ Restarted(e, calls[e][i].s) => Blocked(e, i)

Respects(c, end) ==
  /\ c.op = "journal" => end >= c.end
  /\ c.op = "accept"  => end = c.end

\* A log accepted later respects what a majority could have answered.
AcceptSafe ==
  \A e, f \in Epoch : e < f =>
    \A i \in 1..Sent(e), j \in 1..Sent(f) :
      IsVote(e, i) /\ IsCall(f, j, "accept", calls[e][i].s)
      => Respects(calls[e][i], calls[f][j].end) \/ Blocked(e, i)

\* A log accepted was written to its end by an earlier writer; none that began
\* the segment anew since can get a transaction acknowledged.
AcceptWritten ==
  \A f \in Epoch, s, end \in Txid : AcceptSent(f, s, end) /\ end > s =>
    \E e \in Epoch :
      /\ e < f /\ Journaled(e, s, end)
      /\ \A g \in Epoch : \A i \in 1..Sent(g) :
           e < g /\ g < f /\ IsCall(g, i, "journal", s) => Blocked(g, i)

\* Segments follow each other without gaps.
Chain ==
  /\ \A s \in Txid : Used(s) => Used(1)
  /\ \A b \in Epoch, r, s \in Txid :
       Started(b, r) /\ Used(s) /\ s < r =>
         \E f \in Epoch : f <= b /\ \E j \in 1..Sent(f) :
            /\ IsCall(f, j, "finalize", s) /\ QuorumAnswered(f, j)
            /\ calls[f][j].end < r /\ Used(calls[f][j].end + 1)

-----------------------------------------------------------------------------
(* The disk of one node *)

Txns(file) == file \notin {NoFile, Blank, <<>>}

\* The log of the segment, as far as it goes.
Genuine(s, file) ==
  Txns(file) => /\ Used(s)
                /\ file[1] = 0
                /\ \/ Len(file) = 1
                   \/ \E e \in Epoch : Owns(e, s) /\ \A k \in 2..Len(file) : file[k] = e

FilesOk(n, s) ==
  /\ Genuine(s, inProgress[n][s])
  /\ finalized[n][s] # NoFile => Genuine(s, finalized[n][s].body)
  /\ \A e \in Epoch : Genuine(s, tmp[n][s][e])

\* What is on disk comes from calls that the node has heard.
HeardStart(n, s) ==
  \E e \in Epoch : \E i \in 1..Sent(e) : IsCall(e, i, "start", s) /\ Past(n, e, i)

HeardFinalize(n, s, end) ==
  \E e \in Epoch : \E i \in 1..Sent(e) :
    IsCall(e, i, "finalize", s) /\ calls[e][i].end = end /\ Past(n, e, i)

HeardOk(n, s) ==
  /\ HasTxns(n, s) \/ paxos[n][s] # NoFile => HeardStart(n, s)
  /\ paxos[n][s] # NoFile => /\ AcceptSent(paxos[n][s].epoch, s, paxos[n][s].end)
                             /\ Past(n, paxos[n][s].epoch, 2)
  /\ finalized[n][s] # NoFile => HeardFinalize(n, s, finalized[n][s].end)
  /\ \A e \in Epoch : tmp[n][s][e] # NoFile => Sent(e) >= 2 /\ Past(n, e, 2)

WriterHeard(n) ==
  writer[n] \notin {0, Torn} =>
    \E i \in 1..Sent(writer[n]) : calls[writer[n]][i].op = "start" /\ Past(n, writer[n], i)

\* From where the log that recovery finds at s can be.
SourceOk(n, s) ==
  writer[n] # Torn /\ finalized[n][s] = NoFile =>
    /\ paxos[n][s] # NoFile /\ writer[n] >= paxos[n][s].epoch =>
         Settled(writer[n], s) \/ (Started(writer[n], s) /\ paxos[n][s].end = s)
    /\ paxos[n][s] = NoFile /\ Txns(inProgress[n][s]) =>
         \/ Settled(writer[n], s)
         \/ /\ Started(writer[n], s)
            /\ LET end == End(s, inProgress[n][s])
               IN  end = s \/ Journaled(writer[n], s, end)

\* A decision that is half done has its log, unless the segment began anew.
HalfDoneOk(n, s) ==
  HalfDone(n, s) =>
    Txns(tmp[n][s][paxos[n][s].epoch]) \/ Restarted(paxos[n][s].epoch, s)

SegmentOk(n, s) == FilesOk(n, s) /\ HeardOk(n, s) /\ SourceOk(n, s) /\ HalfDoneOk(n, s)

DiskOk(n) == WriterHeard(n) /\ \A s \in Txid : SegmentOk(n, s)

-----------------------------------------------------------------------------
(* What a node has answered *)

\* What it answered to call i lasts on its disk.
JournalLasts(n, e, s, t) ==
  /\ Txns(inProgress[n][s])
  /\ \/ paxos[n][s] # NoFile /\ paxos[n][s].epoch > e
     \/ /\ paxos[n][s] = NoFile
        /\ \/ writer[n] = Torn \/ writer[n] > e
           \/ writer[n] = e /\ End(s, inProgress[n][s]) >= t

AcceptLasts(n, e, s) ==
  Txns(inProgress[n][s]) /\ paxos[n][s] # NoFile /\ paxos[n][s].epoch >= e

LastsOk(n, e, i) ==
  LET c == calls[e][i]
  IN  /\ c.op = "finalize" => finalized[n][c.s] # NoFile
      /\ c.op = "journal" => \/ finalized[n][c.s] # NoFile \/ Restarted(e, c.s)
                             \/ JournalLasts(n, e, c.s, c.end)
      /\ c.op = "accept" => \/ finalized[n][c.s] # NoFile \/ Restarted(e, c.s)
                            \/ AcceptLasts(n, e, c.s)
      /\ c.op = "prepare" =>
           /\ answers[e][i][n].exists =>
                HasTxns(n, c.s) \/ Started(e, c.s) \/ Restarted(e, c.s)
           /\ HalfDone(n, c.s) => paxos[n][c.s].epoch >= e

\* What it told a later writer shows what it answered before.
LatestShows(n, e, i, f) ==
  Ans(f, 0, n) => answers[f][0][n].latest >= calls[e][i].s \/ Restarted(e, calls[e][i].s)

InfoShows(n, e, i, f) ==
  LET c == calls[e][i]
      a == answers[f][1][n]
  IN  Ans(f, 1, n) /\ IsCall(f, 1, "prepare", c.s) =>
        \/ Restarted(e, c.s)
        \/ /\ a.exists
           /\ c.op = "finalize" => a.finalized
           /\ c.op = "journal"  => \/ a.finalized \/ a.epoch > e
                                   \/ a.epoch = e /\ a.end >= c.end
           /\ c.op = "accept"   => a.finalized \/ a.epoch >= e

AnsweredOk(n, e, i) ==
  /\ i <= Sent(e)
  /\ Past(n, e, i)
  /\ i > 0 => LastsOk(n, e, i)
  /\ i > 0 /\ calls[e][i].op \in {"journal", "accept", "finalize"} =>
       \A f \in Epoch : e < f => LatestShows(n, e, i, f) /\ InfoShows(n, e, i, f)

\* What it told of a segment was so.
LatestTold(n, e) ==
  Ans(e, 0, n) => LET l == answers[e][0][n].latest
                  IN  l > 0 => \E f \in Epoch : f < e /\ Started(f, l)

InfoTold(n, e) ==
  \A s \in Txid : Ans(e, 1, n) /\ IsCall(e, 1, "prepare", s) =>
    LET a == answers[e][1][n]
    IN  /\ a \in Info
        /\ a.exists /\ a.finalized =>
             \E f \in Epoch : f <= e /\ FinalizeSent(f, s, a.end)
        /\ a.exists /\ ~a.finalized =>
             /\ a.epoch <= e
             /\ \/ AcceptSent(a.epoch, s, a.end)
                \/ Started(a.epoch, s) /\ (a.end = s \/ Journaled(a.epoch, s, a.end))
                \/ Settled(a.epoch, s)

ToldOk(n, e) == LatestTold(n, e) /\ InfoTold(n, e)

AnswersOk(n) ==
  /\ \A e \in Epoch, i \in Serial : Ans(e, i, n) => AnsweredOk(n, e, i)
  /\ \A e \in Epoch : ToldOk(n, e)

-----------------------------------------------------------------------------

WritersOk ==
  /\ \A e \in Epoch : CallsOk(e)
  /\ RestartBlocks /\ AcceptSafe /\ AcceptWritten /\ Chain

QInv ==
  /\ IInv
  /\ QTypeOK /\ WritersOk
  /\ \A n \in Node : DiskOk(n) /\ AnswersOk(n)

-----------------------------------------------------------------------------
(* Types and majorities *)

\* Two majorities have a node in common.
LEMMA QuorumsMeet ==
  ASSUME NEW P \in Quorum, NEW Q \in Quorum
  PROVE  \E n \in Node : n \in P /\ n \in Q
<1>1. P \subseteq Node /\ Q \subseteq Node /\ IsFiniteSet(Node)
  BY WritersAssumption DEF Quorum
<1>2. IsFiniteSet(P) /\ IsFiniteSet(Q)
  BY <1>1, FS_Subset
<1>3. /\ Cardinality(P) \in Nat /\ Cardinality(Q) \in Nat
      /\ Cardinality(Node) \in Nat
  BY <1>1, <1>2, FS_CardinalityType
<1>4. Cardinality(P) + Cardinality(Q) > Cardinality(Node)
  BY <1>3 DEF Quorum
<1>5. P \cap Q # {}
  BY <1>1, <1>4, FS_MajoritiesIntersect
<1>6. QED BY <1>1, <1>5

LEMMA QuorumNotEmpty ==
  ASSUME NEW Q \in Quorum
  PROVE  Q \subseteq Node /\ Q # {}
BY QuorumsMeet DEF Quorum

\* The calls a writer has made, and what is in them.
LEMMA CallType ==
  ASSUME QTypeOK, NEW e \in Epoch
  PROVE  /\ calls[e] \in Seq(Call)
         /\ Sent(e) \in Nat /\ Sent(e) <= MaxSerial
         /\ \A i \in 1..Sent(e) :
              /\ i \in Serial /\ i \in Int /\ i >= 1
              /\ calls[e][i] \in Call
              /\ calls[e][i].op \in Op
              /\ calls[e][i].s \in Txid
              /\ calls[e][i].end \in 0..MaxTxid
<1>1. calls[e] \in Seq(Call) /\ Sent(e) <= MaxSerial
  BY DEF QTypeOK
<1>2. Sent(e) \in Nat
  BY <1>1 DEF Sent
<1>3. \A i \in 1..Sent(e) : calls[e][i] \in Call
  BY <1>1 DEF Sent
<1>4. \A i \in 1..Sent(e) : i \in Serial /\ i \in Int /\ i >= 1
  BY <1>1, <1>2, BoundsAssumption DEF Serial
<1>5. \A c \in Call : c.op \in Op /\ c.s \in Txid /\ c.end \in 0..MaxTxid
  BY DEF Call
<1>6. QED BY <1>1, <1>2, <1>3, <1>4, <1>5

\* Txids and epochs are integers.
LEMMA Numbers ==
  /\ \A s \in Txid : s \in Int /\ s >= 1 /\ s <= MaxTxid
  /\ \A t \in 0..MaxTxid : t \in Int /\ t >= 0 /\ t <= MaxTxid
  /\ \A e \in Epoch : e \in Int /\ e >= 1 /\ e # Torn
  /\ \A i \in Serial : i \in Int /\ i >= 0
  /\ MaxTxid \in Nat
BY BoundsAssumption DEF Txid, Epoch, Serial, Torn

\* What a majority answers is not blocked by another.
LEMMA AnsweredNotBlocked ==
  ASSUME NEW e \in Epoch, NEW i, QuorumAnswered(e, i)
  PROVE  ~Blocked(e, i)
BY QuorumsMeet DEF QuorumAnswered, Answered, Blocked, Ans

-----------------------------------------------------------------------------
(* What the calls of the writers show of each other, in one state *)

\* Nobody begins a segment anew once a majority has stored of it, or accepted
\* a log.
LEMMA NoRestart ==
  ASSUME WritersOk, NEW e \in Epoch, NEW i \in 1..Sent(e),
         IsVote(e, i), QuorumAnswered(e, i)
  PROVE  ~Restarted(e, calls[e][i].s)
BY AnsweredNotBlocked DEF WritersOk, RestartBlocks

\* Who journals a segment has started it.
LEMMA JournalStarted ==
  ASSUME QTypeOK, WritersOk, NEW e, NEW s \in Txid, NEW t, Journaled(e, s, t)
  PROVE  Started(e, s) /\ t \in Txid /\ t >= s /\ e \in Epoch
<1>1. PICK j \in 1..Sent(e) : /\ e \in Epoch /\ IsCall(e, j, "journal", s)
                              /\ calls[e][j].end = t
  BY DEF Journaled
<1>2. calls[e][j].op = "journal" /\ calls[e][j].s = s
  BY <1>1 DEF IsCall
<1>3. CallsOk(e)
  BY <1>1 DEF WritersOk
<1>4. t >= s /\ \E i \in 1..Sent(e) : i < j /\ IsCall(e, i, "start", s)
  BY <1>1, <1>2, <1>3 DEF CallsOk, StartedBefore
<1>5. t \in 0..MaxTxid
  BY <1>1, CallType
<1>6. t \in Txid
  BY <1>4, <1>5, Numbers DEF Txid
<1>7. QED BY <1>1, <1>4, <1>6 DEF Started

\* Who finalizes a segment does so on the votes of a majority, and nobody has
\* begun it anew.
LEMMA FinalizeVoted ==
  ASSUME QTypeOK, WritersOk, NEW e, NEW s, NEW y, FinalizeSent(e, s, y)
  PROVE  /\ e \in Epoch /\ s \in Txid /\ y \in Txid /\ s <= y
         /\ ~Restarted(e, s)
         /\ \E i \in 1..Sent(e) :
              /\ IsVote(e, i) /\ QuorumAnswered(e, i)
              /\ calls[e][i].s = s /\ calls[e][i].end = y
              /\ calls[e][i].op \in {"journal", "accept"}
<1>1. PICK j \in 1..Sent(e) : /\ e \in Epoch /\ IsCall(e, j, "finalize", s)
                              /\ calls[e][j].end = y
  BY DEF FinalizeSent
<1>2. calls[e][j].op = "finalize" /\ calls[e][j].s = s
  BY <1>1 DEF IsCall
<1>3. CallsOk(e) /\ Sent(e) \in Nat /\ s \in Txid /\ y \in 0..MaxTxid
  BY <1>1, <1>2, CallType DEF WritersOk
<1>4. j # 1
  <2> SUFFICES ASSUME j = 1 PROVE FALSE
    OBVIOUS
  <2>1. calls[e][1].op \in {"prepare", "start"}
    BY <1>3 DEF CallsOk, First
  <2>2. QED BY <1>2, <2>1
<1>5. j \in 2..Sent(e) /\ j - 1 \in 1..Sent(e)
  BY <1>3, <1>4
<1>6. Follows(e, j - 1, calls[e][j])
  BY <1>3, <1>5 DEF CallsOk
<1>7. /\ QuorumAnswered(e, j - 1)
      /\ calls[e][j - 1].op \in {"journal", "accept"}
      /\ calls[e][j - 1].s = s /\ calls[e][j - 1].end = y /\ s <= y
  BY <1>1, <1>2, <1>6 DEF Follows
<1>8. IsVote(e, j - 1)
  BY <1>5, <1>7 DEF IsVote
<1>9. ~Restarted(e, s)
  BY <1>1, <1>5, <1>7, <1>8, NoRestart
<1>10. y \in Txid
  BY <1>3, <1>7, Numbers DEF Txid
<1>11. QED BY <1>1, <1>3, <1>5, <1>7, <1>8, <1>9, <1>10

\* The second transaction of a segment is sent when a majority has the first.
LEMMA OwnerStarted ==
  ASSUME QTypeOK, WritersOk, NEW e, NEW s \in Txid, Owns(e, s)
  PROVE  e \in Epoch /\ Started(e, s) /\ ~Restarted(e, s)
<1>1. PICK t \in Txid : t > s /\ Journaled(e, s, t)
  BY DEF Owns
<1>2. e \in Epoch /\ Started(e, s)
  BY <1>1, JournalStarted
<1>3. PICK j \in 1..Sent(e) : IsCall(e, j, "journal", s) /\ calls[e][j].end = t
  BY <1>1 DEF Journaled
<1>4. calls[e][j].op = "journal" /\ calls[e][j].s = s
  BY <1>3 DEF IsCall
<1>5. CallsOk(e) /\ Sent(e) \in Nat
  BY <1>2, CallType DEF WritersOk
<1>6. j # 1
  BY <1>4, <1>5 DEF CallsOk, First
<1>7. j \in 2..Sent(e) /\ j - 1 \in 1..Sent(e)
  BY <1>5, <1>6
<1>8. Follows(e, j - 1, calls[e][j])
  BY <1>5, <1>7 DEF CallsOk
<1>9. QuorumAnswered(e, j - 1) /\ calls[e][j - 1].op = "journal" /\ calls[e][j - 1].s = s
  BY <1>1, <1>3, <1>4, <1>8, Numbers DEF Follows
<1>10. QED BY <1>2, <1>7, <1>9, NoRestart DEF IsVote

LEMMA OneOwner ==
  ASSUME QTypeOK, WritersOk, NEW e, NEW f, NEW s \in Txid, Owns(e, s), Owns(f, s)
  PROVE  e = f
BY OwnerStarted, Numbers DEF Restarted

\* The writer who finalizes a segment finalizes all it has journaled.
LEMMA JournalThenFinalize ==
  ASSUME QTypeOK, WritersOk, NEW e, NEW s \in Txid, NEW t, NEW y,
         Journaled(e, s, t), FinalizeSent(e, s, y)
  PROVE  t <= y
<1>1. e \in Epoch /\ t \in Txid /\ y \in Txid /\ s <= y
  BY JournalStarted, FinalizeVoted
<1>2. PICK i \in 1..Sent(e) : IsCall(e, i, "journal", s) /\ calls[e][i].end = t
  BY DEF Journaled
<1>3. PICK j \in 1..Sent(e) : IsCall(e, j, "finalize", s) /\ calls[e][j].end = y
  BY DEF FinalizeSent
<1>4. CallsOk(e) /\ i \in Int /\ j \in Int
  BY <1>1, CallType DEF WritersOk
<1>5. CASE i < j
  <2>1. Later(calls[e][i], calls[e][j])
    BY <1>4, <1>5 DEF CallsOk
  <2>2. QED BY <1>2, <1>3, <2>1 DEF Later, IsCall
<1>6. CASE j < i
  <2>1. Later(calls[e][j], calls[e][i])
    BY <1>4, <1>6 DEF CallsOk
  <2>2. y < s
    BY <1>2, <1>3, <2>1 DEF Later, IsCall
  <2>3. QED BY <1>1, <2>2, Numbers
<1>7. CASE i = j
  BY <1>2, <1>3, <1>7 DEF IsCall
<1>8. QED BY <1>4, <1>5, <1>6, <1>7

\* A log accepted after another writer finalized the segment is that one.
LEMMA AcceptAfterFinalize ==
  ASSUME QTypeOK, WritersOk, NEW f, NEW g \in Epoch, NEW s, NEW x, NEW y,
         FinalizeSent(f, s, y), AcceptSent(g, s, x), f < g
  PROVE  x = y
<1>1. /\ f \in Epoch /\ s \in Txid /\ y \in Txid /\ s <= y
      /\ ~Restarted(f, s)
  BY FinalizeVoted
<1>2. PICK i \in 1..Sent(f) :
        /\ IsVote(f, i) /\ QuorumAnswered(f, i)
        /\ calls[f][i].s = s /\ calls[f][i].end = y
        /\ calls[f][i].op \in {"journal", "accept"}
  BY FinalizeVoted
<1>3. PICK j \in 1..Sent(g) : IsCall(g, j, "accept", s) /\ calls[g][j].end = x
  BY DEF AcceptSent
<1>4. Respects(calls[f][i], x)
  BY <1>1, <1>2, <1>3, AnsweredNotBlocked DEF WritersOk, AcceptSafe
<1>5. x \in 0..MaxTxid
  BY <1>3, CallType
<1>6. CASE calls[f][i].op = "accept"
  BY <1>2, <1>4, <1>6 DEF Respects
<1>7. CASE calls[f][i].op = "journal"
  <2>1. x >= y
    BY <1>2, <1>4, <1>7 DEF Respects
  <2>2. SUFFICES ASSUME x > y PROVE FALSE
    BY <1>1, <1>5, <2>1, Numbers
  <2>3. x \in Txid /\ x > s
    BY <1>1, <1>5, <2>2, Numbers DEF Txid
  <2>4. PICK e \in Epoch :
          /\ e < g /\ Journaled(e, s, x)
          /\ \A h \in Epoch : \A k \in 1..Sent(h) :
               e < h /\ h < g /\ IsCall(h, k, "journal", s) => Blocked(h, k)
    BY <1>1, <2>3 DEF WritersOk, AcceptWritten
  <2>5. CASE e > f
    BY <1>1, <2>4, <2>5, JournalStarted DEF Restarted
  <2>6. CASE e = f
    <3>1. x <= y
      BY <1>1, <2>4, <2>6, JournalThenFinalize
    <3>2. QED BY <1>1, <1>5, <2>2, <3>1, Numbers
  <2>7. CASE e < f
    <3>1. IsCall(f, i, "journal", s)
      BY <1>2, <1>7 DEF IsCall
    <3>2. QED BY <1>1, <1>2, <2>4, <2>7, <3>1, AnsweredNotBlocked
  <2>8. QED BY <1>1, <2>4, <2>5, <2>6, <2>7, Numbers
<1>8. QED BY <1>2, <1>6, <1>7

\* Writers who finalize a segment agree where it ends.
LEMMA LaterFinalizeAgrees ==
  ASSUME QTypeOK, WritersOk, NEW f, NEW g, NEW s, NEW x, NEW y,
         FinalizeSent(f, s, y), FinalizeSent(g, s, x), f <= g
  PROVE  x = y
<1>1. /\ f \in Epoch /\ g \in Epoch /\ s \in Txid /\ y \in Txid /\ s <= y
      /\ x \in Txid /\ s <= x /\ ~Restarted(f, s)
  BY FinalizeVoted
<1>2. CASE f = g
  <2>1. PICK i \in 1..Sent(f) : IsCall(f, i, "finalize", s) /\ calls[f][i].end = y
    BY DEF FinalizeSent
  <2>2. PICK j \in 1..Sent(f) : IsCall(f, j, "finalize", s) /\ calls[f][j].end = x
    BY <1>2 DEF FinalizeSent
  <2>3. CallsOk(f) /\ i \in Int /\ j \in Int
    BY <1>1, CallType DEF WritersOk
  <2>4. ~(i < j)
    <3> SUFFICES ASSUME i < j PROVE FALSE
      OBVIOUS
    <3>1. Later(calls[f][i], calls[f][j])
      BY <2>3 DEF CallsOk
    <3>2. y < s
      BY <2>1, <2>2, <3>1 DEF Later, IsCall
    <3>3. QED BY <1>1, <3>2, Numbers
  <2>5. ~(j < i)
    <3> SUFFICES ASSUME j < i PROVE FALSE
      OBVIOUS
    <3>1. Later(calls[f][j], calls[f][i])
      BY <2>3 DEF CallsOk
    <3>2. x < s
      BY <2>1, <2>2, <3>1 DEF Later, IsCall
    <3>3. QED BY <1>1, <3>2, Numbers
  <2>6. QED BY <2>1, <2>2, <2>3, <2>4, <2>5
<1>3. CASE f # g
  <2>1. f < g
    BY <1>1, <1>3, Numbers
  <2>2. PICK i \in 1..Sent(g) :
          /\ calls[g][i].s = s /\ calls[g][i].end = x
          /\ calls[g][i].op \in {"journal", "accept"}
    BY FinalizeVoted
  <2>3. CASE calls[g][i].op = "accept"
    <3>1. AcceptSent(g, s, x)
      BY <1>1, <2>2, <2>3 DEF AcceptSent, IsCall
    <3>2. QED BY <1>1, <2>1, <3>1, AcceptAfterFinalize
  <2>4. CASE calls[g][i].op = "journal"
    <3>1. Journaled(g, s, x)
      BY <1>1, <2>2, <2>4 DEF Journaled, IsCall
    <3>2. Restarted(f, s)
      BY <1>1, <2>1, <3>1, JournalStarted DEF Restarted
    <3>3. QED BY <1>1, <3>2
  <2>5. QED BY <2>2, <2>3, <2>4
<1>4. QED BY <1>2, <1>3

LEMMA ChosenAgree ==
  ASSUME QTypeOK, WritersOk, NEW f, NEW g, NEW s, NEW x, NEW y,
         FinalizeSent(f, s, y), FinalizeSent(g, s, x)
  PROVE  x = y
<1>1. f \in Epoch /\ g \in Epoch
  BY FinalizeVoted
<1>2. f <= g \/ g <= f
  BY <1>1, Numbers
<1>3. QED BY <1>2, LaterFinalizeAgrees

\* What a majority has of a segment is not beyond where it is finalized.
LEMMA FinalizeCoversAcked ==
  ASSUME QTypeOK, WritersOk, NEW e \in Epoch, NEW i \in 1..Sent(e),
         NEW f, NEW s, NEW y,
         IsCall(e, i, "journal", s), QuorumAnswered(e, i), FinalizeSent(f, s, y)
  PROVE  calls[e][i].end <= y
<1> DEFINE t == calls[e][i].end
<1>1. /\ f \in Epoch /\ s \in Txid /\ y \in Txid /\ ~Restarted(f, s)
  BY FinalizeVoted
<1>2. IsVote(e, i) /\ calls[e][i].op = "journal" /\ calls[e][i].s = s
  BY DEF IsCall, IsVote
<1>3. ~Restarted(e, s)
  BY <1>2, NoRestart
<1>4. Journaled(e, s, t)
  BY DEF Journaled
<1>5. CASE f = e
  BY <1>1, <1>4, <1>5, JournalThenFinalize
<1>6. CASE f < e
  BY <1>1, <1>4, <1>6, JournalStarted DEF Restarted
<1>7. CASE f > e
  <2>1. PICK k \in 1..Sent(f) :
          /\ calls[f][k].s = s /\ calls[f][k].end = y
          /\ calls[f][k].op \in {"journal", "accept"}
    BY FinalizeVoted
  <2>2. CASE calls[f][k].op = "journal"
    <3>1. Journaled(f, s, y)
      BY <1>1, <2>1, <2>2 DEF Journaled, IsCall
    <3>2. QED BY <1>1, <1>3, <1>7, <3>1, JournalStarted DEF Restarted
  <2>3. CASE calls[f][k].op = "accept"
    <3>1. IsCall(f, k, "accept", s)
      BY <2>1, <2>3 DEF IsCall
    <3>2. Respects(calls[e][i], y)
      BY <1>1, <1>2, <1>7, <2>1, <3>1, AnsweredNotBlocked DEF WritersOk, AcceptSafe
    <3>3. y >= t
      BY <1>2, <3>2 DEF Respects
    <3>4. t \in Int /\ y \in Int
      BY <1>1, CallType, Numbers
    <3>5. QED BY <3>3, <3>4
  <2>4. QED BY <2>1, <2>2, <2>3
<1>8. QED BY <1>1, <1>5, <1>6, <1>7, Numbers

-----------------------------------------------------------------------------
(* What the invariant says of the properties of module QuorumRecovery *)

\* A finalized copy was finalized for some writer, at the end in its name.
LEMMA CopyWasFinalized ==
  ASSUME QInv, NEW n \in Node, NEW s \in Txid, finalized[n][s] # NoFile
  PROVE  /\ \E e \in Epoch : FinalizeSent(e, s, finalized[n][s].end)
         /\ finalized[n][s] \in FinalLog
         /\ Len(finalized[n][s].body) = finalized[n][s].end + 1 - s
         /\ finalized[n][s].body \in Body
<1>1. HeardOk(n, s) /\ NamesOk(n) /\ DiskTypeOK
  BY DEF QInv, DiskOk, SegmentOk, IInv, TypeOK, NodeInv
<1>2. \E e \in Epoch : FinalizeSent(e, s, finalized[n][s].end)
  BY <1>1 DEF HeardOk, HeardFinalize, FinalizeSent
<1>3. finalized[n][s] \in FinalLog
  BY <1>1 DEF DiskTypeOK
<1>4. /\ finalized[n][s].body \in Body /\ finalized[n][s].end \in Txid
  BY <1>3 DEF FinalLog
<1>5. End(s, finalized[n][s].body) = finalized[n][s].end
  BY <1>1 DEF NamesOk, EndsAsNamed
<1>6. Len(finalized[n][s].body) \in Nat
  BY <1>4 DEF Body
<1>7. QED BY <1>2, <1>3, <1>4, <1>5, <1>6, Numbers DEF End

\* The transactions of a file are those of the writer who owns the segment.
LEMMA GenuineTxn ==
  ASSUME QTypeOK, WritersOk, NEW s \in Txid, NEW file \in Body, Genuine(s, file),
         NEW k \in 1..Len(file)
  PROVE  IF k = 1 THEN file[k] = 0
                  ELSE \A e \in Epoch : Owns(e, s) => file[k] = e
<1>1. Len(file) \in Nat
  BY DEF Body
<1>2. Txns(file)
  <2>1. file # <<>>
    BY <1>1
  <2>2. QED BY <2>1, AbsentAssumption DEF Txns
<1>3. CASE k = 1
  BY <1>2, <1>3 DEF Genuine
<1>4. CASE k # 1
  <2>1. Len(file) # 1 /\ k \in 2..Len(file)
    <3>1. k \in Int /\ k >= 1 /\ k <= Len(file)
      BY <1>1
    <3>2. k > 1 /\ Len(file) > 1
      BY <1>1, <1>4, <3>1
    <3>3. ~(Len(file) = 1)
      <4> SUFFICES ASSUME Len(file) = 1 PROVE FALSE
        OBVIOUS
      <4>1. QED BY <3>2
    <3>4. k \in 2..Len(file)
      BY <1>1, <3>1, <3>2
    <3>5. QED BY <3>3, <3>4
  <2>2. PICK f \in Epoch : Owns(f, s) /\ \A l \in 2..Len(file) : file[l] = f
    BY <1>2, <2>1 DEF Genuine
  <2>3. QED BY <1>4, <2>1, <2>2, OneOwner
<1>5. QED BY <1>3, <1>4

\* A file of two transactions or more has an owner.
LEMMA GenuineOwned ==
  ASSUME NEW s \in Txid, NEW file \in Body, Genuine(s, file), Len(file) > 1
  PROVE  \E e \in Epoch : Owns(e, s)
<1>1. file # <<>>
  OBVIOUS
<1>2. Txns(file)
  BY <1>1, AbsentAssumption DEF Txns
<1>3. Len(file) \in Nat /\ Len(file) # 1
  BY DEF Body
<1>4. QED BY <1>2, <1>3 DEF Genuine

LEMMA InvImpliesCopiesAgree ==
  ASSUME QInv
  PROVE  FinalizedCopiesAgree
<1> SUFFICES ASSUME NEW n \in Node, NEW m \in Node, NEW s \in Txid,
                    finalized[n][s] # NoFile, finalized[m][s] # NoFile
             PROVE  finalized[n][s] = finalized[m][s]
  BY DEF FinalizedCopiesAgree
<1> DEFINE a == finalized[n][s]
           b == finalized[m][s]
<1>1. /\ QTypeOK /\ WritersOk /\ DiskOk(n) /\ DiskOk(m)
  BY DEF QInv
<1>2. /\ a \in FinalLog /\ a.body \in Body /\ Len(a.body) = a.end + 1 - s
      /\ b \in FinalLog /\ b.body \in Body /\ Len(b.body) = b.end + 1 - s
  BY CopyWasFinalized
<1>3. a.end = b.end
  BY CopyWasFinalized, <1>1, ChosenAgree
<1>4. Genuine(s, a.body) /\ Genuine(s, b.body)
  BY <1>1 DEF DiskOk, SegmentOk, FilesOk
<1>5. Len(a.body) = Len(b.body) /\ Len(a.body) \in Nat
  BY <1>2, <1>3 DEF Body
<1>6. ASSUME NEW k \in 1..Len(a.body) PROVE a.body[k] = b.body[k]
  <2>1. CASE k = 1
    BY <1>1, <1>2, <1>4, <1>5, <2>1, GenuineTxn
  <2>2. CASE k # 1
    <3>1. Len(a.body) > 1
      BY <1>5, <2>2
    <3>2. PICK e \in Epoch : Owns(e, s)
      BY <1>2, <1>4, <3>1, GenuineOwned
    <3>3. a.body[k] = e
      BY <1>1, <1>2, <1>4, <2>2, <3>2, GenuineTxn
    <3>4. b.body[k] = e
      BY <1>1, <1>2, <1>4, <1>5, <2>2, <3>2, GenuineTxn
    <3>5. QED BY <3>3, <3>4
  <2>3. QED BY <2>1, <2>2
<1>7. a.body = b.body
  <2>1. a.body \in Seq(Payload) /\ b.body \in Seq(Payload)
    BY <1>2 DEF Body
  <2>2. QED BY <1>5, <1>6, <2>1, SeqEqual
<1>8. QED BY <1>2, <1>3, <1>7 DEF FinalLog

\* What is durable was journaled and answered by a majority.
LEMMA DurableWasAnswered ==
  ASSUME QInv, NEW s \in Txid, NEW txn \in Durable(s)
  PROVE  \E e \in Epoch : \E i \in 1..Sent(e) :
           /\ IsCall(e, i, "journal", s) /\ QuorumAnswered(e, i)
           /\ txn = <<calls[e][i].end, TxnOf(e, s, calls[e][i].end)>>
BY DEF Durable, IsCall

LEMMA InvImpliesAckedIsFinalized ==
  ASSUME QInv
  PROVE  AckedIsFinalized
<1> SUFFICES ASSUME NEW s \in Txid, NEW n \in Node, finalized[n][s] # NoFile,
                    NEW txn \in Durable(s)
             PROVE  /\ txn[1] <= finalized[n][s].end
                    /\ finalized[n][s].body[txn[1] + 1 - s] = txn[2]
  BY DEF AckedIsFinalized
<1> DEFINE body == finalized[n][s].body
           y == finalized[n][s].end
<1>1. QTypeOK /\ WritersOk /\ DiskOk(n)
  BY DEF QInv
<1>0. PICK e \in Epoch : \E i \in 1..Sent(e) :
        /\ IsCall(e, i, "journal", s) /\ QuorumAnswered(e, i)
        /\ txn = <<calls[e][i].end, TxnOf(e, s, calls[e][i].end)>>
  BY DurableWasAnswered
<1>2. PICK i \in 1..Sent(e) :
        /\ IsCall(e, i, "journal", s) /\ QuorumAnswered(e, i)
        /\ txn = <<calls[e][i].end, TxnOf(e, s, calls[e][i].end)>>
  BY <1>0
<1> DEFINE t == calls[e][i].end
<1>3. txn[1] = t /\ txn[2] = TxnOf(e, s, t)
  BY <1>2
<1>4. PICK f \in Epoch : FinalizeSent(f, s, y)
  BY CopyWasFinalized
<1>5. body \in Body /\ Len(body) = y + 1 - s /\ y \in Txid
  BY CopyWasFinalized DEF FinalLog
<1>6. t <= y
  BY <1>1, <1>2, <1>4, FinalizeCoversAcked
<1>7. Journaled(e, s, t)
  BY <1>2 DEF Journaled
<1>8. t \in Txid /\ t >= s
  BY <1>1, <1>7, JournalStarted
<1> DEFINE k == t + 1 - s
<1>9. k \in 1..Len(body)
  BY <1>5, <1>6, <1>8, Numbers
<1>10. Genuine(s, body)
  BY <1>1 DEF DiskOk, SegmentOk, FilesOk
<1>11. body[k] = TxnOf(e, s, t)
  <2> HIDE DEF body, y
  <2>1. CASE t = s
    <3>1. k = 1
      BY <1>8, <2>1, Numbers
    <3>2. body[k] = 0
      BY <1>1, <1>5, <1>9, <1>10, <3>1, GenuineTxn
    <3>3. QED BY <2>1, <3>2 DEF TxnOf
  <2>2. CASE t # s
    <3>1. t > s /\ ~(k = 1)
      BY <1>8, <2>2, Numbers
    <3>2. Owns(e, s)
      BY <1>7, <1>8, <3>1 DEF Owns
    <3>3. body[k] = e
      BY <1>1, <1>5, <1>9, <1>10, <3>1, <3>2, GenuineTxn
    <3>4. QED BY <2>2, <3>3 DEF TxnOf
  <2>3. QED BY <2>1, <2>2
<1>12. QED BY <1>3, <1>6, <1>11

\* A node that answered a journal call of which a majority did holds the
\* segment.
LEMMA InvImpliesAckedAreSeen ==
  ASSUME QInv
  PROVE  AckedSegmentsAreSeen
<1> SUFFICES ASSUME NEW s \in Txid, NEW Q \in Quorum, Durable(s) # {}
             PROVE  \E n \in Q : HasTxns(n, s)
  BY DEF AckedSegmentsAreSeen
<1>0. PICK e \in Epoch : \E i \in 1..Sent(e) :
        IsCall(e, i, "journal", s) /\ QuorumAnswered(e, i)
  BY DurableWasAnswered
<1>1. PICK i \in 1..Sent(e) : IsCall(e, i, "journal", s) /\ QuorumAnswered(e, i)
  BY <1>0
<1>2. PICK P \in Quorum : Answered(e, i, P)
  BY <1>1 DEF QuorumAnswered
<1>3. PICK n \in Node : n \in P /\ n \in Q
  BY QuorumsMeet
<1>4. QTypeOK /\ WritersOk /\ AnswersOk(n)
  BY DEF QInv
<1>5. i \in Serial /\ i > 0
  BY <1>4, CallType, Numbers
<1>6. LastsOk(n, e, i)
  BY <1>2, <1>3, <1>4, <1>5 DEF AnswersOk, AnsweredOk, Answered, Ans
<1>7. calls[e][i].op = "journal" /\ calls[e][i].s = s
  BY <1>1 DEF IsCall
<1>8. ~Restarted(e, s)
  BY <1>1, <1>4, <1>7, NoRestart DEF IsVote
<1>9. finalized[n][s] # NoFile \/ Txns(inProgress[n][s])
  BY <1>6, <1>7, <1>8 DEF LastsOk, JournalLasts
<1>10. HasTxns(n, s)
  BY <1>9 DEF HasTxns, Txns
<1>11. QED BY <1>3, <1>10

-----------------------------------------------------------------------------
(* What only grows *)

\* Calls are added and answers come; a call that a node refuses by its promise
\* it never answers.
Grows ==
  /\ \A e \in Epoch :
       /\ Sent(e)' \in Nat /\ Sent(e) <= Sent(e)'
       /\ \A i \in 1..Sent(e) : calls'[e][i] = calls[e][i]
  /\ \A n \in Node, e \in Epoch, i \in Serial :
       /\ Ans(e, i, n) => answers'[e][i][n] = answers[e][i][n]
       /\ Ans(e, i, n)' /\ ~Ans(e, i, n) => ~Shut(n, e)
  /\ \A n \in Node, e \in Epoch : Shut(n, e) => Shut(n, e)'

LEMMA CallStays ==
  ASSUME Grows, QTypeOK, NEW e \in Epoch, NEW i \in 1..Sent(e)
  PROVE  /\ i \in 1..Sent(e)' /\ calls'[e][i] = calls[e][i]
         /\ \A op, s : IsCall(e, i, op, s)' <=> IsCall(e, i, op, s)
         /\ IsVote(e, i)' <=> IsVote(e, i)
<1>1. Sent(e) \in Nat /\ Sent(e)' \in Nat /\ Sent(e) <= Sent(e)'
  BY CallType DEF Grows
<1>2. i \in 1..Sent(e)'
  BY <1>1
<1>3. calls'[e][i] = calls[e][i]
  BY DEF Grows
<1>4. QED BY <1>2, <1>3 DEF IsCall, IsVote

LEMMA CallsStay ==
  ASSUME Grows, QTypeOK
  PROVE  /\ \A e, s : Started(e, s) => Started(e, s)'
         /\ \A s : Used(s) => Used(s)'
         /\ \A e, s, t : Journaled(e, s, t) => Journaled(e, s, t)'
         /\ \A e, s, t : AcceptSent(e, s, t) => AcceptSent(e, s, t)'
         /\ \A e, s, t : FinalizeSent(e, s, t) => FinalizeSent(e, s, t)'
         /\ \A e, s : Owns(e, s) => Owns(e, s)'
         /\ \A e, s : Restarted(e, s) => Restarted(e, s)'
<1>1. \A e, s : Started(e, s) => Started(e, s)'
  BY CallStays DEF Started
<1>2. \A e, s, t : Journaled(e, s, t) => Journaled(e, s, t)'
  BY CallStays DEF Journaled
<1>3. \A e, s, t : AcceptSent(e, s, t) => AcceptSent(e, s, t)'
  BY CallStays DEF AcceptSent
<1>4. \A e, s, t : FinalizeSent(e, s, t) => FinalizeSent(e, s, t)'
  BY CallStays DEF FinalizeSent
<1>5. \A s : Used(s) => Used(s)'
  BY <1>1 DEF Used
<1>6. \A e, s : Owns(e, s) => Owns(e, s)'
  BY <1>2 DEF Owns
<1>7. \A e, s : Restarted(e, s) => Restarted(e, s)'
  BY <1>1 DEF Restarted
<1>8. QED BY <1>1, <1>2, <1>3, <1>4, <1>5, <1>6, <1>7

LEMMA AnswersStay ==
  ASSUME Grows, QTypeOK, NEW e \in Epoch, NEW i \in Serial
  PROVE  /\ \A n \in Node : Ans(e, i, n) => Ans(e, i, n)'
         /\ \A Q \in Quorum : Answered(e, i, Q) =>
              /\ Answered(e, i, Q)'
              /\ \A n \in Q : answers'[e][i][n] = answers[e][i][n]
         /\ QuorumAnswered(e, i) => QuorumAnswered(e, i)'
         /\ Blocked(e, i) => Blocked(e, i)'
<1>1. \A n \in Node : Ans(e, i, n) => answers'[e][i][n] = answers[e][i][n]
  BY DEF Grows
<1>2. \A n \in Node : Ans(e, i, n) => Ans(e, i, n)'
  BY <1>1 DEF Ans
<1>3. \A Q \in Quorum : Q \subseteq Node
  BY QuorumNotEmpty
<1>4. \A Q \in Quorum : Answered(e, i, Q) =>
        /\ Answered(e, i, Q)'
        /\ \A n \in Q : answers'[e][i][n] = answers[e][i][n]
  BY <1>1, <1>3 DEF Answered, Ans
<1>5. QuorumAnswered(e, i) => QuorumAnswered(e, i)'
  BY <1>4 DEF QuorumAnswered, Quorum
<1>6. ASSUME NEW Q \in Quorum, \A n \in Q : ~Ans(e, i, n) /\ Shut(n, e)
      PROVE  \A n \in Q : ~Ans(e, i, n)' /\ Shut(n, e)'
  BY <1>3, <1>6 DEF Grows
<1>7. Blocked(e, i) => Blocked(e, i)'
  BY <1>6 DEF Blocked, Quorum
<1>8. QED BY <1>2, <1>4, <1>5, <1>7

LEMMA SettledStays ==
  ASSUME Grows, QTypeOK, NEW b, NEW s, Settled(b, s)
  PROVE  Settled(b, s)'
<1>1. PICK f \in Epoch : f <= b /\ \E j \in 1..Sent(f) :
        IsCall(f, j, "finalize", s) /\ QuorumAnswered(f, j)
  BY DEF Settled
<1>2. PICK j \in 1..Sent(f) : IsCall(f, j, "finalize", s) /\ QuorumAnswered(f, j)
  BY <1>1
<1>3. j \in Serial
  BY CallType
<1>4. j \in 1..Sent(f)' /\ IsCall(f, j, "finalize", s)' /\ QuorumAnswered(f, j)'
  BY <1>2, <1>3, CallStays, AnswersStay
<1>5. QED BY <1>1, <1>4 DEF Settled

\* What is right in the calls of a writer stays right.
LEMMA QuorumStays ==
  ASSUME Grows, QTypeOK, NEW e \in Epoch, NEW i \in Serial, NEW Q \in Quorum,
         Answered(e, i, Q)
  PROVE  /\ Q \in Quorum' /\ Answered(e, i, Q)'
         /\ \A n \in Q : answers'[e][i][n] = answers[e][i][n]
BY AnswersStay DEF Quorum

LEMMA FirstStays ==
  ASSUME Grows, QTypeOK, NEW e \in Epoch, NEW c, First(e, c)
  PROVE  First(e, c)'
<1> DEFINE m == IF c.op = "start" THEN 0 ELSE c.s
<1>1. 0 \in Serial
  BY BoundsAssumption DEF Serial
<1>2. PICK Q \in Quorum : /\ Answered(e, 0, Q)
                          /\ \A n \in Q : answers[e][0][n].latest <= m
                          /\ \E n \in Q : answers[e][0][n].latest = m
  BY DEF First
<1>3. Q \in Quorum' /\ Answered(e, 0, Q)' /\ \A n \in Q : answers'[e][0][n] = answers[e][0][n]
  BY <1>1, <1>2, QuorumStays
<1>4. /\ \A n \in Q : answers'[e][0][n].latest <= m
      /\ \E n \in Q : answers'[e][0][n].latest = m
  BY <1>2, <1>3
<1>5. QED BY <1>3, <1>4 DEF First

LEMMA ProposesStays ==
  ASSUME Grows, QTypeOK, NEW e \in Epoch, 1 \in Serial, NEW c, Proposes(e, c)
  PROVE  Proposes(e, c)'
<1>1. PICK Q \in Quorum :
        /\ Answered(e, 1, Q)
        /\ c.from \in Q
        /\ answers[e][1][c.from].exists /\ answers[e][1][c.from].end = c.end
        /\ \A n \in Q : answers[e][1][n].exists =>
             AsGood(answers[e][1][c.from], answers[e][1][n])
  BY DEF Proposes
<1>2. Q \in Quorum' /\ Answered(e, 1, Q)' /\ \A n \in Q : answers'[e][1][n] = answers[e][1][n]
  BY <1>1, QuorumStays
<1>3. \A a, b : AsGood(a, b)' <=> AsGood(a, b)
  BY DEF AsGood
<1>4. /\ answers'[e][1][c.from].exists /\ answers'[e][1][c.from].end = c.end
      /\ \A n \in Q : answers'[e][1][n].exists =>
             AsGood(answers'[e][1][c.from], answers'[e][1][n])
  BY <1>1, <1>2
<1>5. QED BY <1>1, <1>2, <1>4 DEF Proposes, AsGood

LEMMA FollowsStays ==
  ASSUME Grows, QTypeOK, NEW e \in Epoch, NEW i \in 1..Sent(e), NEW c, Follows(e, i, c)
  PROVE  Follows(e, i, c)'
<1>1. i \in Serial /\ i \in Int
  BY CallType
<1>2. calls'[e][i] = calls[e][i]
  BY CallStays
<1>3. QuorumAnswered(e, i)'
  BY <1>1, AnswersStay DEF Follows
<1>4. i = 1 /\ NothingFound(e) => NothingFound(e)'
  <2> SUFFICES ASSUME i = 1, NothingFound(e) PROVE NothingFound(e)'
    OBVIOUS
  <2>1. PICK Q \in Quorum : Answered(e, 1, Q) /\ \A n \in Q : ~answers[e][1][n].exists
    BY DEF NothingFound
  <2>2. Q \in Quorum' /\ Answered(e, 1, Q)' /\ \A n \in Q : answers'[e][1][n] = answers[e][1][n]
    BY <1>1, <2>1, QuorumStays
  <2>3. QED BY <2>1, <2>2 DEF NothingFound
<1>5. i = 1 /\ Proposes(e, c) => Proposes(e, c)'
  BY <1>1, ProposesStays
<1>6. QED BY <1>2, <1>3, <1>4, <1>5 DEF Follows

LEMMA StartedBeforeStays ==
  ASSUME Grows, QTypeOK, NEW e \in Epoch, NEW j \in 1..Sent(e), StartedBefore(e, j)
  PROVE  StartedBefore(e, j)'
<1>1. calls'[e][j] = calls[e][j]
  BY CallStays
<1>2. SUFFICES ASSUME calls[e][j].op = "journal"
               PROVE  \E i \in 1..Sent(e)' : i < j /\ IsCall(e, i, "start", calls[e][j].s)'
  BY <1>1 DEF StartedBefore
<1>3. PICK i \in 1..Sent(e) : i < j /\ IsCall(e, i, "start", calls[e][j].s)
  BY <1>2 DEF StartedBefore
<1>4. QED BY <1>3, CallStays

\* A step that sends no call of e.
LEMMA CallsOkStays ==
  ASSUME Grows, QTypeOK, NEW e \in Epoch, CallsOk(e), Sent(e)' = Sent(e)
  PROVE  CallsOk(e)'
<1>1. Sent(e) \in Nat /\ \A i \in 1..Sent(e) : calls'[e][i] = calls[e][i]
  BY CallType, CallStays
<1>2. Sent(e) >= 1 => First(e, calls[e][1])'
  <2>1. \A c : Sent(e) >= 1 /\ c = calls[e][1] => First(e, c)'
    BY FirstStays DEF CallsOk
  <2>2. Sent(e) >= 1 => calls'[e][1] = calls[e][1]
    BY <1>1
  <2>3. QED BY <2>1, <2>2
<1>3. \A i \in 2..Sent(e) : i - 1 \in 1..Sent(e) /\ i \in 1..Sent(e)
  BY <1>1
<1>4. \A i \in 2..Sent(e) : Follows(e, i - 1, calls[e][i])'
  <2> SUFFICES ASSUME NEW i \in 2..Sent(e) PROVE Follows(e, i - 1, calls[e][i])'
    OBVIOUS
  <2>1. \A c : c = calls[e][i] => Follows(e, i - 1, c)'
    BY <1>3, FollowsStays DEF CallsOk
  <2>2. calls'[e][i] = calls[e][i]
    BY <1>1, <1>3
  <2>3. QED BY <2>1, <2>2
<1>5. \A i, j \in 1..Sent(e) : i < j => Later(calls[e][i], calls[e][j])'
  <2>1. \A i, j \in 1..Sent(e) : i < j => Later(calls'[e][i], calls'[e][j])
    BY <1>1 DEF CallsOk
  <2>2. QED BY <2>1 DEF Later
<1>6. \A j \in 1..Sent(e) : StartedBefore(e, j)'
  BY StartedBeforeStays DEF CallsOk
<1>7. QED BY <1>2, <1>4, <1>5, <1>6 DEF CallsOk

-----------------------------------------------------------------------------
(* What the answers show of other writers, in one state *)

LEMMA NewCallUnanswered ==
  ASSUME QInv, NEW e \in Epoch, NEW i \in Serial, i > Sent(e), NEW n \in Node
  PROVE  ~Ans(e, i, n)
<1>1. QTypeOK /\ AnswersOk(n)
  BY DEF QInv
<1>2. Ans(e, i, n) => i <= Sent(e)
  BY <1>1 DEF AnswersOk, AnsweredOk
<1>3. QED BY <1>1, <1>2, CallType, Numbers

\* A node that answered a writer refuses those before it.
LEMMA AnsweredShuts ==
  ASSUME QInv, NEW e \in Epoch, NEW i \in Serial, NEW n \in Node, Ans(e, i, n),
         NEW f \in Epoch, f < e
  PROVE  Shut(n, f)
<1>1. AnswersOk(n) /\ promised[n] \in Int
  BY EpochsAreIntegers DEF QInv, IInv, TypeOK
<1>2. Past(n, e, i)
  BY <1>1 DEF AnswersOk, AnsweredOk
<1>3. QED BY <1>1, <1>2, Numbers DEF Past, Shut

\* So a majority that answered a later writer knows of every vote that is not
\* blocked.
LEMMA VoteIsHeard ==
  ASSUME QInv, NEW e \in Epoch, NEW j \in Serial, NEW Q \in Quorum, Answered(e, j, Q),
         NEW f \in Epoch, f < e, NEW i, ~Blocked(f, i)
  PROVE  \E n \in Node : n \in Q /\ Ans(f, i, n) /\ Ans(e, j, n)
<1>1. Q \subseteq Node
  BY QuorumNotEmpty
<1>2. PICK n \in Q : Ans(f, i, n) \/ ~Shut(n, f)
  BY DEF Blocked
<1>3. n \in Node /\ Ans(e, j, n)
  BY <1>1 DEF Answered, Ans
<1>4. Shut(n, f)
  BY <1>3, AnsweredShuts
<1>5. QED BY <1>2, <1>3, <1>4

\* A majority answered newEpoch before the writer sent anything.
LEMMA EpochAnswered ==
  ASSUME QInv, NEW e \in Epoch, Sent(e) >= 1
  PROVE  QuorumAnswered(e, 0)
<1>1. First(e, calls[e][1])
  BY DEF QInv, WritersOk, CallsOk
<1>2. QED BY <1>1 DEF First, QuorumAnswered

\* A call that a writer sends when a later one has begun is blocked.
LEMMA NewCallBlocked ==
  ASSUME QInv, NEW e \in Epoch, NEW g \in Epoch, e < g, Sent(g) >= 1,
         NEW i \in Serial, i > Sent(e)
  PROVE  Blocked(e, i)
<1>1. 0 \in Serial
  BY BoundsAssumption DEF Serial
<1>2. PICK Q \in Quorum : Answered(g, 0, Q)
  BY EpochAnswered DEF QuorumAnswered
<1>3. SUFFICES ASSUME ~Blocked(e, i) PROVE FALSE
  OBVIOUS
<1>4. PICK n \in Node : Ans(e, i, n)
  BY <1>1, <1>2, <1>3, VoteIsHeard
<1>5. QED BY <1>4, NewCallUnanswered

\* Every segment a writer calls for was started, by it or an earlier one.
LEMMA CallIsOfUsed ==
  ASSUME QInv, NEW e \in Epoch, NEW i \in 1..Sent(e)
  PROVE  \E b \in Epoch : b <= e /\ Started(b, calls[e][i].s)
<1> DEFINE c == calls[e][i]
           s == c.s
<1>1. /\ QTypeOK /\ WritersOk /\ CallsOk(e) /\ Sent(e) \in Nat /\ s \in Txid
      /\ c.op \in Op /\ i \in Int
  BY CallType DEF QInv, WritersOk
<1>2. ASSUME calls[e][1].op = "prepare"
      PROVE  \E b \in Epoch : b <= e /\ Started(b, calls[e][1].s)
  <2> DEFINE r == calls[e][1].s
  <2>1. First(e, calls[e][1]) /\ r \in Txid
    BY <1>1, CallType DEF CallsOk
  <2>2. PICK Q \in Quorum :
          Answered(e, 0, Q) /\ \E n \in Q : answers[e][0][n].latest = r
    BY <1>2, <2>1 DEF First
  <2>3. PICK n \in Q : answers[e][0][n].latest = r
    BY <2>2
  <2>4. n \in Node /\ Ans(e, 0, n)
    BY <2>2, QuorumNotEmpty DEF Answered, Ans
  <2>5. ToldOk(n, e)
    BY <2>4 DEF QInv, AnswersOk
  <2>6. \E f \in Epoch : f < e /\ Started(f, r)
    BY <2>1, <2>3, <2>4, <2>5, Numbers DEF ToldOk, LatestTold, InfoTold
  <2>7. QED BY <2>6, Numbers
<1>3. CASE c.op = "start"
  BY <1>1, <1>3, Numbers DEF Started, IsCall
<1>4. CASE c.op = "journal"
  <2>1. Journaled(e, s, c.end)
    BY <1>4 DEF Journaled, IsCall
  <2>2. QED BY <1>1, <2>1, JournalStarted, Numbers
<1>5. CASE c.op = "prepare"
  <2>1. i = 1
    <3>1. ~(i \in 2..Sent(e))
      BY <1>1, <1>5 DEF CallsOk, Follows
    <3>2. QED BY <1>1, <3>1
  <2>2. QED BY <1>2, <1>5, <2>1
<1>6. ASSUME NEW k \in 1..Sent(e), calls[e][k].op = "accept"
      PROVE  \E b \in Epoch : b <= e /\ Started(b, calls[e][k].s)
  <2>1. k # 1
    BY <1>1, <1>6 DEF CallsOk, First
  <2>2. k \in 2..Sent(e) /\ k \in Int
    BY <1>1, <2>1
  <2>3. Follows(e, k - 1, calls[e][k])
    BY <1>1, <2>2 DEF CallsOk
  <2>4. k - 1 = 1 /\ calls[e][k - 1].op = "prepare" /\ calls[e][k].s = calls[e][k - 1].s
    BY <1>6, <2>3 DEF Follows
  <2>5. QED BY <1>2, <2>4
<1>7. CASE c.op = "accept"
  BY <1>6, <1>7
<1>8. CASE c.op = "finalize"
  <2>1. FinalizeSent(e, s, c.end)
    BY <1>8 DEF FinalizeSent, IsCall
  <2>2. PICK k \in 1..Sent(e) : /\ calls[e][k].s = s
                                /\ calls[e][k].op \in {"journal", "accept"}
    BY <1>1, <2>1, FinalizeVoted
  <2>3. CASE calls[e][k].op = "journal"
    <3>1. Journaled(e, s, calls[e][k].end)
      BY <2>2, <2>3 DEF Journaled, IsCall
    <3>2. QED BY <1>1, <3>1, JournalStarted, Numbers
  <2>4. CASE calls[e][k].op = "accept"
    BY <1>6, <2>2, <2>4
  <2>5. QED BY <2>2, <2>3, <2>4
<1>9. QED BY <1>1, <1>3, <1>4, <1>5, <1>7, <1>8 DEF Op

\* An accept call is the second; the writer's other calls on the segment are
\* the prepare call before it and the finalize call after it.
LEMMA AcceptAlone ==
  ASSUME QTypeOK, WritersOk, NEW e \in Epoch, NEW s, NEW i \in 1..Sent(e),
         IsCall(e, i, "accept", s)
  PROVE  /\ i = 2 /\ IsCall(e, 1, "prepare", s)
         /\ \A j \in 1..Sent(e) : calls[e][j].s = s =>
              j = 2 \/ calls[e][j].op \in {"prepare", "finalize"}
<1>1. CallsOk(e) /\ Sent(e) \in Nat /\ i \in Int
  BY CallType DEF WritersOk
<1>2. calls[e][i].op = "accept" /\ calls[e][i].s = s
  BY DEF IsCall
<1>3. i # 1
  BY <1>1, <1>2 DEF CallsOk, First
<1>4. i \in 2..Sent(e)
  BY <1>1, <1>3
<1>5. i - 1 = 1 /\ calls[e][i - 1].op = "prepare" /\ s = calls[e][i - 1].s
  BY <1>1, <1>2, <1>4 DEF CallsOk, Follows
<1>6. i = 2 /\ IsCall(e, 1, "prepare", s)
  BY <1>1, <1>4, <1>5 DEF IsCall
<1>7. ASSUME NEW j \in 1..Sent(e), calls[e][j].s = s, j # 2, calls[e][j].op # "prepare"
      PROVE  calls[e][j].op = "finalize"
  <2>1. j # 1 /\ j \in Int
    BY <1>1, <1>6, <1>7 DEF IsCall
  <2>2. i < j
    BY <1>1, <1>6, <1>7, <2>1
  <2>3. Later(calls[e][i], calls[e][j])
    BY <1>1, <2>2 DEF CallsOk
  <2>4. QED BY <1>2, <1>7, <2>3 DEF Later
<1>8. QED BY <1>6, <1>7

-----------------------------------------------------------------------------
(* The log that a writer proposes respects every vote *)

\* So does a segment's end, once finalized.
LEMMA FinalizeRespects ==
  ASSUME QTypeOK, WritersOk, NEW b, NEW s, NEW y, FinalizeSent(b, s, y),
         NEW f \in Epoch, NEW i \in 1..Sent(f), IsVote(f, i), calls[f][i].s = s,
         ~Blocked(f, i)
  PROVE  Respects(calls[f][i], y)
<1> DEFINE c == calls[f][i]
<1>1. b \in Epoch /\ s \in Txid /\ y \in Txid /\ ~Restarted(b, s)
  BY FinalizeVoted
<1>2. PICK k \in 1..Sent(b) :
        /\ IsVote(b, k) /\ calls[b][k].s = s /\ calls[b][k].end = y
        /\ calls[b][k].op \in {"journal", "accept"}
  BY FinalizeVoted
<1>3. ~Restarted(f, s)
  BY DEF WritersOk, RestartBlocks
<1>4. c.op \in {"journal", "accept"}
  BY DEF IsVote
<1>5. ASSUME c.op = "journal" PROVE Journaled(f, s, c.end) /\ Started(f, s)
  <2>1. Journaled(f, s, c.end)
    BY <1>5 DEF Journaled, IsCall
  <2>2. QED BY <1>1, <2>1, JournalStarted
<1>6. CASE b > f
  <2>1. CASE calls[b][k].op = "journal"
    <3>1. Journaled(b, s, y)
      BY <1>1, <1>2, <2>1 DEF Journaled, IsCall
    <3>2. QED BY <1>1, <1>3, <1>6, <3>1, JournalStarted DEF Restarted
  <2>2. CASE calls[b][k].op = "accept"
    <3>1. IsCall(b, k, "accept", calls[f][i].s)
      BY <1>2, <2>2 DEF IsCall
    <3>2. QED BY <1>1, <1>2, <1>6, <3>1 DEF WritersOk, AcceptSafe
  <2>3. QED BY <1>2, <2>1, <2>2
<1>7. CASE b = f
  <2>1. CASE c.op = "journal"
    <3>1. c.end <= y /\ c.end \in Int /\ y \in Int
      BY <1>1, <1>5, <1>7, <2>1, JournalThenFinalize, CallType, Numbers
    <3>2. QED BY <2>1, <3>1 DEF Respects
  <2>2. CASE c.op = "accept"
    <3>1. IsCall(f, i, "accept", s)
      BY <2>2 DEF IsCall
    <3>2. i = 2 /\ k = 2
      BY <1>2, <1>7, <3>1, AcceptAlone
    <3>3. QED BY <1>2, <1>7, <2>2, <3>2 DEF Respects
  <2>3. QED BY <1>4, <2>1, <2>2
<1>8. CASE b < f
  <2>1. CASE c.op = "journal"
    BY <1>1, <1>5, <1>8, <2>1 DEF Restarted
  <2>2. CASE c.op = "accept"
    <3>1. AcceptSent(f, s, c.end)
      BY <2>2 DEF AcceptSent, IsCall
    <3>2. y = c.end
      BY <1>8, <3>1, AcceptAfterFinalize
    <3>3. QED BY <2>2, <3>2 DEF Respects
  <2>3. QED BY <1>4, <2>1, <2>2
<1>9. QED BY <1>1, <1>6, <1>7, <1>8, Numbers

\* The writer of epoch e has prepared the recovery of segment s; Q answered,
\* and best has the best log.
Recovers(e, s, Q, best) ==
  /\ e \in Epoch /\ s \in Txid /\ Q \in Quorum /\ best \in Q
  /\ Sent(e) = 1 /\ IsCall(e, 1, "prepare", s)
  /\ Answered(e, 1, Q)
  /\ answers[e][1][best].exists
  /\ \A n \in Q : answers[e][1][n].exists =>
       AsGood(answers[e][1][best], answers[e][1][n])

LEMMA RecoversTypes ==
  ASSUME QInv, NEW e, NEW s, NEW Q, NEW best, Recovers(e, s, Q, best)
  PROVE  /\ 1 \in Serial /\ 1 \in 1..Sent(e)
         /\ QTypeOK /\ WritersOk
         /\ best \in Node /\ Ans(e, 1, best)
         /\ \A n \in Q : /\ n \in Node /\ Ans(e, 1, n)
                         /\ answers[e][1][n] \in Info
                         /\ ToldOk(n, e)
         /\ \A op, r : \A j \in 1..Sent(e) : op # "prepare" => ~IsCall(e, j, op, r)
<1>1. QTypeOK /\ WritersOk /\ 1 \in 1..Sent(e) /\ e \in Epoch
  BY DEF QInv, Recovers
<1>2. 1 \in Serial
  BY <1>1, CallType
<1>3. \A n \in Q : n \in Node /\ Ans(e, 1, n) /\ ToldOk(n, e)
  BY <1>1, QuorumNotEmpty DEF Recovers, Answered, Ans, QInv, AnswersOk
<1>4. \A n \in Q : answers[e][1][n] \in Info
  BY <1>3 DEF ToldOk, LatestTold, InfoTold, Recovers
<1>5. \A op, r : \A j \in 1..Sent(e) : op # "prepare" => ~IsCall(e, j, op, r)
  BY DEF Recovers, IsCall
<1>6. QED BY <1>1, <1>2, <1>3, <1>4, <1>5 DEF Recovers

\* If the segment is settled, the best log is a finalized one.
LEMMA SettledIsReported ==
  ASSUME QInv, NEW e, NEW s, NEW Q, NEW best, Recovers(e, s, Q, best),
         NEW b, b \in Int, b <= e, Settled(b, s)
  PROVE  answers[e][1][best].finalized
<1>1. e \in Epoch /\ s \in Txid /\ Q \in Quorum /\ Answered(e, 1, Q) /\ QTypeOK /\ WritersOk
      /\ 1 \in Serial /\ IsCall(e, 1, "prepare", s)
  BY RecoversTypes DEF Recovers
<1>2. PICK f \in Epoch : f <= b /\ \E j \in 1..Sent(f) :
        IsCall(f, j, "finalize", s) /\ QuorumAnswered(f, j)
  BY DEF Settled
<1>3. PICK j \in 1..Sent(f) : IsCall(f, j, "finalize", s) /\ QuorumAnswered(f, j)
  BY <1>2
<1>4. f # e
  BY <1>3, RecoversTypes
<1>5. f < e
  BY <1>1, <1>2, <1>4, Numbers
<1>6. ~Blocked(f, j)
  BY <1>3, AnsweredNotBlocked
<1>7. PICK n \in Node : n \in Q /\ Ans(f, j, n) /\ Ans(e, 1, n)
  BY <1>1, <1>5, <1>6, VoteIsHeard
<1>8. calls[f][j].op = "finalize" /\ calls[f][j].s = s /\ j \in Serial /\ j > 0
  BY <1>1, <1>3, CallType DEF IsCall
<1>9. InfoShows(n, f, j, e)
  BY <1>1, <1>5, <1>7, <1>8 DEF QInv, AnswersOk, AnsweredOk
<1>10. ~Restarted(f, s)
  <2>1. FinalizeSent(f, s, calls[f][j].end)
    BY <1>3 DEF FinalizeSent
  <2>2. QED BY <1>1, <2>1, FinalizeVoted
<1>11. answers[e][1][n].exists /\ answers[e][1][n].finalized
  BY <1>1, <1>7, <1>8, <1>9, <1>10 DEF InfoShows
<1>12. QED BY <1>7, <1>11 DEF Recovers, AsGood

\* What the best log is.
LEMMA BestIsOf ==
  ASSUME QInv, NEW e, NEW s, NEW Q, NEW best, Recovers(e, s, Q, best)
  PROVE  LET a == answers[e][1][best]
         IN  \/ /\ a.finalized
                /\ \E b \in Epoch : b < e /\ FinalizeSent(b, s, a.end)
             \/ /\ ~a.finalized /\ a.epoch \in Epoch /\ a.epoch < e
                /\ \/ AcceptSent(a.epoch, s, a.end)
                   \/ Started(a.epoch, s) /\ (a.end = s \/ Journaled(a.epoch, s, a.end))
<1> DEFINE a == answers[e][1][best]
<1>1. /\ e \in Epoch /\ s \in Txid /\ ToldOk(best, e) /\ Ans(e, 1, best) /\ a.exists
      /\ IsCall(e, 1, "prepare", s) /\ a \in Info /\ QTypeOK /\ WritersOk
  BY RecoversTypes DEF Recovers
<1>2. CASE a.finalized
  <2>1. PICK b \in Epoch : b <= e /\ FinalizeSent(b, s, a.end)
    BY <1>1, <1>2 DEF ToldOk, LatestTold, InfoTold
  <2>2. b # e
    BY <2>1, RecoversTypes DEF FinalizeSent
  <2>3. QED BY <1>1, <1>2, <2>1, <2>2, Numbers
<1>3. CASE ~a.finalized
  <2>1. /\ a.epoch <= e
        /\ \/ AcceptSent(a.epoch, s, a.end)
           \/ Started(a.epoch, s) /\ (a.end = s \/ Journaled(a.epoch, s, a.end))
           \/ Settled(a.epoch, s)
    BY <1>1, <1>3 DEF ToldOk, LatestTold, InfoTold
  <2>2. a.epoch \in Epoch \cup {0}
    BY <1>1 DEF Info
  <2>3. ~Settled(a.epoch, s)
    BY <1>3, <2>1, <2>2, Numbers, SettledIsReported
  <2>4. a.epoch \in Epoch /\ a.epoch # e
    BY <2>1, <2>3, RecoversTypes DEF AcceptSent, Started
  <2>5. QED BY <1>1, <1>3, <2>1, <2>3, <2>4, Numbers
<1>4. QED BY <1>2, <1>3

LEMMA BestIsLog ==
  ASSUME QInv, NEW e, NEW s, NEW Q, NEW best, Recovers(e, s, Q, best)
  PROVE  answers[e][1][best].end \in Txid /\ answers[e][1][best].end >= s
<1> DEFINE y == answers[e][1][best].end
<1>1. QTypeOK /\ WritersOk /\ s \in Txid
  BY RecoversTypes DEF Recovers
<1>2. ASSUME NEW b \in Epoch, FinalizeSent(b, s, y) PROVE y \in Txid /\ y >= s
  BY <1>1, <1>2, FinalizeVoted, Numbers
<1>3. ASSUME NEW b \in Epoch, AcceptSent(b, s, y) PROVE y \in Txid /\ y >= s
  <2>1. PICK i \in 1..Sent(b) : IsCall(b, i, "accept", s) /\ calls[b][i].end = y
    BY <1>3 DEF AcceptSent
  <2>2. i = 2 /\ CallsOk(b) /\ Sent(b) \in Nat /\ y \in 0..MaxTxid
    BY <1>1, <2>1, AcceptAlone, CallType DEF WritersOk
  <2>3. Follows(b, 2 - 1, calls[b][2])
    BY <2>2 DEF CallsOk
  <2>4. y >= s
    BY <2>1, <2>2, <2>3 DEF Follows, IsCall
  <2>5. QED BY <1>1, <2>2, <2>4, Numbers DEF Txid
<1>4. ASSUME NEW b \in Epoch, Journaled(b, s, y) PROVE y \in Txid /\ y >= s
  BY <1>1, <1>4, JournalStarted
<1>5. y = s => y \in Txid /\ y >= s
  BY <1>1, Numbers
<1>6. QED BY <1>2, <1>3, <1>4, <1>5, BestIsOf

\* The best log is at least as late as any vote that is not blocked.
LEMMA VoteIsReported ==
  ASSUME QInv, NEW e, NEW s, NEW Q, NEW best, Recovers(e, s, Q, best),
         NEW f \in Epoch, f < e, NEW i \in 1..Sent(f), IsVote(f, i),
         calls[f][i].s = s, ~Blocked(f, i)
  PROVE  LET a == answers[e][1][best]
         IN  \/ a.finalized
             \/ /\ a.epoch \in Int /\ a.epoch >= f
                /\ calls[f][i].op = "journal" /\ a.epoch = f => a.end >= calls[f][i].end
<1> DEFINE a == answers[e][1][best]
           c == calls[f][i]
<1>1. /\ e \in Epoch /\ s \in Txid /\ Q \in Quorum /\ Answered(e, 1, Q)
      /\ QTypeOK /\ WritersOk /\ 1 \in Serial /\ IsCall(e, 1, "prepare", s)
      /\ a \in Info /\ a.exists /\ c.op \in {"journal", "accept"}
  BY RecoversTypes DEF Recovers, IsVote
<1>2. PICK n \in Node : n \in Q /\ Ans(f, i, n) /\ Ans(e, 1, n)
  BY <1>1, VoteIsHeard
<1> DEFINE b == answers[e][1][n]
<1>3. i \in Serial /\ i > 0 /\ c.end \in Int
  BY <1>1, CallType, Numbers
<1>4. InfoShows(n, f, i, e)
  BY <1>1, <1>2, <1>3 DEF QInv, AnswersOk, AnsweredOk
<1>5. ~Restarted(f, s)
  BY <1>1 DEF WritersOk, RestartBlocks
<1>6. /\ b.exists
      /\ c.op = "journal"  => b.finalized \/ b.epoch > f \/ (b.epoch = f /\ b.end >= c.end)
      /\ c.op = "accept"   => b.finalized \/ b.epoch >= f
  BY <1>1, <1>2, <1>4, <1>5 DEF InfoShows
<1>7. AsGood(a, b) /\ b \in Info
  BY <1>2, <1>6, RecoversTypes DEF Recovers
<1>8. CASE a.finalized
  BY <1>8
<1>9. CASE ~a.finalized
  <2>1. ~b.finalized /\ (a.epoch > b.epoch \/ (a.epoch = b.epoch /\ a.end >= b.end))
    BY <1>7, <1>9 DEF AsGood
  <2>2. /\ a.epoch \in Epoch \cup {0} /\ a.end \in Int
        /\ b.epoch \in Epoch \cup {0} /\ b.end \in Int
    BY <1>1, <1>6, <1>7 DEF Info
  <2>3. a.epoch \in Int /\ b.epoch \in Int /\ f \in Int
    BY <2>2, Numbers
  <2>4. a.epoch >= f
    BY <1>1, <1>6, <2>1, <2>3
  <2>5. ASSUME c.op = "journal", a.epoch = f PROVE a.end >= c.end
    <3>1. b.epoch = f /\ a.end >= b.end /\ b.end >= c.end
      BY <1>6, <2>1, <2>3, <2>5
    <3>2. QED BY <1>3, <2>2, <3>1
  <2>6. QED BY <2>3, <2>4, <2>5
<1>10. QED BY <1>8, <1>9

LEMMA BestRespects ==
  ASSUME QInv, NEW e, NEW s, NEW Q, NEW best, Recovers(e, s, Q, best),
         NEW f \in Epoch, f < e, NEW i \in 1..Sent(f), IsVote(f, i),
         calls[f][i].s = s
  PROVE  Respects(calls[f][i], answers[e][1][best].end) \/ Blocked(f, i)
<1> SUFFICES ASSUME ~Blocked(f, i)
             PROVE  Respects(calls[f][i], answers[e][1][best].end)
  OBVIOUS
<1> DEFINE a == answers[e][1][best]
           c == calls[f][i]
           y == a.end
<1>1. /\ QTypeOK /\ WritersOk /\ c.op \in {"journal", "accept"} /\ s \in Txid
  BY RecoversTypes DEF Recovers, IsVote
<1>2. ~Restarted(f, s)
  BY <1>1 DEF WritersOk, RestartBlocks
<1>3. CASE a.finalized
  <2>1. PICK b \in Epoch : FinalizeSent(b, s, y)
    BY <1>3, BestIsOf
  <2>2. QED BY <1>1, <2>1, FinalizeRespects
<1>4. CASE ~a.finalized
  <2> DEFINE b == a.epoch
  <2>1. /\ b \in Epoch
        /\ \/ AcceptSent(b, s, y)
           \/ Started(b, s) /\ (y = s \/ Journaled(b, s, y))
    BY <1>4, BestIsOf
  <2>2. b >= f /\ (c.op = "journal" /\ b = f => y >= c.end)
    BY <1>4, VoteIsReported
  <2>3. CASE b = f
    <3>1. CASE c.op = "journal"
      BY <2>2, <2>3, <3>1 DEF Respects
    <3>2. CASE c.op = "accept"
      <4>1. IsCall(f, i, "accept", s)
        BY <3>2 DEF IsCall
      <4>2. /\ i = 2
            /\ \A j \in 1..Sent(f) : calls[f][j].s = s =>
                 j = 2 \/ calls[f][j].op \in {"prepare", "finalize"}
        BY <1>1, <4>1, AcceptAlone
      <4>3. ~Started(f, s)
        BY <3>2, <4>2 DEF Started, IsCall
      <4>4. PICK k \in 1..Sent(f) : IsCall(f, k, "accept", s) /\ calls[f][k].end = y
        BY <2>1, <2>3, <4>3 DEF AcceptSent
      <4>5. k = 2
        BY <1>1, <4>4, AcceptAlone
      <4>6. QED BY <3>2, <4>2, <4>4, <4>5 DEF Respects
    <3>3. QED BY <1>1, <3>1, <3>2
  <2>4. CASE b > f
    <3>1. ~Started(b, s)
      BY <1>2, <2>1, <2>4 DEF Restarted
    <3>2. PICK k \in 1..Sent(b) : IsCall(b, k, "accept", s) /\ calls[b][k].end = y
      BY <2>1, <3>1 DEF AcceptSent
    <3>3. QED BY <1>1, <2>1, <2>4, <3>2 DEF WritersOk, AcceptSafe
  <2>5. QED BY <2>1, <2>2, <2>3, <2>4, Numbers
<1>5. QED BY <1>3, <1>4

\* The best log was written to its end, and by a writer whom no later one
\* outvoted.
LEMMA BestWasWritten ==
  ASSUME QInv, NEW e, NEW s, NEW Q, NEW best, Recovers(e, s, Q, best),
         answers[e][1][best].end > s
  PROVE  \E d \in Epoch :
           /\ d < e /\ Journaled(d, s, answers[e][1][best].end)
           /\ \A g \in Epoch : \A i \in 1..Sent(g) :
                d < g /\ g < e /\ IsCall(g, i, "journal", s) => Blocked(g, i)
<1> DEFINE a == answers[e][1][best]
           y == a.end
<1>1. QTypeOK /\ WritersOk /\ s \in Txid /\ e \in Epoch /\ y \in Txid
  BY RecoversTypes, BestIsLog DEF Recovers

<1>2. ASSUME NEW b \in Epoch, b < e,
             \A g \in Epoch : \A i \in 1..Sent(g) :
               b < g /\ g < e /\ IsCall(g, i, "journal", s) => Blocked(g, i),
             Journaled(b, s, y) \/ AcceptSent(b, s, y)
      PROVE  \E d \in Epoch :
               /\ d < e /\ Journaled(d, s, y)
               /\ \A g \in Epoch : \A i \in 1..Sent(g) :
                    d < g /\ g < e /\ IsCall(g, i, "journal", s) => Blocked(g, i)
  <2>1. CASE Journaled(b, s, y)
    BY <1>2, <2>1
  <2>2. CASE AcceptSent(b, s, y)
    <3>1. PICK d \in Epoch :
            /\ d < b /\ Journaled(d, s, y)
            /\ \A g \in Epoch : \A i \in 1..Sent(g) :
                 d < g /\ g < b /\ IsCall(g, i, "journal", s) => Blocked(g, i)
      BY <1>1, <2>2 DEF WritersOk, AcceptWritten
    <3>2. ASSUME NEW i \in 1..Sent(b) PROVE ~IsCall(b, i, "journal", s)
      <4>1. PICK k \in 1..Sent(b) : IsCall(b, k, "accept", s)
        BY <2>2 DEF AcceptSent
      <4>2. calls[b][i].s = s => i = k \/ calls[b][i].op \in {"prepare", "finalize"}
        BY <1>1, <4>1, AcceptAlone
      <4>3. QED BY <4>1, <4>2 DEF IsCall
    <3>3. ASSUME NEW g \in Epoch, NEW i \in 1..Sent(g),
                 d < g, g < e, IsCall(g, i, "journal", s)
          PROVE  Blocked(g, i)
      <4>1. CASE g < b
        BY <3>1, <3>3, <4>1
      <4>2. CASE g > b
        BY <1>2, <3>3, <4>2
      <4>3. CASE g = b
        BY <3>2, <3>3, <4>3
      <4>4. QED BY <4>1, <4>2, <4>3, Numbers
    <3>4. d < e
      BY <1>1, <1>2, <3>1, Numbers
    <3>5. QED BY <3>1, <3>3, <3>4
  <2>3. QED BY <1>2, <2>1, <2>2
<1>3. CASE a.finalized
  <2>1. PICK b \in Epoch : b < e /\ FinalizeSent(b, s, y)
    BY <1>3, BestIsOf
  <2>2. ~Restarted(b, s)
    BY <1>1, <2>1, FinalizeVoted
  <2>3. PICK k \in 1..Sent(b) : /\ calls[b][k].s = s /\ calls[b][k].end = y
                                /\ calls[b][k].op \in {"journal", "accept"}
    BY <1>1, <2>1, FinalizeVoted
  <2>4. Journaled(b, s, y) \/ AcceptSent(b, s, y)
    BY <2>3 DEF Journaled, AcceptSent, IsCall
  <2>5. ASSUME NEW g \in Epoch, NEW i \in 1..Sent(g), b < g, IsCall(g, i, "journal", s)
        PROVE  FALSE
    <3>1. Journaled(g, s, calls[g][i].end)
      BY <2>5 DEF Journaled
    <3>2. QED BY <1>1, <2>2, <2>5, <3>1, JournalStarted DEF Restarted
  <2>6. QED BY <1>2, <2>1, <2>4, <2>5
<1>4. CASE ~a.finalized
  <2> DEFINE b == a.epoch
  <2>1. /\ b \in Epoch /\ b < e
        /\ \/ AcceptSent(b, s, y)
           \/ Started(b, s) /\ (y = s \/ Journaled(b, s, y))
    BY <1>4, BestIsOf
  <2>2. y # s
    BY <1>1, Numbers
  <2>3. ASSUME NEW g \in Epoch, NEW i \in 1..Sent(g),
               b < g, g < e, IsCall(g, i, "journal", s)
        PROVE  Blocked(g, i)
    <3>1. IsVote(g, i) /\ calls[g][i].s = s
      BY <2>3 DEF IsVote, IsCall
    <3>2. ~Blocked(g, i) => b >= g
      BY <1>4, <2>3, <3>1, VoteIsReported
    <3>3. QED BY <2>1, <2>3, <3>2, Numbers
  <2>4. QED BY <1>2, <2>1, <2>2, <2>3
<1>5. QED BY <1>3, <1>4

-----------------------------------------------------------------------------
(* A writer sends a call *)

\* d is sent as the next call of the writer of epoch e.
Sends(e, d) ==
  /\ e \in Epoch /\ d \in Call /\ Sent(e) < MaxSerial
  /\ IF Sent(e) = 0 THEN First(e, d) ELSE Follows(e, Sent(e), d)
  /\ calls' = [calls EXCEPT ![e] = Append(@, d)]
  /\ UNCHANGED <<vars, begun, answers, lost, crashes>>

LEMMA SendResult ==
  ASSUME QTypeOK, NEW e, NEW d, Sends(e, d)
  PROVE  /\ Sent(e)' = Sent(e) + 1 /\ calls'[e][Sent(e) + 1] = d
         /\ Sent(e) \in Nat /\ Sent(e) + 1 \in Serial
         /\ \A i \in 1..Sent(e) : calls'[e][i] = calls[e][i]
         /\ \A f \in Epoch : f # e => calls'[f] = calls[f] /\ Sent(f)' = Sent(f)
         /\ QTypeOK' /\ Grows
<1>1. /\ e \in Epoch /\ d \in Call /\ Sent(e) < MaxSerial
      /\ calls' = [calls EXCEPT ![e] = Append(@, d)]
      /\ answers' = answers /\ lost' = lost /\ promised' = promised
  BY DEF Sends, vars, disk
<1>2. calls[e] \in Seq(Call) /\ Sent(e) \in Nat /\ calls \in [Epoch -> Seq(Call)]
  BY <1>1, CallType DEF QTypeOK
<1>3. calls'[e] = Append(calls[e], d)
  BY <1>1, <1>2
<1>4. /\ Len(calls'[e]) = Len(calls[e]) + 1
      /\ calls'[e][Len(calls[e]) + 1] = d
      /\ \A i \in 1..Len(calls[e]) : calls'[e][i] = calls[e][i]
      /\ calls'[e] \in Seq(Call)
  BY <1>1, <1>2, <1>3, AppendProperties
<1>5. /\ Sent(e)' = Sent(e) + 1 /\ calls'[e][Sent(e) + 1] = d
      /\ \A i \in 1..Sent(e) : calls'[e][i] = calls[e][i]
  BY <1>4 DEF Sent
<1>6. Sent(e) + 1 \in Serial
  BY <1>1, <1>2, BoundsAssumption DEF Serial
<1>7. \A f \in Epoch : f # e => calls'[f] = calls[f]
  BY <1>1, <1>2
<1>8. \A f \in Epoch : f # e => Sent(f)' = Sent(f)
  BY <1>7 DEF Sent
<1>9. calls' \in [Epoch -> Seq(Call)]
  BY <1>1, <1>2, <1>4
<1>10. \A f \in Epoch : Sent(f)' <= MaxSerial
  <2>1. Sent(e) + 1 <= MaxSerial
    BY <1>1, <1>2, BoundsAssumption
  <2>2. QED BY <1>5, <1>8, <2>1, CallType
<1>11. QTypeOK'
  BY <1>1, <1>9, <1>10 DEF QTypeOK
<1>12. \A f \in Epoch : /\ Sent(f)' \in Nat /\ Sent(f) <= Sent(f)'
                        /\ \A i \in 1..Sent(f) : calls'[f][i] = calls[f][i]
  BY <1>2, <1>5, <1>7, <1>8, CallType
<1>13. Grows
  BY <1>1, <1>12 DEF Grows, Ans, Shut
<1>14. QED BY <1>2, <1>5, <1>6, <1>7, <1>8, <1>11, <1>13

\* The calls after the step are those before it and d.
LEMMA SendCalls ==
  ASSUME QTypeOK, NEW e, NEW d, Sends(e, d)
  PROVE  /\ \A f \in Epoch : \A i \in 1..Sent(f)' :
              i \in 1..Sent(f) \/ (f = e /\ i = Sent(e) + 1)
         /\ \A f \in Epoch : \A op, s : \A i \in 1..Sent(f)' : IsCall(f, i, op, s)' =>
              \/ i \in 1..Sent(f) /\ IsCall(f, i, op, s)
              \/ f = e /\ i = Sent(e) + 1 /\ d.op = op /\ d.s = s
         /\ \A f, s : Started(f, s)' =>
              Started(f, s) \/ (f = e /\ d.op = "start" /\ d.s = s)
         /\ \A f, s, t : AcceptSent(f, s, t)' =>
              AcceptSent(f, s, t) \/ (f = e /\ d.op = "accept" /\ d.s = s /\ d.end = t)
<1>1. /\ Sent(e)' = Sent(e) + 1 /\ calls'[e][Sent(e) + 1] = d /\ Sent(e) \in Nat
      /\ \A f \in Epoch : f # e => Sent(f)' = Sent(f) /\ calls'[f] = calls[f]
      /\ \A i \in 1..Sent(e) : calls'[e][i] = calls[e][i]
  BY SendResult
<1>2. \A f \in Epoch : \A i \in 1..Sent(f)' :
        i \in 1..Sent(f) \/ (f = e /\ i = Sent(e) + 1)
  <2> SUFFICES ASSUME NEW f \in Epoch, NEW i \in 1..Sent(f)'
               PROVE  i \in 1..Sent(f) \/ (f = e /\ i = Sent(e) + 1)
    OBVIOUS
  <2>1. CASE f = e
    <3>1. i \in 1..Sent(e) + 1
      BY <1>1, <2>1
    <3>2. QED BY <1>1, <2>1, <3>1
  <2>2. CASE f # e
    BY <1>1, <2>2
  <2>3. QED BY <2>1, <2>2
<1>3. \A f \in Epoch : \A i \in 1..Sent(f) : calls'[f][i] = calls[f][i]
  BY <1>1
<1>4. ASSUME NEW f \in Epoch, NEW op, NEW s, NEW i \in 1..Sent(f)', IsCall(f, i, op, s)'
      PROVE  \/ i \in 1..Sent(f) /\ IsCall(f, i, op, s)
             \/ f = e /\ i = Sent(e) + 1 /\ d.op = op /\ d.s = s
  <2>1. CASE i \in 1..Sent(f)
    <3>1. calls'[f][i].op = op /\ calls'[f][i].s = s
      BY <1>4 DEF IsCall
    <3>2. QED BY <1>3, <2>1, <3>1 DEF IsCall
  <2>2. CASE f = e /\ i = Sent(e) + 1
    <3>1. calls'[f][i].op = op /\ calls'[f][i].s = s
      BY <1>4 DEF IsCall
    <3>2. QED BY <1>1, <2>2, <3>1
  <2>3. QED BY <1>2, <2>1, <2>2
<1>5. \A f, s : Started(f, s)' =>
        Started(f, s) \/ (f = e /\ d.op = "start" /\ d.s = s)
  BY <1>4 DEF Started
<1>6. ASSUME NEW f, NEW s, NEW t, AcceptSent(f, s, t)'
      PROVE  AcceptSent(f, s, t) \/ (f = e /\ d.op = "accept" /\ d.s = s /\ d.end = t)
  <2>1. PICK i \in 1..Sent(f)' : /\ f \in Epoch /\ IsCall(f, i, "accept", s)'
                                 /\ calls'[f][i].end = t
    BY <1>6 DEF AcceptSent
  <2>2. CASE i \in 1..Sent(f) /\ IsCall(f, i, "accept", s)
    BY <1>3, <2>1, <2>2 DEF AcceptSent
  <2>3. CASE f = e /\ i = Sent(e) + 1 /\ d.op = "accept" /\ d.s = s
    BY <1>1, <2>1, <2>3
  <2>4. QED BY <1>4, <2>1, <2>2, <2>3
<1>7. QED BY <1>2, <1>4, <1>5, <1>6

\* d comes after p, and after what comes before p.
LEMMA LaterNext ==
  ASSUME NEW p \in Call, NEW d \in Call,
         p.op = "finalize" => p.s <= p.end,
         d.op # "prepare",
         d.op = "accept" => p.op = "prepare" /\ d.s = p.s,
         d.op = "start" => \/ p.op = "prepare" /\ d.s = p.s
                           \/ p.op = "finalize" /\ d.s = p.end + 1,
         d.op = "finalize" => p.op \in {"accept", "journal"} /\ d.s = p.s /\ d.end = p.end,
         d.op = "journal" => \/ p.op = "start" /\ d.s = p.s /\ d.end = d.s
                             \/ p.op = "journal" /\ d.s = p.s /\ d.end = p.end + 1
  PROVE  /\ Later(p, d)
         /\ \A c \in Call : Later(c, p) /\ p.op # "prepare" => Later(c, d)
<1>1. /\ p.op \in Op /\ p.s \in Int /\ p.end \in Int
      /\ d.op \in Op /\ d.s \in Int /\ d.end \in Int
  BY Numbers DEF Call
<1>2. Later(p, d)
  <2>1. CASE d.op = "accept"
    BY <1>1, <2>1 DEF Later
  <2>2. CASE d.op = "start"
    BY <1>1, <2>2 DEF Later
  <2>3. CASE d.op = "finalize"
    BY <1>1, <2>3 DEF Later
  <2>4. CASE d.op = "journal"
    BY <1>1, <2>4 DEF Later
  <2>5. QED BY <1>1, <2>1, <2>2, <2>3, <2>4 DEF Op
<1>3. ASSUME NEW c \in Call, Later(c, p), p.op # "prepare"
      PROVE  Later(c, d)
  <2>1. c.op \in Op /\ c.s \in Int /\ c.end \in Int
    BY Numbers DEF Call
  <2>2. CASE d.op = "start"
    BY <1>1, <1>3, <2>1, <2>2 DEF Later
  <2>3. CASE d.op = "finalize"
    BY <1>1, <1>3, <2>1, <2>3 DEF Later
  <2>4. CASE d.op = "journal"
    BY <1>1, <1>3, <2>1, <2>4 DEF Later
  <2>5. QED BY <1>1, <1>3, <2>2, <2>3, <2>4 DEF Op
<1>4. QED BY <1>2, <1>3

LEMMA SendIsLater ==
  ASSUME QTypeOK, WritersOk, NEW e \in Epoch, NEW d \in Call,
         NEW k \in 1..Sent(e), k = Sent(e), Follows(e, k, d),
         NEW i \in 1..k
  PROVE  Later(calls[e][i], d)
<1> DEFINE p == calls[e][k]
           c == calls[e][i]
<1>1. /\ CallsOk(e) /\ Sent(e) \in Nat /\ k \in Int /\ i \in 1..Sent(e) /\ i \in Int
      /\ p \in Call /\ c \in Call
  BY CallType DEF WritersOk
<1>2. p.op = "finalize" => p.s <= p.end
  <2>1. ASSUME p.op = "finalize" PROVE p.s <= p.end
    <3>1. FinalizeSent(e, p.s, p.end)
      BY <2>1 DEF FinalizeSent, IsCall
    <3>2. QED BY <3>1, FinalizeVoted
  <2>2. QED BY <2>1
<1>3. /\ Later(p, d)
      /\ \A x \in Call : Later(x, p) /\ p.op # "prepare" => Later(x, d)
  <2>1. /\ d.op # "prepare"
        /\ d.op = "accept" => p.op = "prepare" /\ d.s = p.s
        /\ d.op = "start" => \/ p.op = "prepare" /\ d.s = p.s
                             \/ p.op = "finalize" /\ d.s = p.end + 1
        /\ d.op = "finalize" => p.op \in {"accept", "journal"} /\ d.s = p.s /\ d.end = p.end
        /\ d.op = "journal" => \/ p.op = "start" /\ d.s = p.s /\ d.end = d.s
                               \/ p.op = "journal" /\ d.s = p.s /\ d.end = p.end + 1
    BY DEF Follows
  <2> HIDE DEF p
  <2>2. QED BY <1>1, <1>2, <2>1, LaterNext
<1>4. CASE i = k
  BY <1>3, <1>4
<1>5. CASE i # k
  <2>1. i < k /\ k \in 2..Sent(e)
    BY <1>1, <1>5
  <2>2. Later(c, p)
    BY <1>1, <2>1 DEF CallsOk
  <2>3. p.op # "prepare"
    BY <1>1, <2>1 DEF CallsOk, Follows
  <2>4. QED BY <1>1, <1>3, <2>2, <2>3
<1>6. QED BY <1>4, <1>5

LEMMA SendCallsOk ==
  ASSUME QTypeOK, WritersOk, NEW e, NEW d, Sends(e, d)
  PROVE  \A f \in Epoch : CallsOk(f)'
<1> DEFINE k == Sent(e) + 1
<1>1. /\ Sent(e)' = k /\ calls'[e][k] = d /\ Sent(e) \in Nat /\ Grows
      /\ e \in Epoch /\ d \in Call /\ k \in Int
      /\ \A i \in 1..Sent(e) : calls'[e][i] = calls[e][i]
      /\ \A f \in Epoch : f # e => Sent(f)' = Sent(f)
  <2>1. Sends(e, d) /\ e \in Epoch /\ d \in Call
    BY DEF Sends
  <2>2. /\ Sent(e)' = k /\ calls'[e][k] = d /\ Sent(e) \in Nat /\ Grows
        /\ \A i \in 1..Sent(e) : calls'[e][i] = calls[e][i]
        /\ \A f \in Epoch : f # e => Sent(f)' = Sent(f)
    BY <2>1, SendResult
  <2>3. QED BY <2>1, <2>2
<1>2. \A f \in Epoch : f # e => CallsOk(f)'
  BY <1>1, CallsOkStays DEF WritersOk
<1>3. CallsOk(e)
  BY <1>1 DEF WritersOk
<1>4. First(e, calls[e][1])'
  <2>1. CASE Sent(e) = 0
    <3>1. First(e, d)'
      BY <1>1, <2>1, FirstStays DEF Sends
    <3>2. calls'[e][1] = d
      BY <1>1, <2>1
    <3>3. QED BY <3>1, <3>2
  <2>2. CASE Sent(e) # 0
    <3>1. Sent(e) >= 1 /\ calls'[e][1] = calls[e][1]
      BY <1>1, <2>2
    <3>2. \A c : c = calls[e][1] => First(e, c)'
      BY <1>1, <1>3, <3>1, FirstStays DEF CallsOk
    <3>3. QED BY <3>1, <3>2
  <2>3. QED BY <2>1, <2>2
<1>5. ASSUME NEW i \in 2..k PROVE Follows(e, i - 1, calls[e][i])'
  <2>1. i \in Int /\ i - 1 \in 1..Sent(e)
    BY <1>1
  <2>2. CASE i = k
    <3>1. i - 1 = Sent(e) /\ Sent(e) # 0
      BY <1>1, <2>1, <2>2
    <3>2. Follows(e, i - 1, d)
      BY <3>1 DEF Sends
    <3>3. Follows(e, i - 1, d)'
      BY <1>1, <2>1, <3>2, FollowsStays
    <3>4. calls'[e][i] = d
      BY <1>1, <2>2
    <3>5. QED BY <3>3, <3>4
  <2>3. CASE i # k
    <3>1. i \in 2..Sent(e) /\ calls'[e][i] = calls[e][i]
      BY <1>1, <2>1, <2>3
    <3>2. \A c : c = calls[e][i] => Follows(e, i - 1, c)'
      BY <1>1, <1>3, <2>1, <3>1, FollowsStays DEF CallsOk
    <3>3. QED BY <3>1, <3>2
  <2>4. QED BY <2>2, <2>3
<1>6. ASSUME NEW i \in 1..k, NEW j \in 1..k, i < j
      PROVE  Later(calls[e][i], calls[e][j])'
  <2>1. i \in 1..Sent(e) /\ calls'[e][i] = calls[e][i] /\ j \in Int
    BY <1>1, <1>6
  <2>2. CASE j = k
    <3>1. Sent(e) \in 1..Sent(e) /\ Sent(e) # 0
      BY <1>1, <2>1
    <3>2. Follows(e, Sent(e), d)
      BY <3>1 DEF Sends
    <3>3. Later(calls[e][i], d)
      BY <1>1, <2>1, <3>1, <3>2, SendIsLater
    <3>4. Later(calls'[e][i], calls'[e][j])
      BY <1>1, <2>1, <2>2, <3>3
    <3>5. QED BY <3>4 DEF Later
  <2>3. CASE j # k
    <3>1. j \in 1..Sent(e) /\ calls'[e][j] = calls[e][j]
      BY <1>1, <2>1, <2>3
    <3>2. Later(calls[e][i], calls[e][j])
      BY <1>3, <1>6, <2>1, <3>1 DEF CallsOk
    <3>3. Later(calls'[e][i], calls'[e][j])
      BY <2>1, <3>1, <3>2
    <3>4. QED BY <3>3 DEF Later
  <2>4. QED BY <2>2, <2>3
<1>7. ASSUME NEW j \in 1..k PROVE StartedBefore(e, j)'
  <2>1. j \in Int
    BY <1>1
  <2>2. CASE j # k
    <3>1. j \in 1..Sent(e)
      BY <1>1, <2>1, <2>2
    <3>2. QED BY <1>1, <1>3, <3>1, StartedBeforeStays DEF CallsOk
  <2>3. CASE j = k /\ d.op = "journal"
    <3>1. Sent(e) # 0
      BY <2>3 DEF Sends, First
    <3>2. Sent(e) \in 1..Sent(e) /\ calls'[e][j] = d
      BY <1>1, <2>3, <3>1
    <3>3. Follows(e, Sent(e), d)
      BY <3>1 DEF Sends
    <3> DEFINE p == calls[e][Sent(e)]
    <3>4. \/ p.op = "start" /\ d.s = p.s /\ d.end = d.s
          \/ p.op = "journal" /\ d.s = p.s /\ d.end = p.end + 1
      BY <2>3, <3>3 DEF Follows
    <3>5. p.s \in Int /\ p.end \in Int /\ StartedBefore(e, Sent(e))
      BY <1>1, <1>3, <3>2, CallType, Numbers DEF CallsOk
    <3>6. d.end >= d.s
      BY <3>4, <3>5 DEF StartedBefore
    <3>7. \E i \in 1..Sent(e) : IsCall(e, i, "start", d.s)
      BY <3>2, <3>4, <3>5 DEF StartedBefore, IsCall
    <3>8. PICK i \in 1..Sent(e) : IsCall(e, i, "start", d.s)
      BY <3>7
    <3>9. i \in 1..Sent(e)' /\ IsCall(e, i, "start", d.s)' /\ i < j
      BY <1>1, <2>3, <3>8, CallStays
    <3>10. QED BY <3>2, <3>6, <3>9 DEF StartedBefore
  <2>4. CASE j = k /\ d.op # "journal"
    BY <1>1, <2>4 DEF StartedBefore
  <2>5. QED BY <2>2, <2>3, <2>4
<1>8. CallsOk(e)'
  <2>1. \A i \in 2..Sent(e)' : Follows(e, i - 1, calls[e][i])'
    BY <1>1, <1>5
  <2>2. \A i, j \in 1..Sent(e)' : i < j => Later(calls[e][i], calls[e][j])'
    BY <1>1, <1>6
  <2>3. \A j \in 1..Sent(e)' : StartedBefore(e, j)'
    BY <1>1, <1>7
  <2>4. QED BY <1>4, <2>1, <2>2, <2>3 DEF CallsOk
<1>9. QED BY <1>2, <1>8

\* Who begins a segment anew has found that no vote on it can be heard.
LEMMA StartBlocks ==
  ASSUME QInv, NEW e, NEW d, Sends(e, d), d.op = "start",
         NEW f \in Epoch, f < e, NEW i \in 1..Sent(f), IsVote(f, i),
         calls[f][i].s = d.s
  PROVE  Blocked(f, i)
<1> DEFINE c == calls[f][i]
           s == d.s
<1>1. /\ QTypeOK /\ WritersOk /\ e \in Epoch /\ d \in Call /\ Sent(e) \in Nat
      /\ CallsOk(e) /\ i \in Serial /\ i > 0 /\ s \in Txid /\ 0 \in Serial
      /\ c.op \in {"journal", "accept", "finalize"}
  BY CallType, Numbers, BoundsAssumption DEF QInv, WritersOk, Sends, Call, IsVote, Serial
<1>2. SUFFICES ASSUME ~Blocked(f, i) PROVE FALSE
  OBVIOUS
<1>3. ~Restarted(f, s)
  BY <1>1, <1>2 DEF WritersOk, RestartBlocks
<1>4. ASSUME NEW m \in Int, m < s, NEW Q \in Quorum, Answered(e, 0, Q),
             \A n \in Q : answers[e][0][n].latest <= m
      PROVE  FALSE
  <2>1. PICK n \in Node : n \in Q /\ Ans(f, i, n) /\ Ans(e, 0, n)
    BY <1>1, <1>2, <1>4, VoteIsHeard
  <2>2. LatestShows(n, f, i, e)
    BY <1>1, <2>1 DEF QInv, AnswersOk, AnsweredOk
  <2>3. answers[e][0][n].latest >= s
    BY <1>3, <2>1, <2>2 DEF LatestShows
  <2>4. answers[e][0][n].latest \in Int
    <3>1. answers[e][0][n] \in {NoAnswer} \cup Latest /\ answers[e][0][n].answered
      BY <1>1, <2>1 DEF QTypeOK, Ans
    <3>2. answers[e][0][n] \in Latest
      BY <3>1 DEF NoAnswer
    <3>3. QED BY <3>2, Numbers DEF Latest
  <2>5. answers[e][0][n].latest <= m
    BY <1>4, <2>1
  <2>6. QED BY <1>1, <1>4, <2>3, <2>4, <2>5, Numbers
<1>5. ASSUME IsCall(e, 1, "prepare", s), NothingFound(e), 1 \in Serial
      PROVE  FALSE
  <2>1. PICK Q \in Quorum : Answered(e, 1, Q) /\ \A n \in Q : ~answers[e][1][n].exists
    BY <1>5 DEF NothingFound
  <2>2. PICK n \in Node : n \in Q /\ Ans(f, i, n) /\ Ans(e, 1, n)
    BY <1>1, <1>2, <1>5, <2>1, VoteIsHeard
  <2>3. InfoShows(n, f, i, e)
    BY <1>1, <2>2 DEF QInv, AnswersOk, AnsweredOk
  <2>4. QED BY <1>3, <1>5, <2>1, <2>2, <2>3 DEF InfoShows
<1>6. CASE Sent(e) = 0
  <2>1. First(e, d)
    BY <1>6 DEF Sends
  <2>2. PICK Q \in Quorum : Answered(e, 0, Q) /\ \A n \in Q : answers[e][0][n].latest <= 0
    BY <2>1 DEF First
  <2>3. QED BY <1>1, <1>4, <2>2, Numbers
<1>7. CASE Sent(e) # 0
  <2> DEFINE k == Sent(e)
             p == calls[e][k]
  <2>1. k \in 1..Sent(e) /\ 1 \in 1..Sent(e) /\ Follows(e, k, d)
    BY <1>1, <1>7 DEF Sends
  <2>2. \/ k = 1 /\ p.op = "prepare" /\ s = p.s /\ NothingFound(e)
        \/ p.op = "finalize" /\ s = p.end + 1
    BY <2>1 DEF Follows
  <2>3. CASE k = 1 /\ p.op = "prepare" /\ s = p.s /\ NothingFound(e)
    BY <1>1, <1>5, <2>1, <2>3, CallType DEF IsCall
  <2>4. CASE p.op = "finalize" /\ s = p.end + 1
    <3>1. First(e, calls[e][1])
      BY <1>1, <2>1 DEF CallsOk
    <3> DEFINE m == IF calls[e][1].op = "start" THEN 0 ELSE calls[e][1].s
    <3>2. PICK Q \in Quorum : Answered(e, 0, Q) /\ \A n \in Q : answers[e][0][n].latest <= m
      BY <3>1 DEF First
    <3>3. FinalizeSent(e, p.s, p.end)
      BY <1>1, <2>1, <2>4 DEF FinalizeSent, IsCall
    <3>4. p.s \in Int /\ p.end \in Int /\ p.s <= p.end
      BY <1>1, <3>3, FinalizeVoted, Numbers
    <3>5. k # 1
      BY <1>1, <2>4, <3>1 DEF First
    <3>6. Later(calls[e][1], p)
      BY <1>1, <2>1, <3>5 DEF CallsOk
    <3>7. calls[e][1].s <= p.s /\ calls[e][1].s \in Int /\ calls[e][1].s >= 1
      BY <1>1, <2>1, <3>6, CallType, Numbers DEF Later
    <3>8. m \in Int /\ m < s
      BY <2>4, <3>4, <3>7
    <3>9. QED BY <1>4, <3>2, <3>8
  <2>5. QED BY <2>2, <2>3, <2>4
<1>8. QED BY <1>6, <1>7

LEMMA StartedMeansSent ==
  ASSUME QTypeOK, NEW e \in Epoch, NEW i \in 1..Sent(e)
  PROVE  Sent(e) >= 1
BY CallType

\* What the new call is to votes, restarts and recoveries of other writers.
LEMMA SendFacts ==
  ASSUME QInv, NEW e, NEW d, Sends(e, d)
  PROVE  /\ QTypeOK /\ WritersOk /\ Grows /\ e \in Epoch /\ d \in Call
         /\ Sent(e) + 1 \in Serial /\ Sent(e) + 1 > Sent(e)
         /\ calls'[e][Sent(e) + 1] = d
         /\ \A f \in Epoch : \A i \in 1..Sent(f)' :
              \/ /\ i \in 1..Sent(f) /\ i \in Serial /\ calls'[f][i] = calls[f][i]
                 /\ IsVote(f, i)' <=> IsVote(f, i)
              \/ f = e /\ i = Sent(e) + 1
         /\ \A g \in Epoch, i \in Serial :
              e < g /\ Sent(g) >= 1 /\ i = Sent(e) + 1 => Blocked(e, i)'
<1> DEFINE k == Sent(e) + 1
<1>1. /\ QTypeOK /\ WritersOk /\ e \in Epoch /\ d \in Call
  BY DEF QInv, Sends
<1>2. /\ Grows /\ Sent(e) \in Nat /\ k \in Serial /\ calls'[e][k] = d
  BY <1>1, SendResult
<1>3. k > Sent(e)
  BY <1>2
<1>4. ASSUME NEW f \in Epoch, NEW i \in 1..Sent(f)'
      PROVE  \/ /\ i \in 1..Sent(f) /\ i \in Serial /\ calls'[f][i] = calls[f][i]
                /\ IsVote(f, i)' <=> IsVote(f, i)
             \/ f = e /\ i = k
  <2>1. i \in 1..Sent(f) \/ (f = e /\ i = k)
    BY <1>1, SendCalls
  <2>2. CASE i \in 1..Sent(f)
    BY <1>1, <1>2, <2>2, CallStays, CallType
  <2>3. QED BY <2>1, <2>2
<1>5. ASSUME NEW g \in Epoch, NEW i \in Serial, e < g, Sent(g) >= 1, i = k
      PROVE  Blocked(e, i)'
  <2>1. Blocked(e, i)
    BY <1>1, <1>3, <1>5, NewCallBlocked
  <2>2. QED BY <1>1, <1>2, <2>1, AnswersStay
<1>6. QED BY <1>1, <1>2, <1>3, <1>4, <1>5

LEMMA SendRestartBlocks ==
  ASSUME QInv, NEW e, NEW d, Sends(e, d)
  PROVE  RestartBlocks'
<1> DEFINE k == Sent(e) + 1
<1> SUFFICES ASSUME NEW f \in Epoch, NEW i \in 1..Sent(f)', IsVote(f, i)',
                    Restarted(f, calls[f][i].s)'
             PROVE  Blocked(f, i)'
  BY DEF RestartBlocks
<1>1. QTypeOK /\ WritersOk /\ Grows /\ e \in Epoch
  BY SendFacts
<1>2. PICK g \in Epoch : g > f /\ Started(g, calls[f][i].s)'
  BY DEF Restarted
<1>3. CASE f = e /\ i = k
  <2>1. Started(g, calls'[f][i].s)
    BY <1>1, <1>2, <1>3, SendCalls, Numbers
  <2>2. Sent(g) >= 1
    BY <1>1, <2>1, StartedMeansSent DEF Started
  <2>3. e < g
    BY <1>1, <1>2, <1>3, Numbers
  <2>4. i \in Serial
    BY <1>3, SendFacts
  <2>5. QED BY <1>3, <2>2, <2>3, <2>4, SendFacts
<1>4. CASE i \in 1..Sent(f) /\ i \in Serial /\ calls'[f][i] = calls[f][i] /\ IsVote(f, i)
  <2>1. CASE Started(g, calls[f][i].s)
    <3>1. Restarted(f, calls[f][i].s)
      BY <1>2, <2>1 DEF Restarted
    <3>2. Blocked(f, i)
      BY <1>1, <1>4, <3>1 DEF WritersOk, RestartBlocks
    <3>3. QED BY <1>1, <1>4, <3>2, AnswersStay
  <2>2. CASE g = e /\ d.op = "start" /\ d.s = calls[f][i].s
    <3>1. Blocked(f, i)
      BY <1>1, <1>2, <1>4, <2>2, StartBlocks, Numbers
    <3>2. QED BY <1>1, <1>4, <3>1, AnswersStay
  <2>3. Started(g, calls'[f][i].s) \/ (g = e /\ d.op = "start" /\ d.s = calls'[f][i].s)
    BY <1>1, <1>2, SendCalls
  <2>4. QED BY <1>4, <2>1, <2>2, <2>3
<1>5. QED BY <1>3, <1>4, SendFacts

\* Who sends an accept call proposes the best log it was told of.
LEMMA AcceptIsBest ==
  ASSUME QInv, NEW e, NEW d, Sends(e, d), d.op = "accept"
  PROVE  /\ Sent(e) = 1
         /\ \E Q : Recovers(e, d.s, Q, d.from) /\ answers[e][1][d.from].end = d.end
<1>1. /\ QTypeOK /\ e \in Epoch /\ d \in Call /\ Sent(e) \in Nat /\ d.s \in Txid
  BY CallType DEF QInv, Sends, Call
<1>2. Sent(e) # 0
  BY DEF Sends, First
<1>3. Follows(e, Sent(e), d)
  BY <1>2 DEF Sends
<1>4. Sent(e) = 1 /\ calls[e][1].op = "prepare" /\ d.s = calls[e][1].s /\ Proposes(e, d)
  BY <1>3 DEF Follows
<1>5. IsCall(e, 1, "prepare", d.s)
  BY <1>4 DEF IsCall
<1>6. PICK Q \in Quorum :
        /\ Answered(e, 1, Q) /\ d.from \in Q
        /\ answers[e][1][d.from].exists /\ answers[e][1][d.from].end = d.end
        /\ \A n \in Q : answers[e][1][n].exists =>
             AsGood(answers[e][1][d.from], answers[e][1][n])
  BY <1>4 DEF Proposes
<1>7. Recovers(e, d.s, Q, d.from)
  BY <1>1, <1>4, <1>5, <1>6 DEF Recovers
<1>8. QED BY <1>4, <1>6, <1>7

LEMMA SendAcceptSafe ==
  ASSUME QInv, NEW e, NEW d, Sends(e, d)
  PROVE  AcceptSafe'
<1> DEFINE k == Sent(e) + 1
<1> SUFFICES ASSUME NEW f \in Epoch, NEW g \in Epoch, f < g,
                    NEW i \in 1..Sent(f)', NEW j \in 1..Sent(g)',
                    IsVote(f, i)', IsCall(g, j, "accept", calls[f][i].s)'
             PROVE  Respects(calls'[f][i], calls'[g][j].end) \/ Blocked(f, i)'
  BY DEF AcceptSafe, Respects
<1>1. QTypeOK /\ WritersOk /\ Grows /\ e \in Epoch /\ calls'[e][k] = d
  BY SendFacts
<1>3. CASE f = e /\ i = k
  <2>1. g # e
    BY <1>1, <1>3, Numbers
  <2>2. j \in 1..Sent(g)
    BY <1>3, <2>1, SendFacts
  <2>3. Sent(g) >= 1
    BY <1>1, <2>2, StartedMeansSent
  <2>4. i \in Serial
    BY <1>3, SendFacts
  <2>5. QED BY <1>3, <2>3, <2>4, SendFacts
<1>4. CASE i \in 1..Sent(f) /\ i \in Serial /\ calls'[f][i] = calls[f][i] /\ IsVote(f, i)
  <2>1. CASE j \in 1..Sent(g) /\ calls'[g][j] = calls[g][j]
    <3>1. IsCall(g, j, "accept", calls[f][i].s)
      <4>1. calls'[g][j].op = "accept" /\ calls'[g][j].s = calls'[f][i].s
        BY DEF IsCall
      <4>2. QED BY <1>4, <2>1, <4>1 DEF IsCall
    <3>2. Respects(calls[f][i], calls[g][j].end) \/ Blocked(f, i)
      BY <1>1, <1>4, <2>1, <3>1 DEF WritersOk, AcceptSafe
    <3>3. QED BY <1>1, <1>4, <2>1, <3>2, AnswersStay
  <2>2. CASE g = e /\ j = k
    <3>1. d.op = "accept" /\ d.s = calls[f][i].s
      BY <1>1, <1>4, <2>2 DEF IsCall
    <3>2. PICK Q : Recovers(e, d.s, Q, d.from) /\ answers[e][1][d.from].end = d.end
      BY <3>1, AcceptIsBest
    <3>3. Respects(calls[f][i], d.end) \/ Blocked(f, i)
      BY <1>1, <1>4, <2>2, <3>1, <3>2, BestRespects
    <3>4. QED BY <1>1, <1>4, <2>2, <3>3, AnswersStay
  <2>3. QED BY <2>1, <2>2, SendFacts
<1>5. QED BY <1>3, <1>4, SendFacts

LEMMA SendAcceptWritten ==
  ASSUME QInv, NEW e, NEW d, Sends(e, d)
  PROVE  AcceptWritten'
<1> SUFFICES ASSUME NEW f \in Epoch, NEW s \in Txid, NEW end \in Txid,
                    AcceptSent(f, s, end)', end > s
             PROVE  \E b \in Epoch :
                      /\ b < f /\ Journaled(b, s, end)'
                      /\ \A g \in Epoch : \A i \in 1..Sent(g)' :
                           b < g /\ g < f /\ IsCall(g, i, "journal", s)' => Blocked(g, i)'
  BY DEF AcceptWritten
<1>1. QTypeOK /\ WritersOk /\ Grows /\ e \in Epoch
  BY SendFacts
<1>2. ASSUME NEW b \in Epoch, b < f, Journaled(b, s, end),
             \A g \in Epoch : \A i \in 1..Sent(g) :
               b < g /\ g < f /\ IsCall(g, i, "journal", s) => Blocked(g, i),
             \A i \in Serial : b < e /\ e < f /\ i = Sent(e) + 1 => Blocked(e, i)'
      PROVE  \E c \in Epoch :
               /\ c < f /\ Journaled(c, s, end)'
               /\ \A g \in Epoch : \A i \in 1..Sent(g)' :
                    c < g /\ g < f /\ IsCall(g, i, "journal", s)' => Blocked(g, i)'
  <2>1. Journaled(b, s, end)'
    BY <1>1, <1>2, CallsStay
  <2>2. ASSUME NEW g \in Epoch, NEW i \in 1..Sent(g)', b < g, g < f,
               IsCall(g, i, "journal", s)'
        PROVE  Blocked(g, i)'
    <3>1. CASE i \in 1..Sent(g) /\ i \in Serial /\ calls'[g][i] = calls[g][i]
      <4>1. IsCall(g, i, "journal", s)
        BY <2>2, <3>1 DEF IsCall
      <4>2. Blocked(g, i)
        BY <1>2, <2>2, <3>1, <4>1
      <4>3. QED BY <1>1, <3>1, <4>2, AnswersStay
    <3>2. CASE g = e /\ i = Sent(e) + 1
      <4>1. i \in Serial
        BY <3>2, SendFacts
      <4>2. QED BY <1>2, <2>2, <3>2, <4>1
    <3>3. QED BY <3>1, <3>2, SendFacts
  <2>3. QED BY <1>2, <2>1, <2>2
<1>3. CASE AcceptSent(f, s, end)
  <2>1. PICK b \in Epoch :
          /\ b < f /\ Journaled(b, s, end)
          /\ \A g \in Epoch : \A i \in 1..Sent(g) :
               b < g /\ g < f /\ IsCall(g, i, "journal", s) => Blocked(g, i)
    BY <1>1, <1>3 DEF WritersOk, AcceptWritten
  <2>2. Sent(f) >= 1
    BY <1>1, <1>3, StartedMeansSent DEF AcceptSent
  <2>3. \A i \in Serial : b < e /\ e < f /\ i = Sent(e) + 1 => Blocked(e, i)'
    BY <2>2, SendFacts
  <2>4. QED BY <1>2, <2>1, <2>3
<1>4. CASE f = e /\ d.op = "accept" /\ d.s = s /\ d.end = end
  <2>1. PICK Q : Recovers(e, s, Q, d.from) /\ answers[e][1][d.from].end = end
    BY <1>4, AcceptIsBest
  <2>2. PICK b \in Epoch :
          /\ b < e /\ Journaled(b, s, end)
          /\ \A g \in Epoch : \A i \in 1..Sent(g) :
               b < g /\ g < e /\ IsCall(g, i, "journal", s) => Blocked(g, i)
    BY <2>1, BestWasWritten
  <2>3. ~(e < f)
    BY <1>4, Numbers
  <2>4. QED BY <1>2, <1>4, <2>2, <2>3
<1>5. QED BY <1>1, <1>3, <1>4, SendCalls

\* The segment s is finalized before r, for a writer not later than b.
Closed(b, s, r) ==
  \E f \in Epoch : f <= b /\ \E j \in 1..Sent(f) :
     /\ IsCall(f, j, "finalize", s) /\ QuorumAnswered(f, j)
     /\ calls[f][j].end < r /\ Used(calls[f][j].end + 1)

LEMMA ChainCloses ==
  ASSUME WritersOk, NEW b \in Epoch, NEW r \in Txid, NEW s \in Txid,
         Started(b, r), Used(s), s < r
  PROVE  Closed(b, s, r)
BY DEF WritersOk, Chain, Closed

LEMMA ClosedEnd ==
  ASSUME QTypeOK, WritersOk, NEW b, NEW s, NEW r, Closed(b, s, r),
         NEW g, NEW y, FinalizeSent(g, s, y)
  PROVE  y < r /\ Used(y + 1)
<1>1. PICK f \in Epoch : \E j \in 1..Sent(f) :
        /\ IsCall(f, j, "finalize", s)
        /\ calls[f][j].end < r /\ Used(calls[f][j].end + 1)
  BY DEF Closed
<1>2. PICK j \in 1..Sent(f) :
        /\ IsCall(f, j, "finalize", s)
        /\ calls[f][j].end < r /\ Used(calls[f][j].end + 1)
  BY <1>1
<1>3. FinalizeSent(f, s, calls[f][j].end)
  BY <1>2 DEF FinalizeSent
<1>4. calls[f][j].end = y
  BY <1>3, ChosenAgree
<1>5. QED BY <1>2, <1>4

LEMMA ClosedStays ==
  ASSUME QTypeOK, Grows, NEW b, NEW s, NEW r, Closed(b, s, r)
  PROVE  Closed(b, s, r)'
<1>1. PICK f \in Epoch : f <= b /\ \E j \in 1..Sent(f) :
        /\ IsCall(f, j, "finalize", s) /\ QuorumAnswered(f, j)
        /\ calls[f][j].end < r /\ Used(calls[f][j].end + 1)
  BY DEF Closed
<1>2. PICK j \in 1..Sent(f) :
        /\ IsCall(f, j, "finalize", s) /\ QuorumAnswered(f, j)
        /\ calls[f][j].end < r /\ Used(calls[f][j].end + 1)
  BY <1>1
<1>3. j \in Serial /\ calls'[f][j] = calls[f][j] /\ j \in 1..Sent(f)' /\ IsCall(f, j, "finalize", s)'
  BY <1>2, CallType, CallStays
<1>4. QuorumAnswered(f, j)'
  BY <1>2, <1>3, AnswersStay
<1>5. \A x : Used(x) => Used(x)'
  BY CallsStay
<1>6. Used(calls[f][j].end + 1)'
  BY <1>2, <1>3, <1>5
<1>7. QED BY <1>1, <1>2, <1>3, <1>4, <1>6 DEF Closed

\* What the start call of a new segment follows.
LEMMA StartAfter ==
  ASSUME QInv, NEW e, NEW d, Sends(e, d), d.op = "start"
  PROVE  \/ d.s = 1
         \/ \E b \in Epoch : b <= e /\ Started(b, d.s)
         \/ \E j \in 1..Sent(e) : /\ calls[e][j].op = "finalize" /\ QuorumAnswered(e, j)
                                  /\ d.s = calls[e][j].end + 1
<1>1. e \in Epoch /\ Sent(e) \in Nat /\ QTypeOK
  BY CallType DEF Sends, QInv
<1>2. CASE Sent(e) = 0
  BY <1>2 DEF Sends, First
<1>3. CASE Sent(e) # 0
  <2> DEFINE k == Sent(e)
  <2>1. k \in 1..Sent(e) /\ Follows(e, k, d)
    BY <1>1, <1>3 DEF Sends
  <2>2. CASE calls[e][k].op = "prepare" /\ d.s = calls[e][k].s
    BY <1>1, <2>1, <2>2, CallIsOfUsed
  <2>3. CASE calls[e][k].op = "finalize" /\ d.s = calls[e][k].end + 1
    BY <2>1, <2>3 DEF Follows
  <2>4. QED BY <2>1, <2>2, <2>3 DEF Follows
<1>4. QED BY <1>2, <1>3

LEMMA SendChain ==
  ASSUME QInv, NEW e, NEW d, Sends(e, d)
  PROVE  Chain'
<1>1. /\ QTypeOK /\ WritersOk /\ Grows /\ e \in Epoch /\ d \in Call /\ d.s \in Txid
      /\ \A x : Used(x) => Used(x)'
      /\ \A f, x : Started(f, x) => Started(f, x)'
  BY SendFacts, CallsStay DEF Call
<1>2. \A f, x : Started(f, x)' => Started(f, x) \/ (f = e /\ d.op = "start" /\ d.s = x)
  BY <1>1, SendCalls
<1>3. \A x : Used(x)' => Used(x) \/ (d.op = "start" /\ d.s = x)
  BY <1>2 DEF Used
<1>4. \A b \in Epoch : \A x : Started(b, x) => Used(x)
  BY DEF Used
<1>5. \A x \in Txid : Used(x) => Used(1)
  BY <1>1 DEF WritersOk, Chain
\* The segment that the writer has finalized before, if any.
<1>6. ASSUME d.op = "start", d.s # 1, NEW j \in 1..Sent(e),
             calls[e][j].op = "finalize", d.s = calls[e][j].end + 1
      PROVE  /\ FinalizeSent(e, calls[e][j].s, calls[e][j].end)
             /\ calls[e][j].s \in Txid /\ calls[e][j].s \in Int /\ calls[e][j].end \in Int
             /\ calls[e][j].s <= calls[e][j].end
             /\ \E b \in Epoch : b <= e /\ Started(b, calls[e][j].s)
  <2>1. FinalizeSent(e, calls[e][j].s, calls[e][j].end)
    BY <1>1, <1>6 DEF FinalizeSent, IsCall
  <2>2. QED BY <1>1, <2>1, FinalizeVoted, CallIsOfUsed, Numbers
<1>7. d.op = "start" => d.s = 1 \/ Used(1)
  <2>1. CASE \E b \in Epoch : b <= e /\ Started(b, d.s)
    BY <1>1, <1>4, <1>5, <2>1
  <2>2. CASE d.op = "start" /\ d.s # 1
             /\ \E j \in 1..Sent(e) : /\ calls[e][j].op = "finalize"
                                      /\ d.s = calls[e][j].end + 1
    BY <1>4, <1>5, <1>6, <2>2
  <2>3. QED BY <2>1, <2>2, StartAfter
<1>8. ASSUME NEW x \in Txid, Used(x)' PROVE Used(1)'
  <2>1. CASE Used(x)
    BY <1>1, <1>5, <2>1
  <2>2. CASE d.op = "start" /\ d.s = x
    <3>1. CASE d.s = 1
      BY <1>8, <2>2, <3>1
    <3>2. CASE d.s # 1
      BY <1>1, <1>7, <2>2, <3>2
    <3>3. QED BY <3>1, <3>2
  <2>3. QED BY <1>3, <1>8, <2>1, <2>2
<1>9. ASSUME NEW b \in Epoch, NEW r \in Txid, NEW s \in Txid,
             Started(b, r)', Used(s)', s < r
      PROVE  Closed(b, s, r)'
  <2>1. CASE Started(b, r) /\ Used(s)
    BY <1>1, <1>9, <2>1, ChainCloses, ClosedStays
  <2>2. CASE b = e /\ d.op = "start" /\ d.s = r /\ Used(s)
    <3>1. r # 1
      BY <1>9, Numbers
    <3>2. CASE \E c \in Epoch : c <= e /\ Started(c, r)
      <4>1. PICK c \in Epoch : c <= e /\ Started(c, r)
        BY <3>2
      <4>2. Closed(c, s, r)
        BY <1>1, <1>9, <2>2, <4>1, ChainCloses
      <4>3. Closed(e, s, r)
        BY <1>1, <4>1, <4>2, Numbers DEF Closed
      <4>4. QED BY <1>1, <2>2, <4>3, ClosedStays
    <3>3. ASSUME NEW j \in 1..Sent(e), calls[e][j].op = "finalize",
                 QuorumAnswered(e, j), d.s = calls[e][j].end + 1
          PROVE  Closed(b, s, r)'
      <4> DEFINE q == calls[e][j].s
                 y == calls[e][j].end
      <4>1. /\ FinalizeSent(e, q, y) /\ q \in Txid /\ q \in Int /\ y \in Int /\ q <= y
            /\ \E c \in Epoch : c <= e /\ Started(c, q)
        BY <1>6, <2>2, <3>1, <3>3
      <4>2. r = y + 1 /\ s \in Int
        BY <2>2, <3>3, Numbers
      <4>3. CASE s = q
        <5>1. /\ j \in Serial /\ calls'[e][j] = calls[e][j] /\ j \in 1..Sent(e)'
              /\ IsCall(e, j, "finalize", s)'
          BY <1>1, <3>3, <4>3, CallType, CallStays DEF IsCall
        <5>2. QuorumAnswered(e, j)'
          BY <1>1, <3>3, <5>1, AnswersStay
        <5>3. calls'[e][j].end < r /\ r = calls'[e][j].end + 1
          BY <4>1, <4>2, <5>1
        <5>4. Used(r)'
          BY <1>9 DEF Used
        <5>5. Used(calls[e][j].end + 1)'
          BY <5>3, <5>4
        <5>6. e <= b
          BY <1>1, <2>2, Numbers
        <5>7. QED BY <1>1, <5>1, <5>2, <5>3, <5>5, <5>6 DEF Closed
      <4>4. CASE s < q
        <5>1. PICK c \in Epoch : c <= e /\ Started(c, q)
          BY <4>1
        <5>2. Closed(c, s, q)
          BY <1>1, <2>2, <4>1, <4>4, <5>1, ChainCloses
        <5>3. q <= r /\ q < r
          BY <4>1, <4>2
        <5>4. ASSUME NEW f \in Epoch, NEW l \in 1..Sent(f), calls[f][l].end < q
              PROVE  calls[f][l].end < r
          <6>1. calls[f][l].end \in Int
            BY <1>1, <5>4, CallType, Numbers
          <6>2. r \in Int
            BY <4>1, <4>2
          <6>3. QED BY <4>1, <5>3, <5>4, <6>1, <6>2
        <5>5. Closed(e, s, r)
          BY <1>1, <5>1, <5>2, <5>4, Numbers DEF Closed
        <5>6. QED BY <1>1, <2>2, <5>5, ClosedStays
      <4>5. CASE q < s
        <5>1. PICK c \in Epoch : Started(c, s)
          BY <2>2 DEF Used
        <5>2. Used(q)
          BY <4>1 DEF Used
        <5>3. Closed(c, q, s)
          BY <1>1, <4>1, <4>5, <5>1, <5>2, ChainCloses
        <5>4. y < s
          BY <1>1, <4>1, <5>3, ClosedEnd
        <5>5. QED BY <1>9, <4>1, <4>2, <5>4
      <4>6. QED BY <4>1, <4>2, <4>3, <4>4, <4>5
    <3>4. QED BY <2>2, <3>1, <3>2, <3>3, StartAfter
  <2>3. CASE Started(b, r) /\ ~Used(s) /\ d.op = "start" /\ d.s = s
    <3>1. Used(1) /\ s # 1
      BY <1>4, <1>5, <2>3
    <3>2. ~(\E c \in Epoch : c <= e /\ Started(c, d.s))
      BY <1>4, <2>3
    <3>3. PICK j \in 1..Sent(e) : calls[e][j].op = "finalize" /\ d.s = calls[e][j].end + 1
      BY <2>3, <3>1, <3>2, StartAfter
    <3> DEFINE q == calls[e][j].s
               y == calls[e][j].end
    <3>4. /\ FinalizeSent(e, q, y) /\ q \in Txid /\ q \in Int /\ y \in Int /\ q <= y
          /\ \E c \in Epoch : c <= e /\ Started(c, q)
      BY <1>6, <2>3, <3>1, <3>3
    <3>5. Used(q) /\ q < r
      BY <1>9, <2>3, <3>3, <3>4, Numbers DEF Used
    <3>6. Closed(b, q, r)
      BY <1>1, <2>3, <3>4, <3>5, ChainCloses
    <3>7. Used(y + 1)
      BY <1>1, <3>4, <3>6, ClosedEnd
    <3>8. QED BY <2>3, <3>3, <3>7
  <2>4. CASE b = e /\ d.op = "start" /\ d.s = r /\ d.s = s
    BY <1>9, <2>4, Numbers
  <2>5. QED BY <1>2, <1>3, <1>9, <2>1, <2>2, <2>3, <2>4
<1>10. QED BY <1>8, <1>9 DEF Chain, Closed

-----------------------------------------------------------------------------
(* What the actions of a writer send *)

LEMMA KnownCommittedType ==
  ASSUME QTypeOK, WritersOk, NEW e \in Epoch
  PROVE  KnownCommitted(e) \in Txid \cup {InvalidTxid}
<1> DEFINE mine == {i \in 1..Sent(e) : calls[e][i].op = "journal" /\ QuorumAnswered(e, i)}
<1>1. Sent(e) \in Nat /\ CallsOk(e)
  BY CallType DEF WritersOk
<1>2. ASSUME mine # {} PROVE calls[e][Max(mine)].end \in Txid
  <2>1. mine \in SUBSET (0..Sent(e))
    BY <1>1
  <2>2. Max(mine) \in mine
    BY <1>1, <1>2, <2>1, MaxIsGreatest
  <2> DEFINE j == Max(mine)
  <2>3. j \in 1..Sent(e) /\ calls[e][j].op = "journal"
    BY <2>2
  <2>4. StartedBefore(e, j)
    BY <1>1, <2>3 DEF CallsOk
  <2>5. calls[e][j].end >= calls[e][j].s
    BY <2>3, <2>4 DEF StartedBefore
  <2>6. calls[e][j].s \in Txid /\ calls[e][j].end \in 0..MaxTxid
    BY <2>3, CallType
  <2>7. QED BY <2>5, <2>6, Numbers DEF Txid
<1>3. QED BY <1>2 DEF KnownCommitted

LEMMA SendSends ==
  ASSUME QInv, NEW e \in Epoch, NEW op \in Op, NEW s \in Txid,
         NEW end \in 0..MaxTxid, NEW from \in Node \cup {NoFile},
         Send(e, op, s, end, from),
         \A c \in Call : c.op = op /\ c.s = s /\ c.end = end /\ c.from = from =>
           IF Sent(e) = 0 THEN First(e, c) ELSE Follows(e, Sent(e), c)
  PROVE  \E d : Sends(e, d)
<1> DEFINE d == [op |-> op, s |-> s, end |-> end, from |-> from,
                 committed |-> KnownCommitted(e)]
<1>1. d \in Call
  BY KnownCommittedType DEF Call, QInv
<1>2. IF Sent(e) = 0 THEN First(e, d) ELSE Follows(e, Sent(e), d)
  BY <1>1
<1>3. /\ Sent(e) < MaxSerial
      /\ calls' = [calls EXCEPT ![e] = Append(@, d)]
      /\ UNCHANGED <<vars, begun, answers, lost, crashes>>
  BY DEF Send
<1>4. Sends(e, d)
  BY <1>1, <1>2, <1>3 DEF Sends
<1>5. QED BY <1>4

LEMMA AfterNewEpochSends ==
  ASSUME QInv, NEW e \in Epoch, AfterNewEpoch(e)
  PROVE  \E d : Sends(e, d)
<1>1. Sent(e) = 0
  BY DEF AfterNewEpoch
<1>2. PICK Q \in Quorum :
        /\ Answered(e, 0, Q)
        /\ LET s == Max({answers[e][0][n].latest : n \in Q})
           IN  IF s = 0 THEN Send(e, "start", 1, 0, NoFile)
                        ELSE Send(e, "prepare", s, 0, NoFile)
  BY DEF AfterNewEpoch
<1> DEFINE S == {answers[e][0][n].latest : n \in Q}
           m == Max(S)
<1>3. Q \subseteq Node /\ Q # {}
  BY QuorumNotEmpty
<1>4. \A n \in Q : answers[e][0][n].latest \in 0..MaxTxid
  <2> SUFFICES ASSUME NEW n \in Q PROVE answers[e][0][n].latest \in 0..MaxTxid
    OBVIOUS
  <2>1. answers[e][0][n] \in {NoAnswer} \cup Latest /\ answers[e][0][n].answered
    BY <1>2, <1>3 DEF QInv, QTypeOK, Answered
  <2>2. ~NoAnswer.answered
    BY DEF NoAnswer
  <2>3. answers[e][0][n] \in Latest
    BY <2>1, <2>2
  <2>4. QED BY <2>3 DEF Latest
<1>5. m \in S /\ \A x \in S : m >= x
  <2>1. S \in SUBSET (0..MaxTxid)
    BY <1>4
  <2>2. S # {}
    BY <1>3
  <2>3. QED BY <2>1, <2>2, Numbers, MaxIsGreatest
<1>6. PICK best \in Q : answers[e][0][best].latest = m
  BY <1>5
<1>7. \A n \in Q : answers[e][0][n].latest <= m
  BY <1>4, <1>5, <1>6, Numbers
<1>8. m \in 0..MaxTxid
  BY <1>4, <1>6
<1>9. CASE m = 0
  <2>1. Send(e, "start", 1, 0, NoFile)
    BY <1>2, <1>9
  <2>2. 1 \in Txid
    BY WritersAssumption
  <2>3. \A c \in Call : c.op = "start" /\ c.s = 1 => First(e, c)
    BY <1>2, <1>6, <1>7, <1>9 DEF First
  <2>4. 0 \in 0..MaxTxid
    BY Numbers
  <2>5. QED BY <1>1, <2>1, <2>2, <2>3, <2>4, SendSends DEF Op
<1>10. CASE m # 0
  <2>1. Send(e, "prepare", m, 0, NoFile)
    BY <1>2, <1>10
  <2>2. m \in Txid
    BY <1>8, <1>10 DEF Txid
  <2>3. \A c \in Call : c.op = "prepare" /\ c.s = m => First(e, c)
    BY <1>2, <1>6, <1>7 DEF First
  <2>4. 0 \in 0..MaxTxid
    BY Numbers
  <2>5. QED BY <1>1, <2>1, <2>2, <2>3, <2>4, SendSends DEF Op
<1>11. QED BY <1>9, <1>10

LEMMA AfterPrepareSends ==
  ASSUME QInv, NEW e \in Epoch, AfterPrepare(e)
  PROVE  \E d : Sends(e, d)
<1>1. /\ Sent(e) = 1 /\ LastCall(e).op = "prepare" /\ QTypeOK /\ WritersOk
      /\ LastCall(e) = calls[e][1]
  BY DEF AfterPrepare, LastCall, QInv
<1> DEFINE s == calls[e][1].s
<1>2. s \in Txid /\ 1 \in 1..Sent(e) /\ IsCall(e, 1, "prepare", s)
  BY <1>1, CallType DEF IsCall
<1>3. PICK Q \in Quorum :
        /\ Answered(e, 1, Q)
        /\ LET having == {n \in Q : answers[e][1][n].exists}
           IN  IF having = {} THEN Send(e, "start", s, 0, NoFile)
               ELSE \E best \in having :
                      /\ \A n \in having : AsGood(answers[e][1][best], answers[e][1][n])
                      /\ Send(e, "accept", s, answers[e][1][best].end, best)
  BY <1>1 DEF AfterPrepare
<1>4. QuorumAnswered(e, 1) /\ Q \subseteq Node
  BY <1>3, QuorumNotEmpty DEF QuorumAnswered
<1>5. CASE \A n \in Q : ~answers[e][1][n].exists
  <2>1. Send(e, "start", s, 0, NoFile)
    BY <1>3, <1>5
  <2>2. NothingFound(e)
    BY <1>3, <1>5 DEF NothingFound
  <2>3. \A c \in Call : c.op = "start" /\ c.s = s => Follows(e, 1, c)
    BY <1>1, <1>4, <2>2 DEF Follows
  <2>4. 0 \in 0..MaxTxid /\ "start" \in Op
    BY Numbers DEF Op
  <2>5. QED BY <1>1, <1>2, <2>1, <2>3, <2>4, SendSends
<1>6. CASE \E n \in Q : answers[e][1][n].exists
  <2>1. PICK best \in Q :
          /\ answers[e][1][best].exists
          /\ \A n \in Q : answers[e][1][n].exists =>
               AsGood(answers[e][1][best], answers[e][1][n])
          /\ Send(e, "accept", s, answers[e][1][best].end, best)
    BY <1>3, <1>6
  <2> DEFINE y == answers[e][1][best].end
  <2>2. Recovers(e, s, Q, best)
    BY <1>1, <1>2, <1>3, <2>1 DEF Recovers
  <2>3. y \in Txid /\ y >= s
    BY <2>2, BestIsLog
  <2>4. \A c \in Call : c.op = "accept" /\ c.s = s /\ c.end = y /\ c.from = best =>
          Follows(e, 1, c)
    <3> SUFFICES ASSUME NEW c \in Call, c.op = "accept", c.s = s, c.end = y, c.from = best
                 PROVE  Follows(e, 1, c)
      OBVIOUS
    <3>1. Proposes(e, c)
      BY <1>3, <2>1 DEF Proposes
    <3>2. QED BY <1>1, <1>4, <2>3, <3>1 DEF Follows
  <2>5. y \in 0..MaxTxid /\ best \in Node \cup {NoFile} /\ "accept" \in Op
    BY <1>4, <2>3, Numbers DEF Txid, Op
  <2>6. QED BY <1>1, <1>2, <2>1, <2>4, <2>5, SendSends
<1>7. QED BY <1>5, <1>6

LEMMA ContinueSends ==
  ASSUME QInv, NEW e \in Epoch, Continue(e)
  PROVE  \E d : Sends(e, d)
<1> DEFINE k == Sent(e)
           p == calls[e][k]
<1>1. k \in 1..Sent(e) /\ k # 0 /\ QuorumAnswered(e, k) /\ QTypeOK /\ WritersOk
  BY CallType DEF Continue, QInv
<1>2. p \in Call /\ p.s \in Txid /\ p.end \in 0..MaxTxid /\ p = LastCall(e) /\ p.op \in Op
  BY <1>1, CallType DEF LastCall
<1>3. p.op = "accept" => p.end >= p.s
  <2>1. ASSUME p.op = "accept" PROVE p.end >= p.s
    <3>1. AcceptSent(e, p.s, p.end) /\ CallsOk(e)
      BY <1>1, <2>1 DEF AcceptSent, IsCall, WritersOk
    <3>2. k = 2
      BY <1>1, <2>1, AcceptAlone DEF IsCall
    <3>3. k \in 2..Sent(e) /\ k - 1 = 1
      BY <1>1, <3>2
    <3>4. Follows(e, 1, p)
      BY <3>1, <3>3 DEF CallsOk
    <3>5. QED BY <2>1, <3>4 DEF Follows
  <2>2. QED BY <2>1
<1>4. p.op = "journal" => p.end >= p.s
  BY <1>1 DEF WritersOk, CallsOk, StartedBefore
<1>5. p.op = "finalize" => p.end >= p.s
  <2>1. ASSUME p.op = "finalize" PROVE p.end >= p.s
    <3>1. FinalizeSent(e, p.s, p.end)
      BY <1>1, <2>1 DEF FinalizeSent, IsCall
    <3>2. QED BY <1>1, <1>2, <3>1, FinalizeVoted, Numbers
  <2>2. QED BY <2>1
<1>6. CASE p.op \in {"accept", "journal"} /\ Send(e, "finalize", p.s, p.end, NoFile)
  <2>1. \A c \in Call : c.op = "finalize" /\ c.s = p.s /\ c.end = p.end => Follows(e, k, c)
    BY <1>1, <1>3, <1>4, <1>6 DEF Follows
  <2>2. QED BY <1>1, <1>2, <1>6, <2>1, SendSends DEF Op
<1>7. CASE p.op = "finalize" /\ p.end < MaxTxid /\ Send(e, "start", p.end + 1, 0, NoFile)
  <2>1. \A c \in Call : c.op = "start" /\ c.s = p.end + 1 => Follows(e, k, c)
    BY <1>1, <1>7 DEF Follows
  <2>2. p.end + 1 \in Txid /\ 0 \in 0..MaxTxid
    BY <1>2, <1>7, Numbers DEF Txid
  <2>3. QED BY <1>1, <1>7, <2>1, <2>2, SendSends DEF Op
<1>8. CASE p.op = "start" /\ Send(e, "journal", p.s, p.s, NoFile)
  <2>1. \A c \in Call : c.op = "journal" /\ c.s = p.s /\ c.end = p.s => Follows(e, k, c)
    BY <1>1, <1>8 DEF Follows
  <2>2. p.s \in 0..MaxTxid
    BY <1>2, Numbers DEF Txid
  <2>3. QED BY <1>1, <1>2, <1>8, <2>1, <2>2, SendSends DEF Op
<1>9. CASE p.op = "journal" /\ p.end < MaxTxid /\ Send(e, "journal", p.s, p.end + 1, NoFile)
  <2>1. \A c \in Call : c.op = "journal" /\ c.s = p.s /\ c.end = p.end + 1 => Follows(e, k, c)
    BY <1>1, <1>9 DEF Follows
  <2>2. p.end + 1 \in 0..MaxTxid
    BY <1>2, <1>9, Numbers
  <2>3. QED BY <1>1, <1>2, <1>9, <2>1, <2>2, SendSends DEF Op
<1>10. QED BY <1>2, <1>6, <1>7, <1>8, <1>9 DEF Continue

\* A step of a writer begins its epoch or sends its next call.
LEMMA WriterSends ==
  ASSUME QInv, NEW e \in Epoch, Writer(e)
  PROVE  Begin(e) \/ \E d : Sends(e, d)
BY AfterNewEpochSends, AfterPrepareSends, ContinueSends DEF Writer

LEMMA SendWritersOk ==
  ASSUME QInv, NEW e, NEW d, Sends(e, d)
  PROVE  WritersOk'
BY SendCallsOk, SendRestartBlocks, SendAcceptSafe, SendAcceptWritten, SendChain
   DEF WritersOk, QInv
=============================================================================
