---------------------------- MODULE QuorumProofs ----------------------------
(***************************************************************************)
(* Every step of writers and nodes preserves the invariant of module       *)
(* QuorumLemmas, as long as no process ends within replaceFile; and what   *)
(* holds of module QuorumRecovery by it: that it implements                *)
(* SegmentConsensus, and that no check that ends the process fails in a    *)
(* recovery.                                                               *)
(***************************************************************************)
EXTENDS QuorumLemmas

-----------------------------------------------------------------------------
(* A step of one node *)

\* Nothing of node m changes that the invariant reads.
NodeSame(m) ==
  /\ DiskSameAt(m) /\ tmp'[m] = tmp[m] /\ ipcSerial'[m] = ipcSerial[m]
  /\ \A f \in Epoch : lost'[f][m] = lost[f][m]
  /\ \A f \in Epoch, j \in Serial : answers'[f][j][m] = answers[f][j][m]

\* What n has heard it does not hear again.
PastStays(n) ==
  \A f \in Epoch, j \in Serial : j <= Sent(f) /\ Past(n, f, j) => Past(n, f, j)'

\* A step of n, of no writer and of no other node: what it answers it hears
\* in this step, from the writer whose promise it holds.
NodeStep(n) ==
  /\ calls' = calls /\ QTypeOK' /\ IInv'
  /\ \A m \in Node \ {n} : NodeSame(m)
  /\ \A f \in Epoch : Shut(n, f) => Shut(n, f)'
  /\ PastStays(n)
  /\ \A f \in Epoch, j \in Serial :
       \/ answers'[f][j][n] = answers[f][j][n]
       \/ /\ j <= Sent(f) /\ ~Past(n, f, j)
          /\ Past(n, f, j)' /\ promised'[n] = f

LEMMA AnsweredWasHeard ==
  ASSUME QInv, NEW n \in Node, NEW e \in Epoch, NEW i \in Serial, Ans(e, i, n)
  PROVE  i <= Sent(e) /\ Past(n, e, i)
BY DEF QInv, AnswersOk, AnsweredOk

LEMMA NodeStepGrows ==
  ASSUME QInv, NEW n \in Node, NodeStep(n)
  PROVE  Grows
<1>1. \A e \in Epoch : /\ Sent(e)' \in Nat /\ Sent(e) <= Sent(e)'
                       /\ \A i \in 1..Sent(e) : calls'[e][i] = calls[e][i]
  BY CallType DEF NodeStep, Sent, QInv
<1>2. ASSUME NEW m \in Node, NEW e \in Epoch, NEW i \in Serial
      PROVE  /\ Ans(e, i, m) => answers'[e][i][m] = answers[e][i][m]
             /\ Ans(e, i, m)' /\ ~Ans(e, i, m) => ~Shut(m, e)
  <2>1. CASE m = n
    <3>1. Ans(e, i, n) => Past(n, e, i)
      BY AnsweredWasHeard
    <3>2. CASE answers'[e][i][n] = answers[e][i][n]
      BY <2>1, <3>2 DEF Ans
    <3>3. CASE ~Past(n, e, i)
      BY <2>1, <3>1, <3>3 DEF Past
    <3>4. QED BY <3>2, <3>3 DEF NodeStep
  <2>2. CASE m # n
    BY <2>2 DEF NodeStep, NodeSame, Ans
  <2>3. QED BY <2>1, <2>2
<1>3. ASSUME NEW m \in Node, NEW e \in Epoch, Shut(m, e)
      PROVE  Shut(m, e)'
  BY <1>3 DEF NodeStep, NodeSame, DiskSameAt, Shut
<1>4. QED BY <1>1, <1>2, <1>3 DEF Grows

\* Calls are not changed by it.
LEMMA NodeStepCalls ==
  ASSUME NEW n, NodeStep(n)
  PROVE  /\ \A e : Sent(e)' = Sent(e)
         /\ \A e, i, op, s : IsCall(e, i, op, s)' <=> IsCall(e, i, op, s)
         /\ \A e, i : IsVote(e, i)' <=> IsVote(e, i)
         /\ \A e, s : Started(e, s)' <=> Started(e, s)
         /\ \A s : Used(s)' <=> Used(s)
         /\ \A e, s, t : Journaled(e, s, t)' <=> Journaled(e, s, t)
         /\ \A e, s, t : AcceptSent(e, s, t)' <=> AcceptSent(e, s, t)
         /\ \A e, s, t : FinalizeSent(e, s, t)' <=> FinalizeSent(e, s, t)
         /\ \A e, s : Owns(e, s)' <=> Owns(e, s)
         /\ \A e, s : Restarted(e, s)' <=> Restarted(e, s)
<1>1. calls' = calls
  BY DEF NodeStep
<1>2. /\ \A e : Sent(e)' = Sent(e)
      /\ \A e, i, op, s : IsCall(e, i, op, s)' <=> IsCall(e, i, op, s)
      /\ \A e, i : IsVote(e, i)' <=> IsVote(e, i)
  BY <1>1 DEF Sent, IsCall, IsVote
<1>3. /\ \A e, s : Started(e, s)' <=> Started(e, s)
      /\ \A e, s, t : Journaled(e, s, t)' <=> Journaled(e, s, t)
      /\ \A e, s, t : AcceptSent(e, s, t)' <=> AcceptSent(e, s, t)
      /\ \A e, s, t : FinalizeSent(e, s, t)' <=> FinalizeSent(e, s, t)
  BY <1>1, <1>2 DEF Started, Journaled, AcceptSent, FinalizeSent
<1>4. /\ \A s : Used(s)' <=> Used(s)
      /\ \A e, s : Owns(e, s)' <=> Owns(e, s)
      /\ \A e, s : Restarted(e, s)' <=> Restarted(e, s)
  BY <1>3 DEF Used, Owns, Restarted
<1>5. QED BY <1>2, <1>3, <1>4

LEMMA NodeStepWriters ==
  ASSUME QInv, NEW n \in Node, NodeStep(n)
  PROVE  WritersOk'
<1>1. QTypeOK /\ WritersOk /\ Grows /\ calls' = calls
  BY NodeStepGrows DEF QInv, NodeStep
<1>2. \A e \in Epoch : CallsOk(e)'
  BY <1>1, NodeStepCalls, CallsOkStays DEF WritersOk
<1>3. \A e \in Epoch, i \in Serial :
        /\ Blocked(e, i) => Blocked(e, i)'
        /\ QuorumAnswered(e, i) => QuorumAnswered(e, i)'
  BY <1>1, AnswersStay
<1>4. \A e \in Epoch : \A i \in 1..Sent(e) : i \in Serial
  BY <1>1, CallType
<1>5. RestartBlocks'
  <2> SUFFICES ASSUME NEW e \in Epoch, NEW i \in 1..Sent(e)',
                      IsVote(e, i)', Restarted(e, calls[e][i].s)'
               PROVE  Blocked(e, i)'
    BY DEF RestartBlocks
  <2>1. i \in 1..Sent(e) /\ IsVote(e, i) /\ Restarted(e, calls[e][i].s)
    BY <1>1, NodeStepCalls
  <2>2. Blocked(e, i)
    BY <1>1, <2>1 DEF WritersOk, RestartBlocks
  <2>3. QED BY <1>3, <1>4, <2>1, <2>2
<1>6. AcceptSafe'
  <2> SUFFICES ASSUME NEW e \in Epoch, NEW f \in Epoch, e < f,
                      NEW i \in 1..Sent(e)', NEW j \in 1..Sent(f)',
                      IsVote(e, i)', IsCall(f, j, "accept", calls[e][i].s)'
               PROVE  Respects(calls'[e][i], calls'[f][j].end) \/ Blocked(e, i)'
    BY DEF AcceptSafe, Respects
  <2>1. /\ i \in 1..Sent(e) /\ j \in 1..Sent(f)
        /\ IsVote(e, i) /\ IsCall(f, j, "accept", calls[e][i].s)
    BY <1>1, NodeStepCalls
  <2>2. Respects(calls[e][i], calls[f][j].end) \/ Blocked(e, i)
    BY <1>1, <2>1 DEF WritersOk, AcceptSafe
  <2>3. QED BY <1>1, <1>3, <1>4, <2>1, <2>2
<1>7. AcceptWritten'
  <2> SUFFICES ASSUME NEW f \in Epoch, NEW s \in Txid, NEW end \in Txid,
                      AcceptSent(f, s, end)', end > s
               PROVE  \E e \in Epoch :
                        /\ e < f /\ Journaled(e, s, end)'
                        /\ \A g \in Epoch : \A i \in 1..Sent(g)' :
                             e < g /\ g < f /\ IsCall(g, i, "journal", s)'
                             => Blocked(g, i)'
    BY DEF AcceptWritten
  <2>1. PICK e \in Epoch :
          /\ e < f /\ Journaled(e, s, end)
          /\ \A g \in Epoch : \A i \in 1..Sent(g) :
               e < g /\ g < f /\ IsCall(g, i, "journal", s) => Blocked(g, i)
    BY <1>1, NodeStepCalls DEF WritersOk, AcceptWritten
  <2>2. QED BY <1>3, <1>4, <2>1, NodeStepCalls
<1>8. Chain'
  <2>1. \A s \in Txid : Used(s)' => Used(1)'
    BY <1>1, NodeStepCalls DEF WritersOk, Chain
  <2>2. ASSUME NEW b \in Epoch, NEW r \in Txid, NEW s \in Txid,
               Started(b, r)', Used(s)', s < r
        PROVE  Closed(b, s, r)'
    BY <1>1, <2>2, NodeStepCalls, ChainCloses, ClosedStays
  <2>3. QED BY <2>1, <2>2 DEF Chain, Closed
<1>9. QED BY <1>2, <1>5, <1>6, <1>7, <1>8 DEF WritersOk

-----------------------------------------------------------------------------
(* A node that the step leaves alone *)

LEMMA GenuineStays ==
  ASSUME Grows, QTypeOK, NEW s, NEW file, Genuine(s, file)
  PROVE  Genuine(s, file)'
BY CallsStay DEF Genuine

LEMMA HeardStays ==
  ASSUME Grows, QTypeOK, NEW m, PastStays(m)
  PROVE  /\ \A s : HeardStart(m, s) => HeardStart(m, s)'
         /\ \A s, end : HeardFinalize(m, s, end) => HeardFinalize(m, s, end)'
         /\ \A e \in Epoch : Sent(e) >= 2 /\ Past(m, e, 2) =>
              Sent(e)' >= 2 /\ Past(m, e, 2)'
<1>1. ASSUME NEW e \in Epoch, NEW i \in 1..Sent(e)
      PROVE  /\ i \in 1..Sent(e)' /\ calls'[e][i] = calls[e][i]
             /\ \A op, s : IsCall(e, i, op, s) => IsCall(e, i, op, s)'
             /\ Past(m, e, i) => Past(m, e, i)'
  <2>1. i \in Serial /\ i <= Sent(e)
    BY CallType
  <2>2. QED BY <2>1, CallStays DEF PastStays
<1>2. ASSUME NEW s, HeardStart(m, s) PROVE HeardStart(m, s)'
  <2>1. PICK e \in Epoch : \E i \in 1..Sent(e) : IsCall(e, i, "start", s) /\ Past(m, e, i)
    BY <1>2 DEF HeardStart
  <2>2. PICK i \in 1..Sent(e) : IsCall(e, i, "start", s) /\ Past(m, e, i)
    BY <2>1
  <2>3. QED BY <1>1, <2>2 DEF HeardStart
<1>3. ASSUME NEW s, NEW end, HeardFinalize(m, s, end) PROVE HeardFinalize(m, s, end)'
  <2>1. PICK e \in Epoch : \E i \in 1..Sent(e) :
          IsCall(e, i, "finalize", s) /\ calls[e][i].end = end /\ Past(m, e, i)
    BY <1>3 DEF HeardFinalize
  <2>2. PICK i \in 1..Sent(e) :
          IsCall(e, i, "finalize", s) /\ calls[e][i].end = end /\ Past(m, e, i)
    BY <2>1
  <2>3. QED BY <1>1, <2>2 DEF HeardFinalize
<1>4. ASSUME NEW e \in Epoch, Sent(e) >= 2, Past(m, e, 2)
      PROVE  Sent(e)' >= 2 /\ Past(m, e, 2)'
  <2>1. 2 \in 1..Sent(e) /\ Sent(e) \in Nat /\ Sent(e)' \in Nat /\ Sent(e) <= Sent(e)'
    BY <1>4, CallType DEF Grows
  <2>2. QED BY <1>1, <1>4, <2>1
<1>5. QED BY <1>2, <1>3, <1>4

\* What the disk of a node owes to its last writer epoch.
LEMMA SourceStays ==
  ASSUME Grows, QTypeOK, NEW m, NEW s,
         writer'[m] = writer[m], finalized'[m][s] = finalized[m][s],
         paxos'[m][s] = paxos[m][s],
         inProgress'[m][s] = inProgress[m][s] \/ ~Txns(inProgress'[m][s]),
         SourceOk(m, s)
  PROVE  SourceOk(m, s)'
<1> DEFINE w == writer[m]
           end == End(s, inProgress[m][s])
<1>1. /\ Settled(w, s) => \A v : v = w => Settled(v, s)'
      /\ Started(w, s) => \A v : v = w => Started(v, s)'
      /\ Journaled(w, s, end) =>
           \A v, t : v = w /\ t = end => Journaled(v, s, t)'
  <2>1. \A v : Settled(v, s) => Settled(v, s)'
    BY SettledStays
  <2>2. QED BY <2>1, CallsStay
<1>2. Settled(w, s) => Settled(writer[m], s)'
  BY <1>1
<1>3. Started(w, s) => Started(writer[m], s)'
  BY <1>1
<1>4. inProgress'[m][s] = inProgress[m][s] /\ Journaled(w, s, end)
        => Journaled(writer[m], s, End(s, inProgress[m][s]))'
  BY <1>1 DEF End
<1>5. QED BY <1>2, <1>3, <1>4 DEF SourceOk, End

LEMMA AcceptSentTwo ==
  ASSUME QTypeOK, WritersOk, NEW e, NEW s, NEW end, AcceptSent(e, s, end)
  PROVE  e \in Epoch /\ Sent(e) >= 2 /\ IsCall(e, 2, "accept", s) /\ calls[e][2].end = end
<1>1. PICK i \in 1..Sent(e) : IsCall(e, i, "accept", s) /\ calls[e][i].end = end
  BY DEF AcceptSent
<1>2. e \in Epoch /\ Sent(e) \in Nat
  BY CallType DEF AcceptSent
<1>3. i = 2
  BY <1>1, <1>2, AcceptAlone
<1>4. QED BY <1>1, <1>2, <1>3

LEMMA DiskStays ==
  ASSUME Grows, QTypeOK, WritersOk, NEW m, PastStays(m), DiskSameAt(m), tmp'[m] = tmp[m],
         DiskTypeOK, m \in Node, DiskOk(m)
  PROVE  DiskOk(m)'
<1>1. /\ writer'[m] = writer[m] /\ inProgress'[m] = inProgress[m]
      /\ finalized'[m] = finalized[m] /\ paxos'[m] = paxos[m] /\ tmp'[m] = tmp[m]
  BY DEF DiskSameAt
<1>2. WriterHeard(m)'
  <2> SUFFICES ASSUME writer[m] \notin {0, Torn}
               PROVE  \E i \in 1..Len(calls'[writer[m]]) :
                        /\ calls'[writer[m]][i].op = "start"
                        /\ \A w : w = writer[m] => Past(m, w, i)'
    BY <1>1 DEF WriterHeard, Sent
  <2>1. writer[m] \in Epoch
    BY DEF DiskTypeOK
  <2>2. PICK i \in 1..Sent(writer[m]) :
          calls[writer[m]][i].op = "start" /\ Past(m, writer[m], i)
    BY DEF DiskOk, WriterHeard
  <2>3. /\ i \in Serial /\ i <= Sent(writer[m])
        /\ i \in 1..Len(calls'[writer[m]]) /\ calls'[writer[m]][i] = calls[writer[m]][i]
    BY <2>1, CallType, CallStays DEF Sent
  <2>4. \A w : w = writer[m] => Past(m, w, i)'
    BY <2>1, <2>2, <2>3 DEF PastStays
  <2>5. QED BY <2>2, <2>3, <2>4
<1>3. ASSUME NEW s \in Txid PROVE SegmentOk(m, s)'
  <2>1. SegmentOk(m, s)
    BY DEF DiskOk
  <2>2. FilesOk(m, s)'
    <3>1. \A file : Genuine(s, file) => Genuine(s, file)'
      BY GenuineStays
    <3>2. QED BY <1>1, <2>1, <3>1 DEF SegmentOk, FilesOk
  <2>3. HeardOk(m, s)'
    <3>1. paxos[m][s] # NoFile =>
            \A e, end : e = paxos[m][s].epoch /\ end = paxos[m][s].end =>
              AcceptSent(e, s, end)' /\ Past(m, e, 2)'
      <4> SUFFICES ASSUME paxos[m][s] # NoFile, NEW e, NEW end,
                          e = paxos[m][s].epoch, end = paxos[m][s].end
                   PROVE  AcceptSent(e, s, end)' /\ Past(m, e, 2)'
        OBVIOUS
      <4>1. AcceptSent(e, s, end) /\ Past(m, e, 2)
        BY <2>1 DEF SegmentOk, HeardOk
      <4>2. AcceptSent(e, s, end)'
        BY <4>1, CallsStay
      <4>3. e \in Epoch /\ Sent(e) >= 2
        BY <4>1, AcceptSentTwo
      <4>4. QED BY <4>1, <4>2, <4>3, HeardStays
    <3>2. HasTxns(m, s)' <=> HasTxns(m, s)
      BY <1>1 DEF HasTxns
    <3>3. QED BY <1>1, <2>1, <3>1, <3>2, HeardStays DEF SegmentOk, HeardOk
  <2>4. SourceOk(m, s)'
    BY <1>1, <2>1, SourceStays DEF SegmentOk
  <2>5. HalfDoneOk(m, s)'
    <3>1. \A e : Restarted(e, s) => Restarted(e, s)'
      BY CallsStay
    <3>2. QED BY <1>1, <2>1, <3>1 DEF SegmentOk, HalfDoneOk, HalfDone
  <2>6. QED BY <2>2, <2>3, <2>4, <2>5 DEF SegmentOk
<1>4. QED BY <1>2, <1>3 DEF DiskOk

\* What a node told a writer stays so.
LEMMA LatestToldStays ==
  ASSUME Grows, QTypeOK, NEW m, NEW e \in Epoch,
         answers'[e][0][m] = answers[e][0][m], LatestTold(m, e)
  PROVE  LatestTold(m, e)'
<1>1. \A f, s : Started(f, s) => Started(f, s)'
  BY CallsStay
<1>2. Ans(e, 0, m)' =>
        LET l == answers'[e][0][m].latest
        IN  l > 0 => \E f \in Epoch : f < e /\ \A r : r = l => Started(f, r)'
  BY <1>1 DEF LatestTold, Ans
<1>3. QED BY <1>2 DEF LatestTold

LEMMA InfoToldStays ==
  ASSUME Grows, QTypeOK, QTypeOK', NEW m \in Node, NEW e \in Epoch,
         1 \in Serial => answers'[e][1][m] = answers[e][1][m],
         1 \in Serial /\ Ans(e, 1, m) => 1 <= Sent(e),
         InfoTold(m, e)
  PROVE  InfoTold(m, e)'
<1>1. ASSUME NEW s \in Txid, Ans(e, 1, m)', IsCall(e, 1, "prepare", s)'
      PROVE  LET a == answers[e][1][m]
             IN  /\ 1 \in Serial /\ Ans(e, 1, m) /\ IsCall(e, 1, "prepare", s)
                 /\ answers'[e][1][m] = a
                 /\ \A f, y : FinalizeSent(f, s, y) => FinalizeSent(f, s, y)'
                 /\ \A f, y : \/ AcceptSent(f, s, y)
                              \/ Started(f, s) /\ (y = s \/ Journaled(f, s, y))
                              \/ Settled(f, s)
                      => \/ AcceptSent(f, s, y)'
                         \/ Started(f, s)' /\ (y = s \/ Journaled(f, s, y)')
                         \/ Settled(f, s)'
  <2>1. 1 \in Serial
    <3>1. 1 \in 1..Sent(e)' /\ Sent(e)' <= MaxSerial /\ Sent(e)' \in Nat
      BY <1>1 DEF IsCall, QTypeOK, Grows
    <3>2. QED BY <3>1, BoundsAssumption DEF Serial
  <2>2. answers'[e][1][m] = answers[e][1][m] /\ Ans(e, 1, m)
    BY <1>1, <2>1 DEF Ans
  <2>3. 1 \in 1..Sent(e)
    BY <2>1, <2>2, CallType
  <2>4. IsCall(e, 1, "prepare", s)
    BY <1>1, <2>3, CallStays
  <2>5. \A f : Settled(f, s) => Settled(f, s)'
    BY SettledStays
  <2>6. QED BY <2>1, <2>2, <2>4, <2>5, CallsStay
<1>2. ASSUME NEW s \in Txid, Ans(e, 1, m)', IsCall(e, 1, "prepare", s)'
      PROVE  LET a == answers'[e][1][m]
             IN  /\ a \in Info
                 /\ a.exists /\ a.finalized =>
                      \E f \in Epoch : f <= e /\ \A y : y = a.end => FinalizeSent(f, s, y)'
                 /\ a.exists /\ ~a.finalized =>
                      /\ a.epoch <= e
                      /\ \A f, y : f = a.epoch /\ y = a.end =>
                           \/ AcceptSent(f, s, y)'
                           \/ Started(f, s)' /\ (y = s \/ Journaled(f, s, y)')
                           \/ Settled(f, s)'
  BY <1>1, <1>2 DEF InfoTold
<1>3. QED BY <1>2 DEF InfoTold

LEMMA AnswersStayOk ==
  ASSUME Grows, QTypeOK, QTypeOK', NEW m \in Node, PastStays(m), DiskSameAt(m), tmp'[m] = tmp[m],
         \A f \in Epoch, j \in Serial : answers'[f][j][m] = answers[f][j][m],
         AnswersOk(m)
  PROVE  AnswersOk(m)'
<1>1. /\ writer'[m] = writer[m] /\ inProgress'[m] = inProgress[m]
      /\ finalized'[m] = finalized[m] /\ paxos'[m] = paxos[m] /\ tmp'[m] = tmp[m]
  BY DEF DiskSameAt
<1>2. \A e \in Epoch, i \in Serial : Ans(e, i, m)' => Ans(e, i, m)
  BY DEF Ans
<1>3. \A e \in Epoch, i \in Serial : Ans(e, i, m) => i <= Sent(e) /\ i <= Sent(e)'
  BY CallType DEF AnswersOk, AnsweredOk, Grows, Serial
<1>4. \A e \in Epoch : \A i \in 1..Sent(e) :
        /\ calls'[e][i] = calls[e][i] /\ i \in Serial /\ i > 0
        /\ \A op, s : IsCall(e, i, op, s)' <=> IsCall(e, i, op, s)
  BY CallStays, CallType
<1>5. ASSUME NEW e \in Epoch, NEW i \in Serial, Ans(e, i, m)
      PROVE  AnsweredOk(m, e, i)'
  <2>1. AnsweredOk(m, e, i) /\ i <= Sent(e)' /\ i <= Sent(e) /\ i \in Int
    BY <1>3, <1>5, Numbers DEF AnswersOk
  <2>2. Past(m, e, i)'
    BY <2>1 DEF PastStays, AnsweredOk
  <2>3. CASE i > 0
    <3> DEFINE c == calls[e][i]
    <3>1. i \in 1..Sent(e) /\ calls'[e][i] = c
      BY <1>4, <2>1, <2>3, CallType
    <3>2. \A f, s : Restarted(f, s) => Restarted(f, s)'
      BY CallsStay
    <3>3. Restarted(e, c.s) => Restarted(e, calls[e][i].s)'
      BY <3>1, <3>2
    <3>4. c.op = "prepare" /\ answers[e][i][m].exists =>
            HasTxns(m, c.s) \/ (Started(e, calls[e][i].s) \/ Restarted(e, calls[e][i].s))'
      <4>1. \A f, s : Started(f, s) => Started(f, s)'
        BY CallsStay
      <4>2. QED BY <2>1, <2>3, <3>1, <3>3, <4>1 DEF AnsweredOk, LastsOk
    <3>5. LastsOk(m, e, i)'
      BY <1>1, <2>1, <2>3, <3>1, <3>3, <3>4
         DEF AnsweredOk, LastsOk, JournalLasts, AcceptLasts, HasTxns, HalfDone, End
    <3>6. ASSUME NEW f \in Epoch, e < f, c.op \in {"journal", "accept", "finalize"}
          PROVE  LatestShows(m, e, i, f)' /\ InfoShows(m, e, i, f)'
      <4>1. LatestShows(m, e, i, f) /\ InfoShows(m, e, i, f)
        BY <2>1, <2>3, <3>6 DEF AnsweredOk
      <4>2. 0 \in Serial
        BY BoundsAssumption DEF Serial
      <4>3. LatestShows(m, e, i, f)'
        BY <1>2, <3>1, <3>3, <4>1, <4>2 DEF LatestShows
      <4>4. CASE Ans(f, 1, m)' /\ IsCall(f, 1, "prepare", calls[e][i].s)'
        <5>1. 1 \in Serial
          <6>1. 1 \in 1..Sent(f)' /\ Sent(f)' <= MaxSerial /\ Sent(f)' \in Nat
            BY <4>4 DEF IsCall, QTypeOK, Grows
          <6>2. QED BY <6>1, BoundsAssumption DEF Serial
        <5>2. Ans(f, 1, m) /\ 1 \in 1..Sent(f) /\ answers'[f][1][m] = answers[f][1][m]
          BY <1>2, <1>3, <4>4, <5>1, CallType
        <5>3. IsCall(f, 1, "prepare", c.s)
          BY <1>4, <3>1, <4>4, <5>2
        <5> DEFINE a == answers[f][1][m]
        <5>4. \/ Restarted(e, c.s)
              \/ /\ a.exists
                 /\ c.op = "finalize" => a.finalized
                 /\ c.op = "journal"  => \/ a.finalized \/ a.epoch > e
                                         \/ a.epoch = e /\ a.end >= c.end
                 /\ c.op = "accept"   => a.finalized \/ a.epoch >= e
          BY <4>1, <5>2, <5>3 DEF InfoShows
        <5>5. QED BY <3>1, <3>3, <4>3, <5>2, <5>4 DEF InfoShows
      <4>5. QED BY <4>3, <4>4 DEF InfoShows
    <3>7. QED BY <2>1, <2>2, <3>1, <3>5, <3>6 DEF AnsweredOk
  <2>4. CASE i = 0
    BY <2>1, <2>2, <2>4 DEF AnsweredOk
  <2>5. QED BY <2>3, <2>4, Numbers
<1>6. ASSUME NEW e \in Epoch PROVE ToldOk(m, e)'
  <2>1. LatestTold(m, e)'
    BY LatestToldStays, BoundsAssumption DEF AnswersOk, ToldOk, Serial
  <2>2. 1 \in Serial /\ Ans(e, 1, m) => 1 <= Sent(e)
    BY <1>3
  <2>3. InfoTold(m, e)'
    BY <2>2, InfoToldStays DEF AnswersOk, ToldOk
  <2>4. QED BY <2>1, <2>3 DEF ToldOk
<1>7. QED BY <1>2, <1>5, <1>6 DEF AnswersOk

-----------------------------------------------------------------------------
(* The steps of the writers *)

LEMMA SendPreserves ==
  ASSUME QInv, NEW e, NEW d, Sends(e, d)
  PROVE  QInv'
<1>1. /\ QTypeOK /\ WritersOk /\ IInv /\ DiskTypeOK
      /\ UNCHANGED vars /\ answers' = answers /\ lost' = lost
  BY DEF QInv, IInv, TypeOK, Sends
<1>2. QTypeOK' /\ Grows
  BY <1>1, SendResult
<1>3. IInv' /\ WritersOk'
  BY <1>1, StutterPreserves, SendWritersOk
<1>4. ASSUME NEW n \in Node PROVE DiskOk(n)' /\ AnswersOk(n)'
  <2>1. DiskSameAt(n) /\ tmp'[n] = tmp[n] /\ ipcSerial' = ipcSerial
    BY <1>1 DEF DiskSameAt, vars, disk, logs, memory
  <2>2. PastStays(n)
    BY <1>1, <2>1 DEF PastStays, Past, Shut, DiskSameAt
  <2>3. \A f \in Epoch, j \in Serial : answers'[f][j][n] = answers[f][j][n]
    BY <1>1
  <2>4. DiskOk(n) /\ AnswersOk(n)
    BY DEF QInv
  <2>5. QED BY <1>1, <1>2, <2>1, <2>2, <2>3, <2>4, DiskStays, AnswersStayOk
<1>5. QED BY <1>2, <1>3, <1>4 DEF QInv

\* A step that sends nothing and changes no node.
LEMMA StutterPreservesQInv ==
  ASSUME QInv, UNCHANGED <<vars, calls, answers, lost>>
  PROVE  QInv'
<1>1. QTypeOK /\ WritersOk /\ IInv /\ DiskTypeOK /\ IInv' /\ QTypeOK'
  BY StutterPreserves DEF QInv, IInv, TypeOK, QTypeOK, Sent
<1>2. \A m \in Node : NodeSame(m) /\ PastStays(m)
  BY DEF NodeSame, PastStays, DiskSameAt, Past, Shut, vars, disk, logs, memory
<1>3. PICK n \in Node : TRUE
  BY WritersAssumption
<1>4. NodeStep(n)
  BY <1>1, <1>2 DEF NodeStep, Shut, vars, disk
<1>5. WritersOk' /\ Grows
  BY <1>4, NodeStepWriters, NodeStepGrows
<1>6. \A m \in Node : DiskOk(m)' /\ AnswersOk(m)'
  BY <1>1, <1>2, <1>5, DiskStays, AnswersStayOk DEF QInv, NodeSame
<1>7. QED BY <1>1, <1>5, <1>6 DEF QInv

LEMMA WriterPreserves ==
  ASSUME QInv, NEW e \in Epoch, Writer(e)
  PROVE  QInv'
BY WriterSends, SendPreserves, StutterPreservesQInv DEF Begin

-----------------------------------------------------------------------------
(* What a step of a node has to preserve *)

LEMMA NodeStepPreserves ==
  ASSUME QInv, NEW n \in Node, NodeStep(n), DiskOk(n)', AnswersOk(n)'
  PROVE  QInv'
<1>1. QTypeOK /\ WritersOk /\ DiskTypeOK /\ Grows /\ IInv' /\ QTypeOK' /\ WritersOk'
  BY NodeStepGrows, NodeStepWriters DEF QInv, IInv, TypeOK, NodeStep
<1>2. ASSUME NEW m \in Node, m # n PROVE DiskOk(m)' /\ AnswersOk(m)'
  <2>1. NodeSame(m)
    BY <1>2 DEF NodeStep
  <2>2. PastStays(m)
    BY <2>1 DEF NodeSame, DiskSameAt, PastStays, Past, Shut
  <2>3. DiskOk(m) /\ AnswersOk(m)
    BY DEF QInv
  <2>4. QED BY <1>1, <2>1, <2>2, <2>3, DiskStays, AnswersStayOk DEF NodeSame
<1>3. QED BY <1>1, <1>2 DEF QInv

\* On its disk lasts what n has answered to calls on segment s.
SegmentLasts(n, s) ==
  \A e \in Epoch : \A i \in 1..Sent(e) :
    Ans(e, i, n) /\ calls[e][i].s = s => LastsOk(n, e, i)'

\* What n answers in the step is as the step leaves its disk.
AnswersAsIs(n) ==
  /\ \A e \in Epoch : ~Ans(e, 0, n) /\ Ans(e, 0, n)' =>
       answers'[e][0][n].latest = LatestOf(n)'
  /\ \A e \in Epoch : \A s \in Txid :
       ~Ans(e, 1, n) /\ Ans(e, 1, n)' /\ IsCall(e, 1, "prepare", s) =>
         answers'[e][1][n] = InfoOf(n, s)' /\ writer'[n] # Torn

LEMMA LatestIsShown ==
  ASSUME NEW n, NEW s \in Txid, HasTxns(n, s)'
  PROVE  LatestOf(n)' >= s
<1> DEFINE S == {t \in Txid : HasTxns(n, t)'}
<1>1. S \in SUBSET (0..MaxTxid) /\ s \in S /\ MaxTxid \in Nat
  BY Numbers
<1>2. \A y \in S : Max(S) >= y
  BY <1>1, MaxIsGreatest
<1>3. LatestOf(n)' = Max(S)
  BY <1>1 DEF LatestOf
<1>4. QED BY <1>1, <1>2, <1>3

LEMMA NewLatestShows ==
  ASSUME NEW n, calls' = calls, NEW e \in Epoch, NEW i \in 1..Sent(e), NEW f \in Epoch,
         calls[e][i].s \in Txid, calls[e][i].op \in {"journal", "accept", "finalize"},
         LastsOk(n, e, i)', answers'[f][0][n].latest = LatestOf(n)'
  PROVE  LatestShows(n, e, i, f)'
<1> DEFINE s == calls[e][i].s
<1>1. HasTxns(n, s)' \/ Restarted(e, calls[e][i].s)'
  BY DEF LastsOk, JournalLasts, AcceptLasts, HasTxns, Txns
<1>2. QED BY <1>1, LatestIsShown DEF LatestShows

LEMMA InfoFields ==
  ASSUME NEW n, NEW s, HasTxns(n, s)'
  PROVE  /\ InfoOf(n, s)'.exists
         /\ InfoOf(n, s)'.finalized \in BOOLEAN
         /\ InfoOf(n, s)'.finalized <=> finalized'[n][s] # NoFile
         /\ InfoOf(n, s)'.end = LastTxid(n, s)'
         /\ InfoOf(n, s)'.epoch =
              IF paxos'[n][s] # NoFile /\ finalized'[n][s] = NoFile
                 /\ paxos'[n][s].epoch > writer'[n]
              THEN paxos'[n][s].epoch ELSE writer'[n]
<1> DEFINE epoch == IF paxos'[n][s] # NoFile /\ finalized'[n][s] = NoFile
                       /\ paxos'[n][s].epoch > writer'[n]
                    THEN paxos'[n][s].epoch ELSE writer'[n]
           final == finalized'[n][s] # NoFile
           end   == LastTxid(n, s)'
<1>1. InfoOf(n, s)' = [answered |-> TRUE, exists |-> TRUE, end |-> end,
                       finalized |-> final, epoch |-> epoch]
  BY DEF InfoOf
<1>2. final \in BOOLEAN
  OBVIOUS
<1> HIDE DEF epoch, final, end
<1>3. /\ InfoOf(n, s)'.exists = TRUE /\ InfoOf(n, s)'.finalized = final
      /\ InfoOf(n, s)'.end = end /\ InfoOf(n, s)'.epoch = epoch
  BY <1>1
<1>4. QED BY <1>2, <1>3 DEF epoch, final, end

LEMMA NewInfoShows ==
  ASSUME DiskTypeOK', calls' = calls,
         NEW n \in Node, NEW e \in Epoch, NEW i \in 1..Sent(e), NEW f \in Epoch,
         calls[e][i].s \in Txid, calls[e][i].op \in {"journal", "accept", "finalize"},
         LastsOk(n, e, i)', writer'[n] # Torn,
         answers'[f][1][n] = InfoOf(n, calls[e][i].s)'
  PROVE  InfoShows(n, e, i, f)'
<1> DEFINE c == calls[e][i]
           s == c.s
           a == answers'[f][1][n]
<1>0. \A t : t = s => a = InfoOf(n, t)'
  OBVIOUS
<1>1. CASE Restarted(e, calls[e][i].s)'
  BY <1>1 DEF InfoShows
<1>2. CASE finalized'[n][s] # NoFile
  <2>1. a.exists /\ a.finalized
    BY <1>0, <1>2, InfoFields DEF HasTxns
  <2>2. QED BY <2>1 DEF InfoShows
<1>3. CASE finalized'[n][s] = NoFile /\ ~Restarted(e, calls[e][i].s)'
  <2>1. /\ Txns(inProgress'[n][s]) /\ c.op # "finalize"
        /\ c.op = "journal" => JournalLasts(n, e, calls[e][i].s, calls[e][i].end)'
        /\ c.op = "accept"  => AcceptLasts(n, e, calls[e][i].s)'
    BY <1>3 DEF LastsOk, JournalLasts, AcceptLasts, Txns
  <2>2. \A t : t = s => HasTxns(n, t)'
    BY <2>1 DEF HasTxns, Txns
  <2>3. /\ a.exists /\ ~a.finalized /\ a.end = End(s, inProgress'[n][s])
        /\ a.epoch = IF paxos'[n][s] # NoFile /\ paxos'[n][s].epoch > writer'[n]
                     THEN paxos'[n][s].epoch ELSE writer'[n]
    BY <1>0, <1>3, <2>2, InfoFields DEF LastTxid, End
  <2>4. writer'[n] \in Int /\ e \in Int
    BY Numbers DEF DiskTypeOK, Torn
  <2>5. paxos'[n][s] # NoFile => paxos'[n][s].epoch \in Int
    BY Numbers DEF DiskTypeOK, Decision
  <2>6. CASE c.op = "journal"
    <3>1. CASE paxos'[n][s] # NoFile /\ paxos'[n][s].epoch > e
      BY <2>3, <2>4, <2>5, <2>6, <3>1 DEF InfoShows
    <3>2. CASE /\ paxos'[n][s] = NoFile
               /\ writer'[n] > e \/ (writer'[n] = e /\ End(s, inProgress'[n][s]) >= c.end)
      <4>1. a.epoch = writer'[n]
        BY <2>3, <3>2
      <4>2. QED BY <2>3, <2>6, <3>2, <4>1 DEF InfoShows
    <3>3. QED BY <2>1, <2>6, <3>1, <3>2 DEF JournalLasts, End
  <2>7. CASE c.op = "accept"
    <3>1. paxos'[n][s] # NoFile /\ paxos'[n][s].epoch >= e
      BY <2>1, <2>7 DEF AcceptLasts
    <3>2. a.epoch >= e
      BY <2>3, <2>4, <2>5, <3>1
    <3>3. QED BY <2>3, <2>7, <3>2 DEF InfoShows
  <2>8. QED BY <2>1, <2>6, <2>7
<1>4. QED BY <1>1, <1>2, <1>3

LEMMA NodeAnswers ==
  ASSUME QInv, NEW n \in Node, NodeStep(n),
         \A s \in Txid : SegmentLasts(n, s),
         \A e \in Epoch : \A i \in 1..Sent(e) :
           ~Ans(e, i, n) /\ Ans(e, i, n)' => LastsOk(n, e, i)',
         AnswersAsIs(n), \A e \in Epoch : ToldOk(n, e)'
  PROVE  AnswersOk(n)'
<1>1. /\ QTypeOK /\ WritersOk /\ Grows /\ QTypeOK' /\ calls' = calls /\ DiskTypeOK'
      /\ AnswersOk(n) /\ 0 \in Serial
  BY NodeStepGrows, BoundsAssumption DEF QInv, IInv, TypeOK, NodeStep, Serial
<1>2. \A e \in Epoch, i \in Serial :
        /\ Ans(e, i, n) => answers'[e][i][n] = answers[e][i][n] /\ i <= Sent(e)
        /\ Ans(e, i, n)' /\ ~Ans(e, i, n) =>
             i <= Sent(e) /\ Past(n, e, i)' /\ promised'[n] = e
  BY <1>1, AnsweredWasHeard DEF Grows, NodeStep, Ans
<1>3. \A e, s : Restarted(e, s)' <=> Restarted(e, s)
  BY NodeStepCalls
<1>4. ASSUME NEW e \in Epoch, NEW i \in Serial, Ans(e, i, n)'
      PROVE  /\ i <= Sent(e) /\ Past(n, e, i)'
             /\ i > 0 => i \in 1..Sent(e) /\ LastsOk(n, e, i)'
  <2>1. i <= Sent(e) /\ Past(n, e, i)'
    BY <1>2, <1>4, AnsweredWasHeard DEF NodeStep, PastStays
  <2>2. i > 0 => i \in 1..Sent(e) /\ calls[e][i].s \in Txid
    BY <1>1, <2>1, CallType, Numbers
  <2>3. i > 0 => LastsOk(n, e, i)'
    BY <1>4, <2>2 DEF SegmentLasts
  <2>4. QED BY <2>1, <2>2, <2>3
<1>5. ASSUME NEW e \in Epoch, NEW i \in 1..Sent(e), i \in Serial, Ans(e, i, n)',
             calls[e][i].op \in {"journal", "accept", "finalize"},
             NEW f \in Epoch, e < f
      PROVE  LatestShows(n, e, i, f)' /\ InfoShows(n, e, i, f)'
  <2> DEFINE c == calls[e][i]
  <2>1. c.s \in Txid /\ i > 0 /\ LastsOk(n, e, i)'
    BY <1>1, <1>4, <1>5, CallType
  \* n answers e in this step only if it has promised nothing later.
  <2>2. ASSUME NEW j \in Serial, Ans(f, j, n)
        PROVE  Ans(e, i, n)
    <3>1. Shut(n, e)
      BY <1>5, <2>2, AnsweredShuts
    <3>2. Past(n, e, i)
      BY <3>1 DEF Past
    <3>3. QED BY <1>5, <3>2 DEF NodeStep, Ans
  <2>3. Ans(e, i, n) => LatestShows(n, e, i, f) /\ InfoShows(n, e, i, f)
    BY <1>1, <1>5, <2>1 DEF AnswersOk, AnsweredOk
  <2>4. LatestShows(n, e, i, f)'
    <3>1. CASE Ans(f, 0, n)
      <4>1. LatestShows(n, e, i, f) /\ answers'[f][0][n] = answers[f][0][n]
        BY <1>1, <1>2, <2>2, <2>3, <3>1
      <4>2. answers[f][0][n].latest >= c.s \/ Restarted(e, c.s)
        BY <3>1, <4>1 DEF LatestShows
      <4>3. Restarted(e, c.s) => Restarted(e, calls[e][i].s)'
        BY <1>1, <1>3
      <4>4. QED BY <1>1, <4>1, <4>2, <4>3 DEF LatestShows
    <3>2. CASE ~Ans(f, 0, n) /\ Ans(f, 0, n)'
      BY <1>1, <1>5, <2>1, <3>2, NewLatestShows DEF AnswersAsIs
    <3>3. QED BY <3>1, <3>2 DEF LatestShows
  <2>5. ASSUME Ans(f, 1, n)', IsCall(f, 1, "prepare", calls[e][i].s)'
        PROVE  InfoShows(n, e, i, f)'
    <3>1. IsCall(f, 1, "prepare", c.s) /\ 1 \in Serial
      <4>1. IsCall(f, 1, "prepare", c.s)
        BY <1>1, <2>5 DEF IsCall, Sent
      <4>2. QED BY <1>1, <4>1, CallType DEF IsCall
    <3>2. CASE Ans(f, 1, n)
      <4>1. InfoShows(n, e, i, f) /\ answers'[f][1][n] = answers[f][1][n]
        BY <1>2, <2>2, <2>3, <3>1, <3>2
      <4> DEFINE a == answers[f][1][n]
      <4>2. \/ Restarted(e, c.s)
            \/ /\ a.exists
               /\ c.op = "finalize" => a.finalized
               /\ c.op = "journal"  => \/ a.finalized \/ a.epoch > e
                                       \/ a.epoch = e /\ a.end >= c.end
               /\ c.op = "accept"   => a.finalized \/ a.epoch >= e
        BY <3>1, <3>2, <4>1 DEF InfoShows
      <4>3. Restarted(e, c.s) => Restarted(e, calls[e][i].s)'
        BY <1>1, <1>3
      <4>4. QED BY <1>1, <4>1, <4>2, <4>3 DEF InfoShows
    <3>3. CASE ~Ans(f, 1, n)
      <4>1. /\ \A s : s = c.s => answers'[f][1][n] = InfoOf(n, s)'
            /\ writer'[n] # Torn
        BY <2>1, <2>5, <3>1, <3>3 DEF AnswersAsIs
      <4>2. answers'[f][1][n] = InfoOf(n, calls[e][i].s)'
        BY <1>1, <4>1
      <4>3. QED BY <1>1, <1>5, <2>1, <4>1, <4>2, NewInfoShows
    <3>4. QED BY <3>2, <3>3
  <2>6. QED BY <2>4, <2>5 DEF InfoShows
<1>6. ASSUME NEW e \in Epoch, NEW i \in Serial, Ans(e, i, n)'
      PROVE  AnsweredOk(n, e, i)'
  <2>1. /\ i <= Sent(e)' /\ Past(n, e, i)'
        /\ i > 0 => i \in 1..Sent(e) /\ LastsOk(n, e, i)'
    BY <1>1, <1>4, <1>6 DEF Sent
  <2>2. i > 0 /\ calls'[e][i].op \in {"journal", "accept", "finalize"} =>
          \A f \in Epoch : e < f => LatestShows(n, e, i, f)' /\ InfoShows(n, e, i, f)'
    BY <1>1, <1>5, <1>6, <2>1
  <2>3. QED BY <2>1, <2>2 DEF AnsweredOk
<1>7. QED BY <1>6 DEF AnswersOk

-----------------------------------------------------------------------------
(* How steps of n are steps of n alone *)

NodeOnly(n) ==
  /\ calls' = calls /\ IInv'
  /\ \A m \in Node \ {n} :
       DiskSameAt(m) /\ tmp'[m] = tmp[m] /\ ipcSerial'[m] = ipcSerial[m]

LEMMA PastIntegers ==
  ASSUME QInv, NEW n \in Node
  PROVE  /\ promised[n] \in Int /\ ipcSerial[n] \in Int
         /\ \A e \in Epoch : /\ e \in Int /\ e # Torn /\ lost[e][n] \in Int
                             /\ Sent(e) \in Serial /\ Sent(e) \in Int
<1>1. promised[n] \in Int
  BY EpochsAreIntegers DEF QInv, IInv, TypeOK
<1>2. ipcSerial[n] \in Int
  BY Numbers DEF QInv, IInv, TypeOK, MemoryTypeOK
<1>3. ASSUME NEW e \in Epoch
      PROVE  /\ e \in Int /\ e # Torn /\ lost[e][n] \in Int
             /\ Sent(e) \in Serial /\ Sent(e) \in Int
  <2>1. Sent(e) \in Nat /\ Sent(e) <= MaxSerial
    BY CallType DEF QInv
  <2>2. lost[e][n] \in Serial
    BY DEF QInv, QTypeOK
  <2>3. QED BY <2>1, <2>2, Numbers, BoundsAssumption DEF Serial
<1>4. QED BY <1>1, <1>2, <1>3

\* The process ends: nothing that was sent to it so far reaches it later.
LEMMA EndsStep ==
  ASSUME QInv, NEW n \in Node, NodeOnly(n), Disconnect(n), answers' = answers,
         promised'[n] = Torn \/ (promised[n] # Torn /\ promised'[n] >= promised[n])
  PROVE  /\ NodeStep(n)
         /\ \A e \in Epoch, i \in Serial :
              i <= Sent(e) /\ promised'[n] = e => Past(n, e, i)'
<1>1. /\ promised[n] \in Int /\ ipcSerial[n] \in Int
      /\ \A e \in Epoch : /\ e \in Int /\ e # Torn /\ lost[e][n] \in Int
                          /\ Sent(e) \in Serial /\ Sent(e) \in Int
  BY PastIntegers
<1>2. promised'[n] \in Int
  BY Numbers DEF NodeOnly, IInv, TypeOK, DiskTypeOK, Torn
<1>3. /\ lost' \in [Epoch -> [Node -> Serial]]
      /\ \A e \in Epoch : /\ lost'[e][n] = Sent(e)
                          /\ \A m \in Node \ {n} : lost'[e][m] = lost[e][m]
  <2>1. lost \in [Epoch -> [Node -> Serial]]
    BY DEF QInv, QTypeOK
  <2>2. QED BY <1>1, <2>1 DEF Disconnect
<1>4. QTypeOK'
  BY <1>3 DEF QInv, QTypeOK, NodeOnly, Sent
<1>5. \A f \in Epoch : Shut(n, f) => Shut(n, f)'
  BY <1>1, <1>2 DEF Shut
<1>6. \A e \in Epoch, i \in Serial :
        i <= Sent(e) /\ promised'[n] = e => Past(n, e, i)'
  BY <1>3 DEF Past
<1>7. PastStays(n)
  <2> SUFFICES ASSUME NEW f \in Epoch, NEW j \in Serial, j <= Sent(f), Past(n, f, j)
               PROVE  Past(n, f, j)'
    BY DEF PastStays
  <2>1. CASE Shut(n, f)
    BY <1>5, <2>1 DEF Past
  <2>2. CASE promised[n] = f
    <3>1. promised'[n] = Torn \/ promised'[n] > f \/ promised'[n] = f
      BY <1>1, <1>2, <2>2
    <3>2. QED BY <1>6, <3>1 DEF Past, Shut
  <2>3. QED BY <2>1, <2>2 DEF Past
<1>8. \A m \in Node \ {n} : NodeSame(m)
  BY <1>3 DEF NodeOnly, NodeSame
<1>9. NodeStep(n)
  BY <1>4, <1>5, <1>7, <1>8 DEF NodeStep, NodeOnly
<1>10. QED BY <1>6, <1>9

\* n hears call i of the writer of epoch e, and may answer it.
LEMMA HearsStep ==
  ASSUME QInv, NEW n \in Node, NodeOnly(n), lost' = lost,
         NEW e \in Epoch, NEW i \in Serial, i <= Sent(e), ~Past(n, e, i),
         promised'[n] = e, ipcSerial'[n] = i,
         NEW a \in Reply, i = 0 => a \in Latest,
         answers' = answers \/ answers' = [answers EXCEPT ![e][i][n] = a]
  PROVE  NodeStep(n) /\ Past(n, e, i)'
<1>1. /\ promised[n] \in Int /\ ipcSerial[n] \in Int /\ i \in Int
      /\ \A f \in Epoch : f \in Int /\ f # Torn /\ lost[f][n] \in Int
  BY PastIntegers, Numbers
<1>2. /\ promised[n] # Torn /\ promised[n] <= e
      /\ promised[n] = e => i > ipcSerial[n]
  BY <1>1 DEF Past, Shut
<1>3. answers \in [Epoch -> [Serial -> [Node -> Reply]]]
  BY DEF QInv, QTypeOK
<1>4. /\ \A f \in Epoch, j \in Serial, m \in Node :
           (f # e \/ j # i \/ m # n) => answers'[f][j][m] = answers[f][j][m]
      /\ answers' \in [Epoch -> [Serial -> [Node -> Reply]]]
      /\ answers'[e][i][n] \in {answers[e][i][n], a}
  <2>1. CASE answers' = answers
    BY <1>3, <2>1
  <2>2. CASE answers' = [answers EXCEPT ![e][i][n] = a]
    <3>1. answers[e] \in [Serial -> [Node -> Reply]]
      BY <1>3
    <3>2. answers[e][i] \in [Node -> Reply]
      BY <3>1
    <3>3. answers' \in [Epoch -> [Serial -> [Node -> Reply]]]
      BY <1>3, <2>2, <3>1, <3>2
    <3>4. /\ \A f \in Epoch : f # e => answers'[f] = answers[f]
          /\ answers'[e] = [answers[e] EXCEPT ![i][n] = a]
      BY <1>3, <2>2
    <3>5. /\ \A j \in Serial : j # i => answers'[e][j] = answers[e][j]
          /\ answers'[e][i] = [answers[e][i] EXCEPT ![n] = a]
      BY <3>1, <3>4
    <3>6. /\ \A m \in Node : m # n => answers'[e][i][m] = answers[e][i][m]
          /\ answers'[e][i][n] = a
      BY <3>2, <3>5
    <3>7. QED BY <3>3, <3>4, <3>5, <3>6
  <2>3. QED BY <2>1, <2>2
<1>5. answers'[e][i][n] \in {answers[e][i][n], a}
  BY <1>4
<1>6. QTypeOK'
  <2>1. \A f \in Epoch, m \in Node : answers'[f][0][m] \in {NoAnswer} \cup Latest
    <3> SUFFICES ASSUME NEW f \in Epoch, NEW m \in Node
                 PROVE  answers'[f][0][m] \in {NoAnswer} \cup Latest
      OBVIOUS
    <3>1. answers[f][0][m] \in {NoAnswer} \cup Latest /\ 0 \in Serial
      BY BoundsAssumption DEF QInv, QTypeOK, Serial
    <3>2. CASE f # e \/ i # 0 \/ m # n
      BY <1>4, <3>1, <3>2
    <3>3. CASE f = e /\ i = 0 /\ m = n
      BY <1>5, <3>1, <3>3
    <3>4. QED BY <3>2, <3>3
  <2>2. QED BY <1>4, <2>1 DEF QInv, QTypeOK, NodeOnly, Sent
<1>7. \A f \in Epoch : Shut(n, f) => Shut(n, f)'
  BY <1>1, <1>2 DEF Shut
<1>8. Past(n, e, i)'
  BY <1>1 DEF Past
<1>9. PastStays(n)
  <2> SUFFICES ASSUME NEW f \in Epoch, NEW j \in Serial, j <= Sent(f), Past(n, f, j)
               PROVE  Past(n, f, j)'
    BY DEF PastStays
  <2>1. CASE Shut(n, f)
    BY <1>7, <2>1 DEF Past
  <2>2. CASE promised[n] = f /\ f # e
    BY <1>1, <1>2, <2>2 DEF Past, Shut
  <2>3. CASE promised[n] = f /\ f = e /\ (j <= ipcSerial[n] \/ j <= lost[f][n])
    BY <1>1, <1>2, <2>3, Numbers DEF Past
  <2>4. QED BY <2>1, <2>2, <2>3 DEF Past
<1>10. \A m \in Node \ {n} : NodeSame(m)
  BY <1>4 DEF NodeOnly, NodeSame
<1>11. \A f \in Epoch, j \in Serial :
         \/ answers'[f][j][n] = answers[f][j][n]
         \/ j <= Sent(f) /\ ~Past(n, f, j) /\ Past(n, f, j)' /\ promised'[n] = f
  <2> SUFFICES ASSUME NEW f \in Epoch, NEW j \in Serial,
                      answers'[f][j][n] # answers[f][j][n]
               PROVE  j <= Sent(f) /\ ~Past(n, f, j) /\ Past(n, f, j)' /\ promised'[n] = f
    OBVIOUS
  <2>1. f = e /\ j = i
    BY <1>4
  <2>2. QED BY <1>8, <2>1
<1>12. QED BY <1>6, <1>7, <1>8, <1>9, <1>10, <1>11 DEF NodeStep, NodeOnly

\* A step that hears nothing.
LEMMA DeafStep ==
  ASSUME QInv, NEW n \in Node, NodeOnly(n), answers' = answers, lost' = lost,
         promised'[n] = promised[n], ipcSerial'[n] = ipcSerial[n]
  PROVE  NodeStep(n)
<1>1. QTypeOK'
  BY DEF QInv, QTypeOK, NodeOnly, Sent
<1>2. \A m \in Node \ {n} : NodeSame(m)
  BY DEF NodeOnly, NodeSame
<1>3. (\A f \in Epoch : Shut(n, f) => Shut(n, f)') /\ PastStays(n)
  BY DEF PastStays, Past, Shut
<1>4. QED BY <1>1, <1>2, <1>3 DEF NodeStep, NodeOnly

-----------------------------------------------------------------------------
(* Segments that a step leaves as they are *)

\* Recovery may store a log for the segment, under an epoch not decided yet.
NewTmp(n, s, f) ==
  /\ Genuine(s, tmp[n][s][f])'
  /\ Sent(f) >= 2 /\ Past(n, f, 2)'
  /\ paxos[n][s] # NoFile => paxos[n][s].epoch # f

\* A file without transactions may go, or come.
SegmentKept(n, s) ==
  /\ finalized'[n][s] = finalized[n][s] /\ paxos'[n][s] = paxos[n][s]
  /\ \/ inProgress'[n][s] = inProgress[n][s]
     \/ ~Txns(inProgress'[n][s]) /\ ~Txns(inProgress[n][s])
  /\ \A f \in Epoch : \/ tmp'[n][s][f] \in {tmp[n][s][f], NoFile}
                      \/ NewTmp(n, s, f)

\* The writer epoch stays, or is the promise of a step that began as its owner.
WriterRises(n) ==
  \/ writer'[n] \in {writer[n], Torn}
  \/ /\ writer[n] # Torn /\ writer[n] <= writer'[n]
     /\ promised[n] # Torn /\ promised[n] <= writer'[n]

LEMMA HeardHere ==
  ASSUME QInv, NEW n \in Node, NodeStep(n)
  PROVE  /\ \A s : HeardStart(n, s) => HeardStart(n, s)'
         /\ \A s, end : HeardFinalize(n, s, end) => HeardFinalize(n, s, end)'
         /\ \A e \in Epoch : Sent(e) >= 2 /\ Past(n, e, 2) => Past(n, e, 2)'
BY NodeStepGrows, HeardStays DEF QInv, NodeStep

LEMMA KeptFiles ==
  ASSUME QInv, NEW n \in Node, NodeStep(n), NEW s \in Txid, SegmentKept(n, s)
  PROVE  /\ FilesOk(n, s)' /\ HeardOk(n, s)' /\ HalfDoneOk(n, s)'
         /\ HasTxns(n, s)' <=> HasTxns(n, s)
         /\ HalfDone(n, s)' => HalfDone(n, s)
<1>1. SegmentOk(n, s) /\ QTypeOK /\ WritersOk /\ DiskTypeOK
  BY DEF QInv, DiskOk, IInv, TypeOK
<1>2. HasTxns(n, s)' <=> HasTxns(n, s)
  BY DEF SegmentKept, HasTxns, Txns
<1>3. paxos[n][s] # NoFile => paxos[n][s].epoch \in Epoch
  BY <1>1 DEF DiskTypeOK, Decision
<1>4. HalfDone(n, s)' =>
        HalfDone(n, s) /\ tmp'[n][s][paxos[n][s].epoch] = tmp[n][s][paxos[n][s].epoch]
  BY <1>3 DEF SegmentKept, HalfDone, NewTmp
<1>5. FilesOk(n, s)'
  <2>1. \A file : Genuine(s, file) \/ ~Txns(file) => Genuine(s, file)'
    BY <1>1, NodeStepGrows, GenuineStays DEF Genuine, Txns
  <2>2. ASSUME NEW f \in Epoch PROVE Genuine(s, tmp[n][s][f])'
    <3>1. CASE tmp'[n][s][f] \in {tmp[n][s][f], NoFile}
      <4>1. Genuine(s, tmp[n][s][f]) /\ ~Txns(NoFile)
        BY <1>1 DEF SegmentOk, FilesOk, Txns
      <4>2. \A file : file = tmp'[n][s][f] => Genuine(s, file)'
        BY <2>1, <3>1, <4>1
      <4>3. QED BY <4>2
    <3>2. QED BY <3>1 DEF SegmentKept, NewTmp
  <2>3. \A file : file = inProgress'[n][s] => Genuine(s, file)'
    BY <1>1, <2>1 DEF SegmentKept, SegmentOk, FilesOk
  <2>4. \A file : finalized'[n][s] # NoFile /\ file = finalized'[n][s].body
                    => Genuine(s, file)'
    BY <1>1, <2>1 DEF SegmentKept, SegmentOk, FilesOk
  <2>5. QED BY <2>2, <2>3, <2>4 DEF FilesOk
<1>6. HeardOk(n, s)'
  <2>1. paxos[n][s] # NoFile =>
          \A e, end : e = paxos[n][s].epoch /\ end = paxos[n][s].end =>
            AcceptSent(e, s, end)' /\ Past(n, e, 2)'
    <3> SUFFICES ASSUME paxos[n][s] # NoFile, NEW e, NEW end,
                        e = paxos[n][s].epoch, end = paxos[n][s].end
                 PROVE  AcceptSent(e, s, end)' /\ Past(n, e, 2)'
      OBVIOUS
    <3>1. AcceptSent(e, s, end) /\ Past(n, e, 2)
      BY <1>1 DEF SegmentOk, HeardOk
    <3>2. e \in Epoch /\ Sent(e) >= 2
      BY <1>1, <3>1, AcceptSentTwo
    <3>3. QED BY <3>1, <3>2, HeardHere, NodeStepCalls
  <2>2. ASSUME NEW e \in Epoch, tmp'[n][s][e] # NoFile
        PROVE  Sent(e)' >= 2 /\ Past(n, e, 2)'
    <3>1. Sent(e) >= 2 /\ Past(n, e, 2)'
      BY <1>1, <2>2, HeardHere DEF SegmentKept, SegmentOk, HeardOk, NewTmp
    <3>2. QED BY <3>1, NodeStepCalls
  <2>3. finalized'[n][s] # NoFile =>
          \A end : end = finalized'[n][s].end => HeardFinalize(n, s, end)'
    BY <1>1, HeardHere DEF SegmentKept, SegmentOk, HeardOk
  <2>4. HasTxns(n, s)' \/ paxos'[n][s] # NoFile => HeardStart(n, s)'
    BY <1>1, <1>2, HeardHere DEF SegmentKept, SegmentOk, HeardOk
  <2>5. paxos'[n][s] = paxos[n][s]
    BY DEF SegmentKept
  <2>6. QED BY <2>1, <2>2, <2>3, <2>4, <2>5 DEF HeardOk
<1>7. HalfDoneOk(n, s)'
  <2>1. \A e : Restarted(e, s) => Restarted(e, s)'
    BY NodeStepCalls
  <2>2. paxos'[n][s] = paxos[n][s]
    BY DEF SegmentKept
  <2>3. QED BY <1>1, <1>4, <2>1, <2>2 DEF SegmentOk, HalfDoneOk
<1>8. QED BY <1>2, <1>4, <1>5, <1>6, <1>7

LEMMA KeptLasts ==
  ASSUME QInv, NEW n \in Node, NodeStep(n), NEW s \in Txid, SegmentKept(n, s),
         WriterRises(n)
  PROVE  SegmentLasts(n, s)
<1> SUFFICES ASSUME NEW e \in Epoch, NEW i \in 1..Sent(e), Ans(e, i, n), calls[e][i].s = s
             PROVE  LastsOk(n, e, i)'
  BY DEF SegmentLasts
<1> DEFINE c == calls[e][i]
<1>1. /\ QTypeOK /\ i \in Serial /\ i > 0 /\ DiskTypeOK'
      /\ AnsweredOk(n, e, i) /\ calls' = calls
  BY CallType, Numbers DEF QInv, AnswersOk, NodeStep, IInv, TypeOK
<1>2. LastsOk(n, e, i) /\ Past(n, e, i)
  BY <1>1 DEF AnsweredOk
<1>3. /\ HasTxns(n, s)' <=> HasTxns(n, s)
      /\ HalfDone(n, s)' => HalfDone(n, s)
  BY KeptFiles
<1>4. /\ finalized'[n][s] = finalized[n][s] /\ paxos'[n][s] = paxos[n][s]
      /\ Txns(inProgress[n][s]) => inProgress'[n][s] = inProgress[n][s]
  BY DEF SegmentKept
<1>5. /\ Restarted(e, s) => \A r : r = s => Restarted(e, r)'
      /\ Started(e, s) => \A r : r = s => Started(e, r)'
      /\ answers'[e][i][n] = answers[e][i][n]
  BY <1>1, NodeStepCalls, NodeStepGrows DEF Grows
<1>6. JournalLasts(n, e, s, c.end) => \A r, t : r = s /\ t = c.end => JournalLasts(n, e, r, t)'
  <2> SUFFICES ASSUME JournalLasts(n, e, s, c.end)
               PROVE  \A r, t : r = s /\ t = c.end => JournalLasts(n, e, r, t)'
    OBVIOUS
  <2>1. CASE paxos[n][s] # NoFile
    BY <1>4, <2>1 DEF JournalLasts
  <2>2. CASE paxos[n][s] = NoFile
    <3>1. promised[n] = Torn \/ promised[n] >= e
      BY <1>2, PastIntegers DEF Past, Shut
    <3>2. writer[n] = Torn \/ writer[n] > e \/ (writer[n] = e /\ End(s, inProgress[n][s]) >= c.end)
      BY <2>2 DEF JournalLasts
    <3>3. /\ Txns(inProgress'[n][s]) /\ paxos'[n][s] = NoFile
          /\ End(s, inProgress'[n][s]) = End(s, inProgress[n][s])
      BY <1>4, <2>2 DEF JournalLasts
    <3>4. writer[n] \in Int /\ writer'[n] \in Int /\ promised[n] \in Int /\ e \in Int
      BY EpochsAreIntegers, Numbers DEF QInv, NodeStep, IInv, TypeOK, DiskTypeOK, Torn
    <3>5. \/ writer'[n] = Torn \/ writer'[n] > e
          \/ writer'[n] = e /\ End(s, inProgress'[n][s]) >= c.end
      BY <3>1, <3>2, <3>3, <3>4 DEF WriterRises
    <3>6. QED BY <3>3, <3>5 DEF JournalLasts
  <2>3. QED BY <2>1, <2>2
<1>7. /\ Restarted(e, s) => Restarted(e, calls[e][i].s)'
      /\ Started(e, s) => Started(e, calls[e][i].s)'
      /\ JournalLasts(n, e, s, c.end) => JournalLasts(n, e, calls[e][i].s, calls[e][i].end)'
  BY <1>1, <1>5, <1>6
<1>8. calls'[e][i] = c /\ c.s = s
  BY <1>1
<1>9. /\ HasTxns(n, s)' <=> HasTxns(n, calls[e][i].s)'
      /\ HalfDone(n, s)' <=> HalfDone(n, calls[e][i].s)'
      /\ AcceptLasts(n, e, s) => AcceptLasts(n, e, calls[e][i].s)'
  BY <1>4, <1>8 DEF HasTxns, HalfDone, AcceptLasts
<1>10. c.op = "prepare" => LastsOk(n, e, i)'
  BY <1>2, <1>3, <1>4, <1>5, <1>7, <1>8, <1>9 DEF LastsOk
<1>11. c.op # "prepare" => LastsOk(n, e, i)'
  BY <1>2, <1>4, <1>7, <1>8, <1>9 DEF LastsOk
<1>12. QED BY <1>10, <1>11

-----------------------------------------------------------------------------
(* A node handles a call, to the end or not *)

Called(n, e, i) ==
  /\ n \in Node /\ e \in Epoch /\ i \in 1..Sent(e)
  /\ NodeStep(n)
  /\ ~Past(n, e, i) /\ Past(n, e, i)' /\ promised'[n] = e

\* What n has heard before, it heard of earlier writers, or earlier of this one.
LEMMA CalledOrder ==
  ASSUME QInv, NEW n, NEW e, NEW i, Called(n, e, i)
  PROVE  /\ promised[n] # Torn /\ promised[n] <= e /\ writer[n] <= e
         /\ \A b \in Epoch : \A k \in 1..Sent(b) :
              Past(n, b, k) => b < e \/ (b = e /\ k < i)
<1>1. /\ promised[n] \in Int /\ ipcSerial[n] \in Int /\ e \in Int /\ i \in Int
      /\ \A b \in Epoch : b \in Int /\ lost[b][n] \in Int
  BY PastIntegers DEF Called
<1>2. /\ promised[n] # Torn /\ promised[n] <= e
      /\ promised[n] = e => i > ipcSerial[n] /\ i > lost[e][n]
  BY <1>1 DEF Called, Past, Shut
<1>3. ASSUME NEW b \in Epoch, NEW k \in 1..Sent(b), Past(n, b, k)
      PROVE  b < e \/ (b = e /\ k < i)
  <2>1. CASE Shut(n, b)
    BY <1>1, <1>2, <2>1 DEF Shut
  <2>2. CASE promised[n] = b /\ (k <= ipcSerial[n] \/ k <= lost[b][n])
    BY <1>1, <1>2, <2>2
  <2>3. QED BY <1>3, <2>1, <2>2 DEF Past
<1>4. writer[n] <= e
  <2>1. writer[n] \in Epoch \cup {0, Torn} /\ WriterHeard(n)
    BY DEF QInv, DiskOk, IInv, TypeOK, DiskTypeOK, Called
  <2>2. CASE writer[n] \in {0, Torn}
    BY <2>2, Numbers DEF Torn, Called
  <2>3. CASE writer[n] \in Epoch /\ writer[n] # 0 /\ writer[n] # Torn
    BY <1>1, <1>3, <2>1, <2>3 DEF WriterHeard
  <2>4. QED BY <2>1, <2>2, <2>3, Numbers
<1>5. QED BY <1>2, <1>3, <1>4

LEMMA WriterStays ==
  ASSUME QInv, NEW n \in Node, NodeStep(n), writer'[n] = writer[n]
  PROVE  WriterHeard(n)'
<1> SUFFICES ASSUME writer[n] \notin {0, Torn}
             PROVE  \E i \in 1..Len(calls'[writer[n]]) :
                      /\ calls'[writer[n]][i].op = "start"
                      /\ \A w : w = writer[n] => Past(n, w, i)'
  BY DEF WriterHeard, Sent
<1>1. writer[n] \in Epoch /\ QTypeOK /\ WriterHeard(n)
  BY DEF QInv, DiskOk, IInv, TypeOK, DiskTypeOK
<1>2. PICK i \in 1..Sent(writer[n]) :
        calls[writer[n]][i].op = "start" /\ Past(n, writer[n], i)
  BY <1>1 DEF WriterHeard
<1>3. i \in Serial /\ i <= Sent(writer[n]) /\ calls' = calls
  BY <1>1, CallType DEF NodeStep
<1>4. \A w : w = writer[n] => Past(n, w, i)'
  BY <1>1, <1>2, <1>3 DEF NodeStep, PastStays
<1>5. QED BY <1>2, <1>3, <1>4 DEF Sent

\* A step that does something to one segment only.
LEMMA OneSegmentPreserves ==
  ASSUME QInv, NEW n \in Node, NodeStep(n), writer'[n] = writer[n],
         NEW s \in Txid, \A r \in Txid \ {s} : SegmentKept(n, r),
         SegmentOk(n, s)', SegmentLasts(n, s)
  PROVE  DiskOk(n)' /\ \A r \in Txid : SegmentLasts(n, r)
<1>1. QTypeOK /\ Grows
  BY NodeStepGrows DEF QInv
<1>2. ASSUME NEW r \in Txid, r # s
      PROVE  SegmentOk(n, r)' /\ SegmentLasts(n, r)
  <2>1. SegmentKept(n, r) /\ SegmentOk(n, r)
    BY <1>2 DEF QInv, DiskOk
  <2>2. FilesOk(n, r)' /\ HeardOk(n, r)' /\ HalfDoneOk(n, r)'
    BY <2>1, KeptFiles
  <2>3. SourceOk(n, r)'
    BY <1>1, <2>1, SourceStays DEF SegmentKept, SegmentOk
  <2>4. SegmentLasts(n, r)
    BY <2>1, KeptLasts DEF WriterRises
  <2>5. QED BY <2>2, <2>3, <2>4 DEF SegmentOk
<1>3. QED BY <1>2, WriterStays DEF DiskOk

\* A step that does nothing to any segment.
LEMMA NoSegmentPreserves ==
  ASSUME QInv, NEW n \in Node, NodeStep(n), writer'[n] = writer[n],
         \A r \in Txid : SegmentKept(n, r)
  PROVE  DiskOk(n)' /\ \A r \in Txid : SegmentLasts(n, r)
<1>1. QTypeOK /\ Grows
  BY NodeStepGrows DEF QInv
<1>2. ASSUME NEW r \in Txid
      PROVE  SegmentOk(n, r)' /\ SegmentLasts(n, r)
  <2>1. SegmentKept(n, r) /\ SegmentOk(n, r)
    BY <1>2 DEF QInv, DiskOk
  <2>2. FilesOk(n, r)' /\ HeardOk(n, r)' /\ HalfDoneOk(n, r)'
    BY <2>1, KeptFiles
  <2>3. SourceOk(n, r)'
    BY <1>1, <2>1, SourceStays DEF SegmentKept, SegmentOk
  <2>4. SegmentLasts(n, r)
    BY <2>1, KeptLasts DEF WriterRises
  <2>5. QED BY <2>2, <2>3, <2>4 DEF SegmentOk
<1>3. QED BY <1>2, WriterStays DEF DiskOk

-----------------------------------------------------------------------------
(* startLogSegment *)

\* Whoever starts segment s has settled what a node knows before it.
LEMMA StartSettles ==
  ASSUME QInv, NEW n, NEW e, NEW i, Called(n, e, i), NEW s \in Txid,
         IsCall(e, i, "start", s), NEW r \in Txid, r # s, HeardStart(n, r)
  PROVE  Settled(e, r)
<1>1. QTypeOK /\ WritersOk /\ Started(e, s) /\ e \in Epoch
  BY DEF QInv, Called, Started
<1>2. PICK b \in Epoch : \E k \in 1..Sent(b) : IsCall(b, k, "start", r) /\ Past(n, b, k)
  BY DEF HeardStart
<1>3. PICK k \in 1..Sent(b) : IsCall(b, k, "start", r) /\ Past(n, b, k)
  BY <1>2
<1>4. /\ b < e \/ (b = e /\ k < i)
      /\ Started(b, r) /\ Used(r) /\ Used(s)
  BY <1>1, <1>3, CalledOrder DEF Started, Used
<1>5. r < s
  <2> SUFFICES ASSUME s < r PROVE FALSE
    BY Numbers
  <2>1. CASE b = e /\ k < i
    <3>1. Later(calls[e][k], calls[e][i])
      BY <1>1, <1>3, <2>1 DEF WritersOk, CallsOk, Called
    <3>2. QED BY <1>3, <2>1, <3>1, Numbers DEF Later, IsCall
  <2>2. CASE b < e
    <3>1. Closed(b, s, r)
      BY <1>1, <1>4, ChainCloses
    <3>2. PICK g \in Epoch : g <= b /\ \E j \in 1..Sent(g) : IsCall(g, j, "finalize", s)
      BY <3>1 DEF Closed
    <3>3. PICK j \in 1..Sent(g) : IsCall(g, j, "finalize", s)
      BY <3>2
    <3>4. FinalizeSent(g, s, calls[g][j].end)
      BY <3>3 DEF FinalizeSent
    <3>5. ~Restarted(g, s)
      BY <1>1, <3>4, FinalizeVoted
    <3>6. QED BY <1>1, <2>2, <3>2, <3>5, Numbers DEF Restarted
  <2>3. QED BY <1>4, <2>1, <2>2
<1>6. Closed(e, r, s)
  BY <1>1, <1>4, <1>5, ChainCloses
<1>7. QED BY <1>6 DEF Closed, Settled

\* What a node decided and never finalized is of one transaction, when a
\* later writer starts the segment.
LEMMA StartedDecision ==
  ASSUME QInv, NEW e \in Epoch, NEW s \in Txid, Started(e, s),
         NEW p, NEW end \in Txid, p < e, AcceptSent(p, s, end)
  PROVE  end = s
<1>1. QTypeOK /\ WritersOk /\ AcceptWritten
  BY DEF QInv, WritersOk
<1>2. p \in Epoch /\ IsCall(p, 2, "accept", s) /\ calls[p][2].end = end /\ 2 \in 1..Sent(p)
  BY <1>1, AcceptSentTwo DEF IsCall
<1>3. Follows(p, 1, calls[p][2])
  BY <1>1, <1>2, CallType DEF WritersOk, CallsOk
<1>4. end >= s
  BY <1>2, <1>3 DEF Follows, IsCall
<1>5. ASSUME end > s PROVE FALSE
  <2>1. PICK g \in Epoch : g < p /\ Journaled(g, s, end)
    BY <1>1, <1>2, <1>5 DEF AcceptWritten
  <2>2. ~Restarted(g, s)
    BY <1>1, <1>5, <2>1, OwnerStarted DEF Owns
  <2>3. QED BY <1>2, <2>1, <2>2, Numbers DEF Restarted
<1>6. QED BY <1>4, <1>5, Numbers

LEMMA StartableLog ==
  ASSUME NEW n, NEW s \in Txid, MayStart(n, s)
  PROVE  /\ finalized[n][s] = NoFile
         /\ Txns(inProgress[n][s]) => End(s, inProgress[n][s]) = s
<1>1. Txns(inProgress[n][s]) => 1 = Len(inProgress[n][s])
  BY DEF MayStart, Scanned, Txns
<1>2. s \in Int
  BY Numbers
<1>3. ASSUME Txns(inProgress[n][s]) PROVE End(s, inProgress[n][s]) = s
  <2>1. Len(inProgress[n][s]) = 1
    BY <1>1, <1>3
  <2>2. QED BY <1>2, <2>1 DEF End
<1>4. QED BY <1>3 DEF MayStart

\* What n answered of the segment, to this writer or to earlier ones, is not
\* bound by its restart.
LEMMA StartLasts ==
  ASSUME QInv, NEW n, NEW e, NEW i, Called(n, e, i), NEW s \in Txid,
         IsCall(e, i, "start", s), finalized[n][s] = NoFile,
         HalfDone(n, s)' => HalfDone(n, s) /\ paxos'[n][s] = paxos[n][s]
  PROVE  SegmentLasts(n, s)
<1> SUFFICES ASSUME NEW f \in Epoch, NEW k \in 1..Sent(f), Ans(f, k, n), calls[f][k].s = s
             PROVE  LastsOk(n, f, k)'
  BY DEF SegmentLasts
<1> DEFINE c == calls[f][k]
<1>1. /\ QTypeOK /\ WritersOk /\ k \in Serial /\ k > 0 /\ calls' = calls
      /\ n \in Node /\ e \in Epoch /\ AnsweredOk(n, f, k)
  BY CallType, Numbers DEF QInv, AnswersOk, Called, NodeStep
<1>2. LastsOk(n, f, k) /\ (f < e \/ (f = e /\ k < i))
  BY <1>1, CalledOrder DEF AnsweredOk
<1>3. c.op # "finalize"
  BY <1>2 DEF LastsOk
<1>4. /\ Started(e, s) /\ Started(e, calls[f][k].s)'
      /\ f < e => Restarted(f, calls[f][k].s)'
  <2>1. Started(e, s) /\ (f < e => Restarted(f, s))
    BY <1>1 DEF Started, Restarted, Called
  <2>2. \A r : r = s => Started(e, r)' /\ (f < e => Restarted(f, r)')
    BY <2>1, NodeStepCalls DEF Called
  <2>3. QED BY <1>1, <2>1, <2>2
<1>5. HalfDone(n, calls[f][k].s)' => HalfDone(n, s) /\ paxos'[n][s] = paxos[n][s]
  BY <1>1 DEF HalfDone
<1>6. CASE f < e
  BY <1>1, <1>2, <1>3, <1>4, <1>5, <1>6 DEF LastsOk
<1>7. CASE f = e /\ k < i
  <2>1. Later(calls[f][k], calls[e][i])
    BY <1>1, <1>7 DEF WritersOk, CallsOk, Called
  <2>2. c.op = "prepare"
    BY <2>1, Numbers DEF Later, IsCall
  <2>3. QED BY <1>1, <1>2, <1>4, <1>5, <1>7, <2>2 DEF LastsOk
<1>8. QED BY <1>2, <1>6, <1>7

\* The segment begins anew, with the old file or without.
LEMMA StartedAnew ==
  ASSUME QInv, NEW n, NEW e, NEW i, Called(n, e, i), NEW s \in Txid,
         IsCall(e, i, "start", s), MayStart(n, s), writer'[n] = e,
         finalized'[n][s] = NoFile, paxos'[n][s] = NoFile,
         inProgress'[n][s] \in {inProgress[n][s], <<>>, Blank},
         tmp'[n][s] = tmp[n][s]
  PROVE  SegmentOk(n, s)'
<1>1. QTypeOK /\ SegmentOk(n, s) /\ e \in Epoch /\ n \in Node /\ NodeStep(n)
  BY DEF QInv, DiskOk, Called
<1>2. FilesOk(n, s)'
  <2>1. \A file : Genuine(s, file) \/ ~Txns(file) => Genuine(s, file)'
    BY <1>1, NodeStepGrows, GenuineStays DEF Genuine, Txns
  <2>2. \A file : file = inProgress'[n][s] => Genuine(s, file)'
    BY <1>1, <2>1 DEF SegmentOk, FilesOk, Txns
  <2>3. \A f \in Epoch : \A file : file = tmp'[n][s][f] => Genuine(s, file)'
    BY <1>1, <2>1 DEF SegmentOk, FilesOk
  <2>4. QED BY <2>2, <2>3 DEF FilesOk
<1>3. HeardOk(n, s)'
  <2>1. HeardStart(n, s)'
    <3>1. i \in 1..Sent(e)' /\ IsCall(e, i, "start", s)' /\ Past(n, e, i)'
      BY <1>1, NodeStepCalls DEF Called
    <3>2. QED BY <1>1, <3>1 DEF HeardStart
  <2>2. ASSUME NEW f \in Epoch, tmp'[n][s][f] # NoFile
        PROVE  Sent(f)' >= 2 /\ Past(n, f, 2)'
    BY <1>1, <2>2, HeardHere, NodeStepCalls DEF SegmentOk, HeardOk
  <2>3. QED BY <2>1, <2>2 DEF HeardOk
<1>4. SourceOk(n, s)'
  <2>1. Started(e, s) /\ \A f : f = e => Started(f, s)'
    BY <1>1, NodeStepCalls DEF Called, Started
  <2>2. Txns(inProgress'[n][s]) => End(s, inProgress'[n][s]) = s
    BY StartableLog DEF Txns
  <2>3. Started(writer[n], s)'
    BY <2>1
  <2>4. Txns(inProgress[n][s])' => End(s, inProgress[n][s])' = s
    BY <2>2 DEF End
  <2>5. QED BY <2>3, <2>4 DEF SourceOk, End
<1>5. HalfDoneOk(n, s)'
  BY DEF HalfDoneOk, HalfDone
<1>6. QED BY <1>2, <1>3, <1>4, <1>5 DEF SegmentOk

\* The writer epoch is written and the rest is not.
LEMMA StartedOver ==
  ASSUME QInv, NEW n, NEW e, NEW i, Called(n, e, i), NEW s \in Txid,
         IsCall(e, i, "start", s), MayStart(n, s), writer'[n] = e,
         SegmentKept(n, s), inProgress'[n][s] = inProgress[n][s]
  PROVE  SegmentOk(n, s)'
<1>1. /\ QTypeOK /\ WritersOk /\ SegmentOk(n, s) /\ e \in Epoch /\ n \in Node
      /\ NodeStep(n) /\ DiskTypeOK
  BY DEF QInv, DiskOk, Called, IInv, TypeOK
<1>2. FilesOk(n, s)' /\ HeardOk(n, s)' /\ HalfDoneOk(n, s)'
  BY <1>1, KeptFiles
<1>3. SourceOk(n, s)'
  <2>1. Started(e, s) /\ \A f : f = e => Started(f, s)'
    BY <1>1, NodeStepCalls DEF Called, Started
  <2>2. Txns(inProgress[n][s])' => End(s, inProgress[n][s])' = s
    BY StartableLog DEF Txns, End
  <2>3. paxos'[n][s] # NoFile => paxos'[n][s].end = s
    <3> SUFFICES ASSUME paxos[n][s] # NoFile PROVE paxos[n][s].end = s
      BY DEF SegmentKept
    <3> DEFINE p == paxos[n][s].epoch
    <3>1. /\ p \in Epoch /\ paxos[n][s].end \in Txid
          /\ AcceptSent(p, s, paxos[n][s].end) /\ Past(n, p, 2)
      BY <1>1 DEF SegmentOk, HeardOk, DiskTypeOK, Decision
    <3>2. 2 \in 1..Sent(p) /\ IsCall(p, 2, "accept", s)
      BY <1>1, <3>1, AcceptSentTwo DEF IsCall
    <3>3. p < e \/ (p = e /\ 2 < i)
      BY <3>1, <3>2, CalledOrder
    <3>4. p # e
      BY <1>1, <3>2, AcceptAlone DEF IsCall, Called
    <3>5. QED BY <1>1, <2>1, <3>1, <3>3, <3>4, StartedDecision
  <2>4. QED BY <2>1, <2>2, <2>3 DEF SourceOk, End
<1>4. QED BY <1>2, <1>3 DEF SegmentOk

\* The other segments, when the writer epoch moves.
LEMMA StartKeepsOthers ==
  ASSUME QInv, NEW n, NEW e, NEW i, Called(n, e, i), NEW s \in Txid,
         IsCall(e, i, "start", s), writer'[n] \in {e, Torn},
         NEW r \in Txid, r # s \/ writer'[n] = Torn, SegmentKept(n, r)
  PROVE  SegmentOk(n, r)'
<1>1. QTypeOK /\ SegmentOk(n, r) /\ n \in Node /\ NodeStep(n) /\ Grows
  BY NodeStepGrows DEF QInv, DiskOk, Called
<1>2. FilesOk(n, r)' /\ HeardOk(n, r)' /\ HalfDoneOk(n, r)'
  BY <1>1, KeptFiles
<1>3. SourceOk(n, r)'
  <2> SUFFICES ASSUME writer'[n] = e, r # s,
                      paxos'[n][r] # NoFile \/ Txns(inProgress'[n][r])
               PROVE  Settled(writer[n], r)'
    BY DEF SourceOk
  <2>1. HasTxns(n, r) \/ paxos[n][r] # NoFile
    BY DEF SegmentKept, HasTxns, Txns
  <2>2. HeardStart(n, r)
    BY <1>1, <2>1 DEF SegmentOk, HeardOk
  <2>3. Settled(e, r)
    BY <2>2, StartSettles
  <2>4. \A f : f = e => Settled(f, r)'
    BY <1>1, <2>3, SettledStays
  <2>5. QED BY <2>4
<1>4. QED BY <1>2, <1>3 DEF SegmentOk

\* startLogSegment, to the end or not.
LEMMA StartPreserves ==
  ASSUME QInv, NEW n, NEW e, NEW i, Called(n, e, i), NEW s \in Txid,
         IsCall(e, i, "start", s), MayStart(n, s), writer[n] # Torn,
         \A r \in Txid \ {s} : SegmentKept(n, r),
         finalized'[n][s] = finalized[n][s], tmp'[n][s] = tmp[n][s],
         \/ /\ writer'[n] \in {e, Torn}
            /\ paxos'[n][s] = paxos[n][s] /\ inProgress'[n][s] = inProgress[n][s]
         \/ /\ writer'[n] = e /\ paxos'[n][s] = NoFile
            /\ inProgress'[n][s] \in {inProgress[n][s], <<>>, Blank}
  PROVE  DiskOk(n)' /\ \A r \in Txid : SegmentLasts(n, r)
<1>1. /\ n \in Node /\ NodeStep(n) /\ e \in Epoch /\ QTypeOK
      /\ writer'[n] \in {e, Torn} /\ finalized[n][s] = NoFile
  BY StartableLog DEF Called, QInv
<1>2. WriterRises(n)
  BY <1>1, CalledOrder DEF WriterRises
<1>3. WriterHeard(n)'
  <2>1. \A f : f = e => i \in 1..Sent(f)' /\ Past(n, f, i)' /\ calls'[f][i].op = "start"
    BY <1>1, NodeStepCalls DEF Called, NodeStep, IsCall
  <2> SUFFICES ASSUME writer'[n] = e
               PROVE  /\ i \in 1..Sent(writer[n])' /\ Past(n, writer[n], i)'
                      /\ calls'[writer'[n]][i].op = "start"
    BY <1>1 DEF WriterHeard
  <2>2. QED BY <2>1
<1>4. ASSUME NEW r \in Txid, r # s PROVE SegmentOk(n, r)' /\ SegmentLasts(n, r)
  BY <1>1, <1>2, <1>4, StartKeepsOthers, KeptLasts
<1>5. SegmentOk(n, s)'
  <2>1. CASE paxos'[n][s] = paxos[n][s] /\ inProgress'[n][s] = inProgress[n][s]
    <3>1. SegmentKept(n, s)
      BY <2>1 DEF SegmentKept
    <3>2. QED BY <1>1, <2>1, <3>1, StartedOver, StartKeepsOthers
  <2>2. CASE /\ writer'[n] = e /\ paxos'[n][s] = NoFile
             /\ inProgress'[n][s] \in {inProgress[n][s], <<>>, Blank}
    BY <1>1, <2>2, StartedAnew
  <2>3. QED BY <2>1, <2>2
<1>6. SegmentLasts(n, s)
  <2>1. HalfDone(n, s)' => HalfDone(n, s) /\ paxos'[n][s] = paxos[n][s]
    BY DEF HalfDone
  <2>2. QED BY <1>1, <2>1, StartLasts
<1>7. QED BY <1>3, <1>4, <1>5, <1>6 DEF DiskOk

-----------------------------------------------------------------------------
(* journal *)

\* A log with one transaction more, from the only writer of what follows the
\* first.
LEMMA GenuineGrows ==
  ASSUME QTypeOK, WritersOk, NEW e, NEW s \in Txid, NEW t, Journaled(e, s, t),
         NEW file \in Body, Genuine(s, file), t = s + Len(file)
  PROVE  /\ Genuine(s, file \o <<TxnOf(e, s, t)>>)
         /\ Txns(file \o <<TxnOf(e, s, t)>>)
         /\ End(s, file \o <<TxnOf(e, s, t)>>) = t
<1> DEFINE new == file \o <<TxnOf(e, s, t)>>
<1>1. /\ e \in Epoch /\ t \in Txid /\ s \in Int /\ t \in Int
      /\ Used(s) /\ Started(e, s)
  BY JournalStarted, Numbers DEF Used
<1>2. /\ TxnOf(e, s, t) \in Payload /\ <<TxnOf(e, s, t)>> \in Body
      /\ Len(file) \in Nat /\ file \in Seq(Payload)
  <2>1. TxnOf(e, s, t) \in {0} \cup Epoch
    BY <1>1 DEF TxnOf
  <2>2. TxnOf(e, s, t) \in Payload /\ <<TxnOf(e, s, t)>> \in Records
    BY <2>1, WritersAssumption
  <2>3. <<TxnOf(e, s, t)>> \in Body
    BY <2>2, LogAssumption
  <2>4. QED BY <2>2, <2>3, LenProperties DEF Body
<1>3. /\ new \in Body /\ Len(new) = Len(file) + 1
      /\ \A k \in 1..Len(file) : new[k] = file[k]
      /\ new[Len(file) + 1] = TxnOf(e, s, t)
  BY <1>2 DEF Body
<1>4. Txns(new)
  <2>1. new # <<>>
    BY <1>2, <1>3
  <2>2. QED BY <1>3, <2>1, AbsentAssumption DEF Txns
<1>5. End(s, new) = t
  BY <1>1, <1>2, <1>3 DEF End
<1>6. Genuine(s, new)
  <2>1. CASE Len(file) = 0
    <3>1. t = s /\ new[1] = 0 /\ Len(new) = 1
      BY <1>1, <1>3, <2>1 DEF TxnOf
    <3>2. QED BY <1>1, <3>1 DEF Genuine
  <2>2. CASE Len(file) # 0
    <3>1. t > s /\ TxnOf(e, s, t) = e /\ Owns(e, s)
      BY <1>1, <1>2, <2>2 DEF TxnOf, Owns
    <3>2. Txns(file)
      BY <2>2, AbsentAssumption DEF Txns
    <3>3. new[1] = 0
      BY <1>2, <1>3, <2>2, <3>2 DEF Genuine
    <3>4. \A k \in 2..Len(new) : new[k] = e
      <4> SUFFICES ASSUME NEW k \in 2..Len(new) PROVE new[k] = e
        OBVIOUS
      <4>1. CASE k = Len(file) + 1
        BY <1>3, <3>1, <4>1
      <4>2. CASE k # Len(file) + 1
        <5>1. k \in 2..Len(file) /\ new[k] = file[k]
          BY <1>2, <1>3, <4>2
        <5>2. PICK b \in Epoch : Owns(b, s) /\ file[k] = b
          BY <1>2, <3>2, <5>1 DEF Genuine
        <5>3. b = e
          BY <3>1, <5>2, OneOwner
        <5>4. QED BY <5>1, <5>2, <5>3
      <4>3. QED BY <4>1, <4>2
    <3>5. QED BY <1>1, <3>1, <3>3, <3>4 DEF Genuine
  <2>3. QED BY <2>1, <2>2
<1>7. QED BY <1>4, <1>5, <1>6

LEMMA EarlierIsPast ==
  ASSUME QInv, NEW n, NEW e, NEW i, Called(n, e, i), NEW k \in 1..Sent(e), k < i
  PROVE  Past(n, e, k)'
<1>1. ipcSerial'[n] \in Int /\ lost'[e][n] \in Int /\ i \in Int /\ k \in Int
  <2>1. ipcSerial'[n] \in Int
    BY Numbers DEF Called, NodeStep, IInv, TypeOK, MemoryTypeOK
  <2>2. lost'[e][n] \in Int
    BY Numbers DEF Called, NodeStep, QTypeOK
  <2>3. QED BY <2>1, <2>2 DEF Called
<1>2. QED BY <1>1 DEF Called, Past

LEMMA WrittenSegment ==
  ASSUME QInv, NEW n, NEW e, NEW i, Called(n, e, i), NEW s \in Txid,
         IsCall(e, i, "journal", s), inProgress[n][s] \in Body,
         calls[e][i].end = s + Len(inProgress[n][s]),
         finalized[n][s] = NoFile, paxos[n][s] = NoFile, writer[n] = e,
         inProgress'[n][s] = inProgress[n][s] \o <<TxnOf(e, s, calls[e][i].end)>>,
         finalized'[n][s] = NoFile, paxos'[n][s] = NoFile, writer'[n] = e,
         tmp'[n][s] = tmp[n][s]
  PROVE  SegmentOk(n, s)' /\ SegmentLasts(n, s) /\ LastsOk(n, e, i)'
<1> DEFINE t    == calls[e][i].end
           file == inProgress[n][s]
           new  == inProgress[n][s] \o <<TxnOf(e, s, calls[e][i].end)>>
<1>1. /\ QTypeOK /\ WritersOk /\ SegmentOk(n, s) /\ e \in Epoch /\ n \in Node
      /\ i \in 1..Sent(e) /\ NodeStep(n) /\ Grows /\ calls' = calls
  BY NodeStepGrows DEF QInv, DiskOk, Called, NodeStep
<1>2. Journaled(e, s, t)
  BY <1>1 DEF Journaled
<1>3. Started(e, s) /\ t \in Txid
  BY <1>1, <1>2, JournalStarted
<1>4. Genuine(s, new) /\ Txns(new) /\ End(s, new) = t
  <2>1. Genuine(s, file) /\ t = s + Len(file) /\ file \in Body
    BY <1>1 DEF SegmentOk, FilesOk
  <2> HIDE DEF t, file
  <2>2. /\ Genuine(s, file \o <<TxnOf(e, s, t)>>)
        /\ Txns(file \o <<TxnOf(e, s, t)>>)
        /\ End(s, file \o <<TxnOf(e, s, t)>>) = t
    BY <1>1, <1>2, <2>1, GenuineGrows
  <2>3. new = file \o <<TxnOf(e, s, t)>>
    BY DEF t, file
  <2>4. QED BY <2>2, <2>3
<1>5. FilesOk(n, s)'
  <2>1. \A f : Genuine(s, f) => Genuine(s, f)'
    BY <1>1, GenuineStays
  <2>2. \A f : f = inProgress'[n][s] => Genuine(s, f)'
    BY <1>4, <2>1
  <2>3. \A f \in Epoch : \A g : g = tmp'[n][s][f] => Genuine(s, g)'
    BY <1>1, <2>1 DEF SegmentOk, FilesOk
  <2>4. QED BY <2>2, <2>3 DEF FilesOk
<1>6. HeardOk(n, s)'
  <2>1. HeardStart(n, s)'
    <3>1. PICK k \in 1..Sent(e) : k < i /\ IsCall(e, k, "start", s)
      BY <1>1 DEF WritersOk, CallsOk, StartedBefore, IsCall
    <3>2. k \in 1..Sent(e)' /\ IsCall(e, k, "start", s)' /\ Past(n, e, k)'
      BY <1>1, <3>1, EarlierIsPast, NodeStepCalls
    <3>3. QED BY <1>1, <3>2 DEF HeardStart
  <2>2. ASSUME NEW f \in Epoch, tmp'[n][s][f] # NoFile
        PROVE  Sent(f)' >= 2 /\ Past(n, f, 2)'
    BY <1>1, <2>2, HeardHere, NodeStepCalls DEF SegmentOk, HeardOk
  <2>3. QED BY <2>1, <2>2 DEF HeardOk
<1>7. SourceOk(n, s)'
  <2>1. \A f, y : f = e /\ y = t => Started(f, s)' /\ Journaled(f, s, y)'
    BY <1>1, <1>2, <1>3, NodeStepCalls
  <2>2. End(s, inProgress[n][s])' = t
    BY <1>4 DEF End
  <2>3. Started(writer[n], s)' /\ Journaled(writer[n], s, End(s, inProgress[n][s]))'
    BY <2>1, <2>2
  <2>4. QED BY <2>3 DEF SourceOk
<1>8. HalfDoneOk(n, s)'
  BY DEF HalfDoneOk, HalfDone
<1>9. SegmentLasts(n, s)
  <2> SUFFICES ASSUME NEW f \in Epoch, NEW k \in 1..Sent(f), Ans(f, k, n), calls[f][k].s = s
               PROVE  LastsOk(n, f, k)'
    BY DEF SegmentLasts
  <2> DEFINE c == calls[f][k]
  <2>1. AnsweredOk(n, f, k) /\ k > 0 /\ calls'[f][k] = c /\ answers'[f][k][n] = answers[f][k][n]
    <3>1. k \in Serial /\ k > 0 /\ AnswersOk(n)
      BY <1>1, CallType, Numbers DEF QInv
    <3>2. QED BY <1>1, <3>1 DEF AnswersOk, Grows
  <2>2. LastsOk(n, f, k)
    BY <2>1 DEF AnsweredOk
  <2>3. /\ Restarted(f, s) => Restarted(f, calls[f][k].s)'
        /\ Started(f, s) => Started(f, calls[f][k].s)'
    <3>1. \A r : r = s => /\ Restarted(f, s) => Restarted(f, r)'
                          /\ Started(f, s) => Started(f, r)'
      BY <1>1, NodeStepCalls
    <3>2. QED BY <2>1, <3>1
  <2>4. HasTxns(n, calls[f][k].s)' /\ ~HalfDone(n, calls[f][k].s)'
    BY <1>4, <2>1 DEF HasTxns, HalfDone, Txns
  <2>5. c.op = "journal" => Restarted(f, s) \/ JournalLasts(n, f, calls[f][k].s, calls[f][k].end)'
    <3> SUFFICES ASSUME JournalLasts(n, f, s, c.end)
                 PROVE  JournalLasts(n, f, calls[f][k].s, calls[f][k].end)'
      BY <2>2 DEF LastsOk
    <3>1. t > End(s, file) /\ t \in Int /\ End(s, file) \in Int
      <4>1. Len(file) \in Nat /\ s \in Int /\ t = s + Len(file)
        BY Numbers, LenProperties DEF Body
      <4>2. End(s, file) = s + Len(file) - 1
        BY DEF End
      <4>3. \A l \in Nat, x \in Int : /\ x + l > x + l - 1
                                     /\ x + l \in Int /\ x + l - 1 \in Int
        OBVIOUS
      <4>4. End(s, file) \in Int /\ t \in Int
        BY <4>1, <4>2, <4>3
      <4>5. t > End(s, file)
        BY <4>1, <4>2, <4>3
      <4>6. QED BY <4>4, <4>5
    <3>2. c.end \in Int /\ f \in Int /\ e \in Int
      BY <1>1, CallType, Numbers
    <3>3. e > f \/ (e = f /\ t >= c.end)
      <4>1. e > f \/ (e = f /\ End(s, file) >= c.end)
        BY <1>1, Numbers DEF JournalLasts
      <4> HIDE DEF t, file, c
      <4>2. QED BY <3>1, <3>2, <4>1
    <3>4. Txns(inProgress[n][s])' /\ End(s, inProgress[n][s])' = t
      BY <1>4 DEF End, Txns
    <3>5. QED BY <2>1, <3>3, <3>4 DEF JournalLasts
  <2>6. c.op = "accept" => Restarted(f, s)
    BY <2>2 DEF LastsOk, AcceptLasts
  <2>7. c.op # "finalize"
    BY <2>2 DEF LastsOk
  <2>8. QED BY <2>1, <2>2, <2>3, <2>4, <2>5, <2>6, <2>7 DEF LastsOk
<1>10. LastsOk(n, e, i)'
  <2>1. calls'[e][i] = calls[e][i] /\ calls[e][i].op = "journal" /\ calls[e][i].s = s
    BY <1>1 DEF IsCall
  <2>2. Txns(inProgress[n][s])' /\ End(s, inProgress[n][s])' = t
    BY <1>4 DEF End, Txns
  <2>3. JournalLasts(n, e, calls[e][i].s, calls[e][i].end)'
    <3>1. t \in Int
      BY <1>3, Numbers
    <3>2. End(s, inProgress'[n][s]) >= t /\ Txns(inProgress'[n][s])
      BY <2>2, <3>1 DEF End
    <3>3. QED BY <2>1, <3>2 DEF JournalLasts
  <2>4. QED BY <2>1, <2>3 DEF LastsOk
<1>11. QED BY <1>5, <1>6, <1>7, <1>8, <1>9, <1>10 DEF SegmentOk

-----------------------------------------------------------------------------
(* finalizeLogSegment *)

LEMMA FinalizedSegment ==
  ASSUME QInv, NEW n, NEW e, NEW i, Called(n, e, i), NEW s \in Txid,
         IsCall(e, i, "finalize", s), HasTxns(n, s),
         finalized'[n][s] # NoFile, finalized'[n][s].end = calls[e][i].end,
         Genuine(s, finalized'[n][s].body),
         inProgress'[n][s] = NoFile, paxos'[n][s] \in {NoFile, paxos[n][s]},
         tmp'[n][s] = tmp[n][s]
  PROVE  SegmentOk(n, s)' /\ SegmentLasts(n, s) /\ LastsOk(n, e, i)'
<1>1. /\ QTypeOK /\ WritersOk /\ SegmentOk(n, s) /\ e \in Epoch /\ n \in Node
      /\ i \in 1..Sent(e) /\ NodeStep(n) /\ Grows /\ calls' = calls
  BY NodeStepGrows DEF QInv, DiskOk, Called, NodeStep
<1>2. FilesOk(n, s)'
  <2>1. \A f : Genuine(s, f) \/ ~Txns(f) => Genuine(s, f)'
    BY <1>1, GenuineStays DEF Genuine, Txns
  <2>2. \A f : f = inProgress'[n][s] => Genuine(s, f)'
    BY <2>1 DEF Txns
  <2>3. \A f \in Epoch : \A g : g = tmp'[n][s][f] => Genuine(s, g)'
    BY <1>1, <2>1 DEF SegmentOk, FilesOk
  <2>4. \A f : f = finalized'[n][s].body => Genuine(s, f)'
    BY <2>1
  <2>5. QED BY <2>2, <2>3, <2>4 DEF FilesOk
<1>3. HeardOk(n, s)'
  <2>1. HeardStart(n, s)'
    BY <1>1, HeardHere DEF SegmentOk, HeardOk
  <2>2. ASSUME NEW f \in Epoch, tmp'[n][s][f] # NoFile
        PROVE  Sent(f)' >= 2 /\ Past(n, f, 2)'
    BY <1>1, <2>2, HeardHere, NodeStepCalls DEF SegmentOk, HeardOk
  <2>3. \A end : end = finalized'[n][s].end => HeardFinalize(n, s, end)'
    <3> SUFFICES ASSUME NEW end, end = calls[e][i].end
                 PROVE  HeardFinalize(n, s, end)'
      OBVIOUS
    <3>1. i \in 1..Sent(e)' /\ IsCall(e, i, "finalize", s)' /\ Past(n, e, i)'
      BY <1>1, NodeStepCalls DEF Called
    <3>2. QED BY <1>1, <3>1 DEF HeardFinalize
  <2>4. paxos'[n][s] # NoFile =>
          \A f, end : f = paxos'[n][s].epoch /\ end = paxos'[n][s].end =>
            AcceptSent(f, s, end)' /\ Past(n, f, 2)'
    <3> SUFFICES ASSUME paxos[n][s] # NoFile, NEW f, NEW end,
                        f = paxos[n][s].epoch, end = paxos[n][s].end
                 PROVE  AcceptSent(f, s, end)' /\ Past(n, f, 2)'
      OBVIOUS
    <3>1. AcceptSent(f, s, end) /\ Past(n, f, 2)
      BY <1>1 DEF SegmentOk, HeardOk
    <3>2. f \in Epoch /\ Sent(f) >= 2
      BY <1>1, <3>1, AcceptSentTwo
    <3>3. QED BY <1>1, <3>1, <3>2, HeardHere, NodeStepCalls
  <2>5. QED BY <2>1, <2>2, <2>3, <2>4 DEF HeardOk
<1>4. SourceOk(n, s)'
  BY DEF SourceOk
<1>5. HalfDone(n, s)' => HalfDone(n, s) /\ paxos'[n][s] = paxos[n][s]
  BY DEF HalfDone
<1>6. HalfDoneOk(n, s)'
  <2>1. \A f : Restarted(f, s) => Restarted(f, s)'
    BY <1>1, NodeStepCalls
  <2>2. QED BY <1>1, <1>5, <2>1 DEF SegmentOk, HalfDoneOk
<1>7. SegmentLasts(n, s)
  <2> SUFFICES ASSUME NEW f \in Epoch, NEW k \in 1..Sent(f), Ans(f, k, n), calls[f][k].s = s
               PROVE  LastsOk(n, f, k)'
    BY DEF SegmentLasts
  <2>1. k \in Serial /\ k > 0 /\ AnswersOk(n)
    BY <1>1, CallType, Numbers DEF QInv
  <2>2. /\ LastsOk(n, f, k) /\ calls'[f][k] = calls[f][k]
        /\ answers'[f][k][n] = answers[f][k][n]
    BY <1>1, <2>1 DEF AnswersOk, AnsweredOk, Grows
  <2>3. HasTxns(n, calls[f][k].s)'
    BY <2>2 DEF HasTxns
  <2>4. HalfDone(n, calls[f][k].s)' => HalfDone(n, s) /\ paxos'[n][s] = paxos[n][s]
    BY <1>5, <2>2 DEF HalfDone
  <2>5. QED BY <2>2, <2>3, <2>4 DEF LastsOk
<1>8. LastsOk(n, e, i)'
  BY <1>1 DEF LastsOk, IsCall
<1>9. QED BY <1>2, <1>3, <1>4, <1>6, <1>7, <1>8 DEF SegmentOk

-----------------------------------------------------------------------------
(* prepareRecovery *)

\* A scan finds transactions where there are some; such a file is kept.
LEMMA KeptTxns ==
  ASSUME NEW n, NEW s, NEW file \in LogFile, NEW len \in Scanned(file)
  PROVE  /\ Txns(file) => Kept(n, s, file, len) = file /\ len = Len(file) /\ len > 0
         /\ ~Txns(file) => ~Txns(Kept(n, s, file, len))
<1>1. ~Txns(NoFile)
  BY DEF Txns
<1>2. CASE Txns(file)
  <2>1. file \in Body /\ file # <<>> /\ len = Len(file)
    BY <1>2 DEF Txns, LogFile, Scanned
  <2>2. len \in Nat /\ len # 0
    BY <2>1, EmptySeq, LenProperties DEF Body
  <2>3. QED BY <1>2, <2>1, <2>2 DEF Kept
<1>3. CASE ~Txns(file)
  BY <1>1, <1>3 DEF Kept
<1>4. QED BY <1>2, <1>3

\* The decision of the segment is complete: its log is in place.
LEMMA CompletedSegment ==
  ASSUME QInv, NEW n, NEW e, NEW i, Called(n, e, i), NEW s \in Txid, HalfDone(n, s),
         writer'[n] = writer[n], finalized'[n][s] = finalized[n][s],
         paxos'[n][s] = paxos[n][s],
         tmp'[n][s] = [tmp[n][s] EXCEPT ![paxos[n][s].epoch] = NoFile],
         \/ inProgress'[n][s] = tmp[n][s][paxos[n][s].epoch]
         \/ ~Txns(inProgress'[n][s]) /\ ~Txns(tmp[n][s][paxos[n][s].epoch])
  PROVE  SegmentOk(n, s)' /\ SegmentLasts(n, s) /\ ~HalfDone(n, s)'
<1> DEFINE p   == paxos[n][s].epoch
           log == tmp[n][s][paxos[n][s].epoch]
<1>1. /\ QTypeOK /\ WritersOk /\ SegmentOk(n, s) /\ e \in Epoch /\ n \in Node
      /\ i \in 1..Sent(e) /\ NodeStep(n) /\ Grows /\ calls' = calls
      /\ p \in Epoch /\ paxos[n][s] # NoFile
      /\ tmp[n][s] \in [Epoch -> LogFile]
  <2>1. /\ QTypeOK /\ WritersOk /\ SegmentOk(n, s) /\ e \in Epoch /\ n \in Node
        /\ i \in 1..Sent(e) /\ NodeStep(n) /\ Grows /\ calls' = calls
    BY NodeStepGrows DEF QInv, DiskOk, Called, NodeStep
  <2>2. paxos[n][s] # NoFile
    BY DEF HalfDone
  <2>3. DiskTypeOK
    BY DEF QInv, IInv, TypeOK
  <2>4. p \in Epoch
    BY <2>1, <2>2, <2>3 DEF DiskTypeOK, Decision
  <2>5. tmp[n][s] \in [Epoch -> LogFile]
    BY <2>1, <2>3 DEF DiskTypeOK, LogFile
  <2>6. QED BY <2>1, <2>2, <2>4, <2>5
<1>2. /\ tmp'[n][s][p] = NoFile
      /\ \A f \in Epoch : tmp'[n][s][f] \in {tmp[n][s][f], NoFile}
  BY <1>1
<1>3. FilesOk(n, s)'
  <2>1. \A f : Genuine(s, f) \/ ~Txns(f) => Genuine(s, f)'
    BY <1>1, GenuineStays DEF Genuine, Txns
  <2>2. \A f : f = inProgress'[n][s] => Genuine(s, f)'
    BY <1>1, <2>1 DEF SegmentOk, FilesOk
  <2>3. \A f \in Epoch : \A g : g = tmp'[n][s][f] => Genuine(s, g)'
    <3>1. ~Txns(NoFile)
      BY DEF Txns
    <3>2. QED BY <1>1, <1>2, <2>1, <3>1 DEF SegmentOk, FilesOk
  <2>4. \A f : finalized[n][s] # NoFile /\ f = finalized'[n][s].body => Genuine(s, f)'
    BY <1>1, <2>1 DEF SegmentOk, FilesOk
  <2>5. QED BY <2>2, <2>3, <2>4 DEF FilesOk
<1>4. HeardOk(n, s)'
  <2>1. HeardStart(n, s)'
    BY <1>1, HeardHere DEF SegmentOk, HeardOk
  <2>2. ASSUME NEW f \in Epoch, tmp'[n][s][f] # NoFile
        PROVE  Sent(f)' >= 2 /\ Past(n, f, 2)'
    BY <1>1, <1>2, <2>2, HeardHere, NodeStepCalls DEF SegmentOk, HeardOk
  <2>3. finalized'[n][s] # NoFile =>
          \A end : end = finalized'[n][s].end => HeardFinalize(n, s, end)'
    BY <1>1, HeardHere DEF SegmentOk, HeardOk
  <2>4. \A f, end : f = paxos'[n][s].epoch /\ end = paxos'[n][s].end =>
          AcceptSent(f, s, end)' /\ Past(n, f, 2)'
    <3> SUFFICES ASSUME NEW f, NEW end, f = p, end = paxos[n][s].end
                 PROVE  AcceptSent(f, s, end)' /\ Past(n, f, 2)'
      OBVIOUS
    <3>1. AcceptSent(f, s, end) /\ Past(n, f, 2)
      BY <1>1 DEF SegmentOk, HeardOk
    <3>2. f \in Epoch /\ Sent(f) >= 2
      BY <1>1, <3>1, AcceptSentTwo
    <3>3. QED BY <1>1, <3>1, <3>2, HeardHere, NodeStepCalls
  <2>5. QED BY <2>1, <2>2, <2>3, <2>4 DEF HeardOk
<1>5. SourceOk(n, s)'
  <2>1. \A v : Settled(v, s) => Settled(v, s)'
    BY <1>1, SettledStays
  <2>2. \A v : Started(v, s) => Started(v, s)'
    BY <1>1, NodeStepCalls
  <2>3. QED BY <1>1, <2>1, <2>2 DEF SegmentOk, SourceOk
<1>6. ~HalfDone(n, s)'
  BY <1>2 DEF HalfDone
<1>7. HalfDoneOk(n, s)'
  BY <1>6 DEF HalfDoneOk
<1>8. SegmentLasts(n, s)
  <2> SUFFICES ASSUME NEW f \in Epoch, NEW k \in 1..Sent(f), Ans(f, k, n), calls[f][k].s = s
               PROVE  LastsOk(n, f, k)'
    BY DEF SegmentLasts
  <2> DEFINE c == calls[f][k]
  <2>1. k \in Serial /\ k > 0 /\ AnswersOk(n)
    BY <1>1, CallType, Numbers DEF QInv
  <2>2. /\ LastsOk(n, f, k) /\ calls'[f][k] = calls[f][k]
        /\ answers'[f][k][n] = answers[f][k][n]
    BY <1>1, <2>1 DEF AnswersOk, AnsweredOk, Grows
  <2>3. Txns(log) \/ Restarted(p, s)
    BY <1>1 DEF SegmentOk, HalfDoneOk
  <2>4. Txns(log) => Txns(inProgress'[n][s])
    OBVIOUS
  <2>5. /\ Restarted(p, s) /\ p >= f => Restarted(f, s)
        /\ p > f => p >= f
    BY <1>1, Numbers DEF Restarted
  <2>6. /\ Restarted(f, s) => Restarted(f, calls[f][k].s)'
        /\ Started(f, s) => Started(f, calls[f][k].s)'
    <3>1. \A r : r = s => /\ Restarted(f, s) => Restarted(f, r)'
                          /\ Started(f, s) => Started(f, r)'
      BY <1>1, NodeStepCalls
    <3>2. QED BY <2>2, <3>1
  <2>7. ~HalfDone(n, calls[f][k].s)'
    BY <1>6, <2>2 DEF HalfDone
  <2>8. CASE c.op = "journal"
    <3>1. finalized[n][s] # NoFile \/ Restarted(f, s) \/ p > f
      BY <1>1, <2>2, <2>8 DEF LastsOk, JournalLasts
    <3>2. finalized'[n][s] # NoFile \/ Restarted(f, s) \/ (p > f /\ Txns(inProgress'[n][s]))
      BY <2>3, <2>4, <2>5, <3>1
    <3>3. QED BY <1>1, <2>2, <2>6, <2>8, <3>2 DEF LastsOk, JournalLasts
  <2>9. CASE c.op = "accept"
    <3>1. finalized[n][s] # NoFile \/ Restarted(f, s) \/ p >= f
      BY <1>1, <2>2, <2>9 DEF LastsOk, AcceptLasts
    <3>2. finalized'[n][s] # NoFile \/ Restarted(f, s) \/ (p >= f /\ Txns(inProgress'[n][s]))
      BY <2>3, <2>4, <2>5, <3>1
    <3>3. QED BY <1>1, <2>2, <2>6, <2>9, <3>2 DEF LastsOk, AcceptLasts
  <2>10. CASE c.op = "prepare"
    <3>1. p >= f
      BY <2>2, <2>10 DEF LastsOk
    <3>2. Txns(inProgress'[n][s]) \/ Restarted(f, s)
      BY <2>3, <2>4, <2>5, <3>1
    <3>3. HasTxns(n, calls[f][k].s)' \/ Restarted(f, s)
      BY <2>2, <3>2 DEF HasTxns, Txns
    <3>4. QED BY <2>2, <2>6, <2>7, <2>10, <3>3 DEF LastsOk
  <2>11. CASE c.op \notin {"journal", "accept", "prepare"}
    BY <2>2, <2>11 DEF LastsOk
  <2>12. QED BY <2>8, <2>9, <2>10, <2>11
<1>9. QED BY <1>3, <1>4, <1>5, <1>6, <1>7, <1>8 DEF SegmentOk

\* A prepare call is the first.
LEMMA PrepareFirst ==
  ASSUME QTypeOK, WritersOk, NEW e \in Epoch, NEW i \in 1..Sent(e),
         calls[e][i].op = "prepare"
  PROVE  i = 1
<1>1. Sent(e) \in Nat /\ i \in Int
  BY CallType
<1>2. ASSUME i # 1 PROVE FALSE
  <2>1. i \in 2..Sent(e)
    BY <1>1, <1>2
  <2>2. Follows(e, i - 1, calls[e][i])
    BY <2>1 DEF WritersOk, CallsOk
  <2>3. QED BY <2>2 DEF Follows
<1>3. QED BY <1>2

LEMMA InfoIsInfo ==
  ASSUME DiskTypeOK', NEW n \in Node, NEW s \in Txid, writer'[n] # Torn
  PROVE  InfoOf(n, s)' \in Info
<1>1. CASE ~HasTxns(n, s)'
  BY <1>1 DEF InfoOf, Info
<1>2. CASE HasTxns(n, s)'
  <2> DEFINE epoch == IF paxos'[n][s] # NoFile /\ finalized'[n][s] = NoFile
                         /\ paxos'[n][s].epoch > writer'[n]
                      THEN paxos'[n][s].epoch ELSE writer'[n]
             final == finalized'[n][s] # NoFile
             end   == LastTxid(n, s)'
  <2>1. InfoOf(n, s)' = [answered |-> TRUE, exists |-> TRUE, end |-> end,
                         finalized |-> final, epoch |-> epoch]
    BY <1>2 DEF InfoOf
  <2>2. epoch \in Epoch \cup {0}
    <3>1. paxos'[n][s] # NoFile => paxos'[n][s].epoch \in Epoch
      BY DEF DiskTypeOK, Decision
    <3>2. writer'[n] \in Epoch \cup {0}
      BY DEF DiskTypeOK
    <3>3. QED BY <3>1, <3>2
  <2>3. end \in Int
    <3>1. CASE finalized'[n][s] # NoFile
      <4>1. finalized'[n][s].end \in Int
        BY <3>1, Numbers DEF DiskTypeOK, FinalLog
      <4>2. QED BY <3>1, <4>1 DEF LastTxid
    <3>2. CASE finalized'[n][s] = NoFile
      <4>1. inProgress'[n][s] \in Seq(Payload)
        BY <1>2, <3>2 DEF HasTxns, DiskTypeOK, Body
      <4>2. Len(inProgress'[n][s]) \in Nat /\ s \in Int
        BY <4>1, Numbers, LenProperties
      <4>3. QED BY <3>2, <4>2 DEF LastTxid, End
    <3>3. QED BY <3>1, <3>2
  <2>4. final \in BOOLEAN
    OBVIOUS
  <2>5. \A x \in Int, b \in BOOLEAN, y \in Epoch \cup {0} :
          [answered |-> TRUE, exists |-> TRUE, end |-> x, finalized |-> b, epoch |-> y]
            \in Info
    BY DEF Info
  <2> HIDE DEF epoch, final, end
  <2>6. QED BY <2>1, <2>2, <2>3, <2>4, <2>5
<1>3. QED BY <1>1, <1>2

\* What a node told of the segment, it holds from earlier writers.
LEMMA PreparedIsTold ==
  ASSUME QInv, NEW n, NEW e, NEW i, Called(n, e, i), NEW s \in Txid,
         IsCall(e, i, "prepare", s), SegmentOk(n, s)',
         writer'[n] = writer[n], writer[n] # Torn,
         finalized'[n][s] = NoFile /\ paxos'[n][s] # NoFile /\ Txns(inProgress'[n][s])
           => paxos'[n][s].end = End(s, inProgress'[n][s]),
         answers'[e][1][n] = InfoOf(n, s)'
  PROVE  InfoTold(n, e)'
<1> DEFINE a == InfoOf(n, s)'
<1>1. /\ QTypeOK /\ WritersOk /\ e \in Epoch /\ n \in Node /\ NodeStep(n)
      /\ i \in 1..Sent(e) /\ promised'[n] = e /\ DiskTypeOK' /\ writer[n] <= e
  BY CalledOrder DEF QInv, Called, NodeStep, IInv, TypeOK
<1>2. IsCall(e, 1, "prepare", s) /\ a \in Info
  BY <1>1, PrepareFirst, InfoIsInfo DEF IsCall
<1>3. \A f \in Epoch, j \in Serial : Past(n, f, j)' => f <= e
  BY <1>1, Numbers DEF Past, Shut
<1>4. ASSUME a.exists, a.finalized
      PROVE  \E f \in Epoch : f <= e /\ \A y : y = a.end => FinalizeSent(f, s, y)'
  <2>1. HasTxns(n, s)' /\ finalized'[n][s] # NoFile /\ a.end = finalized'[n][s].end
    <3>1. HasTxns(n, s)'
      BY <1>4 DEF InfoOf
    <3>2. finalized'[n][s] # NoFile /\ a.end = LastTxid(n, s)'
      BY <1>4, <3>1, InfoFields
    <3>3. QED BY <3>1, <3>2 DEF LastTxid
  <2>2. \A y : y = a.end => HeardFinalize(n, s, y)'
    BY <2>1 DEF SegmentOk, HeardOk
  <2>3. PICK f \in Epoch : \E j \in 1..Sent(f)' :
          /\ \A op, r : op = "finalize" /\ r = s => IsCall(f, j, op, r)'
          /\ calls'[f][j].end = a.end /\ Past(n, f, j)'
    BY <2>2 DEF HeardFinalize
  <2>4. PICK j \in 1..Sent(f)' :
          /\ IsCall(f, j, "finalize", s)'
          /\ calls'[f][j].end = a.end /\ Past(n, f, j)'
    BY <2>3
  <2>5. j \in Serial
    BY <1>1, CallType, NodeStepCalls
  <2>6. f <= e
    BY <1>3, <2>4, <2>5
  <2>7. \A y : y = a.end => FinalizeSent(f, s, y)'
    BY <2>4 DEF FinalizeSent
  <2>8. QED BY <2>6, <2>7
<1>5. ASSUME a.exists, ~a.finalized
      PROVE  /\ a.epoch <= e
             /\ \A f, y : f = a.epoch /\ y = a.end =>
                  \/ AcceptSent(f, s, y)'
                  \/ Started(f, s)' /\ (y = s \/ Journaled(f, s, y)')
                  \/ Settled(f, s)'
  <2>1. /\ finalized'[n][s] = NoFile /\ Txns(inProgress'[n][s])
        /\ a.end = End(s, inProgress'[n][s])
        /\ a.epoch = IF paxos'[n][s] # NoFile /\ paxos'[n][s].epoch > writer'[n]
                     THEN paxos'[n][s].epoch ELSE writer'[n]
    <3>1. HasTxns(n, s)'
      BY <1>5 DEF InfoOf
    <3>2. finalized'[n][s] = NoFile /\ a.end = LastTxid(n, s)'
      BY <1>5, <3>1, InfoFields
    <3>3. a.epoch = IF paxos'[n][s] # NoFile /\ paxos'[n][s].epoch > writer'[n]
                    THEN paxos'[n][s].epoch ELSE writer'[n]
      BY <3>1, <3>2, InfoFields
    <3>4. QED BY <3>1, <3>2, <3>3 DEF LastTxid, HasTxns, Txns, End
  <2>2. CASE paxos'[n][s] # NoFile /\ paxos'[n][s].epoch > writer'[n]
    <3>1. a.epoch = paxos'[n][s].epoch /\ a.end = paxos'[n][s].end
      BY <2>1, <2>2
    <3>2. \A f, y : f = a.epoch /\ y = a.end => AcceptSent(f, s, y)' /\ Past(n, f, 2)'
      BY <2>2, <3>1 DEF SegmentOk, HeardOk
    <3>3. a.epoch \in Epoch
      BY <1>1, <2>2, <3>1 DEF DiskTypeOK, Decision
    <3>4. 2 \in Serial
      <4>1. \E y : AcceptSent(a.epoch, s, y)
        <5>1. \A f, y : f = a.epoch /\ y = a.end => AcceptSent(f, s, y)
          BY <1>1, <3>2, NodeStepCalls
        <5>2. QED BY <5>1
      <4>2. 2 \in 1..Sent(a.epoch)
        BY <1>1, <4>1, AcceptSentTwo DEF IsCall
      <4>3. QED BY <1>1, <3>3, <4>2, CallType
    <3>5. \A f : f = a.epoch => f <= e
      BY <1>3, <3>2, <3>3, <3>4
    <3>6. QED BY <3>2, <3>5
  <2>3. CASE ~(paxos'[n][s] # NoFile /\ paxos'[n][s].epoch > writer'[n])
    <3>1. a.epoch = writer[n] /\ a.epoch <= e
      BY <1>1, <2>1, <2>3
    <3>2. writer'[n] # Torn /\ SourceOk(n, s)'
      BY DEF SegmentOk
    <3>3. CASE paxos'[n][s] # NoFile
      <4>1. writer'[n] >= paxos'[n][s].epoch /\ paxos'[n][s].end = a.end
        <5>1. writer'[n] \in Int /\ paxos'[n][s].epoch \in Int
          BY <1>1, <3>3, EpochsAreIntegers, Numbers DEF DiskTypeOK, Decision, Torn
        <5>2. QED BY <2>1, <2>3, <3>3, <5>1
      <4>2. \A f, y : f = writer'[n] /\ y = a.end => Settled(f, s)' \/ (Started(f, s)' /\ y = s)
        BY <2>1, <3>2, <3>3, <4>1 DEF SourceOk
      <4>3. QED BY <3>1, <4>2
    <3>4. CASE paxos'[n][s] = NoFile
      <4>1. \A f, y : f = writer'[n] /\ y = End(s, inProgress'[n][s]) =>
              Settled(f, s)' \/ (Started(f, s)' /\ (y = s \/ Journaled(f, s, y)'))
        BY <2>1, <3>2, <3>4 DEF SourceOk, End
      <4>2. QED BY <2>1, <3>1, <4>1
    <3>5. QED BY <3>3, <3>4
  <2>4. QED BY <2>2, <2>3
<1>6. ASSUME NEW r \in Txid, IsCall(e, 1, "prepare", r)'
      PROVE  r = s
  BY <1>1, <1>2, <1>6, NodeStepCalls DEF IsCall
<1>7. ASSUME NEW r \in Txid, IsCall(e, 1, "prepare", r)'
      PROVE  LET b == answers'[e][1][n]
             IN  /\ b \in Info
                 /\ b.exists /\ b.finalized =>
                      \E f \in Epoch : f <= e /\ \A y : y = b.end => FinalizeSent(f, r, y)'
                 /\ b.exists /\ ~b.finalized =>
                      /\ b.epoch <= e
                      /\ \A f, y : f = b.epoch /\ y = b.end =>
                           \/ AcceptSent(f, r, y)'
                           \/ Started(f, r)' /\ (y = r \/ Journaled(f, r, y)')
                           \/ Settled(f, r)'
  BY <1>2, <1>4, <1>5, <1>6, <1>7
<1>8. QED BY <1>7 DEF InfoTold

-----------------------------------------------------------------------------
(* acceptRecovery *)

\* What a download that is cut off leaves is the beginning of the log.
LEMMA GenuinePrefix ==
  ASSUME NEW s, NEW body \in Body, Genuine(s, body), NEW k \in 0..Len(body)
  PROVE  SubSeq(body, 1, k) \in Body /\ Genuine(s, SubSeq(body, 1, k))
<1> DEFINE new == SubSeq(body, 1, k)
<1>1. body \in Seq(Payload) /\ Len(body) \in Nat
  BY LenProperties DEF Body
<1>2. /\ new \in Body /\ Len(new) = k
      /\ \A j \in 1..k : new[j] = body[j]
  BY <1>1 DEF Body
<1>3. Genuine(s, new)
  <2>1. CASE k = 0
    <3>1. new = <<>>
      BY <1>2, <2>1, EmptySeq DEF Body
    <3>2. QED BY <3>1 DEF Genuine, Txns
  <2>2. CASE k # 0
    <3>1. body # <<>> /\ Txns(body)
      BY <1>1, <2>2, AbsentAssumption DEF Txns
    <3>2. Used(s) /\ body[1] = 0
      BY <3>1 DEF Genuine
    <3>3. new[1] = 0
      BY <1>1, <1>2, <2>2, <3>2
    <3>4. Len(body) = 1 \/ \E e \in Epoch : Owns(e, s) /\ \A j \in 2..Len(body) : body[j] = e
      BY <3>1 DEF Genuine
    <3>5. CASE Len(body) = 1
      <4>1. Len(new) = 1
        BY <1>2, <2>2, <3>5
      <4>2. QED BY <3>2, <3>3, <4>1 DEF Genuine
    <3>6. ASSUME NEW e \in Epoch, Owns(e, s), \A j \in 2..Len(body) : body[j] = e
          PROVE  Genuine(s, new)
      <4>1. \A j \in 2..Len(new) : j \in 1..k /\ j \in 2..Len(body)
        BY <1>1, <1>2
      <4>2. \A j \in 2..Len(new) : new[j] = e
        BY <1>2, <3>6, <4>1
      <4>3. QED BY <3>2, <3>3, <3>6, <4>2 DEF Genuine
    <3>7. QED BY <3>4, <3>5, <3>6
  <2>3. QED BY <2>1, <2>2
<1>4. QED BY <1>2, <1>3

\* Who recovers a segment does not start it: an earlier writer did.
LEMMA RecoveredEarlier ==
  ASSUME QInv, NEW e \in Epoch, NEW s \in Txid, NEW i \in 1..Sent(e),
         IsCall(e, i, "accept", s)
  PROVE  /\ i = 2 /\ calls[e][1].op = "prepare"
         /\ ~Started(e, s)
         /\ \E b \in Epoch : b < e /\ Started(b, s)
<1>1. QTypeOK /\ WritersOk
  BY DEF QInv
<1>2. /\ i = 2 /\ IsCall(e, 1, "prepare", s)
      /\ \A j \in 1..Sent(e) : calls[e][j].s = s =>
           j = 2 \/ calls[e][j].op \in {"prepare", "finalize"}
  BY <1>1, AcceptAlone
<1>3. ~Started(e, s)
  BY <1>2 DEF Started, IsCall
<1>4. PICK b \in Epoch : b <= e /\ Started(b, s)
  BY CallIsOfUsed DEF IsCall
<1>5. QED BY <1>2, <1>3, <1>4, Numbers DEF IsCall

\* What the node with the best log serves is a log, unless the segment began
\* anew.
LEMMA ServedLog ==
  ASSUME QInv, NEW e \in Epoch, NEW s \in Txid, NEW i \in 1..Sent(e),
         IsCall(e, i, "accept", s), NEW body \in Served(calls[e][i].from, s)
  PROVE  /\ body \in LogFile /\ body # NoFile /\ Genuine(s, body)
         /\ Txns(body) \/ Restarted(e, s)
<1> DEFINE m == calls[e][i].from
<1>1. QTypeOK /\ WritersOk /\ DiskTypeOK /\ i = 2 /\ ~Started(e, s)
  BY RecoveredEarlier DEF QInv, IInv, TypeOK
<1>2. Follows(e, 1, calls[e][2]) /\ Sent(e) \in Nat
  BY <1>1, CallType DEF WritersOk, CallsOk
<1>3. /\ calls[e][1].op = "prepare" /\ calls[e][1].s = s /\ Proposes(e, calls[e][2])
      /\ 1 \in 1..Sent(e) /\ 1 \in Serial
  <2>1. calls[e][1].op = "prepare" /\ calls[e][1].s = s /\ Proposes(e, calls[e][2])
    BY <1>1, <1>2 DEF Follows, IsCall
  <2>2. 1 \in 1..Sent(e)
    BY <1>1, <1>2
  <2>3. QED BY <1>1, <2>1, <2>2, CallType
<1>4. m \in Node /\ Ans(e, 1, m) /\ answers[e][1][m].exists
  <2>1. PICK Q \in Quorum : /\ Answered(e, 1, Q) /\ calls[e][2].from \in Q
                            /\ answers[e][1][calls[e][2].from].exists
    BY <1>3 DEF Proposes
  <2>2. QED BY <1>1, <2>1, QuorumNotEmpty DEF Answered, Ans
<1>5. HasTxns(m, s) \/ Restarted(e, s)
  <2>1. LastsOk(m, e, 1)
    BY <1>3, <1>4 DEF QInv, AnswersOk, AnsweredOk
  <2>2. QED BY <1>1, <1>3, <1>4, <2>1 DEF LastsOk
<1>6. FilesOk(m, s)
  BY <1>4 DEF QInv, DiskOk, SegmentOk
<1>7. CASE finalized[m][s] # NoFile
  <2>1. body = finalized[m][s].body
    BY <1>7 DEF Served
  <2>2. /\ body \in Body
        /\ \E f \in Epoch : FinalizeSent(f, s, finalized[m][s].end)
        /\ Len(body) = finalized[m][s].end + 1 - s
    BY <1>4, <1>7, <2>1, CopyWasFinalized
  <2>3. finalized[m][s].end \in Txid /\ s <= finalized[m][s].end
    BY <1>1, <2>2, FinalizeVoted
  <2>4. Len(body) # 0
    BY <2>2, <2>3, Numbers
  <2>5. Txns(body)
    BY <2>2, <2>4, AbsentAssumption DEF Txns
  <2>6. QED BY <1>6, <1>7, <2>1, <2>2, <2>5, AbsentAssumption DEF FilesOk, LogFile
<1>8. CASE finalized[m][s] = NoFile
  <2>1. body = inProgress[m][s] /\ body # NoFile
    BY <1>8 DEF Served, NoLogFile
  <2>2. body \in LogFile
    BY <1>1, <1>4, <2>1 DEF DiskTypeOK, LogFile
  <2>3. HasTxns(m, s) => Txns(body)
    BY <1>8, <2>1 DEF HasTxns, Txns
  <2>4. QED BY <1>5, <1>6, <2>1, <2>2, <2>3 DEF FilesOk
<1>9. QED BY <1>7, <1>8

\* A node that handles acceptRecovery has no decision and no download of the
\* same writer.
LEMMA NotDecidedYet ==
  ASSUME QInv, NEW n, NEW e, NEW i, Called(n, e, i), NEW s \in Txid,
         IsCall(e, i, "accept", s)
  PROVE  /\ i = 2 /\ Sent(e) >= 2 /\ Past(n, e, 2)'
         /\ paxos[n][s] # NoFile => paxos[n][s].epoch # e
         /\ tmp[n][s][e] = NoFile
         /\ writer[n] < e
<1>1. /\ i = 2 /\ calls[e][1].op = "prepare" /\ SegmentOk(n, s) /\ e \in Epoch
      /\ n \in Node /\ i \in 1..Sent(e) /\ QTypeOK /\ Sent(e) \in Nat
  BY RecoveredEarlier, CallType DEF QInv, DiskOk, Called
<1>2. ~Past(n, e, 2) /\ Past(n, e, 2)'
  BY <1>1 DEF Called
<1>3. /\ paxos[n][s] # NoFile => paxos[n][s].epoch # e
      /\ tmp[n][s][e] = NoFile
  BY <1>1, <1>2 DEF SegmentOk, HeardOk
<1>4. writer[n] # e
  <2> SUFFICES ASSUME writer[n] = e PROVE FALSE
    OBVIOUS
  <2>1. PICK k \in 1..Sent(e) : calls[e][k].op = "start" /\ Past(n, e, k)
    BY <1>1, Numbers DEF QInv, DiskOk, WriterHeard
  <2>2. k < i \/ e < e
    BY <1>1, <2>1, CalledOrder
  <2>3. k = 1
    BY <1>1, <2>2, Numbers
  <2>4. QED BY <1>1, <2>1, <2>3
<1>5. writer[n] < e
  <2>1. writer[n] \in Int /\ e \in Int /\ writer[n] <= e
    BY <1>1, CalledOrder, EpochsAreIntegers, Numbers DEF QInv, IInv, TypeOK
  <2>2. QED BY <1>4, <2>1
<1>6. QED BY <1>1, <1>2, <1>3, <1>5

\* The decision is written; the log is in place, or where recovery finds it.
LEMMA DecidedSegment ==
  ASSUME QInv, NEW n, NEW e, NEW i, Called(n, e, i), NEW s \in Txid,
         IsCall(e, i, "accept", s), writer'[n] = writer[n],
         finalized'[n][s] = finalized[n][s],
         paxos'[n][s] = [epoch |-> e, end |-> calls[e][i].end],
         Genuine(s, inProgress'[n][s]),
         Txns(inProgress[n][s]) => Txns(inProgress'[n][s]) \/ Restarted(e, s),
         \A f \in Epoch \ {e} : tmp'[n][s][f] = tmp[n][s][f],
         \/ tmp'[n][s][e] = NoFile
         \/ Genuine(s, tmp'[n][s][e]) /\ (Txns(tmp'[n][s][e]) \/ Restarted(e, s))
  PROVE  /\ SegmentOk(n, s)' /\ SegmentLasts(n, s)
         /\ finalized[n][s] # NoFile \/ Txns(inProgress'[n][s]) \/ Restarted(e, s)
              => LastsOk(n, e, i)'
<1> DEFINE end == calls[e][i].end
<1>1. /\ QTypeOK /\ WritersOk /\ SegmentOk(n, s) /\ e \in Epoch /\ n \in Node
      /\ i \in 1..Sent(e) /\ NodeStep(n) /\ Grows /\ calls' = calls /\ DiskTypeOK
  BY NodeStepGrows DEF QInv, DiskOk, Called, NodeStep, IInv, TypeOK
<1>2. /\ i = 2 /\ Sent(e) >= 2 /\ Past(n, e, 2)' /\ writer[n] < e
      /\ calls[e][1].op = "prepare" /\ ~Started(e, s)
  BY <1>1, NotDecidedYet, RecoveredEarlier
<1>3. /\ paxos'[n][s] # NoFile /\ paxos'[n][s].epoch = e /\ paxos'[n][s].end = end
      /\ calls[e][i].s = s /\ calls[e][i].op = "accept"
  <2>1. end \in Txid
    <3>1. Follows(e, 1, calls[e][2])
      BY <1>1, <1>2, CallType DEF WritersOk, CallsOk
    <3>2. calls[e][2].end >= calls[e][2].s /\ calls[e][2].end \in 0..MaxTxid
      BY <1>1, <1>2, <3>1, CallType DEF Follows, IsCall
    <3>3. QED BY <1>2, <3>2, Numbers, BoundsAssumption DEF IsCall, Txid
  <2>2. [epoch |-> e, end |-> end] \in [epoch : Epoch, end : Txid]
    BY <1>1, <2>1
  <2>3. QED BY <2>2, AbsentAssumption DEF IsCall
<1>4. FilesOk(n, s)'
  <2>1. \A f : Genuine(s, f) \/ ~Txns(f) => Genuine(s, f)'
    BY <1>1, GenuineStays DEF Genuine, Txns
  <2>2. \A f : f = inProgress'[n][s] => Genuine(s, f)'
    BY <2>1
  <2>3. \A f \in Epoch : \A g : g = tmp'[n][s][f] => Genuine(s, g)'
    <3>1. ~Txns(NoFile)
      BY DEF Txns
    <3>2. QED BY <1>1, <2>1, <3>1 DEF SegmentOk, FilesOk
  <2>4. \A f : finalized[n][s] # NoFile /\ f = finalized'[n][s].body => Genuine(s, f)'
    BY <1>1, <2>1 DEF SegmentOk, FilesOk
  <2>5. QED BY <2>2, <2>3, <2>4 DEF FilesOk
<1>5. HeardOk(n, s)'
  <2>1. HeardStart(n, s)'
    <3>1. PICK b \in Epoch : b < e /\ Started(b, s)
      BY <1>1, RecoveredEarlier
    <3>2. PICK j \in 1..Sent(b) : IsCall(b, j, "start", s)
      BY <3>1 DEF Started
    <3>3. Past(n, b, j)'
      BY <3>1 DEF Past, Shut, Called
    <3>4. j \in 1..Sent(b)' /\ IsCall(b, j, "start", s)'
      BY <1>1, <3>2, NodeStepCalls
    <3>5. QED BY <3>3, <3>4 DEF HeardStart
  <2>2. ASSUME NEW f \in Epoch, tmp'[n][s][f] # NoFile
        PROVE  Sent(f)' >= 2 /\ Past(n, f, 2)'
    <3>1. CASE f = e
      BY <1>1, <1>2, <3>1, NodeStepCalls
    <3>2. CASE f # e
      BY <1>1, <2>2, <3>2, HeardHere, NodeStepCalls DEF SegmentOk, HeardOk
    <3>3. QED BY <3>1, <3>2
  <2>3. finalized'[n][s] # NoFile =>
          \A y : y = finalized'[n][s].end => HeardFinalize(n, s, y)'
    BY <1>1, HeardHere DEF SegmentOk, HeardOk
  <2>4. \A f, y : f = paxos'[n][s].epoch /\ y = paxos'[n][s].end =>
          AcceptSent(f, s, y)' /\ Past(n, f, 2)'
    <3>1. AcceptSent(e, s, end)
      BY <1>1 DEF AcceptSent
    <3>2. QED BY <1>1, <1>2, <1>3, <3>1, NodeStepCalls
  <2>5. QED BY <2>1, <2>2, <2>3, <2>4 DEF HeardOk
<1>6. SourceOk(n, s)'
  <2>1. writer[n] \in Int /\ e \in Int
    BY <1>1, EpochsAreIntegers, Numbers
  <2>2. ~(writer'[n] >= paxos'[n][s].epoch)
    BY <1>2, <1>3, <2>1
  <2>3. QED BY <1>3, <2>2 DEF SourceOk
<1>7. HalfDoneOk(n, s)'
  <2>1. \A f : Restarted(f, s) => Restarted(f, s)'
    BY <1>1, NodeStepCalls
  <2>2. Restarted(e, s) => Restarted(paxos[n][s].epoch, s)'
    BY <1>3, <2>1
  <2>3. QED BY <1>3, <2>2 DEF HalfDoneOk, HalfDone
<1>8. SegmentLasts(n, s)
  <2> SUFFICES ASSUME NEW f \in Epoch, NEW k \in 1..Sent(f), Ans(f, k, n), calls[f][k].s = s
               PROVE  LastsOk(n, f, k)'
    BY DEF SegmentLasts
  <2> DEFINE c == calls[f][k]
  <2>1. k \in Serial /\ k > 0 /\ AnswersOk(n)
    BY <1>1, CallType, Numbers DEF QInv
  <2>2. /\ LastsOk(n, f, k) /\ calls'[f][k] = calls[f][k]
        /\ answers'[f][k][n] = answers[f][k][n] /\ Past(n, f, k)
    BY <1>1, <2>1 DEF AnswersOk, AnsweredOk, Grows
  <2>3. f < e \/ (f = e /\ k = 1)
    <3>1. f < e \/ (f = e /\ k < 2)
      BY <1>2, <2>2, CalledOrder
    <3>2. QED BY <2>1, <3>1, Numbers
  <2>4. f < e /\ Restarted(e, s) => Restarted(f, s)
    BY <1>1, Numbers DEF Restarted
  <2>5. /\ Restarted(f, s) => Restarted(f, calls[f][k].s)'
        /\ Started(f, s) => Started(f, calls[f][k].s)'
    <3>1. \A r : r = s => /\ Restarted(f, s) => Restarted(f, r)'
                          /\ Started(f, s) => Started(f, r)'
      BY <1>1, NodeStepCalls
    <3>2. QED BY <2>2, <3>1
  <2>6. CASE c.op \in {"journal", "accept"}
    <3>1. f < e
      BY <1>2, <2>3, <2>6
    <3>2. finalized[n][s] # NoFile \/ Restarted(f, s) \/ Txns(inProgress[n][s])
      BY <2>2, <2>6 DEF LastsOk, JournalLasts, AcceptLasts
    <3>3. finalized'[n][s] # NoFile \/ Restarted(f, s) \/ Txns(inProgress'[n][s])
      BY <2>4, <3>1, <3>2
    <3>4. e > f /\ e >= f
      BY <1>1, <3>1, Numbers
    <3>5. QED BY <1>3, <2>2, <2>5, <2>6, <3>3, <3>4 DEF LastsOk, JournalLasts, AcceptLasts
  <2>7. CASE c.op = "prepare"
    <3>1. paxos'[n][calls'[f][k].s].epoch >= f
      BY <1>1, <1>3, <2>2, <2>3, Numbers
    <3>2. HasTxns(n, s) => HasTxns(n, s)' \/ Restarted(e, s)
      BY DEF HasTxns, Txns
    <3>3. f = e \/ f < e
      BY <2>3
    <3>4. HasTxns(n, s) => HasTxns(n, calls[f][k].s)' \/ Restarted(f, s)
      BY <2>2, <2>4, <3>2, <3>3 DEF HasTxns
    <3>5. answers'[f][k][n].exists => HasTxns(n, s) \/ Started(f, s) \/ Restarted(f, s)
      BY <2>2, <2>7 DEF LastsOk
    <3>6. QED BY <2>2, <2>5, <2>7, <3>1, <3>4, <3>5 DEF LastsOk
  <2>8. CASE c.op \notin {"journal", "accept", "prepare"}
    BY <2>2, <2>8 DEF LastsOk
  <2>9. QED BY <2>6, <2>7, <2>8
<1>9. ASSUME finalized[n][s] # NoFile \/ Txns(inProgress'[n][s]) \/ Restarted(e, s)
      PROVE  LastsOk(n, e, i)'
  <2>1. Restarted(e, s) => \A r : r = s => Restarted(e, r)'
    BY <1>1, NodeStepCalls
  <2>2. calls'[e][i] = calls[e][i]
    BY <1>1
  <2>3. Restarted(e, s) => Restarted(e, calls[e][i].s)'
    BY <1>3, <2>1, <2>2
  <2>4. e >= e
    BY <1>1, Numbers
  <2>5. QED BY <1>3, <1>9, <2>2, <2>3, <2>4 DEF LastsOk, AcceptLasts
<1>10. QED BY <1>4, <1>5, <1>6, <1>7, <1>8, <1>9 DEF SegmentOk

-----------------------------------------------------------------------------
(* How a node takes a call *)

Req(e, i) == [epoch |-> e, serial |-> i, committed |-> calls[e][i].committed]

\* The node that takes call i promises its epoch, and remembers the serial
\* unless its process ends.
Takes(n, e, i) ==
  /\ NodeOnly(n) /\ promised'[n] = e
  /\ \/ Up(n)' /\ ipcSerial'[n] = i
     \/ ~Up(n)' /\ rc'[n] = -1

\* The calls of writers are requests a journal expects.
LEMMA RequestOf ==
  ASSUME QInv, NEW e \in Epoch, NEW i \in 1..Sent(e)
  PROVE  /\ Req(e, i) \in Request
         /\ Req(e, i).epoch = e /\ Req(e, i).serial = i
<1>1. i \in Serial /\ calls[e][i] \in Call
  BY CallType DEF QInv
<1>2. calls[e][i].committed \in Committed
  BY <1>1, WritersAssumption DEF Call
<1>3. QED BY <1>1, <1>2 DEF Req, Request

LEMMA CallEnds ==
  ASSUME QInv, NEW e \in Epoch, NEW i \in 1..Sent(e)
  PROVE  LET c == calls[e][i]
         IN  /\ c.s \in Txid
             /\ c.op = "journal" => c.end \in Txid /\ Journaled(e, c.s, c.end)
             /\ c.op = "finalize" => c.end \in c.s..MaxTxid /\ FinalizeSent(e, c.s, c.end)
             /\ c.op = "accept" => c.end \in Txid /\ c.end >= c.s
<1> DEFINE c == calls[e][i]
<1>1. /\ QTypeOK /\ WritersOk /\ c.s \in Txid /\ c.end \in 0..MaxTxid
      /\ i \in Int /\ i >= 1 /\ CallsOk(e)
  BY CallType DEF QInv, WritersOk
<1>2. c.op = "journal" => c.end \in Txid /\ Journaled(e, c.s, c.end)
  <2> SUFFICES ASSUME c.op = "journal" PROVE c.end \in Txid /\ Journaled(e, c.s, c.end)
    OBVIOUS
  <2>1. Journaled(e, c.s, c.end)
    BY DEF Journaled, IsCall
  <2>2. QED BY <1>1, <2>1, JournalStarted
<1>3. c.op = "finalize" => c.end \in c.s..MaxTxid /\ FinalizeSent(e, c.s, c.end)
  <2> SUFFICES ASSUME c.op = "finalize"
               PROVE  c.end \in c.s..MaxTxid /\ FinalizeSent(e, c.s, c.end)
    OBVIOUS
  <2>1. FinalizeSent(e, c.s, c.end)
    BY DEF FinalizeSent, IsCall
  <2>2. c.end \in Txid /\ c.s <= c.end
    BY <1>1, <2>1, FinalizeVoted
  <2>3. QED BY <1>1, <2>1, <2>2, Numbers
<1>4. c.op = "accept" => c.end \in Txid /\ c.end >= c.s
  <2> SUFFICES ASSUME c.op = "accept" PROVE c.end \in Txid /\ c.end >= c.s
    OBVIOUS
  <2>1. IsCall(e, i, "accept", c.s)
    BY DEF IsCall
  <2>2. i = 2 /\ i \in 2..Sent(e)
    BY <1>1, <2>1, AcceptAlone, CallType
  <2>3. Follows(e, i - 1, c)
    BY <1>1, <2>2 DEF CallsOk
  <2>4. c.end >= c.s
    BY <2>3 DEF Follows
  <2>5. QED BY <1>1, <2>4, Numbers DEF Txid
<1>5. QED BY <1>1, <1>2, <1>3, <1>4

LEMMA NodeOnlyResult ==
  ASSUME QInv, NEW n \in Node, Preserves(n), calls' = calls,
         \A m \in Node \ {n} : tmp'[m] = tmp[m] /\ ipcSerial'[m] = ipcSerial[m]
  PROVE  NodeOnly(n)
BY StepPreserves DEF QInv, Preserves, NodeOnly

LEMMA AliveTakes ==
  ASSUME QInv, NEW n \in Node, NEW e \in Epoch, NEW i \in 1..Sent(e), calls' = calls,
         Preserves(n), Passes(n, Req(e, i)), Promise(n, Req(e, i).epoch),
         Remember(n, Req(e, i)), status' = status,
         \A m \in Node \ {n} : tmp'[m] = tmp[m]
  PROVE  Takes(n, e, i)
<1>1. promised'[n] = e
  BY RequestOf, PromiseResult DEF QInv, IInv, TypeOK
<1>2. /\ ipcSerial'[n] = i
      /\ \A m \in Node \ {n} : ipcSerial'[m] = ipcSerial[m]
  BY RequestOf DEF QInv, IInv, TypeOK, MemoryTypeOK, Remember
<1>3. Up(n)'
  BY DEF Passes, Formatted, Up
<1>4. QED BY <1>1, <1>2, <1>3, NodeOnlyResult DEF Takes

LEMMA DeadTakes ==
  ASSUME QInv, NEW n \in Node, NEW e \in Epoch, NEW i \in 1..Sent(e), calls' = calls,
         Preserves(n), Promise(n, Req(e, i).epoch),
         NEW why \in Status \ {"up"}, Die(n, why),
         \A m \in Node \ {n} : tmp'[m] = tmp[m]
  PROVE  Takes(n, e, i) /\ ~Up(n)'
<1>1. promised'[n] = e
  BY RequestOf, PromiseResult DEF QInv, IInv, TypeOK
<1>2. /\ \A m \in Node \ {n} : ipcSerial'[m] = ipcSerial[m]
      /\ status'[n] = why /\ rc'[n] = -1
  BY DEF QInv, IInv, TypeOK, MemoryTypeOK, Die, Return
<1>3. ~Up(n)'
  BY <1>2 DEF Up
<1>4. QED BY <1>1, <1>2, <1>3, NodeOnlyResult DEF Takes

\* What a node answers it has heard in this step, for the first time.
LEMMA TakesCalled ==
  ASSUME QInv, NEW n \in Node, NEW e \in Epoch, NEW i \in 1..Sent(e), Takes(n, e, i),
         i > lost[e][n], ~Fenced(n, e), ~OutOfOrder(n, Req(e, i)),
         \/ Up(n)' /\ lost' = lost
         \/ ~Up(n)' /\ Disconnect(n),
         \/ answers' = answers
         \/ rc'[n] = 0 /\ \E a \in Reply : answers' = [answers EXCEPT ![e][i][n] = a]
  PROVE  Called(n, e, i)
<1>1. /\ i \in Serial /\ i \in Int /\ i >= 1 /\ i # 0 /\ i <= Sent(e)
  BY CallType DEF QInv
<1>2. /\ promised[n] \in Int /\ ipcSerial[n] \in Int
      /\ e \in Int /\ e # Torn /\ lost[e][n] \in Int
  BY PastIntegers
<1>3. promised[n] # Torn /\ ~(e < promised[n])
  BY DEF Fenced
<1>4. ~(i <= SerialFloor(n, e))
  BY RequestOf DEF OutOfOrder
<1>5. ~Past(n, e, i)
  BY <1>1, <1>2, <1>3, <1>4 DEF Past, Shut, SerialFloor
<1>6. NodeStep(n) /\ Past(n, e, i)'
  <2>1. CASE Up(n)' /\ lost' = lost
    <3>1. Done \in Reply
      BY DEF Reply
    <3>2. PICK a \in Reply : answers' = answers \/ answers' = [answers EXCEPT ![e][i][n] = a]
      BY <3>1
    <3>3. ipcSerial'[n] = i
      BY <2>1 DEF Takes
    <3>4. QED BY <1>1, <1>5, <2>1, <3>2, <3>3, HearsStep DEF Takes
  <2>2. CASE ~Up(n)' /\ Disconnect(n)
    <3>1. answers' = answers
      BY <2>2 DEF Takes
    <3>2. promised'[n] >= promised[n]
      BY <1>2, <1>3 DEF Takes
    <3>3. QED BY <1>1, <1>3, <2>2, <3>1, <3>2, EndsStep DEF Takes
  <2>3. QED BY <2>1, <2>2
<1>7. QED BY <1>5, <1>6 DEF Called, Takes

-----------------------------------------------------------------------------
(* What each call leaves: its disk, its answers, and the one it gives now *)

Keeps(n, e, i) ==
  /\ DiskOk(n)' /\ \A r \in Txid : SegmentLasts(n, r)
  /\ rc'[n] = 0 => LastsOk(n, e, i)'

\* A call that is refused, or at which the process ends, with the files as
\* they were.
LEMMA UnchangedKeeps ==
  ASSUME QInv, NEW n, NEW e, NEW i, Called(n, e, i), UNCHANGED <<writer, logs>>,
         rc'[n] # 0
  PROVE  Keeps(n, e, i)
<1>1. \A r \in Txid : SegmentKept(n, r)
  BY DEF SegmentKept, logs
<1>2. QED BY <1>1, NoSegmentPreserves DEF Called, Keeps, logs

\* What a step returns.
LEMMA Returned ==
  ASSUME QInv, NEW n \in Node
  PROVE  /\ \A code : Return(n, code) => rc'[n] = code
         /\ \A why : Die(n, why) => rc'[n] = -1
BY DEF QInv, IInv, TypeOK, MemoryTypeOK, Return, Die

LEMMA StartTakes ==
  ASSUME QInv, NEW n \in Node, NEW e \in Epoch, NEW i \in 1..Sent(e), calls' = calls,
         Start(n, Req(e, i), calls[e][i])
  PROVE  Takes(n, e, i)
<1> DEFINE s == calls[e][i].s
<1>1. IInv /\ s \in Txid /\ Req(e, i) \in Request
  BY RequestOf, CallEnds DEF QInv
<1>2. CASE StartLogSegment(n, Req(e, i), s)
  BY <1>1, <1>2, StartLogSegmentPreserves, AliveTakes DEF StartLogSegment
<1>3. CASE RefuseStartLogSegment(n, Req(e, i), s)
  BY <1>1, <1>3, RefuseStartLogSegmentPreserves, AliveTakes
  DEF RefuseStartLogSegment, logs
<1>4. CASE AbortStartLogSegment(n, Req(e, i), s)
  <2>1. PICK why \in Status \ {"up"} : Die(n, why)
    BY <1>4 DEF AbortStartLogSegment, Status
  <2>2. QED
    BY <1>1, <1>4, <2>1, AbortStartLogSegmentPreserves, DeadTakes
    DEF AbortStartLogSegment, logs
<1>5. QED BY <1>2, <1>3, <1>4 DEF Start

LEMMA CrashInStartTakes ==
  ASSUME QInv, NEW n \in Node, NEW e \in Epoch, NEW i \in 1..Sent(e), calls' = calls,
         CrashInStartLogSegment(n, Req(e, i), calls[e][i].s)
  PROVE  Takes(n, e, i) /\ ~Up(n)'
<1>1. Die(n, "down") /\ "down" \in Status \ {"up"}
  BY DEF CrashInStartLogSegment, Status
<1>2. Preserves(n)
  BY RequestOf, CallEnds, CrashInStartLogSegmentPreserves DEF QInv
<1>3. QED BY <1>1, <1>2, DeadTakes DEF CrashInStartLogSegment

LEMMA StartKeeps ==
  ASSUME QInv, NEW n, NEW e, NEW i, Called(n, e, i), calls[e][i].op = "start",
         \/ Start(n, Req(e, i), calls[e][i])
         \/ CrashInStartLogSegment(n, Req(e, i), calls[e][i].s)
  PROVE  Keeps(n, e, i)
<1> DEFINE s == calls[e][i].s
<1>1. /\ n \in Node /\ e \in Epoch /\ i \in 1..Sent(e) /\ s \in Txid
      /\ IsCall(e, i, "start", s) /\ Req(e, i).epoch = e /\ calls' = calls
      /\ DiskTypeOK
  BY RequestOf, CallEnds DEF Called, NodeStep, IsCall, QInv, IInv, TypeOK
<1>2. LastsOk(n, e, i)'
  BY <1>1 DEF LastsOk
<1>3. CASE StartLogSegment(n, Req(e, i), s)
  <2>1. /\ MayStart(n, s) /\ writer[n] # Torn /\ writer'[n] = e
        /\ finalized' = finalized /\ tmp' = tmp
    BY <1>1, <1>3 DEF StartLogSegment, DiskTypeOK
  <2>2. /\ inProgress'[n][s] = <<>> /\ paxos'[n][s] = NoFile
        /\ \A r \in Txid \ {s} : /\ inProgress'[n][r] = inProgress[n][r]
                                 /\ paxos'[n][r] = paxos[n][r]
    BY <1>1, <1>3 DEF StartLogSegment, OpenSegment, DiskTypeOK
  <2>3. \A r \in Txid \ {s} : SegmentKept(n, r)
    BY <2>1, <2>2 DEF SegmentKept
  <2>4. QED BY <1>1, <1>2, <2>1, <2>2, <2>3, StartPreserves DEF Keeps
<1>4. CASE RefuseStartLogSegment(n, Req(e, i), s)
  <2>1. rc'[n] # 0
    BY <1>1, <1>4, Returned DEF RefuseStartLogSegment
  <2>2. QED BY <1>4, <2>1, UnchangedKeeps DEF RefuseStartLogSegment
<1>5. CASE AbortStartLogSegment(n, Req(e, i), s)
  <2>1. rc'[n] # 0
    BY <1>1, <1>5, Returned DEF AbortStartLogSegment
  <2>2. QED BY <1>5, <2>1, UnchangedKeeps DEF AbortStartLogSegment
<1>6. CASE CrashInStartLogSegment(n, Req(e, i), s)
  <2>1. /\ MayStart(n, s) /\ writer[n] # Torn
        /\ finalized' = finalized /\ tmp' = tmp
    BY <1>6 DEF CrashInStartLogSegment
  <2>2. /\ \/ /\ writer'[n] \in {e, Torn}
              /\ inProgress' = inProgress /\ paxos' = paxos
           \/ /\ writer'[n] = e /\ paxos'[n][s] = NoFile
              /\ inProgress'[n][s] \in {inProgress[n][s], Blank}
        /\ \A r \in Txid \ {s} : /\ inProgress'[n][r] = inProgress[n][r]
                                 /\ paxos'[n][r] = paxos[n][r]
    BY <1>1, <1>6 DEF CrashInStartLogSegment, DiskTypeOK
  <2>3. \A r \in Txid \ {s} : SegmentKept(n, r)
    BY <2>1, <2>2 DEF SegmentKept
  <2>4. QED BY <1>1, <1>2, <2>1, <2>2, <2>3, StartPreserves DEF Keeps
<1>7. QED BY <1>3, <1>4, <1>5, <1>6 DEF Start

-----------------------------------------------------------------------------
(* journal *)

LEMMA JournalTakes ==
  ASSUME QInv, NEW n \in Node, NEW e \in Epoch, NEW i \in 1..Sent(e), calls' = calls,
         JournalCall(n, Req(e, i), calls[e][i])
  PROVE  Takes(n, e, i)
<1> DEFINE c == calls[e][i]
<1>1. /\ IInv /\ c.s \in Txid /\ c.end \in Txid
      /\ Req(e, i) \in Request /\ Req(e, i).epoch = e
  BY RequestOf, CallEnds DEF QInv, JournalCall
<1>2. <<TxnOf(e, c.s, c.end)>> \in Records
  BY WritersAssumption DEF TxnOf
<1>3. CASE RefuseJournal(n, Req(e, i), c.s, c.end)
  BY <1>1, <1>3, RefuseJournalPreserves, AliveTakes DEF RefuseJournal, logs
<1>4. CASE JournalOutOfSync(n, Req(e, i), c.s)
  BY <1>1, <1>4, JournalOutOfSyncPreserves, AliveTakes DEF JournalOutOfSync, logs
<1>5. CASE Write(n, Req(e, i), c.s, c.end, <<TxnOf(e, c.s, c.end)>>)
  BY <1>1, <1>2, <1>5, WritePreserves, AliveTakes DEF Write, CanWrite
<1>6. QED BY <1>1, <1>3, <1>4, <1>5 DEF JournalCall

LEMMA JournalKeeps ==
  ASSUME QInv, NEW n, NEW e, NEW i, Called(n, e, i),
         JournalCall(n, Req(e, i), calls[e][i]),
         NEW s, s = calls[e][i].s
  PROVE  Keeps(n, e, i)
<1> DEFINE c == calls[e][i]
<1>1. /\ n \in Node /\ e \in Epoch /\ i \in 1..Sent(e) /\ s \in Txid /\ c.end \in Txid
      /\ IsCall(e, i, "journal", s) /\ Req(e, i).epoch = e
      /\ NodeStep(n) /\ DiskTypeOK
  BY RequestOf, CallEnds DEF Called, IsCall, JournalCall, QInv, IInv, TypeOK
<1>2. CASE RefuseJournal(n, Req(e, i), s, c.end)
  <2>1. rc'[n] # 0
    BY <1>1, <1>2, Returned DEF RefuseJournal
  <2>2. QED BY <1>2, <2>1, UnchangedKeeps DEF RefuseJournal
<1>3. CASE JournalOutOfSync(n, Req(e, i), s)
  <2>1. rc'[n] # 0
    BY <1>1, <1>3, Returned DEF JournalOutOfSync
  <2>2. QED BY <1>3, <2>1, UnchangedKeeps DEF JournalOutOfSync
<1>4. CASE Write(n, Req(e, i), s, c.end, <<TxnOf(e, s, c.end)>>)
  <2> DEFINE log == inProgress[n][s]
             txn == TxnOf(e, s, c.end)
  <2>1. /\ writer[n] = e /\ curSegmentTxId[n] = s /\ nextTxId[n] = c.end
        /\ inProgress' = [inProgress EXCEPT ![n][s] = Written(@, <<txn>>)]
        /\ UNCHANGED <<writer, finalized, paxos, tmp>>
    BY <1>1, <1>4 DEF Write, CanWrite
  <2>2. WrittenSegmentOnDisk(n, s) /\ paxos[n][s] = NoFile
    <3>1. CursorOk(n) /\ s # InvalidTxid
      BY <1>1, InvalidTxidIsNoTxid DEF QInv, IInv, NodeInv
    <3>2. QED BY <2>1, <3>1 DEF CursorOk
  <2>3. /\ finalized[n][s] = NoFile /\ IsLog(log) /\ c.end = s + Len(log)
    BY <1>1, <2>1, <2>2, Numbers DEF WrittenSegmentOnDisk
  <2>4. log \in Body
    BY <1>1, <2>3 DEF IsLog, DiskTypeOK
  <2>5. /\ inProgress'[n][s] = log \o <<txn>>
        /\ \A r \in Txid \ {s} : inProgress'[n][r] = inProgress[n][r]
    BY <1>1, <2>1, <2>3 DEF DiskTypeOK, Written, IsLog
  <2>6. SegmentOk(n, s)' /\ SegmentLasts(n, s) /\ LastsOk(n, e, i)'
    <3>1. /\ finalized'[n][s] = NoFile /\ paxos'[n][s] = NoFile /\ writer'[n] = e
          /\ tmp'[n][s] = tmp[n][s]
      BY <2>1, <2>2, <2>3
    <3>2. /\ calls[e][i].end = s + Len(inProgress[n][s])
          /\ finalized[n][s] = NoFile /\ paxos[n][s] = NoFile /\ writer[n] = e
      BY <2>1, <2>2, <2>3
    <3>3. inProgress'[n][s] = inProgress[n][s] \o <<TxnOf(e, s, calls[e][i].end)>>
      BY <2>5
    <3>4. IsCall(e, i, "journal", s) /\ inProgress[n][s] \in Body
      BY <1>1, <2>4
    <3>5. s \in Txid
      BY <1>1
    <3>6. QED BY <3>1, <3>2, <3>3, <3>4, <3>5, WrittenSegment
  <2>7. \A r \in Txid \ {s} : SegmentKept(n, r)
    BY <2>1, <2>5 DEF SegmentKept
  <2>8. writer'[n] = writer[n]
    BY <2>1
  <2>9. DiskOk(n)' /\ \A r \in Txid : SegmentLasts(n, r)
    BY <1>1, <2>6, <2>7, <2>8, OneSegmentPreserves
  <2>10. QED BY <2>6, <2>9 DEF Keeps
<1>5. QED BY <1>1, <1>2, <1>3, <1>4 DEF JournalCall

-----------------------------------------------------------------------------
(* finalizeLogSegment *)

LEMMA FinalizeTakes ==
  ASSUME QInv, NEW n \in Node, NEW e \in Epoch, NEW i \in 1..Sent(e), calls' = calls,
         Finalize(n, Req(e, i), calls[e][i])
  PROVE  Takes(n, e, i)
<1> DEFINE c == calls[e][i]
<1>1. /\ IInv /\ c.s \in Txid /\ c.end \in c.s..MaxTxid /\ Req(e, i) \in Request
  BY RequestOf, CallEnds DEF QInv, Finalize
<1>2. CASE FinalizeLogSegment(n, Req(e, i), c.s, c.end)
  BY <1>1, <1>2, FinalizeLogSegmentPreserves, AliveTakes DEF FinalizeLogSegment
<1>3. CASE FinalizeAgain(n, Req(e, i), c.s, c.end)
  BY <1>1, <1>3, FinalizeAgainPreserves, AliveTakes DEF FinalizeAgain
<1>4. CASE RefuseFinalize(n, Req(e, i), c.s, c.end)
  BY <1>1, <1>4, RefuseFinalizePreserves, AliveTakes DEF RefuseFinalize, logs
<1>5. CASE AbortFinalize(n, Req(e, i), c.s, c.end)
  <2>1. "differentEnd" \in Status \ {"up"}
    BY DEF Status
  <2>2. QED
    BY <1>1, <1>5, <2>1, AbortFinalizePreserves, DeadTakes DEF AbortFinalize, logs
<1>6. QED BY <1>2, <1>3, <1>4, <1>5 DEF Finalize

LEMMA CrashInFinalizeTakes ==
  ASSUME QInv, NEW n \in Node, NEW e \in Epoch, NEW i \in 1..Sent(e), calls' = calls,
         calls[e][i].op = "finalize",
         CrashInFinalize(n, Req(e, i), calls[e][i].s, calls[e][i].end)
  PROVE  Takes(n, e, i) /\ ~Up(n)'
<1>1. Die(n, "down") /\ "down" \in Status \ {"up"}
  BY DEF CrashInFinalize, Status
<1>2. Preserves(n)
  BY RequestOf, CallEnds, CrashInFinalizePreserves DEF QInv
<1>3. QED BY <1>1, <1>2, DeadTakes DEF CrashInFinalize

\* The log that is renamed is the log that was written.
LEMMA RenamedKeeps ==
  ASSUME QInv, NEW n, NEW e, NEW i, Called(n, e, i), NEW s, NEW end,
         IsCall(e, i, "finalize", s), end = calls[e][i].end,
         MayFinalize(n, s, end), Rename(n, s, end),
         paxos' = paxos \/ paxos' = [paxos EXCEPT ![n][s] = NoFile],
         writer' = writer, tmp' = tmp
  PROVE  Keeps(n, e, i)
<1>1. /\ n \in Node /\ e \in Epoch /\ i \in 1..Sent(e)
      /\ s \in Txid /\ end \in s..MaxTxid /\ s \in Int /\ end \in Int
      /\ NodeStep(n) /\ DiskTypeOK /\ IInv /\ SegmentOk(n, s)
  BY CallEnds, Numbers DEF Called, IsCall, QInv, IInv, TypeOK, DiskOk
<1>2. /\ inProgress[n][s] \in Body /\ IsLog(inProgress[n][s])
      /\ End(s, inProgress[n][s]) = end
  BY <1>1, MayFinalizeResult
<1>3. Txns(inProgress[n][s])
  <2>1. Len(inProgress[n][s]) # 0
    BY <1>1, <1>2, LenProperties DEF End, Body
  <2>2. QED BY <1>2, <2>1 DEF Txns, IsLog
<1>4. HasTxns(n, s) /\ Genuine(s, inProgress[n][s])
  BY <1>1, <1>3 DEF HasTxns, Txns, SegmentOk, FilesOk
<1>5. /\ finalized'[n][s] = [end |-> end, body |-> inProgress[n][s]]
      /\ inProgress'[n][s] = NoFile
      /\ paxos'[n][s] \in {NoFile, paxos[n][s]}
      /\ \A r \in Txid \ {s} : /\ inProgress'[n][r] = inProgress[n][r]
                               /\ finalized'[n][r] = finalized[n][r]
                               /\ paxos'[n][r] = paxos[n][r]
  BY <1>1 DEF Rename, DiskTypeOK
<1>6. finalized'[n][s] # NoFile
  <2>1. end \in Txid
    BY <1>1, <1>2, Numbers DEF Txid
  <2>2. finalized'[n][s] \in [end : Txid, body : Body]
    BY <1>2, <1>5, <2>1
  <2>3. QED BY <2>2, AbsentAssumption
<1>7. finalized'[n][s].end = end /\ finalized'[n][s].body = inProgress[n][s]
  BY <1>5
<1>8. SegmentOk(n, s)' /\ SegmentLasts(n, s) /\ LastsOk(n, e, i)'
  <2>1. tmp'[n][s] = tmp[n][s] /\ finalized'[n][s].end = calls[e][i].end
        /\ Genuine(s, finalized'[n][s].body)
    BY <1>4, <1>7
  <2>2. QED BY <1>1, <1>4, <1>5, <1>6, <2>1, FinalizedSegment
<1>9. \A r \in Txid \ {s} : SegmentKept(n, r)
  BY <1>5 DEF SegmentKept
<1>10. DiskOk(n)' /\ \A r \in Txid : SegmentLasts(n, r)
  BY <1>1, <1>8, <1>9, OneSegmentPreserves
<1>11. QED BY <1>8, <1>10 DEF Keeps

LEMMA FinalizeKeeps ==
  ASSUME QInv, NEW n, NEW e, NEW i, Called(n, e, i), calls[e][i].op = "finalize",
         NEW s, NEW end, s = calls[e][i].s, end = calls[e][i].end,
         \/ Finalize(n, Req(e, i), calls[e][i])
         \/ CrashInFinalize(n, Req(e, i), s, end)
  PROVE  Keeps(n, e, i)
<1>1. /\ n \in Node /\ e \in Epoch /\ i \in 1..Sent(e)
      /\ s \in Txid /\ IsCall(e, i, "finalize", s)
      /\ NodeStep(n) /\ DiskTypeOK /\ IInv /\ SegmentOk(n, s)
  BY CallEnds DEF Called, IsCall, QInv, IInv, TypeOK, DiskOk
<1>2. CASE FinalizeLogSegment(n, Req(e, i), s, end)
  BY <1>1, <1>2, RenamedKeeps DEF FinalizeLogSegment
<1>3. CASE CrashInFinalize(n, Req(e, i), s, end)
  BY <1>1, <1>3, RenamedKeeps DEF CrashInFinalize
<1>4. CASE FinalizeAgain(n, Req(e, i), s, end)
  <2>1. /\ finalized[n][s] # NoFile /\ finalized[n][s].end = end
        /\ inProgress[n][s] = NoFile
        /\ paxos' = [paxos EXCEPT ![n][s] = NoFile]
        /\ UNCHANGED <<writer, inProgress, finalized, tmp>>
    BY <1>4 DEF FinalizeAgain, OnlyFinalized
  <2>2. /\ paxos'[n][s] = NoFile
        /\ \A r \in Txid \ {s} : paxos'[n][r] = paxos[n][r]
    BY <1>1, <2>1 DEF DiskTypeOK
  <2>3. HasTxns(n, s) /\ Genuine(s, finalized[n][s].body)
    BY <1>1, <2>1 DEF HasTxns, SegmentOk, FilesOk
  <2>4. SegmentOk(n, s)' /\ SegmentLasts(n, s) /\ LastsOk(n, e, i)'
    <3>1. /\ finalized'[n][s] # NoFile /\ finalized'[n][s].end = calls[e][i].end
          /\ Genuine(s, finalized'[n][s].body) /\ inProgress'[n][s] = NoFile
          /\ paxos'[n][s] \in {NoFile, paxos[n][s]} /\ tmp'[n][s] = tmp[n][s]
      BY <2>1, <2>2, <2>3
    <3>2. QED BY <1>1, <2>3, <3>1, FinalizedSegment
  <2>5. \A r \in Txid \ {s} : SegmentKept(n, r)
    BY <2>1, <2>2 DEF SegmentKept
  <2>6. DiskOk(n)' /\ \A r \in Txid : SegmentLasts(n, r)
    BY <1>1, <2>1, <2>4, <2>5, OneSegmentPreserves
  <2>7. QED BY <2>4, <2>6 DEF Keeps
<1>5. CASE RefuseFinalize(n, Req(e, i), s, end)
  <2>1. rc'[n] # 0
    BY <1>1, <1>5, Returned DEF RefuseFinalize
  <2>2. QED BY <1>5, <2>1, UnchangedKeeps DEF RefuseFinalize
<1>6. CASE AbortFinalize(n, Req(e, i), s, end)
  <2>1. rc'[n] # 0
    BY <1>1, <1>6, Returned DEF AbortFinalize
  <2>2. QED BY <1>6, <2>1, UnchangedKeeps DEF AbortFinalize
<1>7. QED BY <1>2, <1>3, <1>4, <1>5, <1>6 DEF Finalize

-----------------------------------------------------------------------------
(* prepareRecovery *)

LEMMA PrepareTakes ==
  ASSUME QInv, NEW n \in Node, NEW e \in Epoch, NEW i \in 1..Sent(e), calls' = calls,
         Prepare(n, Req(e, i), calls[e][i])
  PROVE  Takes(n, e, i)
<1> DEFINE s == calls[e][i].s
<1>1. IInv /\ s \in Txid /\ Req(e, i) \in Request /\ DiskTypeOK
  BY RequestOf, CallEnds DEF QInv, IInv, TypeOK
<1>2. ASSUME NEW len, RollForward(n, s, len)
      PROVE  \A m \in Node \ {n} : tmp'[m] = tmp[m]
  BY <1>1, <1>2 DEF RollForward, DiskTypeOK
<1>3. CASE PrepareRecovery(n, Req(e, i), s)
  <2>1. \A m \in Node \ {n} : tmp'[m] = tmp[m]
    BY <1>2, <1>3 DEF PrepareRecovery
  <2>2. QED
    BY <1>1, <1>3, <2>1, PrepareRecoveryPreserves, AliveTakes DEF PrepareRecovery
<1>4. CASE AbortPrepareRecovery(n, Req(e, i), s)
  <2>1. "acceptedMismatch" \in Status \ {"up"}
    BY DEF Status
  <2>2. \A m \in Node \ {n} : tmp'[m] = tmp[m]
    BY <1>2, <1>4 DEF AbortPrepareRecovery
  <2>3. QED
    BY <1>1, <1>4, <2>1, <2>2, AbortPrepareRecoveryPreserves, DeadTakes
    DEF AbortPrepareRecovery
<1>5. QED BY <1>3, <1>4 DEF Prepare

\* What was half done is done; else the log stays, as far as there is one.
LEMMA RolledForwardKeeps ==
  ASSUME QInv, NEW n, NEW e, NEW i, Called(n, e, i), NEW s \in Txid,
         NEW len \in Scanned(RolledForward(n, s)), RollForward(n, s, len),
         UNCHANGED <<writer, finalized, paxos>>
  PROVE  /\ DiskOk(n)' /\ \A r \in Txid : SegmentLasts(n, r)
         /\ SegmentOk(n, s)' /\ ~HalfDone(n, s)'
         /\ Txns(inProgress'[n][s]) => len = Len(inProgress'[n][s]) /\ len > 0
<1> DEFINE file == RolledForward(n, s)
<1>1. /\ n \in Node /\ NodeStep(n) /\ DiskTypeOK
  BY DEF Called, QInv, IInv, TypeOK
<1>2. file \in LogFile /\ (HalfDone(n, s) => paxos[n][s].epoch \in Epoch)
  <2>1. paxos[n][s] \in Decision \cup {NoFile}
    BY <1>1 DEF DiskTypeOK
  <2>2. HalfDone(n, s) => paxos[n][s].epoch \in Epoch
    BY <2>1 DEF HalfDone, Decision
  <2>3. QED BY <1>1, <2>2 DEF RolledForward, LogFile, DiskTypeOK
<1>3. /\ inProgress'[n][s] = Kept(n, s, file, len)
      /\ \A r \in Txid \ {s} : inProgress'[n][r] = inProgress[n][r]
  BY <1>1 DEF RollForward, DiskTypeOK
<1>4. /\ Txns(file) => inProgress'[n][s] = file /\ len = Len(file) /\ len > 0
      /\ ~Txns(file) => ~Txns(inProgress'[n][s])
  BY <1>2, <1>3, KeptTxns
<1>5. CASE HalfDone(n, s)
  <2>1. /\ tmp'[n][s] = [tmp[n][s] EXCEPT ![paxos[n][s].epoch] = NoFile]
        /\ \A r \in Txid \ {s} : tmp'[n][r] = tmp[n][r]
        /\ file = tmp[n][s][paxos[n][s].epoch]
    BY <1>1, <1>5 DEF RollForward, RolledForward, DiskTypeOK
  <2>2. SegmentOk(n, s)' /\ SegmentLasts(n, s) /\ ~HalfDone(n, s)'
    BY <1>1, <1>4, <1>5, <2>1, CompletedSegment
  <2>3. \A r \in Txid \ {s} : SegmentKept(n, r)
    BY <1>3, <2>1 DEF SegmentKept
  <2>4. writer'[n] = writer[n]
    OBVIOUS
  <2>5. DiskOk(n)' /\ \A r \in Txid : SegmentLasts(n, r)
    BY <1>1, <2>2, <2>3, <2>4, OneSegmentPreserves
  <2>6. QED BY <1>4, <2>2, <2>5
<1>6. CASE ~HalfDone(n, s)
  <2>1. tmp' = tmp /\ file = inProgress[n][s]
    BY <1>6 DEF RollForward, RolledForward
  <2>2. \A r \in Txid : SegmentKept(n, r)
    BY <1>3, <1>4, <2>1 DEF SegmentKept
  <2>3. ~HalfDone(n, s)'
    BY <1>6, <2>1 DEF HalfDone
  <2>4. DiskOk(n)' /\ \A r \in Txid : SegmentLasts(n, r)
    BY <1>1, <2>2, NoSegmentPreserves
  <2>5. SegmentOk(n, s)'
    BY <2>4 DEF DiskOk
  <2>6. QED BY <1>4, <2>3, <2>4, <2>5
<1>7. QED BY <1>5, <1>6

LEMMA PrepareKeeps ==
  ASSUME QInv, NEW n, NEW e, NEW i, Called(n, e, i), NEW s, s = calls[e][i].s,
         Prepare(n, Req(e, i), calls[e][i]),
         rc'[n] = 0 => answers'[e][i][n] = InfoOf(n, s)'
  PROVE  /\ Keeps(n, e, i)
         /\ rc'[n] = 0 => writer'[n] # Torn /\ InfoTold(n, e)'
<1>1. /\ n \in Node /\ e \in Epoch /\ i \in 1..Sent(e)
      /\ s \in Txid /\ IsCall(e, i, "prepare", s)
      /\ NodeStep(n) /\ calls' = calls /\ i = 1
  BY CallEnds, PrepareFirst DEF Called, NodeStep, IsCall, Prepare, QInv
<1>2. CASE AbortPrepareRecovery(n, Req(e, i), s)
  <2>1. rc'[n] # 0
    BY <1>1, <1>2, Returned DEF AbortPrepareRecovery
  <2>2. DiskOk(n)' /\ \A r \in Txid : SegmentLasts(n, r)
    BY <1>1, <1>2, RolledForwardKeeps DEF AbortPrepareRecovery
  <2>3. QED BY <2>1, <2>2 DEF Keeps
<1>3. CASE PrepareRecovery(n, Req(e, i), s)
  <2>1. PICK len \in Scanned(RolledForward(n, s)) :
          /\ RollForward(n, s, len)
          /\ \/ Return(n, -1)
             \/ /\ ~SegmentInfoFails(n, s, len) /\ ~DecisionDiffers(n, s, len)
                /\ Return(n, IF writer[n] = Torn THEN -1 ELSE 0)
    BY <1>3 DEF PrepareRecovery
  <2>2. UNCHANGED <<writer, finalized, paxos>>
    BY <1>3 DEF PrepareRecovery
  <2>3. /\ DiskOk(n)' /\ \A r \in Txid : SegmentLasts(n, r)
        /\ SegmentOk(n, s)' /\ ~HalfDone(n, s)'
        /\ Txns(inProgress'[n][s]) => len = Len(inProgress'[n][s]) /\ len > 0
    BY <1>1, <2>1, <2>2, RolledForwardKeeps
  <2>4. ASSUME rc'[n] = 0
        PROVE  LastsOk(n, e, i)' /\ writer'[n] # Torn /\ InfoTold(n, e)'
    <3>1. writer[n] # Torn /\ ~DecisionDiffers(n, s, len)
      BY <1>1, <2>1, <2>4, Returned
    <3>2. answers'[e][i][n].exists => HasTxns(n, s)'
      BY <2>4 DEF InfoOf
    <3>3. calls'[e][i].s = s /\ calls'[e][i].op = "prepare"
      BY <1>1 DEF IsCall
    <3>4. ~HalfDone(n, calls[e][i].s)'
      BY <2>3, <3>3 DEF HalfDone
    <3>5. answers'[e][i][n].exists => HasTxns(n, calls[e][i].s)'
      BY <3>2, <3>3 DEF HasTxns
    <3>6. LastsOk(n, e, i)'
      BY <3>3, <3>4, <3>5 DEF LastsOk
    <3>7. finalized'[n][s] = NoFile /\ paxos'[n][s] # NoFile /\ Txns(inProgress'[n][s])
            => paxos'[n][s].end = End(s, inProgress'[n][s])
      BY <2>2, <2>3, <3>1 DEF DecisionDiffers, End
    <3>8. answers'[e][1][n] = InfoOf(n, s)'
      BY <1>1, <2>4
    <3>9. writer'[n] = writer[n]
      BY <2>2
    <3>10. InfoTold(n, e)'
      BY <1>1, <2>3, <3>1, <3>7, <3>8, <3>9, PreparedIsTold
    <3>11. QED BY <3>1, <3>6, <3>9, <3>10
  <2>5. QED BY <2>3, <2>4 DEF Keeps
<1>4. QED BY <1>2, <1>3 DEF Prepare

-----------------------------------------------------------------------------
(* acceptRecovery *)

LEMMA AcceptTakes ==
  ASSUME QInv, NEW n \in Node, NEW e \in Epoch, NEW i \in 1..Sent(e), calls' = calls,
         Accept(n, Req(e, i), calls[e][i])
  PROVE  Takes(n, e, i)
<1> DEFINE c == calls[e][i]
           s == calls[e][i].s
<1>1. /\ IInv /\ s \in Txid /\ c.end \in Txid /\ Req(e, i) \in Request
      /\ Req(e, i).epoch = e /\ DiskTypeOK /\ IsCall(e, i, "accept", s)
  BY RequestOf, CallEnds DEF QInv, IInv, TypeOK, Accept, IsCall
<1>2. ASSUME NEW file, tmp' = [tmp EXCEPT ![n][s][e] = file]
      PROVE  \A m \in Node \ {n} : tmp'[m] = tmp[m]
  BY <1>1, <1>2 DEF DiskTypeOK
<1>3. CASE AbortAcceptRecovery(n, Req(e, i), s, c.end)
  <2>1. PICK why \in Status \ {"up"} : Die(n, why)
    BY <1>3 DEF AbortAcceptRecovery, Status
  <2>2. QED
    BY <1>1, <1>3, <2>1, AbortAcceptRecoveryPreserves, DeadTakes DEF AbortAcceptRecovery
<1>4. CASE \E len : AcceptInPlace(n, Req(e, i), s, len, c.end)
  BY <1>1, <1>4, AcceptInPlacePreserves, AliveTakes DEF AcceptInPlace, Admitted
<1>5. CASE \E len : FailAcceptRecovery(n, Req(e, i), s, len, c.end, <<>>)
  <2>1. PICK len : FailAcceptRecovery(n, Req(e, i), s, len, c.end, <<>>)
    BY <1>5
  <2>2. <<>> \in Body \cup {Blank}
    BY DEF Body
  <2>3. \A m \in Node \ {n} : tmp'[m] = tmp[m]
    BY <1>1, <1>2, <2>1 DEF FailAcceptRecovery
  <2>4. QED
    BY <1>1, <2>1, <2>2, <2>3, FailAcceptRecoveryPreserves, AliveTakes
    DEF FailAcceptRecovery, Admitted
<1>6. CASE \E len : \E body \in Served(c.from, s) :
             AcceptRecovery(n, Req(e, i), s, len, c.end, body)
  <2>1. PICK len : \E body \in Served(c.from, s) :
               AcceptRecovery(n, Req(e, i), s, len, c.end, body)
    BY <1>6
  <2>2. PICK body \in Served(c.from, s) : AcceptRecovery(n, Req(e, i), s, len, c.end, body)
    BY <2>1
  <2>3. body \in Body \cup {Blank}
    BY <1>1, ServedLog DEF LogFile
  <2>4. \A m \in Node \ {n} : tmp'[m] = tmp[m]
    BY <1>1, <1>2, <2>2 DEF AcceptRecovery
  <2>5. QED
    BY <1>1, <2>2, <2>3, <2>4, AcceptRecoveryPreserves, AliveTakes
    DEF AcceptRecovery, Admitted
<1>7. QED BY <1>3, <1>4, <1>5, <1>6 DEF Accept

LEMMA CrashInAcceptTakes ==
  ASSUME QInv, NEW n \in Node, NEW e \in Epoch, NEW i \in 1..Sent(e), calls' = calls,
         IsCall(e, i, "accept", calls[e][i].s), NEW len,
         NEW body \in Served(calls[e][i].from, calls[e][i].s),
         CrashInAcceptRecovery(n, Req(e, i), calls[e][i].s, len, calls[e][i].end, body)
  PROVE  Takes(n, e, i) /\ ~Up(n)'
<1> DEFINE s == calls[e][i].s
<1>1. /\ IInv /\ s \in Txid /\ calls[e][i].end \in Txid /\ Req(e, i) \in Request
      /\ Req(e, i).epoch = e /\ DiskTypeOK
  BY RequestOf, CallEnds DEF QInv, IInv, TypeOK, IsCall
<1>2. body \in Body \cup {Blank}
  BY <1>1, ServedLog DEF LogFile
<1>3. Die(n, "down") /\ "down" \in Status \ {"up"}
  BY DEF CrashInAcceptRecovery, Status
<1>4. PICK file : tmp' = [tmp EXCEPT ![n][s][e] = file]
  BY <1>1 DEF CrashInAcceptRecovery
<1>5. \A m \in Node \ {n} : tmp'[m] = tmp[m]
  BY <1>1, <1>4 DEF DiskTypeOK
<1>6. Preserves(n)
  BY <1>1, <1>2, CrashInAcceptRecoveryPreserves
<1>7. Promise(n, Req(e, i).epoch)
  BY DEF CrashInAcceptRecovery, Admitted
<1>8. QED BY <1>3, <1>5, <1>6, <1>7, DeadTakes

\* Nothing is decided: the log stays, as far as there is one.
LEMMA UndecidedKeeps ==
  ASSUME QInv, NEW n, NEW e, NEW i, Called(n, e, i), NEW s,
         IsCall(e, i, "accept", s), UNCHANGED <<writer, finalized, paxos>>,
         NEW len \in Scanned(inProgress[n][s]),
         inProgress' = [inProgress EXCEPT ![n][s] = Kept(n, s, @, len)],
         \/ tmp' = tmp
         \/ \E file : Genuine(s, file) /\ tmp' = [tmp EXCEPT ![n][s][e] = file],
         rc'[n] # 0
  PROVE  Keeps(n, e, i)
<1>1. /\ n \in Node /\ e \in Epoch /\ i \in 1..Sent(e) /\ s \in Txid
      /\ NodeStep(n) /\ DiskTypeOK /\ Grows /\ QTypeOK
  BY CallEnds, NodeStepGrows DEF Called, IsCall, QInv, IInv, TypeOK
<1>2. inProgress[n][s] \in LogFile
  BY <1>1 DEF DiskTypeOK, LogFile
<1>3. /\ inProgress'[n][s] = Kept(n, s, inProgress[n][s], len)
      /\ \A r \in Txid \ {s} : inProgress'[n][r] = inProgress[n][r]
  BY <1>1 DEF DiskTypeOK
<1>4. \/ inProgress'[n][s] = inProgress[n][s]
      \/ ~Txns(inProgress'[n][s]) /\ ~Txns(inProgress[n][s])
  BY <1>2, <1>3, KeptTxns
<1>5. \A r \in Txid : \A f \in Epoch :
        (r # s \/ f # e) => tmp'[n][r][f] = tmp[n][r][f]
  BY <1>1 DEF DiskTypeOK
<1>6. tmp'[n][s][e] = tmp[n][s][e] \/ NewTmp(n, s, e)
  <2>1. CASE tmp' = tmp
    BY <2>1
  <2>2. CASE \E file : Genuine(s, file) /\ tmp' = [tmp EXCEPT ![n][s][e] = file]
    <3>1. PICK file : Genuine(s, file) /\ tmp' = [tmp EXCEPT ![n][s][e] = file]
      BY <2>2
    <3>2. tmp'[n][s][e] = file
      BY <1>1, <3>1 DEF DiskTypeOK
    <3>3. Genuine(s, file)'
      BY <1>1, <3>1, GenuineStays
    <3>4. Genuine(s, tmp[n][s][e])'
      BY <3>2, <3>3
    <3>5. Sent(e) >= 2 /\ Past(n, e, 2)' /\ (paxos[n][s] # NoFile => paxos[n][s].epoch # e)
      BY <1>1, NotDecidedYet
    <3>6. QED BY <3>4, <3>5 DEF NewTmp
  <2>3. QED BY <2>1, <2>2
<1>7. \A r \in Txid : SegmentKept(n, r)
  <2> SUFFICES ASSUME NEW r \in Txid PROVE SegmentKept(n, r)
    OBVIOUS
  <2>1. \/ inProgress'[n][r] = inProgress[n][r]
        \/ ~Txns(inProgress'[n][r]) /\ ~Txns(inProgress[n][r])
    BY <1>3, <1>4
  <2>2. \A f \in Epoch : tmp'[n][r][f] = tmp[n][r][f] \/ NewTmp(n, r, f)
    BY <1>5, <1>6
  <2>3. QED BY <2>1, <2>2 DEF SegmentKept
<1>8. QED BY <1>1, <1>7, NoSegmentPreserves DEF Keeps

\* The log of the decision is in place, or is what the recovery downloaded.
LEMMA DecidedKeeps ==
  ASSUME QInv, NEW n, NEW e, NEW i, Called(n, e, i), NEW s,
         IsCall(e, i, "accept", s), UNCHANGED <<writer, finalized>>,
         Decide(n, s, e, calls[e][i].end),
         NEW log, inProgress' = [inProgress EXCEPT ![n][s] = log], Genuine(s, log),
         Txns(inProgress[n][s]) => Txns(log) \/ Restarted(e, s),
         \/ tmp' = tmp
         \/ \E file : /\ tmp' = [tmp EXCEPT ![n][s][e] = file]
                      /\ \/ file = NoFile
                         \/ Genuine(s, file) /\ (Txns(file) \/ Restarted(e, s)),
         \/ rc'[n] # 0
         \/ finalized[n][s] # NoFile \/ Txns(log) \/ Restarted(e, s)
  PROVE  Keeps(n, e, i)
<1>1. /\ n \in Node /\ e \in Epoch /\ i \in 1..Sent(e) /\ s \in Txid
      /\ NodeStep(n) /\ DiskTypeOK
  BY CallEnds DEF Called, IsCall, QInv, IInv, TypeOK
<1>2. /\ inProgress'[n][s] = log
      /\ \A r \in Txid \ {s} : inProgress'[n][r] = inProgress[n][r]
  BY <1>1 DEF DiskTypeOK
<1>3. /\ paxos'[n][s] = [epoch |-> e, end |-> calls[e][i].end]
      /\ \A r \in Txid \ {s} : paxos'[n][r] = paxos[n][r]
  BY <1>1 DEF Decide, DiskTypeOK
<1>4. \A r \in Txid : \A f \in Epoch :
        (r # s \/ f # e) => tmp'[n][r][f] = tmp[n][r][f]
  BY <1>1 DEF DiskTypeOK
<1>5. \/ tmp'[n][s][e] = NoFile
      \/ Genuine(s, tmp'[n][s][e]) /\ (Txns(tmp'[n][s][e]) \/ Restarted(e, s))
  <2>1. CASE tmp' = tmp
    BY <1>1, <2>1, NotDecidedYet
  <2>2. CASE \E file : /\ tmp' = [tmp EXCEPT ![n][s][e] = file]
                       /\ \/ file = NoFile
                          \/ Genuine(s, file) /\ (Txns(file) \/ Restarted(e, s))
    <3>1. PICK file : /\ tmp' = [tmp EXCEPT ![n][s][e] = file]
                      /\ \/ file = NoFile
                         \/ Genuine(s, file) /\ (Txns(file) \/ Restarted(e, s))
      BY <2>2
    <3>2. tmp'[n][s][e] = file
      BY <1>1, <3>1 DEF DiskTypeOK
    <3>3. QED BY <3>1, <3>2
  <2>3. QED BY <2>1, <2>2
<1>6. /\ SegmentOk(n, s)' /\ SegmentLasts(n, s)
      /\ finalized[n][s] # NoFile \/ Txns(inProgress'[n][s]) \/ Restarted(e, s)
           => LastsOk(n, e, i)'
  <2>1. /\ writer'[n] = writer[n] /\ finalized'[n][s] = finalized[n][s]
        /\ Genuine(s, inProgress'[n][s])
        /\ Txns(inProgress[n][s]) => Txns(inProgress'[n][s]) \/ Restarted(e, s)
        /\ \A f \in Epoch \ {e} : tmp'[n][s][f] = tmp[n][s][f]
    BY <1>1, <1>2, <1>4
  <2>2. QED BY <1>1, <1>3, <1>5, <2>1, DecidedSegment
<1>7. \A r \in Txid \ {s} : SegmentKept(n, r)
  BY <1>2, <1>3, <1>4 DEF SegmentKept
<1>8. writer'[n] = writer[n]
  OBVIOUS
<1>9. DiskOk(n)' /\ \A r \in Txid : SegmentLasts(n, r)
  BY <1>1, <1>6, <1>7, <1>8, OneSegmentPreserves
<1>10. QED BY <1>2, <1>6, <1>9 DEF Keeps

\* The log that the scan counts, and what acceptRecovery finds there.
LEMMA ScannedLog ==
  ASSUME QInv, NEW n \in Node, NEW s \in Txid, NEW len \in Scanned(inProgress[n][s])
  PROVE  /\ inProgress[n][s] \in LogFile /\ Genuine(s, inProgress[n][s])
         /\ Genuine(s, Kept(n, s, inProgress[n][s], len)) /\ Genuine(s, NoFile)
         /\ ~NoSegment(n, s, len) => finalized[n][s] # NoFile \/ Txns(inProgress[n][s])
<1>1. inProgress[n][s] \in LogFile
  BY DEF QInv, IInv, TypeOK, DiskTypeOK, LogFile
<1>2. Genuine(s, inProgress[n][s])
  BY DEF QInv, DiskOk, SegmentOk, FilesOk
<1>3. Genuine(s, NoFile)
  BY DEF Genuine, Txns
<1>4. Kept(n, s, inProgress[n][s], len) \in {NoFile, inProgress[n][s]}
  BY DEF Kept
<1>5. ASSUME ~Txns(inProgress[n][s])
      PROVE  len \in {0, Unreadable}
  <2>1. Len(<<>>) = 0
    OBVIOUS
  <2>2. QED BY <1>5, <2>1 DEF Txns, Scanned
<1>6. ~NoSegment(n, s, len) => finalized[n][s] # NoFile \/ Txns(inProgress[n][s])
  BY <1>5 DEF NoSegment
<1>7. QED BY <1>1, <1>2, <1>3, <1>4, <1>6

LEMMA AcceptKeeps ==
  ASSUME QInv, NEW n, NEW e, NEW i, Called(n, e, i), NEW s, s = calls[e][i].s,
         Accept(n, Req(e, i), calls[e][i])
  PROVE  Keeps(n, e, i)
<1> DEFINE c == calls[e][i]
           log == inProgress[n][s]
<1>1. /\ n \in Node /\ e \in Epoch /\ i \in 1..Sent(e) /\ s \in Txid
      /\ IsCall(e, i, "accept", s) /\ DiskTypeOK /\ Req(e, i).epoch = e
  BY RequestOf, CallEnds DEF Called, IsCall, Accept, QInv, IInv, TypeOK
<1>2. inProgress' = inProgress => inProgress' = [inProgress EXCEPT ![n][s] = log]
  BY <1>1 DEF DiskTypeOK
<1>3. CASE AbortAcceptRecovery(n, Req(e, i), s, c.end)
  <2>1. rc'[n] # 0
    BY <1>1, <1>3, Returned DEF AbortAcceptRecovery
  <2>2. PICK len \in Scanned(log) :
          inProgress' = [inProgress EXCEPT ![n][s] = Kept(n, s, @, len)]
    BY <1>3 DEF AbortAcceptRecovery
  <2>3. UNCHANGED <<writer, finalized, paxos>> /\ tmp' = tmp
    BY <1>3 DEF AbortAcceptRecovery
  <2>4. QED BY <1>1, <2>1, <2>2, <2>3, UndecidedKeeps
<1>4. CASE \E len \in Scanned(log) : AcceptInPlace(n, Req(e, i), s, len, c.end)
  <2>1. PICK len \in Scanned(log) : AcceptInPlace(n, Req(e, i), s, len, c.end)
    BY <1>4
  <2>2. /\ ~NoSegment(n, s, len)
        /\ UNCHANGED <<writer, finalized>> /\ inProgress' = inProgress /\ tmp' = tmp
    BY <2>1 DEF AcceptInPlace, InPlace
  <2>3. Genuine(s, log) /\ (finalized[n][s] # NoFile \/ Txns(log))
    BY <1>1, <2>2, ScannedLog
  <2>4. CASE paxosDir[n]
    <3>1. Decide(n, s, e, calls[e][i].end)
      BY <1>1, <2>1, <2>4 DEF AcceptInPlace
    <3>2. inProgress' = [inProgress EXCEPT ![n][s] = log]
      BY <1>2, <2>2
    <3> HIDE DEF log
    <3>3. Txns(inProgress[n][s]) => Txns(log)
      BY DEF log
    <3>4. QED BY <1>1, <2>2, <2>3, <3>1, <3>2, <3>3, DecidedKeeps
  <2>5. CASE ~paxosDir[n]
    <3>1. paxos' = paxos /\ rc'[n] # 0
      BY <1>1, <2>1, <2>5, Returned DEF AcceptInPlace
    <3>2. QED BY <2>2, <3>1, UnchangedKeeps DEF logs
  <2>6. QED BY <2>4, <2>5
<1>5. CASE \E len \in Scanned(log) : FailAcceptRecovery(n, Req(e, i), s, len, c.end, <<>>)
  <2>1. PICK len \in Scanned(log) : FailAcceptRecovery(n, Req(e, i), s, len, c.end, <<>>)
    BY <1>5
  <2>2. rc'[n] # 0
    BY <1>1, <2>1, Returned DEF FailAcceptRecovery
  <2>3. Genuine(s, <<>>) /\ Genuine(s, NoFile)
    BY DEF Genuine, Txns
  <2>4. \E file : Genuine(s, file) /\ tmp' = [tmp EXCEPT ![n][s][e] = file]
    BY <1>1, <2>1, <2>3 DEF FailAcceptRecovery
  <2>5. /\ UNCHANGED <<writer, finalized, paxos>>
        /\ inProgress' = [inProgress EXCEPT ![n][s] = Kept(n, s, @, len)]
    BY <2>1 DEF FailAcceptRecovery
  <2>6. QED BY <1>1, <2>2, <2>4, <2>5, UndecidedKeeps
<1>6. CASE \E len \in Scanned(log) : \E body \in Served(c.from, s) :
             AcceptRecovery(n, Req(e, i), s, len, c.end, body)
  <2>1. PICK len \in Scanned(log) : \E body \in Served(c.from, s) :
               AcceptRecovery(n, Req(e, i), s, len, c.end, body)
    BY <1>6
  <2>2. PICK body \in Served(c.from, s) : AcceptRecovery(n, Req(e, i), s, len, c.end, body)
    BY <2>1
  <2>3. Genuine(s, body) /\ (Txns(body) \/ Restarted(e, s))
    BY <1>1, ServedLog
  <2>4. /\ UNCHANGED <<writer, finalized>> /\ Decide(n, s, e, calls[e][i].end)
        /\ inProgress' = [inProgress EXCEPT ![n][s] = body]
        /\ tmp' = [tmp EXCEPT ![n][s][e] = NoFile]
    BY <1>1, <2>2 DEF AcceptRecovery
  <2>5. QED BY <1>1, <2>3, <2>4, DecidedKeeps
<1>7. QED BY <1>3, <1>4, <1>5, <1>6 DEF Accept

\* A process that ends within the download or after the decision, but not
\* within replaceFile.
LEMMA CrashInAcceptKeeps ==
  ASSUME QInv, NEW n, NEW e, NEW i, Called(n, e, i), NEW s, s = calls[e][i].s,
         IsCall(e, i, "accept", s),
         NEW len \in Scanned(inProgress[n][s]),
         NEW body \in Served(calls[e][i].from, s),
         CrashInAcceptRecovery(n, Req(e, i), s, len, calls[e][i].end, body),
         LogStays(n, s)
  PROVE  Keeps(n, e, i)
<1>1. /\ n \in Node /\ e \in Epoch /\ i \in 1..Sent(e) /\ s \in Txid
      /\ DiskTypeOK /\ Req(e, i).epoch = e
  BY RequestOf, CallEnds DEF Called, IsCall, QInv, IInv, TypeOK
<1>2. rc'[n] # 0
  BY <1>1, Returned DEF CrashInAcceptRecovery
<1>3. /\ body \in LogFile /\ body # NoFile /\ Genuine(s, body)
      /\ Txns(body) \/ Restarted(e, s)
  BY <1>1, ServedLog
<1>4. CASE /\ \E file \in CutOff(body) \cup {Blank} :
                tmp' = [tmp EXCEPT ![n][s][e] = file]
           /\ inProgress' = [inProgress EXCEPT ![n][s] = Kept(n, s, @, len)]
           /\ UNCHANGED paxos
  <2>1. \A file \in CutOff(body) : Genuine(s, file)
    BY <1>3, GenuinePrefix DEF CutOff, LogFile
  <2>2. Genuine(s, Blank)
    BY DEF Genuine, Txns
  <2>3. \E file : Genuine(s, file) /\ tmp' = [tmp EXCEPT ![n][s][e] = file]
    BY <1>4, <2>1, <2>2
  <2>4. UNCHANGED <<writer, finalized, paxos>>
    BY <1>4 DEF CrashInAcceptRecovery
  <2>5. QED BY <1>1, <1>2, <1>4, <2>3, <2>4, UndecidedKeeps
<1>5. CASE /\ tmp' = [tmp EXCEPT ![n][s][e] = body]
           /\ Decide(n, s, e, calls[e][i].end)
           /\ \E file \in {Kept(n, s, inProgress[n][s], len), NoFile} :
                inProgress' = [inProgress EXCEPT ![n][s] = file]
  <2>1. PICK file \in {Kept(n, s, inProgress[n][s], len), NoFile} :
          inProgress' = [inProgress EXCEPT ![n][s] = file]
    BY <1>5
  <2>2. Genuine(s, file)
    BY <1>1, ScannedLog
  <2>3. inProgress'[n][s] = file
    BY <1>1, <2>1 DEF DiskTypeOK
  <2>4. Txns(inProgress[n][s]) => Txns(file)
    <3>1. Txns(inProgress[n][s]) => HasTxns(n, s)
      BY DEF HasTxns, Txns
    <3>2. QED BY <2>3, <3>1 DEF LogStays
  <2>5. UNCHANGED <<writer, finalized>>
    BY DEF CrashInAcceptRecovery
  <2>6. QED BY <1>1, <1>2, <1>3, <1>5, <2>1, <2>2, <2>4, <2>5, DecidedKeeps
<1>6. QED BY <1>1, <1>4, <1>5 DEF CrashInAcceptRecovery

-----------------------------------------------------------------------------
(* A node takes a call, or ends within it *)

Gives(n, e, i, a) == answers' = [answers EXCEPT ![e][i][n] = a]

LEMMA AnswerResult ==
  ASSUME QTypeOK, NEW e \in Epoch, NEW i \in Serial, NEW n \in Node, NEW a,
         Gives(n, e, i, a)
  PROVE  /\ answers'[e][i][n] = a
         /\ \A f \in Epoch, j \in Serial, m \in Node :
              (f # e \/ j # i \/ m # n) => answers'[f][j][m] = answers[f][j][m]
<1>1. answers \in [Epoch -> [Serial -> [Node -> Reply]]]
  BY DEF QTypeOK
<1>2. answers[e] \in [Serial -> [Node -> Reply]]
  BY <1>1
<1>3. answers[e][i] \in [Node -> Reply]
  BY <1>2
<1>4. /\ \A f \in Epoch : f # e => answers'[f] = answers[f]
      /\ answers'[e] = [answers[e] EXCEPT ![i][n] = a]
  BY <1>1 DEF Gives
<1>5. /\ \A j \in Serial : j # i => answers'[e][j] = answers[e][j]
      /\ answers'[e][i] = [answers[e][i] EXCEPT ![n] = a]
  BY <1>2, <1>4
<1>6. /\ \A m \in Node : m # n => answers'[e][i][m] = answers[e][i][m]
      /\ answers'[e][i][n] = a
  BY <1>3, <1>5
<1>7. QED BY <1>4, <1>5, <1>6

LEMMA HandleCalled ==
  ASSUME QInv, NEW n \in Node, NEW e \in Epoch, NEW i \in 1..Sent(e), Handle(n, e, i)
  PROVE  Called(n, e, i)
<1> DEFINE c == calls[e][i]
<1>1. /\ i > lost[e][n] /\ ~Fenced(n, e) /\ ~OutOfOrder(n, Req(e, i))
      /\ \/ Start(n, Req(e, i), c) \/ JournalCall(n, Req(e, i), c)
         \/ Finalize(n, Req(e, i), c) \/ Prepare(n, Req(e, i), c)
         \/ Accept(n, Req(e, i), c) \/ AbortCommittedBackward(n, Req(e, i))
      /\ IF Up(n)' THEN UNCHANGED lost ELSE Disconnect(n)
      /\ calls' = calls
      /\ Answer(n, e, i, IF c.op = "prepare" THEN InfoOf(n, c.s)' ELSE Done)
  BY DEF Handle, Req
<1>2. CASE AbortCommittedBackward(n, Req(e, i))
  <2>1. "committedBackward" \in Status \ {"up"}
    BY DEF Status
  <2>2. Preserves(n)
    BY <1>2, RequestOf, AbortCommittedBackwardPreserves DEF QInv
  <2>3. Takes(n, e, i)
    BY <1>1, <1>2, <2>1, <2>2, DeadTakes DEF AbortCommittedBackward, logs
  <2>4. rc'[n] # 0
    BY <1>2, Returned DEF AbortCommittedBackward
  <2>5. answers' = answers
    BY <1>1, <2>4 DEF Answer
  <2>6. QED BY <1>1, <2>3, <2>5, TakesCalled
<1>3. CASE \/ Start(n, Req(e, i), c) \/ JournalCall(n, Req(e, i), c)
           \/ Finalize(n, Req(e, i), c) \/ Accept(n, Req(e, i), c)
  <2>1. Takes(n, e, i)
    BY <1>1, <1>3, StartTakes, JournalTakes, FinalizeTakes, AcceptTakes
  <2>2. c.op # "prepare"
    BY <1>3 DEF Start, JournalCall, Finalize, Accept
  <2>3. answers' = answers \/ (rc'[n] = 0 /\ answers' = [answers EXCEPT ![e][i][n] = Done])
    BY <1>1, <2>2 DEF Answer
  <2>4. Done \in Reply
    BY DEF Reply
  <2>5. QED BY <1>1, <2>1, <2>3, <2>4, TakesCalled
<1>4. CASE Prepare(n, Req(e, i), c)
  <2>1. Takes(n, e, i)
    BY <1>1, <1>4, PrepareTakes
  <2>2. CASE rc'[n] # 0
    <3>1. answers' = answers
      BY <1>1, <2>2 DEF Answer
    <3>2. QED BY <1>1, <2>1, <3>1, TakesCalled
  <2>3. CASE rc'[n] = 0
    <3>1. PrepareRecovery(n, Req(e, i), c.s)
      BY <1>4, <2>3, Returned DEF Prepare, AbortPrepareRecovery
    <3>2. writer'[n] = writer[n] /\ writer[n] # Torn
      BY <2>3, <3>1, Returned DEF PrepareRecovery
    <3>3. PICK s \in Txid : s = c.s
      BY CallEnds
    <3>4. calls'[e][i].s = s
      BY <1>1, <3>3
    <3>5. DiskTypeOK'
      BY <2>1 DEF Takes, NodeOnly, IInv, TypeOK
    <3>6. InfoOf(n, s)' \in Reply
      BY <3>2, <3>5, InfoIsInfo DEF Reply
    <3>7. InfoOf(n, c.s)' = InfoOf(n, s)'
      BY <3>4 DEF InfoOf
    <3>8. answers' = [answers EXCEPT ![e][i][n] = InfoOf(n, c.s)']
      BY <1>1, <1>4, <2>3 DEF Answer, Prepare
    <3>9. \E a \in Reply : answers' = [answers EXCEPT ![e][i][n] = a]
      BY <3>6, <3>7, <3>8
    <3>10. QED BY <1>1, <2>1, <2>3, <3>9, TakesCalled
  <2>4. QED BY <2>2, <2>3
<1>5. QED BY <1>1, <1>2, <1>3, <1>4

LEMMA HandleKeeps ==
  ASSUME QInv, NEW n \in Node, NEW e \in Epoch, NEW i \in 1..Sent(e), Handle(n, e, i),
         NEW s, s = calls[e][i].s
  PROVE  /\ Keeps(n, e, i)
         /\ calls[e][i].op = "prepare" /\ rc'[n] = 0 =>
              /\ answers'[e][i][n] = InfoOf(n, s)'
              /\ writer'[n] # Torn /\ InfoTold(n, e)'
<1> DEFINE c == calls[e][i]
<1>1. Called(n, e, i)
  BY HandleCalled
<1>2. /\ \/ Start(n, Req(e, i), c) \/ JournalCall(n, Req(e, i), c)
         \/ Finalize(n, Req(e, i), c) \/ Prepare(n, Req(e, i), c)
         \/ Accept(n, Req(e, i), c) \/ AbortCommittedBackward(n, Req(e, i))
      /\ calls' = calls
      /\ Answer(n, e, i, IF c.op = "prepare" THEN InfoOf(n, c.s)' ELSE Done)
  BY DEF Handle, Req
<1>3. CASE AbortCommittedBackward(n, Req(e, i))
  <2>1. rc'[n] # 0
    BY <1>3, Returned DEF AbortCommittedBackward
  <2>2. QED BY <1>1, <1>3, <2>1, UnchangedKeeps DEF AbortCommittedBackward
<1>4. CASE Start(n, Req(e, i), c)
  BY <1>1, <1>4, StartKeeps DEF Start
<1>5. CASE JournalCall(n, Req(e, i), c)
  BY <1>1, <1>5, JournalKeeps DEF JournalCall
<1>6. CASE Finalize(n, Req(e, i), c)
  BY <1>1, <1>6, FinalizeKeeps DEF Finalize
<1>7. CASE Accept(n, Req(e, i), c)
  BY <1>1, <1>7, AcceptKeeps DEF Accept
<1>8. CASE Prepare(n, Req(e, i), c)
  <2>1. c.op = "prepare"
    BY <1>8 DEF Prepare
  <2>2. rc'[n] = 0 => answers'[e][i][n] = InfoOf(n, s)'
    <3> SUFFICES ASSUME rc'[n] = 0 PROVE answers'[e][i][n] = InfoOf(n, s)'
      OBVIOUS
    <3>1. calls'[e][i].s = s
      BY <1>2
    <3>2. InfoOf(n, c.s)' = InfoOf(n, s)'
      BY <3>1 DEF InfoOf
    <3>3. answers' = [answers EXCEPT ![e][i][n] = InfoOf(n, c.s)']
      BY <1>2, <2>1 DEF Answer
    <3>4. QTypeOK /\ i \in Serial
      BY CallType DEF QInv
    <3>5. PICK a : a = InfoOf(n, c.s)'
      OBVIOUS
    <3>6. Gives(n, e, i, a)
      BY <3>3, <3>5 DEF Gives
    <3>7. answers'[e][i][n] = a
      BY <3>4, <3>6, AnswerResult
    <3>8. QED BY <3>2, <3>5, <3>7
  <2>3. QED BY <1>1, <1>8, <2>2, PrepareKeeps
<1>9. QED BY <1>2, <1>3, <1>4, <1>5, <1>6, <1>7, <1>8

\* A step that keeps what is on disk and answers nothing.
LEMMA SilentPreserves ==
  ASSUME QInv, NEW n \in Node, NodeStep(n), answers' = answers,
         DiskOk(n)', \A s \in Txid : SegmentLasts(n, s)
  PROVE  QInv'
<1>1. QTypeOK /\ QTypeOK' /\ Grows /\ AnswersOk(n)
  BY NodeStepGrows DEF NodeStep, QInv
<1>2. \A f \in Epoch : ToldOk(n, f)'
  <2> SUFFICES ASSUME NEW f \in Epoch PROVE ToldOk(n, f)'
    OBVIOUS
  <2>1. 1 \in Serial /\ Ans(f, 1, n) => 1 <= Sent(f)
    BY <1>1 DEF AnswersOk, AnsweredOk
  <2>2. LatestTold(n, f) /\ InfoTold(n, f)
    BY <1>1 DEF AnswersOk, ToldOk
  <2>3. QED BY <1>1, <2>1, <2>2, LatestToldStays, InfoToldStays DEF ToldOk
<1>3. AnswersAsIs(n)
  BY DEF AnswersAsIs, Ans
<1>4. \A f \in Epoch : \A j \in 1..Sent(f) : ~Ans(f, j, n) /\ Ans(f, j, n)' => LastsOk(n, f, j)'
  BY DEF Ans
<1>5. AnswersOk(n)'
  BY <1>2, <1>3, <1>4, NodeAnswers
<1>6. QED BY <1>5, NodeStepPreserves

\* A call that keeps its segment, and is answered as it leaves the disk.
LEMMA CalledPreserves ==
  ASSUME QInv, NEW n, NEW e, NEW i, Called(n, e, i), Keeps(n, e, i),
         \/ answers' = answers
         \/ /\ rc'[n] = 0
            /\ \E a : Gives(n, e, i, a)
            /\ \A s : IsCall(e, i, "prepare", s) =>
                 /\ answers'[e][i][n] = InfoOf(n, s)'
                 /\ writer'[n] # Torn /\ InfoTold(n, e)'
  PROVE  QInv'
<1>1. /\ n \in Node /\ e \in Epoch /\ i \in 1..Sent(e) /\ i \in Serial /\ i # 0
      /\ NodeStep(n) /\ QTypeOK /\ QTypeOK' /\ Grows
      /\ AnswersOk(n) /\ 0 \in Serial
  BY CallType, NodeStepGrows, BoundsAssumption DEF Called, NodeStep, QInv, Serial
<1>2. CASE answers' = answers
  BY <1>1, <1>2, SilentPreserves DEF Keeps
<1>3. CASE /\ rc'[n] = 0
           /\ \E a : Gives(n, e, i, a)
           /\ \A s : IsCall(e, i, "prepare", s) =>
                /\ answers'[e][i][n] = InfoOf(n, s)'
                /\ writer'[n] # Torn /\ InfoTold(n, e)'
  <2>1. \A f \in Epoch, j \in Serial :
          (f # e \/ j # i) => answers'[f][j][n] = answers[f][j][n]
    BY <1>1, <1>3, AnswerResult
  <2>2. \A f \in Epoch : ToldOk(n, f)'
    <3> SUFFICES ASSUME NEW f \in Epoch PROVE ToldOk(n, f)'
      OBVIOUS
    <3>1. 1 \in Serial /\ Ans(f, 1, n) => 1 <= Sent(f)
      BY <1>1 DEF AnswersOk, AnsweredOk
    <3>2. LatestTold(n, f) /\ InfoTold(n, f)
      BY <1>1 DEF AnswersOk, ToldOk
    <3>3. LatestTold(n, f)'
      BY <1>1, <2>1, <3>2, LatestToldStays
    <3>4. CASE f # e \/ i # 1
      BY <1>1, <2>1, <3>1, <3>2, <3>3, <3>4, InfoToldStays DEF ToldOk
    <3>5. CASE f = e /\ i = 1
      <4>1. CASE \E s : IsCall(e, i, "prepare", s)
        BY <1>3, <3>3, <3>5, <4>1 DEF ToldOk
      <4>2. CASE ~\E s : IsCall(e, i, "prepare", s)
        <5>1. \A s : ~IsCall(e, 1, "prepare", s)'
          BY <1>1, <3>5, <4>2, NodeStepCalls
        <5>2. InfoTold(n, f)'
          BY <3>5, <5>1 DEF InfoTold
        <5>3. QED BY <3>3, <5>2 DEF ToldOk
      <4>3. QED BY <4>1, <4>2
    <3>6. QED BY <3>4, <3>5
  <2>3. AnswersAsIs(n)
    <3>1. \A f \in Epoch : answers'[f][0][n] = answers[f][0][n]
      BY <1>1, <2>1
    <3>2. ASSUME NEW f \in Epoch, NEW s \in Txid,
                 ~Ans(f, 1, n), Ans(f, 1, n)', IsCall(f, 1, "prepare", s)
          PROVE  answers'[f][1][n] = InfoOf(n, s)' /\ writer'[n] # Torn
      <4>1. 1 \in Serial
        BY <1>1, <3>2, CallType DEF IsCall
      <4>2. f = e /\ i = 1
        BY <2>1, <3>2, <4>1 DEF Ans
      <4>3. QED BY <1>3, <3>2, <4>2
    <3>3. QED BY <3>1, <3>2 DEF AnswersAsIs, Ans
  <2>4. ASSUME NEW f \in Epoch, NEW j \in 1..Sent(f), ~Ans(f, j, n), Ans(f, j, n)'
        PROVE  LastsOk(n, f, j)'
    <3>1. j \in Serial
      BY <1>1, CallType
    <3>2. f = e /\ j = i
      BY <2>1, <2>4, <3>1 DEF Ans
    <3>3. QED BY <1>3, <3>2 DEF Keeps
  <2>5. AnswersOk(n)'
    BY <1>1, <2>2, <2>3, <2>4, NodeAnswers DEF Keeps
  <2>6. QED BY <1>1, <2>5, NodeStepPreserves DEF Keeps
<1>4. QED BY <1>2, <1>3

LEMMA HandlePreserves ==
  ASSUME QInv, NEW n \in Node, NEW e \in Epoch, NEW i \in 1..Sent(e), Handle(n, e, i)
  PROVE  QInv'
<1>1. Called(n, e, i)
  BY HandleCalled
<1>2. PICK s : s = calls[e][i].s
  OBVIOUS
<1>3. /\ Keeps(n, e, i)
      /\ calls[e][i].op = "prepare" /\ rc'[n] = 0 =>
           /\ answers'[e][i][n] = InfoOf(n, s)'
           /\ writer'[n] # Torn /\ InfoTold(n, e)'
  BY <1>2, HandleKeeps
<1>4. PICK a : a = IF calls[e][i].op = "prepare" THEN InfoOf(n, calls[e][i].s)' ELSE Done
  OBVIOUS
<1>5. answers' = answers \/ (rc'[n] = 0 /\ Gives(n, e, i, a))
  BY <1>4 DEF Handle, Answer, Gives
<1>6. \A r : IsCall(e, i, "prepare", r) => r = s /\ calls[e][i].op = "prepare"
  BY <1>2 DEF IsCall
<1>7. QED BY <1>1, <1>3, <1>5, <1>6, CalledPreserves

\* A process that ends within a call, but not within replaceFile.
LEMMA CrashWithinPreserves ==
  ASSUME QInv, "replace" \notin CrashIn, NEW n \in Node, NEW e \in Epoch,
         NEW i \in 1..Sent(e), CrashWithin(n, e, i), Disconnect(n), UNCHANGED writers
  PROVE  QInv'
<1>1. PICK s, end : s = calls[e][i].s /\ end = calls[e][i].end
  OBVIOUS
<1>2. calls' = calls /\ answers' = answers /\ i > lost[e][n]
  BY DEF writers, CrashWithin
<1>3. \/ /\ calls[e][i].op = "start" /\ CrashInStartLogSegment(n, Req(e, i), s)
      \/ /\ calls[e][i].op = "finalize" /\ CrashInFinalize(n, Req(e, i), s, end)
      \/ /\ calls[e][i].op = "accept" /\ LogStays(n, s)
         /\ \E len \in Scanned(inProgress[n][s]), body \in Served(calls[e][i].from, s) :
              CrashInAcceptRecovery(n, Req(e, i), s, len, end, body)
  BY <1>1 DEF CrashWithin, Req
<1>4. Takes(n, e, i) /\ ~Up(n)'
  <2>1. CASE calls[e][i].op = "start" /\ CrashInStartLogSegment(n, Req(e, i), s)
    BY <1>1, <1>2, <2>1, CrashInStartTakes
  <2>2. CASE calls[e][i].op = "finalize" /\ CrashInFinalize(n, Req(e, i), s, end)
    BY <1>1, <1>2, <2>2, CrashInFinalizeTakes
  <2>3. CASE /\ calls[e][i].op = "accept"
             /\ \E len \in Scanned(inProgress[n][s]), body \in Served(calls[e][i].from, s) :
                  CrashInAcceptRecovery(n, Req(e, i), s, len, end, body)
    <3>1. IsCall(e, i, "accept", calls[e][i].s)
      BY <2>3 DEF IsCall
    <3>2. QED BY <1>1, <1>2, <2>3, <3>1, CrashInAcceptTakes
  <2>4. QED BY <1>3, <2>1, <2>2, <2>3
<1>5. ~Fenced(n, e) /\ ~OutOfOrder(n, Req(e, i))
  <2>1. Passes(n, Req(e, i))
    BY <1>3 DEF CrashInStartLogSegment, CrashInFinalize, CrashInAcceptRecovery, Admitted
  <2>2. Req(e, i).epoch = e
    BY DEF Req
  <2>3. QED BY <2>1, <2>2 DEF Passes
<1>6. Called(n, e, i)
  BY <1>2, <1>4, <1>5, TakesCalled
<1>7. Keeps(n, e, i)
  <2>1. CASE calls[e][i].op = "start" /\ CrashInStartLogSegment(n, Req(e, i), s)
    BY <1>1, <1>6, <2>1, StartKeeps
  <2>2. CASE calls[e][i].op = "finalize" /\ CrashInFinalize(n, Req(e, i), s, end)
    BY <1>1, <1>6, <2>2, FinalizeKeeps
  <2>3. CASE /\ calls[e][i].op = "accept" /\ LogStays(n, s)
             /\ \E len \in Scanned(inProgress[n][s]), body \in Served(calls[e][i].from, s) :
                  CrashInAcceptRecovery(n, Req(e, i), s, len, end, body)
    <3>1. IsCall(e, i, "accept", s)
      BY <1>1, <2>3 DEF IsCall
    <3>2. QED BY <1>1, <1>6, <2>3, <3>1, CrashInAcceptKeeps
  <2>4. QED BY <1>3, <2>1, <2>2, <2>3
<1>8. QED BY <1>2, <1>6, <1>7, CalledPreserves

-----------------------------------------------------------------------------
(* Between calls *)

\* A process ends and leaves its files: only its promise may have changed.
LEMMA EndedPreserves ==
  ASSUME QInv, NEW n \in Node, Preserves(n), Disconnect(n), UNCHANGED writers,
         NEW why, Die(n, why), UNCHANGED <<writer, logs>>,
         promised'[n] = Torn \/ (promised[n] # Torn /\ promised'[n] >= promised[n])
  PROVE  QInv'
<1>1. \A m \in Node \ {n} : tmp'[m] = tmp[m] /\ ipcSerial'[m] = ipcSerial[m]
  BY DEF QInv, IInv, TypeOK, MemoryTypeOK, Die, logs
<1>2. answers' = answers /\ calls' = calls
  BY DEF writers
<1>3. NodeStep(n)
  BY <1>1, <1>2, NodeOnlyResult, EndsStep
<1>4. \A s \in Txid : SegmentKept(n, s)
  BY DEF SegmentKept, logs
<1>5. DiskOk(n)' /\ \A s \in Txid : SegmentLasts(n, s)
  BY <1>3, <1>4, NoSegmentPreserves
<1>6. QED BY <1>2, <1>3, <1>5, SilentPreserves

LEMMA NodeCrashPreserves ==
  ASSUME QInv, "replace" \notin CrashIn, NEW n \in Node, NodeCrash(n)
  PROVE  QInv'
<1>1. Disconnect(n) /\ UNCHANGED writers
  BY DEF NodeCrash
<1>2. promised[n] \in Int /\ IInv /\ DiskTypeOK
  BY PastIntegers DEF QInv, IInv, TypeOK
<1>3. CASE Crash(n)
  <2>1. Die(n, "down") /\ promised' = promised /\ UNCHANGED <<writer, logs>>
    BY <1>3 DEF Crash, disk
  <2>2. Preserves(n)
    BY <1>2, <1>3, CrashPreserves
  <2>3. QED BY <1>1, <1>2, <2>1, <2>2, EndedPreserves
<1>4. CASE \E e \in Epoch : CrashInPromise(n, e)
  <2>1. PICK e \in Epoch : CrashInPromise(n, e)
    BY <1>4
  <2>2. Die(n, "down") /\ UNCHANGED <<writer, logs>>
    BY <2>1 DEF CrashInPromise
  <2>3. Preserves(n)
    BY <1>2, <2>1, CrashInPromisePreserves
  <2>4. /\ promised[n] # Torn /\ e > promised[n]
        /\ promised'[n] \in {Torn, e}
    BY <1>2, <2>1 DEF CrashInPromise, Promise, DiskTypeOK
  <2>5. promised'[n] = Torn \/ promised'[n] >= promised[n]
    BY <1>2, <2>4, Numbers
  <2>6. QED BY <1>1, <2>2, <2>3, <2>4, <2>5, EndedPreserves
<1>5. CASE \E e \in Epoch : \E i \in 1..Sent(e) : CrashWithin(n, e, i)
  BY <1>1, <1>5, CrashWithinPreserves
<1>6. QED BY <1>3, <1>4, <1>5 DEF NodeCrash

\* A scan moves aside only files without transactions.
LEMMA MovedAside ==
  ASSUME DiskTypeOK, NEW n \in Node, NEW scan \in ScanOutcomes(n),
         MoveAside(n, scan.aside), UNCHANGED <<finalized, paxos, tmp>>
  PROVE  \A s \in Txid : SegmentKept(n, s) /\ (HasTxns(n, s)' => HasTxns(n, s))
<1> SUFFICES ASSUME NEW s \in Txid
             PROVE  SegmentKept(n, s) /\ (HasTxns(n, s)' => HasTxns(n, s))
  OBVIOUS
<1>1. s \in scan.aside => s \in Vacant(n)
  BY DEF ScanOutcomes
<1>2. s \in Int
  BY Numbers
<1>3. s \in Vacant(n) => ~HasTxns(n, s)
  BY <1>2 DEF Vacant
<1>4. /\ s \in scan.aside => inProgress'[n][s] = NoFile
      /\ s \notin scan.aside => inProgress'[n][s] = inProgress[n][s]
  BY DEF MoveAside, DiskTypeOK
<1>5. \/ inProgress'[n][s] = inProgress[n][s]
      \/ ~Txns(inProgress'[n][s]) /\ ~Txns(inProgress[n][s])
  BY <1>1, <1>3, <1>4 DEF Txns, HasTxns
<1>6. QED BY <1>5 DEF SegmentKept, HasTxns, Txns

LEMMA RestartPreserves ==
  ASSUME QInv, NEW n \in Node, Restart(n)
  PROVE  QInv'
<1>1. /\ Load(n) /\ calls' = calls /\ answers' = answers /\ lost' = lost
      /\ DiskTypeOK /\ IInv
  BY DEF Restart, writers, QInv, IInv, TypeOK
<1>2. UNCHANGED <<promised, writer, finalized, paxos, tmp, ipcSerial>>
  BY <1>1 DEF Load
<1>3. Preserves(n)
  BY <1>1, LoadPreserves
<1>4. NodeOnly(n)
  BY <1>1, <1>2, <1>3, NodeOnlyResult
<1>5. NodeStep(n)
  BY <1>1, <1>2, <1>4, DeafStep
<1>6. PICK scan \in ScanOutcomes(n) : MoveAside(n, scan.aside)
  BY <1>1 DEF Load
<1>7. \A s \in Txid : SegmentKept(n, s)
  BY <1>1, <1>2, <1>6, MovedAside
<1>8. DiskOk(n)' /\ \A s \in Txid : SegmentLasts(n, s)
  BY <1>2, <1>5, <1>7, NoSegmentPreserves
<1>9. QED BY <1>1, <1>5, <1>8, SilentPreserves

-----------------------------------------------------------------------------
(* newEpoch *)

\* The latest segment that is reported is one that was begun.
LEMMA LatestIsLatest ==
  ASSUME NEW n, NEW l, l = LatestOf(n)'
  PROVE  /\ l \in 0..MaxTxid
         /\ l # 0 => l \in Txid /\ HasTxns(n, l)'
<1> DEFINE S == {s \in Txid : HasTxns(n, s)'}
<1>1. l = IF S = {} THEN 0 ELSE Max(S)
  BY DEF LatestOf
<1>2. MaxTxid \in Nat /\ S \in SUBSET (0..MaxTxid)
  BY Numbers DEF Txid
<1>3. CASE S = {}
  BY <1>1, <1>2, <1>3
<1>4. CASE S # {}
  <2>1. Max(S) \in S
    BY <1>2, <1>4, MaxIsGreatest
  <2>2. l \in S
    BY <1>1, <1>4, <2>1
  <2>3. QED BY <1>2, <2>2
<1>5. QED BY <1>3, <1>4

\* Who promises a newer epoch hears newEpoch, and no call of earlier writers.
LEMMA HandleNewEpochStep ==
  ASSUME QInv, NEW n \in Node, NEW e \in Epoch, HandleNewEpoch(n, e)
  PROVE  NodeStep(n)
<1>1. PICK ns \in Namespace : NewEpoch(n, ns, e)
  BY DEF HandleNewEpoch
<1>2. /\ calls' = calls /\ lost' = lost /\ IInv /\ DiskTypeOK /\ QTypeOK
  BY DEF HandleNewEpoch, QInv, IInv, TypeOK
<1>3. /\ promised[n] \in Int /\ e \in Int /\ Sent(e) \in Int /\ Sent(e) >= 0
      /\ 0 \in Serial /\ e # Torn
  BY <1>2, PastIntegers, CallType, BoundsAssumption DEF Serial
<1>4. /\ promised[n] # Torn /\ e > promised[n] /\ promised'[n] = e
      /\ ipcSerial'[n] = 0 /\ \A m \in Node \ {n} : ipcSerial'[m] = ipcSerial[m]
      /\ UNCHANGED <<writer, finalized, paxos, tmp>>
  BY <1>1, <1>2 DEF NewEpoch, Promise, DiskTypeOK, IInv, TypeOK, MemoryTypeOK
<1>5. PICK l : l = LatestOf(n)'
  OBVIOUS
<1>6. /\ l \in 0..MaxTxid
      /\ l # 0 => l \in Txid /\ HasTxns(n, l)'
  BY <1>5, LatestIsLatest
<1>7. PICK a : a = [answered |-> TRUE, latest |-> l]
  OBVIOUS
<1>8. a \in Latest /\ a \in Reply
  BY <1>6, <1>7 DEF Latest, Reply
<1>9. answers' = answers \/ answers' = [answers EXCEPT ![e][0][n] = a]
  BY <1>5, <1>7 DEF HandleNewEpoch, Answer
<1>10. Preserves(n)
  BY <1>1, <1>2, NewEpochPreserves
<1>11. NodeOnly(n)
  BY <1>2, <1>4, <1>10, NodeOnlyResult
<1>12. ~Past(n, e, 0)
  BY <1>3, <1>4 DEF Past, Shut
<1>13. QED BY <1>2, <1>3, <1>4, <1>8, <1>9, <1>11, <1>12, HearsStep

LEMMA HandleNewEpochPreserves ==
  ASSUME QInv, NEW n \in Node, NEW e \in Epoch, HandleNewEpoch(n, e)
  PROVE  QInv'
<1>1. PICK ns \in Namespace : NewEpoch(n, ns, e)
  BY DEF HandleNewEpoch
<1>2. /\ calls' = calls /\ lost' = lost /\ IInv /\ DiskTypeOK /\ QTypeOK /\ AnswersOk(n)
      /\ DiskOk(n)
  BY DEF HandleNewEpoch, QInv, IInv, TypeOK
<1>3. /\ promised[n] \in Int /\ e \in Int /\ Sent(e) \in Int /\ Sent(e) >= 0
      /\ 0 \in Serial /\ e # Torn
  BY <1>2, PastIntegers, CallType, BoundsAssumption DEF Serial
<1>4. /\ promised[n] # Torn /\ e > promised[n] /\ promised'[n] = e
      /\ ipcSerial'[n] = 0 /\ \A m \in Node \ {n} : ipcSerial'[m] = ipcSerial[m]
      /\ UNCHANGED <<writer, finalized, paxos, tmp>>
  BY <1>1, <1>2 DEF NewEpoch, Promise, DiskTypeOK, IInv, TypeOK, MemoryTypeOK
<1>5. PICK scan \in ScanOutcomes(n) : MoveAside(n, scan.aside)
  BY <1>1 DEF NewEpoch
<1>6. \A s \in Txid : SegmentKept(n, s) /\ (HasTxns(n, s)' => HasTxns(n, s))
  BY <1>2, <1>4, <1>5, MovedAside
<1>7. PICK l : l = LatestOf(n)'
  OBVIOUS
<1>8. /\ l \in 0..MaxTxid
      /\ l # 0 => l \in Txid /\ HasTxns(n, l)'
  BY <1>7, LatestIsLatest
<1>9. PICK a : a = [answered |-> TRUE, latest |-> l]
  OBVIOUS
<1>10. a \in Latest /\ a \in Reply
  BY <1>8, <1>9 DEF Latest, Reply
<1>11. answers' = answers \/ Gives(n, e, 0, a)
  BY <1>7, <1>9 DEF HandleNewEpoch, Answer, Gives
<1>12. NodeStep(n)
  BY HandleNewEpochStep
<1>13. DiskOk(n)' /\ \A s \in Txid : SegmentLasts(n, s)
  BY <1>4, <1>6, <1>12, NoSegmentPreserves
<1>14. CASE answers' = answers
  BY <1>12, <1>13, <1>14, SilentPreserves
<1>15. CASE Gives(n, e, 0, a)
  <2>1. /\ answers'[e][0][n] = a
        /\ \A f \in Epoch, j \in Serial :
             (f # e \/ j # 0) => answers'[f][j][n] = answers[f][j][n]
    BY <1>2, <1>3, <1>15, AnswerResult
  <2>2. Grows /\ QTypeOK'
    BY <1>12, NodeStepGrows DEF NodeStep
  <2>3. LatestTold(n, e)'
    <3> SUFFICES ASSUME l > 0
                 PROVE  \E f \in Epoch : f < e /\ Started(f, l)'
      BY <1>9, <2>1 DEF LatestTold
    <3>1. l \in Txid /\ HasTxns(n, l)
      BY <1>6, <1>8
    <3>2. HeardStart(n, l)
      BY <1>2, <3>1 DEF DiskOk, SegmentOk, HeardOk
    <3>3. PICK f \in Epoch : \E j \in 1..Sent(f) : IsCall(f, j, "start", l) /\ Past(n, f, j)
      BY <3>2 DEF HeardStart
    <3>4. f < e
      BY <1>3, <1>4, <3>3, Numbers DEF Past, Shut
    <3>5. Started(f, l)
      BY <3>3 DEF Started
    <3>6. Started(f, l)'
      BY <1>12, <3>5, NodeStepCalls
    <3>7. QED BY <3>4, <3>6
  <2>4. \A f \in Epoch : ToldOk(n, f)'
    <3> SUFFICES ASSUME NEW f \in Epoch PROVE ToldOk(n, f)'
      OBVIOUS
    <3>1. 1 \in Serial /\ Ans(f, 1, n) => 1 <= Sent(f)
      BY <1>2 DEF AnswersOk, AnsweredOk
    <3>2. LatestTold(n, f) /\ InfoTold(n, f)
      BY <1>2 DEF AnswersOk, ToldOk
    <3>3. 1 \in Serial => answers'[f][1][n] = answers[f][1][n]
      BY <2>1
    <3>4. InfoTold(n, f)'
      BY <1>2, <2>2, <3>1, <3>2, <3>3, InfoToldStays
    <3>5. LatestTold(n, f)'
      BY <1>2, <1>3, <2>1, <2>2, <2>3, <3>2, LatestToldStays
    <3>6. QED BY <3>4, <3>5 DEF ToldOk
  <2>5. ASSUME NEW f \in Epoch, NEW j \in 1..Sent(f)
        PROVE  Ans(f, j, n)' <=> Ans(f, j, n)
    <3>1. j \in Serial /\ j # 0
      BY <1>2, CallType
    <3>2. QED BY <2>1, <3>1 DEF Ans
  <2>6. AnswersAsIs(n)
    <3>1. answers'[e][0][n].latest = LatestOf(n)'
      BY <1>7, <1>9, <2>1
    <3>2. \A f \in Epoch : f # e => answers'[f][0][n] = answers[f][0][n]
      BY <1>3, <2>1
    <3>3. ASSUME NEW f \in Epoch, NEW s \in Txid, IsCall(f, 1, "prepare", s)
          PROVE  Ans(f, 1, n)' <=> Ans(f, 1, n)
      BY <2>5, <3>3 DEF IsCall
    <3>4. QED BY <3>1, <3>2, <3>3 DEF AnswersAsIs, Ans
  <2>7. AnswersOk(n)'
    BY <1>12, <1>13, <2>4, <2>5, <2>6, NodeAnswers
  <2>8. QED BY <1>12, <1>13, <2>7, NodeStepPreserves
<1>16. QED BY <1>11, <1>14, <1>15

-----------------------------------------------------------------------------
(* The specification *)

LEMMA QInitQInv == QInit => QInv
<1> SUFFICES ASSUME QInit PROVE QInv
  OBVIOUS
<1> USE DEF QInit
<1>1. DiskTypeOK
  <2>1. 1 \in Epoch
    BY WritersAssumption
  <2>2. QED BY <2>1 DEF DiskTypeOK, NoLogs
<1>2. MemoryTypeOK
  BY BoundsAssumption DEF MemoryTypeOK, Status, Serial
<1>3. ASSUME NEW n \in Node PROVE NodeInv(n)
  <2>1. CursorOk(n)
    BY DEF CursorOk, Up
  <2>2. EpochsOk(n)
    BY DEF EpochsOk, NoEpochAbove, NoLogs
  <2>3. NamesOk(n)
    BY DEF NamesOk, NoLogs
  <2>4. QED BY <2>1, <2>2, <2>3 DEF NodeInv
<1>4. IInv
  BY <1>1, <1>2, <1>3 DEF IInv, TypeOK
<1>5. \A e \in Epoch : Sent(e) = 0 /\ calls[e] = <<>>
  BY DEF Sent
<1>6. QTypeOK
  <2>1. calls \in [Epoch -> Seq(Call)]
    OBVIOUS
  <2>2. 0 \in Serial /\ 0 <= MaxSerial
    BY BoundsAssumption DEF Serial
  <2>3. [answered |-> TRUE, latest |-> 0] \in Latest
    BY BoundsAssumption DEF Latest
  <2>4. answers \in [Epoch -> [Serial -> [Node -> Reply]]]
    BY <2>3 DEF Reply
  <2>5. \A e \in Epoch, n \in Node : answers[e][0][n] \in {NoAnswer} \cup Latest
    BY <2>2, <2>3
  <2>6. lost \in [Epoch -> [Node -> Serial]]
    BY <2>2
  <2>7. QED BY <1>5, <2>1, <2>2, <2>4, <2>5, <2>6 DEF QTypeOK
<1>7. \A e \in Epoch : \A i : i \notin 1..Sent(e)
  BY <1>5
<1>8. \A s : ~Used(s) /\ \A e : ~Started(e, s)
  BY <1>7 DEF Used, Started
<1>9. WritersOk
  <2>1. \A e \in Epoch : CallsOk(e)
    <3> SUFFICES ASSUME NEW e \in Epoch PROVE CallsOk(e)
      OBVIOUS
    <3>1. Sent(e) = 0
      BY <1>5
    <3>2. ~(Sent(e) >= 1) /\ \A i \in 2..Sent(e) : FALSE
      BY <3>1
    <3>3. QED BY <1>7, <3>2 DEF CallsOk
  <2>2. RestartBlocks /\ AcceptSafe
    BY <1>7 DEF RestartBlocks, AcceptSafe, IsVote
  <2>3. AcceptWritten
    BY <1>7 DEF AcceptWritten, AcceptSent
  <2>4. Chain
    BY <1>8 DEF Chain
  <2>5. QED BY <2>1, <2>2, <2>3, <2>4 DEF WritersOk
<1>10. ASSUME NEW n \in Node PROVE DiskOk(n)
  <2>1. WriterHeard(n)
    BY DEF WriterHeard
  <2>2. ASSUME NEW s \in Txid PROVE SegmentOk(n, s)
    <3>1. /\ inProgress[n][s] = NoFile /\ finalized[n][s] = NoFile /\ paxos[n][s] = NoFile
          /\ \A e \in Epoch : tmp[n][s][e] = NoFile
      BY DEF NoLogs
    <3>2. FilesOk(n, s) /\ HeardOk(n, s) /\ SourceOk(n, s) /\ HalfDoneOk(n, s)
      BY <3>1 DEF FilesOk, Genuine, Txns, HeardOk, HasTxns, SourceOk, HalfDoneOk, HalfDone
    <3>3. QED BY <3>2 DEF SegmentOk
  <2>3. QED BY <2>1, <2>2 DEF DiskOk
<1>11. ASSUME NEW n \in Node PROVE AnswersOk(n)
  <2>1. ASSUME NEW e \in Epoch, NEW i \in Serial, Ans(e, i, n)
        PROVE  AnsweredOk(n, e, i)
    <3>1. e = 1 /\ i = 0
      BY <2>1 DEF Ans, NoAnswer
    <3>2. Past(n, e, i)
      BY <3>1 DEF Past
    <3>3. i <= Sent(e)
      BY <1>5, <3>1
    <3>4. QED BY <3>1, <3>2, <3>3 DEF AnsweredOk
  <2>2. ASSUME NEW e \in Epoch PROVE ToldOk(n, e)
    <3>1. LatestTold(n, e)
      <4>1. 0 \in Serial
        BY BoundsAssumption DEF Serial
      <4>2. answers[e][0][n] = IF e = 1 THEN [answered |-> TRUE, latest |-> 0] ELSE NoAnswer
        BY <4>1
      <4>3. ~NoAnswer.answered
        BY DEF NoAnswer
      <4>4. QED BY <4>2, <4>3 DEF LatestTold, Ans
    <3>2. InfoTold(n, e)
      BY <1>7 DEF InfoTold, IsCall
    <3>3. QED BY <3>1, <3>2 DEF ToldOk
  <2>3. QED BY <2>1, <2>2 DEF AnswersOk
<1>12. QED BY <1>4, <1>6, <1>9, <1>10, <1>11 DEF QInv

LEMMA QNextPreserves ==
  ASSUME "replace" \notin CrashIn, QInv, [QNext]_qvars
  PROVE  QInv'
<1>1. CASE UNCHANGED qvars
  BY <1>1, StutterPreservesQInv DEF qvars, writers
<1>2. CASE \E e \in Epoch : Writer(e)
  BY <1>2, WriterPreserves
<1>3. CASE \E n \in Node : NodeCrash(n)
  BY <1>3, NodeCrashPreserves
<1>4. CASE \E n \in Node : Restart(n)
  BY <1>4, RestartPreserves
<1>5. CASE \E n \in Node : \E e \in Epoch : HandleNewEpoch(n, e)
  BY <1>5, HandleNewEpochPreserves
<1>6. CASE \E n \in Node : \E e \in Epoch : \E i \in 1..Sent(e) : Handle(n, e, i)
  BY <1>6, HandlePreserves
<1>7. QED BY <1>1, <1>2, <1>3, <1>4, <1>5, <1>6 DEF QNext

\* Whichever of the writers' calls are lost, late or repeated and whichever
\* nodes crash, but in replaceFile: what the writers ask and what the nodes
\* have on disk and have answered fits together as the recovery over a quorum
\* of newEpoch, prepareRecovery and acceptRecovery needs it.
THEOREM QuorumInvariant ==
  ASSUME "replace" \notin CrashIn
  PROVE  QSpec => []QInv
<1>1. QInv /\ [QNext]_qvars => QInv'
  BY QNextPreserves
<1>2. QED BY QInitQInv, <1>1, PTL DEF QSpec

\* A finalized segment holds every transaction of it that a majority
\* acknowledged to a writer, however many writers recover it
\* (Journal.cpp:274).
THEOREM AckedAreFinalized ==
  ASSUME "replace" \notin CrashIn
  PROVE  QSpec => []AckedIsFinalized
<1>1. QInv => AckedIsFinalized
  BY InvImpliesAckedIsFinalized
<1>2. QED BY QuorumInvariant, <1>1, PTL

\* The finalized copies of a segment agree, on their end and on every
\* transaction ("Once logs are finalized, a different length will never be
\* decided", Journal.cpp:274).
THEOREM CopiesAgree ==
  ASSUME "replace" \notin CrashIn
  PROVE  QSpec => []FinalizedCopiesAgree
<1>1. QInv => FinalizedCopiesAgree
  BY InvImpliesCopiesAgree
<1>2. QED BY QuorumInvariant, <1>1, PTL

\* Whichever majority the next writer asks, it hears of every segment with an
\* acknowledged transaction: what the comment at Journal.cpp:846 asks for, and
\* what a crash in replaceFile breaks.
THEOREM AckedAreSeen ==
  ASSUME "replace" \notin CrashIn
  PROVE  QSpec => []AckedSegmentsAreSeen
<1>1. QInv => AckedSegmentsAreSeen
  BY InvImpliesAckedAreSeen
<1>2. QED BY QuorumInvariant, <1>1, PTL

-----------------------------------------------------------------------------
(* What the nodes and the writers do together is what SegmentConsensus allows *)

LEMMA DurableIs ==
  ASSUME NEW s, NEW txn
  PROVE  /\ txn \in Durable(s) <=>
              \E e \in Epoch : \E i \in 1..Sent(e) :
                 /\ IsCall(e, i, "journal", s) /\ QuorumAnswered(e, i)
                 /\ txn = <<calls[e][i].end, TxnOf(e, s, calls[e][i].end)>>
         /\ txn \in Durable(s)' <=>
              \E e \in Epoch : \E i \in 1..Sent(e)' :
                 /\ IsCall(e, i, "journal", s)' /\ QuorumAnswered(e, i)'
                 /\ txn = <<calls'[e][i].end, TxnOf(e, s, calls'[e][i].end)>>
BY DEF Durable, IsCall, TxnOf

\* What an answer adds to what is durable.
LEMMA DurableStep ==
  ASSUME QInv, NEW e \in Epoch, NEW i \in Serial, NEW n \in Node, NEW a,
         Gives(n, e, i, a), calls' = calls, i = 0 \/ Grows, NEW s \in Txid
  PROVE  /\ ~IsCall(e, i, "journal", s) => Durable(s)' = Durable(s)
         /\ \/ Durable(s)' = Durable(s)
            \/ Durable(s)' = Durable(s) \cup
                 {<<calls[e][i].end, TxnOf(e, s, calls[e][i].end)>>}
<1>1. QTypeOK /\ \A f \in Epoch : Sent(f)' = Sent(f)
  BY DEF QInv, Sent
<1>2. ASSUME NEW f \in Epoch, NEW j \in 1..Sent(f), f # e \/ j # i
      PROVE  QuorumAnswered(f, j)' <=> QuorumAnswered(f, j)
  <2>1. j \in Serial
    BY <1>1, CallType
  <2>2. \A m \in Node : answers'[f][j][m] = answers[f][j][m]
    BY <1>1, <1>2, <2>1, AnswerResult
  <2>3. QED BY <2>2, QuorumNotEmpty DEF QuorumAnswered, Answered
<1>3. i \in 1..Sent(e) /\ QuorumAnswered(e, i) => QuorumAnswered(e, i)'
  BY QuorumNotEmpty DEF QuorumAnswered, Answered, Grows, Ans
<1>4. \A f, j : IsCall(f, j, "journal", s)' <=> IsCall(f, j, "journal", s)
  BY DEF IsCall, Sent
<1> DEFINE txn == <<calls[e][i].end, TxnOf(e, s, calls[e][i].end)>>
<1>5. ASSUME NEW x \in Durable(s) PROVE x \in Durable(s)'
  <2>1. PICK f \in Epoch : \E j \in 1..Sent(f) :
          /\ IsCall(f, j, "journal", s) /\ QuorumAnswered(f, j)
          /\ x = <<calls[f][j].end, TxnOf(f, s, calls[f][j].end)>>
    BY DurableIs
  <2>2. PICK j \in 1..Sent(f) :
          /\ IsCall(f, j, "journal", s) /\ QuorumAnswered(f, j)
          /\ x = <<calls[f][j].end, TxnOf(f, s, calls[f][j].end)>>
    BY <2>1
  <2>3. QuorumAnswered(f, j)'
    BY <1>2, <1>3, <2>2
  <2>4. QED BY <1>1, <1>4, <2>2, <2>3, DurableIs
<1>6. ASSUME NEW x \in Durable(s)'
      PROVE  x \in Durable(s) \/ (IsCall(e, i, "journal", s) /\ x = txn)
  <2>1. PICK f \in Epoch : \E j \in 1..Sent(f) :
          /\ IsCall(f, j, "journal", s) /\ QuorumAnswered(f, j)'
          /\ x = <<calls[f][j].end, TxnOf(f, s, calls[f][j].end)>>
    BY <1>1, <1>4, DurableIs
  <2>2. PICK j \in 1..Sent(f) :
          /\ IsCall(f, j, "journal", s) /\ QuorumAnswered(f, j)'
          /\ x = <<calls[f][j].end, TxnOf(f, s, calls[f][j].end)>>
    BY <2>1
  <2>3. CASE f = e /\ j = i
    BY <2>2, <2>3
  <2>4. CASE f # e \/ j # i
    BY <1>2, <2>2, <2>4, DurableIs
  <2>5. QED BY <2>3, <2>4
<1>7. QED BY <1>5, <1>6

LEMMA DurableStays ==
  ASSUME UNCHANGED <<calls, answers>>, NEW s
  PROVE  Durable(s)' = Durable(s)
BY DEF Durable, Sent, QuorumAnswered, Answered

\* What a writer sends nobody has answered.
LEMMA SendKeepsDurable ==
  ASSUME QInv, NEW e, NEW d, Sends(e, d), NEW s \in Txid
  PROVE  Durable(s)' = Durable(s)
<1>1. QTypeOK /\ answers' = answers /\ QTypeOK' /\ Grows
  BY SendResult DEF QInv, Sends
<1>2. \A f, j : QuorumAnswered(f, j)' <=> QuorumAnswered(f, j)
  BY <1>1 DEF QuorumAnswered, Answered
<1>3. ASSUME NEW f \in Epoch, NEW j \in 1..Sent(f)', QuorumAnswered(f, j)
      PROVE  j \in 1..Sent(f)
  <2>1. PICK Q \in Quorum : Answered(f, j, Q)
    BY <1>3 DEF QuorumAnswered
  <2>2. PICK n \in Node : n \in Q
    BY QuorumNotEmpty
  <2>3. j \in Serial
    BY <1>1, <1>3, BoundsAssumption DEF QTypeOK, Grows, Serial
  <2>4. j <= Sent(f)
    BY <2>1, <2>2, <2>3, AnsweredWasHeard DEF Answered, Ans
  <2>5. QED BY <1>1, <2>4, CallType DEF Grows
<1>4. ASSUME NEW f \in Epoch, NEW j \in 1..Sent(f)
      PROVE  /\ j \in 1..Sent(f)' /\ calls'[f][j] = calls[f][j]
             /\ IsCall(f, j, "journal", s)' <=> IsCall(f, j, "journal", s)
  <2>1. j \in 1..Sent(f)' /\ calls'[f][j] = calls[f][j]
    BY <1>1, CallType DEF Grows
  <2>2. QED BY <2>1 DEF IsCall
<1>5. ASSUME NEW x PROVE x \in Durable(s)' <=> x \in Durable(s)
  BY <1>2, <1>3, <1>4, DurableIs
<1>6. QED BY <1>5

\* At most the copy that node n has of segment s is finalized.
OneFinalized(n, s) ==
  /\ \A m \in Node, r \in Txid : (m # n \/ r # s) => finalized'[m][r] = finalized[m][r]
  /\ finalized[n][s] # NoFile => finalized'[n][s] = finalized[n][s]

LEMMA RenameFinalizes ==
  ASSUME QInv, NEW n \in Node, NEW s \in Txid, NEW end,
         MayFinalize(n, s, end), Rename(n, s, end)
  PROVE  OneFinalized(n, s)
<1>1. finalized \in [Node -> [Txid -> FinalLog \cup {NoFile}]]
  BY DEF QInv, IInv, TypeOK, DiskTypeOK
<1>2. finalized[n][s] = NoFile
  BY DEF MayFinalize, OnlyInProgress
<1>3. PICK new : finalized' = [finalized EXCEPT ![n][s] = new]
  BY DEF Rename
<1>4. \A m \in Node, r \in Txid : (m # n \/ r # s) => finalized'[m][r] = finalized[m][r]
  BY <1>1, <1>3
<1>5. QED BY <1>2, <1>4 DEF OneFinalized

LEMMA HandleFinalizes ==
  ASSUME QInv, NEW n \in Node, NEW e \in Epoch, NEW i \in 1..Sent(e), Handle(n, e, i)
  PROVE  /\ OneFinalized(n, calls[e][i].s)
         /\ finalized' = finalized \/ calls[e][i].op = "finalize"
<1> DEFINE c == calls[e][i]
<1>1. \/ Start(n, Req(e, i), c) \/ JournalCall(n, Req(e, i), c)
      \/ Finalize(n, Req(e, i), c) \/ Prepare(n, Req(e, i), c)
      \/ Accept(n, Req(e, i), c) \/ AbortCommittedBackward(n, Req(e, i))
  BY DEF Handle, Req
<1>2. c.s \in Txid
  BY CallType DEF QInv
<1>3. CASE Start(n, Req(e, i), c)
  <2>1. finalized' = finalized
    BY <1>3 DEF Start, StartLogSegment, RefuseStartLogSegment, AbortStartLogSegment, logs
  <2>2. QED BY <2>1 DEF OneFinalized
<1>4. CASE JournalCall(n, Req(e, i), c)
  <2>1. finalized' = finalized
    BY <1>4 DEF JournalCall, RefuseJournal, JournalOutOfSync, Write, logs
  <2>2. QED BY <2>1 DEF OneFinalized
<1>5. CASE Finalize(n, Req(e, i), c)
  <2>1. c.op = "finalize"
    BY <1>5 DEF Finalize
  <2>2. \/ finalized' = finalized
        \/ MayFinalize(n, c.s, c.end) /\ Rename(n, c.s, c.end)
    BY <1>5 DEF Finalize, FinalizeLogSegment, FinalizeAgain, RefuseFinalize, AbortFinalize, logs
  <2>3. OneFinalized(n, c.s)
    BY <1>2, <2>2, RenameFinalizes DEF OneFinalized
  <2>4. QED BY <2>1, <2>3
<1>6. CASE Prepare(n, Req(e, i), c)
  <2>1. finalized' = finalized
    BY <1>6 DEF Prepare, PrepareRecovery, AbortPrepareRecovery
  <2>2. QED BY <2>1 DEF OneFinalized
<1>7. CASE Accept(n, Req(e, i), c)
  <2>1. finalized' = finalized
    BY <1>7 DEF Accept, AbortAcceptRecovery, AcceptInPlace, FailAcceptRecovery, AcceptRecovery
  <2>2. QED BY <2>1 DEF OneFinalized
<1>8. CASE AbortCommittedBackward(n, Req(e, i))
  <2>1. finalized' = finalized
    BY <1>8 DEF AbortCommittedBackward, logs
  <2>2. QED BY <2>1 DEF OneFinalized
<1>9. QED BY <1>1, <1>3, <1>4, <1>5, <1>6, <1>7, <1>8

LEMMA CrashFinalizes ==
  ASSUME QInv, NEW n \in Node, NodeCrash(n)
  PROVE  finalized' = finalized \/ \E s \in Txid : OneFinalized(n, s)
<1>1. CASE Crash(n)
  BY <1>1 DEF Crash, disk, logs
<1>2. CASE \E e \in Epoch : CrashInPromise(n, e)
  BY <1>2 DEF CrashInPromise, logs
<1>3. ASSUME NEW e \in Epoch, NEW i \in 1..Sent(e), CrashWithin(n, e, i)
      PROVE  finalized' = finalized \/ \E s \in Txid : OneFinalized(n, s)
  <2> DEFINE c == calls[e][i]
  <2>1. \/ CrashInStartLogSegment(n, Req(e, i), c.s)
        \/ CrashInFinalize(n, Req(e, i), c.s, c.end)
        \/ CrashInPrepareRecovery(n, Req(e, i), c.s)
        \/ \E len \in Scanned(inProgress[n][c.s]), body \in Served(c.from, c.s) :
             CrashInAcceptRecovery(n, Req(e, i), c.s, len, c.end, body)
    BY <1>3 DEF CrashWithin, Req
  <2>2. c.s \in Txid
    BY CallType DEF QInv
  <2>3. CASE CrashInFinalize(n, Req(e, i), c.s, c.end)
    BY <2>2, <2>3, RenameFinalizes DEF CrashInFinalize
  <2>4. QED BY <2>1, <2>3 DEF CrashInStartLogSegment, CrashInPrepareRecovery, CrashInAcceptRecovery
<1>4. QED BY <1>1, <1>2, <1>3 DEF NodeCrash

\* The copies that are finalized, and the transaction at txid t of one.
Copies(s) == {finalized[n][s] : n \in Node} \ {NoFile}
TxnIn(s, log, t) ==
  IF t <= log.end /\ t + 1 - s \in DOMAIN log.body THEN log.body[t + 1 - s] ELSE NoFile

AckedIsIn ==
  \A s \in Txid : \A log \in Copies(s), txn \in Durable(s) :
    TxnIn(s, log, txn[1]) = txn[2]

OneCopy == \A s \in Txid : \A a, b \in Copies(s) : a = b

LEMMA InvImpliesAckedIsIn == QInv => AckedIsIn /\ OneCopy
<1> SUFFICES ASSUME QInv PROVE AckedIsIn /\ OneCopy
  OBVIOUS
<1>1. OneCopy
  BY InvImpliesCopiesAgree DEF OneCopy, Copies, FinalizedCopiesAgree
<1>2. ASSUME NEW s \in Txid, NEW log \in Copies(s), NEW txn \in Durable(s)
      PROVE  TxnIn(s, log, txn[1]) = txn[2]
  <2>1. PICK n \in Node : log = finalized[n][s] /\ finalized[n][s] # NoFile
    BY <1>2 DEF Copies
  <2>2. txn[1] <= log.end /\ log.body[txn[1] + 1 - s] = txn[2]
    BY <2>1, InvImpliesAckedIsFinalized DEF AckedIsFinalized
  <2>3. log.body \in Body /\ Len(log.body) = log.end + 1 - s /\ log.end \in Txid
    BY <2>1, CopyWasFinalized DEF FinalLog
  <2>4. PICK e \in Epoch : \E i \in 1..Sent(e) :
          /\ IsCall(e, i, "journal", s)
          /\ txn = <<calls[e][i].end, TxnOf(e, s, calls[e][i].end)>>
    BY DurableWasAnswered
  <2>5. Journaled(e, s, txn[1])
    BY <2>4 DEF Journaled
  <2>6. txn[1] \in Txid /\ txn[1] >= s
    BY <2>5, JournalStarted DEF QInv
  <2>7. txn[1] + 1 - s \in 1..Len(log.body)
    BY <2>2, <2>3, <2>6, Numbers
  <2>8. DOMAIN log.body = 1..Len(log.body)
    BY <2>3 DEF Body
  <2>9. QED BY <2>2, <2>7, <2>8 DEF TxnIn
<1>3. QED BY <1>1, <1>2 DEF AckedIsIn

Allowed ==
  \/ Consensus!Next
  \/ UNCHANGED <<[s \in Txid |-> Durable(s)], [s \in Txid |-> Copies(s)]>>

\* A copy is finalized: the first one chooses the log.
LEMMA CopyChooses ==
  ASSUME AckedIsIn', OneCopy', NEW n \in Node, NEW s \in Txid, OneFinalized(n, s),
         \A r \in Txid : Durable(r)' = Durable(r)
  PROVE  Allowed
<1>1. \A r \in Txid : r # s => Copies(r)' = Copies(r)
  BY DEF OneFinalized, Copies
<1>2. [r \in Txid |-> Durable(r)]' = [r \in Txid |-> Durable(r)]
  OBVIOUS
<1>3. CASE Copies(s)' = Copies(s)
  BY <1>1, <1>2, <1>3 DEF Allowed
<1>4. CASE Copies(s)' # Copies(s)
  <2>1. /\ \A m \in Node : m # n => finalized'[m][s] = finalized[m][s]
        /\ finalized[n][s] = NoFile /\ finalized'[n][s] # NoFile
    BY <1>4 DEF OneFinalized, Copies
  <2>2. PICK log : log = finalized'[n][s]
    OBVIOUS
  <2>3. log \in Copies(s)'
    BY <2>1, <2>2 DEF Copies
  <2>4. Copies(s)' = {log}
    BY <2>3 DEF OneCopy
  <2>5. Copies(s) = {}
    <3> SUFFICES ASSUME NEW a \in Copies(s) PROVE FALSE
      OBVIOUS
    <3>1. a \in Copies(s)'
      BY <2>1 DEF Copies
    <3>2. Copies(s) = {log}
      BY <2>1, <2>4, <3>1 DEF Copies
    <3>3. QED BY <1>4, <2>4, <3>2
  <2>6. \A txn \in Durable(s) : TxnIn(s, log, txn[1]) = txn[2]
    BY <2>3 DEF AckedIsIn
  <2>7. [r \in Txid |-> Copies(r)]' = [[r \in Txid |-> Copies(r)] EXCEPT ![s] = {log}]
    BY <1>1, <2>4
  <2>8. Consensus!Choose(s)
    <3>1. [r \in Txid |-> Copies(r)][s] = {}
      BY <2>5
    <3>2. log \in [r \in Txid |-> Copies(r)]'[s]
      BY <2>3
    <3>3. Consensus!Holds(s, log, [r \in Txid |-> Durable(r)][s])
      BY <2>6 DEF Consensus!Holds, TxnIn
    <3>4. QED BY <1>2, <2>7, <3>1, <3>2, <3>3 DEF Consensus!Choose, Copies
  <2>9. QED BY <2>8 DEF Allowed, Consensus!Next
<1>5. QED BY <1>3, <1>4

\* A majority has stored a transaction.
LEMMA AnswerAcknowledges ==
  ASSUME AckedIsIn', finalized' = finalized, NEW s \in Txid, NEW txn,
         Durable(s)' = Durable(s) \/ Durable(s)' = Durable(s) \cup {txn},
         \A r \in Txid : r # s => Durable(r)' = Durable(r)
  PROVE  Allowed
<1>1. [r \in Txid |-> Copies(r)]' = [r \in Txid |-> Copies(r)]
  BY DEF Copies
<1>2. CASE Durable(s)' = Durable(s)
  BY <1>1, <1>2 DEF Allowed
<1>3. CASE Durable(s)' = Durable(s) \cup {txn}
  <2>1. [r \in Txid |-> Durable(r)]'
          = [[r \in Txid |-> Durable(r)] EXCEPT ![s] = @ \cup {txn}]
    BY <1>3
  <2>2. txn \in [r \in Txid |-> Durable(r)]'[s]
    BY <1>3
  <2>3. \A log \in Copies(s) : TxnIn(s, log, txn[1]) = txn[2]
    BY <1>1, <1>3 DEF AckedIsIn, Copies
  <2>4. \A log \in [r \in Txid |-> Copies(r)][s] : Consensus!Holds(s, log, {txn})
    BY <2>3 DEF Consensus!Holds, TxnIn
  <2>5. Consensus!Acknowledge(s)
    BY <1>1, <2>1, <2>2, <2>4 DEF Consensus!Acknowledge, Copies
  <2>6. QED BY <2>5 DEF Allowed, Consensus!Next
<1>4. QED BY <1>2, <1>3

LEMMA HandleAllowed ==
  ASSUME QInv, AckedIsIn', OneCopy', Grows, NEW n \in Node, NEW e \in Epoch,
         NEW i \in 1..Sent(e), Handle(n, e, i)
  PROVE  Allowed
<1> DEFINE c == calls[e][i]
<1>1. c.s \in Txid /\ i \in Serial /\ calls' = calls
  BY CallType DEF QInv, Handle
<1>2. PICK s \in Txid : s = c.s
  BY <1>1
<1>3. answers' = answers \/ \E a : Gives(n, e, i, a)
  <2>1. PICK a : a = IF c.op = "prepare" THEN InfoOf(n, c.s)' ELSE Done
    OBVIOUS
  <2>2. answers' = answers \/ answers' = [answers EXCEPT ![e][i][n] = a]
    BY <2>1 DEF Handle, Answer
  <2>3. QED BY <2>2 DEF Gives
<1>4. /\ \A r \in Txid : ~IsCall(e, i, "journal", r) => Durable(r)' = Durable(r)
      /\ \/ Durable(s)' = Durable(s)
         \/ Durable(s)' = Durable(s) \cup {<<c.end, TxnOf(e, s, c.end)>>}
  <2>1. CASE answers' = answers
    BY <1>1, <2>1, DurableStays
  <2>2. CASE \E a : Gives(n, e, i, a)
    BY <1>1, <2>2, DurableStep
  <2>3. QED BY <1>3, <2>1, <2>2
<1>5. \A r \in Txid : r # s \/ c.op # "journal" => ~IsCall(e, i, "journal", r)
  BY <1>2 DEF IsCall
<1>6. CASE finalized' = finalized
  <2>1. PICK txn : txn = <<c.end, TxnOf(e, s, c.end)>>
    OBVIOUS
  <2>2. QED BY <1>4, <1>5, <1>6, <2>1, AnswerAcknowledges
<1>7. CASE c.op = "finalize"
  <2>1. OneFinalized(n, s)
    BY <1>2, HandleFinalizes
  <2>2. \A r \in Txid : Durable(r)' = Durable(r)
    BY <1>4, <1>5, <1>7
  <2>3. QED BY <2>1, <2>2, CopyChooses
<1>8. QED BY <1>6, <1>7, HandleFinalizes

LEMMA HandleNewEpochAllowed ==
  ASSUME QInv, NEW n \in Node, NEW e \in Epoch, HandleNewEpoch(n, e)
  PROVE  Allowed
<1>1. finalized' = finalized /\ calls' = calls /\ 0 \in Serial
  BY BoundsAssumption DEF HandleNewEpoch, NewEpoch, Serial
<1>2. answers' = answers \/ \E a : Gives(n, e, 0, a)
  <2>1. PICK a : a = [answered |-> TRUE, latest |-> LatestOf(n)']
    OBVIOUS
  <2>2. answers' = answers \/ answers' = [answers EXCEPT ![e][0][n] = a]
    BY <2>1 DEF HandleNewEpoch, Answer
  <2>3. QED BY <2>2 DEF Gives
<1>3. \A s : ~IsCall(e, 0, "journal", s)
  BY CallType DEF IsCall, QInv
<1>4. \A s \in Txid : Durable(s)' = Durable(s)
  BY <1>1, <1>2, <1>3, DurableStays, DurableStep
<1>5. QED BY <1>1, <1>4 DEF Allowed, Copies

LEMMA StepAllowed ==
  ASSUME QInv, AckedIsIn', OneCopy', [QNext]_qvars
  PROVE  Allowed
<1>1. \/ UNCHANGED qvars
      \/ \E e \in Epoch : Writer(e)
      \/ \E n \in Node : NodeCrash(n)
      \/ \E n \in Node : Restart(n)
      \/ \E n \in Node : \E e \in Epoch : HandleNewEpoch(n, e)
      \/ \E n \in Node : \E e \in Epoch : \E i \in 1..Sent(e) : Handle(n, e, i)
  BY DEF QNext
<1>2. CASE UNCHANGED qvars
  <2>1. finalized' = finalized /\ \A s \in Txid : Durable(s)' = Durable(s)
    BY <1>2, DurableStays DEF qvars, writers, vars, disk, logs
  <2>2. QED BY <2>1 DEF Allowed, Copies
<1>3. ASSUME NEW e \in Epoch, Writer(e) PROVE Allowed
  <2>1. finalized' = finalized
    BY <1>3, WriterSends DEF Sends, Begin, vars, disk, logs
  <2>2. \A s \in Txid : Durable(s)' = Durable(s)
    BY <1>3, WriterSends, SendKeepsDurable, DurableStays DEF Begin
  <2>3. QED BY <2>1, <2>2 DEF Allowed, Copies
<1>4. ASSUME NEW n \in Node, NodeCrash(n) PROVE Allowed
  <2>1. \A s \in Txid : Durable(s)' = Durable(s)
    BY <1>4, DurableStays DEF NodeCrash, writers
  <2>2. CASE finalized' = finalized
    BY <2>1, <2>2 DEF Allowed, Copies
  <2>3. QED BY <1>4, <2>1, <2>2, CrashFinalizes, CopyChooses
<1>5. ASSUME NEW n \in Node, Restart(n) PROVE Allowed
  <2>1. finalized' = finalized /\ \A s \in Txid : Durable(s)' = Durable(s)
    BY <1>5, DurableStays DEF Restart, Load, writers
  <2>2. QED BY <2>1 DEF Allowed, Copies
<1>6. ASSUME NEW n \in Node, NEW e \in Epoch, HandleNewEpoch(n, e) PROVE Allowed
  BY <1>6, HandleNewEpochAllowed
<1>7. ASSUME NEW n \in Node, NEW e \in Epoch, NEW i \in 1..Sent(e), Handle(n, e, i)
      PROVE  Allowed
  BY <1>7, HandleAllowed, HandleCalled, NodeStepGrows DEF Called
<1>8. QED BY <1>1, <1>2, <1>3, <1>4, <1>5, <1>6, <1>7

LEMMA InitAllowed == QInit => Consensus!Init
<1> SUFFICES ASSUME QInit PROVE Consensus!Init
  OBVIOUS
<1>1. \A s \in Txid : Durable(s) = {} /\ Copies(s) = {}
  BY DEF QInit, Durable, Copies, Sent, NoLogs
<1>2. QED BY <1>1 DEF Consensus!Init, Copies

\* Every step of writers and nodes is a step of SegmentConsensus or none:
\* of each segment one log is finalized, once and for all, and it holds every
\* transaction that a majority acknowledged to a writer, before or after
\* (Journal.cpp:274).
THEOREM RecoveryIsConsensus ==
  ASSUME "replace" \notin CrashIn
  PROVE  QSpec => ImplementsConsensus
<1>1. QInv' => (AckedIsIn /\ OneCopy)'
  BY InvImpliesAckedIsIn, PTL
<1>2. QInv /\ QInv' /\ [QNext]_qvars =>
        [Consensus!Next]_<<[s \in Txid |-> Durable(s)],
                           [s \in Txid |-> {finalized[n][s] : n \in Node} \ {NoFile}]>>
  BY <1>1, StepAllowed DEF Allowed, Copies
<1>3. QED BY QuorumInvariant, InitAllowed, <1>2, PTL
          DEF QSpec, ImplementsConsensus, Consensus!Spec

-----------------------------------------------------------------------------
(* What the checks that end the process look for is not there *)

\* The committed txid of a call is that of a transaction the writer knows a
\* majority to have.
CommittedKnown(e) ==
  \A i \in 1..Sent(e) : calls[e][i].committed # InvalidTxid =>
    \E j \in 1..Sent(e) :
      /\ j < i /\ calls[e][j].op = "journal" /\ QuorumAnswered(e, j)
      /\ calls[e][j].end = calls[e][i].committed

\* The committed txid in a node's memory came with a call it has heard.
CommittedHeard(n) ==
  committed[n] # InvalidTxid =>
    \E e \in Epoch : \E i \in 1..Sent(e) :
      Past(n, e, i) /\ calls[e][i].committed = committed[n]

CommittedOk ==
  (\A e \in Epoch : CommittedKnown(e)) /\ (\A n \in Node : CommittedHeard(n))

\* Of the segment a node finalized, it heard who did.
LEMMA FinalizedBefore ==
  ASSUME QInv, NEW n, NEW e, NEW i, Called(n, e, i), NEW s \in Txid,
         finalized[n][s] # NoFile
  PROVE  \E g \in Epoch : \E j \in 1..Sent(g) :
           /\ IsCall(g, j, "finalize", s) /\ calls[g][j].end = finalized[n][s].end
           /\ FinalizeSent(g, s, finalized[n][s].end)
           /\ g < e \/ (g = e /\ j < i)
<1>1. HeardFinalize(n, s, finalized[n][s].end)
  BY DEF QInv, Called, DiskOk, SegmentOk, HeardOk
<1>2. PICK g \in Epoch : \E j \in 1..Sent(g) :
        /\ IsCall(g, j, "finalize", s) /\ calls[g][j].end = finalized[n][s].end
        /\ Past(n, g, j)
  BY <1>1 DEF HeardFinalize
<1>3. PICK j \in 1..Sent(g) :
        /\ IsCall(g, j, "finalize", s) /\ calls[g][j].end = finalized[n][s].end
        /\ Past(n, g, j)
  BY <1>2
<1>4. g < e \/ (g = e /\ j < i)
  BY <1>3, CalledOrder
<1>5. FinalizeSent(g, s, finalized[n][s].end)
  BY <1>3 DEF FinalizeSent
<1>6. QED BY <1>3, <1>4, <1>5

LEMMA FinalizeSameEnd ==
  ASSUME QInv, NEW n, NEW e, NEW i, Called(n, e, i), NEW s \in Txid,
         IsCall(e, i, "finalize", s), finalized[n][s] # NoFile
  PROVE  finalized[n][s].end = calls[e][i].end
<1>1. FinalizeSent(e, s, calls[e][i].end)
  BY DEF FinalizeSent, Called
<1>2. \E g \in Epoch : FinalizeSent(g, s, finalized[n][s].end)
  BY CopyWasFinalized DEF Called
<1>3. QED BY <1>1, <1>2, ChosenAgree DEF QInv

LEMMA StartNotFinalized ==
  ASSUME QInv, NEW n, NEW e, NEW i, Called(n, e, i), NEW s \in Txid,
         IsCall(e, i, "start", s)
  PROVE  finalized[n][s] = NoFile
<1> SUFFICES ASSUME finalized[n][s] # NoFile PROVE FALSE
  OBVIOUS
<1>1. QTypeOK /\ WritersOk /\ e \in Epoch /\ Started(e, s)
  BY DEF QInv, Called, Started
<1>2. PICK g \in Epoch : \E j \in 1..Sent(g) :
        /\ IsCall(g, j, "finalize", s) /\ calls[g][j].end = finalized[n][s].end
        /\ FinalizeSent(g, s, finalized[n][s].end)
        /\ g < e \/ (g = e /\ j < i)
  BY FinalizedBefore
<1>3. PICK j \in 1..Sent(g) :
        /\ IsCall(g, j, "finalize", s) /\ calls[g][j].end = finalized[n][s].end
        /\ FinalizeSent(g, s, finalized[n][s].end)
        /\ g < e \/ (g = e /\ j < i)
  BY <1>2
<1>4. /\ ~Restarted(g, s) /\ s <= calls[g][j].end /\ calls[g][j].end \in Txid
  BY <1>1, <1>3, FinalizeVoted
<1>5. g = e /\ j < i
  BY <1>1, <1>3, <1>4 DEF Restarted
<1>6. Later(calls[e][j], calls[e][i])
  BY <1>1, <1>3, <1>5 DEF WritersOk, CallsOk, Called
<1>7. calls[e][j].end < s
  BY <1>3, <1>5, <1>6 DEF Later, IsCall
<1>8. QED BY <1>4, <1>5, <1>7, Numbers

LEMMA AcceptSameEnd ==
  ASSUME QInv, NEW n, NEW e, NEW i, Called(n, e, i), NEW s \in Txid,
         IsCall(e, i, "accept", s), finalized[n][s] # NoFile
  PROVE  finalized[n][s].end = calls[e][i].end
<1>1. /\ QTypeOK /\ WritersOk /\ e \in Epoch
      /\ AcceptSent(e, s, calls[e][i].end)
  BY DEF QInv, Called, AcceptSent
<1>2. PICK g \in Epoch : \E j \in 1..Sent(g) :
        /\ IsCall(g, j, "finalize", s) /\ calls[g][j].end = finalized[n][s].end
        /\ FinalizeSent(g, s, finalized[n][s].end)
        /\ g < e \/ (g = e /\ j < i)
  BY FinalizedBefore
<1>3. PICK j \in 1..Sent(g) :
        /\ IsCall(g, j, "finalize", s)
        /\ FinalizeSent(g, s, finalized[n][s].end)
        /\ g < e \/ (g = e /\ j < i)
  BY <1>2
<1>4. CASE g < e
  BY <1>1, <1>3, <1>4, AcceptAfterFinalize
<1>5. CASE g = e /\ j < i
  <2>1. i = 2 /\ IsCall(e, 1, "prepare", s)
    BY <1>1, AcceptAlone DEF IsCall
  <2>2. j = 1
    BY <1>1, <1>5, <2>1, CallType
  <2>3. QED BY <1>3, <1>5, <2>1, <2>2 DEF IsCall
<1>6. QED BY <1>3, <1>4, <1>5

LEMMA NoNewerDecision ==
  ASSUME QInv, NEW n, NEW e, NEW i, Called(n, e, i), NEW s \in Txid
  PROVE  ~OldDecisionIsNewer(n, e, s)
<1> SUFFICES ASSUME paxos[n][s] # NoFile PROVE ~(paxos[n][s].epoch > e)
  BY DEF OldDecisionIsNewer
<1> DEFINE b == paxos[n][s].epoch
<1>1. AcceptSent(b, s, paxos[n][s].end) /\ Past(n, b, 2)
  BY DEF QInv, Called, DiskOk, SegmentOk, HeardOk
<1>2. b \in Epoch /\ 2 \in 1..Sent(b)
  <2>1. b \in Epoch /\ IsCall(b, 2, "accept", s)
    BY <1>1, AcceptSentTwo DEF QInv
  <2>2. QED BY <2>1 DEF IsCall
<1>3. b < e \/ b = e
  BY <1>1, <1>2, CalledOrder
<1>4. QED BY <1>2, <1>3, Numbers DEF Called

\* A recovery respects what the node knows to be committed of the segment.
LEMMA AcceptKeepsCommitted ==
  ASSUME QInv, CommittedOk, NEW n, NEW e, NEW i, Called(n, e, i), NEW s \in Txid,
         IsCall(e, i, "accept", s), committed[n] # InvalidTxid, committed[n] >= s
  PROVE  committed[n] <= calls[e][i].end
<1>1. /\ QTypeOK /\ WritersOk /\ n \in Node /\ e \in Epoch /\ i \in 1..Sent(e)
      /\ 0 \in Serial /\ CallsOk(e)
  BY BoundsAssumption DEF QInv, Called, Serial, WritersOk
<1>2. i = 2 /\ IsCall(e, 1, "prepare", s)
  BY <1>1, AcceptAlone
<1>3. PICK f \in Epoch : \E k \in 1..Sent(f) :
        Past(n, f, k) /\ calls[f][k].committed = committed[n]
  BY <1>1 DEF CommittedOk, CommittedHeard
<1>4. PICK k \in 1..Sent(f) : Past(n, f, k) /\ calls[f][k].committed = committed[n]
  BY <1>3
<1>5. PICK j \in 1..Sent(f) :
        /\ j < k /\ calls[f][j].op = "journal" /\ QuorumAnswered(f, j)
        /\ calls[f][j].end = committed[n]
  BY <1>4 DEF CommittedOk, CommittedKnown
<1>6. f < e
  <2>1. f < e \/ (f = e /\ k < 2)
    BY <1>2, <1>4, CalledOrder
  <2>2. k \in Int /\ j \in Int /\ j >= 1
    BY <1>1, CallType
  <2>3. QED BY <1>5, <2>1, <2>2
<1> DEFINE r == calls[f][j].s
           t == calls[f][j].end
<1>7. /\ r \in Txid /\ IsCall(f, j, "journal", r) /\ IsVote(f, j) /\ j \in Serial
      /\ ~Blocked(f, j) /\ ~Restarted(f, r)
  BY <1>1, <1>5, CallType, AnsweredNotBlocked, NoRestart DEF IsCall, IsVote
<1>8. Journaled(f, r, t)
  BY <1>7 DEF Journaled
<1>9. Started(f, r) /\ t \in Txid
  BY <1>1, <1>7, <1>8, JournalStarted
<1>10. CASE r = s
  <2>1. Respects(calls[f][j], calls[e][i].end)
    BY <1>1, <1>6, <1>7, <1>10 DEF WritersOk, AcceptSafe
  <2>2. calls[e][i].end >= t
    BY <1>5, <2>1 DEF Respects
  <2>3. calls[e][i].end \in 0..MaxTxid
    BY <1>1, CallType
  <2>4. QED BY <1>5, <1>9, <2>2, <2>3, Numbers
<1>11. CASE r < s
  <2>1. calls[e][i].s = s
    BY DEF IsCall
  <2>2. PICK b \in Epoch : Started(b, s)
    BY <1>1, <2>1, CallIsOfUsed
  <2>3. Used(r)
    BY <1>9 DEF Used
  <2>4. Closed(b, r, s)
    BY <1>1, <1>7, <1>11, <2>2, <2>3, ChainCloses
  <2>5. PICK g \in Epoch : \E h \in 1..Sent(g) :
          IsCall(g, h, "finalize", r) /\ calls[g][h].end < s
    BY <2>4 DEF Closed
  <2>6. PICK h \in 1..Sent(g) : IsCall(g, h, "finalize", r) /\ calls[g][h].end < s
    BY <2>5
  <2>7. FinalizeSent(g, r, calls[g][h].end)
    BY <2>6 DEF FinalizeSent
  <2>8. t <= calls[g][h].end
    BY <1>1, <1>5, <1>7, <2>7, FinalizeCoversAcked
  <2>9. calls[g][h].end \in Txid
    BY <1>1, <2>7, FinalizeVoted
  <2>10. QED BY <1>5, <1>9, <2>6, <2>8, <2>9, Numbers
<1>12. CASE r > s
  <2>1. First(e, calls[e][1])
    BY <1>1, <1>2, CallType DEF CallsOk, IsCall
  <2>2. calls[e][1].op = "prepare" /\ calls[e][1].s = s
    BY <1>2 DEF IsCall
  <2>3. PICK Q \in Quorum : /\ Answered(e, 0, Q)
                            /\ \A m \in Q : answers[e][0][m].latest <= s
    BY <2>1, <2>2 DEF First
  <2>4. PICK m \in Node : m \in Q /\ Ans(f, j, m) /\ Ans(e, 0, m)
    BY <1>1, <1>6, <1>7, <2>3, VoteIsHeard
  <2>5. LatestShows(m, f, j, e)
    BY <1>1, <1>5, <1>6, <1>7, <2>4, CallType DEF QInv, AnswersOk, AnsweredOk
  <2>6. answers[e][0][m].latest >= r
    BY <1>7, <2>4, <2>5 DEF LatestShows
  <2>7. answers[e][0][m].latest <= s
    BY <2>3, <2>4
  <2>8. answers[e][0][m].latest \in Int
    <3>1. answers[e][0][m] \in {NoAnswer} \cup Latest
      BY <1>1 DEF QTypeOK
    <3>2. answers[e][0][m] # NoAnswer
      BY <2>4 DEF Ans, NoAnswer
    <3>3. answers[e][0][m] \in Latest
      BY <3>1, <3>2
    <3>4. QED BY <3>3, Numbers DEF Latest
  <2>9. QED BY <1>7, <1>12, <2>6, <2>7, <2>8, Numbers
<1>13. QED BY <1>7, <1>10, <1>11, <1>12, Numbers

LEMMA NothingDiscarded ==
  ASSUME QInv, CommittedOk, NEW n, NEW e, NEW i, Called(n, e, i), NEW s \in Txid,
         IsCall(e, i, "accept", s), NEW len
  PROVE  ~DiscardsCommitted(n, Req(e, i), s, len, calls[e][i].end)
<1>1. /\ QTypeOK /\ WritersOk /\ n \in Node /\ e \in Epoch /\ i \in 1..Sent(e)
  BY DEF QInv, Called
<1>2. i = 2 /\ IsCall(e, 1, "prepare", s)
  BY <1>1, AcceptAlone
<1>3. Req(e, i).committed = InvalidTxid
  <2> SUFFICES ASSUME calls[e][i].committed # InvalidTxid PROVE FALSE
    BY DEF Req
  <2>1. PICK j \in 1..Sent(e) : j < i /\ calls[e][j].op = "journal"
    BY <1>1 DEF CommittedOk, CommittedKnown
  <2>2. j = 1
    BY <1>1, <1>2, <2>1, CallType
  <2>3. QED BY <1>2, <2>1, <2>2 DEF IsCall
<1> SUFFICES ASSUME committed[n] \in s..CurrentEnd(n, s, len)
             PROVE  committed[n] \in s..calls[e][i].end
  BY <1>3 DEF DiscardsCommitted
<1>4. committed[n] \in Int /\ committed[n] >= s /\ s \in Int /\ s >= 1
  BY Numbers
<1>5. committed[n] # InvalidTxid
  BY <1>4 DEF InvalidTxid
<1>6. committed[n] <= calls[e][i].end
  BY <1>4, <1>5, AcceptKeepsCommitted
<1>7. calls[e][i].end \in Int
  BY <1>1, CallType, Numbers
<1>8. QED BY <1>4, <1>6, <1>7

RecoveryChecks ==
  {"differentEnd", "finalizedSegment", "discardsCommitted", "outOfOrderEpochs"}

\* The process of n may end, but not by one of those checks.
EndsOtherwise(n) ==
  \/ status' = status
  \/ \E why : why \notin RecoveryChecks /\ status' = [status EXCEPT ![n] = why]

\* What n knows to be committed it forgets, or has from call i.
LearnsCommitted(n, e, i) ==
  \A m \in Node :
    \/ committed'[m] \in {committed[m], InvalidTxid}
    \/ m = n /\ committed'[m] = calls[e][i].committed

LEMMA RememberLearns ==
  ASSUME QInv, NEW n \in Node, NEW e, NEW i, Remember(n, Req(e, i))
  PROVE  LearnsCommitted(n, e, i)
<1>1. committed \in [Node -> Txid \cup {InvalidTxid}]
  BY DEF QInv, IInv, TypeOK, MemoryTypeOK
<1>2. Req(e, i).committed = calls[e][i].committed
  BY DEF Req
<1>3. QED BY <1>1, <1>2 DEF Remember, LearnsCommitted

LEMMA DieLearns ==
  ASSUME QInv, NEW n \in Node, NEW e, NEW i, NEW why, Die(n, why)
  PROVE  /\ LearnsCommitted(n, e, i)
         /\ why \notin RecoveryChecks => EndsOtherwise(n)
<1>1. committed \in [Node -> Txid \cup {InvalidTxid}]
  BY DEF QInv, IInv, TypeOK, MemoryTypeOK
<1>2. QED BY <1>1 DEF Die, LearnsCommitted, EndsOtherwise

LEMMA StartEnds ==
  ASSUME QInv, NEW n, NEW e, NEW i, Called(n, e, i), Start(n, Req(e, i), calls[e][i])
  PROVE  EndsOtherwise(n) /\ LearnsCommitted(n, e, i)
<1> DEFINE s == calls[e][i].s
<1>1. n \in Node /\ s \in Txid /\ IsCall(e, i, "start", s)
  BY CallType DEF Called, QInv, Start, IsCall
<1>2. CASE StartLogSegment(n, Req(e, i), s)
  BY <1>1, <1>2, RememberLearns DEF StartLogSegment, EndsOtherwise
<1>3. CASE RefuseStartLogSegment(n, Req(e, i), s)
  BY <1>1, <1>3, RememberLearns DEF RefuseStartLogSegment, EndsOtherwise
<1>4. CASE AbortStartLogSegment(n, Req(e, i), s)
  <2>1. ~OnlyFinalized(n, s)
    BY <1>1, StartNotFinalized DEF OnlyFinalized
  <2>2. Die(n, "containsTransactions")
    BY <1>4, <2>1 DEF AbortStartLogSegment
  <2>3. "containsTransactions" \notin RecoveryChecks
    BY DEF RecoveryChecks
  <2>4. QED BY <1>1, <2>2, <2>3, DieLearns
<1>5. QED BY <1>2, <1>3, <1>4 DEF Start

LEMMA FinalizeEnds ==
  ASSUME QInv, NEW n, NEW e, NEW i, Called(n, e, i), Finalize(n, Req(e, i), calls[e][i])
  PROVE  EndsOtherwise(n) /\ LearnsCommitted(n, e, i)
<1> DEFINE s == calls[e][i].s
           end == calls[e][i].end
<1>1. n \in Node /\ s \in Txid /\ IsCall(e, i, "finalize", s)
  BY CallType DEF Called, QInv, Finalize, IsCall
<1>2. CASE \/ FinalizeLogSegment(n, Req(e, i), s, end) \/ FinalizeAgain(n, Req(e, i), s, end)
           \/ RefuseFinalize(n, Req(e, i), s, end)
  BY <1>1, <1>2, RememberLearns
     DEF FinalizeLogSegment, FinalizeAgain, RefuseFinalize, EndsOtherwise
<1>3. ~AbortFinalize(n, Req(e, i), s, end)
  BY <1>1, FinalizeSameEnd DEF AbortFinalize, OnlyFinalized
<1>4. QED BY <1>2, <1>3 DEF Finalize

LEMMA AcceptEnds ==
  ASSUME QInv, CommittedOk, NEW n, NEW e, NEW i, Called(n, e, i),
         Accept(n, Req(e, i), calls[e][i])
  PROVE  EndsOtherwise(n) /\ LearnsCommitted(n, e, i)
<1> DEFINE s == calls[e][i].s
           end == calls[e][i].end
<1>1. n \in Node /\ s \in Txid /\ IsCall(e, i, "accept", s) /\ Req(e, i).epoch = e
  BY CallType DEF Called, QInv, Accept, IsCall, Req
<1>2. ~AbortAcceptRecovery(n, Req(e, i), s, end)
  <2> SUFFICES ASSUME NEW len, AcceptAborts(n, Req(e, i), s, len, end) PROVE FALSE
    BY DEF AbortAcceptRecovery
  <2>1. ~OldDecisionIsNewer(n, Req(e, i).epoch, s)
    BY <1>1, NoNewerDecision
  <2>2. ~DiscardsCommitted(n, Req(e, i), s, len, end)
    BY <1>1, NothingDiscarded
  <2>3. Replaces(n, s, len, end) /\ finalized[n][s] # NoFile
    BY <2>1, <2>2 DEF AcceptAborts
  <2>4. finalized[n][s].end # end
    BY <2>3 DEF Replaces, CurrentEnd
  <2>5. QED BY <1>1, <2>3, <2>4, AcceptSameEnd
<1>3. Remember(n, Req(e, i)) /\ status' = status
  BY <1>2 DEF Accept, AcceptInPlace, AcceptRecovery, FailAcceptRecovery
<1>4. QED BY <1>1, <1>3, RememberLearns DEF EndsOtherwise

LEMMA HandleEnds ==
  ASSUME QInv, CommittedOk, NEW n \in Node, NEW e \in Epoch, NEW i \in 1..Sent(e),
         Handle(n, e, i)
  PROVE  EndsOtherwise(n) /\ LearnsCommitted(n, e, i)
<1> DEFINE c == calls[e][i]
<1>1. Called(n, e, i)
  BY HandleCalled
<1>2. \/ Start(n, Req(e, i), c) \/ JournalCall(n, Req(e, i), c)
      \/ Finalize(n, Req(e, i), c) \/ Prepare(n, Req(e, i), c)
      \/ Accept(n, Req(e, i), c) \/ AbortCommittedBackward(n, Req(e, i))
  BY DEF Handle, Req
<1>3. CASE JournalCall(n, Req(e, i), c)
  BY <1>3, RememberLearns DEF JournalCall, RefuseJournal, JournalOutOfSync, Write, EndsOtherwise
<1>4. CASE Prepare(n, Req(e, i), c)
  <2>1. CASE PrepareRecovery(n, Req(e, i), c.s)
    BY <2>1, RememberLearns DEF PrepareRecovery, EndsOtherwise
  <2>2. CASE AbortPrepareRecovery(n, Req(e, i), c.s)
    <3>1. Die(n, "acceptedMismatch") /\ "acceptedMismatch" \notin RecoveryChecks
      BY <2>2 DEF AbortPrepareRecovery, RecoveryChecks
    <3>2. QED BY <3>1, DieLearns
  <2>3. QED BY <1>4, <2>1, <2>2 DEF Prepare
<1>5. CASE AbortCommittedBackward(n, Req(e, i))
  <2>1. Die(n, "committedBackward") /\ "committedBackward" \notin RecoveryChecks
    BY <1>5 DEF AbortCommittedBackward, RecoveryChecks
  <2>2. QED BY <2>1, DieLearns
<1>6. QED BY <1>1, <1>2, <1>3, <1>4, <1>5, StartEnds, FinalizeEnds, AcceptEnds

\* What is known to be committed stays known while no call is sent.
LEMMA KnownStays ==
  ASSUME calls' = calls, CommittedOk,
         \A f \in Epoch : \A j \in 1..Sent(f) : QuorumAnswered(f, j) => QuorumAnswered(f, j)'
  PROVE  \A e \in Epoch : CommittedKnown(e)'
<1>1. \A f : Sent(f)' = Sent(f)
  BY DEF Sent
<1>2. SUFFICES ASSUME NEW e \in Epoch, NEW i \in 1..Sent(e),
                      calls[e][i].committed # InvalidTxid
               PROVE  \E j \in 1..Sent(e) :
                        /\ j < i /\ calls[e][j].op = "journal" /\ QuorumAnswered(e, j)'
                        /\ calls[e][j].end = calls[e][i].committed
  BY <1>1 DEF CommittedKnown
<1>3. QED BY <1>2 DEF CommittedOk, CommittedKnown

LEMMA HeardCommittedStays ==
  ASSUME CommittedOk, NEW m \in Node,
         \A f \in Epoch : \A k \in 1..Sent(f) :
           /\ k \in 1..Sent(f)' /\ calls'[f][k] = calls[f][k]
           /\ Past(m, f, k) => Past(m, f, k)',
         committed'[m] \in {committed[m], InvalidTxid}
  PROVE  CommittedHeard(m)'
BY DEF CommittedOk, CommittedHeard

LEMMA PastSame ==
  ASSUME NEW m, promised'[m] = promised[m], ipcSerial'[m] = ipcSerial[m],
         \A f \in Epoch : lost'[f][m] = lost[f][m], NEW f \in Epoch, NEW k
  PROVE  Past(m, f, k)' <=> Past(m, f, k)
BY DEF Past, Shut

LEMMA NodeStepCommitted ==
  ASSUME QInv, CommittedOk, NEW n \in Node, NodeStep(n),
         \A m \in Node :
           \/ committed'[m] \in {committed[m], InvalidTxid}
           \/ /\ m = n
              /\ \E f \in Epoch : \E k \in 1..Sent(f) :
                   Past(n, f, k)' /\ committed'[n] = calls[f][k].committed
  PROVE  CommittedOk'
<1>1. calls' = calls /\ QTypeOK /\ Grows /\ \A f : Sent(f)' = Sent(f)
  BY NodeStepGrows DEF NodeStep, QInv, Sent
<1>2. \A f \in Epoch : \A j \in 1..Sent(f) : QuorumAnswered(f, j) => QuorumAnswered(f, j)'
  BY <1>1, AnswersStay, CallType
<1>3. \A e \in Epoch : CommittedKnown(e)'
  BY <1>1, <1>2, KnownStays
<1>4. ASSUME NEW m \in Node PROVE CommittedHeard(m)'
  <2>1. ASSUME NEW f \in Epoch, NEW k \in 1..Sent(f), Past(m, f, k) PROVE Past(m, f, k)'
    <3>1. k \in Serial /\ k <= Sent(f)
      BY <1>1, CallType
    <3>2. CASE m = n
      BY <2>1, <3>1, <3>2 DEF NodeStep, PastStays
    <3>3. CASE m # n
      BY <2>1, <3>3, PastSame DEF NodeStep, NodeSame, DiskSameAt
    <3>4. QED BY <3>2, <3>3
  <2>2. CASE committed'[m] \in {committed[m], InvalidTxid}
    BY <1>1, <2>1, <2>2, HeardCommittedStays
  <2>3. CASE /\ m = n
             /\ \E f \in Epoch : \E k \in 1..Sent(f) :
                  Past(n, f, k)' /\ committed'[n] = calls[f][k].committed
    BY <1>1, <2>3 DEF CommittedHeard
  <2>4. QED BY <2>2, <2>3
<1>5. QED BY <1>3, <1>4 DEF CommittedOk

LEMMA HandleCommitted ==
  ASSUME QInv, CommittedOk, NEW n \in Node, NEW e \in Epoch, NEW i \in 1..Sent(e),
         Handle(n, e, i)
  PROVE  CommittedOk'
<1>1. NodeStep(n) /\ Past(n, e, i)'
  BY HandleCalled DEF Called
<1>2. LearnsCommitted(n, e, i)
  BY HandleEnds
<1>3. QED BY <1>1, <1>2, NodeStepCommitted DEF LearnsCommitted

LEMMA HandleNewEpochCommitted ==
  ASSUME QInv, CommittedOk, NEW n \in Node, NEW e \in Epoch, HandleNewEpoch(n, e)
  PROVE  CommittedOk' /\ status' = status
<1>1. committed' = committed /\ status' = status
  BY DEF HandleNewEpoch, NewEpoch
<1>2. QED BY <1>1, HandleNewEpochStep, NodeStepCommitted

LEMMA NodeCrashCommitted ==
  ASSUME QInv, CommittedOk, NEW n \in Node, NodeCrash(n)
  PROVE  CommittedOk' /\ EndsOtherwise(n)
<1>1. calls' = calls /\ answers' = answers /\ Disconnect(n)
  BY DEF NodeCrash, writers
<1>2. Die(n, "down") /\ (promised' = promised \/ \E v : Promise(n, v))
  <2>1. CASE Crash(n)
    BY <2>1 DEF Crash, disk
  <2>2. CASE \E e \in Epoch : CrashInPromise(n, e)
    BY <2>2 DEF CrashInPromise
  <2>3. CASE \E e \in Epoch : \E i \in 1..Sent(e) : CrashWithin(n, e, i)
    <3>1. PICK e \in Epoch : \E i \in 1..Sent(e) : CrashWithin(n, e, i)
      BY <2>3
    <3>2. PICK i \in 1..Sent(e) : CrashWithin(n, e, i)
      BY <3>1
    <3> DEFINE c == calls[e][i]
    <3>3. \/ CrashInStartLogSegment(n, Req(e, i), c.s)
          \/ CrashInFinalize(n, Req(e, i), c.s, c.end)
          \/ CrashInPrepareRecovery(n, Req(e, i), c.s)
          \/ \E len, body : CrashInAcceptRecovery(n, Req(e, i), c.s, len, c.end, body)
      BY <3>2 DEF CrashWithin, Req
    <3>4. QED BY <3>3 DEF CrashInStartLogSegment, CrashInFinalize,
                          CrashInPrepareRecovery, CrashInAcceptRecovery, Admitted
  <2>4. QED BY <2>1, <2>2, <2>3 DEF NodeCrash
<1>3. /\ \A f : Sent(f)' = Sent(f)
      /\ \A f, j : QuorumAnswered(f, j) => QuorumAnswered(f, j)'
  BY <1>1 DEF Sent, QuorumAnswered, Answered
<1>4. \A e \in Epoch : CommittedKnown(e)'
  BY <1>1, <1>3, KnownStays
<1>5. ASSUME NEW m \in Node PROVE CommittedHeard(m)'
  <2>1. CASE m = n
    <3>1. committed'[n] = InvalidTxid
      BY <1>2 DEF Die, QInv, IInv, TypeOK, MemoryTypeOK
    <3>2. QED BY <2>1, <3>1 DEF CommittedHeard
  <2>2. CASE m # n
    <3>1. /\ promised'[m] = promised[m] /\ ipcSerial'[m] = ipcSerial[m]
          /\ committed'[m] = committed[m]
      BY <1>2, <2>2 DEF Die, Promise, QInv, IInv, TypeOK, MemoryTypeOK, DiskTypeOK
    <3>2. \A f \in Epoch : lost'[f][m] = lost[f][m]
      BY <1>1, <2>2 DEF Disconnect, QInv, QTypeOK
    <3>3. QED BY <1>1, <1>3, <3>1, <3>2, PastSame, HeardCommittedStays
  <2>3. QED BY <2>1, <2>2
<1>6. EndsOtherwise(n)
  <2>1. "down" \notin RecoveryChecks
    BY DEF RecoveryChecks
  <2>2. QED BY <1>2, <2>1, DieLearns
<1>7. QED BY <1>4, <1>5, <1>6 DEF CommittedOk

LEMMA RestartCommitted ==
  ASSUME QInv, CommittedOk, NEW n \in Node, Restart(n)
  PROVE  CommittedOk' /\ EndsOtherwise(n)
<1>1. UNCHANGED <<calls, answers, lost, promised, ipcSerial, committed>>
  BY DEF Restart, Load, writers
<1>2. /\ \A f : Sent(f)' = Sent(f)
      /\ \A f, j : QuorumAnswered(f, j) => QuorumAnswered(f, j)'
  BY <1>1 DEF Sent, QuorumAnswered, Answered
<1>3. \A e \in Epoch : CommittedKnown(e)'
  BY <1>1, <1>2, KnownStays
<1>4. \A m \in Node : CommittedHeard(m)'
  BY <1>1, <1>2, PastSame, HeardCommittedStays
<1>5. "up" \notin RecoveryChecks /\ "down" \notin RecoveryChecks
  BY DEF RecoveryChecks
<1>6. EndsOtherwise(n)
  BY <1>5 DEF Restart, Load, EndsOtherwise
<1>7. QED BY <1>3, <1>4, <1>6 DEF CommittedOk

\* What the writer sends as committed is the last transaction a majority has
\* answered to it.
LEMMA KnownCommittedIsKnown ==
  ASSUME QInv, NEW e \in Epoch, KnownCommitted(e) # InvalidTxid
  PROVE  \E j \in 1..Sent(e) :
           /\ calls[e][j].op = "journal" /\ QuorumAnswered(e, j)
           /\ calls[e][j].end = KnownCommitted(e)
<1> DEFINE mine == {i \in 1..Sent(e) : calls[e][i].op = "journal" /\ QuorumAnswered(e, i)}
<1>1. Sent(e) \in Nat
  BY CallType DEF QInv
<1>2. mine # {} /\ KnownCommitted(e) = calls[e][Max(mine)].end
  BY DEF KnownCommitted
<1>3. mine \in SUBSET (0..Sent(e))
  BY <1>1
<1>4. Max(mine) \in mine
  BY <1>1, <1>2, <1>3, MaxIsGreatest
<1>5. QED BY <1>2, <1>4

LEMMA SendCommitted ==
  ASSUME QInv, CommittedOk, NEW e \in Epoch, NEW d, Sends(e, d),
         NEW op, NEW s, NEW end, NEW from, Send(e, op, s, end, from)
  PROVE  CommittedOk' /\ status' = status
<1>1. /\ QTypeOK /\ UNCHANGED <<vars, answers, lost>> /\ Grows
      /\ Sent(e)' = Sent(e) + 1 /\ calls'[e][Sent(e) + 1] = d
      /\ Sent(e) \in Nat /\ \A i \in 1..Sent(e) : calls'[e][i] = calls[e][i]
      /\ \A f \in Epoch : f # e => calls'[f] = calls[f] /\ Sent(f)' = Sent(f)
  BY SendResult DEF QInv, Sends
<1>2. \A f, j : QuorumAnswered(f, j)' <=> QuorumAnswered(f, j)
  BY <1>1 DEF QuorumAnswered, Answered
<1>3. d.committed = KnownCommitted(e)
  <2>1. PICK c : c = [op |-> op, s |-> s, end |-> end, from |-> from,
                      committed |-> KnownCommitted(e)]
    OBVIOUS
  <2>2. calls' = [calls EXCEPT ![e] = Append(@, c)]
    BY <2>1 DEF Send
  <2>3. calls \in [Epoch -> Seq(Call)] /\ calls[e] \in Seq(Call)
    BY <1>1, CallType DEF QTypeOK
  <2>4. calls'[e] = Append(calls[e], c) /\ calls'[e] = Append(calls[e], d)
    BY <2>2, <2>3 DEF Sends
  <2>5. Append(calls[e], c)[Len(calls[e]) + 1] = c
    BY <2>3
  <2>6. Append(calls[e], d)[Len(calls[e]) + 1] = d
    BY <2>3
  <2>7. QED BY <2>1, <2>4, <2>5, <2>6
<1>4. ASSUME NEW f \in Epoch PROVE CommittedKnown(f)'
  <2> SUFFICES ASSUME NEW i \in 1..Sent(f)', calls'[f][i].committed # InvalidTxid
               PROVE  \E j \in 1..Sent(f)' :
                        /\ j < i /\ calls'[f][j].op = "journal" /\ QuorumAnswered(f, j)'
                        /\ calls'[f][j].end = calls'[f][i].committed
    BY DEF CommittedKnown
  <2>1. CASE f = e /\ i = Sent(e) + 1
    <3>1. PICK j \in 1..Sent(e) :
            /\ calls[e][j].op = "journal" /\ QuorumAnswered(e, j)
            /\ calls[e][j].end = KnownCommitted(e)
      BY <1>1, <1>3, <2>1, KnownCommittedIsKnown
    <3>2. j \in 1..Sent(f)' /\ j < i /\ calls'[f][j] = calls[f][j]
      BY <1>1, <2>1
    <3>3. QED BY <1>1, <1>2, <1>3, <2>1, <3>1, <3>2
  <2>2. CASE ~(f = e /\ i = Sent(e) + 1)
    <3>1. Sent(f) \in Nat
      BY <1>1, CallType
    <3>2. i \in 1..Sent(f) /\ calls'[f][i] = calls[f][i]
      BY <1>1, <2>2
    <3>3. PICK j \in 1..Sent(f) :
            /\ j < i /\ calls[f][j].op = "journal" /\ QuorumAnswered(f, j)
            /\ calls[f][j].end = calls[f][i].committed
      BY <3>2 DEF CommittedOk, CommittedKnown
    <3>4. j \in 1..Sent(f)' /\ calls'[f][j] = calls[f][j]
      BY <1>1, <3>1
    <3>5. QED BY <1>2, <3>2, <3>3, <3>4
  <2>3. QED BY <2>1, <2>2
<1>5. /\ UNCHANGED <<promised, ipcSerial, committed, lost, status>>
      /\ \A f \in Epoch : \A k \in 1..Sent(f) :
           k \in 1..Sent(f)' /\ calls'[f][k] = calls[f][k]
  BY <1>1, CallStays DEF vars, disk, memory
<1>6. \A m \in Node : CommittedHeard(m)'
  BY <1>5, PastSame, HeardCommittedStays
<1>7. QED BY <1>4, <1>5, <1>6 DEF CommittedOk

LEMMA StutterCommitted ==
  ASSUME CommittedOk, UNCHANGED <<vars, calls, answers, lost>>
  PROVE  CommittedOk' /\ status' = status
<1>1. /\ UNCHANGED <<promised, ipcSerial, committed, status>>
      /\ \A f : Sent(f)' = Sent(f)
      /\ \A f, j : QuorumAnswered(f, j)' <=> QuorumAnswered(f, j)
  BY DEF vars, disk, memory, Sent, QuorumAnswered, Answered
<1>2. \A m \in Node : CommittedHeard(m)'
  BY <1>1, PastSame, HeardCommittedStays
<1>3. \A e \in Epoch : CommittedKnown(e)'
  BY <1>1, KnownStays
<1>4. QED BY <1>1, <1>2, <1>3 DEF CommittedOk

LEMMA WriterCommitted ==
  ASSUME QInv, CommittedOk, NEW e \in Epoch, Writer(e)
  PROVE  CommittedOk' /\ status' = status
<1>1. CASE Begin(e)
  BY <1>1, StutterCommitted DEF Begin
<1>2. CASE ~Begin(e)
  <2>1. PICK d : Sends(e, d)
    BY <1>2, WriterSends
  <2>2. \E op, s, end, from : Send(e, op, s, end, from)
    BY <1>2 DEF Writer, AfterNewEpoch, AfterPrepare, Continue
  <2>3. QED BY <2>1, <2>2, SendCommitted
<1>3. QED BY <1>1, <1>2

LEMMA StepCommitted ==
  ASSUME QInv, CommittedOk, [QNext]_qvars
  PROVE  /\ CommittedOk'
         /\ status' = status \/ \E n \in Node : EndsOtherwise(n)
<1>1. CASE UNCHANGED qvars
  BY <1>1, StutterCommitted DEF qvars, writers
<1>2. CASE \E e \in Epoch : Writer(e)
  BY <1>2, WriterCommitted
<1>3. CASE \E n \in Node : NodeCrash(n)
  BY <1>3, NodeCrashCommitted
<1>4. CASE \E n \in Node : Restart(n)
  BY <1>4, RestartCommitted
<1>5. CASE \E n \in Node : \E e \in Epoch : HandleNewEpoch(n, e)
  BY <1>5, HandleNewEpochCommitted
<1>6. CASE \E n \in Node : \E e \in Epoch : \E i \in 1..Sent(e) : Handle(n, e, i)
  BY <1>6, HandleCommitted, HandleEnds
<1>7. QED BY <1>1, <1>2, <1>3, <1>4, <1>5, <1>6 DEF QNext

\* No node ends by a check of recovery: none is asked to finalize a segment
\* with another end than it has, to restart or replace a finalized one, to
\* discard a transaction it knows to be committed, or to overwrite a decision
\* of a later epoch (Journal.cpp, finalizeLogSegment, startLogSegment and
\* acceptRecovery).
THEOREM ChecksHold ==
  ASSUME "replace" \notin CrashIn
  PROVE  QSpec => []FinalizedIsFinal
<1>1. QInit => CommittedOk /\ FinalizedIsFinal
  <2> SUFFICES ASSUME QInit PROVE CommittedOk /\ FinalizedIsFinal
    OBVIOUS
  <2>1. \A e \in Epoch : \A i : i \notin 1..Sent(e)
    BY DEF QInit, Sent
  <2>2. CommittedOk
    BY <2>1 DEF QInit, CommittedOk, CommittedKnown, CommittedHeard
  <2>3. FinalizedIsFinal
    BY DEF QInit, FinalizedIsFinal
  <2>4. QED BY <2>2, <2>3
<1>2. QInv /\ CommittedOk /\ FinalizedIsFinal /\ [QNext]_qvars =>
        CommittedOk' /\ FinalizedIsFinal'
  <2> SUFFICES ASSUME QInv, CommittedOk, FinalizedIsFinal, [QNext]_qvars
               PROVE  CommittedOk' /\ FinalizedIsFinal'
    OBVIOUS
  <2>1. CommittedOk' /\ (status' = status \/ \E n \in Node : EndsOtherwise(n))
    BY StepCommitted
  <2>2. ASSUME NEW n \in Node PROVE status'[n] \notin RecoveryChecks
    <3>1. status \in [Node -> Status] /\ status[n] \notin RecoveryChecks
      BY DEF QInv, IInv, TypeOK, MemoryTypeOK, FinalizedIsFinal, RecoveryChecks
    <3>2. QED BY <2>1, <3>1 DEF EndsOtherwise
  <2>3. QED BY <2>1, <2>2 DEF FinalizedIsFinal, RecoveryChecks
<1>3. QED BY QuorumInvariant, <1>1, <1>2, PTL DEF QSpec
=============================================================================
