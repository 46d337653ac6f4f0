--------------------------- MODULE EditScanProofs ---------------------------
(***************************************************************************)
(* What the scan of an edit log reports, for records of any sizes, logs of *)
(* any length and any memory beyond the end.                               *)
(***************************************************************************)
EXTENDS EditScan, FiniteSetTheorems, TLAPS

Placement == [data : Nat, known : BOOLEAN, start : Nat]

\* Where the scan is when it has passed k records, and what it has seen then.
PositionOf(k) == IF k = 0 THEN HeaderSize ELSE EndOf(k)
LastOf(k)     == IF k = 0 THEN InvalidTxid ELSE FirstTxid + k - 1

\* Records follow on each other from the header on.
Laid(rs) ==
  /\ rs # <<>> => rs[1].start = HeaderSize
  /\ \A i \in 1..Len(rs) - 1 : rs[i + 1].start = rs[i].start + Size(rs[i])
  /\ \A i, j \in 1..Len(rs) : i < j => rs[i].start + Size(rs[i]) <= rs[j].start

\* Only a log that is whole is written to; what was acknowledged is in the file.
FileOk ==
  /\ pc = "create" => records = <<>> /\ ~overread
  /\ pc = "writing" => fileLength = LengthOf(records) /\ ~overread
  /\ records # <<>> => fileLength >= HeaderSize
  /\ acked > 0 => EndOf(acked) <= fileLength

\* The scan stands between records, all it has read is in the file.
InOrder(k) ==
  /\ ~overread
  /\ mCurPosition = PositionOf(k) /\ mCurPosition <= fileLength
  /\ tempLast = LastOf(k)

\* It has read beyond the end: the file is torn within the header, or within
\* record k + 1, whose txid counts if it is in the file.
BeyondHeader ==
  /\ fileLength < HeaderSize
  /\ tempLast = InvalidTxid

Within(k) ==
  /\ k + 1 \in DOMAIN records
  /\ records[k + 1].start < fileLength /\ fileLength < EndOf(k + 1)

BeyondRecord(k) ==
  /\ Within(k)
  /\ k > 0 => tempLast >= LastOf(k)
  /\ ~TornInTxid => tempLast = LastOf(k + 1)

Beyond(k) ==
  /\ overread /\ mCurPosition > fileLength
  /\ BeyondHeader \/ BeyondRecord(k)

ScanOk ==
  /\ pc = "header" => mCurPosition = 0 /\ tempLast = InvalidTxid /\ ~overread
  /\ pc = "ops" => \E k \in 0..Len(records) : InOrder(k) \/ Beyond(k)
  /\ pc = "done" => \E k \in 0..Len(records) :
                      (InOrder(k) /\ mCurPosition = fileLength) \/ Beyond(k)
  /\ overread => ~EndsBetweenRecords

SInv == TypeOK /\ Laid(records) /\ FileOk /\ ScanOk

-----------------------------------------------------------------------------
(* Records in the file *)

LEMMA RecordTyped ==
  ASSUME TypeOK, NEW i \in DOMAIN records
  PROVE  /\ i \in 1..Len(records) /\ Len(records) \in Nat
         /\ records[i].data \in Nat /\ records[i].start \in Nat
         /\ records[i].known \in BOOLEAN
         /\ EndOf(i) = records[i].start + 17 + records[i].data
         /\ EndOf(i) \in Nat
<1>1. /\ records \in Seq(Placement)
      /\ i \in 1..Len(records) /\ Len(records) \in Nat
  BY DEF TypeOK, Placement
<1>2. records[i] \in Placement
  BY <1>1
<1>3. /\ records[i].data \in Nat /\ records[i].start \in Nat
      /\ records[i].known \in BOOLEAN
  BY <1>2 DEF Placement
<1>4. QED BY <1>1, <1>3 DEF EndOf, Size

\* Where k records are passed, the next one starts; it is the only one there.
LEMMA NextStarts ==
  ASSUME TypeOK, Laid(records), NEW k \in 0..Len(records)
  PROVE  /\ k + 1 \in DOMAIN records => records[k + 1].start = PositionOf(k)
         /\ \A i \in DOMAIN records :
              /\ i > k => records[i].start >= PositionOf(k)
              /\ i <= k => EndOf(i) <= PositionOf(k)
              /\ records[i].start = PositionOf(k) => i = k + 1
         /\ PositionOf(k) \in Nat
<1>1. DOMAIN records = 1..Len(records) /\ Len(records) \in Nat
  BY DEF TypeOK
<1>2. \A i \in DOMAIN records :
        /\ records[i].start \in Nat /\ EndOf(i) \in Nat
        /\ EndOf(i) > records[i].start
  BY RecordTyped
<1>3. /\ records # <<>> => records[1].start = HeaderSize
      /\ \A i \in 1..Len(records) - 1 : records[i + 1].start = EndOf(i)
      /\ \A i, j \in 1..Len(records) : i < j => EndOf(i) <= records[j].start
  BY DEF Laid, EndOf
<1>4. PositionOf(k) \in Nat
  BY <1>1, <1>2 DEF PositionOf, HeaderSize
<1>5. ASSUME k + 1 \in DOMAIN records PROVE records[k + 1].start = PositionOf(k)
  <2>1. CASE k = 0
    <3>1. records # <<>>
      BY <1>1, <1>5
    <3>2. QED BY <1>3, <2>1, <3>1 DEF PositionOf
  <2>2. CASE k > 0
    BY <1>1, <1>3, <1>5, <2>2 DEF PositionOf
  <2>3. QED BY <2>1, <2>2
<1>6. ASSUME NEW i \in DOMAIN records, i > k
      PROVE  /\ records[i].start >= PositionOf(k)
             /\ records[i].start = PositionOf(k) => i = k + 1
  <2>1. k + 1 \in DOMAIN records
    BY <1>1, <1>6
  <2>2. CASE i = k + 1
    BY <1>2, <1>5, <2>1, <2>2
  <2>3. CASE i # k + 1
    <3>1. k + 1 < i
      BY <1>1, <1>6, <2>3
    <3>2. EndOf(k + 1) <= records[i].start
      BY <1>1, <1>3, <2>1, <3>1
    <3>3. QED BY <1>2, <1>4, <1>5, <2>1, <3>2
  <2>4. QED BY <2>2, <2>3
<1>7. ASSUME NEW i \in DOMAIN records, i <= k
      PROVE  /\ EndOf(i) <= PositionOf(k)
             /\ records[i].start # PositionOf(k)
  <2>1. k \in DOMAIN records /\ PositionOf(k) = EndOf(k)
    BY <1>1, <1>7 DEF PositionOf
  <2>2. CASE i = k
    BY <1>2, <2>1, <2>2
  <2>3. CASE i < k
    <3>1. EndOf(i) <= records[k].start
      BY <1>1, <1>3, <2>1, <2>3
    <3>2. QED BY <1>2, <2>1, <3>1
  <2>4. QED BY <1>1, <1>7, <2>2, <2>3
<1>8. \A i \in DOMAIN records : i > k \/ i <= k
  BY <1>1
<1>9. QED BY <1>4, <1>5, <1>6, <1>7, <1>8

\* The length of the log is where the last record ends.
LEMMA LengthIsLast ==
  ASSUME TypeOK
  PROVE  /\ LengthOf(records) = PositionOf(Len(records))
         /\ Len(records) \in 0..Len(records)
<1>1. Len(records) \in Nat /\ (records = <<>> <=> Len(records) = 0)
  BY DEF TypeOK
<1>2. QED BY <1>1 DEF LengthOf, PositionOf, EndOf

\* A record is placed behind the others.
LEMMA PlacedIs ==
  ASSUME NEW r \in Record, NEW at \in Nat
  PROVE  /\ Placed(r, at) \in Placement
         /\ Placed(r, at).start = at
         /\ Size(Placed(r, at)) = Size(r) /\ Size(r) \in Nat /\ Size(r) >= 17
<1>1. r.data \in Nat /\ r.known \in BOOLEAN
  BY ScanAssumption
<1>2. QED BY <1>1 DEF Placed, Placement, Size

LEMMA AppendLaid ==
  ASSUME NEW rs \in Seq(Placement), Laid(rs), NEW r \in Record
  PROVE  LET ns == Append(rs, Placed(r, LengthOf(rs))) IN
         /\ ns \in Seq(Placement) /\ Laid(ns)
         /\ LengthOf(rs) \in Nat /\ LengthOf(rs) >= HeaderSize
         /\ LengthOf(ns) = LengthOf(rs) + Size(r)
         /\ Len(ns) = Len(rs) + 1
         /\ \A i \in 1..Len(rs) : ns[i] = rs[i]
<1> DEFINE n  == Len(rs)
           at == LengthOf(rs)
           ns == Append(rs, Placed(r, at))
           End(i) == rs[i].start + Size(rs[i])
<1>1. n \in Nat /\ (rs = <<>> <=> n = 0)
  OBVIOUS
<1>2. ASSUME NEW i \in 1..n
      PROVE  /\ rs[i].start \in Nat /\ Size(rs[i]) \in Nat /\ Size(rs[i]) >= 17
             /\ End(i) \in Nat
  <2>1. rs[i] \in Placement
    BY <1>2
  <2>2. rs[i].start \in Nat /\ rs[i].data \in Nat
    BY <2>1 DEF Placement
  <2>3. QED BY <2>2 DEF Size
<1>3. at = IF n = 0 THEN 8 ELSE End(n)
  BY <1>1 DEF LengthOf, HeaderSize
<1>4. /\ n > 0 => rs[1].start = 8
      /\ \A i \in 1..n - 1 : rs[i + 1].start = End(i)
      /\ \A i, j \in 1..n : i < j => End(i) <= rs[j].start
  BY <1>1 DEF Laid, HeaderSize
<1>5. at \in Nat /\ at >= 8
  <2>1. CASE n = 0
    BY <1>3, <2>1
  <2>2. CASE n = 1
    BY <1>2, <1>3, <1>4, <2>2
  <2>3. CASE n > 1
    <3>1. 1 \in 1..n /\ n \in 1..n /\ 1 < n
      BY <1>1, <2>3
    <3>2. End(1) <= rs[n].start
      BY <1>4, <3>1
    <3>3. /\ rs[1].start = 8 /\ Size(rs[1]) \in Nat
          /\ rs[n].start \in Nat /\ Size(rs[n]) \in Nat
      BY <1>2, <1>4, <2>3, <3>1
    <3>4. at = rs[n].start + Size(rs[n])
      BY <1>3, <2>3
    <3>5. QED BY <3>2, <3>3, <3>4
  <2>4. \A m \in Nat : m = 0 \/ m = 1 \/ m > 1
    OBVIOUS
  <2>5. n = 0 \/ n = 1 \/ n > 1
    BY <1>1, <2>4
  <2>6. QED BY <2>1, <2>2, <2>3, <2>5
<1>6. /\ Placed(r, at) \in Placement /\ Placed(r, at).start = at
      /\ Size(Placed(r, at)) = Size(r) /\ Size(r) \in Nat
  BY <1>5, PlacedIs
<1>7. /\ ns \in Seq(Placement) /\ Len(ns) = n + 1
      /\ \A i \in 1..n : ns[i] = rs[i]
      /\ ns[n + 1] = Placed(r, at) /\ ns # <<>>
  BY <1>1, <1>6
<1>8. LengthOf(ns) = at + Size(r)
  BY <1>6, <1>7 DEF LengthOf
<1>9. \A i \in 1..n : End(i) <= at
  <2>1. ASSUME NEW i \in 1..n PROVE End(i) <= at
    <3>1. n \in 1..n /\ at = End(n)
      BY <1>1, <1>3
    <3>2. CASE i = n
      BY <1>2, <3>1, <3>2
    <3>3. CASE i < n
      <4>1. End(i) <= rs[n].start
        BY <1>4, <3>1, <3>3
      <4>2. QED BY <1>2, <3>1, <4>1
    <3>4. QED BY <1>1, <3>2, <3>3
  <2>2. QED BY <2>1
<1>10. Laid(ns)
  <2>1. ns[1].start = HeaderSize
    <3>1. CASE n = 0
      BY <1>3, <1>6, <1>7, <3>1 DEF HeaderSize
    <3>2. CASE n > 0
      BY <1>1, <1>4, <1>7, <3>2 DEF HeaderSize
    <3>3. QED BY <1>1, <3>1, <3>2
  <2>2. ASSUME NEW i \in 1..Len(ns) - 1
        PROVE  ns[i + 1].start = ns[i].start + Size(ns[i])
    <3>1. i \in 1..n /\ ns[i] = rs[i]
      BY <1>1, <1>7, <2>2
    <3>2. CASE i = n
      BY <1>1, <1>3, <1>6, <1>7, <3>1, <3>2
    <3>3. CASE i < n
      <4>1. i \in 1..n - 1 /\ i + 1 \in 1..n
        BY <1>1, <3>1, <3>3
      <4>2. QED BY <1>4, <1>7, <3>1, <4>1
    <3>4. QED BY <1>1, <3>1, <3>2, <3>3
  <2>3. ASSUME NEW i \in 1..Len(ns), NEW j \in 1..Len(ns), i < j
        PROVE  ns[i].start + Size(ns[i]) <= ns[j].start
    <3>1. i \in 1..n /\ ns[i] = rs[i]
      BY <1>1, <1>7, <2>3
    <3>2. CASE j = n + 1
      BY <1>6, <1>7, <1>9, <3>1, <3>2
    <3>3. CASE j # n + 1
      <4>1. j \in 1..n /\ ns[j] = rs[j]
        BY <1>1, <1>7, <3>3
      <4>2. QED BY <1>4, <2>3, <3>1, <4>1
    <3>4. QED BY <3>2, <3>3
  <2>4. QED BY <2>1, <2>2, <2>3 DEF Laid
<1>11. QED BY <1>5, <1>7, <1>8, <1>10 DEF HeaderSize

\* What writeRaw adds to the file.
LEMMA BatchLaid ==
  ASSUME TypeOK, Laid(records), NEW batch \in Batches(LengthOf(records))
  PROVE  LET ns == records \o batch IN
         /\ ns \in Seq(Placement) /\ Laid(ns)
         /\ LengthOf(records) \in Nat /\ LengthOf(records) >= HeaderSize
         /\ LengthOf(ns) \in Nat /\ LengthOf(ns) > LengthOf(records)
         /\ Len(ns) = Len(records) + Len(batch) /\ Len(ns) > Len(records)
         /\ \A i \in 1..Len(records) : ns[i] = records[i]
<1> DEFINE at == LengthOf(records)
<1>1. records \in Seq(Placement) /\ Len(records) \in Nat
  BY DEF TypeOK, Placement
<1>2. ASSUME NEW r \in Record, batch = <<Placed(r, at)>>
      PROVE  LET ns == records \o batch IN
             /\ ns \in Seq(Placement) /\ Laid(ns)
             /\ at \in Nat /\ at >= HeaderSize
             /\ LengthOf(ns) \in Nat /\ LengthOf(ns) > at
             /\ Len(ns) = Len(records) + Len(batch) /\ Len(ns) > Len(records)
             /\ \A i \in 1..Len(records) : ns[i] = records[i]
  <2> DEFINE n1 == Append(records, Placed(r, at))
  <2>1. /\ n1 \in Seq(Placement) /\ Laid(n1)
        /\ at \in Nat /\ at >= HeaderSize
        /\ LengthOf(n1) = at + Size(r)
        /\ Len(n1) = Len(records) + 1
        /\ \A i \in 1..Len(records) : n1[i] = records[i]
    BY <1>1, AppendLaid
  <2>2. Placed(r, at) \in Placement /\ Size(r) \in Nat /\ Size(r) >= 17
    BY <2>1, PlacedIs
  <2>3. records \o batch = n1 /\ Len(batch) = 1
    BY <1>1, <1>2, <2>2
  <2>4. QED BY <1>1, <2>1, <2>2, <2>3
<1>3. ASSUME NEW r \in Record, NEW s \in Record,
             batch = <<Placed(r, at), Placed(s, at + Size(r))>>
      PROVE  LET ns == records \o batch IN
             /\ ns \in Seq(Placement) /\ Laid(ns)
             /\ at \in Nat /\ at >= HeaderSize
             /\ LengthOf(ns) \in Nat /\ LengthOf(ns) > at
             /\ Len(ns) = Len(records) + Len(batch) /\ Len(ns) > Len(records)
             /\ \A i \in 1..Len(records) : ns[i] = records[i]
  <2> DEFINE n1 == Append(records, Placed(r, at))
             n2 == Append(n1, Placed(s, LengthOf(n1)))
  <2>1. /\ n1 \in Seq(Placement) /\ Laid(n1)
        /\ at \in Nat /\ at >= HeaderSize
        /\ LengthOf(n1) = at + Size(r)
        /\ Len(n1) = Len(records) + 1
        /\ \A i \in 1..Len(records) : n1[i] = records[i]
    BY <1>1, AppendLaid
  <2> HIDE DEF n1
  <2>2. /\ n2 \in Seq(Placement) /\ Laid(n2)
        /\ LengthOf(n1) \in Nat
        /\ LengthOf(n2) = LengthOf(n1) + Size(s)
        /\ Len(n2) = Len(n1) + 1
        /\ \A i \in 1..Len(n1) : n2[i] = n1[i]
    BY <2>1, AppendLaid
  <2>3. /\ Placed(r, at) \in Placement /\ Size(r) \in Nat /\ Size(r) >= 17
        /\ Placed(s, LengthOf(n1)) \in Placement /\ Size(s) \in Nat /\ Size(s) >= 17
    BY <2>1, <2>2, PlacedIs
  <2>4. records \o batch = n2 /\ Len(batch) = 2
    <3>1. batch = <<Placed(r, at), Placed(s, LengthOf(n1))>>
      BY <1>3, <2>1
    <3>2. QED BY <1>1, <2>3, <3>1 DEF n1
  <2> HIDE DEF n2
  <2>5. \A i \in 1..Len(records) : n2[i] = records[i]
    BY <1>1, <2>1, <2>2
  <2>6. QED BY <1>1, <2>1, <2>2, <2>3, <2>4, <2>5
<1>4. QED BY <1>2, <1>3 DEF Batches

-----------------------------------------------------------------------------
(* The log is written *)

LEMMA InitScanned == Init => SInv
<1> SUFFICES ASSUME Init PROVE SInv
  OBVIOUS
<1>1. records = <<>> /\ Len(records) = 0 /\ DOMAIN records = {}
  BY DEF Init
<1>2. TypeOK
  <2>1. records \in Seq([data : Nat, known : BOOLEAN, start : Nat])
    BY <1>1
  <2>2. /\ Len(records) <= MaxTxns /\ fileLength \in 0..LengthOf(records)
        /\ acked \in 0..Len(records)
    BY <1>1, ScanAssumption DEF Init, LengthOf, HeaderSize
  <2>3. QED BY <1>1, <2>1, <2>2 DEF Init, TypeOK
<1>3. Laid(records)
  BY <1>1 DEF Laid
<1>4. FileOk /\ ScanOk
  BY <1>1 DEF Init, FileOk, ScanOk
<1>5. QED BY <1>2, <1>3, <1>4 DEF SInv

\* The file stays as it is when it is scanned again.
LEMMA ScanBegins ==
  ASSUME TypeOK', Laid(records)', BeginScan,
         records' # <<>> => fileLength' >= HeaderSize,
         acked' > 0 => EndOf(acked)' <= fileLength'
  PROVE  SInv'
BY DEF BeginScan, SInv, FileOk, ScanOk

LEMMA CreateScanned ==
  ASSUME SInv, Create
  PROVE  SInv'
<1>1. /\ records = <<>> /\ records' = <<>> /\ acked' = 0 /\ ~overread
      /\ Len(records) = 0 /\ TypeOK /\ Len(records') = 0
  <2>1. records = <<>> /\ acked \in 0..Len(records) /\ ~overread /\ TypeOK
    BY DEF SInv, FileOk, Create, TypeOK
  <2>2. QED BY <2>1 DEF Create
<1>2. LengthOf(records)' = 8
  BY <1>1 DEF LengthOf, HeaderSize
<1>3. Laid(records)'
  BY <1>1 DEF Laid
<1>4. CASE fileLength' = HeaderSize /\ pc' = "writing" /\ UNCHANGED scan
  <2>1. TypeOK'
    BY <1>1, <1>2, <1>4 DEF TypeOK, HeaderSize, scan
  <2>2. FileOk'
    BY <1>1, <1>2, <1>4 DEF FileOk, HeaderSize, scan
  <2>3. ScanOk'
    BY <1>1, <1>4 DEF ScanOk, scan
  <2>4. QED BY <1>3, <2>1, <2>2, <2>3 DEF SInv
<1>5. CASE fileLength' \in 0..HeaderSize - 1 /\ BeginScan
  <2>1. TypeOK'
    <3>1. /\ fileLength' \in 0..LengthOf(records)' /\ acked' \in 0..Len(records')
          /\ Len(records') <= MaxTxns
      BY <1>1, <1>2, <1>5, ScanAssumption DEF HeaderSize
    <3>2. records' \in Seq([data : Nat, known : BOOLEAN, start : Nat])
      BY <1>1
    <3>3. QED BY <1>5, <3>1, <3>2 DEF TypeOK, BeginScan
  <2>2. QED BY <1>1, <1>3, <1>5, <2>1, ScanBegins
<1>6. QED BY <1>4, <1>5 DEF Create

LEMMA WriteRawScanned ==
  ASSUME SInv, WriteRaw
  PROVE  SInv'
<1>1. /\ TypeOK /\ Laid(records) /\ pc = "writing"
      /\ fileLength = LengthOf(records) /\ ~overread
      /\ acked > 0 => EndOf(acked) <= fileLength
  BY DEF SInv, FileOk, WriteRaw
<1>2. PICK batch \in Batches(LengthOf(records)) :
        /\ Len(records) + Len(batch) <= MaxTxns
        /\ records' = records \o batch
        /\ \/ /\ fileLength' = LengthOf(records')
              /\ acked' = Len(records')
              /\ UNCHANGED <<pc, scan>>
           \/ /\ fileLength' \in fileLength..LengthOf(records') - 1
              /\ BeginScan
              /\ UNCHANGED acked
  BY DEF WriteRaw
<1>3. /\ records' \in Seq(Placement) /\ Laid(records')
      /\ LengthOf(records) \in Nat /\ LengthOf(records) >= HeaderSize
      /\ LengthOf(records') \in Nat /\ LengthOf(records') > LengthOf(records)
      /\ Len(records') = Len(records) + Len(batch) /\ Len(records') > Len(records)
      /\ \A i \in 1..Len(records) : records'[i] = records[i]
  BY <1>1, <1>2, BatchLaid
<1>4. /\ Len(records) \in Nat /\ Len(records') \in Nat
      /\ acked \in 0..Len(records)
      /\ mCurPosition \in Nat /\ tempLast \in Nat \cup {InvalidTxid}
  BY <1>1, <1>3 DEF TypeOK
<1>5. CASE /\ fileLength' = LengthOf(records')
           /\ acked' = Len(records')
           /\ UNCHANGED <<pc, scan>>
  <2>1. TypeOK'
    BY <1>1, <1>2, <1>3, <1>4, <1>5 DEF TypeOK, Placement, scan
  <2>2. EndOf(acked)' = LengthOf(records')
    BY <1>3, <1>4, <1>5 DEF EndOf, LengthOf
  <2>3. FileOk'
    BY <1>1, <1>3, <1>4, <1>5, <2>2 DEF FileOk, scan, HeaderSize
  <2>4. ScanOk'
    BY <1>1, <1>5 DEF ScanOk, scan
  <2>5. QED BY <1>3, <2>1, <2>3, <2>4 DEF SInv
<1>6. CASE /\ fileLength' \in fileLength..LengthOf(records') - 1
           /\ BeginScan
           /\ UNCHANGED acked
  <2>1. TypeOK'
    <3>1. /\ fileLength' \in 0..LengthOf(records') /\ acked' \in 0..Len(records')
          /\ Len(records') <= MaxTxns
      BY <1>1, <1>2, <1>3, <1>4, <1>6
    <3>2. QED BY <1>3, <1>6, <3>1 DEF TypeOK, Placement, BeginScan
  <2>2. fileLength' >= fileLength /\ fileLength' >= HeaderSize
    BY <1>1, <1>3, <1>6 DEF HeaderSize
  <2>3. acked' > 0 => EndOf(acked)' <= fileLength'
    <3>1. acked > 0 => acked \in DOMAIN records /\ records'[acked] = records[acked]
      BY <1>3, <1>4
    <3>2. acked > 0 => EndOf(acked) \in Nat
      BY <1>1, <3>1, RecordTyped
    <3>3. acked > 0 => EndOf(acked)' = EndOf(acked)
      BY <1>6, <3>1 DEF EndOf
    <3>4. QED BY <1>1, <1>3, <1>6, <2>2, <3>2, <3>3
  <2>4. QED BY <1>3, <1>6, <2>1, <2>2, <2>3, ScanBegins
<1>7. QED BY <1>2, <1>5, <1>6

LEMMA ScanAgainScanned ==
  ASSUME SInv, ScanAgain
  PROVE  SInv'
<1>1. /\ BeginScan /\ UNCHANGED <<records, fileLength, acked>>
  BY DEF ScanAgain, file
<1>2. TypeOK'
  BY <1>1 DEF SInv, TypeOK, BeginScan, LengthOf
<1>3. Laid(records)'
  BY <1>1 DEF SInv, Laid
<1>4. /\ records' # <<>> => fileLength' >= HeaderSize
      /\ acked' > 0 => EndOf(acked)' <= fileLength'
  BY <1>1 DEF SInv, FileOk, EndOf
<1>5. QED BY <1>1, <1>2, <1>3, <1>4, ScanBegins

-----------------------------------------------------------------------------
(* The log is scanned *)

LEMMA NumberReadIs ==
  ASSUME TypeOK, NEW v \in Nat, NEW from \in Nat, NEW width \in {4, 8},
         NEW n \in NumberRead(v, from, width)
  PROVE  /\ n \in Nat
         /\ fileLength >= from + width => n = v
<1>1. fileLength \in Nat
  <2>1. LengthOf(records) \in Nat
    BY LengthIsLast, RecordTyped DEF TypeOK, PositionOf, HeaderSize
  <2>2. QED BY <2>1 DEF TypeOK
<1>2. (v \div 256) * 256 \in Nat /\ (v \div 65536) * 65536 \in Nat
  OBVIOUS
<1>3. \A g \in Garbage : g \in Nat
  BY ScanAssumption
<1>4. fileLength >= from + width => fileLength - from >= width
  BY <1>1
<1>5. QED BY <1>1, <1>2, <1>3, <1>4 DEF NumberRead

LEMMA FileLengthIs ==
  ASSUME TypeOK
  PROVE  fileLength \in Nat /\ fileLength <= LengthOf(records) /\ LengthOf(records) \in Nat
<1>1. LengthOf(records) \in Nat
  BY LengthIsLast, RecordTyped DEF TypeOK, PositionOf, HeaderSize
<1>2. QED BY <1>1 DEF TypeOK

\* A file torn within the header or a record does not end between records.
LEMMA TornIsTorn ==
  ASSUME TypeOK, Laid(records), NEW k \in 0..Len(records),
         fileLength < HeaderSize \/ Within(k), records # <<>> => fileLength >= HeaderSize
  PROVE  ~EndsBetweenRecords
<1>1. /\ fileLength \in Nat
      /\ \A i \in DOMAIN records : EndOf(i) \in Nat /\ records[i].start \in Nat
  BY FileLengthIs, RecordTyped
<1>2. CASE fileLength < HeaderSize
  <2>1. records = <<>> /\ fileLength # HeaderSize
    BY <1>1, <1>2 DEF HeaderSize
  <2>2. QED BY <2>1 DEF EndsBetweenRecords
<1>3. CASE Within(k)
  <2>1. /\ k + 1 \in DOMAIN records /\ k \in Nat /\ Len(records) \in Nat
        /\ DOMAIN records = 1..Len(records)
    BY <1>3 DEF Within, TypeOK
  <2>2. /\ records[k + 1].start < fileLength /\ fileLength < EndOf(k + 1)
        /\ records[k + 1].start = PositionOf(k)
        /\ \A i \in DOMAIN records : i <= k => EndOf(i) <= PositionOf(k)
    BY <1>3, <2>1, NextStarts DEF Within
  <2>3. ASSUME NEW i \in DOMAIN records, EndOf(i) = fileLength PROVE FALSE
    <3>1. i > k
      BY <1>1, <2>1, <2>2, <2>3
    <3>2. i # k + 1
      BY <1>1, <2>1, <2>2, <2>3
    <3>3. k + 1 < i
      BY <2>1, <3>1, <3>2
    <3>4. EndOf(k + 1) <= records[i].start
      BY <2>1, <3>3 DEF Laid, EndOf
    <3>5. EndOf(i) > records[i].start
      BY RecordTyped
    <3>6. QED BY <1>1, <2>1, <2>2, <2>3, <3>4, <3>5
  <2>4. fileLength # HeaderSize
    <3>1. records[1].start = HeaderSize /\ 1 \in DOMAIN records
      BY <2>1 DEF Laid
    <3>2. records[k + 1].start >= HeaderSize
      <4>1. CASE k = 0
        BY <1>1, <3>1, <4>1 DEF HeaderSize
      <4>2. CASE k # 0
        <5>1. EndOf(1) <= records[k + 1].start
          BY <2>1, <3>1, <4>2 DEF Laid, EndOf
        <5>2. EndOf(1) > records[1].start
          BY <3>1, RecordTyped
        <5>3. QED BY <1>1, <2>1, <3>1, <5>1, <5>2 DEF HeaderSize
      <4>3. QED BY <4>1, <4>2
    <3>3. QED BY <1>1, <2>1, <2>2, <3>2 DEF HeaderSize
  <2>5. QED BY <2>3, <2>4 DEF EndsBetweenRecords
<1>4. QED BY <1>2, <1>3

\* What does not depend on the scan.
LEMMA FileKept ==
  ASSUME SInv, UNCHANGED file, pc' \notin {"create", "writing"}
  PROVE  /\ Laid(records)' /\ FileOk'
         /\ mCurPosition' \in Nat /\ tempLast' \in Nat \cup {InvalidTxid}
            /\ overread' \in BOOLEAN
            /\ pc' \in {"header", "ops", "done", "error", "killed"} => TypeOK'
         /\ \A k \in 0..Len(records) :
              /\ PositionOf(k)' = PositionOf(k) /\ LastOf(k)' = LastOf(k)
              /\ k + 1 \in DOMAIN records => EndOf(k + 1)' = EndOf(k + 1)
         /\ TornInTxid' = TornInTxid /\ EndsBetweenRecords' = EndsBetweenRecords
<1>1. UNCHANGED <<records, fileLength, acked>>
  BY DEF file
<1>2. Laid(records)'
  BY <1>1 DEF SInv, Laid
<1>3. FileOk'
  BY <1>1 DEF SInv, FileOk, EndOf
<1>4. QED BY <1>1, <1>2, <1>3
   DEF SInv, TypeOK, LengthOf, PositionOf, LastOf, EndOf, TornInTxid, WithBytes,
       EndsBetweenRecords

LEMMA SkipHeaderScanned ==
  ASSUME SInv, SkipHeader
  PROVE  SInv'
<1>1. /\ TypeOK /\ Laid(records) /\ FileOk /\ pc = "header"
      /\ mCurPosition = 0 /\ tempLast = InvalidTxid /\ ~overread
  BY DEF SInv, ScanOk, SkipHeader
<1>2. fileLength \in Nat /\ 0 \in 0..Len(records)
  BY <1>1, FileLengthIs DEF TypeOK
<1>3. CASE KilledReading(HeaderSize)
  <2>1. UNCHANGED file /\ UNCHANGED scan /\ pc' = "killed"
    BY <1>3 DEF SkipHeader, KilledReading
  <2>2. QED BY <1>1, <2>1, FileKept DEF SInv, ScanOk, scan, TypeOK
<1>4. ASSUME NEW flags \in NumberRead(0, 4, 4),
             pc' = IF flags = 0 THEN "ops" ELSE "error",
             ReadUpTo(HeaderSize), UNCHANGED tempLast
      PROVE  SInv'
  <2>1. /\ mCurPosition' = 8 /\ (overread' <=> fileLength < 8) /\ UNCHANGED file
        /\ tempLast' = InvalidTxid
    BY <1>1, <1>2, <1>4 DEF ReadUpTo, HeaderSize, SkipHeader
  <2>2. UNCHANGED <<records, fileLength, acked>>
    BY <2>1 DEF file
  <2>3. Laid(records)' /\ FileOk' /\ TypeOK'
    <3>1. overread' \in BOOLEAN
      BY <1>1, <1>4 DEF ReadUpTo, TypeOK
    <3>2. QED BY <1>4, <2>1, <3>1, FileKept
  <2>4. pc' = "ops" => InOrder(0)' \/ Beyond(0)'
    BY <1>2, <2>1, <2>2 DEF InOrder, Beyond, BeyondHeader, PositionOf, LastOf, HeaderSize
  <2>5. overread' => ~EndsBetweenRecords'
    <3>1. overread' => fileLength < HeaderSize
      BY <1>1, <2>1 DEF HeaderSize
    <3>2. overread' => ~EndsBetweenRecords
      BY <1>1, <1>2, <3>1, TornIsTorn DEF FileOk
    <3>3. QED BY <1>4, <2>1, <3>2, FileKept
  <2>6. ScanOk'
    BY <1>2, <1>4, <2>2, <2>4, <2>5 DEF ScanOk
  <2>7. QED BY <2>3, <2>6 DEF SInv
<1>5. QED BY <1>3, <1>4 DEF SkipHeader

\* The scan ends, or the process does: what was read stays.
LEMMA StopsScanned ==
  ASSUME SInv, pc = "ops",
         \/ ScanEnd \/ ScanWrongOpcode
         \/ \E n \in Nat : KilledReading(n) /\ UNCHANGED file
  PROVE  SInv'
<1>1. /\ TypeOK /\ Laid(records) /\ FileOk
      /\ overread => ~EndsBetweenRecords
      /\ fileLength \in Nat
  BY FileLengthIs DEF SInv, ScanOk
<1>2. PICK k \in 0..Len(records) : InOrder(k) \/ Beyond(k)
  BY DEF SInv, ScanOk
<1>3. CASE ScanEnd
  <2>1. UNCHANGED <<file, scan>> /\ pc' = "done" /\ AtEnd
    BY <1>3 DEF ScanEnd
  <2>2. UNCHANGED <<records, fileLength, acked, mCurPosition, tempLast, overread>>
    BY <2>1 DEF file, scan
  <2>3. Laid(records)' /\ FileOk' /\ TypeOK' /\ (overread' => ~EndsBetweenRecords')
    BY <1>1, <2>1, <2>2, FileKept DEF TypeOK
  <2>4. CASE InOrder(k)
    <3>1. InOrder(k)' /\ mCurPosition' = fileLength'
      <4>1. mCurPosition <= fileLength /\ mCurPosition >= fileLength /\ mCurPosition \in Nat
        BY <1>1, <2>1, <2>4 DEF AtEnd, InOrder, TypeOK
      <4>2. mCurPosition = fileLength
        BY <1>1, <4>1
      <4>3. QED BY <1>2, <2>1, <2>2, <2>4, <4>2, FileKept DEF InOrder
    <3>2. QED BY <1>2, <2>1, <2>2, <2>3, <3>1 DEF SInv, ScanOk
  <2>5. CASE Beyond(k)
    <3>1. Beyond(k)'
      BY <1>2, <2>2, <2>5
         DEF Beyond, BeyondHeader, BeyondRecord, Within, LastOf, EndOf, TornInTxid, WithBytes
    <3>2. QED BY <1>2, <2>1, <2>2, <2>3, <3>1 DEF SInv, ScanOk
  <2>6. QED BY <1>2, <2>4, <2>5
<1>4. CASE ScanWrongOpcode
  <2>1. /\ UNCHANGED file /\ pc' = "error" /\ mCurPosition' \in Nat
        /\ UNCHANGED <<tempLast, overread>>
    BY <1>1, <1>4 DEF ScanWrongOpcode, TypeOK
  <2>2. tempLast' \in Nat \cup {InvalidTxid} /\ overread' \in BOOLEAN
    BY <1>1, <2>1 DEF TypeOK
  <2>3. QED BY <1>1, <2>1, <2>2, FileKept DEF SInv, ScanOk
<1>5. CASE \E n \in Nat : KilledReading(n) /\ UNCHANGED file
  <2>1. /\ UNCHANGED file /\ UNCHANGED scan /\ pc' = "killed"
    BY <1>5 DEF KilledReading
  <2>2. UNCHANGED <<tempLast, overread, mCurPosition>>
    BY <2>1 DEF scan
  <2>3. TypeOK' /\ Laid(records)' /\ FileOk'
    BY <1>1, <2>1, <2>2, FileKept DEF TypeOK
  <2>4. QED BY <1>1, <2>1, <2>2, <2>3, FileKept DEF SInv, ScanOk
<1>6. QED BY <1>3, <1>4, <1>5

\* The arithmetic of a record that starts at m, with d bytes of data, of which a
\* length n is read in a file of f bytes.
LEMMA PassedIs ==
  /\ \A m, n \in Nat : m + 1 + 4 + 8 + (n - 12) + 4 = m + 5 + n
  /\ \A m, n, f, d \in Nat :
       (f >= m + 5 => n = 12 + d) =>
         /\ f >= m + 17 + d => m + 5 + n = m + 17 + d
         /\ f < m + 17 + d => m + 5 + n > f
OBVIOUS

LEMMA InTxid == \A m, d, f \in Nat : f >= m + 17 + d => f >= m + 13
OBVIOUS

\* What is read of a record: all of it, or the end of the file is within it, and
\* the position goes beyond.
LEMMA LengthRead ==
  ASSUME TypeOK, Laid(records), NEW k \in 0..Len(records),
         mCurPosition = PositionOf(k), mCurPosition < fileLength,
         NEW i \in RecordsHere,
         NEW length \in NumberRead(12 + records[i].data, mCurPosition + 1, 4)
  PROVE  /\ i = k + 1 /\ i \in DOMAIN records
         /\ records[i].start = mCurPosition
         /\ NextPosition(length) \in Nat
         /\ fileLength >= EndOf(i) => NextPosition(length) = EndOf(i)
         /\ fileLength < EndOf(i) => NextPosition(length) > fileLength
<1>1. fileLength \in Nat /\ mCurPosition \in Nat
  BY FileLengthIs DEF TypeOK
<1>2. /\ i \in DOMAIN records /\ records[i].start = mCurPosition
      /\ i = k + 1
  BY NextStarts DEF RecordsHere
<1>3. /\ records[i].data \in Nat
      /\ EndOf(i) = mCurPosition + 17 + records[i].data
  BY <1>2, RecordTyped
<1>4. /\ length \in Nat
      /\ fileLength >= mCurPosition + 5 => length = 12 + records[i].data
  BY <1>1, <1>3, NumberReadIs
<1>5. NextPosition(length) = mCurPosition + 5 + length
  BY <1>1, <1>4, PassedIs DEF NextPosition
<1>6. NextPosition(length) \in Nat /\ EndOf(i) \in Nat
  <2>1. \A m, n \in Nat : m + 5 + n \in Nat /\ m + 17 + n \in Nat
    OBVIOUS
  <2>2. QED BY <1>1, <1>3, <1>4, <1>5, <2>1
<1>7. /\ fileLength >= EndOf(i) => NextPosition(length) = EndOf(i)
      /\ fileLength < EndOf(i) => NextPosition(length) > fileLength
  <2>1. LET m == mCurPosition
            d == records[i].data
        IN  /\ fileLength >= m + 17 + d => m + 5 + length = m + 17 + d
            /\ fileLength < m + 17 + d => m + 5 + length > fileLength
    <3>1. /\ mCurPosition \in Nat /\ fileLength \in Nat /\ records[i].data \in Nat
          /\ length \in Nat
          /\ fileLength >= mCurPosition + 5 => length = 12 + records[i].data
      BY <1>1, <1>3, <1>4
    <3>2. QED BY ONLY <3>1, PassedIs
  <2>2. QED BY ONLY <1>3, <1>5, <2>1
<1>8. QED BY <1>2, <1>6, <1>7

LEMMA TxidReadIs ==
  ASSUME TypeOK, NEW k \in 0..Len(records),
         NEW txid \in TxidRead(FirstTxid + (k + 1) - 1, mCurPosition + 5)
  PROVE  /\ txid \in Nat \cup {InvalidTxid}
         /\ fileLength >= mCurPosition + 13 => txid = FirstTxid + k
<1>1. /\ fileLength \in Nat /\ mCurPosition \in Nat /\ FirstTxid \in Nat /\ k \in Nat
  BY FileLengthIs, ScanAssumption DEF TypeOK
<1>2. FirstTxid + (k + 1) - 1 = FirstTxid + k /\ FirstTxid + k \in Nat
  BY <1>1
<1>3. \A n \in NumberRead(FirstTxid + k, mCurPosition + 5, 8) :
        /\ n \in Nat
        /\ fileLength >= mCurPosition + 13 => n = FirstTxid + k
  BY <1>1, <1>2, NumberReadIs
<1>4. QED BY <1>1, <1>2, <1>3 DEF TxidRead

LEMMA ScanOpScanned ==
  ASSUME SInv, ScanOp
  PROVE  SInv'
<1>1. /\ TypeOK /\ Laid(records) /\ FileOk /\ pc = "ops"
      /\ fileLength \in Nat /\ mCurPosition \in Nat
      /\ Len(records) \in Nat /\ DOMAIN records = 1..Len(records)
      /\ tempLast \in Nat \cup {InvalidTxid} /\ FirstTxid \in Nat
      /\ mCurPosition < fileLength /\ UNCHANGED file
  <2>1. /\ TypeOK /\ Laid(records) /\ FileOk /\ pc = "ops"
        /\ UNCHANGED file /\ ~AtEnd
    BY DEF SInv, ScanOp
  <2>2. /\ fileLength \in Nat /\ mCurPosition \in Nat
        /\ tempLast \in Nat \cup {InvalidTxid} /\ FirstTxid \in Nat
    BY <2>1, FileLengthIs, ScanAssumption DEF TypeOK
  <2>3. Len(records) \in Nat /\ DOMAIN records = 1..Len(records)
    BY <2>1 DEF TypeOK
  <2>4. mCurPosition < fileLength
    BY <2>1, <2>2 DEF AtEnd
  <2>5. QED BY <2>1, <2>2, <2>3, <2>4
<1>2. PICK k \in 0..Len(records) : InOrder(k)
  <2>1. \A k \in 0..Len(records) : ~Beyond(k)
    BY <1>1 DEF Beyond
  <2>2. QED BY <1>1, <2>1 DEF SInv, ScanOk
<1>3. /\ mCurPosition = PositionOf(k) /\ tempLast = LastOf(k) /\ ~overread
      /\ k \in Nat
  BY <1>1, <1>2 DEF InOrder
<1>4. PICK i \in RecordsHere :
        \E length \in NumberRead(12 + records[i].data, mCurPosition + 1, 4) :
          \/ \E txid \in TxidRead(FirstTxid + i - 1, mCurPosition + 5) :
               /\ ReadUpTo(NextPosition(length))
               /\ IF txid = InvalidTxid THEN pc' = "done" /\ UNCHANGED tempLast
                  ELSE tempLast' = Counted(txid) /\ UNCHANGED pc
          \/ KilledReading(NextPosition(length))
  BY DEF ScanOp
<1>5. PICK length \in NumberRead(12 + records[i].data, mCurPosition + 1, 4) :
        \/ \E txid \in TxidRead(FirstTxid + i - 1, mCurPosition + 5) :
             /\ ReadUpTo(NextPosition(length))
             /\ IF txid = InvalidTxid THEN pc' = "done" /\ UNCHANGED tempLast
                ELSE tempLast' = Counted(txid) /\ UNCHANGED pc
        \/ KilledReading(NextPosition(length))
  BY <1>4
<1>6. CASE KilledReading(NextPosition(length))
  <2>1. NextPosition(length) \in Nat
    BY <1>1, <1>2, <1>3, LengthRead
  <2>2. QED BY <1>1, <1>6, <2>1, StopsScanned
<1>7. ASSUME NEW txid \in TxidRead(FirstTxid + i - 1, mCurPosition + 5),
             ReadUpTo(NextPosition(length)),
             IF txid = InvalidTxid THEN pc' = "done" /\ UNCHANGED tempLast
             ELSE tempLast' = Counted(txid) /\ UNCHANGED pc
      PROVE  SInv'
  <2>1. /\ i = k + 1 /\ i \in DOMAIN records
        /\ records[i].start = mCurPosition
        /\ NextPosition(length) \in Nat
        /\ fileLength >= EndOf(i) => NextPosition(length) = EndOf(i)
        /\ fileLength < EndOf(i) => NextPosition(length) > fileLength
        /\ txid \in Nat \cup {InvalidTxid}
        /\ fileLength >= records[i].start + 13 => txid = FirstTxid + k
    <3>1. /\ i = k + 1 /\ i \in DOMAIN records
          /\ records[i].start = mCurPosition
          /\ NextPosition(length) \in Nat
          /\ fileLength >= EndOf(i) => NextPosition(length) = EndOf(i)
          /\ fileLength < EndOf(i) => NextPosition(length) > fileLength
      BY <1>1, <1>2, <1>3, LengthRead
    <3>2. /\ txid \in Nat \cup {InvalidTxid}
          /\ fileLength >= mCurPosition + 13 => txid = FirstTxid + k
      BY <1>1, <1>2, <1>7, <3>1, TxidReadIs
    <3>3. QED BY <3>1, <3>2
  <2>2. /\ mCurPosition' = NextPosition(length)
        /\ overread' <=> NextPosition(length) > fileLength
    BY <1>3, <1>7 DEF ReadUpTo
  <2>3. UNCHANGED <<records, fileLength, acked>>
    BY <1>1 DEF file
  <2>4. /\ tempLast' \in Nat \cup {InvalidTxid}
        /\ k > 0 => tempLast' >= LastOf(k)
        /\ txid = FirstTxid + k => tempLast' = FirstTxid + k /\ pc' = "ops"
        /\ pc' = "done" => txid = InvalidTxid
        /\ pc' \in {"ops", "done"}
    <3>1. LastOf(k) = IF k = 0 THEN InvalidTxid ELSE FirstTxid + k - 1
      BY DEF LastOf
    <3>2. LastOf(k) \in Nat \cup {InvalidTxid} /\ FirstTxid + k \in Nat
      BY <1>1, <1>3, <3>1
    <3>3. k > 0 => LastOf(k) \in Nat /\ LastOf(k) < FirstTxid + k
      BY <1>1, <1>3, <3>1
    <3>4. FirstTxid + k # InvalidTxid
      BY <3>2 DEF InvalidTxid
    <3>5. CASE txid = InvalidTxid
      <4>1. pc' = "done" /\ tempLast' = LastOf(k)
        BY <1>3, <1>7, <3>5
      <4>2. QED BY <3>2, <3>3, <3>4, <3>5, <4>1
    <3>6. CASE txid # InvalidTxid
      <4>1. pc' = "ops" /\ txid \in Nat
        BY <1>1, <1>7, <2>1, <3>6
      <4>2. tempLast' = IF LastOf(k) = InvalidTxid \/ txid > LastOf(k) THEN txid ELSE LastOf(k)
        BY <1>3, <1>7, <3>6 DEF Counted
      <4>3. CASE k = 0
        BY <3>1, <3>2, <3>6, <4>1, <4>2, <4>3
      <4>4. CASE k > 0
        BY <3>2, <3>3, <4>1, <4>2, <4>4 DEF InvalidTxid
      <4>5. QED BY <1>3, <4>3, <4>4
    <3>7. QED BY <3>5, <3>6
  <2>5. Laid(records)' /\ FileOk' /\ TypeOK'
    <3>1. overread' \in BOOLEAN
      BY <1>1, <1>7 DEF ReadUpTo, TypeOK
    <3>2. QED BY <1>1, <2>1, <2>2, <2>4, <3>1, FileKept
  <2>6. CASE fileLength >= EndOf(i)
    <3>1. fileLength >= records[i].start + 13
      <4>1. /\ records[i].start \in Nat /\ records[i].data \in Nat
            /\ EndOf(i) = records[i].start + 17 + records[i].data
        BY <1>1, <2>1, RecordTyped
      <4>2. fileLength \in Nat
        BY <1>1
      <4>3. fileLength >= records[i].start + 17 + records[i].data
        BY <2>6, <4>1
      <4>4. QED BY ONLY <4>1, <4>2, <4>3, InTxid
    <3>2. /\ tempLast' = FirstTxid + k /\ pc' = "ops" /\ ~overread'
          /\ mCurPosition' = EndOf(i) /\ mCurPosition' <= fileLength
      BY <1>1, <2>1, <2>2, <2>4, <2>6, <3>1
    <3>3. InOrder(k + 1)'
      BY <1>1, <1>3, <2>1, <2>3, <3>2 DEF InOrder, PositionOf, LastOf, EndOf
    <3>4. k + 1 \in 0..Len(records)
      BY <1>1, <1>3, <2>1
    <3>5. QED BY <2>3, <2>5, <3>2, <3>3, <3>4 DEF SInv, ScanOk
  <2>7. CASE fileLength < EndOf(i)
    <3>1. overread' /\ mCurPosition' > fileLength
      BY <2>1, <2>2, <2>7
    <3>2. TornInTxid \/ txid = FirstTxid + k
      <4>1. i \in WithBytes(1)
        BY <1>1, <2>1 DEF WithBytes
      <4>2. i \in WithBytes(13) => fileLength >= records[i].start + 13
        BY <1>1, <2>1 DEF WithBytes
      <4>3. QED BY <2>1, <4>1, <4>2 DEF TornInTxid
    <3>3. LastOf(k + 1) = FirstTxid + k
      BY <1>1, <1>3 DEF LastOf
    <3>4. tempLast' >= LastOf(k) \/ k = 0
      BY <1>3, <2>4
    <3>5. BeyondRecord(k)'
      BY <1>1, <1>3, <2>1, <2>3, <2>4, <2>7, <3>2, <3>3, <3>4
         DEF BeyondRecord, Within, LastOf, EndOf, TornInTxid, WithBytes
    <3>6. Beyond(k)'
      BY <2>3, <3>1, <3>5 DEF Beyond
    <3>7. ~EndsBetweenRecords'
      <4>1. records # <<>> => fileLength >= HeaderSize
        BY <1>1 DEF FileOk
      <4>2. Within(k)
        BY <1>1, <2>1, <2>7 DEF Within
      <4>3. ~EndsBetweenRecords
        BY <1>1, <4>1, <4>2, TornIsTorn
      <4>4. QED BY <2>3, <4>3 DEF EndsBetweenRecords, EndOf
    <3>8. QED BY <2>3, <2>4, <2>5, <3>6, <3>7 DEF SInv, ScanOk
  <2>8. QED BY <1>1, <2>1, <2>6, <2>7, RecordTyped
<1>8. QED BY <1>5, <1>6, <1>7

LEMMA StepScanned == SInv /\ [Next]_vars => SInv'
<1> SUFFICES ASSUME SInv, [Next]_vars PROVE SInv'
  OBVIOUS
<1>1. CASE ScanEnd \/ ScanWrongOpcode
  BY <1>1, StopsScanned DEF ScanEnd, ScanWrongOpcode
<1>2. CASE UNCHANGED vars
  <2>1. UNCHANGED <<records, fileLength, acked, pc, mCurPosition, tempLast, overread>>
    BY <1>2 DEF vars, file, scan
  <2>2. QED BY <2>1
     DEF SInv, TypeOK, Laid, FileOk, ScanOk, InOrder, Beyond, BeyondHeader, BeyondRecord,
         Within, PositionOf, LastOf, EndOf, LengthOf, TornInTxid, WithBytes, EndsBetweenRecords
<1>3. QED BY <1>1, <1>2, CreateScanned, WriteRawScanned, ScanAgainScanned,
         SkipHeaderScanned, ScanOpScanned DEF Next, ScanStep

\* The invariant holds throughout: what the scan has seen is what it passed,
\* in order, unless it has read beyond the end of a file that is torn.
THEOREM ScanInvariant == Spec => []SInv
<1>1. QED BY InitScanned, StepScanned, PTL DEF Spec

\* The file ends within what was written, and the scan keeps to its states
\* whatever the lengths and the memory behind the file are.
THEOREM ScanTyped == Spec => []TypeOK
<1>1. SInv => TypeOK
  BY DEF SInv
<1>2. QED BY <1>1, ScanInvariant, PTL

-----------------------------------------------------------------------------
(* What a scan reports *)

\* The records whose txid is in the file are the first ones.
LEMMA WithTxid ==
  ASSUME TypeOK, Laid(records), NEW n \in 0..Len(records),
         n > 0 => records[n].start + 13 <= fileLength,
         n + 1 \in DOMAIN records => fileLength < records[n + 1].start + 13
  PROVE  WithBytes(13) = 1..n /\ Cardinality(WithBytes(13)) = n
<1>1. /\ n \in Nat /\ n \in Int /\ Len(records) \in Nat /\ DOMAIN records = 1..Len(records)
      /\ fileLength \in Nat
  BY FileLengthIs DEF TypeOK
<1>2. \A i \in DOMAIN records :
        /\ records[i].start \in Nat /\ EndOf(i) \in Nat
        /\ EndOf(i) > records[i].start
  BY RecordTyped
<1>3. \A i, j \in DOMAIN records : i < j => EndOf(i) <= records[j].start
  BY <1>1 DEF Laid, EndOf
<1>4. ASSUME NEW i \in DOMAIN records, i <= n
      PROVE  records[i].start + 13 <= fileLength
  <2>1. n \in DOMAIN records /\ records[n].start + 13 <= fileLength
    BY <1>1, <1>4
  <2>2. CASE i = n
    BY <2>1, <2>2
  <2>3. CASE i < n
    <3>1. EndOf(i) <= records[n].start
      BY <1>3, <2>1, <2>3
    <3>2. QED BY <1>1, <1>2, <2>1, <3>1
  <2>4. QED BY <1>1, <1>4, <2>2, <2>3
<1>5. ASSUME NEW i \in DOMAIN records, ~(i <= n)
      PROVE  ~(records[i].start + 13 <= fileLength)
  <2>1. n + 1 \in DOMAIN records /\ fileLength < records[n + 1].start + 13
    BY <1>1, <1>5
  <2>2. CASE i = n + 1
    BY <1>1, <1>2, <2>1, <2>2
  <2>3. CASE i # n + 1
    <3>1. n + 1 < i
      BY <1>1, <1>5, <2>3
    <3>2. EndOf(n + 1) <= records[i].start
      BY <1>3, <2>1, <3>1
    <3>3. QED BY <1>1, <1>2, <2>1, <3>2
  <2>4. QED BY <2>2, <2>3
<1>6. WithBytes(13) = 1..n
  BY <1>1, <1>4, <1>5 DEF WithBytes
<1>7. Cardinality(1..n) = n
  BY <1>1, FS_Interval
<1>8. QED BY <1>6, <1>7

\* Where the scan can be when it is done.
LEMMA ScanDone ==
  ASSUME SInv, pc = "done"
  PROVE  /\ TypeOK /\ Laid(records) /\ FileOk
         /\ fileLength \in Nat /\ FirstTxid \in Nat
         /\ Len(records) \in Nat /\ DOMAIN records = 1..Len(records)
         /\ \/ \E k \in 0..Len(records) : PositionOf(k) = fileLength /\ tempLast = LastOf(k)
            \/ records = <<>> /\ tempLast = InvalidTxid /\ acked = 0
            \/ \E k \in 0..Len(records) : BeyondRecord(k)
<1>1. /\ TypeOK /\ Laid(records) /\ FileOk /\ fileLength \in Nat /\ FirstTxid \in Nat
      /\ Len(records) \in Nat /\ DOMAIN records = 1..Len(records)
  BY FileLengthIs, ScanAssumption DEF SInv, TypeOK
<1>2. PICK k \in 0..Len(records) :
        (InOrder(k) /\ mCurPosition = fileLength) \/ Beyond(k)
  BY DEF SInv, ScanOk
<1>3. CASE InOrder(k) /\ mCurPosition = fileLength
  BY <1>1, <1>3 DEF InOrder
<1>4. CASE Beyond(k)
  <2>1. CASE BeyondHeader
    <3>1. records = <<>> /\ tempLast = InvalidTxid
      BY <1>1, <2>1 DEF BeyondHeader, FileOk, HeaderSize
    <3>2. acked = 0
      BY <1>1, <3>1 DEF TypeOK
    <3>3. QED BY <1>1, <3>1, <3>2
  <2>2. QED BY <1>1, <1>4, <2>1 DEF Beyond
<1>5. QED BY <1>2, <1>3, <1>4

\* A scan that succeeds reports every acknowledged transaction, however the
\* write after it is torn and whatever is read behind the end of the file.
THEOREM AckedReported == Spec => []AckedIsReported
<1>1. ASSUME SInv, pc = "done", acked > 0 PROVE tempLast >= FirstTxid + acked - 1
  <2>1. /\ TypeOK /\ Laid(records) /\ FileOk
        /\ fileLength \in Nat /\ FirstTxid \in Nat
        /\ Len(records) \in Nat /\ DOMAIN records = 1..Len(records)
    BY <1>1, ScanDone
  <2>2. /\ acked \in DOMAIN records /\ acked \in Nat /\ EndOf(acked) <= fileLength
        /\ records[acked].start \in Nat /\ EndOf(acked) \in Nat
        /\ EndOf(acked) > records[acked].start
    <3>1. acked \in DOMAIN records /\ EndOf(acked) <= fileLength
      BY <1>1, <2>1 DEF TypeOK, FileOk
    <3>2. QED BY <2>1, <3>1, RecordTyped
  <2>3. ASSUME NEW k \in 0..Len(records), acked <= k, tempLast >= LastOf(k)
        PROVE  tempLast >= FirstTxid + acked - 1
    <3>1. k \in Nat /\ k > 0
      BY <1>1, <2>1, <2>2, <2>3
    <3>2. tempLast >= FirstTxid + k - 1
      BY <2>3, <3>1 DEF LastOf
    <3>3. tempLast \in Int
      BY <2>1 DEF TypeOK, InvalidTxid
    <3>4. QED BY <2>1, <2>2, <2>3, <3>1, <3>2, <3>3
  <2>4. ASSUME NEW k \in 0..Len(records), PositionOf(k) = fileLength, tempLast = LastOf(k)
        PROVE  tempLast >= FirstTxid + acked - 1
    <3>1. acked > k => records[acked].start >= PositionOf(k)
      BY <2>1, <2>2, NextStarts
    <3>2. acked <= k
      BY <2>1, <2>2, <2>4, <3>1
    <3>3. tempLast >= LastOf(k)
      BY <2>1, <2>4 DEF TypeOK, InvalidTxid
    <3>4. QED BY <2>3, <3>2, <3>3
  <2>5. ASSUME NEW k \in 0..Len(records), BeyondRecord(k)
        PROVE  tempLast >= FirstTxid + acked - 1
    <3>1. k + 1 \in DOMAIN records /\ fileLength < EndOf(k + 1) /\ k \in Nat
      BY <2>1, <2>5 DEF BeyondRecord, Within
    <3>2. EndOf(k + 1) \in Nat
      BY <2>1, <3>1, RecordTyped
    <3>3. acked # k + 1
      BY <2>1, <2>2, <3>1, <3>2
    <3>4. ~(k + 1 < acked)
      <4>1. k + 1 < acked => EndOf(k + 1) <= records[acked].start
        BY <2>1, <2>2, <3>1 DEF Laid, EndOf
      <4>2. QED BY <2>1, <2>2, <3>1, <3>2, <4>1
    <3>5. acked <= k
      BY <2>2, <3>1, <3>3, <3>4
    <3>6. k > 0
      BY <1>1, <2>2, <3>1, <3>5
    <3>7. QED BY <2>3, <2>5, <3>5, <3>6 DEF BeyondRecord
  <2>6. QED BY <1>1, <2>4, <2>5, ScanDone
<1>2. SInv => AckedIsReported
  BY <1>1 DEF AckedIsReported
<1>3. QED BY <1>2, ScanInvariant, PTL

\* Unless the file is torn within opcode, length and txid, a scan that succeeds
\* reports exactly the last transaction whose txid is in the file.
THEOREM LastReported == Spec => []ReportsLastTxid
<1>1. ASSUME SInv, pc = "done", ~TornInTxid
      PROVE  tempLast = LastOf(Cardinality(WithBytes(13)))
  <2>1. /\ TypeOK /\ Laid(records) /\ FileOk
        /\ fileLength \in Nat /\ FirstTxid \in Nat
        /\ Len(records) \in Nat /\ DOMAIN records = 1..Len(records)
    BY <1>1, ScanDone
  <2>2. \A i \in DOMAIN records :
          /\ records[i].start \in Nat /\ EndOf(i) \in Nat
          /\ records[i].start + 13 <= EndOf(i)
    <3>1. ASSUME NEW i \in DOMAIN records
          PROVE  /\ records[i].start \in Nat /\ EndOf(i) \in Nat
                 /\ records[i].start + 13 <= EndOf(i)
      <4>1. /\ records[i].start \in Nat /\ EndOf(i) \in Nat /\ records[i].data \in Nat
            /\ EndOf(i) = records[i].start + 17 + records[i].data
        BY <2>1, RecordTyped
      <4>2. EndOf(i) >= records[i].start + 17 + records[i].data
        BY <4>1
      <4>3. QED BY ONLY <4>1, <4>2, InTxid
    <3>2. QED BY <3>1
  <2>3. ASSUME NEW k \in 0..Len(records), PositionOf(k) = fileLength, tempLast = LastOf(k)
        PROVE  tempLast = LastOf(Cardinality(WithBytes(13)))
    <3>1. k \in Nat
      OBVIOUS
    <3>2. k > 0 => records[k].start + 13 <= fileLength
      <4>1. k > 0 => k \in DOMAIN records /\ EndOf(k) = fileLength
        BY <2>1, <2>3, <3>1 DEF PositionOf
      <4>2. QED BY <2>2, <4>1
    <3>3. k + 1 \in DOMAIN records => fileLength < records[k + 1].start + 13
      <4>1. k + 1 \in DOMAIN records => records[k + 1].start = fileLength
        BY <2>1, <2>3, NextStarts
      <4>2. QED BY <2>1, <4>1
    <3>4. Cardinality(WithBytes(13)) = k
      BY <2>1, <3>2, <3>3, WithTxid
    <3>5. QED BY <2>3, <3>4
  <2>4. ASSUME records = <<>>, tempLast = InvalidTxid
        PROVE  tempLast = LastOf(Cardinality(WithBytes(13)))
    <3>1. 0 \in 0..Len(records) /\ DOMAIN records = {}
      BY <2>1, <2>4
    <3>2. Cardinality(WithBytes(13)) = 0
      BY <2>1, <3>1, WithTxid
    <3>3. QED BY <2>4, <3>2 DEF LastOf
  <2>5. ASSUME NEW k \in 0..Len(records), BeyondRecord(k)
        PROVE  tempLast = LastOf(Cardinality(WithBytes(13)))
    <3>1. /\ k + 1 \in DOMAIN records /\ k + 1 \in 0..Len(records) /\ k \in Nat
          /\ records[k + 1].start < fileLength /\ fileLength < EndOf(k + 1)
          /\ tempLast = LastOf(k + 1)
      BY <1>1, <2>1, <2>5 DEF BeyondRecord, Within
    <3>2. k + 1 \in WithBytes(1)
      BY <2>1, <2>2, <3>1 DEF WithBytes
    <3>3. records[k + 1].start + 13 <= fileLength
      BY <1>1, <3>2 DEF TornInTxid, WithBytes
    <3>4. (k + 1) + 1 \in DOMAIN records => fileLength < records[(k + 1) + 1].start + 13
      <4>1. ASSUME (k + 1) + 1 \in DOMAIN records
            PROVE  fileLength < records[(k + 1) + 1].start + 13
        <5>1. EndOf(k + 1) <= records[(k + 1) + 1].start
          BY <2>1, <3>1, <4>1 DEF Laid, EndOf
        <5>2. QED BY <2>1, <2>2, <3>1, <4>1, <5>1
      <4>2. QED BY <4>1
    <3>5. Cardinality(WithBytes(13)) = k + 1
      BY <2>1, <3>1, <3>3, <3>4, WithTxid
    <3>6. QED BY <3>1, <3>5
  <2>6. QED BY <1>1, <2>3, <2>4, <2>5, ScanDone
<1>2. SInv => ReportsLastTxid
  BY <1>1 DEF ReportsLastTxid, LastOf
<1>3. QED BY <1>2, ScanInvariant, PTL

\* A scan reads beyond the end only of a file that ends within its header or
\* within a record.
THEOREM OverreadTorn == Spec => []OverreadOnlyIfTorn
<1>1. SInv => OverreadOnlyIfTorn
  BY DEF SInv, ScanOk, OverreadOnlyIfTorn
<1>2. QED BY <1>1, ScanInvariant, PTL
=============================================================================
