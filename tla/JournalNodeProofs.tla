-------------------------- MODULE JournalNodeProofs --------------------------
(***************************************************************************)
(* What holds of module JournalNode for any processes, threads and bounds. *)
(***************************************************************************)
EXTENDS JournalNode, WellFoundedInduction, TLAPS

Label    == {"idle", "create", "scan", "insert", "use", "clear", "version", "relock"}
Journals == [alive : BOOLEAN, made : BOOLEAN, state : State,
             lockFileFD : Fd \cup {0}, writes : {"nothing", "log", "lostFile"}]
Doing    == [pc : Label, object : Object \cup {None}, rc : {0, -1}]
ThreadId == {"rpc", "http"}

\* open() and socket() return a descriptor that is free: the least, by the
\* well-foundedness of the natural numbers.
LEMMA FreeFdIsFree ==
  ASSUME NEW p \in Process, FreeFds(p) # {}
  PROVE  FreeFd(p) \in Fd
<1> DEFINE R == OpToRel(<, Nat)
<1>1. FreeFds(p) \in SUBSET Nat
  BY NumberAssumption DEF FreeFds
<1>2. IsWellFoundedOn(R, Nat)
  BY NatLessThanWellFounded
<1>3. \A x, y \in Nat : <<y, x>> \in R <=> y < x
  BY DEF OpToRel
<1> HIDE DEF R
<1>4. PICK x \in FreeFds(p) : \A y \in FreeFds(p) : ~ (<<y, x>> \in R)
  BY <1>1, <1>2, WFMin
<1>5. \A y \in FreeFds(p) : ~ (y < x)
  BY <1>1, <1>3, <1>4
<1>6. \A y \in FreeFds(p) : x <= y
  BY <1>1, <1>5
<1>7. FreeFd(p) \in FreeFds(p)
  BY <1>6 DEF FreeFd, Min
<1>8. QED BY <1>7 DEF FreeFds

\* A thread on its way has a journal in hand.
LEMMA InHand ==
  ASSUME TypeOK, NEW p \in Process, NEW t \in ThreadId, thread[p][t].pc # "idle"
  PROVE  thread[p][t].object \in Object
BY DEF TypeOK, ThreadId

ThreadsTyped ==
  /\ thread \in [Process -> [ThreadId -> Doing]]
  /\ \A p \in Process, t \in ThreadId :
       thread[p][t].pc = "idle" <=> thread[p][t].object = None

LEMMA GotoTyped ==
  ASSUME TypeOK, NEW p \in Process, NEW t \in ThreadId,
         NEW label \in Label \ {"idle"}, NEW o \in Object, NEW r \in {0, -1},
         Goto(p, t, label, o, r)
  PROVE  ThreadsTyped'
BY ProcessAssumption
   DEF TypeOK, Goto, ThreadsTyped, Doing, Label, ThreadId

LEMMA AnswerTyped ==
  ASSUME TypeOK, NEW p \in Process, NEW t \in ThreadId, NEW r \in {0, -1},
         Answer(p, t, r)
  PROVE  ThreadsTyped'
BY ProcessAssumption
   DEF TypeOK, Answer, Goto, ThreadsTyped, Doing, Label, ThreadId

LEMMA SameThreadsTyped == ASSUME TypeOK, UNCHANGED thread PROVE ThreadsTyped'
BY DEF TypeOK, ThreadsTyped, Doing, Label, ThreadId

RestTyped ==
  /\ dirExists \in BOOLEAN
  /\ version \in {"absent", "torn", "written"}
  /\ log \in {"none", "empty", "data"}
  /\ lock \in Process \cup {None}
  /\ fds \in [Process -> [Fd -> {"closed", "lock", "socket"}]]
  /\ journalsById \in [Process -> Object \cup {None}]
  /\ objects \in [Process -> [Object -> Journals]]
  /\ stage \in [Process -> {"running", "exiting", "down"}]
  /\ formats \in 0..MaxFormats /\ sockets \in 0..MaxSockets
  /\ formatted \in [Process -> BOOLEAN]
  /\ acked \in BOOLEAN /\ disturbed \in BOOLEAN

LEMMA TypeParts == TypeOK <=> ThreadsTyped /\ RestTyped
BY DEF TypeOK, ThreadsTyped, RestTyped, Doing, Label, ThreadId, Journals

LEMMA TypedNext == ThreadsTyped' /\ RestTyped' => TypeOK'
BY DEF TypeOK, ThreadsTyped, RestTyped, Doing, Label, ThreadId, Journals

\* One object changes its fields.
LEMMA ObjectTyped ==
  ASSUME TypeOK, NEW p \in Process, NEW o \in Object, NEW j \in Journals
  PROVE  [objects EXCEPT ![p][o] = j] \in [Process -> [Object -> Journals]]
BY TypeParts DEF RestTyped

LEMMA FieldsTyped ==
  ASSUME NEW j \in Journals
  PROVE  /\ [j EXCEPT !.alive = FALSE] \in Journals
         /\ [j EXCEPT !.made = TRUE, !.alive = TRUE] \in Journals
         /\ [j EXCEPT !.writes = "log"] \in Journals
         /\ \A s \in State, f \in Fd :
              [j EXCEPT !.state = s, !.lockFileFD = f] \in Journals
BY DEF Journals

LEMMA LockTyped ==
  ASSUME TypeOK, NEW p \in Process, Lock(p)
  PROVE  /\ fds' \in [Process -> [Fd -> {"closed", "lock", "socket"}]]
         /\ lock' \in Process \cup {None}
         /\ FreeFd(p) \in Fd
<1>1. FreeFd(p) \in Fd
  BY FreeFdIsFree DEF Lock
<1>2. QED BY <1>1 DEF Lock, TypeOK

LEMMA LogLostTyped ==
  ASSUME TypeOK
  PROVE  LogLost \in [Process -> [Object -> Journals]]
<1>1. ASSUME NEW q \in Process, NEW o \in Object
      PROVE  (IF objects[q][o].writes = "log"
              THEN [objects[q][o] EXCEPT !.writes = "lostFile"]
              ELSE objects[q][o]) \in Journals
  <2>1. objects[q][o] \in Journals
    BY TypeParts DEF RestTyped
  <2>2. QED BY <2>1 DEF Journals
<1>2. QED BY <1>1 DEF LogLost

-----------------------------------------------------------------------------
LEMMA InitTyped == Init => TypeOK
<1> SUFFICES ASSUME Init PROVE ThreadsTyped /\ RestTyped
  BY TypeParts
<1> USE ProcessAssumption, NumberAssumption DEF Init
<1>1. ThreadsTyped
  BY DEF ThreadsTyped, NoThreads, Idle, Doing, Label, ThreadId
<1>2. objects \in [Process -> [Object -> Journals]]
  BY DEF NoObjects, Unmade, Journals, State
<1>3. formats \in 0..MaxFormats /\ sockets \in 0..MaxSockets
  OBVIOUS
<1>4. QED BY <1>1, <1>2, <1>3 DEF RestTyped, NoFds

\* The actions of getOrCreateJournal.
LEMMA FindTyped ==
  ASSUME TypeOK, NEW p \in Process, NEW t \in ThreadId, Find(p, t)
  PROVE  TypeOK'
<1>1. journalsById[p] \in Object
  BY DEF TypeOK, Find
<1>2. ThreadsTyped'
  BY <1>1, GotoTyped DEF Find, Label
<1>3. RestTyped'
  BY TypeParts DEF Find, RestTyped, dir, counters, history
<1>4. QED BY <1>2, <1>3, TypedNext

LEMMA MissTyped ==
  ASSUME TypeOK, NEW p \in Process, NEW t \in ThreadId, Miss(p, t)
  PROVE  TypeOK'
<1>1. PICK o \in Object :
        /\ Goto(p, t, "create", o, 0)
        /\ objects' = [objects EXCEPT
             ![p][o] = [@ EXCEPT !.made = TRUE, !.alive = TRUE]]
        /\ disturbed' = (disturbed \/ \E made \in Object : objects[p][made].alive)
  BY DEF Miss
<1>2. ThreadsTyped'
  BY <1>1, GotoTyped DEF Label
<1>3. objects' \in [Process -> [Object -> Journals]]
  <2>1. objects[p][o] \in Journals
    BY TypeParts DEF RestTyped
  <2>2. QED BY <1>1, <2>1, FieldsTyped, ObjectTyped
<1>4. RestTyped'
  BY <1>1, <1>3, TypeParts DEF Miss, RestTyped, dir, counters
<1>5. QED BY <1>2, <1>4, TypedNext

LEMMA CreateTyped ==
  ASSUME TypeOK, NEW p \in Process, NEW t \in ThreadId,
         \/ CreateOnNothing(p, t)   \/ CreateLockedOut(p, t)
         \/ CreateOnTornVersion(p, t) \/ CreateOnDirectory(p, t)
  PROVE  TypeOK'
<1> DEFINE o == thread[p][t].object
<1>1. o \in Object
  BY InHand DEF CreateOnNothing, CreateLockedOut, CreateOnTornVersion,
                CreateOnDirectory, At
<1>2. ThreadsTyped'
  BY <1>1, GotoTyped DEF CreateOnNothing, CreateLockedOut, CreateOnTornVersion,
                CreateOnDirectory, Label
<1>j. objects[p][o] \in Journals
  BY <1>1, TypeParts DEF RestTyped
<1>3. CASE CreateOnNothing(p, t)
  BY <1>2, <1>3, TypeParts, TypedNext DEF CreateOnNothing, RestTyped, dir, counters, history
<1>4. CASE CreateLockedOut(p, t)
  <2>1. objects' \in [Process -> [Object -> Journals]]
    BY <1>1, <1>4, <1>j, FieldsTyped, ObjectTyped DEF CreateLockedOut
  <2>2. QED BY <1>2, <1>4, <2>1, TypeParts, TypedNext
            DEF CreateLockedOut, RestTyped, dir, counters, history
<1>5. CASE CreateOnTornVersion(p, t)
  <2>1. objects' \in [Process -> [Object -> Journals]]
    BY <1>1, <1>5, <1>j, FieldsTyped, ObjectTyped DEF CreateOnTornVersion
  <2>2. QED BY <1>2, <1>5, <2>1, LockTyped, TypeParts, TypedNext
            DEF CreateOnTornVersion, RestTyped, counters, history
<1>6. CASE CreateOnDirectory(p, t)
  <2>1. FreeFd(p) \in Fd
    BY <1>6, LockTyped DEF CreateOnDirectory
  <2>2. objects' \in [Process -> [Object -> Journals]]
    BY <1>1, <1>6, <1>j, <2>1, FieldsTyped, ObjectTyped
       DEF CreateOnDirectory, State
  <2>3. QED BY <1>2, <1>6, <2>2, LockTyped, TypeParts, TypedNext
            DEF CreateOnDirectory, RestTyped, counters, history
<1>7. QED BY <1>3, <1>4, <1>5, <1>6

LEMMA ScanTyped ==
  ASSUME TypeOK, NEW p \in Process, NEW t \in ThreadId, Scan(p, t)
  PROVE  TypeOK'
<1>1. ThreadsTyped'
  BY InHand, GotoTyped DEF Scan, At, Label
<1>2. objects' \in [Process -> [Object -> Journals]]
  BY LogLostTyped, TypeParts DEF Scan, RestTyped
<1>3. QED BY <1>1, <1>2, TypeParts, TypedNext DEF Scan, RestTyped, counters, history

LEMMA InsertTyped ==
  ASSUME TypeOK, NEW p \in Process, NEW t \in ThreadId, Insert(p, t)
  PROVE  TypeOK'
<1>1. thread[p][t].object \in Object
  BY InHand DEF Insert, At
<1>2. ThreadsTyped'
  BY <1>1, GotoTyped DEF Insert, Label
<1>3. QED BY <1>1, <1>2, TypeParts, TypedNext DEF Insert, RestTyped, dir, counters, history

\* The RPC handlers.
LEMMA ReplyTyped ==
  ASSUME TypeOK, NEW p \in Process, Reply(p) \/ HttpReply(p)
  PROVE  TypeOK'
<1>1. \A t \in ThreadId : thread[p][t].rc \in {0, -1}
  BY DEF TypeOK, ThreadId
<1>2. ThreadsTyped'
  BY <1>1, AnswerTyped DEF Reply, HttpReply, ThreadId
<1>3. QED BY <1>2, TypeParts, TypedNext
         DEF Reply, HttpReply, RestTyped, dir, counters, history

LEMMA StartLogSegmentTyped ==
  ASSUME TypeOK, NEW p \in Process, StartLogSegment(p)
  PROVE  TypeOK'
<1>1. thread[p]["rpc"].object \in Object
  BY InHand DEF StartLogSegment, RpcHasJournal, At, ThreadId
<1>2. objects[p][thread[p]["rpc"].object] \in Journals
  BY <1>1, TypeParts DEF RestTyped
<1>3. objects' \in [Process -> [Object -> Journals]]
  BY <1>1, <1>2, FieldsTyped, ObjectTyped DEF StartLogSegment
<1>4. ThreadsTyped'
  BY AnswerTyped DEF StartLogSegment, ThreadId
<1>5. QED BY <1>3, <1>4, TypeParts, TypedNext
         DEF StartLogSegment, RestTyped, counters, history

LEMMA WriteTxnTyped ==
  ASSUME TypeOK, NEW p \in Process, WriteTxn(p)
  PROVE  TypeOK'
<1>1. ThreadsTyped'
  BY AnswerTyped DEF WriteTxn, ThreadId
<1>2. QED BY <1>1, TypeParts, TypedNext DEF WriteTxn, RestTyped, counters

LEMMA FormatTyped ==
  ASSUME TypeOK, NEW p \in Process, Format(p)
  PROVE  TypeOK'
<1>1. thread[p]["rpc"].object \in Object
  BY InHand DEF Format, FormatUnlock, FormatClear, FormatClearFails,
       FormatWriteVersion, FormatRelock, FormatLockedOut, RpcHasJournal, At, ThreadId
<1>2. ThreadsTyped'
  BY <1>1, GotoTyped, AnswerTyped
     DEF Format, FormatUnlock, FormatClear, FormatClearFails,
         FormatWriteVersion, FormatRelock, FormatLockedOut, Label, ThreadId
<1>3. objects[p][thread[p]["rpc"].object] \in Journals
  BY <1>1, TypeParts DEF RestTyped
<1>4. CASE FormatUnlock(p)
  <2>1. formats' \in 0..MaxFormats
    BY <1>4, NumberAssumption, TypeParts DEF FormatUnlock, RestTyped
  <2>2. fds' \in [Process -> [Fd -> {"closed", "lock", "socket"}]]
    BY <1>3, <1>4, TypeParts DEF FormatUnlock, Mine, RestTyped, Journals
  <2>3. lock' \in Process \cup {None}
    BY <1>4, TypeParts DEF FormatUnlock, RestTyped
  <2>4. QED BY <1>2, <1>4, <2>1, <2>2, <2>3, TypeParts, TypedNext
           DEF FormatUnlock, RestTyped
<1>5. CASE FormatClear(p)
  BY <1>2, <1>5, LogLostTyped, TypeParts, TypedNext
     DEF FormatClear, RestTyped, counters
<1>6. CASE FormatClearFails(p) \/ FormatLockedOut(p)
  BY <1>2, <1>6, TypeParts, TypedNext
     DEF FormatClearFails, FormatLockedOut, RestTyped, dir, counters
<1>7. CASE FormatWriteVersion(p)
  BY <1>2, <1>7, TypeParts, TypedNext
     DEF FormatWriteVersion, RestTyped, counters, history
<1>8. CASE FormatRelock(p)
  <2>1. FreeFd(p) \in Fd
    BY <1>8, LockTyped DEF FormatRelock
  <2>2. objects' \in [Process -> [Object -> Journals]]
    BY <1>1, <1>3, <1>8, <2>1, FieldsTyped, ObjectTyped DEF FormatRelock, State
  <2>3. QED BY <1>2, <1>8, <2>2, LockTyped, TypeParts, TypedNext
           DEF FormatRelock, RestTyped, counters
<1>9. QED BY <1>4, <1>5, <1>6, <1>7, <1>8 DEF Format

\* Sockets, the end of a process and its start.
LEMMA SocketTyped ==
  ASSUME TypeOK, NEW p \in Process, OpenSocket(p) \/ CloseSocket(p)
  PROVE  TypeOK'
<1>1. ThreadsTyped'
  BY SameThreadsTyped DEF OpenSocket, CloseSocket
<1>2. CASE OpenSocket(p)
  <2>1. sockets' \in 0..MaxSockets
    BY <1>2, NumberAssumption, TypeParts DEF OpenSocket, RestTyped
  <2>2. fds' \in [Process -> [Fd -> {"closed", "lock", "socket"}]]
    BY <1>2, FreeFdIsFree, TypeParts DEF OpenSocket, RestTyped
  <2>3. QED BY <1>1, <1>2, <2>1, <2>2, TypeParts, TypedNext
           DEF OpenSocket, RestTyped, dir, history
<1>3. CASE CloseSocket(p)
  BY <1>1, <1>3, TypeParts, TypedNext
     DEF CloseSocket, RestTyped, dir, counters, history
<1>4. QED BY <1>2, <1>3

LEMMA ExitTyped ==
  ASSUME TypeOK, NEW p \in Process, Exit(p)
  PROVE  TypeOK'
<1>1. ThreadsTyped'
  BY SameThreadsTyped DEF Exit
<1>2. ASSUME NEW o \in Object
      PROVE  (IF o = journalsById[p] THEN [objects[p][o] EXCEPT !.alive = FALSE]
              ELSE objects[p][o]) \in Journals
  <2>1. objects[p][o] \in Journals
    BY TypeParts DEF RestTyped
  <2>2. QED BY <2>1, FieldsTyped
<1>3. objects' \in [Process -> [Object -> Journals]]
  BY <1>2, TypeParts DEF Exit, RestTyped
<1>4. QED BY <1>1, <1>3, TypeParts, TypedNext
         DEF Exit, RestTyped, dir, counters, history

LEMMA DieTyped ==
  ASSUME TypeOK, NEW p \in Process, Die(p)
  PROVE  TypeOK'
<1>1. NoThreads \in [ThreadId -> Doing] /\ \A t \in ThreadId : NoThreads[t] = Idle
  BY DEF NoThreads, Idle, Doing, Label, ThreadId
<1>2. ThreadsTyped'
  BY <1>1, TypeParts DEF Die, ThreadsTyped, Idle
<1>3. NoObjects \in [Object -> Journals]
  BY DEF NoObjects, Unmade, Journals, State
<1>4. QED BY <1>2, <1>3, TypeParts, TypedNext DEF Die, RestTyped, NoFds, counters

LEMMA StartTyped ==
  ASSUME TypeOK, NEW p \in Process, Start(p)
  PROVE  TypeOK'
BY SameThreadsTyped, TypeParts, TypedNext
   DEF Start, RestTyped, dir, counters, history

LEMMA StepTyped == TypeOK /\ [Next]_vars => TypeOK'
<1> SUFFICES ASSUME TypeOK, [Next]_vars PROVE TypeOK'
  OBVIOUS
<1>1. ASSUME NEW p \in Process, NEW t \in ThreadId, GetOrCreateJournal(p, t)
      PROVE  TypeOK'
  BY <1>1, FindTyped, MissTyped, CreateTyped, ScanTyped, InsertTyped
     DEF GetOrCreateJournal
<1>2. ASSUME NEW p \in Process,
             \/ Reply(p) \/ StartLogSegment(p) \/ WriteTxn(p) \/ Format(p)
             \/ HttpReply(p) \/ OpenSocket(p) \/ CloseSocket(p)
             \/ Exit(p) \/ Die(p) \/ Start(p)
      PROVE  TypeOK'
  BY <1>2, ReplyTyped, StartLogSegmentTyped, WriteTxnTyped, FormatTyped,
     SocketTyped, ExitTyped, DieTyped, StartTyped
<1>3. CASE UNCHANGED vars
  BY <1>3, SameThreadsTyped, TypeParts, TypedNext
     DEF vars, RestTyped, dir, counters, history
<1>4. QED BY <1>1, <1>2, <1>3 DEF Next, ThreadId

-----------------------------------------------------------------------------
(* The lock *)

Formatless(p) == ~formatted[p] /\ \E o \in Object : objects[p][o].state = "NORMAL"

\* A process that has found VERSION holds the lock until it formats.
LockOk == \A p \in Process : Formatless(p) => lock = p

LEMMA InitLock == Init => LockOk
BY DEF Init, LockOk, Formatless, NoObjects, Unmade

\* A step that leaves the lock alone, formats nothing and finds no VERSION.
LEMMA KeepsLock ==
  ASSUME LockOk, UNCHANGED <<lock, formatted>>,
         \A p \in Process, o \in Object :
           objects'[p][o].state = "NORMAL" => objects[p][o].state = "NORMAL"
  PROVE  LockOk'
BY DEF LockOk, Formatless

\* The states of the objects are not touched where only other fields are.
LEMMA SameStates ==
  ASSUME TypeOK, NEW p \in Process, NEW o \in Object,
         \/ UNCHANGED objects
         \/ objects' = [objects EXCEPT ![p][o] = [@ EXCEPT !.made = TRUE, !.alive = TRUE]]
         \/ objects' = [objects EXCEPT ![p][o].alive = FALSE]
         \/ objects' = [objects EXCEPT ![p][o].writes = "log"]
         \/ objects' = LogLost
  PROVE  \A q \in Process, m \in Object : objects'[q][m].state = objects[q][m].state
<1> SUFFICES ASSUME NEW q \in Process, NEW m \in Object
             PROVE  objects'[q][m].state = objects[q][m].state
  OBVIOUS
<1>1. objects[q][m] \in Journals
  BY TypeParts DEF RestTyped
<1>2. CASE objects' = LogLost
  <2>1. objects'[q][m] = IF objects[q][m].writes = "log"
                         THEN [objects[q][m] EXCEPT !.writes = "lostFile"]
                         ELSE objects[q][m]
    BY <1>2 DEF LogLost
  <2>2. QED BY <1>1, <2>1 DEF Journals
<1>3. CASE UNCHANGED objects
  BY <1>3
<1>4. CASE objects' = [objects EXCEPT ![p][o] = [@ EXCEPT !.made = TRUE, !.alive = TRUE]]
  <2>1. objects'[q][m] = IF q = p /\ m = o
                         THEN [objects[q][m] EXCEPT !.made = TRUE, !.alive = TRUE]
                         ELSE objects[q][m]
    BY <1>4, TypeParts DEF RestTyped
  <2>2. QED BY <1>1, <2>1 DEF Journals
<1>5. CASE objects' = [objects EXCEPT ![p][o].alive = FALSE]
  <2>1. objects'[q][m] = IF q = p /\ m = o
                         THEN [objects[q][m] EXCEPT !.alive = FALSE]
                         ELSE objects[q][m]
    BY <1>5, TypeParts DEF RestTyped
  <2>2. QED BY <1>1, <2>1 DEF Journals
<1>6. CASE objects' = [objects EXCEPT ![p][o].writes = "log"]
  <2>1. objects'[q][m] = IF q = p /\ m = o
                         THEN [objects[q][m] EXCEPT !.writes = "log"]
                         ELSE objects[q][m]
    BY <1>6, TypeParts DEF RestTyped
  <2>2. QED BY <1>1, <2>1 DEF Journals
<1>7. QED BY <1>2, <1>3, <1>4, <1>5, <1>6

LEMMA SameStatesKeepLock ==
  ASSUME TypeOK, LockOk, NEW p \in Process, NEW o \in Object,
         UNCHANGED <<lock, formatted>>,
         \/ UNCHANGED objects
         \/ objects' = [objects EXCEPT ![p][o] = [@ EXCEPT !.made = TRUE, !.alive = TRUE]]
         \/ objects' = [objects EXCEPT ![p][o].alive = FALSE]
         \/ objects' = [objects EXCEPT ![p][o].writes = "log"]
         \/ objects' = LogLost
  PROVE  LockOk'
<1>1. \A q \in Process, m \in Object : objects'[q][m].state = objects[q][m].state
  BY SameStates
<1>2. QED BY <1>1, KeepsLock

\* The process that takes the lock is the only one that may find VERSION.
LEMMA LockTakenKeeps ==
  ASSUME TypeOK, LockOk, NEW p \in Process, lock' = p, lock \in {None, p},
         UNCHANGED formatted,
         \A q \in Process \ {p}, m \in Object : objects'[q][m].state = objects[q][m].state
  PROVE  LockOk'
<1> SUFFICES ASSUME NEW q \in Process, Formatless(q)' PROVE lock' = q
  BY DEF LockOk
<1>1. CASE q = p
  BY <1>1
<1>2. CASE q # p
  <2>1. Formatless(q)
    BY <1>2 DEF Formatless
  <2>2. lock = q
    BY <2>1 DEF LockOk
  <2>3. QED BY <1>2, <2>2, ProcessAssumption
<1>3. QED BY <1>1, <1>2

LEMMA GetOrCreateKeepsLock ==
  ASSUME TypeOK, LockOk, NEW p \in Process, NEW t \in ThreadId,
         GetOrCreateJournal(p, t)
  PROVE  LockOk'
<1> DEFINE o == thread[p][t].object
<1>1. CASE Find(p, t) \/ CreateOnNothing(p, t) \/ Insert(p, t)
  <2>1. UNCHANGED objects /\ UNCHANGED <<lock, formatted>>
    BY <1>1 DEF Find, CreateOnNothing, Insert, dir, history
  <2>2. QED BY <2>1, KeepsLock
<1>2. CASE Miss(p, t)
  BY <1>2, SameStatesKeepLock DEF Miss, dir, history
<1>3. CASE CreateLockedOut(p, t)
  <2>1. o \in Object
    BY <1>3, InHand DEF CreateLockedOut, At
  <2>2. QED BY <1>3, <2>1, SameStatesKeepLock DEF CreateLockedOut, dir, history
<1>4. CASE CreateOnTornVersion(p, t)
  <2>1. o \in Object
    BY <1>4, InHand DEF CreateOnTornVersion, At
  <2>2. \A q \in Process, m \in Object : objects'[q][m].state = objects[q][m].state
    BY <1>4, <2>1, SameStates DEF CreateOnTornVersion
  <2>3. QED BY <1>4, <2>2, LockTakenKeeps DEF CreateOnTornVersion, Lock, Lockable, history
<1>5. CASE CreateOnDirectory(p, t)
  <2>1. \A q \in Process \ {p} : objects'[q] = objects[q]
    BY <1>5, TypeParts DEF CreateOnDirectory, RestTyped
  <2>2. QED BY <1>5, <2>1, LockTakenKeeps DEF CreateOnDirectory, Lock, Lockable, history
<1>6. CASE Scan(p, t)
  <2>1. o \in Object
    BY <1>6, InHand DEF Scan, At
  <2>2. QED BY <1>6, <2>1, SameStatesKeepLock DEF Scan, history
<1>7. QED BY <1>1, <1>2, <1>3, <1>4, <1>5, <1>6 DEF GetOrCreateJournal

LEMMA FormatKeepsLock ==
  ASSUME TypeOK, LockOk, NEW p \in Process, Format(p)
  PROVE  LockOk'
<1> DEFINE o == thread[p]["rpc"].object
<1>1. CASE FormatUnlock(p)
  <2> SUFFICES ASSUME NEW q \in Process, Formatless(q)' PROVE lock' = q
    BY DEF LockOk
  <2>1. q # p /\ Formatless(q)
    BY <1>1, TypeParts DEF FormatUnlock, Formatless, RestTyped
  <2>2. lock = q
    BY <2>1 DEF LockOk
  <2>3. QED BY <1>1, <2>1, <2>2 DEF FormatUnlock
<1>2. CASE FormatClear(p)
  <2>1. o \in Object
    BY <1>2, InHand DEF FormatClear, At, ThreadId
  <2>2. QED BY <1>2, <2>1, SameStatesKeepLock DEF FormatClear
<1>3. CASE FormatClearFails(p) \/ FormatLockedOut(p) \/ FormatWriteVersion(p)
  <2>1. UNCHANGED objects /\ UNCHANGED <<lock, formatted>>
    BY <1>3 DEF FormatClearFails, FormatLockedOut, FormatWriteVersion, dir, history
  <2>2. QED BY <2>1, KeepsLock
<1>4. CASE FormatRelock(p)
  <2>1. \A q \in Process \ {p} : objects'[q] = objects[q]
    BY <1>4, TypeParts DEF FormatRelock, RestTyped
  <2>2. QED BY <1>4, <2>1, LockTakenKeeps DEF FormatRelock, Lock, Lockable
<1>5. QED BY <1>1, <1>2, <1>3, <1>4 DEF Format

LEMMA StepKeepsLock == TypeOK /\ LockOk /\ [Next]_vars => LockOk'
<1> SUFFICES ASSUME TypeOK, LockOk, [Next]_vars PROVE LockOk'
  OBVIOUS
<1>1. ASSUME NEW p \in Process,
             Reply(p) \/ WriteTxn(p) \/ HttpReply(p) \/ OpenSocket(p)
             \/ CloseSocket(p) \/ Start(p)
      PROVE  LockOk'
  <2>1. UNCHANGED objects /\ UNCHANGED <<lock, formatted>>
    BY <1>1 DEF Reply, WriteTxn, HttpReply, OpenSocket, CloseSocket, Start, dir, history
  <2>2. QED BY <2>1, KeepsLock
<1>2. ASSUME NEW p \in Process, StartLogSegment(p) PROVE LockOk'
  <2>1. thread[p]["rpc"].object \in Object
    BY <1>2, InHand DEF StartLogSegment, RpcHasJournal, At, ThreadId
  <2>2. QED BY <1>2, <2>1, SameStatesKeepLock DEF StartLogSegment, history
<1>3. ASSUME NEW p \in Process, Exit(p) PROVE LockOk'
  <2>1. ASSUME NEW q \in Process, NEW o \in Object
        PROVE  objects'[q][o].state = objects[q][o].state
    <3>1. objects[q][o] \in Journals
      BY TypeParts DEF RestTyped
    <3>2. objects'[q][o] = IF q = p /\ o = journalsById[p]
                           THEN [objects[q][o] EXCEPT !.alive = FALSE]
                           ELSE objects[q][o]
      BY <1>3, TypeParts DEF Exit, RestTyped
    <3>3. QED BY <3>1, <3>2 DEF Journals
  <2>2. QED BY <1>3, <2>1, KeepsLock DEF Exit, dir, history
<1>4. ASSUME NEW p \in Process, Die(p) PROVE LockOk'
  <2> SUFFICES ASSUME NEW q \in Process, Formatless(q)' PROVE lock' = q
    BY DEF LockOk
  <2>1. q # p /\ Formatless(q)
    BY <1>4, TypeParts DEF Die, Formatless, RestTyped, NoObjects, Unmade
  <2>2. lock = q
    BY <2>1 DEF LockOk
  <2>3. QED BY <1>4, <2>1, <2>2 DEF Die
<1>5. CASE UNCHANGED vars
  BY <1>5, KeepsLock DEF vars, dir, history
<1>6. QED BY <1>1, <1>2, <1>3, <1>4, <1>5, GetOrCreateKeepsLock, FormatKeepsLock
         DEF Next, ThreadId

-----------------------------------------------------------------------------
(* Live journals *)

Building(p, t) == thread[p][t].pc \in {"create", "scan", "insert"}

\* A journal being built is known to its thread only.
Fresh(p, t) ==
  Building(p, t) =>
    /\ journalsById[p] # thread[p][t].object
    /\ \A u \in ThreadId \ {t} : thread[p][u].object # thread[p][t].object

\* A journal in hand, unless getOrCreateJournal failed, is alive while the
\* process runs.
HandOk(p, t) ==
  /\ thread[p][t].pc # "idle" =>
       /\ objects[p][thread[p][t].object].made
       /\ thread[p][t].rc = 0 /\ stage[p] = "running" =>
            objects[p][thread[p][t].object].alive
  /\ thread[p][t].pc \notin {"idle", "use"} => thread[p][t].rc = 0

\* So is the journal in the map.
MapOk(p) ==
  journalsById[p] # None =>
    /\ objects[p][journalsById[p]].made
    /\ stage[p] = "running" => objects[p][journalsById[p]].alive

\* The RPC thread calls exit() between two requests.
StageOk(p) ==
  /\ thread[p]["rpc"].pc # "idle" => stage[p] = "running"
  /\ stage[p] = "down" => thread[p]["http"].pc = "idle" /\ journalsById[p] = None

ProcessOk(p) ==
  /\ \A t \in ThreadId : Fresh(p, t) /\ HandOk(p, t)
  /\ MapOk(p) /\ StageOk(p)

LiveOk == \A p \in Process : ProcessOk(p)

SameLives(p) ==
  \A o \in Object : /\ objects'[p][o].alive = objects[p][o].alive
                    /\ objects'[p][o].made = objects[p][o].made

SameAt(p) ==
  /\ thread'[p] = thread[p] /\ journalsById'[p] = journalsById[p]
  /\ stage'[p] = stage[p] /\ SameLives(p)

\* Where nothing of this changed, it holds on.
LEMMA SameProcess ==
  ASSUME TypeOK, NEW p \in Process, ProcessOk(p), SameAt(p)
  PROVE  ProcessOk(p)'
<1>1. \A t \in ThreadId : thread[p][t].pc # "idle" => thread[p][t].object \in Object
  BY InHand
<1>2. journalsById[p] # None => journalsById[p] \in Object
  BY TypeParts DEF RestTyped
<1>3. ASSUME NEW t \in ThreadId PROVE Fresh(p, t)' /\ HandOk(p, t)'
  BY <1>1 DEF ProcessOk, SameAt, SameLives, Fresh, HandOk, Building
<1>4. MapOk(p)'
  BY <1>2 DEF ProcessOk, SameAt, SameLives, MapOk
<1>5. StageOk(p)'
  BY DEF ProcessOk, SameAt, StageOk
<1>6. QED BY <1>3, <1>4, <1>5 DEF ProcessOk

\* It is enough to look at the process that took the step.
LEMMA OneProcess ==
  ASSUME TypeOK, LiveOk, NEW p \in Process, ProcessOk(p)',
         \A q \in Process \ {p} : SameAt(q)
  PROVE  LiveOk'
BY SameProcess DEF LiveOk

\* The changes of objects that make and delete none.
LEMMA LivesKept ==
  ASSUME TypeOK, NEW p \in Process, NEW o \in Object,
         \/ UNCHANGED objects
         \/ objects' = LogLost
         \/ objects' = [objects EXCEPT ![p][o].writes = "log"]
         \/ \E s \in State, f \in Fd :
              objects' = [objects EXCEPT
                ![p][o] = [@ EXCEPT !.state = s, !.lockFileFD = f]]
  PROVE  \A q \in Process : SameLives(q)
<1> SUFFICES ASSUME NEW q \in Process, NEW m \in Object
             PROVE  /\ objects'[q][m].alive = objects[q][m].alive
                    /\ objects'[q][m].made = objects[q][m].made
  BY DEF SameLives
<1>1. objects[q][m] \in Journals
  BY TypeParts DEF RestTyped
<1>2. CASE objects' = LogLost
  <2>1. objects'[q][m] = IF objects[q][m].writes = "log"
                         THEN [objects[q][m] EXCEPT !.writes = "lostFile"]
                         ELSE objects[q][m]
    BY <1>2 DEF LogLost
  <2>2. QED BY <1>1, <2>1 DEF Journals
<1>3. CASE UNCHANGED objects
  BY <1>3
<1>4. CASE objects' = [objects EXCEPT ![p][o].writes = "log"]
  <2>1. objects'[q][m] = IF q = p /\ m = o
                         THEN [objects[q][m] EXCEPT !.writes = "log"]
                         ELSE objects[q][m]
    BY <1>4, TypeParts DEF RestTyped
  <2>2. QED BY <1>1, <2>1 DEF Journals
<1>5. ASSUME NEW s \in State, NEW f \in Fd,
             objects' = [objects EXCEPT
               ![p][o] = [@ EXCEPT !.state = s, !.lockFileFD = f]]
      PROVE  /\ objects'[q][m].alive = objects[q][m].alive
             /\ objects'[q][m].made = objects[q][m].made
  <2>1. objects'[q][m] = IF q = p /\ m = o
                         THEN [objects[q][m] EXCEPT !.state = s, !.lockFileFD = f]
                         ELSE objects[q][m]
    BY <1>5, TypeParts DEF RestTyped
  <2>2. QED BY <1>1, <2>1 DEF Journals
<1>6. QED BY <1>2, <1>3, <1>4, <1>5

LEMMA GotoEffect ==
  ASSUME TypeOK, NEW p \in Process, NEW t \in ThreadId, NEW label, NEW o, NEW r,
         Goto(p, t, label, o, r)
  PROVE  /\ thread'[p][t] = [pc |-> label, object |-> o, rc |-> r]
         /\ \A u \in ThreadId \ {t} : thread'[p][u] = thread[p][u]
         /\ \A q \in Process \ {p} : thread'[q] = thread[q]
BY TypeParts DEF ThreadsTyped, Goto

\* A thread goes on with the journal it has, which stays as it is, or gives it
\* back.
LEMMA GoesOn ==
  ASSUME TypeOK, LiveOk, NEW p \in Process, NEW t \in ThreadId,
         NEW label \in Label, NEW o \in Object \cup {None}, NEW r \in {0, -1},
         Goto(p, t, label, o, r),
         UNCHANGED <<journalsById, stage>>,
         \A q \in Process : SameLives(q),
         thread[p][t].pc # "idle",
         label # "idle" => o = thread[p][t].object,
         label = "idle" => o = None,
         label \notin {"idle", "use"} => r = 0,
         label \in {"create", "scan", "insert"} => Building(p, t),
         r = 0 /\ label # "idle" => thread[p][t].rc = 0
  PROVE  LiveOk'
<1>1. \A q \in Process \ {p} : SameAt(q)
  BY GotoEffect DEF SameAt
<1>2. /\ thread'[p][t] = [pc |-> label, object |-> o, rc |-> r]
      /\ \A u \in ThreadId \ {t} : thread'[p][u] = thread[p][u]
  BY GotoEffect
<1>3. ProcessOk(p)
  BY DEF LiveOk
<1>4. \A u \in ThreadId : thread[p][u].pc # "idle" => thread[p][u].object \in Object
  BY InHand
<1>5. journalsById[p] # None => journalsById[p] \in Object
  BY TypeParts DEF RestTyped
<1>6. \A u \in ThreadId : thread[p][u].pc = "idle" <=> thread[p][u].object = None
  BY TypeParts DEF ThreadsTyped
<1>7. ASSUME NEW u \in ThreadId PROVE HandOk(p, u)'
  <2>1. CASE u = t
    BY <1>2, <1>3, <1>4, <2>1 DEF ProcessOk, HandOk, SameLives
  <2>2. CASE u # t
    BY <1>2, <1>3, <1>4, <2>2 DEF ProcessOk, HandOk, SameLives
  <2>3. QED BY <2>1, <2>2
<1>8. ASSUME NEW u \in ThreadId PROVE Fresh(p, u)'
  <2> SUFFICES ASSUME Building(p, u)'
               PROVE  /\ journalsById[p] # thread'[p][u].object
                      /\ \A w \in ThreadId \ {u} :
                           thread'[p][w].object # thread'[p][u].object
    BY DEF Fresh
  <2>1. Building(p, u) /\ thread'[p][u].object = thread[p][u].object
    BY <1>2 DEF Building
  <2>2. thread[p][u].object # None
    BY <1>6, <2>1 DEF Building
  <2>3. \A w \in ThreadId : thread'[p][w].object \in {thread[p][w].object, None}
    BY <1>2
  <2>4. Fresh(p, u)
    BY <1>3 DEF ProcessOk
  <2>5. QED BY <2>1, <2>2, <2>3, <2>4 DEF Fresh
<1>9. MapOk(p)'
  BY <1>3, <1>5 DEF ProcessOk, MapOk, SameLives
<1>10. StageOk(p)'
  BY <1>2, <1>3 DEF ProcessOk, StageOk, ThreadId
<1>11. QED BY <1>1, <1>7, <1>8, <1>9, <1>10, OneProcess DEF ProcessOk

LEMMA FindLive ==
  ASSUME TypeOK, LiveOk, NEW p \in Process, NEW t \in ThreadId, Find(p, t)
  PROVE  LiveOk'
<1>1. journalsById[p] \in Object
  BY TypeParts DEF Find, RestTyped
<1>2. \A q \in Process : SameLives(q)
  BY DEF Find, SameLives
<1>3. /\ thread'[p][t] = [pc |-> "use", object |-> journalsById[p], rc |-> 0]
      /\ \A u \in ThreadId \ {t} : thread'[p][u] = thread[p][u]
      /\ \A q \in Process \ {p} : thread'[q] = thread[q]
  BY GotoEffect DEF Find
<1>4. ProcessOk(p)
  BY DEF LiveOk
<1>5. \A u \in ThreadId : Fresh(p, u)'
  BY <1>3, <1>4 DEF ProcessOk, Fresh, Building, Find
<1>6. \A u \in ThreadId : HandOk(p, u)'
  BY <1>1, <1>3, <1>4 DEF ProcessOk, HandOk, MapOk, Find
<1>7. MapOk(p)' /\ StageOk(p)'
  BY <1>3, <1>4, <1>1 DEF ProcessOk, MapOk, StageOk, Find, At, ThreadId
<1>8. \A q \in Process \ {p} : SameAt(q)
  BY <1>2, <1>3 DEF SameAt, Find
<1>9. QED BY <1>5, <1>6, <1>7, <1>8, OneProcess DEF ProcessOk

\* The journal to be made is none that a thread or the map has.
LEMMA MissLive ==
  ASSUME TypeOK, LiveOk, NEW p \in Process, NEW t \in ThreadId, Miss(p, t)
  PROVE  LiveOk'
<1>1. PICK o \in Object :
        /\ ~objects[p][o].made
        /\ Goto(p, t, "create", o, 0)
        /\ objects' = [objects EXCEPT
             ![p][o] = [@ EXCEPT !.made = TRUE, !.alive = TRUE]]
  BY DEF Miss
<1>2. /\ thread'[p][t] = [pc |-> "create", object |-> o, rc |-> 0]
      /\ \A u \in ThreadId \ {t} : thread'[p][u] = thread[p][u]
      /\ \A q \in Process \ {p} : thread'[q] = thread[q]
  BY <1>1, GotoEffect
<1>3. ASSUME NEW q \in Process, NEW m \in Object
      PROVE  /\ q = p /\ m = o => objects'[q][m].alive /\ objects'[q][m].made
             /\ q # p \/ m # o => objects'[q][m] = objects[q][m]
  <2>1. objects[q][m] \in Journals
    BY TypeParts DEF RestTyped
  <2>2. objects'[q][m] = IF q = p /\ m = o
                         THEN [objects[q][m] EXCEPT !.made = TRUE, !.alive = TRUE]
                         ELSE objects[q][m]
    BY <1>1, TypeParts DEF RestTyped
  <2>3. QED BY <2>1, <2>2 DEF Journals
<1>4. ProcessOk(p)
  BY DEF LiveOk
<1>5. \A u \in ThreadId : thread[p][u].pc # "idle" => thread[p][u].object \in Object
  BY InHand
<1>6. \A u \in ThreadId : thread[p][u].object # o
  <2>1. \A u \in ThreadId : thread[p][u].pc = "idle" <=> thread[p][u].object = None
    BY TypeParts DEF ThreadsTyped
  <2>2. QED BY <1>1, <1>4, <2>1, ProcessAssumption DEF ProcessOk, HandOk
<1>7. journalsById[p] = None /\ UNCHANGED <<journalsById, stage>>
  BY DEF Miss
<1>8. \A u \in ThreadId : Fresh(p, u)'
  <2>1. Fresh(p, t)'
    BY <1>2, <1>6, <1>7, ProcessAssumption DEF Fresh
  <2>2. ASSUME NEW u \in ThreadId \ {t} PROVE Fresh(p, u)'
    BY <1>2, <1>4, <1>6, <1>7 DEF ProcessOk, Fresh, Building
  <2>3. QED BY <2>1, <2>2
<1>9. \A u \in ThreadId : HandOk(p, u)'
  <2>1. HandOk(p, t)'
    BY <1>2, <1>3 DEF HandOk
  <2>2. ASSUME NEW u \in ThreadId \ {t} PROVE HandOk(p, u)'
    BY <1>2, <1>3, <1>4, <1>5, <1>6, <1>7 DEF ProcessOk, HandOk
  <2>3. QED BY <2>1, <2>2
<1>10. MapOk(p)' /\ StageOk(p)'
  BY <1>2, <1>4, <1>7 DEF ProcessOk, MapOk, StageOk, Miss, At, ThreadId
<1>11. \A q \in Process \ {p} : SameAt(q)
  BY <1>2, <1>3, <1>7 DEF SameAt, SameLives
<1>12. QED BY <1>8, <1>9, <1>10, <1>11, OneProcess DEF ProcessOk

\* A journal that could not be made is deleted, and no other thread has it.
LEMMA CreateFailsLive ==
  ASSUME TypeOK, LiveOk, NEW p \in Process, NEW t \in ThreadId,
         CreateLockedOut(p, t) \/ CreateOnTornVersion(p, t)
  PROVE  LiveOk'
<1> DEFINE o == thread[p][t].object
<1>1. /\ At(p, t, "create") /\ Goto(p, t, "use", o, -1)
      /\ objects' = [objects EXCEPT ![p][o].alive = FALSE]
      /\ UNCHANGED <<journalsById, stage>>
  BY DEF CreateLockedOut, CreateOnTornVersion
<1>2. o \in Object
  BY <1>1, InHand DEF At
<1>3. /\ thread'[p][t] = [pc |-> "use", object |-> o, rc |-> -1]
      /\ \A u \in ThreadId \ {t} : thread'[p][u] = thread[p][u]
      /\ \A q \in Process \ {p} : thread'[q] = thread[q]
  BY <1>1, GotoEffect
<1>4. ASSUME NEW q \in Process, NEW m \in Object
      PROVE  /\ objects'[q][m].made = objects[q][m].made
             /\ q # p \/ m # o => objects'[q][m] = objects[q][m]
  <2>1. objects[q][m] \in Journals
    BY TypeParts DEF RestTyped
  <2>2. objects'[q][m] = IF q = p /\ m = o
                         THEN [objects[q][m] EXCEPT !.alive = FALSE]
                         ELSE objects[q][m]
    BY <1>1, <1>2, TypeParts DEF RestTyped
  <2>3. QED BY <2>1, <2>2 DEF Journals
<1>5. ProcessOk(p)
  BY DEF LiveOk
<1>6. /\ journalsById[p] # o
      /\ \A u \in ThreadId \ {t} : thread[p][u].object # o
  BY <1>1, <1>5 DEF ProcessOk, Fresh, Building, At
<1>7. \A u \in ThreadId : thread[p][u].pc # "idle" => thread[p][u].object \in Object
  BY InHand
<1>8. journalsById[p] # None => journalsById[p] \in Object
  BY TypeParts DEF RestTyped
<1>9. \A u \in ThreadId : Fresh(p, u)'
  BY <1>1, <1>3, <1>5, <1>6 DEF ProcessOk, Fresh, Building
<1>10. \A u \in ThreadId : HandOk(p, u)'
  <2>1. HandOk(p, t)'
    <3>1. objects[p][o].made
      BY <1>1, <1>5 DEF ProcessOk, HandOk, At
    <3>2. QED BY <1>2, <1>3, <1>4, <3>1 DEF HandOk
  <2>2. ASSUME NEW u \in ThreadId \ {t} PROVE HandOk(p, u)'
    BY <1>1, <1>3, <1>4, <1>5, <1>6, <1>7 DEF ProcessOk, HandOk
  <2>3. QED BY <2>1, <2>2
<1>11. MapOk(p)'
  BY <1>1, <1>4, <1>5, <1>6, <1>8 DEF ProcessOk, MapOk
<1>12. StageOk(p)'
  BY <1>1, <1>3, <1>5 DEF ProcessOk, StageOk, At, ThreadId
<1>13. \A q \in Process \ {p} : SameAt(q)
  BY <1>1, <1>3, <1>4 DEF SameAt, SameLives
<1>14. QED BY <1>9, <1>10, <1>11, <1>12, <1>13, OneProcess DEF ProcessOk

LEMMA InsertLive ==
  ASSUME TypeOK, LiveOk, NEW p \in Process, NEW t \in ThreadId, Insert(p, t)
  PROVE  LiveOk'
<1> DEFINE o == thread[p][t].object
<1>1. /\ At(p, t, "insert") /\ Goto(p, t, "use", o, 0)
      /\ UNCHANGED <<objects, stage>>
      /\ journalsById'[p] = o
      /\ \A q \in Process \ {p} : journalsById'[q] = journalsById[q]
  BY TypeParts DEF Insert, RestTyped
<1>2. o \in Object
  BY <1>1, InHand DEF At
<1>3. /\ thread'[p][t] = [pc |-> "use", object |-> o, rc |-> 0]
      /\ \A u \in ThreadId \ {t} : thread'[p][u] = thread[p][u]
      /\ \A q \in Process \ {p} : thread'[q] = thread[q]
  BY <1>1, GotoEffect
<1>4. ProcessOk(p)
  BY DEF LiveOk
<1>5. \A u \in ThreadId \ {t} : thread[p][u].object # o
  BY <1>1, <1>4 DEF ProcessOk, Fresh, Building, At
<1>6. \A u \in ThreadId : Fresh(p, u)'
  BY <1>1, <1>3, <1>4, <1>5 DEF ProcessOk, Fresh, Building
<1>7. /\ objects[p][o].made
      /\ stage[p] = "running" => objects[p][o].alive
  BY <1>1, <1>4 DEF ProcessOk, HandOk, At
<1>8. \A u \in ThreadId : HandOk(p, u)'
  BY <1>1, <1>3, <1>4, <1>7 DEF ProcessOk, HandOk
<1>9. MapOk(p)'
  BY <1>1, <1>7 DEF MapOk
<1>10. StageOk(p)'
  BY <1>1, <1>3, <1>4 DEF ProcessOk, StageOk, At, ThreadId
<1>11. \A q \in Process \ {p} : SameAt(q)
  BY <1>1, <1>3 DEF SameAt, SameLives
<1>12. QED BY <1>6, <1>8, <1>9, <1>10, <1>11, OneProcess DEF ProcessOk

\* The rest of getOrCreateJournal, and the handlers.
LEMMA HandlersLive ==
  ASSUME TypeOK, LiveOk, NEW p \in Process, NEW t \in ThreadId,
         \/ CreateOnNothing(p, t) \/ CreateOnDirectory(p, t) \/ Scan(p, t)
         \/ Reply(p) \/ HttpReply(p) \/ StartLogSegment(p) \/ WriteTxn(p) \/ Format(p)
  PROVE  LiveOk'
<1>1. \A u \in ThreadId : thread[p][u].pc # "idle" => thread[p][u].object \in Object
  BY InHand
<1>2. ASSUME UNCHANGED objects PROVE \A q \in Process : SameLives(q)
  BY <1>2 DEF SameLives
<1>3. Building(p, t) => thread[p][t].rc = 0
  BY DEF LiveOk, ProcessOk, HandOk, Building
<1>4. CASE CreateOnNothing(p, t)
  BY <1>1, <1>2, <1>3, <1>4, GoesOn DEF CreateOnNothing, At, Label, Building
<1>5. CASE CreateOnDirectory(p, t)
  <2>1. FreeFd(p) \in Fd
    BY <1>5, LockTyped DEF CreateOnDirectory
  <2>2. \A q \in Process : SameLives(q)
    BY <1>1, <1>5, <2>1, LivesKept DEF CreateOnDirectory, At, State
  <2>3. QED BY <1>1, <1>3, <1>5, <2>2, GoesOn DEF CreateOnDirectory, At, Label, Building
<1>6. CASE Scan(p, t)
  <2>1. \A q \in Process : SameLives(q)
    BY <1>1, <1>6, LivesKept DEF Scan, At
  <2>2. QED BY <1>1, <1>3, <1>6, <2>1, GoesOn DEF Scan, At, Label, Building
<1>7. CASE Reply(p) \/ HttpReply(p)
  <2>1. \A u \in ThreadId : thread[p][u].rc \in {0, -1}
    BY DEF TypeOK, ThreadId
  <2>2. QED BY <1>2, <1>7, <2>1, GoesOn
           DEF Reply, HttpReply, Answer, At, Label, ThreadId
<1>8. CASE StartLogSegment(p)
  <2>1. thread[p]["rpc"].object \in Object
    BY <1>1, <1>8 DEF StartLogSegment, RpcHasJournal, At, ThreadId
  <2>2. \A q \in Process : SameLives(q)
    BY <1>8, <2>1, LivesKept DEF StartLogSegment
  <2>3. QED BY <1>8, <2>2, GoesOn
           DEF StartLogSegment, RpcHasJournal, Answer, At, Label, ThreadId
<1>9. CASE WriteTxn(p)
  BY <1>2, <1>9, GoesOn DEF WriteTxn, RpcHasJournal, Answer, At, Label, ThreadId
<1>10. CASE Format(p)
  <2>1. thread[p]["rpc"].pc # "idle" /\ thread[p]["rpc"].rc = 0
    BY <1>10 DEF Format, FormatUnlock, FormatClear, FormatClearFails,
       FormatWriteVersion, FormatRelock, FormatLockedOut, RpcHasJournal, At,
       LiveOk, ProcessOk, HandOk, ThreadId
  <2>2. thread[p]["rpc"].object \in Object
    BY <1>1, <2>1 DEF ThreadId
  <2>3. CASE FormatUnlock(p)
    BY <1>2, <2>1, <2>2, <2>3, GoesOn DEF FormatUnlock, Label, ThreadId
  <2>4. CASE FormatClear(p)
    <3>1. \A q \in Process : SameLives(q)
      BY <2>2, <2>4, LivesKept DEF FormatClear
    <3>2. QED BY <2>1, <2>2, <2>4, <3>1, GoesOn DEF FormatClear, Label, ThreadId
  <2>5. CASE FormatClearFails(p) \/ FormatLockedOut(p)
    BY <1>2, <2>1, <2>5, GoesOn
       DEF FormatClearFails, FormatLockedOut, Answer, Label, ThreadId
  <2>6. CASE FormatWriteVersion(p)
    BY <1>2, <2>1, <2>2, <2>6, GoesOn DEF FormatWriteVersion, Label, ThreadId
  <2>7. CASE FormatRelock(p)
    <3>1. FreeFd(p) \in Fd
      BY <2>7, LockTyped DEF FormatRelock
    <3>2. \A q \in Process : SameLives(q)
      BY <2>2, <2>7, <3>1, LivesKept DEF FormatRelock, State
    <3>3. QED BY <2>1, <2>7, <3>2, GoesOn DEF FormatRelock, Answer, Label, ThreadId
  <2>8. QED BY <1>10, <2>3, <2>4, <2>5, <2>6, <2>7 DEF Format
<1>11. QED BY <1>4, <1>5, <1>6, <1>7, <1>8, <1>9, <1>10

LEMMA ExitLive ==
  ASSUME TypeOK, LiveOk, NEW p \in Process, Exit(p)
  PROVE  LiveOk'
<1>1. ASSUME NEW q \in Process, NEW m \in Object
      PROVE  /\ objects'[q][m].made = objects[q][m].made
             /\ q # p => objects'[q][m] = objects[q][m]
  <2>1. objects[q][m] \in Journals
    BY TypeParts DEF RestTyped
  <2>2. objects'[q][m] = IF q = p /\ m = journalsById[p]
                         THEN [objects[q][m] EXCEPT !.alive = FALSE]
                         ELSE objects[q][m]
    BY TypeParts DEF Exit, RestTyped
  <2>3. QED BY <2>1, <2>2 DEF Journals
<1>2. ProcessOk(p) /\ stage'[p] = "exiting" /\ UNCHANGED <<thread, journalsById>>
  BY TypeParts DEF LiveOk, Exit, RestTyped
<1>3. \A u \in ThreadId : thread[p][u].pc # "idle" => thread[p][u].object \in Object
  BY InHand
<1>4. journalsById[p] # None => journalsById[p] \in Object
  BY TypeParts DEF RestTyped
<1>5. \A u \in ThreadId : Fresh(p, u)' /\ HandOk(p, u)'
  BY <1>1, <1>2, <1>3 DEF ProcessOk, Fresh, HandOk, Building
<1>6. MapOk(p)'
  BY <1>1, <1>2, <1>4 DEF ProcessOk, MapOk
<1>7. StageOk(p)'
  BY <1>2 DEF StageOk, Exit, At
<1>8. \A q \in Process \ {p} : SameAt(q)
  BY <1>1, <1>2, TypeParts DEF SameAt, SameLives, Exit, RestTyped
<1>9. QED BY <1>5, <1>6, <1>7, <1>8, OneProcess DEF ProcessOk

LEMMA DieLive ==
  ASSUME TypeOK, LiveOk, NEW p \in Process, Die(p)
  PROVE  LiveOk'
<1>1. /\ thread'[p] = NoThreads /\ journalsById'[p] = None
      /\ stage'[p] = "down"
  BY TypeParts DEF Die, ThreadsTyped, RestTyped
<1>2. \A t \in ThreadId : NoThreads[t].pc = "idle"
  BY DEF NoThreads, ThreadId, Idle
<1>3. ProcessOk(p)'
  BY <1>1, <1>2
     DEF ProcessOk, Fresh, HandOk, MapOk, StageOk, Building, ThreadId
<1>4. \A q \in Process \ {p} : SameAt(q)
  BY TypeParts DEF SameAt, SameLives, Die, ThreadsTyped, RestTyped
<1>5. QED BY <1>3, <1>4, OneProcess

LEMMA StartLive ==
  ASSUME TypeOK, LiveOk, NEW p \in Process, Start(p)
  PROVE  LiveOk'
<1>1. /\ stage[p] = "down" /\ stage'[p] = "running"
      /\ UNCHANGED <<thread, journalsById, objects>>
  BY TypeParts DEF Start, RestTyped
<1>2. /\ \A t \in ThreadId : thread[p][t].pc = "idle"
      /\ journalsById[p] = None
  BY <1>1 DEF LiveOk, ProcessOk, StageOk, ThreadId
<1>3. ProcessOk(p)'
  BY <1>1, <1>2 DEF ProcessOk, Fresh, HandOk, MapOk, StageOk, Building, ThreadId
<1>4. \A q \in Process \ {p} : SameAt(q)
  BY <1>1, TypeParts DEF SameAt, SameLives, Start, RestTyped
<1>5. QED BY <1>3, <1>4, OneProcess

LEMMA InitLive == Init => LiveOk
<1> SUFFICES ASSUME Init, NEW p \in Process PROVE ProcessOk(p)
  BY DEF LiveOk
<1>1. \A t \in ThreadId : thread[p][t].pc = "idle"
  BY DEF Init, NoThreads, Idle, ThreadId
<1>2. QED BY <1>1
         DEF Init, ProcessOk, Fresh, HandOk, MapOk, StageOk, Building, ThreadId

LEMMA StepLive == TypeOK /\ LiveOk /\ [Next]_vars => LiveOk'
<1> SUFFICES ASSUME TypeOK, LiveOk, [Next]_vars PROVE LiveOk'
  OBVIOUS
<1>1. ASSUME NEW p \in Process, NEW t \in ThreadId, GetOrCreateJournal(p, t)
      PROVE  LiveOk'
  BY <1>1, FindLive, MissLive, CreateFailsLive, InsertLive, HandlersLive
     DEF GetOrCreateJournal
<1>2. ASSUME NEW p \in Process,
             Reply(p) \/ StartLogSegment(p) \/ WriteTxn(p) \/ Format(p) \/ HttpReply(p)
      PROVE  LiveOk'
  BY <1>2, HandlersLive DEF ThreadId
<1>3. ASSUME UNCHANGED <<thread, journalsById, stage, objects>> PROVE LiveOk'
  <2>1. \A q \in Process : SameAt(q)
    BY <1>3 DEF SameAt, SameLives
  <2>2. QED BY <2>1, SameProcess DEF LiveOk
<1>4. ASSUME NEW p \in Process, OpenSocket(p) \/ CloseSocket(p) PROVE LiveOk'
  BY <1>3, <1>4 DEF OpenSocket, CloseSocket
<1>5. CASE UNCHANGED vars
  BY <1>3, <1>5 DEF vars
<1>6. QED BY <1>1, <1>2, <1>4, <1>5, ExitLive, DieLive, StartLive DEF Next, ThreadId

-----------------------------------------------------------------------------
(* Acknowledged transactions, as long as nothing is disturbed *)

Formatting(p) == thread[p]["rpc"].pc \in {"clear", "version", "relock"}

\* One journal object of a process is alive: the one being built, or the one
\* in the map, which is what the handlers have in hand.
OneJournal(p) ==
  /\ \A o, m \in Object : objects[p][o].alive /\ objects[p][m].alive => o = m
  /\ \A t \in ThreadId : Building(p, t) =>
       journalsById[p] = None /\ objects[p][thread[p][t].object].alive
  /\ thread[p]["rpc"].pc # "idle" /\ thread[p]["rpc"].rc = 0 =>
       Building(p, "rpc") \/ thread[p]["rpc"].object = journalsById[p]

\* A journal that found VERSION, or looks for the log, has the lock, unless it
\* gave it away to format.
HoldsLock(p) ==
  \/ \E o \in Object : objects[p][o].state = "NORMAL"
  \/ \E t \in ThreadId : thread[p][t].pc = "scan"
  => lock = p \/ Formatting(p)

\* What writes is the journal of the map; without the lock, or on a file that
\* is gone, it is about to remove everything.
WriterOk(p) ==
  \A o \in Object : objects[p][o].writes # "nothing" =>
    /\ o = journalsById[p]
    /\ \/ lock = p /\ objects[p][o].writes = "log"
       \/ thread[p]["rpc"].pc = "clear"
    /\ thread[p]["rpc"].pc \notin {"version", "relock"}

DirectoryOk ==
  /\ acked => log = "data"
  /\ \A p \in Process : OneJournal(p) /\ HoldsLock(p) /\ WriterOk(p)

WritesOk == ~disturbed => DirectoryOk

JournalOk(p) == OneJournal(p) /\ HoldsLock(p) /\ WriterOk(p)

\* A step of another process that does not take the lock away.
Elsewhere(q) ==
  /\ thread'[q] = thread[q] /\ journalsById'[q] = journalsById[q]
  /\ objects'[q] = objects[q]
  /\ lock = q => lock' = q

LEMMA ElsewhereKept ==
  ASSUME TypeOK, NEW q \in Process, JournalOk(q), Elsewhere(q)
  PROVE  JournalOk(q)'
<1>1. OneJournal(q)'
  BY DEF JournalOk, OneJournal, Elsewhere, Building, ThreadId
<1>2. HoldsLock(q)'
  BY DEF JournalOk, HoldsLock, Elsewhere, Formatting
<1>3. WriterOk(q)'
  BY DEF JournalOk, WriterOk, Elsewhere
<1>4. QED BY <1>1, <1>2, <1>3 DEF JournalOk

LEMMA OneDirectory ==
  ASSUME TypeOK, DirectoryOk, NEW p \in Process, JournalOk(p)',
         acked' => log' = "data",
         \A q \in Process \ {p} : Elsewhere(q)
  PROVE  DirectoryOk'
<1>1. \A q \in Process \ {p} : JournalOk(q)'
  BY ElsewhereKept DEF DirectoryOk, JournalOk
<1>2. QED BY <1>1 DEF DirectoryOk, JournalOk

LEMMA SameDirectory ==
  ASSUME TypeOK, DirectoryOk,
         UNCHANGED <<thread, journalsById, objects, lock, acked, log>>
  PROVE  DirectoryOk'
BY ElsewhereKept DEF DirectoryOk, JournalOk, Elsewhere

\* One object changes.
LEMMA ObjectEffect ==
  ASSUME TypeOK, NEW p \in Process, NEW o \in Object, NEW j,
         objects' = [objects EXCEPT ![p][o] = j]
  PROVE  /\ objects'[p][o] = j
         /\ \A m \in Object \ {o} : objects'[p][m] = objects[p][m]
         /\ \A q \in Process \ {p} : objects'[q] = objects[q]
BY TypeParts DEF RestTyped

\* While a journal is built, nothing of its process writes, and no other thread
\* builds or works on one.
LEMMA BuilderIsAlone ==
  ASSUME TypeOK, LiveOk, NEW p \in Process, NEW t \in ThreadId,
         JournalOk(p), Building(p, t)
  PROVE  /\ journalsById[p] = None
         /\ thread[p][t].object \in Object
         /\ \A o \in Object : objects[p][o].writes = "nothing"
         /\ \A o \in Object : objects[p][o].alive <=> o = thread[p][t].object
         /\ \A u \in ThreadId \ {t} : ~Building(p, u)
         /\ t = "http" =>
              thread[p]["rpc"].pc \in {"idle", "use"} /\
              (thread[p]["rpc"].pc = "use" => thread[p]["rpc"].rc # 0)
<1>1. /\ journalsById[p] = None
      /\ objects[p][thread[p][t].object].alive
  BY DEF JournalOk, OneJournal
<1>2. thread[p][t].object \in Object
  BY InHand DEF Building
<1>3. \A o \in Object : objects[p][o].alive <=> o = thread[p][t].object
  BY <1>1, <1>2 DEF JournalOk, OneJournal
<1>4. \A o \in Object : objects[p][o].writes = "nothing"
  BY <1>1, ProcessAssumption DEF JournalOk, WriterOk
<1>5. ASSUME NEW u \in ThreadId \ {t}, Building(p, u) PROVE FALSE
  <2>1. /\ objects[p][thread[p][u].object].alive
        /\ thread[p][u].object \in Object
    BY <1>5, InHand DEF JournalOk, OneJournal, Building
  <2>2. thread[p][u].object # thread[p][t].object
    BY <1>5 DEF LiveOk, ProcessOk, Fresh
  <2>3. QED BY <1>3, <2>1, <2>2
<1>6. ASSUME t = "http"
      PROVE  /\ thread[p]["rpc"].pc \in {"idle", "use"}
             /\ thread[p]["rpc"].pc = "use" => thread[p]["rpc"].rc # 0
  <2>1. ~Building(p, "rpc")
    BY <1>5, <1>6 DEF ThreadId
  <2>2. thread[p]["rpc"].pc # "idle" => thread[p]["rpc"].object # None
    BY DEF TypeOK
  <2>3. thread[p]["rpc"].pc # "idle" => thread[p]["rpc"].rc # 0
    BY <1>1, <2>1, <2>2 DEF JournalOk, OneJournal
  <2>4. thread[p]["rpc"].pc \notin {"idle", "use"} => thread[p]["rpc"].rc = 0
    BY DEF LiveOk, ProcessOk, HandOk, ThreadId
  <2>5. QED BY <2>3, <2>4
<1>7. QED BY <1>1, <1>2, <1>3, <1>4, <1>5, <1>6

\* A handler of the RPC thread has the journal of the map in hand.
LEMMA HandlerHasMap ==
  ASSUME TypeOK, LiveOk, NEW p \in Process, JournalOk(p),
         RpcHasJournal(p) \/ Formatting(p)
  PROVE  /\ thread[p]["rpc"].object = journalsById[p]
         /\ journalsById[p] \in Object
         /\ \A t \in ThreadId : ~Building(p, t)
         /\ thread[p]["rpc"].rc = 0 /\ stage[p] = "running"
<1>1. /\ thread[p]["rpc"].pc \in {"use", "clear", "version", "relock"}
      /\ thread[p]["rpc"].rc = 0
  BY DEF RpcHasJournal, Formatting, At, LiveOk, ProcessOk, HandOk, ThreadId
<1>2. thread[p]["rpc"].object \in Object
  BY <1>1, InHand DEF ThreadId
<1>3. thread[p]["rpc"].object = journalsById[p]
  BY <1>1 DEF JournalOk, OneJournal, Building
<1>4. \A t \in ThreadId : ~Building(p, t)
  BY <1>2, <1>3, ProcessAssumption DEF JournalOk, OneJournal
<1>5. stage[p] = "running"
  BY <1>1 DEF LiveOk, ProcessOk, StageOk
<1>6. QED BY <1>1, <1>2, <1>3, <1>4, <1>5

-----------------------------------------------------------------------------
(* getOrCreateJournal *)

LEMMA FindWrites ==
  ASSUME TypeOK, LiveOk, DirectoryOk, NEW p \in Process, NEW t \in ThreadId, Find(p, t)
  PROVE  DirectoryOk'
<1>1. /\ UNCHANGED <<journalsById, objects, lock, acked, log>>
      /\ At(p, t, "idle") /\ journalsById[p] # None
      /\ Goto(p, t, "use", journalsById[p], 0)
  BY DEF Find, dir, history
<1>2. /\ thread'[p][t] = [pc |-> "use", object |-> journalsById[p], rc |-> 0]
      /\ \A u \in ThreadId \ {t} : thread'[p][u] = thread[p][u]
      /\ \A q \in Process \ {p} : thread'[q] = thread[q]
  BY <1>1, GotoEffect
<1>3. JournalOk(p)
  BY DEF DirectoryOk, JournalOk
<1>4. \A q \in Process \ {p} : Elsewhere(q)
  BY <1>1, <1>2 DEF Elsewhere
<1>5. OneJournal(p)'
  BY <1>1, <1>2, <1>3 DEF JournalOk, OneJournal, Building, ThreadId
<1>6. HoldsLock(p)'
  BY <1>1, <1>2, <1>3 DEF JournalOk, HoldsLock, Formatting, ThreadId, At
<1>7. WriterOk(p)'
  BY <1>1, <1>2, <1>3 DEF JournalOk, WriterOk, ThreadId, At
<1>8. QED BY <1>1, <1>4, <1>5, <1>6, <1>7, OneDirectory DEF JournalOk, DirectoryOk

Makes(p, t, o) ==
  /\ Goto(p, t, "create", o, 0)
  /\ objects' = [objects EXCEPT ![p][o] = [@ EXCEPT !.made = TRUE, !.alive = TRUE]]

LEMMA MissMakes ==
  ASSUME NEW p \in Process, NEW t \in ThreadId, Miss(p, t)
  PROVE  \E o \in Object : Makes(p, t, o)
BY Zenon DEF Miss, Makes

LEMMA MissWrites ==
  ASSUME TypeOK, LiveOk, DirectoryOk, NEW p \in Process, NEW t \in ThreadId,
         Miss(p, t), ~disturbed'
  PROVE  DirectoryOk'
<1>1. /\ UNCHANGED <<journalsById, lock, acked, log>>
      /\ At(p, t, "idle") /\ journalsById[p] = None
      /\ \A o \in Object : ~objects[p][o].alive
  BY DEF Miss, dir
<1>2. PICK o \in Object : Makes(p, t, o)
  BY MissMakes
<1>3. /\ thread'[p][t] = [pc |-> "create", object |-> o, rc |-> 0]
      /\ \A u \in ThreadId \ {t} : thread'[p][u] = thread[p][u]
      /\ \A q \in Process \ {p} : thread'[q] = thread[q]
  BY <1>2, GotoEffect DEF Makes
<1>4. /\ objects'[p][o] = [objects[p][o] EXCEPT !.made = TRUE, !.alive = TRUE]
      /\ \A m \in Object \ {o} : objects'[p][m] = objects[p][m]
      /\ \A q \in Process \ {p} : objects'[q] = objects[q]
  BY <1>2, TypeParts DEF RestTyped, Makes
<1>5. /\ objects'[p][o].alive
      /\ objects'[p][o].state = objects[p][o].state
      /\ objects'[p][o].writes = objects[p][o].writes
  <2>1. objects[p][o] \in Journals
    BY TypeParts DEF RestTyped
  <2>2. QED BY <1>4, <2>1 DEF Journals
<1>6. JournalOk(p)
  BY DEF DirectoryOk, JournalOk
<1>7. \A u \in ThreadId : ~Building(p, u)
  <2>1. ASSUME NEW u \in ThreadId, Building(p, u) PROVE FALSE
    BY <1>1, <1>6, <2>1, BuilderIsAlone
  <2>2. QED BY <2>1
<1>8. thread[p]["rpc"].pc # "idle" => thread[p]["rpc"].object # None
  BY DEF TypeOK
<1>9. OneJournal(p)'
  <2>1. \A m, k \in Object : objects'[p][m].alive /\ objects'[p][k].alive => m = k
    BY <1>1, <1>4
  <2>2. \A u \in ThreadId : Building(p, u)' => u = t
    BY <1>3, <1>7 DEF Building
  <2>3. t # "rpc" => thread'[p]["rpc"].pc = "idle" \/ thread'[p]["rpc"].rc # 0
    BY <1>1, <1>3, <1>6, <1>7, <1>8 DEF JournalOk, OneJournal, ThreadId
  <2>4. QED BY <1>1, <1>3, <1>5, <2>1, <2>2, <2>3 DEF OneJournal, Building, ThreadId
<1>10. HoldsLock(p)'
  <2>1. \A m \in Object : objects'[p][m].state = objects[p][m].state
    BY <1>4, <1>5
  <2>2. \A u \in ThreadId : thread'[p][u].pc = "scan" => thread[p][u].pc = "scan"
    BY <1>3
  <2>3. Formatting(p)' = Formatting(p)
    BY <1>1, <1>3 DEF Formatting, At, ThreadId
  <2>4. QED BY <1>1, <1>6, <2>1, <2>2, <2>3 DEF JournalOk, HoldsLock
<1>11. WriterOk(p)'
  <2>1. \A m \in Object : objects[p][m].writes = "nothing"
    BY <1>1, <1>6, ProcessAssumption DEF JournalOk, WriterOk
  <2>2. \A m \in Object : objects'[p][m].writes = "nothing"
    BY <1>4, <1>5, <2>1
  <2>3. QED BY <2>2 DEF WriterOk
<1>12. \A q \in Process \ {p} : Elsewhere(q)
  BY <1>1, <1>3, <1>4 DEF Elsewhere
<1>13. QED BY <1>1, <1>9, <1>10, <1>11, <1>12, OneDirectory DEF JournalOk, DirectoryOk

\* What the constructor does to its own object, in sight of no other thread.
Builds(p, t, label, r) ==
  LET o == thread[p][t].object IN
  /\ Goto(p, t, label, o, r)
  /\ UNCHANGED <<journalsById, acked>>
  /\ acked => log' = log
  /\ lock' = lock \/ (lock \in {None, p} /\ lock' = p)
  /\ \A q \in Process \ {p} : objects'[q] = objects[q]
  /\ \A m \in Object \ {o} : objects'[p][m] = objects[p][m]
  /\ objects'[p][o].writes = "nothing"
  /\ label # "use" => objects'[p][o].alive
  /\ label = "use" => r = -1
  /\ \/ lock' = p
     \/ /\ label # "scan"
        /\ objects'[p][o].state = "NORMAL" => objects[p][o].state = "NORMAL"

LEMMA BuilderStep ==
  ASSUME TypeOK, LiveOk, DirectoryOk, NEW p \in Process, NEW t \in ThreadId,
         Building(p, t), NEW label \in {"use", "scan", "insert"}, NEW r \in {0, -1},
         Builds(p, t, label, r)
  PROVE  DirectoryOk'
<1> DEFINE o == thread[p][t].object
<1>1. JournalOk(p)
  BY DEF DirectoryOk, JournalOk
<1> USE DEF Builds
<1>2. /\ journalsById[p] = None
      /\ o \in Object
      /\ \A m \in Object : objects[p][m].writes = "nothing"
      /\ \A m \in Object : objects[p][m].alive <=> m = o
      /\ \A u \in ThreadId \ {t} : ~Building(p, u)
      /\ t = "http" =>
           thread[p]["rpc"].pc \in {"idle", "use"} /\
           (thread[p]["rpc"].pc = "use" => thread[p]["rpc"].rc # 0)
  BY <1>1, BuilderIsAlone
<1>3. /\ thread'[p][t] = [pc |-> label, object |-> o, rc |-> r]
      /\ \A u \in ThreadId \ {t} : thread'[p][u] = thread[p][u]
      /\ \A q \in Process \ {p} : thread'[q] = thread[q]
  BY GotoEffect
<1>4. OneJournal(p)'
  <2>1. \A m, k \in Object : objects'[p][m].alive /\ objects'[p][k].alive => m = k
    BY <1>2
  <2>2. \A u \in ThreadId : Building(p, u)' => u = t /\ label # "use"
    BY <1>2, <1>3 DEF Building
  <2>3. thread'[p]["rpc"].pc # "idle" /\ thread'[p]["rpc"].rc = 0 => Building(p, "rpc")'
    BY <1>2, <1>3 DEF Building, ThreadId
  <2>4. QED BY <1>2, <1>3, <2>1, <2>2, <2>3 DEF OneJournal
<1>5. HoldsLock(p)'
  <2>1. CASE lock' = p
    BY <2>1 DEF HoldsLock
  <2>2. CASE /\ lock' = lock /\ label # "scan"
             /\ objects'[p][o].state = "NORMAL" => objects[p][o].state = "NORMAL"
    <3>1. \A m \in Object : objects'[p][m].state = "NORMAL" => objects[p][m].state = "NORMAL"
      BY <2>2
    <3>2. \A u \in ThreadId : thread'[p][u].pc = "scan" => thread[p][u].pc = "scan"
      BY <1>3, <2>2
    <3>3. ~Formatting(p)
      BY <1>2 DEF Formatting, Building, ThreadId
    <3>4. QED BY <1>1, <2>2, <3>1, <3>2, <3>3 DEF JournalOk, HoldsLock
  <2>3. QED BY <2>1, <2>2
<1>6. WriterOk(p)'
  BY <1>2 DEF WriterOk
<1>7. \A q \in Process \ {p} : Elsewhere(q)
  BY <1>3, ProcessAssumption DEF Elsewhere
<1>8. QED BY <1>4, <1>5, <1>6, <1>7, OneDirectory DEF JournalOk, DirectoryOk

LEMMA CreateWrites ==
  ASSUME TypeOK, LiveOk, DirectoryOk, NEW p \in Process, NEW t \in ThreadId,
         \/ CreateOnNothing(p, t) \/ CreateLockedOut(p, t)
         \/ CreateOnTornVersion(p, t) \/ CreateOnDirectory(p, t)
  PROVE  DirectoryOk'
<1> DEFINE o == thread[p][t].object
<1>1. Building(p, t)
  BY DEF CreateOnNothing, CreateLockedOut, CreateOnTornVersion, CreateOnDirectory,
         At, Building
<1>2. JournalOk(p)
  BY DEF DirectoryOk, JournalOk
<1>3. o \in Object /\ objects[p][o].writes = "nothing" /\ objects[p][o].alive
  BY <1>1, <1>2, BuilderIsAlone
<1>4. objects[p][o] \in Journals
  BY <1>3, TypeParts DEF RestTyped
<1>5. CASE CreateOnNothing(p, t)
  <2>1. Builds(p, t, "insert", 0)
    BY <1>3, <1>5 DEF CreateOnNothing, Builds, dir, history
  <2>2. QED BY <1>1, <2>1, BuilderStep
<1>6. CASE CreateLockedOut(p, t) \/ CreateOnTornVersion(p, t)
  <2>1. objects' = [objects EXCEPT ![p][o].alive = FALSE]
    BY <1>6 DEF CreateLockedOut, CreateOnTornVersion
  <2>2. /\ objects'[p][o] = [objects[p][o] EXCEPT !.alive = FALSE]
        /\ \A m \in Object \ {o} : objects'[p][m] = objects[p][m]
        /\ \A q \in Process \ {p} : objects'[q] = objects[q]
    BY <1>3, <2>1, TypeParts DEF RestTyped
  <2>3. /\ objects'[p][o].writes = "nothing"
        /\ objects'[p][o].state = objects[p][o].state
    BY <1>3, <1>4, <2>2 DEF Journals
  <2>4. /\ Goto(p, t, "use", o, -1)
        /\ UNCHANGED <<journalsById, acked, log>>
        /\ lock' = lock \/ (lock \in {None, p} /\ lock' = p)
    BY <1>6 DEF CreateLockedOut, CreateOnTornVersion, Lock, Lockable, dir, history
  <2>5. Builds(p, t, "use", -1)
    BY <2>2, <2>3, <2>4 DEF Builds
  <2>6. QED BY <1>1, <2>5, BuilderStep
<1>7. CASE CreateOnDirectory(p, t)
  <2>1. PICK s \in State : objects' = [objects EXCEPT
          ![p][o] = [@ EXCEPT !.state = s, !.lockFileFD = FreeFd(p)]]
    BY <1>7 DEF CreateOnDirectory, State
  <2>2. /\ objects'[p][o] = [objects[p][o] EXCEPT !.state = s, !.lockFileFD = FreeFd(p)]
        /\ \A m \in Object \ {o} : objects'[p][m] = objects[p][m]
        /\ \A q \in Process \ {p} : objects'[q] = objects[q]
    BY <1>3, <2>1, TypeParts DEF RestTyped
  <2>3. objects'[p][o].writes = "nothing" /\ objects'[p][o].alive
    BY <1>3, <1>4, <2>2 DEF Journals
  <2>4. /\ Goto(p, t, "scan", o, 0)
        /\ UNCHANGED <<journalsById, acked, log>>
        /\ lock \in {None, p} /\ lock' = p
    BY <1>7 DEF CreateOnDirectory, Lock, Lockable, history
  <2>5. Builds(p, t, "scan", 0)
    BY <2>2, <2>3, <2>4 DEF Builds
  <2>6. QED BY <1>1, <2>5, BuilderStep
<1>8. QED BY <1>5, <1>6, <1>7

LEMMA SeenWhereLogLost ==
  ASSUME TypeOK, NEW q \in Process, NEW o \in Object, objects' = LogLost
  PROVE  /\ objects'[q][o].alive = objects[q][o].alive
         /\ objects'[q][o].state = objects[q][o].state
         /\ objects'[q][o].writes = IF objects[q][o].writes = "log" THEN "lostFile"
                                    ELSE objects[q][o].writes
<1>1. objects[q][o] \in Journals
  BY TypeParts DEF RestTyped
<1>2. objects'[q][o] = IF objects[q][o].writes = "log"
                       THEN [objects[q][o] EXCEPT !.writes = "lostFile"]
                       ELSE objects[q][o]
  BY DEF LogLost
<1>3. QED BY <1>1, <1>2 DEF Journals

\* The empty log that the constructor moves aside is that of a process that has
\* given away its lock to format.
LEMMA ScanWrites ==
  ASSUME TypeOK, LiveOk, DirectoryOk, NEW p \in Process, NEW t \in ThreadId, Scan(p, t)
  PROVE  DirectoryOk'
<1> DEFINE o == thread[p][t].object
<1>1. /\ Building(p, t) /\ thread[p][t].pc = "scan"
      /\ Goto(p, t, "insert", o, 0)
      /\ UNCHANGED <<journalsById, lock, acked>>
  BY DEF Scan, Building, At, history
<1>2. JournalOk(p)
  BY DEF DirectoryOk, JournalOk
<1>3. /\ o \in Object
      /\ \A m \in Object : objects[p][m].writes = "nothing"
      /\ objects[p][o].alive
  BY <1>1, <1>2, BuilderIsAlone
<1>4. CASE ~IsMovedAside
  <2>1. Builds(p, t, "insert", 0)
    BY <1>1, <1>3, <1>4 DEF Scan, Builds
  <2>2. QED BY <1>1, <2>1, BuilderStep
<1>5. CASE IsMovedAside
  <2>1. ~acked /\ objects' = LogLost
    BY <1>5 DEF DirectoryOk, Scan, IsMovedAside
  <2>2. lock = p
    <3>1. ~Formatting(p)
      BY <1>1, <1>2, BuilderIsAlone DEF Formatting, Building, ThreadId
    <3>2. QED BY <1>1, <1>2, <3>1 DEF JournalOk, HoldsLock
  <2>3. /\ thread'[p][t] = [pc |-> "insert", object |-> o, rc |-> 0]
        /\ \A u \in ThreadId \ {t} : thread'[p][u] = thread[p][u]
        /\ \A q \in Process \ {p} : thread'[q] = thread[q]
    BY <1>1, GotoEffect
  <2>4. JournalOk(p)'
    <3>1. \A m \in Object : /\ objects'[p][m].alive = objects[p][m].alive
                            /\ objects'[p][m].writes = "nothing"
      BY <1>3, <2>1, SeenWhereLogLost
    <3>2. OneJournal(p)'
      <4>1. \A m, k \in Object : objects'[p][m].alive /\ objects'[p][k].alive => m = k
        BY <1>2, <3>1 DEF JournalOk, OneJournal
      <4>2. \A u \in ThreadId : Building(p, u)' => u = t
        BY <1>1, <1>2, <2>3, BuilderIsAlone DEF Building
      <4>3. thread'[p]["rpc"].pc # "idle" /\ thread'[p]["rpc"].rc = 0 => Building(p, "rpc")'
        BY <1>1, <1>2, <2>3, BuilderIsAlone DEF Building, ThreadId
      <4>4. journalsById'[p] = None
        BY <1>1, <1>2, BuilderIsAlone
      <4>5. QED BY <1>3, <2>3, <3>1, <4>1, <4>2, <4>3, <4>4 DEF OneJournal
    <3>3. HoldsLock(p)' /\ WriterOk(p)'
      BY <1>1, <2>2, <3>1 DEF HoldsLock, WriterOk
    <3>4. QED BY <3>2, <3>3 DEF JournalOk
  <2>5. ASSUME NEW q \in Process \ {p} PROVE JournalOk(q)'
    <3>1. JournalOk(q)
      BY DEF DirectoryOk, JournalOk
    <3>2. \A m \in Object : /\ objects'[q][m].alive = objects[q][m].alive
                            /\ objects'[q][m].state = objects[q][m].state
                            /\ objects'[q][m].writes # "nothing" => objects[q][m].writes # "nothing"
      BY <2>1, SeenWhereLogLost
    <3>3. \A u \in ThreadId : thread[q][u].pc # "idle" => thread[q][u].object \in Object
      BY InHand
    <3>4. OneJournal(q)'
      BY <1>1, <2>3, <3>1, <3>2, <3>3 DEF JournalOk, OneJournal, Building, ThreadId
    <3>5. HoldsLock(q)'
      BY <1>1, <2>3, <3>1, <3>2 DEF JournalOk, HoldsLock, Formatting
    <3>6. WriterOk(q)'
      BY <1>1, <2>2, <2>3, <3>1, <3>2 DEF JournalOk, WriterOk
    <3>7. QED BY <3>4, <3>5, <3>6 DEF JournalOk
  <2>6. QED BY <1>1, <2>1, <2>4, <2>5 DEF DirectoryOk, JournalOk
<1>6. QED BY <1>4, <1>5

LEMMA InsertWrites ==
  ASSUME TypeOK, LiveOk, DirectoryOk, NEW p \in Process, NEW t \in ThreadId, Insert(p, t)
  PROVE  DirectoryOk'
<1> DEFINE o == thread[p][t].object
<1>1. /\ Building(p, t) /\ Goto(p, t, "use", o, 0)
      /\ journalsById'[p] = o
      /\ \A q \in Process \ {p} : journalsById'[q] = journalsById[q]
      /\ UNCHANGED <<objects, lock, acked, log>>
  BY TypeParts DEF Insert, Building, At, RestTyped, dir, history
<1>2. JournalOk(p)
  BY DEF DirectoryOk, JournalOk
<1>3. /\ o \in Object
      /\ \A m \in Object : objects[p][m].writes = "nothing"
      /\ \A u \in ThreadId \ {t} : ~Building(p, u)
      /\ t = "http" =>
           thread[p]["rpc"].pc \in {"idle", "use"} /\
           (thread[p]["rpc"].pc = "use" => thread[p]["rpc"].rc # 0)
  BY <1>1, <1>2, BuilderIsAlone
<1>4. /\ thread'[p][t] = [pc |-> "use", object |-> o, rc |-> 0]
      /\ \A u \in ThreadId \ {t} : thread'[p][u] = thread[p][u]
      /\ \A q \in Process \ {p} : thread'[q] = thread[q]
  BY <1>1, GotoEffect
<1>5. OneJournal(p)'
  <2>1. \A u \in ThreadId : ~Building(p, u)'
    BY <1>3, <1>4 DEF Building
  <2>2. thread'[p]["rpc"].pc # "idle" /\ thread'[p]["rpc"].rc = 0 =>
          thread'[p]["rpc"].object = o
    BY <1>3, <1>4 DEF ThreadId
  <2>3. QED BY <1>1, <1>2, <2>1, <2>2 DEF JournalOk, OneJournal
<1>6. HoldsLock(p)'
  <2>1. ~Formatting(p)
    BY <1>1, <1>3 DEF Formatting, Building, ThreadId
  <2>2. \A u \in ThreadId : thread'[p][u].pc = "scan" => thread[p][u].pc = "scan"
    BY <1>4
  <2>3. QED BY <1>1, <1>2, <2>1, <2>2 DEF JournalOk, HoldsLock
<1>7. WriterOk(p)'
  BY <1>1, <1>3 DEF WriterOk
<1>8. \A q \in Process \ {p} : Elsewhere(q)
  BY <1>1, <1>4 DEF Elsewhere
<1>9. QED BY <1>1, <1>5, <1>6, <1>7, <1>8, OneDirectory DEF JournalOk, DirectoryOk

-----------------------------------------------------------------------------
(* The handlers *)

\* The RPC thread goes on; no journal is made or found.
LEMMA RpcMoves ==
  ASSUME TypeOK, LiveOk, NEW p \in Process, JournalOk(p),
         RpcHasJournal(p) \/ Formatting(p),
         NEW label, NEW o, NEW r, Goto(p, "rpc", label, o, r),
         label \notin {"create", "scan", "insert"},
         label # "idle" => o = thread[p]["rpc"].object,
         UNCHANGED journalsById,
         \A m \in Object : objects'[p][m].alive = objects[p][m].alive
  PROVE  /\ OneJournal(p)'
         /\ thread'[p]["rpc"].pc = label
         /\ \A u \in ThreadId : thread'[p][u].pc # "scan"
         /\ \A q \in Process \ {p} : thread'[q] = thread[q]
<1>1. /\ thread'[p]["rpc"] = [pc |-> label, object |-> o, rc |-> r]
      /\ \A u \in ThreadId \ {"rpc"} : thread'[p][u] = thread[p][u]
      /\ \A q \in Process \ {p} : thread'[q] = thread[q]
  BY GotoEffect DEF ThreadId
<1>2. /\ thread[p]["rpc"].object = journalsById[p]
      /\ \A u \in ThreadId : ~Building(p, u)
  BY HandlerHasMap
<1>3. \A u \in ThreadId : ~Building(p, u)'
  BY <1>1, <1>2 DEF Building
<1>4. OneJournal(p)'
  BY <1>1, <1>2, <1>3 DEF JournalOk, OneJournal
<1>5. QED BY <1>1, <1>3, <1>4 DEF Building

LEMMA ReplyWrites ==
  ASSUME TypeOK, LiveOk, DirectoryOk, NEW p \in Process, NEW t \in ThreadId,
         At(p, t, "use"), NEW r, Answer(p, t, r),
         UNCHANGED <<journalsById, objects, lock, acked, log>>
  PROVE  DirectoryOk'
<1>1. JournalOk(p)
  BY DEF DirectoryOk, JournalOk
<1>2. /\ thread'[p][t] = [pc |-> "idle", object |-> None, rc |-> r]
      /\ \A u \in ThreadId \ {t} : thread'[p][u] = thread[p][u]
      /\ \A q \in Process \ {p} : thread'[q] = thread[q]
  BY GotoEffect DEF Answer
<1>3. OneJournal(p)'
  BY <1>1, <1>2 DEF JournalOk, OneJournal, Building, ThreadId
<1>4. HoldsLock(p)'
  BY <1>1, <1>2 DEF JournalOk, HoldsLock, Formatting, ThreadId, At
<1>5. WriterOk(p)'
  BY <1>1, <1>2 DEF JournalOk, WriterOk, ThreadId, At
<1>6. \A q \in Process \ {p} : Elsewhere(q)
  BY <1>2 DEF Elsewhere
<1>7. QED BY <1>3, <1>4, <1>5, <1>6, OneDirectory DEF JournalOk, DirectoryOk

LEMMA StartLogSegmentWrites ==
  ASSUME TypeOK, LiveOk, DirectoryOk, NEW p \in Process, StartLogSegment(p)
  PROVE  DirectoryOk'
<1> DEFINE o == thread[p]["rpc"].object
<1>1. /\ RpcHasJournal(p) /\ Answer(p, "rpc", 0)
      /\ UNCHANGED <<journalsById, lock, acked>>
      /\ objects[p][o].state = "NORMAL" /\ log # "data"
      /\ objects' = [objects EXCEPT ![p][o].writes = "log"]
  BY DEF StartLogSegment, Mine, history
<1>2. JournalOk(p)
  BY DEF DirectoryOk, JournalOk
<1>3. o = journalsById[p] /\ o \in Object
  BY <1>1, <1>2, HandlerHasMap
<1>4. thread[p]["rpc"].pc = "use"
  BY <1>1 DEF RpcHasJournal, At
<1>5. lock = p
  BY <1>1, <1>2, <1>3, <1>4 DEF JournalOk, HoldsLock, Formatting
<1>6. /\ objects'[p][o] = [objects[p][o] EXCEPT !.writes = "log"]
      /\ \A m \in Object \ {o} : objects'[p][m] = objects[p][m]
      /\ \A q \in Process \ {p} : objects'[q] = objects[q]
  BY <1>1, <1>3, TypeParts DEF RestTyped
<1>7. /\ objects'[p][o].alive = objects[p][o].alive
      /\ objects'[p][o].writes = "log"
  <2>1. objects[p][o] \in Journals
    BY <1>3, TypeParts DEF RestTyped
  <2>2. QED BY <1>6, <2>1 DEF Journals
<1>8. /\ OneJournal(p)' /\ thread'[p]["rpc"].pc = "idle"
      /\ \A q \in Process \ {p} : thread'[q] = thread[q]
  BY <1>1, <1>2, <1>6, <1>7, RpcMoves DEF Answer
<1>9. HoldsLock(p)'
  BY <1>1, <1>5 DEF HoldsLock
<1>10. WriterOk(p)'
  <2>1. \A m \in Object : objects'[p][m].writes # "nothing" =>
          m = journalsById[p] /\ objects'[p][m].writes = "log"
    BY <1>2, <1>3, <1>4, <1>6, <1>7 DEF JournalOk, WriterOk
  <2>2. QED BY <1>1, <1>5, <1>8, <2>1 DEF WriterOk
<1>11. \A q \in Process \ {p} : Elsewhere(q)
  BY <1>1, <1>6, <1>8 DEF Elsewhere
<1>12. acked' => log' = "data"
  BY <1>1 DEF DirectoryOk
<1>13. QED BY <1>8, <1>9, <1>10, <1>11, <1>12, OneDirectory DEF JournalOk

\* The transaction goes to the log: the stream has not lost it.
LEMMA WriteTxnWrites ==
  ASSUME TypeOK, LiveOk, DirectoryOk, NEW p \in Process, WriteTxn(p)
  PROVE  DirectoryOk'
<1> DEFINE o == thread[p]["rpc"].object
<1>1. /\ RpcHasJournal(p) /\ Answer(p, "rpc", 0)
      /\ UNCHANGED <<journalsById, lock, objects>>
      /\ objects[p][o].writes # "nothing"
      /\ log' = IF objects[p][o].writes = "log" THEN "data" ELSE log
  BY DEF WriteTxn, Mine, history
<1>2. JournalOk(p)
  BY DEF DirectoryOk, JournalOk
<1>3. o = journalsById[p] /\ o \in Object
  BY <1>1, <1>2, HandlerHasMap
<1>4. thread[p]["rpc"].pc = "use"
  BY <1>1 DEF RpcHasJournal, At
<1>5. log' = "data"
  BY <1>1, <1>2, <1>3, <1>4 DEF JournalOk, WriterOk
<1>6. /\ OneJournal(p)' /\ thread'[p]["rpc"].pc = "idle"
      /\ \A u \in ThreadId : thread'[p][u].pc # "scan"
      /\ \A q \in Process \ {p} : thread'[q] = thread[q]
  BY <1>1, <1>2, RpcMoves DEF Answer
<1>7. HoldsLock(p)'
  BY <1>1, <1>2, <1>4, <1>6 DEF JournalOk, HoldsLock, Formatting
<1>8. WriterOk(p)'
  BY <1>1, <1>2, <1>4, <1>6 DEF JournalOk, WriterOk
<1>9. \A q \in Process \ {p} : Elsewhere(q)
  BY <1>1, <1>6 DEF Elsewhere
<1>10. QED BY <1>5, <1>6, <1>7, <1>8, <1>9, OneDirectory DEF JournalOk

LEMMA FormatUnlockWrites ==
  ASSUME TypeOK, LiveOk, DirectoryOk, NEW p \in Process, FormatUnlock(p)
  PROVE  DirectoryOk'
<1>1. /\ RpcHasJournal(p)
      /\ Goto(p, "rpc", "clear", thread[p]["rpc"].object, 0)
      /\ UNCHANGED <<journalsById, objects, acked, log>>
      /\ lock' = lock \/ lock = p
  BY DEF FormatUnlock
<1>2. JournalOk(p)
  BY DEF DirectoryOk, JournalOk
<1>3. /\ OneJournal(p)' /\ thread'[p]["rpc"].pc = "clear"
      /\ \A q \in Process \ {p} : thread'[q] = thread[q]
  BY <1>1, <1>2, RpcMoves
<1>4. HoldsLock(p)'
  BY <1>3 DEF HoldsLock, Formatting
<1>5. WriterOk(p)'
  BY <1>1, <1>2, <1>3 DEF JournalOk, WriterOk
<1>6. \A q \in Process \ {p} : Elsewhere(q)
  BY <1>1, <1>3 DEF Elsewhere
<1>7. QED BY <1>1, <1>3, <1>4, <1>5, <1>6, OneDirectory DEF JournalOk, DirectoryOk

\* What is removed was written by nobody, or the removal is a disturbance.
LEMMA FormatClearWrites ==
  ASSUME TypeOK, LiveOk, DirectoryOk, NEW p \in Process, FormatClear(p), ~disturbed'
  PROVE  DirectoryOk'
<1>1. /\ Formatting(p)
      /\ Goto(p, "rpc", "version", thread[p]["rpc"].object, 0)
      /\ UNCHANGED <<journalsById, lock>>
      /\ ~acked'
      /\ objects' = LogLost
  BY DEF FormatClear, At, Formatting
<1>2. \A q \in Process, o \in Object : objects[q][o].writes = "nothing"
  BY DEF FormatClear
<1>3. \A q \in Process, o \in Object :
        /\ objects'[q][o].alive = objects[q][o].alive
        /\ objects'[q][o].state = objects[q][o].state
        /\ objects'[q][o].writes = "nothing"
  BY <1>1, <1>2, SeenWhereLogLost
<1>4. ASSUME NEW q \in Process PROVE JournalOk(q)
  BY DEF DirectoryOk, JournalOk
<1>5. /\ OneJournal(p)' /\ thread'[p]["rpc"].pc = "version"
      /\ \A q \in Process \ {p} : thread'[q] = thread[q]
  BY <1>1, <1>3, <1>4, RpcMoves
<1>6. JournalOk(p)'
  BY <1>3, <1>5 DEF JournalOk, HoldsLock, WriterOk, Formatting
<1>7. ASSUME NEW q \in Process \ {p} PROVE JournalOk(q)'
  <2>1. \A u \in ThreadId : thread[q][u].pc # "idle" => thread[q][u].object \in Object
    BY InHand
  <2>2. OneJournal(q)'
    BY <1>1, <1>3, <1>4, <1>5, <2>1 DEF JournalOk, OneJournal, Building, ThreadId
  <2>3. HoldsLock(q)'
    BY <1>1, <1>3, <1>4, <1>5 DEF JournalOk, HoldsLock, Formatting
  <2>4. WriterOk(q)'
    BY <1>3 DEF WriterOk
  <2>5. QED BY <2>2, <2>3, <2>4 DEF JournalOk
<1>8. QED BY <1>1, <1>6, <1>7 DEF DirectoryOk, JournalOk

LEMMA FormatWriteVersionWrites ==
  ASSUME TypeOK, LiveOk, DirectoryOk, NEW p \in Process, FormatWriteVersion(p)
  PROVE  DirectoryOk'
<1>1. /\ Formatting(p) /\ thread[p]["rpc"].pc = "version"
      /\ Goto(p, "rpc", "relock", thread[p]["rpc"].object, 0)
      /\ UNCHANGED <<journalsById, lock, objects, acked, log>>
  BY DEF FormatWriteVersion, At, Formatting, history
<1>2. JournalOk(p)
  BY DEF DirectoryOk, JournalOk
<1>3. /\ OneJournal(p)' /\ thread'[p]["rpc"].pc = "relock"
      /\ \A q \in Process \ {p} : thread'[q] = thread[q]
  BY <1>1, <1>2, RpcMoves
<1>4. HoldsLock(p)'
  BY <1>3 DEF HoldsLock, Formatting
<1>5. WriterOk(p)'
  BY <1>1, <1>2 DEF JournalOk, WriterOk
<1>6. \A q \in Process \ {p} : Elsewhere(q)
  BY <1>1, <1>3 DEF Elsewhere
<1>7. QED BY <1>1, <1>3, <1>4, <1>5, <1>6, OneDirectory DEF JournalOk, DirectoryOk

LEMMA FormatRelockWrites ==
  ASSUME TypeOK, LiveOk, DirectoryOk, NEW p \in Process, FormatRelock(p)
  PROVE  DirectoryOk'
<1> DEFINE o == thread[p]["rpc"].object
<1>1. /\ Formatting(p) /\ thread[p]["rpc"].pc = "relock"
      /\ lock' = p /\ lock \in {None, p}
      /\ UNCHANGED <<journalsById, acked, log>>
  BY DEF FormatRelock, At, Formatting, Lock, Lockable
<1>2. PICK r \in {0, -1} : Answer(p, "rpc", r)
  BY DEF FormatRelock
<1>3. PICK s \in State : objects' = [objects EXCEPT
        ![p][o] = [@ EXCEPT !.state = s, !.lockFileFD = FreeFd(p)]]
  BY DEF FormatRelock, State
<1>4. JournalOk(p)
  BY DEF DirectoryOk, JournalOk
<1>5. o \in Object
  BY <1>1, <1>4, HandlerHasMap
<1>6. /\ objects'[p][o] = [objects[p][o] EXCEPT !.state = s, !.lockFileFD = FreeFd(p)]
      /\ \A m \in Object \ {o} : objects'[p][m] = objects[p][m]
      /\ \A q \in Process \ {p} : objects'[q] = objects[q]
  BY <1>3, <1>5, TypeParts DEF RestTyped
<1>7. /\ objects'[p][o].alive = objects[p][o].alive
      /\ objects'[p][o].writes = objects[p][o].writes
  <2>1. objects[p][o] \in Journals
    BY <1>5, TypeParts DEF RestTyped
  <2>2. QED BY <1>6, <2>1 DEF Journals
<1>8. /\ OneJournal(p)' /\ \A q \in Process \ {p} : thread'[q] = thread[q]
  <2>1. \A m \in Object : objects'[p][m].alive = objects[p][m].alive
    BY <1>6, <1>7
  <2>2. Goto(p, "rpc", "idle", None, r)
    BY <1>2 DEF Answer
  <2>3. QED BY <1>1, <1>4, <2>1, <2>2, RpcMoves
<1>9. HoldsLock(p)'
  BY <1>1 DEF HoldsLock
<1>10. WriterOk(p)'
  <2>1. \A m \in Object : objects[p][m].writes = "nothing"
    BY <1>1, <1>4 DEF JournalOk, WriterOk
  <2>2. \A m \in Object : objects'[p][m].writes = "nothing"
    BY <1>6, <1>7, <2>1
  <2>3. QED BY <2>2 DEF WriterOk
<1>11. \A q \in Process \ {p} : Elsewhere(q)
  BY <1>1, <1>6, <1>8, ProcessAssumption DEF Elsewhere
<1>12. QED BY <1>1, <1>8, <1>9, <1>10, <1>11, OneDirectory DEF JournalOk, DirectoryOk

-----------------------------------------------------------------------------
LEMMA ExitWrites ==
  ASSUME TypeOK, LiveOk, DirectoryOk, NEW p \in Process, Exit(p)
  PROVE  DirectoryOk'
<1>1. /\ UNCHANGED <<thread, journalsById, lock, acked, log>>
      /\ thread[p]["rpc"].pc = "idle"
  BY DEF Exit, At, dir, history
<1>2. JournalOk(p)
  BY DEF DirectoryOk, JournalOk
<1>3. ASSUME NEW q \in Process, NEW m \in Object
      PROVE  /\ objects'[q][m].state = objects[q][m].state
             /\ objects'[q][m].writes = objects[q][m].writes
             /\ objects'[q][m].alive => objects[q][m].alive
             /\ q # p \/ m # journalsById[p] => objects'[q][m] = objects[q][m]
  <2>1. objects[q][m] \in Journals
    BY TypeParts DEF RestTyped
  <2>2. objects'[q][m] = IF q = p /\ m = journalsById[p]
                         THEN [objects[q][m] EXCEPT !.alive = FALSE]
                         ELSE objects[q][m]
    BY TypeParts DEF Exit, RestTyped
  <2>3. QED BY <2>1, <2>2 DEF Journals
<1>4. OneJournal(p)'
  <2>1. \A t \in ThreadId : Building(p, t) => thread[p][t].object \in Object
    BY InHand DEF Building
  <2>2. ASSUME NEW t \in ThreadId, Building(p, t)'
        PROVE  journalsById'[p] = None /\ objects'[p][thread'[p][t].object].alive
    <3>1. /\ Building(p, t) /\ journalsById[p] = None
          /\ objects[p][thread[p][t].object].alive
      BY <1>1, <1>2, <2>2 DEF JournalOk, OneJournal, Building
    <3>2. QED BY <1>1, <1>3, <2>1, <3>1, ProcessAssumption
  <2>3. QED BY <1>1, <1>2, <1>3, <2>2 DEF JournalOk, OneJournal
<1>5. HoldsLock(p)'
  BY <1>1, <1>2, <1>3 DEF JournalOk, HoldsLock, Formatting
<1>6. WriterOk(p)'
  BY <1>1, <1>2, <1>3 DEF JournalOk, WriterOk
<1>7. \A q \in Process \ {p} : objects'[q] = objects[q]
  BY TypeParts DEF Exit, RestTyped
<1>8. \A q \in Process \ {p} : Elsewhere(q)
  BY <1>1, <1>7 DEF Elsewhere
<1>9. QED BY <1>1, <1>4, <1>5, <1>6, <1>8, OneDirectory DEF JournalOk, DirectoryOk

LEMMA DieWrites ==
  ASSUME TypeOK, DirectoryOk, NEW p \in Process, Die(p)
  PROVE  DirectoryOk'
<1>1. /\ thread'[p] = NoThreads /\ objects'[p] = NoObjects
      /\ UNCHANGED <<acked, log>>
      /\ lock' = lock \/ lock = p
      /\ \A q \in Process \ {p} :
           /\ thread'[q] = thread[q] /\ objects'[q] = objects[q]
           /\ journalsById'[q] = journalsById[q]
  BY TypeParts DEF Die, ThreadsTyped, RestTyped
<1>2. JournalOk(p)'
  <2>1. \A t \in ThreadId : thread'[p][t].pc = "idle"
    BY <1>1 DEF NoThreads, Idle, ThreadId
  <2>2. \A o \in Object : /\ ~objects'[p][o].alive
                          /\ objects'[p][o].state # "NORMAL"
                          /\ objects'[p][o].writes = "nothing"
    BY <1>1 DEF NoObjects, Unmade
  <2>3. QED BY <2>1, <2>2
           DEF JournalOk, OneJournal, HoldsLock, WriterOk, Building, ThreadId
<1>3. \A q \in Process \ {p} : Elsewhere(q)
  BY <1>1 DEF Elsewhere
<1>4. QED BY <1>1, <1>2, <1>3, OneDirectory DEF DirectoryOk

LEMMA InitWrites == Init => WritesOk
<1> SUFFICES ASSUME Init PROVE DirectoryOk
  BY DEF WritesOk
<1>1. ASSUME NEW p \in Process PROVE JournalOk(p)
  <2>1. \A t \in ThreadId : thread[p][t].pc = "idle"
    BY DEF Init, NoThreads, Idle, ThreadId
  <2>2. \A o \in Object : /\ ~objects[p][o].alive
                          /\ objects[p][o].state # "NORMAL"
                          /\ objects[p][o].writes = "nothing"
    BY DEF Init, NoObjects, Unmade
  <2>3. QED BY <2>1, <2>2
           DEF JournalOk, OneJournal, HoldsLock, WriterOk, Building, ThreadId
<1>2. QED BY <1>1 DEF Init, DirectoryOk, JournalOk

LEMMA GetOrCreateWrites ==
  ASSUME TypeOK, LiveOk, WritesOk, NEW p \in Process, NEW t \in ThreadId,
         GetOrCreateJournal(p, t), ~disturbed'
  PROVE  DirectoryOk'
<1>1. CASE Miss(p, t)
  <2>1. ~disturbed
    BY <1>1 DEF Miss
  <2>2. QED BY <1>1, <2>1, MissWrites DEF WritesOk
<1>2. CASE ~Miss(p, t)
  <2>1. ~disturbed
    BY <1>2 DEF GetOrCreateJournal, Find, CreateOnNothing, CreateLockedOut,
       CreateOnTornVersion, CreateOnDirectory, Scan, Insert, history
  <2>2. QED BY <1>2, <2>1, FindWrites, CreateWrites, ScanWrites, InsertWrites
           DEF WritesOk, GetOrCreateJournal
<1>3. QED BY <1>1, <1>2

LEMMA FormatWrites ==
  ASSUME TypeOK, LiveOk, WritesOk, NEW p \in Process, Format(p), ~disturbed'
  PROVE  DirectoryOk'
<1>1. CASE FormatUnlock(p)
  BY <1>1, FormatUnlockWrites DEF WritesOk, FormatUnlock
<1>2. CASE FormatClear(p)
  <2>1. ~disturbed
    BY <1>2 DEF FormatClear
  <2>2. QED BY <1>2, <2>1, FormatClearWrites DEF WritesOk
<1>3. CASE FormatWriteVersion(p)
  BY <1>3, FormatWriteVersionWrites DEF WritesOk, FormatWriteVersion, history
<1>4. CASE FormatRelock(p)
  <2>1. ~disturbed
    BY <1>4 DEF FormatRelock
  <2>2. QED BY <1>4, <2>1, FormatRelockWrites DEF WritesOk
<1>5. ~FormatClearFails(p) /\ ~FormatLockedOut(p)
  BY DEF FormatClearFails, FormatLockedOut
<1>6. QED BY <1>1, <1>2, <1>3, <1>4, <1>5 DEF Format

LEMMA StepWrites == TypeOK /\ LiveOk /\ WritesOk /\ [Next]_vars => WritesOk'
<1> SUFFICES ASSUME TypeOK, LiveOk, WritesOk, [Next]_vars, ~disturbed'
             PROVE  DirectoryOk'
  BY DEF WritesOk
<1>1. ASSUME NEW p \in Process, Reply(p) PROVE DirectoryOk'
  BY <1>1, ReplyWrites DEF Reply, WritesOk, ThreadId, dir, history
<1>2. ASSUME NEW p \in Process, HttpReply(p) PROVE DirectoryOk'
  BY <1>2, ReplyWrites DEF HttpReply, WritesOk, ThreadId, dir, history
<1>3. ASSUME NEW p \in Process, StartLogSegment(p) PROVE DirectoryOk'
  <2>1. ~disturbed
    BY <1>3 DEF StartLogSegment, history
  <2>2. QED BY <1>3, <2>1, StartLogSegmentWrites DEF WritesOk
<1>4. ASSUME NEW p \in Process, WriteTxn(p) PROVE DirectoryOk'
  <2>1. ~disturbed
    BY <1>4 DEF WriteTxn
  <2>2. QED BY <1>4, <2>1, WriteTxnWrites DEF WritesOk
<1>5. ASSUME NEW p \in Process, OpenSocket(p) \/ CloseSocket(p) \/ Start(p)
      PROVE  DirectoryOk'
  BY <1>5, SameDirectory DEF OpenSocket, CloseSocket, Start, WritesOk, dir, history
<1>6. ASSUME NEW p \in Process, Exit(p) PROVE DirectoryOk'
  <2>1. ~disturbed
    BY <1>6 DEF Exit, history
  <2>2. QED BY <1>6, <2>1, ExitWrites DEF WritesOk
<1>7. ASSUME NEW p \in Process, Die(p) PROVE DirectoryOk'
  <2>1. ~disturbed
    BY <1>7 DEF Die
  <2>2. QED BY <1>7, <2>1, DieWrites DEF WritesOk
<1>8. CASE UNCHANGED vars
  BY <1>8, SameDirectory DEF WritesOk, vars, dir, history
<1>9. QED BY <1>1, <1>2, <1>3, <1>4, <1>5, <1>6, <1>7, <1>8, GetOrCreateWrites,
         FormatWrites DEF Next, ThreadId
-----------------------------------------------------------------------------
NodeInv == TypeOK /\ LockOk /\ LiveOk /\ WritesOk

\* A process that has found VERSION holds the lock, what its threads and its map
\* have in hand is alive, and, as long as nothing is disturbed, only the journal
\* of the map writes, with the lock: inductive together.
THEOREM NodeInvariant == Spec => []NodeInv
<1>1. Init => NodeInv
  BY InitTyped, InitLock, InitLive, InitWrites DEF NodeInv
<1>2. NodeInv /\ [Next]_vars => NodeInv'
  BY StepTyped, StepKeepsLock, StepLive, StepWrites DEF NodeInv
<1>3. QED BY <1>1, <1>2, PTL DEF Spec

\* The types of module JournalNode, for any processes and bounds.
THEOREM NodeTypeCorrect == Spec => []TypeOK
BY NodeInvariant, PTL DEF NodeInv

\* JNStorage.cpp:121: two processes never both serve a formatted directory that
\* neither has formatted, whatever crashes, refusals and formats there are.
THEOREM LockGuardsDirectory == Spec => []LockedWhileServing
<1>1. NodeInv => LockedWhileServing
  <2> SUFFICES ASSUME NodeInv, NEW p \in Process,
                      journalsById[p] # None,
                      objects[p][journalsById[p]].state = "NORMAL", ~formatted[p]
               PROVE  lock = p
    BY DEF LockedWhileServing
  <2>1. journalsById[p] \in Object
    BY DEF NodeInv, TypeOK
  <2>2. QED BY <2>1 DEF NodeInv, LockOk, Formatless
<1>2. QED BY <1>1, NodeInvariant, PTL

\* JournalNodeRpcServer.cpp: a handler that looked at the result of
\* getOrCreateJournal works on a journal that no other thread deletes.
THEOREM RpcNeverDangles == Spec => []RpcUsesLiveJournal
<1>1. NodeInv => RpcUsesLiveJournal
  BY DEF NodeInv, LiveOk, ProcessOk, HandOk, StageOk, RpcUsesLiveJournal, Mine,
         ThreadId
<1>2. QED BY <1>1, NodeInvariant, PTL

\* JournalNodeHttpServer.cpp:64: the HTTP thread uses a deleted journal only
\* where its construction failed or the process is ending.
THEOREM HttpDanglesOnlyOnFailure == Spec => []HttpUsesDeadOnlyIfFailed
<1>1. NodeInv => HttpUsesDeadOnlyIfFailed
  <2> SUFFICES ASSUME NodeInv, NEW p \in Process, thread[p]["http"].pc = "use",
                      ~Mine(p, "http").alive, thread[p]["http"].rc = 0
               PROVE  stage[p] = "exiting"
    BY DEF HttpUsesDeadOnlyIfFailed
  <2>1. HandOk(p, "http") /\ StageOk(p)
    BY DEF NodeInv, LiveOk, ProcessOk, ThreadId
  <2>2. stage[p] \in {"running", "exiting", "down"}
    BY DEF NodeInv, TypeOK
  <2>3. QED BY <2>1, <2>2 DEF HandOk, StageOk, Mine
<1>2. QED BY <1>1, NodeInvariant, PTL

\* An acknowledged transaction is in the log of the directory, whatever crashes,
\* restarts and moves of empty logs there are, as long as no process makes a
\* second journal object (JournalNode.cpp:41) and no format removes a log that
\* is written or fails (JNStorage.cpp:63).
THEOREM AckedStaysInLog == Spec => []AckedIsInLog
<1>1. NodeInv => AckedIsInLog
  BY DEF NodeInv, TypeOK, WritesOk, DirectoryOk, AckedIsInLog
<1>2. QED BY <1>1, NodeInvariant, PTL
=============================================================================
