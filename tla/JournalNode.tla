----------------------------- MODULE JournalNode ----------------------------
(***************************************************************************)
(* The process around the journals: src/src/JournalNode.cpp with the RPC   *)
(* handlers of JournalNodeRpcServer.cpp, the constructor of Journal and    *)
(* the storage directory with its lock (JNStorage.cpp, JNStorage.h).       *)
(*                                                                         *)
(* Every request names a journal, and getOrCreateJournal finds it in the   *)
(* map or constructs it.  The RPC thread and the HTTP thread do so without *)
(* a lock, so both may construct the same journal; a constructor locks the *)
(* directory, reads VERSION and moves an empty log aside.  One directory   *)
(* may be configured for several processes: in_use.lock decides between    *)
(* them.  It is a POSIX lock: it belongs to the process, and goes when the *)
(* process closes any descriptor of the file.                              *)
(*                                                                         *)
(* There is one journal, with one log; what its handlers do with it is in  *)
(* module Journal, here they only begin, extend and read it.               *)
(***************************************************************************)
EXTENDS Integers, FiniteSets, FiniteSetsExt

CONSTANTS
  Process,      \* processes configured with the directory
  Threads,      \* Threads[p]: which of "rpc" and "http" process p runs
  Object,       \* identities of the Journal objects of a process, numbers
  Fd,           \* descriptor numbers of a process
  MaxFormats,   \* how many format calls are made, at most
  MaxSockets,   \* how many sockets the HTTP thread opens, at most
  Faults,       \* which of "crash" and "disk" may happen
  None          \* nobody, no journal

ASSUME ProcessAssumption ==
  /\ None \notin Process /\ None \notin Object
  /\ Threads \in [Process -> SUBSET {"rpc", "http"}]

ASSUME NumberAssumption ==
  /\ Object \subseteq Nat /\ Fd \subseteq Nat \ {0}
  /\ IsFiniteSet(Object) /\ IsFiniteSet(Fd)
  /\ MaxFormats \in Nat /\ MaxSockets \in Nat

VARIABLES
  \* the directory
  dirExists,    \* the journal's directory exists
  version,      \* current/VERSION: "absent", "torn" or "written"
  log,          \* the log in progress: "none", "empty" or "data"
  lock,         \* the process that holds in_use.lock, or None
  \* the processes
  fds,          \* [process][fd] what the descriptor is open on
  journalsById, \* [process] the journal in the map, or None
  objects,      \* [process][object] the Journal objects
  thread,       \* [process][thread] what the thread does
  stage,        \* [process] "running", "exiting" or "down"
  formats,      \* how many format calls were begun
  sockets,      \* how many sockets were opened
  \* history
  formatted,    \* [process] it has begun a format since it started
  acked,        \* a transaction was acknowledged since the last format
  disturbed     \* a second object was made, a log was formatted away while
                \* it was written, or a format failed

dir      == <<dirExists, version, log, lock>>
counters == <<formats, sockets>>
history  == <<formatted, acked, disturbed>>
vars     == <<dir, fds, journalsById, objects, thread, stage, counters, history>>

State == {"NON_EXISTENT", "NOT_FORMATTED", "NORMAL"}

\* An object not made yet.
Unmade == [alive |-> FALSE, made |-> FALSE, state |-> "NON_EXISTENT",
           lockFileFD |-> 0, writes |-> "nothing"]

Idle == [pc |-> "idle", object |-> None, rc |-> 0]

\* Types; a thread has a journal in hand exactly while it handles a request
\* (the local pointers of JournalNodeRpcServer.cpp and send_reply).
TypeOK ==
  /\ dirExists \in BOOLEAN
  /\ version \in {"absent", "torn", "written"}
  /\ log \in {"none", "empty", "data"}
  /\ lock \in Process \cup {None}
  /\ fds \in [Process -> [Fd -> {"closed", "lock", "socket"}]]
  /\ journalsById \in [Process -> Object \cup {None}]
  /\ objects \in [Process -> [Object ->
       [alive : BOOLEAN, made : BOOLEAN, state : State, lockFileFD : Fd \cup {0},
        writes : {"nothing", "log", "lostFile"}]]]
  /\ thread \in [Process -> [{"rpc", "http"} ->
       [pc : {"idle", "create", "scan", "insert", "use", "clear", "version",
              "relock"},
        object : Object \cup {None}, rc : {0, -1}]]]
  /\ \A p \in Process, t \in {"rpc", "http"} :
       thread[p][t].pc = "idle" <=> thread[p][t].object = None
  /\ stage \in [Process -> {"running", "exiting", "down"}]
  /\ formats \in 0..MaxFormats /\ sockets \in 0..MaxSockets
  /\ formatted \in [Process -> BOOLEAN]
  /\ acked \in BOOLEAN /\ disturbed \in BOOLEAN

NoObjects == [o \in Object |-> Unmade]
NoThreads == [t \in {"rpc", "http"} |-> Idle]
NoFds     == [f \in Fd |-> "closed"]

Init ==
  /\ dirExists \in BOOLEAN
  /\ version \in IF dirExists THEN {"absent", "torn", "written"} ELSE {"absent"}
  /\ log \in IF version = "written" THEN {"none", "empty"} ELSE {"none"}
  /\ lock = None
  /\ fds = [p \in Process |-> NoFds]
  /\ journalsById = [p \in Process |-> None]
  /\ objects = [p \in Process |-> NoObjects]
  /\ thread = [p \in Process |-> NoThreads]
  /\ stage = [p \in Process |-> "running"]
  /\ formats = 0 /\ sockets = 0
  /\ formatted = [p \in Process |-> FALSE]
  /\ acked = FALSE /\ disturbed = FALSE

-----------------------------------------------------------------------------
(* getOrCreateJournal *)

At(p, t, label) ==
  /\ t \in Threads[p]
  /\ stage[p] = "running" \/ (stage[p] = "exiting" /\ t = "http")
  /\ thread[p][t].pc = label

\* Thread t of process p goes to the label, with the object and the result.
Goto(p, t, label, o, result) ==
  thread' = [thread EXCEPT ![p][t] = [pc |-> label, object |-> o, rc |-> result]]

Mine(p, t) == objects[p][thread[p][t].object]

\* A request arrives and its journal is in the map.
Find(p, t) ==
  /\ At(p, t, "idle")
  /\ journalsById[p] # None
  /\ Goto(p, t, "use", journalsById[p], 0)
  /\ UNCHANGED <<dir, fds, journalsById, objects, stage, counters, history>>

\* It is not: the thread goes on to construct it.
Miss(p, t) ==
  /\ At(p, t, "idle")
  /\ journalsById[p] = None
  /\ \E o \in Object :
       /\ ~objects[p][o].made
       /\ \A older \in Object : ~objects[p][older].made => o <= older
       /\ Goto(p, t, "create", o, 0)
       /\ objects' = [objects EXCEPT
            ![p][o] = [@ EXCEPT !.made = TRUE, !.alive = TRUE]]
       /\ disturbed' = (disturbed \/ \E made \in Object : objects[p][made].alive)
  /\ UNCHANGED <<dir, fds, journalsById, stage, counters, formatted, acked>>

FreeFds(p) == {f \in Fd : fds[p][f] = "closed"}

\* open() returns the lowest descriptor that is free.
FreeFd(p) == Min(FreeFds(p))

\* Mutant: the lock is not asked for.
LockableAnyhow(p) == TRUE

\* try_to_acquire_lockfile opens in_use.lock and asks for the lock.
Lockable(p) == lock \in {None, p}

\* analyzeStorageDirectory, no directory: nothing is locked.
CreateOnNothing(p, t) ==
  /\ At(p, t, "create") /\ ~dirExists
  /\ Goto(p, t, "insert", thread[p][t].object, 0)
  /\ UNCHANGED <<dir, fds, journalsById, objects, stage, counters, history>>

\* Mutant: getOrCreateJournal does not report the failure.
CreateLockedOutUnnoticed(p, t) ==
  /\ At(p, t, "create") /\ dirExists /\ ~Lockable(p)
  /\ objects' = [objects EXCEPT ![p][thread[p][t].object].alive = FALSE]
  /\ Goto(p, t, "use", thread[p][t].object, 0)
  /\ UNCHANGED <<dir, fds, journalsById, stage, counters, history>>

\* The lock is with another process: the object is not initialized, and
\* getOrCreateJournal deletes it; the caller's pointer stays on it.
CreateLockedOut(p, t) ==
  /\ At(p, t, "create") /\ dirExists /\ ~Lockable(p)
  /\ objects' = [objects EXCEPT ![p][thread[p][t].object].alive = FALSE]
  /\ Goto(p, t, "use", thread[p][t].object, -1)
  /\ UNCHANGED <<dir, fds, journalsById, stage, counters, history>>

Lock(p) ==
  /\ FreeFds(p) # {}           \* bound of the model
  /\ fds' = [fds EXCEPT ![p][FreeFd(p)] = "lock"]
  /\ lock' = p

\* readProperties fails on a torn VERSION: the object is deleted, but its
\* destructor does not unlock.
CreateOnTornVersion(p, t) ==
  /\ At(p, t, "create") /\ dirExists /\ Lockable(p) /\ version = "torn"
  /\ Lock(p)
  /\ objects' = [objects EXCEPT ![p][thread[p][t].object].alive = FALSE]
  /\ Goto(p, t, "use", thread[p][t].object, -1)
  /\ UNCHANGED <<dirExists, version, log, journalsById, stage, counters, history>>

CreateOnDirectory(p, t) ==
  /\ At(p, t, "create") /\ dirExists /\ Lockable(p) /\ version # "torn"
  /\ Lock(p)
  /\ objects' = [objects EXCEPT ![p][thread[p][t].object] =
       [@ EXCEPT !.state = IF version = "written" THEN "NORMAL"
                                                  ELSE "NOT_FORMATTED",
                 !.lockFileFD = FreeFd(p)]]
  /\ Goto(p, t, "scan", thread[p][t].object, 0)
  /\ UNCHANGED <<dirExists, version, log, journalsById, stage, counters, history>>

\* Streams that are open on the log lose it: it was moved aside or removed.
LogLost ==
  [p \in Process |-> [o \in Object |->
     IF objects[p][o].writes = "log"
     THEN [objects[p][o] EXCEPT !.writes = "lostFile"] ELSE objects[p][o]]]

\* Mutant: a log with transactions is moved aside too.
IsMovedAsideAny == log # "none"

\* scanLog found no transaction in the log.
IsMovedAside == log = "empty"

\* The constructor's scanStorageForLatestEdits: an empty log is moved aside.
Scan(p, t) ==
  /\ At(p, t, "scan")
  /\ log' = IF IsMovedAside THEN "none" ELSE log
  /\ objects' = IF IsMovedAside THEN LogLost ELSE objects
  /\ Goto(p, t, "insert", thread[p][t].object, 0)
  /\ UNCHANGED <<dirExists, version, lock, fds, journalsById, stage, counters,
                 history>>

\* journalsById[jid] = journal, whatever is there by now.
Insert(p, t) ==
  /\ At(p, t, "insert")
  /\ journalsById' = [journalsById EXCEPT ![p] = thread[p][t].object]
  /\ Goto(p, t, "use", thread[p][t].object, 0)
  /\ UNCHANGED <<dir, fds, objects, stage, counters, history>>

-----------------------------------------------------------------------------
(* The RPC handlers *)

\* Mutant: the journal is kept for the next request.
AnswerKeeping(p, t, result) == Goto(p, t, "idle", thread[p][t].object, result)

\* The pointer to the journal is a local variable of the handler.
Answer(p, t, result) == Goto(p, t, "idle", None, result)

\* Mutant: the result of getOrCreateJournal is not looked at.
RpcHasAnyJournal(p) == At(p, "rpc", "use")

\* A handler goes on only if getOrCreateJournal returned 0.
RpcHasJournal(p) == At(p, "rpc", "use") /\ thread[p]["rpc"].rc = 0

\* getOrCreateJournal failed, or the handler changes nothing that is modelled
\* here: isFormatted, getJournalState, getEditLogManifest, a refusal.
Reply(p) ==
  /\ At(p, "rpc", "use")
  /\ Answer(p, "rpc", thread[p]["rpc"].rc)
  /\ UNCHANGED <<dir, fds, journalsById, objects, stage, counters, history>>

\* startLogSegment: the journal must be formatted, the log may be there empty.
StartLogSegment(p) ==
  /\ RpcHasJournal(p)
  /\ Mine(p, "rpc").state = "NORMAL" /\ log # "data"
  /\ log' = "empty"
  /\ objects' = [objects EXCEPT ![p][thread[p]["rpc"].object].writes = "log"]
  /\ Answer(p, "rpc", 0)
  /\ UNCHANGED <<dirExists, version, lock, fds, journalsById, stage, counters,
                 history>>

\* journal(): the transaction goes to the stream, wherever its file is now.
WriteTxn(p) ==
  /\ RpcHasJournal(p)
  /\ Mine(p, "rpc").state = "NORMAL" /\ Mine(p, "rpc").writes # "nothing"
  /\ log' = IF Mine(p, "rpc").writes = "log" THEN "data" ELSE log
  /\ acked' = TRUE
  /\ Answer(p, "rpc", 0)
  /\ UNCHANGED <<dirExists, version, lock, fds, journalsById, objects, stage,
                 counters, formatted, disturbed>>

\* format: setStorageInfo and unlock(), which closes lockFileFD if it ever was
\* set, and does not unset it.
FormatUnlock(p) ==
  LET fd == Mine(p, "rpc").lockFileFD IN
  /\ RpcHasJournal(p)
  /\ formats < MaxFormats
  /\ formats' = formats + 1
  /\ fds' = IF fd > 0 THEN [fds EXCEPT ![p][fd] = "closed"] ELSE fds
  /\ lock' = IF fd > 0 /\ fds[p][fd] = "lock" /\ lock = p THEN None ELSE lock
  /\ formatted' = [formatted EXCEPT ![p] = TRUE]
  /\ Goto(p, "rpc", "clear", thread[p]["rpc"].object, 0)
  /\ UNCHANGED <<dirExists, version, log, journalsById, objects, stage, sockets,
                 acked, disturbed>>

\* clearLogDirectory: everything in current goes; it is not asked who holds
\* the lock.
FormatClear(p) ==
  /\ At(p, "rpc", "clear")
  /\ dirExists' = TRUE /\ version' = "absent" /\ log' = "none"
  /\ objects' = LogLost
  /\ acked' = FALSE
  /\ disturbed' = (disturbed \/ \E q \in Process, o \in Object :
                                    objects[q][o].writes # "nothing")
  /\ Goto(p, "rpc", "version", thread[p]["rpc"].object, 0)
  /\ UNCHANGED <<lock, fds, journalsById, stage, counters, formatted>>

\* It fails before it removed anything, and so does format.
FormatClearFails(p) ==
  /\ At(p, "rpc", "clear") /\ "disk" \in Faults
  /\ Answer(p, "rpc", -1)
  /\ disturbed' = TRUE
  /\ UNCHANGED <<dir, fds, journalsById, objects, stage, counters, formatted, acked>>

\* writeProperties and createPaxosDir.
FormatWriteVersion(p) ==
  /\ At(p, "rpc", "version")
  /\ version' = "written"
  /\ Goto(p, "rpc", "relock", thread[p]["rpc"].object, 0)
  /\ UNCHANGED <<dirExists, log, lock, fds, journalsById, objects, stage,
                 counters, history>>

\* analyzeStorage, to lock again and to read VERSION, which another process
\* may have torn meanwhile.
FormatRelock(p) ==
  /\ At(p, "rpc", "relock") /\ Lockable(p)
  /\ Lock(p)
  /\ objects' = [objects EXCEPT ![p][thread[p]["rpc"].object] =
       [@ EXCEPT !.state = IF version = "absent" THEN "NOT_FORMATTED"
                                                 ELSE "NORMAL",
                 !.lockFileFD = FreeFd(p)]]
  /\ Answer(p, "rpc", IF version = "torn" THEN -1 ELSE 0)
  /\ disturbed' = (disturbed \/ version = "torn")
  /\ UNCHANGED <<dirExists, version, log, journalsById, stage, counters, formatted,
                 acked>>

\* Another process has taken the lock since: format fails, and the journal
\* keeps its state.
FormatLockedOut(p) ==
  /\ At(p, "rpc", "relock") /\ ~Lockable(p)
  /\ Answer(p, "rpc", -1)
  /\ disturbed' = TRUE
  /\ UNCHANGED <<dir, fds, journalsById, objects, stage, counters, formatted, acked>>

Format(p) == FormatUnlock(p) \/ FormatClear(p) \/ FormatClearFails(p)
             \/ FormatWriteVersion(p) \/ FormatRelock(p) \/ FormatLockedOut(p)

-----------------------------------------------------------------------------
(* The HTTP thread *)

\* send_reply uses the pointer whatever getOrCreateJournal returned.
HttpReply(p) ==
  /\ At(p, "http", "use")
  /\ Answer(p, "http", thread[p]["http"].rc)
  /\ UNCHANGED <<dir, fds, journalsById, objects, stage, counters, history>>

OpenSocket(p) ==
  /\ At(p, "http", "idle")
  /\ sockets < MaxSockets /\ FreeFds(p) # {}   \* bounds of the model
  /\ sockets' = sockets + 1
  /\ fds' = [fds EXCEPT ![p][FreeFd(p)] = "socket"]
  /\ UNCHANGED <<dir, journalsById, objects, thread, stage, formats, history>>

CloseSocket(p) ==
  /\ At(p, "http", "idle")
  /\ \E f \in Fd : fds[p][f] = "socket" /\ fds' = [fds EXCEPT ![p][f] = "closed"]
  /\ UNCHANGED <<dir, journalsById, objects, thread, stage, counters, history>>

-----------------------------------------------------------------------------
(* The end of a process and its next start *)

\* Server::start calls exit(), which destroys global_jn: ~JournalNode deletes
\* the journals of the map while the HTTP thread still runs.
Exit(p) ==
  /\ At(p, "rpc", "idle") /\ stage[p] = "running"
  /\ stage' = [stage EXCEPT ![p] = "exiting"]
  /\ objects' = [objects EXCEPT ![p] = [o \in Object |->
       IF o = journalsById[p] THEN [objects[p][o] EXCEPT !.alive = FALSE]
       ELSE objects[p][o]]]
  /\ UNCHANGED <<dir, fds, journalsById, thread, counters, history>>

\* The process is gone: the kernel closes its descriptors and frees its lock.
\* A VERSION being written may be torn.
Die(p) ==
  /\ stage[p] = "exiting" \/ (stage[p] = "running" /\ "crash" \in Faults)
  /\ stage' = [stage EXCEPT ![p] = "down"]
  /\ lock' = IF lock = p THEN None ELSE lock
  /\ \/ UNCHANGED version
     \/ thread[p]["rpc"].pc = "version" /\ version' = "torn"
  /\ fds' = [fds EXCEPT ![p] = NoFds]
  /\ journalsById' = [journalsById EXCEPT ![p] = None]
  /\ objects' = [objects EXCEPT ![p] = NoObjects]
  /\ thread' = [thread EXCEPT ![p] = NoThreads]
  /\ formatted' = [formatted EXCEPT ![p] = FALSE]
  /\ UNCHANGED <<dirExists, log, counters, acked, disturbed>>

Start(p) ==
  /\ stage[p] = "down"
  /\ stage' = [stage EXCEPT ![p] = "running"]
  /\ UNCHANGED <<dir, fds, journalsById, objects, thread, counters, history>>

GetOrCreateJournal(p, t) ==
  \/ Find(p, t) \/ Miss(p, t)
  \/ CreateOnNothing(p, t) \/ CreateLockedOut(p, t)
  \/ CreateOnTornVersion(p, t) \/ CreateOnDirectory(p, t)
  \/ Scan(p, t) \/ Insert(p, t)

Next ==
  \E p \in Process :
    \/ \E t \in {"rpc", "http"} : GetOrCreateJournal(p, t)
    \/ Reply(p) \/ StartLogSegment(p) \/ WriteTxn(p) \/ Format(p)
    \/ HttpReply(p) \/ OpenSocket(p) \/ CloseSocket(p)
    \/ Exit(p) \/ Die(p) \/ Start(p)

Spec == Init /\ [][Next]_vars

-----------------------------------------------------------------------------
(* Properties *)

\* in_use.lock keeps its promise as long as a process does not format: while it
\* serves a formatted journal it holds the lock, so that no second process
\* does (JNStorage.cpp:121).  Another process may ask, be refused, format or
\* crash meanwhile.
LockedWhileServing ==
  \A p \in Process :
    LET o == journalsById[p] IN
    /\ o # None
    /\ objects[p][o].alive /\ objects[p][o].state = "NORMAL"
    /\ ~formatted[p]
    => lock = p

\* An RPC handler never works on a journal that getOrCreateJournal or another
\* thread has deleted (JournalNodeRpcServer.cpp: rc is looked at first).
RpcUsesLiveJournal ==
  \A p \in Process :
    \/ thread[p]["rpc"].pc \in {"clear", "version", "relock"}
    \/ thread[p]["rpc"].pc = "use" /\ thread[p]["rpc"].rc = 0
    => stage[p] = "running" /\ Mine(p, "rpc").alive

\* The HTTP thread, which looks at nothing, uses a deleted journal only if its
\* construction failed or the process is on its way out
\* (JournalNodeHttpServer.cpp:64).
HttpUsesDeadOnlyIfFailed ==
  \A p \in Process :
    thread[p]["http"].pc = "use" /\ ~Mine(p, "http").alive
    => thread[p]["http"].rc # 0 \/ stage[p] = "exiting"

\* An acknowledged transaction is in the log of the directory, through crashes,
\* restarts and the moving aside of empty logs, unless a second Journal object
\* or a format came between a writer and its file, or a failed format left the
\* journal serving without its lock (JournalNode.cpp:41, JNStorage.cpp:63).
AckedIsInLog == acked => log = "data" \/ disturbed

\* JNStorage.cpp:61, "This is a no-op if the storage is not currently locked":
\* unlock() closes nothing when the process does not hold the lock.
UnlockIsNoOp ==
  [][\A p \in Process : FormatUnlock(p) /\ lock # p => UNCHANGED fds]_vars
=============================================================================
