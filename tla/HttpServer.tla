----------------------------- MODULE HttpServer -----------------------------
(***************************************************************************)
(* The HTTP server that serves edit logs to other JournalNodes:            *)
(* src/src/JournalNodeHttpServer.cpp on top of src/util/mongoose.c.        *)
(*                                                                         *)
(* One thread runs the loop of ns_mgr_poll: call NS_POLL on every          *)
(* connection (which moves one block of a file into its send buffer and    *)
(* expires idle connections), select(), accept, read and write, then close *)
(* what is doomed.  A request for a log is answered in three steps that    *)
(* other threads may come between: list the directory, stat() the file,    *)
(* open() it.  The body then follows one block per round of the loop,      *)
(* while the RPC thread appends to, renames, truncates, replaces or        *)
(* removes the segment.                                                    *)
(*                                                                         *)
(* A client's bytes are tokens: the line of a request, the blank line that *)
(* ends it, and its body.  A file is a sequence of blocks; a block carries *)
(* the generation of the file, which a truncation starts anew.             *)
(***************************************************************************)
EXTENDS Integers, Sequences, FiniteSets, FiniteSetsExt, SequencesExt

CONSTANTS
  Conn,            \* slots for connections
  Clients,         \* how many clients connect, at most
  Request,         \* the requests clients send
  Stream,          \* what one client may send: a set of token sequences
  FirstFile,       \* the content of the segment when the server starts
  Fd, Inode,       \* descriptor numbers and inodes
  MaxFile,         \* the length a file grows to, at most
  AcceptedLength,  \* the lengths of the logs recovery brings
  MaxGeneration,   \* how often the segment is begun anew, at most
  MaxRequestSize,  \* MAX_REQUEST_SIZE, in tokens
  BlockSize,       \* IOBUF_SIZE, in blocks
  IdleTimeout,     \* MONGOOSE_IDLE_TIMEOUT_SECONDS, in ticks
  None,            \* no request, inode, connection or file name
  Malformed        \* a header parse_http_message refuses

Name == {"edits_inprogress", "edits"}
Generation == 0..MaxGeneration

ASSUME ConnAssumption == IsFiniteSet(Conn) /\ None \notin Conn
ASSUME NumberAssumption ==
  /\ Clients \in Nat /\ MaxFile \in Nat /\ MaxGeneration \in Nat
  /\ AcceptedLength \subseteq Nat \ {0}
  /\ MaxRequestSize \in Nat
  /\ BlockSize \in Nat \ {0} /\ IdleTimeout \in Nat
  /\ Fd \subseteq Nat \ {0} /\ Inode \subseteq Nat /\ Inode # {}
  /\ None \notin Inode /\ None \notin Name
ASSUME RequestAssumption ==
  /\ Request \subseteq [uri : {"getJournal", "other"}, method : {"GET", "HEAD"},
                        keepAlive : BOOLEAN, info : BOOLEAN, supported : BOOLEAN,
                        until : Nat \cup {None}, length : Nat]
  /\ None \notin Request /\ Malformed \notin Request /\ None # Malformed

Token == [part : {"line", "blank", "body"}, of : Request]

\* What a client writes for a request: its line, the blank line, its body.
Wire(r) ==
  <<[part |-> "line", of |-> r], [part |-> "blank", of |-> r]>>
    \o [i \in 1..r.length |-> [part |-> "body", of |-> r]]

ASSUME StreamAssumption ==
  Stream \subseteq Seq(Token) /\ FirstFile \in Seq({0})

VARIABLES
  \* the segment on disk, changed by the RPC thread
  dir,         \* [name] the inode, or None
  content,     \* [inode] the generation of every block
  generation,  \* of the blocks appended now
  \* the clients
  stream,      \* [conn] what the client has yet to send
  arrived,     \* [conn] what the kernel holds for the server to read
  gone,        \* [conn] the client closed its end
  accepted,    \* how many clients were accepted
  \* the server
  conn,        \* [conn] struct ns_connection and struct connection
  fds,         \* [fd] the inode a descriptor of the process is open on
  pc,          \* where the server thread is
  cur,         \* the connection it is reading, or None
  todo,        \* the connections NS_POLL has yet to reach
  readSet, writeSet,  \* what select() returned, less what was handled
  listening,   \* the listening socket is in place
  acceptable,  \* select() returned the listening socket
  path, size,  \* the name getLogFile returned, what stat() returned
  stop,        \* signal_received
  last,        \* this is the last poll, that of ns_mgr_free
  \* history
  since,       \* [conn] what befell the segment since it was looked at
  sent,        \* [conn] the blocks of the response so far
  outcome      \* [conn] how the last response to getJournal ended

disk    == <<dir, content, generation>>
clients == <<stream, arrived, gone, accepted>>
loop    == <<todo, readSet, writeSet, listening, acceptable, stop, last>>
history == <<since, sent, outcome>>
vars    == <<disk, clients, conn, fds, pc, cur, loop, path, size, history>>

Flag     == {"closeImmediately", "finishedSendingData"}
Endpoint == {"EP_NONE", "EP_USER", "EP_FILE"}

\* A slot without a connection: nothing allocated, nothing buffered.
Free == [open |-> FALSE, recv |-> <<>>, req |-> None, cl |-> 0,
         ep |-> "EP_NONE", fd |-> 0, off |-> 0, send |-> <<>>,
         flags |-> {}, idle |-> 0]

Open == {c \in Conn : conn[c].open}

TypeOK ==
  /\ dir \in [Name -> Inode \cup {None}]
  /\ content \in [Inode -> Seq(Generation)]
  /\ generation \in Generation
  /\ stream \in [Conn -> Seq(Token)] /\ arrived \in [Conn -> Seq(Token)]
  /\ gone \in [Conn -> BOOLEAN] /\ accepted \in 0..Clients
  /\ conn \in [Conn -> [open : BOOLEAN, recv : Seq(Token),
                        req : Request \cup {None}, cl : Nat, ep : Endpoint,
                        fd : Fd \cup {0}, off : Nat,
                        send : Seq({"head", "chunk", "block"}),
                        flags : SUBSET Flag, idle : 0..IdleTimeout + 1]]
  /\ fds \in [Fd -> Inode \cup {None}]
  /\ pc \in {"create", "poll", "io", "lookup", "stat", "open", "done"}
  /\ cur \in Conn \cup {None}
  /\ todo \subseteq Conn /\ readSet \subseteq Conn /\ writeSet \subseteq Conn
  /\ listening \in BOOLEAN /\ acceptable \in BOOLEAN
  /\ stop \in BOOLEAN /\ last \in BOOLEAN
  /\ path \in Name \cup {None} /\ size \in Nat
  /\ since \in [Conn -> SUBSET {"absent", "moved", "cut", "pastEnd"}]
  /\ sent \in [Conn -> Seq(Generation)]
  /\ outcome \in [Conn -> {"none", "complete", "short", "missing", "vanished"}]

Init ==
  /\ dir = [n \in Name |-> IF n = "edits_inprogress" THEN Min(Inode) ELSE None]
  /\ content = [i \in Inode |-> IF i = Min(Inode) THEN FirstFile ELSE <<>>]
  /\ generation = 0
  /\ stream = [c \in Conn |-> <<>>] /\ arrived = [c \in Conn |-> <<>>]
  /\ gone = [c \in Conn |-> FALSE] /\ accepted = 0
  /\ conn = [c \in Conn |-> Free] /\ fds = [f \in Fd |-> None]
  /\ pc = "create" /\ cur = None
  /\ todo = {} /\ readSet = {} /\ writeSet = {}
  /\ listening = FALSE /\ acceptable = FALSE /\ stop = FALSE /\ last = FALSE
  /\ path = None /\ size = 0
  /\ since = [c \in Conn |-> {}] /\ sent = [c \in Conn |-> <<>>]
  /\ outcome = [c \in Conn |-> "none"]

-----------------------------------------------------------------------------
(* What the RPC thread does to the segment meanwhile *)

\* A name appeared or went while the server was at one of the steps.
Moved(steps) == since' = [c \in Conn |->
                            IF c = cur /\ pc \in steps
                            THEN since[c] \cup {"moved"} ELSE since[c]]

Elsewhere == <<clients, conn, fds, pc, cur, loop, path, size, sent, outcome>>

\* journal(): records are appended to the file.
AppendBlock ==
  LET i == dir["edits_inprogress"] IN
  /\ i # None
  /\ Len(content[i]) < MaxFile
  /\ content' = [content EXCEPT ![i] = Append(@, generation)]
  /\ UNCHANGED <<dir, generation, since, Elsewhere>>

\* finalizeLogSegment(): the file is renamed, under the same inode; getLogFile
\* and it exclude one another with the lock of FileJournalManager.
RenameFinalized ==
  /\ dir["edits_inprogress"] # None /\ dir["edits"] = None
  /\ dir' = [dir EXCEPT !["edits"] = dir["edits_inprogress"],
                        !["edits_inprogress"] = None]
  /\ Moved({"stat", "open"})
  /\ UNCHANGED <<content, generation, Elsewhere>>

\* startLogSegment() over a log of one transaction: the file is truncated.
TruncateLog ==
  LET i == dir["edits_inprogress"] IN
  /\ i # None /\ Len(content[i]) <= 1
  /\ generation < MaxGeneration
  /\ generation' = generation + 1
  /\ content' = [content EXCEPT ![i] = <<>>]
  /\ since' = [c \in Conn |-> since[c] \cup {"cut"}]
  /\ UNCHANGED <<dir, Elsewhere>>

\* The first half of replaceFile(), or format(): the name goes, the inode
\* stays with those who have it open.
RemoveFile ==
  /\ \E n \in Name : dir[n] # None /\ dir' = [dir EXCEPT ![n] = None]
  /\ Moved({"lookup", "stat", "open"})
  /\ UNCHANGED <<content, generation, Elsewhere>>

\* The second half of replaceFile(): the log accepted by recovery takes the
\* name, under an inode of its own.
RenameAccepted ==
  /\ \A n \in Name : dir[n] = None
  /\ generation < MaxGeneration
  /\ generation' = generation + 1
  /\ \E i \in {j \in Inode : content[j] = <<>> /\ \A f \in Fd : fds[f] # j} :
     \E len \in AcceptedLength :
       /\ dir' = [dir EXCEPT !["edits_inprogress"] = i]
       /\ content' = [content EXCEPT ![i] = [b \in 1..len |-> generation + 1]]
  /\ Moved({"lookup", "stat", "open"})
  /\ UNCHANGED Elsewhere

RpcThread == AppendBlock \/ RenameFinalized \/ TruncateLog \/ RemoveFile
             \/ RenameAccepted

-----------------------------------------------------------------------------
(* The clients, the clock and the signal *)

Server == <<fds, pc, cur, todo, readSet, writeSet, listening, acceptable, last,
            path, size, sent, outcome>>

\* More of what the client wrote reaches the server's kernel.
Arrive(c) ==
  /\ conn[c].open /\ ~gone[c]
  /\ \E n \in 1..Len(stream[c]) :
       /\ arrived' = [arrived EXCEPT ![c] = @ \o SubSeq(stream[c], 1, n)]
       /\ stream' = [stream EXCEPT ![c] = SubSeq(@, n + 1, Len(@))]
  /\ UNCHANGED <<disk, gone, accepted, conn, stop, since, Server>>

\* The client closes its connection, before or after it sent everything.
Leave(c) ==
  /\ conn[c].open /\ ~gone[c]
  /\ gone' = [gone EXCEPT ![c] = TRUE]
  /\ UNCHANGED <<disk, stream, arrived, accepted, conn, stop, since, Server>>

\* time(): a tick without I/O on a connection, up to one more than the timeout.
Tick ==
  /\ conn' = [c \in Conn |->
                IF conn[c].open /\ conn[c].idle <= IdleTimeout
                THEN [conn[c] EXCEPT !.idle = @ + 1] ELSE conn[c]]
  /\ UNCHANGED <<disk, clients, stop, since, Server>>

\* signal_handler: SIGTERM or SIGINT.
Signal ==
  /\ ~stop
  /\ stop' = TRUE
  /\ UNCHANGED <<disk, clients, conn, since, Server>>

-----------------------------------------------------------------------------
(* A connection: mongoose's handling of what it received *)

\* get_request_len: where the header ends, 0 if it does not yet.
HeaderEnd(tokens) ==
  LET ends == {i \in DOMAIN tokens : tokens[i].part = "blank"}
  IN  IF ends = {} THEN 0 ELSE Min(ends)

\* parse_http_message: a header that does not begin with a request line is
\* refused.
Parse(header) == IF header[1].part = "line" THEN header[1].of ELSE Malformed

\* try_parse: a complete header moves from recv_iobuf to the request.
TryParse(k) ==
  LET end == HeaderEnd(k.recv)
      q   == Parse(SubSeq(k.recv, 1, end))
  IN  IF k.req # None \/ end = 0 THEN k
      ELSE [k EXCEPT !.recv = SubSeq(@, end + 1, Len(@)), !.req = q,
                     !.cl = IF q = Malformed THEN 0 ELSE q.length]

ShouldKeepAlive(k) ==
  /\ k.req \in Request
  /\ k.req.method = "GET" \/ k.ep = "EP_USER"
  /\ k.req.keepAlive

\* close_local_endpoint, but for the descriptor (see Release).  What was
\* received beyond the request goes with the buffer.
CloseLocalEndpoint(k) ==
  [k EXCEPT !.recv = <<>>, !.req = None, !.ep = "EP_NONE", !.fd = 0, !.cl = 0,
            !.off = 0,
            !.flags = IF ShouldKeepAlive(k) /\ k.ep \in {"EP_FILE", "EP_USER"}
                      THEN {}
                      ELSE IF k.send = <<>> THEN {"closeImmediately"}
                      ELSE {"finishedSendingData"}]

\* Mutant: the descriptor is closed only after a complete response.
ReleaseIfComplete(table, k) ==
  IF k.ep = "EP_FILE" /\ k.cl = 0 THEN [table EXCEPT ![k.fd] = None] ELSE table

\* The close() in close_local_endpoint.
Release(table, k) ==
  IF k.ep = "EP_FILE" THEN [table EXCEPT ![k.fd] = None] ELSE table

SendHttpError(k) == CloseLocalEndpoint([k EXCEPT !.send = Append(@, "head")])

WriteChunk(buffer) == Append(buffer, "chunk")

\* mg_send_status and mg_send_data of an empty body, then the terminating
\* chunk that call_request_handler adds.
SendStatus(k) ==
  CloseLocalEndpoint([k EXCEPT !.send = WriteChunk(WriteChunk(Append(@, "head")))])

IsBad(k) ==
  \/ k.req = Malformed
  \/ k.req = None /\ Len(k.recv) > MaxRequestSize
  \/ k.req \in Request /\ ~k.req.supported

\* num_bytes_recv >= cl + request_len: both sides count the header.
IsBuffered(k) == Len(k.recv) >= k.cl

\* open_local_endpoint(conn, 0): there is a handler for every URI.
ToUser(k) == IF k.ep = "EP_NONE" THEN [k EXCEPT !.ep = "EP_USER"] ELSE k

-----------------------------------------------------------------------------
(* The server thread: run_httpserver and ns_mgr_poll *)

Untouched == <<disk, clients>>

\* ns_open_listening_socket: socket(), bind() and listen() succeed, or not.
PortIsOpened == BOOLEAN

\* mg_set_option("listening_port"): the failure comes back as a message.
SetListeningPort == \E opened \in PortIsOpened : listening' = opened

\* mg_create_server, then the option; its result is not looked at.
CreateServer ==
  /\ pc = "create"
  /\ SetListeningPort
  /\ pc' = "poll"
  /\ UNCHANGED <<Untouched, conn, fds, cur, todo, readSet, writeSet, acceptable,
                 stop, last, path, size, history>>

\* Mutant: the buffer is never too full.
IsNeverFull(k) == FALSE

\* Enough waits to be sent.
IsFull(k) == Len(k.send) > 2 * BlockSize

\* Mutant: the file is read by its name, not by the descriptor.
FileByName(k) ==
  IF dir["edits_inprogress"] # None THEN content[dir["edits_inprogress"]]
  ELSE content[fds[k.fd]]

FileOf(k) == content[fds[k.fd]]

\* What read() returns: no more than is left to send.
NextPart(k) == Min({k.cl, BlockSize, Len(FileOf(k)) - k.off})

\* transfer_file_data: one block, unless enough is buffered; the response ends
\* when all that was promised is sent or the file has no more.
Transfer(c) ==
  LET k     == conn[c]
      n     == NextPart(k)
      moved == [k EXCEPT !.cl = @ - n, !.off = @ + n,
                         !.send = @ \o [i \in 1..n |-> "block"]]
  IN  IF IsFull(k) THEN
        UNCHANGED <<conn, fds, sent, outcome>>
      ELSE IF n <= 0 THEN
        /\ conn' = [conn EXCEPT ![c] = CloseLocalEndpoint(k)]
        /\ fds' = Release(fds, k)
        /\ outcome' = [outcome EXCEPT ![c] = IF k.cl = 0 THEN "complete" ELSE "short"]
        /\ UNCHANGED sent
      ELSE
        /\ sent' = [sent EXCEPT ![c] = @ \o SubSeq(FileOf(k), k.off + 1, k.off + n)]
        /\ IF moved.cl > 0 THEN
             /\ conn' = [conn EXCEPT ![c] = moved]
             /\ UNCHANGED <<fds, outcome>>
           ELSE
             /\ conn' = [conn EXCEPT ![c] = CloseLocalEndpoint(moved)]
             /\ fds' = Release(fds, k)
             /\ outcome' = [outcome EXCEPT ![c] = "complete"]

\* Mutant: connections do not expire.
IsNeverExpired(k) == FALSE

IsExpired(k) == k.idle > IdleTimeout

\* NS_POLL on a connection: the next block of its file.
PollTransfer(c) ==
  /\ pc = "poll" /\ c \in todo
  /\ conn[c].ep = "EP_FILE" /\ ~IsExpired(conn[c])
  /\ Transfer(c)
  /\ todo' = IF "closeImmediately" \in conn'[c].flags THEN todo ELSE todo \ {c}
  /\ UNCHANGED <<Untouched, pc, cur, readSet, writeSet, listening, acceptable,
                 stop, last, path, size, since>>

\* ns_close_conn: NS_CLOSE, which closes the endpoint, then the socket.
Drop(c) ==
  /\ conn' = [conn EXCEPT ![c] = Free]
  /\ fds' = Release(fds, conn[c])
  /\ stream' = [stream EXCEPT ![c] = <<>>]
  /\ arrived' = [arrived EXCEPT ![c] = <<>>]
  /\ gone' = [gone EXCEPT ![c] = FALSE]
  /\ since' = [since EXCEPT ![c] = {}]
  /\ sent' = [sent EXCEPT ![c] = <<>>]
  /\ outcome' = [outcome EXCEPT ![c] = "none"]

\* NS_POLL on a connection that was idle too long, or was doomed by the
\* transfer that ended with nothing left to send: it is closed at once.
PollClose(c) ==
  /\ pc = "poll" /\ c \in todo
  /\ IsExpired(conn[c]) \/ "closeImmediately" \in conn[c].flags
  /\ Drop(c)
  /\ todo' = todo \ {c}
  /\ UNCHANGED <<disk, accepted, pc, cur, readSet, writeSet, listening,
                 acceptable, stop, last, path, size>>

\* NS_POLL on any other connection.
PollNothing(c) ==
  /\ pc = "poll" /\ c \in todo
  /\ conn[c].ep # "EP_FILE" /\ ~IsExpired(conn[c])
  /\ "closeImmediately" \notin conn[c].flags
  /\ todo' = todo \ {c}
  /\ UNCHANGED <<Untouched, conn, fds, pc, cur, readSet, writeSet, listening,
                 acceptable, stop, last, path, size, history>>

\* select(): what is readable, and some of the connections with data to send.
Select ==
  /\ pc = "poll" /\ todo = {}
  /\ readSet' = {c \in Open : arrived[c] # <<>> \/ gone[c]}
  /\ writeSet' \in SUBSET {c \in Open : conn[c].send # <<>>}
  /\ acceptable' \in {FALSE, listening /\ accepted < Clients /\ Open # Conn}
  /\ pc' = "io"
  /\ UNCHANGED <<Untouched, conn, fds, cur, todo, listening, stop, last, path,
                 size, history>>

\* accept_conn and on_accept: one client per round.
Accept ==
  /\ pc = "io" /\ cur = None /\ acceptable
  /\ \E c \in Conn \ Open :
       /\ conn' = [conn EXCEPT ![c] = [Free EXCEPT !.open = TRUE]]
       /\ \E tokens \in Stream : stream' = [stream EXCEPT ![c] = tokens]
  /\ accepted' = accepted + 1
  /\ acceptable' = FALSE
  /\ UNCHANGED <<disk, arrived, gone, fds, pc, cur, todo, readSet, writeSet,
                 listening, stop, last, path, size, history>>

\* What one recv() puts into recv_iobuf, parsed.
Received(c) == TryParse([conn[c] EXCEPT !.recv = @ \o arrived[c], !.idle = 0])

Receiving(c) ==
  /\ pc = "io" /\ c \in readSet /\ cur \in {None, c}
  /\ arrived[c] # <<>>
  /\ arrived' = [arrived EXCEPT ![c] = <<>>]
  /\ cur' = c
  /\ UNCHANGED <<disk, stream, gone, accepted, todo, readSet, writeSet,
                 listening, acceptable, stop, last, path, size>>

\* on_recv_data: a bad request is answered and the connection closed.
RecvBad(c) ==
  /\ Receiving(c)
  /\ IsBad(Received(c))
  /\ conn' = [conn EXCEPT ![c] = SendHttpError(Received(c))]
  /\ UNCHANGED <<fds, pc, history>>

\* Nothing to do yet: the header or the body is incomplete, or a file is being
\* sent and what was received waits in the buffer.
RecvMore(c) ==
  LET k == Received(c) IN
  /\ Receiving(c)
  /\ ~IsBad(k)
  /\ k.req = None \/ k.ep = "EP_FILE" \/ ~IsBuffered(k)
  /\ conn' = [conn EXCEPT ![c] = IF k.req = None THEN k ELSE ToUser(k)]
  /\ UNCHANGED <<fds, pc, history>>

\* A request is complete and goes to ev_handler.
IsRequest(k) == ~IsBad(k) /\ k.req # None /\ k.ep # "EP_FILE" /\ IsBuffered(k)

\* ev_handler does not know the URI: open_local_endpoint(conn, 1) finds no
\* document root.
RecvUnknown(c) ==
  /\ Receiving(c)
  /\ IsRequest(Received(c)) /\ Received(c).req.uri # "getJournal"
  /\ conn' = [conn EXCEPT ![c] =
                SendHttpError([Received(c) EXCEPT !.ep = "EP_NONE"])]
  /\ UNCHANGED <<fds, pc, history>>

\* checkStorageInfo: the client expects another namespace.
RecvForeign(c) ==
  /\ Receiving(c)
  /\ IsRequest(Received(c)) /\ Received(c).req.uri = "getJournal"
  /\ ~Received(c).req.info
  /\ conn' = [conn EXCEPT ![c] = SendStatus(ToUser(Received(c)))]
  /\ UNCHANGED <<fds, pc, history>>

\* send_reply begins to list the directory.
RecvGetJournal(c) ==
  /\ Receiving(c)
  /\ IsRequest(Received(c)) /\ Received(c).req.uri = "getJournal"
  /\ Received(c).req.info
  /\ conn' = [conn EXCEPT ![c] = ToUser(Received(c))]
  /\ since' = [since EXCEPT ![c] = {}]
  /\ sent' = [sent EXCEPT ![c] = <<>>]
  /\ outcome' = [outcome EXCEPT ![c] = "none"]
  /\ pc' = "lookup"
  /\ UNCHANGED fds

\* Mutant: only the finalized name is looked for.
PresentFinalized == {n \in {"edits"} : dir[n] # None}

Present == {n \in Name : dir[n] # None}

AnsweringElsewhere == <<Untouched, cur, loop>>

\* getLogFile: a directory that replaceFile changes while it is read may show
\* either name of a file, both or none.
Lookup ==
  /\ pc = "lookup"
  /\ \E seen \in IF "moved" \in since[cur] THEN SUBSET Name ELSE {Present} :
       \/ /\ Cardinality(seen) = 1
          /\ path' \in seen
          /\ pc' = "stat"
          /\ UNCHANGED <<conn, since, outcome>>
       \/ /\ Cardinality(seen) # 1
          /\ conn' = [conn EXCEPT ![cur] = SendStatus(@)]
          /\ outcome' = [outcome EXCEPT ![cur] = "missing"]
          /\ since' = [since EXCEPT ![cur] =
                         IF \A n \in Name : dir[n] = None THEN @ \cup {"absent"} ELSE @]
          /\ pc' = "io"
          /\ UNCHANGED path
  /\ UNCHANGED <<AnsweringElsewhere, fds, size, sent>>

\* mg_send_file: the file is no longer there.
Vanished ==
  /\ pc \in {"stat", "open"} /\ dir[path] = None
  /\ conn' = [conn EXCEPT ![cur] = SendHttpError(@)]
  /\ outcome' = [outcome EXCEPT ![cur] = "vanished"]
  /\ pc' = "io"
  /\ path' = None /\ size' = 0
  /\ UNCHANGED <<AnsweringElsewhere, fds, since, sent>>

Stat ==
  /\ pc = "stat" /\ dir[path] # None
  /\ size' = Len(content[dir[path]])
  /\ since' = [since EXCEPT ![cur] = {}]
  /\ pc' = "open"
  /\ UNCHANGED <<AnsweringElsewhere, conn, fds, path, sent, outcome>>

\* Mutant: the index of the last block, not their number.
PromisedLastIndex(r, n) == n - 1

\* Mutant: one more than the file has.
PromisedOneMore(r, n) == n + 1

\* What Content-Length promises of n blocks; "Range: bytes=0-until" counts from
\* 0 to until, which n itself may be.
Promised(r, n) == IF r.until = None THEN n ELSE Min({r.until, n}) + 1

\* open_file_endpoint: the header promises what stat() saw.  For a HEAD the
\* descriptor is closed again and the connection ends after the header.
OpenFile ==
  LET k == conn[cur]
      f == Min({g \in Fd : fds[g] = None})
      n == Promised(k.req, size)
      h == [k EXCEPT !.send = Append(@, "head"), !.cl = n]
  IN
  /\ pc = "open" /\ dir[path] # None
  /\ \E g \in Fd : fds[g] = None       \* bound of the model
  /\ IF k.req.method = "HEAD" THEN
       /\ conn' = [conn EXCEPT ![cur] =
            [h EXCEPT !.ep = "EP_NONE", !.flags = @ \cup {"finishedSendingData"}]]
       /\ UNCHANGED <<fds, since>>
     ELSE
       /\ conn' = [conn EXCEPT ![cur] =
            [h EXCEPT !.ep = "EP_FILE", !.fd = f]]
       /\ fds' = [fds EXCEPT ![f] = dir[path]]
       /\ since' = [since EXCEPT ![cur] =
            IF k.req.until # None /\ k.req.until >= size
            THEN @ \cup {"pastEnd"} ELSE @]
  /\ pc' = "io"
  /\ path' = None /\ size' = 0
  /\ UNCHANGED <<AnsweringElsewhere, sent, outcome>>

\* recv() has no more: the connection is doomed if the client closed its end.
RecvEnd(c) ==
  /\ pc = "io" /\ c \in readSet /\ cur \in {None, c}
  /\ arrived[c] = <<>>
  /\ conn' = [conn EXCEPT ![c] =
        [conn[c] EXCEPT !.idle = 0,
           !.flags = IF gone[c] THEN @ \cup {"closeImmediately"} ELSE @]]
  /\ readSet' = readSet \ {c}
  /\ cur' = None
  /\ UNCHANGED <<Untouched, fds, pc, todo, writeSet, listening, acceptable,
                 stop, last, path, size, history>>

\* ns_write_to_socket: send() takes some of the buffer, or fails.
Write(c) ==
  /\ pc = "io" /\ cur = None /\ c \in writeSet /\ c \notin readSet
  /\ \/ \E n \in 1..Len(conn[c].send) :
          conn' = [conn EXCEPT ![c] =
            [conn[c] EXCEPT !.send = SubSeq(@, n + 1, Len(@)), !.idle = 0]]
     \/ /\ gone[c]
        /\ conn' = [conn EXCEPT ![c] =
            [conn[c] EXCEPT !.idle = 0, !.flags = @ \cup {"closeImmediately"}]]
  /\ writeSet' = writeSet \ {c}
  /\ UNCHANGED <<Untouched, fds, pc, cur, todo, readSet, listening, acceptable,
                 stop, last, path, size, history>>

IsDoomed(k) ==
  \/ "closeImmediately" \in k.flags
  \/ k.send = <<>> /\ "finishedSendingData" \in k.flags

\* Mutant: ns_mgr_free leaves the connections that are not doomed.
ClosingDoomed == {c \in Open : IsDoomed(conn[c])}

\* Mutant: the loop goes on when there is no listening socket.
StoppingListener == stop /\ listening

\* The end of ns_mgr_poll closes the doomed connections; ns_mgr_free all.
Closing == {c \in Open : last \/ IsDoomed(conn[c])}

\* run_httpserver looks at signal_received.
Stopping == stop

\* The end of ns_mgr_poll, then the loop condition of run_httpserver.
Sweep ==
  LET Clear(f, v) == [c \in Conn |-> IF c \in Closing THEN v ELSE f[c]]
  IN
  /\ pc = "io" /\ cur = None /\ ~acceptable /\ readSet = {} /\ writeSet = {}
  /\ conn' = Clear(conn, Free)
  /\ fds' = [f \in Fd |-> IF \E c \in Closing : conn[c].ep = "EP_FILE" /\ conn[c].fd = f
                          THEN None ELSE fds[f]]
  /\ stream' = Clear(stream, <<>>) /\ arrived' = Clear(arrived, <<>>)
  /\ gone' = Clear(gone, FALSE)
  /\ since' = Clear(since, {}) /\ sent' = Clear(sent, <<>>)
  /\ outcome' = Clear(outcome, "none")
  /\ pc' = IF last THEN "done" ELSE "poll"
  /\ todo' = Open \ Closing
  /\ last' = Stopping
  /\ UNCHANGED <<disk, accepted, cur, readSet, writeSet, listening, acceptable,
                 stop, path, size>>

ServerThread ==
  \/ CreateServer
  \/ \E c \in Conn : PollTransfer(c) \/ PollClose(c) \/ PollNothing(c)
  \/ Select \/ Accept
  \/ \E c \in Conn : RecvBad(c) \/ RecvMore(c) \/ RecvUnknown(c)
                     \/ RecvForeign(c) \/ RecvGetJournal(c)
  \/ Lookup \/ Vanished \/ Stat \/ OpenFile
  \/ \E c \in Conn : RecvEnd(c) \/ Write(c)
  \/ Sweep

Next ==
  \/ RpcThread
  \/ \E c \in Conn : Arrive(c) \/ Leave(c)
  \/ Tick \/ Signal
  \/ ServerThread

\* The server thread never blocks for more than the second select() waits, and
\* time passes.  Nothing is assumed of clients or of the RPC thread.
Spec == Init /\ [][Next]_vars /\ WF_vars(ServerThread) /\ WF_vars(Tick)

-----------------------------------------------------------------------------
(* Properties *)

Serving == {c \in Conn : conn[c].ep = "EP_FILE"}

\* Whatever way a response ends (sent, cut short, timed out, client gone,
\* server stopped), its descriptor is closed exactly then: the open
\* descriptors are those of the files being sent, one each.
DescriptorsAreOwned ==
  /\ \A c, d \in Serving : conn[c].fd = conn[d].fd => c = d
  /\ {f \in Fd : fds[f] # None} = {conn[c].fd : c \in Serving}

\* However slowly a client reads, no more of the file waits in its send buffer
\* than three times IOBUF_SIZE, the size of a block (mongoose.c:4746).
BufferedBlocksBounded ==
  \A c \in Conn :
    Cardinality({i \in DOMAIN conn[c].send : conn[c].send[i] = "block"})
      <= 3 * BlockSize

\* A response shorter than its Content-Length is sent only if the file was
\* truncated since stat(), exchanged between stat() and open(), or if the
\* range asked for ends at or beyond the end of the file.  Appending to a
\* file or finalizing it while it is sent does no harm.
ShortOnlyIfCut ==
  \A c \in Conn : outcome[c] = "short" => since[c] \cap {"cut", "moved", "pastEnd"} # {}

\* The blocks of one response are those of one content of the file unless it
\* was truncated while it was sent.
BodyOfOneContent ==
  \A c \in Conn : "cut" \notin since[c] =>
    \A i, j \in DOMAIN sent[c] : sent[c][i] = sent[c][j]

\* A log that exists is reported as not found only when replaceFile came in
\* while the directory was read, or it was renamed or replaced between then
\* and the open().
NotFoundOnlyIfMoved ==
  \A c \in Conn : outcome[c] \in {"missing", "vanished"} =>
                  since[c] \cap {"absent", "moved"} # {}

\* When the server has stopped, no connection and no descriptor is left.
StoppedMeansClosed == pc = "done" => Open = {} /\ \A f \in Fd : fds[f] = None

\* A descriptor is not held for ever: the file is sent or, when the client
\* neither reads nor writes, the connection expires.
EveryFileIsReleased ==
  \A c \in Conn : (conn[c].ep = "EP_FILE") ~> (conn[c].ep # "EP_FILE")

\* SIGTERM ends the server, whatever its clients do.
SignalStopsServer == stop ~> (pc = "done")
=============================================================================
