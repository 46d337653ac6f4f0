-------------------------- MODULE HttpServerProofs --------------------------
(***************************************************************************)
(* What holds of module HttpServer for any number of connections, clients, *)
(* requests, descriptors and files.                                        *)
(***************************************************************************)
EXTENDS HttpServer, WellFoundedInduction, FiniteSetTheorems, TLAPS

\* A non-empty set of natural numbers has a least element, which Min is.
LEMMA MinIsLeast ==
  ASSUME NEW S \in SUBSET Nat, S # {}
  PROVE  Min(S) \in S /\ \A y \in S : Min(S) <= y
<1> DEFINE R == OpToRel(<, Nat)
<1>1. IsWellFoundedOn(R, Nat)
  BY NatLessThanWellFounded
<1>2. \A x, y \in Nat : <<y, x>> \in R <=> y < x
  BY DEF OpToRel
<1> HIDE DEF R
<1>3. \E x \in S : \A y \in S : ~ (<<y, x>> \in R)
  BY <1>1, WFMin
<1>4. \E x \in S : \A y \in S : x <= y
  <2>1. PICK x \in S : \A y \in S : ~ (<<y, x>> \in R)
    BY <1>3
  <2>2. \A y \in S : ~ (y < x)
    BY <1>2, <2>1
  <2>3. \A y \in S : x <= y
    BY <2>2
  <2>4. QED BY <2>3
<1>5. QED BY <1>4 DEF Min

\* A connection between two steps, and one whose header was just parsed.
Parsed == [open : BOOLEAN, recv : Seq(Token), req : Request \cup {None, Malformed},
           cl : Nat, ep : Endpoint, fd : Fd \cup {0}, off : Nat,
           send : Seq({"head", "chunk", "block"}),
           flags : SUBSET Flag, idle : 0..IdleTimeout + 1]
State  == [open : BOOLEAN, recv : Seq(Token), req : Request \cup {None},
           cl : Nat, ep : Endpoint, fd : Fd \cup {0}, off : Nat,
           send : Seq({"head", "chunk", "block"}),
           flags : SUBSET Flag, idle : 0..IdleTimeout + 1]

DiskTyped ==
  /\ dir \in [Name -> Inode \cup {None}]
  /\ content \in [Inode -> Seq(Generation)]
  /\ generation \in Generation

ClientsTyped ==
  /\ stream \in [Conn -> Seq(Token)] /\ arrived \in [Conn -> Seq(Token)]
  /\ gone \in [Conn -> BOOLEAN] /\ accepted \in 0..Clients

ConnTyped == conn \in [Conn -> State]
FdsTyped  == fds \in [Fd -> Inode \cup {None}]

LoopTyped ==
  /\ pc \in {"create", "poll", "io", "lookup", "stat", "open", "done"}
  /\ cur \in Conn \cup {None}
  /\ todo \subseteq Conn /\ readSet \subseteq Conn /\ writeSet \subseteq Conn
  /\ listening \in BOOLEAN /\ acceptable \in BOOLEAN
  /\ stop \in BOOLEAN /\ last \in BOOLEAN

PathTyped == path \in Name \cup {None} /\ size \in Nat

HistoryTyped ==
  /\ since \in [Conn -> SUBSET {"absent", "moved", "cut", "pastEnd"}]
  /\ sent \in [Conn -> Seq(Generation)]
  /\ outcome \in [Conn -> {"none", "complete", "short", "missing", "vanished"}]

LEMMA TypeParts ==
  TypeOK <=> /\ DiskTyped /\ ClientsTyped /\ ConnTyped /\ FdsTyped
             /\ LoopTyped /\ PathTyped /\ HistoryTyped
BY DEF TypeOK, DiskTyped, ClientsTyped, ConnTyped, FdsTyped, LoopTyped,
       PathTyped, HistoryTyped, State

-----------------------------------------------------------------------------
\* A request in progress is one the server supports, and a file is sent only
\* on an open connection, through a descriptor of its own.
Owned ==
  /\ \A c \in Conn : conn[c].ep = "EP_FILE" =>
       /\ conn[c].open /\ conn[c].req \in Request /\ conn[c].req.supported
       /\ conn[c].fd \in Fd /\ fds[conn[c].fd] # None
  /\ \A c, d \in Conn :
       conn[c].ep = "EP_FILE" /\ conn[d].ep = "EP_FILE" /\ conn[c].fd = conn[d].fd
       => c = d
  /\ \A f \in Fd : fds[f] # None =>
       \E c \in Conn : conn[c].ep = "EP_FILE" /\ conn[c].fd = f

\* What the server thread relies on where it is.
Control ==
  /\ readSet \subseteq Open
  /\ pc \in {"create", "poll", "done"} => readSet = {}
  /\ pc \in {"lookup", "stat", "open"} =>
       /\ cur \in Conn /\ conn[cur].open /\ conn[cur].ep = "EP_USER"
       /\ conn[cur].req \in Request /\ conn[cur].req.supported
  /\ pc \in {"stat", "open"} => path \in Name
  /\ acceptable => accepted < Clients
  /\ pc = "done" => Open = {}

HInv == TypeOK /\ Owned /\ Control

-----------------------------------------------------------------------------
(* The operators on a connection *)

LEMMA StateIsParsed == State \subseteq Parsed
BY DEF State, Parsed

LEMMA ParsedIsState ==
  ASSUME NEW k \in Parsed, k.req # Malformed
  PROVE  k \in State
BY DEF State, Parsed

LEMMA HeaderEndInTokens ==
  ASSUME NEW tokens \in Seq(Token)
  PROVE  HeaderEnd(tokens) = 0 \/ HeaderEnd(tokens) \in 1..Len(tokens)
<1> DEFINE ends == {i \in DOMAIN tokens : tokens[i].part = "blank"}
<1>1. ends \in SUBSET Nat /\ ends \subseteq 1..Len(tokens)
  OBVIOUS
<1>2. ends # {} => Min(ends) \in ends
  BY <1>1, MinIsLeast
<1>3. QED BY <1>1, <1>2 DEF HeaderEnd

LEMMA ParseTyped ==
  ASSUME NEW tokens \in Seq(Token), Len(tokens) > 0
  PROVE  Parse(tokens) \in Request \cup {Malformed}
<1>1. tokens[1] \in Token
  OBVIOUS
<1>2. QED BY <1>1 DEF Parse, Token

LEMMA LengthTyped == ASSUME NEW r \in Request PROVE r.length \in Nat
BY RequestAssumption

\* try_parse leaves everything but what was received and the request.
LEMMA TryParseTyped ==
  ASSUME NEW k \in State
  PROVE  /\ TryParse(k) \in Parsed
         /\ TryParse(k).open = k.open /\ TryParse(k).ep = k.ep
         /\ TryParse(k).fd = k.fd
         /\ k.req # None => TryParse(k) = k
<1> DEFINE end == HeaderEnd(k.recv)
           q   == Parse(SubSeq(k.recv, 1, end))
<1>1. k \in Parsed /\ k.recv \in Seq(Token)
  BY DEF State, Parsed
<1>2. CASE k.req # None \/ end = 0
  BY <1>1, <1>2 DEF TryParse
<1>3. CASE ~(k.req # None \/ end = 0)
  <2>1. end \in 1..Len(k.recv)
    BY <1>1, <1>3, HeaderEndInTokens
  <2>2. /\ SubSeq(k.recv, 1, end) \in Seq(Token)
        /\ Len(SubSeq(k.recv, 1, end)) > 0
        /\ SubSeq(k.recv, end + 1, Len(k.recv)) \in Seq(Token)
    BY <1>1, <2>1
  <2>3. q \in Request \cup {Malformed}
    BY <2>2, ParseTyped
  <2>4. (IF q = Malformed THEN 0 ELSE q.length) \in Nat
    BY <2>3, LengthTyped
  <2>5. TryParse(k) = [k EXCEPT !.recv = SubSeq(@, end + 1, Len(@)), !.req = q,
                                !.cl = IF q = Malformed THEN 0 ELSE q.length]
    BY <1>3 DEF TryParse
  <2> HIDE DEF end, q
  <2>6. QED BY <1>1, <1>3, <2>2, <2>3, <2>4, <2>5 DEF Parsed
<1>4. QED BY <1>2, <1>3

\* close_local_endpoint ends with no endpoint and no request.
LEMMA CloseTyped ==
  ASSUME NEW k \in Parsed
  PROVE  /\ CloseLocalEndpoint(k) \in State
         /\ CloseLocalEndpoint(k).open = k.open
         /\ CloseLocalEndpoint(k).ep = "EP_NONE"
<1>1. <<>> \in Seq(Token)
  OBVIOUS
<1>2. QED BY <1>1 DEF CloseLocalEndpoint, Parsed, State, Endpoint, Flag

LEMMA SendHttpErrorTyped ==
  ASSUME NEW k \in Parsed
  PROVE  /\ SendHttpError(k) \in State
         /\ SendHttpError(k).open = k.open
         /\ SendHttpError(k).ep = "EP_NONE"
<1>1. Append(k.send, "head") \in Seq({"head", "chunk", "block"})
  BY DEF Parsed
<1>2. /\ [k EXCEPT !.send = Append(@, "head")] \in Parsed
      /\ [k EXCEPT !.send = Append(@, "head")].open = k.open
  BY <1>1 DEF Parsed
<1>3. QED BY <1>2, CloseTyped DEF SendHttpError

LEMMA SendStatusTyped ==
  ASSUME NEW k \in Parsed
  PROVE  /\ SendStatus(k) \in State
         /\ SendStatus(k).open = k.open
         /\ SendStatus(k).ep = "EP_NONE"
<1> DEFINE out == WriteChunk(WriteChunk(Append(k.send, "head")))
<1>1. out \in Seq({"head", "chunk", "block"})
  BY DEF Parsed, WriteChunk
<1>2. /\ [k EXCEPT !.send = out] \in Parsed
      /\ [k EXCEPT !.send = out].open = k.open
  BY <1>1 DEF Parsed
<1>3. SendStatus(k) = CloseLocalEndpoint([k EXCEPT !.send = out])
  BY DEF SendStatus
<1>4. QED BY <1>2, <1>3, CloseTyped

LEMMA ToUserTyped ==
  ASSUME NEW k \in Parsed
  PROVE  /\ ToUser(k) \in Parsed
         /\ ToUser(k).open = k.open /\ ToUser(k).req = k.req /\ ToUser(k).fd = k.fd
         /\ k.ep # "EP_FILE" => ToUser(k).ep = "EP_USER"
         /\ k.ep = "EP_FILE" => ToUser(k).ep = "EP_FILE"
BY DEF ToUser, Parsed, Endpoint

-----------------------------------------------------------------------------
(* Who owns the descriptors after a step *)

\* Connection c has the file it had, if any.
KeepsFile(c) ==
  /\ conn'[c].ep = "EP_FILE" <=> conn[c].ep = "EP_FILE"
  /\ conn[c].ep = "EP_FILE" => /\ conn'[c].open = conn[c].open
                               /\ conn'[c].req = conn[c].req
                               /\ conn'[c].fd = conn[c].fd

LEMMA OwnedKept ==
  ASSUME Owned, UNCHANGED fds, \A c \in Conn : KeepsFile(c)
  PROVE  Owned'
BY DEF Owned, KeepsFile

LEMMA OwnedReleased ==
  ASSUME Owned, FdsTyped, NEW c \in Conn,
         fds' = Release(fds, conn[c]),
         conn'[c].ep # "EP_FILE",
         \A d \in Conn \ {c} : KeepsFile(d)
  PROVE  Owned'
<1>1. CASE conn[c].ep = "EP_FILE"
  <2>1. conn[c].fd \in Fd
    BY <1>1 DEF Owned
  <2>2. \A f \in Fd : fds'[f] = IF f = conn[c].fd THEN None ELSE fds[f]
    BY <1>1, <2>1 DEF Release, FdsTyped
  <2>3. ASSUME NEW d \in Conn, conn'[d].ep = "EP_FILE"
        PROVE  /\ d # c /\ conn[d].ep = "EP_FILE"
               /\ conn'[d].open = conn[d].open /\ conn'[d].req = conn[d].req
               /\ conn'[d].fd = conn[d].fd /\ conn[d].fd # conn[c].fd
    BY <1>1, <2>3 DEF Owned, KeepsFile
  <2>4. \A d \in Conn : conn'[d].ep = "EP_FILE" =>
          /\ conn'[d].open /\ conn'[d].req \in Request /\ conn'[d].req.supported
          /\ conn'[d].fd \in Fd /\ fds'[conn'[d].fd] # None
    BY <2>2, <2>3 DEF Owned
  <2>5. \A d, e \in Conn :
          conn'[d].ep = "EP_FILE" /\ conn'[e].ep = "EP_FILE" /\ conn'[d].fd = conn'[e].fd
          => d = e
    BY <2>3 DEF Owned
  <2>6. ASSUME NEW f \in Fd, fds'[f] # None
        PROVE  \E d \in Conn : conn'[d].ep = "EP_FILE" /\ conn'[d].fd = f
    <3>1. f # conn[c].fd /\ fds[f] # None
      BY <2>2, <2>6
    <3>2. PICK d \in Conn : conn[d].ep = "EP_FILE" /\ conn[d].fd = f
      BY <3>1 DEF Owned
    <3>3. QED BY <3>1, <3>2 DEF KeepsFile
  <2>7. QED BY <2>4, <2>5, <2>6 DEF Owned
<1>2. CASE conn[c].ep # "EP_FILE"
  <2>1. UNCHANGED fds
    BY <1>2 DEF Release
  <2>2. KeepsFile(c)
    BY <1>2 DEF KeepsFile
  <2>3. QED BY <2>1, <2>2, OwnedKept
<1>3. QED BY <1>1, <1>2

LEMMA OwnedOpened ==
  ASSUME Owned, FdsTyped, NEW c \in Conn, NEW f \in Fd, NEW i \in Inode,
         fds[f] = None, fds' = [fds EXCEPT ![f] = i],
         conn[c].ep # "EP_FILE",
         conn'[c].ep = "EP_FILE", conn'[c].open, conn'[c].fd = f,
         conn'[c].req \in Request, conn'[c].req.supported,
         \A d \in Conn \ {c} : KeepsFile(d)
  PROVE  Owned'
<1>1. \A g \in Fd : fds'[g] = IF g = f THEN i ELSE fds[g]
  BY DEF FdsTyped
<1>2. i # None
  BY NumberAssumption
<1>3. ASSUME NEW d \in Conn, d # c, conn'[d].ep = "EP_FILE"
      PROVE  /\ conn[d].ep = "EP_FILE"
             /\ conn'[d].open = conn[d].open /\ conn'[d].req = conn[d].req
             /\ conn'[d].fd = conn[d].fd /\ conn[d].fd # f
  BY <1>3 DEF Owned, KeepsFile
<1>4. \A d \in Conn : conn'[d].ep = "EP_FILE" =>
        /\ conn'[d].open /\ conn'[d].req \in Request /\ conn'[d].req.supported
        /\ conn'[d].fd \in Fd /\ fds'[conn'[d].fd] # None
  BY <1>1, <1>2, <1>3 DEF Owned
<1>5. \A d, e \in Conn :
        conn'[d].ep = "EP_FILE" /\ conn'[e].ep = "EP_FILE" /\ conn'[d].fd = conn'[e].fd
        => d = e
  BY <1>3 DEF Owned
<1>6. ASSUME NEW g \in Fd, fds'[g] # None
      PROVE  \E d \in Conn : conn'[d].ep = "EP_FILE" /\ conn'[d].fd = g
  <2>1. CASE g = f
    BY <2>1
  <2>2. CASE g # f
    <3>1. PICK d \in Conn : conn[d].ep = "EP_FILE" /\ conn[d].fd = g
      BY <1>1, <1>6, <2>2 DEF Owned
    <3>2. QED BY <3>1 DEF KeepsFile
  <2>3. QED BY <2>1, <2>2
<1>7. QED BY <1>4, <1>5, <1>6 DEF Owned

LEMMA ReleaseTyped ==
  ASSUME FdsTyped, NEW c \in Conn, fds' = Release(fds, conn[c])
  PROVE  FdsTyped'
BY DEF FdsTyped, Release

\* One connection changes.
LEMMA OneConn ==
  ASSUME ConnTyped, NEW c \in Conn, NEW k \in State,
         conn' = [conn EXCEPT ![c] = k]
  PROVE  /\ ConnTyped' /\ conn'[c] = k
         /\ \A d \in Conn \ {c} : conn'[d] = conn[d] /\ KeepsFile(d)
BY DEF ConnTyped, KeepsFile

LEMMA FreeTyped == Free \in State /\ ~Free.open /\ Free.ep = "EP_NONE"
<1>1. 0 \in Nat /\ 0 \in 0..IdleTimeout + 1
  BY NumberAssumption
<1>2. QED BY <1>1 DEF Free, State, Endpoint, Flag

-----------------------------------------------------------------------------
(* Initially *)

LEMMA InitHolds == Init => HInv
<1> SUFFICES ASSUME Init PROVE HInv
  OBVIOUS
<1>1. Min(Inode) \in Inode
  BY NumberAssumption, MinIsLeast
<1>2. DiskTyped
  <2>1. 0 \in Generation /\ FirstFile \in Seq(Generation) /\ <<>> \in Seq(Generation)
    BY NumberAssumption, StreamAssumption DEF Generation
  <2>2. QED BY <1>1, <2>1 DEF Init, DiskTyped
<1>3. ClientsTyped /\ HistoryTyped
  BY NumberAssumption DEF Init, ClientsTyped, HistoryTyped
<1>4. ConnTyped /\ FdsTyped
  BY FreeTyped DEF Init, ConnTyped, FdsTyped
<1>5. LoopTyped /\ PathTyped
  BY DEF Init, LoopTyped, PathTyped
<1>6. Owned
  BY FreeTyped DEF Init, Owned
<1>7. Control
  BY DEF Init, Control
<1>8. QED BY <1>2, <1>3, <1>4, <1>5, <1>6, <1>7, TypeParts DEF HInv

-----------------------------------------------------------------------------
(* The RPC thread, the clients, the clock and the signal *)

LEMMA ServerAlone ==
  ASSUME HInv, UNCHANGED <<conn, fds, pc, cur, readSet, acceptable, accepted, path>>
  PROVE  Owned' /\ Control' /\ ConnTyped' /\ FdsTyped'
<1>1. ConnTyped' /\ FdsTyped'
  BY TypeParts DEF HInv, ConnTyped, FdsTyped
<1>2. Owned'
  BY OwnedKept DEF HInv, KeepsFile
<1>3. Control'
  BY DEF HInv, Control, Open
<1>4. QED BY <1>1, <1>2, <1>3

LEMMA MovedTyped ==
  ASSUME HistoryTyped, NEW steps, Moved(steps), UNCHANGED <<sent, outcome>>
  PROVE  HistoryTyped'
BY DEF HistoryTyped, Moved

LEMMA ElsewhereKept ==
  ASSUME HInv, UNCHANGED Elsewhere, DiskTyped', HistoryTyped'
  PROVE  HInv'
<1>1. ClientsTyped' /\ LoopTyped' /\ PathTyped'
  BY TypeParts DEF HInv, Elsewhere, clients, loop, ClientsTyped, LoopTyped, PathTyped
<1>2. Owned' /\ Control' /\ ConnTyped' /\ FdsTyped'
  BY ServerAlone DEF Elsewhere, clients, loop
<1>3. QED BY <1>1, <1>2, TypeParts DEF HInv, TypeOK, DiskTyped, ClientsTyped,
               ConnTyped, FdsTyped, LoopTyped, PathTyped, HistoryTyped, State

LEMMA RpcThreadKeeps == ASSUME HInv, RpcThread PROVE HInv'
<1>1. DiskTyped /\ HistoryTyped
  BY TypeParts DEF HInv
<1>2. CASE AppendBlock
  <2> DEFINE i == dir["edits_inprogress"]
  <2>1. i \in Inode /\ content[i] \in Seq(Generation)
    BY <1>1, <1>2 DEF AppendBlock, DiskTyped, Name
  <2>2. Append(content[i], generation) \in Seq(Generation)
    BY <1>1, <2>1 DEF DiskTyped
  <2>3. content' = [content EXCEPT ![i] = Append(content[i], generation)]
    BY <1>2 DEF AppendBlock
  <2> HIDE DEF i
  <2>4. DiskTyped'
    BY <1>1, <1>2, <2>1, <2>2, <2>3 DEF AppendBlock, DiskTyped, Generation
  <2>5. HistoryTyped' /\ UNCHANGED Elsewhere
    BY <1>1, <1>2 DEF AppendBlock, HistoryTyped, Elsewhere
  <2>6. QED BY <2>4, <2>5, ElsewhereKept
<1>3. CASE RenameFinalized
  <2>1. DiskTyped'
    BY <1>1, <1>3 DEF RenameFinalized, DiskTyped, Name, Generation
  <2>2. UNCHANGED Elsewhere
    BY <1>3 DEF RenameFinalized
  <2>3. HistoryTyped'
    BY <1>1, <1>3, MovedTyped DEF RenameFinalized, Elsewhere
  <2>4. QED BY <2>1, <2>2, <2>3, ElsewhereKept
<1>4. CASE TruncateLog
  <2>1. generation' \in Generation
    BY <1>1, <1>4, NumberAssumption DEF TruncateLog, DiskTyped, Generation
  <2>2. <<>> \in Seq(Generation)
    OBVIOUS
  <2>3. DiskTyped'
    BY <1>1, <1>4, <2>1, <2>2 DEF TruncateLog, DiskTyped, Name, Generation
  <2>4. UNCHANGED Elsewhere
    BY <1>4 DEF TruncateLog
  <2>5. HistoryTyped'
    BY <1>1, <1>4, <2>4 DEF TruncateLog, Elsewhere, HistoryTyped
  <2>6. QED BY <2>3, <2>4, <2>5, ElsewhereKept
<1>5. CASE RemoveFile
  <2>1. DiskTyped'
    BY <1>1, <1>5 DEF RemoveFile, DiskTyped, Name, Generation
  <2>2. UNCHANGED Elsewhere
    BY <1>5 DEF RemoveFile
  <2>3. HistoryTyped'
    BY <1>1, <1>5, MovedTyped DEF RemoveFile, Elsewhere
  <2>4. QED BY <2>1, <2>2, <2>3, ElsewhereKept
<1>6. CASE RenameAccepted
  <2>1. PICK i \in Inode, len \in AcceptedLength :
          /\ dir' = [dir EXCEPT !["edits_inprogress"] = i]
          /\ content' = [content EXCEPT ![i] = [b \in 1..len |-> generation + 1]]
    BY <1>6 DEF RenameAccepted
  <2>2. generation' \in Generation /\ generation' = generation + 1
    BY <1>1, <1>6, NumberAssumption DEF RenameAccepted, DiskTyped, Generation
  <2>3. len \in Nat
    BY NumberAssumption
  <2>4. [b \in 1..len |-> generation + 1] \in Seq(Generation)
    BY <2>2, <2>3
  <2>5. DiskTyped'
    BY <1>1, <2>1, <2>2, <2>4 DEF DiskTyped, Generation
  <2>6. UNCHANGED Elsewhere
    BY <1>6 DEF RenameAccepted
  <2>7. HistoryTyped'
    BY <1>1, <1>6, <2>6, MovedTyped DEF RenameAccepted, Elsewhere
  <2>8. QED BY <2>5, <2>6, <2>7, ElsewhereKept
<1>7. QED BY <1>2, <1>3, <1>4, <1>5, <1>6 DEF RpcThread

LEMMA OutsideKept ==
  ASSUME HInv, ClientsTyped', LoopTyped',
         UNCHANGED <<disk, accepted, conn, fds, pc, cur, readSet, acceptable, path,
                     size, history>>
  PROVE  HInv'
<1>1. DiskTyped' /\ PathTyped' /\ HistoryTyped'
  BY TypeParts DEF HInv, disk, history, DiskTyped, PathTyped, HistoryTyped
<1>2. Owned' /\ Control' /\ ConnTyped' /\ FdsTyped'
  BY ServerAlone
<1>3. QED BY <1>1, <1>2, TypeParts DEF HInv, TypeOK, DiskTyped, ClientsTyped,
               ConnTyped, FdsTyped, LoopTyped, PathTyped, HistoryTyped, State

LEMMA ClientsKeep ==
  ASSUME HInv, NEW c \in Conn, Arrive(c) \/ Leave(c)
  PROVE  HInv'
<1>1. ClientsTyped /\ LoopTyped
  BY TypeParts DEF HInv
<1>2. LoopTyped'
  BY <1>1 DEF Arrive, Leave, Server, LoopTyped
<1>3. ClientsTyped'
  <2>1. CASE Arrive(c)
    <3>1. PICK n \in 1..Len(stream[c]) :
            /\ arrived' = [arrived EXCEPT ![c] = @ \o SubSeq(stream[c], 1, n)]
            /\ stream' = [stream EXCEPT ![c] = SubSeq(@, n + 1, Len(@))]
      BY <2>1 DEF Arrive
    <3>2. stream[c] \in Seq(Token) /\ arrived[c] \in Seq(Token)
      BY <1>1 DEF ClientsTyped
    <3>3. /\ SubSeq(stream[c], 1, n) \in Seq(Token)
          /\ SubSeq(stream[c], n + 1, Len(stream[c])) \in Seq(Token)
      BY <3>2
    <3>4. arrived[c] \o SubSeq(stream[c], 1, n) \in Seq(Token)
      BY <3>2, <3>3
    <3>5. QED BY <1>1, <2>1, <3>1, <3>3, <3>4 DEF Arrive, ClientsTyped
  <2>2. CASE Leave(c)
    BY <1>1, <2>2 DEF Leave, ClientsTyped
  <2>3. QED BY <2>1, <2>2
<1>4. QED BY <1>2, <1>3, OutsideKept DEF Arrive, Leave, Server, history

LEMMA SignalKeeps == ASSUME HInv, Signal PROVE HInv'
<1>1. ClientsTyped' /\ LoopTyped'
  BY TypeParts DEF HInv, Signal, Server, clients, ClientsTyped, LoopTyped
<1>2. QED BY <1>1, OutsideKept DEF Signal, Server, clients, history

\* What is left to show of a step that leaves the segment alone.
LEMMA Holds ==
  ASSUME HInv, UNCHANGED disk, ClientsTyped', ConnTyped', FdsTyped', LoopTyped',
         PathTyped', HistoryTyped', Owned', Control'
  PROVE  HInv'
<1>1. DiskTyped'
  BY TypeParts DEF HInv, disk, DiskTyped
<1>2. QED BY <1>1 DEF HInv, TypeOK, DiskTyped, ClientsTyped, ConnTyped, FdsTyped,
               LoopTyped, PathTyped, HistoryTyped, State

LEMMA TickKeeps == ASSUME HInv, Tick PROVE HInv'
<1>1. ConnTyped /\ ClientsTyped /\ FdsTyped /\ LoopTyped /\ PathTyped /\ HistoryTyped
  BY TypeParts DEF HInv
<1>2. ASSUME NEW c \in Conn
      PROVE  /\ conn'[c] \in State
             /\ conn'[c].open = conn[c].open /\ conn'[c].ep = conn[c].ep
             /\ conn'[c].req = conn[c].req /\ conn'[c].fd = conn[c].fd
  <2>1. conn[c] \in State /\ conn[c].idle \in Nat /\ conn[c].idle + 1 \in Nat
    BY <1>1 DEF ConnTyped, State
  <2>2. conn'[c] = IF conn[c].open /\ conn[c].idle <= IdleTimeout
                   THEN [conn[c] EXCEPT !.idle = conn[c].idle + 1] ELSE conn[c]
    BY DEF Tick
  <2>3. conn[c].idle <= IdleTimeout => conn[c].idle + 1 \in 0..IdleTimeout + 1
    BY <2>1, NumberAssumption
  <2>4. QED BY <2>1, <2>2, <2>3 DEF State
<1>3. ConnTyped'
  BY <1>2 DEF Tick, ConnTyped
<1>4. Owned'
  BY <1>2, OwnedKept DEF HInv, KeepsFile, Tick, Server
<1>5. Open' = Open
  BY <1>2 DEF Open
<1>6. Control'
  <2>1. UNCHANGED <<pc, cur, readSet, acceptable, accepted, path>>
    BY DEF Tick, Server, clients
  <2>2. QED BY <1>2, <1>5, <2>1 DEF HInv, Control
<1>7. /\ ClientsTyped' /\ FdsTyped' /\ LoopTyped' /\ PathTyped' /\ HistoryTyped'
      /\ UNCHANGED disk
  BY <1>1 DEF Tick, Server, clients, ClientsTyped, FdsTyped, LoopTyped, PathTyped,
              HistoryTyped
<1>8. QED BY <1>3, <1>4, <1>6, <1>7, Holds

-----------------------------------------------------------------------------
(* The server thread between two requests *)

LEMMA CreateServerKeeps == ASSUME HInv, CreateServer PROVE HInv'
<1>1. /\ ClientsTyped' /\ ConnTyped' /\ FdsTyped' /\ PathTyped' /\ HistoryTyped'
      /\ UNCHANGED <<disk, conn, fds>>
  BY TypeParts DEF HInv, CreateServer, Untouched, clients, history, ClientsTyped,
                   ConnTyped, FdsTyped, PathTyped, HistoryTyped
<1>2. LoopTyped'
  BY TypeParts DEF HInv, CreateServer, SetListeningPort, PortIsOpened, LoopTyped
<1>3. Owned'
  BY <1>1, OwnedKept DEF HInv, KeepsFile
<1>4. Control'
  BY DEF HInv, Control, CreateServer, Open, Untouched, clients
<1>5. QED BY <1>1, <1>2, <1>3, <1>4, Holds

LEMMA PollNothingKeeps == ASSUME HInv, NEW c \in Conn, PollNothing(c) PROVE HInv'
<1>1. /\ ClientsTyped' /\ ConnTyped' /\ FdsTyped' /\ PathTyped' /\ HistoryTyped'
      /\ UNCHANGED <<disk, conn, fds>>
  BY TypeParts DEF HInv, PollNothing, Untouched, clients, history, ClientsTyped,
                   ConnTyped, FdsTyped, PathTyped, HistoryTyped
<1>2. LoopTyped'
  BY TypeParts DEF HInv, PollNothing, LoopTyped
<1>3. Owned'
  BY <1>1, OwnedKept DEF HInv, KeepsFile
<1>4. Control'
  BY DEF HInv, Control, PollNothing, Open, Untouched, clients
<1>5. QED BY <1>1, <1>2, <1>3, <1>4, Holds

LEMMA SelectKeeps == ASSUME HInv, Select PROVE HInv'
<1>1. /\ ClientsTyped' /\ ConnTyped' /\ FdsTyped' /\ PathTyped' /\ HistoryTyped'
      /\ UNCHANGED <<disk, conn, fds>>
  BY TypeParts DEF HInv, Select, Untouched, clients, history, ClientsTyped,
                   ConnTyped, FdsTyped, PathTyped, HistoryTyped
<1>2. readSet' \subseteq Open /\ writeSet' \subseteq Open /\ Open \subseteq Conn
  BY DEF Select, Open
<1>3. LoopTyped'
  BY <1>2, TypeParts DEF HInv, Select, LoopTyped
<1>4. Owned'
  BY <1>1, OwnedKept DEF HInv, KeepsFile
<1>5. Control'
  <2>1. Open' = Open
    BY <1>1 DEF Open
  <2>2. acceptable' => accepted' < Clients
    BY DEF Select, Untouched, clients
  <2>3. QED BY <1>2, <2>1, <2>2 DEF Control, Select
<1>6. QED BY <1>1, <1>3, <1>4, <1>5, Holds

LEMMA AcceptKeeps == ASSUME HInv, Accept PROVE HInv'
<1>1. ConnTyped /\ ClientsTyped
  BY TypeParts DEF HInv
<1>2. PICK c \in Conn \ Open :
        /\ conn' = [conn EXCEPT ![c] = [Free EXCEPT !.open = TRUE]]
        /\ \E tokens \in Stream : stream' = [stream EXCEPT ![c] = tokens]
  BY DEF Accept
<1>3. /\ [Free EXCEPT !.open = TRUE] \in State
      /\ [Free EXCEPT !.open = TRUE].open
      /\ [Free EXCEPT !.open = TRUE].ep = "EP_NONE"
  BY FreeTyped DEF Free, State
<1>4. /\ ConnTyped' /\ conn'[c].open /\ conn'[c].ep = "EP_NONE"
      /\ \A d \in Conn \ {c} : conn'[d] = conn[d] /\ KeepsFile(d)
  BY <1>1, <1>2, <1>3, OneConn
<1>5. ~conn[c].open
  BY <1>2 DEF Open
<1>6. conn[c].ep # "EP_FILE"
  BY <1>5 DEF HInv, Owned
<1>7. Owned'
  BY <1>4, <1>6, OwnedKept DEF HInv, KeepsFile, Accept
<1>8. accepted' \in 0..Clients
  <2>1. accepted < Clients
    BY DEF HInv, Control, Accept
  <2>2. QED BY <1>1, <2>1, NumberAssumption DEF Accept, ClientsTyped
<1>9. ClientsTyped'
  BY <1>1, <1>2, <1>8, StreamAssumption DEF Accept, ClientsTyped
<1>10. FdsTyped' /\ LoopTyped' /\ PathTyped' /\ HistoryTyped' /\ UNCHANGED disk
  BY TypeParts DEF HInv, Accept, history, FdsTyped, LoopTyped, PathTyped, HistoryTyped
<1>11. Control'
  <2>1. Open \subseteq Open'
    BY <1>4 DEF Open
  <2>2. pc' = "io" /\ ~acceptable' /\ readSet' = readSet
    BY DEF Accept
  <2>3. QED BY <2>1, <2>2 DEF HInv, Control
<1>12. QED BY <1>4, <1>7, <1>9, <1>10, <1>11, Holds

\* What read() may return is at most what is left to send, the block size and
\* what the file has.
LEMMA LeastOfThree ==
  ASSUME NEW a \in Int, NEW b \in Int, NEW d \in Int
  PROVE  /\ Min({a, b, d}) \in {a, b, d}
         /\ Min({a, b, d}) <= a /\ Min({a, b, d}) <= b /\ Min({a, b, d}) <= d
<1> DEFINE S == {a, b, d}
<1>1. \E x \in S : \A y \in S : x <= y
  <2>1. CASE a <= b /\ a <= d
    BY <2>1
  <2>2. CASE b <= a /\ b <= d
    BY <2>2
  <2>3. CASE d <= a /\ d <= b
    BY <2>3
  <2>4. QED BY <2>1, <2>2, <2>3
<1>2. Min(S) \in S /\ \A y \in S : Min(S) <= y
  <2> HIDE DEF S
  <2>1. QED BY <1>1 DEF Min
<1>3. QED BY <1>2

LEMMA NextPartTyped ==
  ASSUME HInv, NEW c \in Conn, conn[c].ep = "EP_FILE"
  PROVE  /\ FileOf(conn[c]) \in Seq(Generation)
         /\ NextPart(conn[c]) \in Int
         /\ NextPart(conn[c]) <= conn[c].cl /\ NextPart(conn[c]) <= BlockSize
         /\ conn[c].off + NextPart(conn[c]) <= Len(FileOf(conn[c]))
         /\ NextPart(conn[c]) <= 0 =>
              conn[c].cl = 0 \/ conn[c].off >= Len(FileOf(conn[c]))
<1>1. conn[c] \in State
  BY TypeParts DEF HInv, ConnTyped
<1>2. conn[c].cl \in Nat /\ conn[c].off \in Nat
  BY <1>1 DEF State
<1>3. conn[c].fd \in Fd /\ fds[conn[c].fd] # None
  BY DEF HInv, Owned
<1>4. fds[conn[c].fd] \in Inode
  BY <1>3, TypeParts DEF HInv, FdsTyped
<1>5. FileOf(conn[c]) \in Seq(Generation)
  BY <1>4, TypeParts DEF HInv, DiskTyped, FileOf
<1>6. Len(FileOf(conn[c])) \in Nat
  BY <1>5
<1>7. BlockSize \in Int /\ conn[c].cl \in Int /\ Len(FileOf(conn[c])) - conn[c].off \in Int
  BY <1>2, <1>6, NumberAssumption
<1>8. /\ NextPart(conn[c]) \in {conn[c].cl, BlockSize, Len(FileOf(conn[c])) - conn[c].off}
      /\ NextPart(conn[c]) <= conn[c].cl /\ NextPart(conn[c]) <= BlockSize
      /\ NextPart(conn[c]) <= Len(FileOf(conn[c])) - conn[c].off
  BY <1>7, LeastOfThree DEF NextPart
<1>9. QED BY <1>2, <1>5, <1>6, <1>7, <1>8, NumberAssumption

\* The block that was read is counted and buffered.
LEMMA MovedPart ==
  ASSUME NEW k \in State, NEW n \in Nat, n <= k.cl
  PROVE  LET m == [k EXCEPT !.cl = @ - n, !.off = @ + n,
                            !.send = @ \o [i \in 1..n |-> "block"]]
         IN  /\ m \in State
             /\ m.open = k.open /\ m.ep = k.ep /\ m.fd = k.fd /\ m.req = k.req
<1>1. k.cl - n \in Nat /\ k.off + n \in Nat
  BY DEF State
<1>2. [i \in 1..n |-> "block"] \in Seq({"head", "chunk", "block"})
  OBVIOUS
<1>3. k.send \o [i \in 1..n |-> "block"] \in Seq({"head", "chunk", "block"})
  BY <1>2 DEF State
<1>4. QED BY <1>1, <1>3 DEF State

\* A transfer changes one connection, and closes its file or keeps it.
LEMMA TransferEffect ==
  ASSUME HInv, NEW c \in Conn, conn[c].ep = "EP_FILE", Transfer(c)
  PROVE  /\ ConnTyped' /\ FdsTyped' /\ Owned'
         /\ sent' \in [Conn -> Seq(Generation)]
         /\ outcome' \in [Conn -> {"none", "complete", "short", "missing", "vanished"}]
         /\ conn'[c].open
         /\ \A d \in Conn \ {c} : conn'[d] = conn[d]
<1> DEFINE k == conn[c]
           n == NextPart(k)
           m == [k EXCEPT !.cl = @ - n, !.off = @ + n,
                          !.send = @ \o [i \in 1..n |-> "block"]]
<1>1. ConnTyped /\ FdsTyped /\ HistoryTyped /\ Owned
  BY TypeParts DEF HInv
<1>2. k \in State /\ k \in Parsed /\ k.open
  BY <1>1, StateIsParsed DEF ConnTyped, Owned
<1>3. /\ FileOf(k) \in Seq(Generation) /\ n \in Int /\ n <= k.cl
      /\ k.off + n <= Len(FileOf(k)) /\ k.off \in Nat
  BY <1>2, NextPartTyped DEF State
<1>4. CASE IsFull(k)
  <2>1. UNCHANGED <<conn, fds, sent, outcome>>
    BY <1>4 DEF Transfer
  <2>2. Owned'
    BY <1>1, <2>1, OwnedKept DEF KeepsFile
  <2>3. QED BY <1>1, <1>2, <2>1, <2>2 DEF ConnTyped, FdsTyped, HistoryTyped
<1>5. ASSUME NEW j \in State, j.open, j.ep = "EP_NONE",
             conn' = [conn EXCEPT ![c] = j], fds' = Release(fds, k)
      PROVE  ConnTyped' /\ FdsTyped' /\ Owned' /\ conn'[c].open
             /\ \A d \in Conn \ {c} : conn'[d] = conn[d]
  <2>1. /\ ConnTyped' /\ conn'[c] = j
        /\ \A d \in Conn \ {c} : conn'[d] = conn[d] /\ KeepsFile(d)
    BY <1>1, <1>5, OneConn
  <2>2. Owned'
    BY <1>1, <1>5, <2>1, OwnedReleased
  <2>3. QED BY <1>1, <1>5, <2>1, <2>2, ReleaseTyped
<1>6. CASE ~IsFull(k) /\ n <= 0
  <2>1. /\ conn' = [conn EXCEPT ![c] = CloseLocalEndpoint(k)]
        /\ fds' = Release(fds, k)
        /\ outcome' = [outcome EXCEPT ![c] = IF k.cl = 0 THEN "complete" ELSE "short"]
        /\ UNCHANGED sent
    BY <1>6 DEF Transfer
  <2>2. /\ CloseLocalEndpoint(k) \in State /\ CloseLocalEndpoint(k).open
        /\ CloseLocalEndpoint(k).ep = "EP_NONE"
    BY <1>2, CloseTyped
  <2>3. QED BY <1>1, <1>5, <2>1, <2>2 DEF HistoryTyped
<1>7. CASE ~IsFull(k) /\ ~(n <= 0)
  <2>1. n \in Nat
    BY <1>3, <1>7
  <2>2. /\ m \in State /\ m \in Parsed
        /\ m.open = k.open /\ m.ep = k.ep /\ m.fd = k.fd /\ m.req = k.req
    BY <1>2, <1>3, <2>1, MovedPart, StateIsParsed
  <2>3. SubSeq(FileOf(k), k.off + 1, k.off + n) \in Seq(Generation)
    BY <1>3, <2>1
  <2>4. /\ sent' = [sent EXCEPT ![c] = @ \o SubSeq(FileOf(k), k.off + 1, k.off + n)]
        /\ \/ /\ conn' = [conn EXCEPT ![c] = m]
              /\ UNCHANGED <<fds, outcome>>
           \/ /\ conn' = [conn EXCEPT ![c] = CloseLocalEndpoint(m)]
              /\ fds' = Release(fds, k)
              /\ outcome' = [outcome EXCEPT ![c] = "complete"]
    BY <1>7 DEF Transfer
  <2>5. sent' \in [Conn -> Seq(Generation)]
    <3>1. sent[c] \o SubSeq(FileOf(k), k.off + 1, k.off + n) \in Seq(Generation)
      BY <1>1, <2>3 DEF HistoryTyped
    <3>2. QED BY <1>1, <2>4, <3>1 DEF HistoryTyped
  <2> HIDE DEF m
  <2>6. CASE conn' = [conn EXCEPT ![c] = m] /\ UNCHANGED <<fds, outcome>>
    <3>1. /\ ConnTyped' /\ conn'[c] = m
          /\ \A d \in Conn \ {c} : conn'[d] = conn[d] /\ KeepsFile(d)
      BY <1>1, <2>2, <2>6, OneConn
    <3>2. KeepsFile(c)
      BY <2>2, <3>1 DEF KeepsFile
    <3>3. Owned'
      BY <1>1, <2>6, <3>1, <3>2, OwnedKept
    <3>4. QED BY <1>1, <1>2, <2>2, <2>5, <2>6, <3>1, <3>3 DEF FdsTyped, HistoryTyped
  <2>7. CASE /\ conn' = [conn EXCEPT ![c] = CloseLocalEndpoint(m)]
             /\ fds' = Release(fds, k)
             /\ outcome' = [outcome EXCEPT ![c] = "complete"]
    <3>1. /\ CloseLocalEndpoint(m) \in State /\ CloseLocalEndpoint(m).open
          /\ CloseLocalEndpoint(m).ep = "EP_NONE"
      BY <1>2, <2>2, CloseTyped
    <3>2. QED BY <1>1, <1>5, <2>5, <2>7, <3>1 DEF HistoryTyped
  <2>8. QED BY <2>4, <2>6, <2>7
<1>8. QED BY <1>4, <1>6, <1>7

LEMMA PollTransferKeeps == ASSUME HInv, NEW c \in Conn, PollTransfer(c) PROVE HInv'
<1>1. /\ ConnTyped' /\ FdsTyped' /\ Owned'
      /\ sent' \in [Conn -> Seq(Generation)]
      /\ outcome' \in [Conn -> {"none", "complete", "short", "missing", "vanished"}]
      /\ conn'[c].open
      /\ \A d \in Conn \ {c} : conn'[d] = conn[d]
  BY TransferEffect DEF PollTransfer
<1>2. ClientsTyped' /\ PathTyped' /\ UNCHANGED disk
  BY TypeParts DEF HInv, PollTransfer, Untouched, clients, ClientsTyped, PathTyped
<1>3. HistoryTyped'
  BY <1>1, TypeParts DEF HInv, PollTransfer, HistoryTyped
<1>4. LoopTyped'
  BY TypeParts DEF HInv, PollTransfer, LoopTyped
<1>5. Control'
  BY DEF HInv, Control, PollTransfer, Untouched, clients
<1>6. QED BY <1>1, <1>2, <1>3, <1>4, <1>5, Holds

LEMMA DropEffect ==
  ASSUME HInv, NEW c \in Conn, Drop(c), UNCHANGED accepted
  PROVE  ConnTyped' /\ FdsTyped' /\ Owned' /\ ClientsTyped' /\ HistoryTyped'
<1>1. ConnTyped /\ FdsTyped /\ ClientsTyped /\ HistoryTyped /\ Owned
  BY TypeParts DEF HInv
<1>2. /\ ConnTyped' /\ conn'[c] = Free
      /\ \A d \in Conn \ {c} : conn'[d] = conn[d] /\ KeepsFile(d)
  BY <1>1, FreeTyped, OneConn DEF Drop
<1>3. FdsTyped' /\ Owned'
  BY <1>1, <1>2, FreeTyped, ReleaseTyped, OwnedReleased DEF Drop
<1>4. <<>> \in Seq(Token) /\ <<>> \in Seq(Generation)
  OBVIOUS
<1>5. ClientsTyped' /\ HistoryTyped'
  BY <1>1, <1>4 DEF Drop, ClientsTyped, HistoryTyped
<1>6. QED BY <1>2, <1>3, <1>5

LEMMA PollCloseKeeps == ASSUME HInv, NEW c \in Conn, PollClose(c) PROVE HInv'
<1>1. ConnTyped' /\ FdsTyped' /\ Owned' /\ ClientsTyped' /\ HistoryTyped'
  BY DropEffect DEF PollClose
<1>2. LoopTyped' /\ PathTyped' /\ UNCHANGED disk
  BY TypeParts DEF HInv, PollClose, LoopTyped, PathTyped
<1>3. Control'
  BY DEF HInv, Control, PollClose
<1>4. QED BY <1>1, <1>2, <1>3, Holds

-----------------------------------------------------------------------------
(* A connection is read *)

\* What was received is parsed; the file and the request in progress stay.
LEMMA ReceivedTyped ==
  ASSUME HInv, NEW c \in Conn, Receiving(c)
  PROVE  /\ Received(c) \in Parsed
         /\ Received(c).open /\ conn[c].open
         /\ Received(c).ep = conn[c].ep /\ Received(c).fd = conn[c].fd
         /\ conn[c].ep = "EP_FILE" => /\ Received(c).req = conn[c].req
                                      /\ ~IsBad(Received(c))
<1> DEFINE k == [conn[c] EXCEPT !.recv = @ \o arrived[c], !.idle = 0]
<1>1. conn[c] \in State /\ arrived[c] \in Seq(Token)
  BY TypeParts DEF HInv, ConnTyped, ClientsTyped
<1>2. conn[c].recv \o arrived[c] \in Seq(Token)
  BY <1>1 DEF State
<1>3. 0 \in 0..IdleTimeout + 1
  BY NumberAssumption
<1>4. /\ k \in State /\ k.open = conn[c].open /\ k.ep = conn[c].ep
      /\ k.fd = conn[c].fd /\ k.req = conn[c].req
  BY <1>1, <1>2, <1>3 DEF State
<1>5. conn[c].open
  BY DEF HInv, Control, Receiving, Open
<1>6. Received(c) = TryParse(k)
  BY DEF Received
<1> HIDE DEF k
<1>7. /\ Received(c) \in Parsed /\ Received(c).open = k.open
      /\ Received(c).ep = k.ep /\ Received(c).fd = k.fd
      /\ k.req # None => Received(c) = k
  BY <1>4, <1>6, TryParseTyped
<1>8. ASSUME conn[c].ep = "EP_FILE"
      PROVE  Received(c).req = conn[c].req /\ ~IsBad(Received(c))
  <2>1. conn[c].req \in Request /\ conn[c].req.supported
    BY <1>8 DEF HInv, Owned
  <2>2. conn[c].req # None /\ conn[c].req # Malformed
    BY <2>1, RequestAssumption
  <2>3. Received(c).req = conn[c].req
    BY <1>4, <1>7, <2>2
  <2>4. QED BY <2>1, <2>2, <2>3 DEF IsBad
<1>9. QED BY <1>4, <1>5, <1>7, <1>8

\* The server goes on reading after it gave connection c the state k.
LEMMA ReceivingKeeps ==
  ASSUME HInv, NEW c \in Conn, Receiving(c), NEW k \in State, k.open,
         conn' = [conn EXCEPT ![c] = k],
         conn[c].ep = "EP_FILE" => /\ k.ep = "EP_FILE" /\ k.req = conn[c].req
                                   /\ k.fd = conn[c].fd,
         conn[c].ep # "EP_FILE" => k.ep # "EP_FILE",
         UNCHANGED fds, HistoryTyped',
         \/ pc' = pc
         \/ /\ pc' = "lookup" /\ k.ep = "EP_USER"
            /\ k.req \in Request /\ k.req.supported
  PROVE  HInv'
<1>1. ConnTyped /\ ClientsTyped /\ LoopTyped
  BY TypeParts DEF HInv
<1>2. conn[c].open
  BY ReceivedTyped
<1>3. /\ ConnTyped' /\ conn'[c] = k
      /\ \A d \in Conn \ {c} : conn'[d] = conn[d] /\ KeepsFile(d)
  BY <1>1, OneConn
<1>4. KeepsFile(c)
  BY <1>1, <1>2, <1>3 DEF KeepsFile, ConnTyped, State
<1>5. Owned'
  BY <1>3, <1>4, OwnedKept DEF HInv
<1>6. <<>> \in Seq(Token)
  OBVIOUS
<1>7. ClientsTyped'
  BY <1>1, <1>6 DEF Receiving, ClientsTyped
<1>8. FdsTyped' /\ PathTyped' /\ UNCHANGED disk
  BY TypeParts DEF HInv, Receiving, FdsTyped, PathTyped
<1>9. LoopTyped'
  BY <1>1 DEF Receiving, LoopTyped
<1>10. Control'
  <2>1. Open' = Open
    BY <1>2, <1>3 DEF Open
  <2>2. pc = "io" /\ cur' = c /\ UNCHANGED <<readSet, acceptable, accepted, path>>
    BY DEF Receiving
  <2>3. QED BY <1>3, <2>1, <2>2 DEF HInv, Control
<1>11. QED BY <1>3, <1>5, <1>7, <1>8, <1>9, <1>10, Holds

LEMMA HistoryKept == ASSUME HInv, UNCHANGED history PROVE HistoryTyped'
BY TypeParts DEF HInv, history, HistoryTyped

LEMMA RecvBadKeeps == ASSUME HInv, NEW c \in Conn, RecvBad(c) PROVE HInv'
<1>1. Receiving(c) /\ IsBad(Received(c)) /\ UNCHANGED <<fds, pc, history>>
  BY DEF RecvBad
<1>2. Received(c) \in Parsed /\ Received(c).open /\ conn[c].ep # "EP_FILE"
  BY <1>1, ReceivedTyped
<1>3. /\ SendHttpError(Received(c)) \in State /\ SendHttpError(Received(c)).open
      /\ SendHttpError(Received(c)).ep # "EP_FILE"
  BY <1>2, SendHttpErrorTyped
<1>4. conn' = [conn EXCEPT ![c] = SendHttpError(Received(c))]
  BY DEF RecvBad
<1>5. QED BY <1>1, <1>2, <1>3, <1>4, HistoryKept, ReceivingKeeps

LEMMA RecvMoreKeeps == ASSUME HInv, NEW c \in Conn, RecvMore(c) PROVE HInv'
<1> DEFINE k == Received(c)
           j == IF k.req = None THEN k ELSE ToUser(k)
<1>1. Receiving(c) /\ ~IsBad(k) /\ UNCHANGED <<fds, pc, history>>
  BY DEF RecvMore
<1>2. /\ k \in Parsed /\ k.open /\ k.ep = conn[c].ep /\ k.fd = conn[c].fd
      /\ conn[c].ep = "EP_FILE" => k.req = conn[c].req
  BY <1>1, ReceivedTyped
<1>3. k.req # Malformed
  BY <1>1 DEF IsBad
<1>4. conn' = [conn EXCEPT ![c] = j]
  BY DEF RecvMore
<1> HIDE DEF k
<1>5. /\ j \in State /\ j.open
      /\ k.ep = "EP_FILE" => j.ep = "EP_FILE" /\ j.req = k.req /\ j.fd = k.fd
      /\ k.ep # "EP_FILE" => j.ep # "EP_FILE"
  BY <1>2, <1>3, ToUserTyped, ParsedIsState
<1> HIDE DEF j
<1>6. QED BY <1>1, <1>2, <1>4, <1>5, HistoryKept, ReceivingKeeps

LEMMA RequestTyped ==
  ASSUME NEW k \in Parsed, IsRequest(k)
  PROVE  k.req \in Request /\ k.req.supported /\ k.ep # "EP_FILE"
BY DEF IsRequest, IsBad, Parsed

LEMMA RecvUnknownKeeps == ASSUME HInv, NEW c \in Conn, RecvUnknown(c) PROVE HInv'
<1> DEFINE k == [Received(c) EXCEPT !.ep = "EP_NONE"]
<1>1. Receiving(c) /\ IsRequest(Received(c)) /\ UNCHANGED <<fds, pc, history>>
  BY DEF RecvUnknown
<1>2. Received(c) \in Parsed /\ Received(c).open /\ Received(c).ep = conn[c].ep
  BY <1>1, ReceivedTyped
<1>3. conn[c].ep # "EP_FILE"
  BY <1>1, <1>2, RequestTyped
<1>4. k \in Parsed /\ k.open
  BY <1>2 DEF Parsed, Endpoint
<1>5. conn' = [conn EXCEPT ![c] = SendHttpError(k)]
  BY DEF RecvUnknown
<1> HIDE DEF k
<1>6. SendHttpError(k) \in State /\ SendHttpError(k).open /\ SendHttpError(k).ep # "EP_FILE"
  BY <1>4, SendHttpErrorTyped
<1>7. QED BY <1>1, <1>3, <1>5, <1>6, HistoryKept, ReceivingKeeps

LEMMA RecvForeignKeeps == ASSUME HInv, NEW c \in Conn, RecvForeign(c) PROVE HInv'
<1> DEFINE k == ToUser(Received(c))
<1>1. Receiving(c) /\ IsRequest(Received(c)) /\ UNCHANGED <<fds, pc, history>>
  BY DEF RecvForeign
<1>2. Received(c) \in Parsed /\ Received(c).open /\ Received(c).ep = conn[c].ep
  BY <1>1, ReceivedTyped
<1>3. conn[c].ep # "EP_FILE"
  BY <1>1, <1>2, RequestTyped
<1>4. k \in Parsed /\ k.open
  BY <1>2, ToUserTyped
<1>5. conn' = [conn EXCEPT ![c] = SendStatus(k)]
  BY DEF RecvForeign
<1> HIDE DEF k
<1>6. SendStatus(k) \in State /\ SendStatus(k).open /\ SendStatus(k).ep # "EP_FILE"
  BY <1>4, SendStatusTyped
<1>7. QED BY <1>1, <1>3, <1>5, <1>6, HistoryKept, ReceivingKeeps

LEMMA RecvGetJournalKeeps ==
  ASSUME HInv, NEW c \in Conn, RecvGetJournal(c) PROVE HInv'
<1> DEFINE k == ToUser(Received(c))
<1>1. /\ Receiving(c) /\ IsRequest(Received(c)) /\ UNCHANGED fds
      /\ pc' = "lookup" /\ conn' = [conn EXCEPT ![c] = k]
  BY DEF RecvGetJournal
<1>2. Received(c) \in Parsed /\ Received(c).open /\ Received(c).ep = conn[c].ep
  BY <1>1, ReceivedTyped
<1>3. /\ conn[c].ep # "EP_FILE" /\ Received(c).req \in Request
      /\ Received(c).req.supported
  BY <1>1, <1>2, RequestTyped
<1>4. k \in Parsed /\ k.open /\ k.ep = "EP_USER" /\ k.req = Received(c).req
  BY <1>2, <1>3, ToUserTyped
<1>5. k \in State
  BY <1>3, <1>4, ParsedIsState, RequestAssumption
<1>6. HistoryTyped'
  <2>1. <<>> \in Seq(Generation)
    OBVIOUS
  <2>2. QED BY <2>1, TypeParts DEF HInv, RecvGetJournal, HistoryTyped
<1> HIDE DEF k
<1>7. QED BY <1>1, <1>3, <1>4, <1>5, <1>6, ReceivingKeeps

-----------------------------------------------------------------------------
(* A request for a log is answered *)

Answering == pc \in {"lookup", "stat", "open"}

\* The connection that is answered has a request and no file yet.
LEMMA AnsweredConn ==
  ASSUME HInv, Answering
  PROVE  /\ cur \in Conn /\ conn[cur] \in State /\ conn[cur] \in Parsed
         /\ conn[cur].open /\ conn[cur].ep = "EP_USER"
         /\ conn[cur].req \in Request /\ conn[cur].req.supported
         /\ pc \in {"stat", "open"} => path \in Name
BY TypeParts, StateIsParsed DEF HInv, Control, Answering, ConnTyped

LEMMA AnsweringTyped ==
  ASSUME HInv, UNCHANGED AnsweringElsewhere, pc' \in {"io", "stat", "open"}
  PROVE  /\ ClientsTyped' /\ LoopTyped' /\ UNCHANGED disk
         /\ UNCHANGED <<cur, readSet, acceptable, accepted>>
BY TypeParts DEF HInv, AnsweringElsewhere, Untouched, clients, loop, ClientsTyped,
                 LoopTyped

\* The answer ends without a file.
LEMMA AnsweredKeeps ==
  ASSUME HInv, Answering, NEW k \in State, k.open, k.ep # "EP_FILE",
         conn' = [conn EXCEPT ![cur] = k],
         UNCHANGED <<AnsweringElsewhere, fds>>, pc' = "io",
         PathTyped', HistoryTyped'
  PROVE  HInv'
<1>1. ConnTyped /\ cur \in Conn /\ conn[cur].open /\ conn[cur].ep = "EP_USER"
  BY AnsweredConn, TypeParts DEF HInv
<1>2. /\ ClientsTyped' /\ LoopTyped' /\ UNCHANGED disk
      /\ UNCHANGED <<cur, readSet, acceptable, accepted>>
  BY AnsweringTyped
<1>3. /\ ConnTyped' /\ conn'[cur] = k
      /\ \A d \in Conn \ {cur} : conn'[d] = conn[d] /\ KeepsFile(d)
  BY <1>1, OneConn
<1>4. KeepsFile(cur)
  BY <1>1, <1>3 DEF KeepsFile
<1>5. Owned'
  BY <1>3, <1>4, OwnedKept DEF HInv
<1>6. Open \subseteq Open'
  BY <1>3 DEF Open
<1>7. Control'
  BY <1>2, <1>6 DEF HInv, Control
<1>8. FdsTyped'
  BY TypeParts DEF HInv, FdsTyped
<1>9. QED BY <1>2, <1>3, <1>5, <1>7, <1>8, Holds

LEMMA LookupKeeps == ASSUME HInv, Lookup PROVE HInv'
<1>1. Answering /\ pc = "lookup" /\ UNCHANGED <<AnsweringElsewhere, fds, size, sent>>
  BY DEF Lookup, Answering
<1>2. /\ cur \in Conn /\ conn[cur] \in Parsed /\ conn[cur].open
      /\ ConnTyped /\ FdsTyped /\ PathTyped /\ HistoryTyped
  BY <1>1, AnsweredConn, TypeParts DEF HInv
<1>3. PICK seen \in SUBSET Name :
        \/ /\ Cardinality(seen) = 1
           /\ path' \in seen
           /\ pc' = "stat"
           /\ UNCHANGED <<conn, since, outcome>>
        \/ /\ Cardinality(seen) # 1
           /\ conn' = [conn EXCEPT ![cur] = SendStatus(@)]
           /\ outcome' = [outcome EXCEPT ![cur] = "missing"]
           /\ since' = [since EXCEPT ![cur] =
                          IF \A n \in Name : dir[n] = None THEN @ \cup {"absent"} ELSE @]
           /\ pc' = "io"
           /\ UNCHANGED path
  BY DEF Lookup, Present
<1>4. CASE /\ path' \in seen
           /\ pc' = "stat"
           /\ UNCHANGED <<conn, since, outcome>>
  <2>1. /\ ClientsTyped' /\ LoopTyped' /\ UNCHANGED disk
        /\ UNCHANGED <<cur, readSet, acceptable, accepted>>
    BY <1>1, <1>4, AnsweringTyped
  <2>2. ConnTyped' /\ FdsTyped' /\ PathTyped' /\ HistoryTyped'
    BY <1>1, <1>2, <1>3, <1>4 DEF ConnTyped, FdsTyped, PathTyped, HistoryTyped
  <2>3. Owned'
    BY <1>1, <1>4, OwnedKept DEF HInv, KeepsFile
  <2>4. Control'
    BY <1>1, <1>3, <1>4, <2>1 DEF HInv, Control, Open
  <2>5. QED BY <2>1, <2>2, <2>3, <2>4, Holds
<1>5. CASE /\ conn' = [conn EXCEPT ![cur] = SendStatus(@)]
           /\ outcome' = [outcome EXCEPT ![cur] = "missing"]
           /\ since' = [since EXCEPT ![cur] =
                          IF \A n \in Name : dir[n] = None THEN @ \cup {"absent"} ELSE @]
           /\ pc' = "io"
           /\ UNCHANGED path
  <2>1. /\ SendStatus(conn[cur]) \in State /\ SendStatus(conn[cur]).open
        /\ SendStatus(conn[cur]).ep # "EP_FILE"
    BY <1>2, SendStatusTyped
  <2>2. PathTyped' /\ HistoryTyped'
    BY <1>1, <1>2, <1>5 DEF PathTyped, HistoryTyped
  <2>3. QED BY <1>1, <1>5, <2>1, <2>2, AnsweredKeeps
<1>6. QED BY <1>3, <1>4, <1>5

LEMMA VanishedKeeps == ASSUME HInv, Vanished PROVE HInv'
<1>1. /\ Answering /\ UNCHANGED <<AnsweringElsewhere, fds, since, sent>>
      /\ conn' = [conn EXCEPT ![cur] = SendHttpError(@)] /\ pc' = "io"
  BY DEF Vanished, Answering
<1>2. conn[cur] \in Parsed /\ conn[cur].open /\ HistoryTyped
  BY <1>1, AnsweredConn, TypeParts DEF HInv
<1>3. /\ SendHttpError(conn[cur]) \in State /\ SendHttpError(conn[cur]).open
      /\ SendHttpError(conn[cur]).ep # "EP_FILE"
  BY <1>2, SendHttpErrorTyped
<1>4. PathTyped' /\ HistoryTyped'
  BY <1>1, <1>2 DEF Vanished, PathTyped, HistoryTyped
<1>5. QED BY <1>1, <1>3, <1>4, AnsweredKeeps

LEMMA StatKeeps == ASSUME HInv, Stat PROVE HInv'
<1>1. /\ Answering /\ UNCHANGED <<AnsweringElsewhere, conn, fds, path, sent, outcome>>
      /\ pc = "stat" /\ pc' = "open"
  BY DEF Stat, Answering
<1>2. path \in Name /\ ConnTyped /\ FdsTyped /\ PathTyped /\ HistoryTyped /\ DiskTyped
  BY <1>1, AnsweredConn, TypeParts DEF HInv
<1>3. /\ ClientsTyped' /\ LoopTyped' /\ UNCHANGED disk
      /\ UNCHANGED <<cur, readSet, acceptable, accepted>>
  BY <1>1, AnsweringTyped
<1>4. size' \in Nat
  <2>1. dir[path] \in Inode
    BY <1>2 DEF Stat, DiskTyped
  <2>2. content[dir[path]] \in Seq(Generation)
    BY <1>2, <2>1 DEF DiskTyped
  <2>3. QED BY <2>2 DEF Stat
<1>5. ConnTyped' /\ FdsTyped' /\ PathTyped' /\ HistoryTyped'
  BY <1>1, <1>2, <1>4 DEF Stat, ConnTyped, FdsTyped, PathTyped, HistoryTyped
<1>6. Owned'
  BY <1>1, OwnedKept DEF HInv, KeepsFile
<1>7. Control'
  BY <1>1, <1>3 DEF HInv, Control, Open
<1>8. QED BY <1>3, <1>5, <1>6, <1>7, Holds

LEMMA PromisedTyped ==
  ASSUME NEW r \in Request, NEW n \in Nat
  PROVE  Promised(r, n) \in Nat
<1>1. r.until \in Nat \cup {None}
  BY RequestAssumption
<1>2. CASE r.until = None
  BY <1>2 DEF Promised
<1>3. CASE r.until # None
  <2>1. {r.until, n} \in SUBSET Nat /\ {r.until, n} # {}
    BY <1>1, <1>3
  <2>2. Min({r.until, n}) \in Nat
    BY <2>1, MinIsLeast
  <2>3. QED BY <1>3, <2>2 DEF Promised
<1>4. QED BY <1>2, <1>3

LEMMA OpenFileKeeps == ASSUME HInv, OpenFile PROVE HInv'
<1> DEFINE k == conn[cur]
           f == Min({g \in Fd : fds[g] = None})
           n == Promised(k.req, size)
           h == [k EXCEPT !.send = Append(@, "head"), !.cl = n]
           head == [h EXCEPT !.ep = "EP_NONE", !.flags = @ \cup {"finishedSendingData"}]
           body == [h EXCEPT !.ep = "EP_FILE", !.fd = f]
<1>1. /\ Answering /\ pc = "open" /\ pc' = "io"
      /\ UNCHANGED <<AnsweringElsewhere, sent, outcome>>
      /\ path' = None /\ size' = 0
  BY DEF OpenFile, Answering
<1>2. /\ cur \in Conn /\ k \in State /\ k.open /\ k.ep = "EP_USER"
      /\ k.req \in Request /\ k.req.supported /\ path \in Name
  BY <1>1, AnsweredConn
<1>3. ConnTyped /\ FdsTyped /\ HistoryTyped /\ DiskTyped /\ PathTyped /\ Owned
  BY TypeParts DEF HInv
<1>4. n \in Nat
  BY <1>2, <1>3, PromisedTyped DEF PathTyped
<1>5. Append(k.send, "head") \in Seq({"head", "chunk", "block"})
  BY <1>2 DEF State
<1>6. f \in Fd /\ fds[f] = None
  <2>1. {g \in Fd : fds[g] = None} \in SUBSET Nat
    BY NumberAssumption
  <2>2. {g \in Fd : fds[g] = None} # {}
    BY DEF OpenFile
  <2>3. QED BY <2>1, <2>2, MinIsLeast
<1>7. PathTyped'
  BY <1>1 DEF PathTyped
<1>8. CASE conn' = [conn EXCEPT ![cur] = head] /\ UNCHANGED <<fds, since>>
  <2> HIDE DEF n
  <2>1. head \in State /\ head.open /\ head.ep # "EP_FILE"
    BY <1>2, <1>4, <1>5 DEF State, Endpoint, Flag
  <2>2. HistoryTyped'
    BY <1>1, <1>3, <1>8 DEF HistoryTyped
  <2> HIDE DEF head
  <2>3. QED BY <1>1, <1>7, <1>8, <2>1, <2>2, AnsweredKeeps
<1>9. CASE /\ conn' = [conn EXCEPT ![cur] = body]
           /\ fds' = [fds EXCEPT ![f] = dir[path]]
           /\ since' = [since EXCEPT ![cur] =
                          IF k.req.until # None /\ k.req.until >= size
                          THEN @ \cup {"pastEnd"} ELSE @]
  <2> HIDE DEF n, f
  <2>1. /\ body \in State /\ body.open /\ body.ep = "EP_FILE" /\ body.fd = f
        /\ body.req = k.req
    BY <1>2, <1>4, <1>5, <1>6 DEF State, Endpoint
  <2>2. dir[path] \in Inode
    BY <1>2, <1>3 DEF OpenFile, DiskTyped
  <2> HIDE DEF body
  <2>3. /\ ConnTyped' /\ conn'[cur] = body
        /\ \A d \in Conn \ {cur} : conn'[d] = conn[d] /\ KeepsFile(d)
    BY <1>2, <1>3, <1>9, <2>1, OneConn
  <2>4. FdsTyped'
    BY <1>3, <1>6, <1>9, <2>2 DEF FdsTyped
  <2>5. Owned'
    BY <1>2, <1>3, <1>6, <1>9, <2>1, <2>2, <2>3, OwnedOpened
  <2>6. HistoryTyped'
    BY <1>1, <1>2, <1>3, <1>9 DEF HistoryTyped
  <2>7. /\ ClientsTyped' /\ LoopTyped' /\ UNCHANGED disk
        /\ UNCHANGED <<cur, readSet, acceptable, accepted>>
    BY <1>1, AnsweringTyped
  <2>8. Open \subseteq Open'
    BY <2>1, <2>3 DEF Open
  <2>9. Control'
    BY <1>1, <2>7, <2>8 DEF HInv, Control
  <2>10. QED BY <1>7, <2>3, <2>4, <2>5, <2>6, <2>7, <2>9, Holds
<1>10. QED BY <1>8, <1>9 DEF OpenFile

-----------------------------------------------------------------------------
(* The rest of a round *)

\* A connection keeps its request and its file, and the server goes on.
LEMMA RoundKeeps ==
  ASSUME HInv, NEW c \in Conn, NEW k \in State,
         k.open = conn[c].open, k.ep = conn[c].ep, k.req = conn[c].req,
         k.fd = conn[c].fd,
         conn' = [conn EXCEPT ![c] = k],
         UNCHANGED <<disk, clients, fds, acceptable, path, size, history>>,
         LoopTyped', pc = "io", pc' = "io", readSet' \subseteq readSet
  PROVE  HInv'
<1>1. ConnTyped
  BY TypeParts DEF HInv
<1>2. /\ ConnTyped' /\ conn'[c] = k
      /\ \A d \in Conn \ {c} : conn'[d] = conn[d] /\ KeepsFile(d)
  BY <1>1, OneConn
<1>3. KeepsFile(c)
  BY <1>2 DEF KeepsFile
<1>4. Owned'
  BY <1>2, <1>3, OwnedKept DEF HInv
<1>5. Open' = Open
  BY <1>2 DEF Open
<1>6. Control'
  BY <1>5 DEF HInv, Control, clients
<1>7. ClientsTyped' /\ FdsTyped' /\ PathTyped' /\ HistoryTyped'
  BY TypeParts DEF HInv, clients, history, ClientsTyped, FdsTyped, PathTyped,
                   HistoryTyped
<1>8. QED BY <1>2, <1>4, <1>6, <1>7, Holds

LEMMA RecvEndKeeps == ASSUME HInv, NEW c \in Conn, RecvEnd(c) PROVE HInv'
<1> DEFINE k == [conn[c] EXCEPT !.idle = 0,
                   !.flags = IF gone[c] THEN @ \cup {"closeImmediately"} ELSE @]
<1>1. conn[c] \in State /\ 0 \in 0..IdleTimeout + 1
  BY TypeParts, NumberAssumption DEF HInv, ConnTyped
<1>2. /\ k \in State
      /\ k.open = conn[c].open /\ k.ep = conn[c].ep /\ k.req = conn[c].req
      /\ k.fd = conn[c].fd
  BY <1>1 DEF State, Flag
<1>3. conn' = [conn EXCEPT ![c] = k]
  BY DEF RecvEnd
<1>4. LoopTyped' /\ pc = "io" /\ pc' = "io" /\ readSet' \subseteq readSet
  BY TypeParts DEF HInv, RecvEnd, LoopTyped
<1>5. UNCHANGED <<disk, clients, fds, acceptable, path, size, history>>
  BY DEF RecvEnd, Untouched
<1> HIDE DEF k
<1>6. QED BY <1>2, <1>3, <1>4, <1>5, RoundKeeps

LEMMA WriteKeeps == ASSUME HInv, NEW c \in Conn, Write(c) PROVE HInv'
<1>1. conn[c] \in State /\ 0 \in 0..IdleTimeout + 1
  BY TypeParts, NumberAssumption DEF HInv, ConnTyped
<1>2. PICK k \in State :
        /\ conn' = [conn EXCEPT ![c] = k]
        /\ k.open = conn[c].open /\ k.ep = conn[c].ep /\ k.req = conn[c].req
        /\ k.fd = conn[c].fd
  <2>1. ASSUME NEW n \in 1..Len(conn[c].send),
               conn' = [conn EXCEPT ![c] =
                 [conn[c] EXCEPT !.send = SubSeq(@, n + 1, Len(@)), !.idle = 0]]
        PROVE  \E k \in State :
                 /\ conn' = [conn EXCEPT ![c] = k]
                 /\ k.open = conn[c].open /\ k.ep = conn[c].ep
                 /\ k.req = conn[c].req /\ k.fd = conn[c].fd
    <3> DEFINE s == SubSeq(conn[c].send, n + 1, Len(conn[c].send))
               k == [conn[c] EXCEPT !.send = s, !.idle = 0]
    <3>1. s \in Seq({"head", "chunk", "block"})
      BY <1>1 DEF State
    <3>2. conn' = [conn EXCEPT ![c] = k]
      BY <2>1
    <3> HIDE DEF s
    <3>3. /\ k \in State /\ k.open = conn[c].open /\ k.ep = conn[c].ep
          /\ k.req = conn[c].req /\ k.fd = conn[c].fd
      BY <1>1, <3>1 DEF State
    <3> HIDE DEF k
    <3>4. QED BY <3>2, <3>3
  <2>2. ASSUME conn' = [conn EXCEPT ![c] =
                 [conn[c] EXCEPT !.idle = 0, !.flags = @ \cup {"closeImmediately"}]]
        PROVE  \E k \in State :
                 /\ conn' = [conn EXCEPT ![c] = k]
                 /\ k.open = conn[c].open /\ k.ep = conn[c].ep
                 /\ k.req = conn[c].req /\ k.fd = conn[c].fd
    <3> DEFINE k == [conn[c] EXCEPT !.idle = 0, !.flags = @ \cup {"closeImmediately"}]
    <3>1. conn' = [conn EXCEPT ![c] = k]
      BY <2>2
    <3>2. /\ k \in State /\ k.open = conn[c].open /\ k.ep = conn[c].ep
          /\ k.req = conn[c].req /\ k.fd = conn[c].fd
      BY <1>1 DEF State, Flag
    <3> HIDE DEF k
    <3>3. QED BY <3>1, <3>2
  <2>3. QED BY <2>1, <2>2 DEF Write
<1>3. LoopTyped' /\ pc = "io" /\ pc' = "io" /\ readSet' \subseteq readSet
  BY TypeParts DEF HInv, Write, LoopTyped
<1>4. UNCHANGED <<disk, clients, fds, acceptable, path, size, history>>
  BY DEF Write, Untouched
<1>5. QED BY <1>2, <1>3, <1>4, RoundKeeps

LEMMA SweepKeeps == ASSUME HInv, Sweep PROVE HInv'
<1>1. /\ ConnTyped /\ ClientsTyped /\ FdsTyped /\ HistoryTyped /\ LoopTyped
      /\ PathTyped /\ Owned
  BY TypeParts DEF HInv
<1>2. /\ conn' = [c \in Conn |-> IF c \in Closing THEN Free ELSE conn[c]]
      /\ fds' = [f \in Fd |->
           IF \E c \in Closing : conn[c].ep = "EP_FILE" /\ conn[c].fd = f
           THEN None ELSE fds[f]]
      /\ pc' = IF last THEN "done" ELSE "poll"
      /\ todo' = Open \ Closing /\ last' = stop
      /\ readSet = {} /\ ~acceptable
      /\ UNCHANGED <<disk, accepted, cur, readSet, writeSet, listening, acceptable,
                     stop, path, size>>
  BY DEF Sweep, Stopping
<1>3. Closing \subseteq Open /\ Open \subseteq Conn
  BY DEF Closing, Open
<1>4. /\ ConnTyped' /\ FdsTyped'
  BY <1>1, <1>2, FreeTyped DEF ConnTyped, FdsTyped
<1>5. ClientsTyped' /\ HistoryTyped'
  <2>1. <<>> \in Seq(Token) /\ <<>> \in Seq(Generation)
    OBVIOUS
  <2>2. /\ stream' = [c \in Conn |-> IF c \in Closing THEN <<>> ELSE stream[c]]
        /\ arrived' = [c \in Conn |-> IF c \in Closing THEN <<>> ELSE arrived[c]]
        /\ gone' = [c \in Conn |-> IF c \in Closing THEN FALSE ELSE gone[c]]
        /\ since' = [c \in Conn |-> IF c \in Closing THEN {} ELSE since[c]]
        /\ sent' = [c \in Conn |-> IF c \in Closing THEN <<>> ELSE sent[c]]
        /\ outcome' = [c \in Conn |-> IF c \in Closing THEN "none" ELSE outcome[c]]
    BY DEF Sweep
  <2>3. ClientsTyped'
    BY <1>1, <1>2, <2>1, <2>2 DEF ClientsTyped
  <2>4. HistoryTyped'
    BY <1>1, <2>1, <2>2 DEF HistoryTyped
  <2>5. QED BY <2>3, <2>4
<1>6. LoopTyped' /\ PathTyped'
  BY <1>1, <1>2, <1>3 DEF LoopTyped, PathTyped
<1>7. Owned'
  <2>1. ASSUME NEW c \in Conn, conn'[c].ep = "EP_FILE"
        PROVE  c \notin Closing /\ conn'[c] = conn[c]
    BY <1>2, <2>1, FreeTyped
  <2>2. ASSUME NEW c \in Conn, conn'[c].ep = "EP_FILE"
        PROVE  /\ conn'[c].open /\ conn'[c].req \in Request /\ conn'[c].req.supported
               /\ conn'[c].fd \in Fd /\ fds'[conn'[c].fd] # None
    <3>1. /\ conn[c].ep = "EP_FILE" /\ conn[c].open /\ conn[c].req \in Request
          /\ conn[c].req.supported /\ conn[c].fd \in Fd /\ fds[conn[c].fd] # None
      BY <1>1, <2>1, <2>2 DEF Owned
    <3>2. ~ \E d \in Closing : conn[d].ep = "EP_FILE" /\ conn[d].fd = conn[c].fd
      BY <1>1, <1>3, <2>1, <2>2, <3>1 DEF Owned
    <3>3. fds'[conn[c].fd] = fds[conn[c].fd]
      BY <1>2, <3>1, <3>2
    <3>4. QED BY <2>1, <2>2, <3>1, <3>3
  <2>3. \A c, d \in Conn :
          conn'[c].ep = "EP_FILE" /\ conn'[d].ep = "EP_FILE" /\ conn'[c].fd = conn'[d].fd
          => c = d
    BY <1>1, <2>1 DEF Owned
  <2>4. ASSUME NEW f \in Fd, fds'[f] # None
        PROVE  \E c \in Conn : conn'[c].ep = "EP_FILE" /\ conn'[c].fd = f
    <3>1. /\ fds[f] # None
          /\ ~ \E c \in Closing : conn[c].ep = "EP_FILE" /\ conn[c].fd = f
      BY <1>2, <2>4
    <3>2. PICK c \in Conn : conn[c].ep = "EP_FILE" /\ conn[c].fd = f
      BY <1>1, <3>1 DEF Owned
    <3>3. conn'[c] = conn[c]
      BY <1>2, <3>1, <3>2
    <3>4. QED BY <3>2, <3>3
  <2>5. QED BY <2>2, <2>3, <2>4 DEF Owned
<1>8. Control'
  <2>1. last => Closing = Open
    BY DEF Closing, Open
  <2>2. last => Open' = {}
    BY <1>2, <2>1, FreeTyped DEF Open
  <2>3. QED BY <1>2, <2>2 DEF Control
<1>9. QED BY <1>2, <1>4, <1>5, <1>6, <1>7, <1>8, Holds

-----------------------------------------------------------------------------
(* The theorems *)

LEMMA StepHolds == HInv /\ [Next]_vars => HInv'
<1> SUFFICES ASSUME HInv, [Next]_vars PROVE HInv'
  OBVIOUS
<1>1. CASE RpcThread
  BY <1>1, RpcThreadKeeps
<1>2. ASSUME NEW c \in Conn, Arrive(c) \/ Leave(c) PROVE HInv'
  BY <1>2, ClientsKeep
<1>3. CASE Tick \/ Signal
  BY <1>3, TickKeeps, SignalKeeps
<1>4. CASE ServerThread
  BY <1>4, CreateServerKeeps, PollTransferKeeps, PollCloseKeeps, PollNothingKeeps,
     SelectKeeps, AcceptKeeps, RecvBadKeeps, RecvMoreKeeps, RecvUnknownKeeps,
     RecvForeignKeeps, RecvGetJournalKeeps, LookupKeeps, VanishedKeeps, StatKeeps,
     OpenFileKeeps, RecvEndKeeps, WriteKeeps, SweepKeeps DEF ServerThread
<1>5. CASE UNCHANGED vars
  <2>1. /\ DiskTyped' /\ ClientsTyped' /\ LoopTyped' /\ PathTyped' /\ HistoryTyped'
        /\ UNCHANGED disk
    BY <1>5, TypeParts DEF HInv, vars, disk, clients, loop, history, DiskTyped,
       ClientsTyped, LoopTyped, PathTyped, HistoryTyped
  <2>2. Owned' /\ Control' /\ ConnTyped' /\ FdsTyped'
    BY <1>5, ServerAlone DEF vars, clients, loop
  <2>3. QED BY <2>1, <2>2, Holds
<1>6. QED BY <1>1, <1>2, <1>3, <1>4, <1>5 DEF Next

\* The invariant that the theorems below rest on: what is read, polled, answered
\* and closed, and by which descriptor, in every state of the server.
THEOREM ServerInvariant == Spec => []HInv
BY InitHolds, StepHolds, PTL DEF Spec

\* Every variable keeps its type, for any connections, requests, files and
\* bounds; a request that mongoose refused is never left in a connection.
THEOREM ServerTypeCorrect == Spec => []TypeOK
<1>1. HInv => TypeOK
  BY DEF HInv
<1>2. QED BY <1>1, ServerInvariant, PTL

\* Each open descriptor is that of one response in progress, and the other way
\* round, whatever way responses end (close_local_endpoint, mongoose.c:4695).
THEOREM DescriptorsHaveOwners == Spec => []DescriptorsAreOwned
<1>1. ASSUME HInv PROVE DescriptorsAreOwned
  <2>1. \A c, d \in Serving : conn[c].fd = conn[d].fd => c = d
    BY <1>1 DEF HInv, Owned, Serving
  <2>2. ASSUME NEW f \in Fd, fds[f] # None
        PROVE  f \in {conn[c].fd : c \in Serving}
    BY <1>1, <2>2 DEF HInv, Owned, Serving
  <2>3. ASSUME NEW c \in Serving
        PROVE  conn[c].fd \in {f \in Fd : fds[f] # None}
    BY <1>1 DEF HInv, Owned, Serving
  <2>4. QED BY <2>1, <2>2, <2>3 DEF DescriptorsAreOwned
<1>2. QED BY <1>1, ServerInvariant, PTL

\* A server that has stopped has closed every connection and every file
\* (ns_mgr_free, mongoose.c).
THEOREM StoppedIsClosed == Spec => []StoppedMeansClosed
<1>1. ASSUME HInv PROVE StoppedMeansClosed
  <2>1. ASSUME pc = "done" PROVE Open = {} /\ \A f \in Fd : fds[f] = None
    <3>1. Open = {}
      BY <1>1, <2>1 DEF HInv, Control
    <3>2. ASSUME NEW f \in Fd, fds[f] # None PROVE FALSE
      <4>1. PICK c \in Conn : conn[c].ep = "EP_FILE"
        BY <1>1, <3>2 DEF HInv, Owned
      <4>2. conn[c].open
        BY <1>1, <4>1 DEF HInv, Owned
      <4>3. QED BY <3>1, <4>2 DEF Open
    <3>3. QED BY <3>1, <3>2
  <2>2. QED BY <2>1 DEF StoppedMeansClosed
<1>2. QED BY <1>1, ServerInvariant, PTL
-----------------------------------------------------------------------------
(* What a response is made of *)

\* The blocks of a file are of one generation, those of the segment in progress
\* of the one that is appended now; and the segment has one name.
SegmentOk ==
  /\ \A i \in Inode : \A a, b \in DOMAIN content[i] : content[i][a] = content[i][b]
  /\ dir["edits_inprogress"] # None =>
       \A b \in DOMAIN content[dir["edits_inprogress"]] :
         content[dir["edits_inprogress"]][b] = generation
  /\ dir["edits_inprogress"] = None \/ dir["edits"] = None

\* The file a connection sends.
FileSent(c) == content[fds[conn[c].fd]]

\* What was sent of a file that was not truncated is like what the file holds.
BodyOk(c) ==
  "cut" \notin since[c] =>
    /\ \A i, j \in DOMAIN sent[c] : sent[c][i] = sent[c][j]
    /\ conn[c].ep = "EP_FILE" /\ sent[c] # <<>> =>
         /\ FileSent(c) # <<>>
         /\ \A i \in DOMAIN sent[c], b \in DOMAIN FileSent(c) :
              sent[c][i] = FileSent(c)[b]

\* What is left to send is there.
LeftOk(c) ==
  /\ conn[c].ep # "EP_FILE" => conn[c].off = 0
  /\ conn[c].ep = "EP_FILE" /\ since[c] \cap {"cut", "moved", "pastEnd"} = {}
     => conn[c].off + conn[c].cl <= Len(FileSent(c))

OutcomeOk(c) ==
  /\ outcome[c] = "short" => since[c] \cap {"cut", "moved", "pastEnd"} # {}
  /\ outcome[c] \in {"missing", "vanished"} => since[c] \cap {"absent", "moved"} # {}

ResponseOk(c) == BodyOk(c) /\ LeftOk(c) /\ OutcomeOk(c)

\* Where the answer to a request is made: nothing was sent, and what was seen of
\* the segment is so unless it moved.
AnswerOk ==
  /\ pc \in {"lookup", "stat", "open"} => sent[cur] = <<>> /\ outcome[cur] = "none"
  /\ pc \in {"stat", "open"} => "moved" \in since[cur] \/ dir[path] # None
  /\ pc = "open" /\ since[cur] \cap {"cut", "moved"} = {} =>
       size <= Len(content[dir[path]])

\* How many blocks of a file wait to be sent.
Blocks(buffer) == {i \in DOMAIN buffer : buffer[i] = "block"}
BufferOk(c) == Cardinality(Blocks(conn[c].send)) <= 3 * BlockSize

\* What holds of the responses.
ResponsesOk ==
  /\ SegmentOk /\ AnswerOk
  /\ \A c \in Conn : ResponseOk(c) /\ BufferOk(c)

\* Blocks of a buffer are not more than its length.
LEMMA BlocksAreFew ==
  ASSUME NEW S, NEW b \in Seq(S)
  PROVE  /\ IsFiniteSet(Blocks(b)) /\ Cardinality(Blocks(b)) \in Nat
         /\ Cardinality(Blocks(b)) <= Len(b)
<1>1. Len(b) \in Nat /\ DOMAIN b = 1..Len(b)
  OBVIOUS
<1>2. Blocks(b) \in SUBSET (1..Len(b))
  BY <1>1 DEF Blocks
<1>3. IsFiniteSet(1..Len(b)) /\ Cardinality(1..Len(b)) = Len(b)
  BY <1>1, FS_Interval
<1>4. IsFiniteSet(Blocks(b)) /\ Cardinality(Blocks(b)) <= Len(b)
  BY <1>2, <1>3, FS_Subset
<1>5. QED BY <1>4, FS_CardinalityType

\* A header or a chunk is none.
LEMMA BlocksAppend ==
  ASSUME NEW S, NEW b \in Seq(S), NEW u \in S, u # "block"
  PROVE  Blocks(Append(b, u)) = Blocks(b)
BY DEF Blocks

\* What was sent takes blocks away.
LEMMA BlocksOfRest ==
  ASSUME NEW S, NEW b \in Seq(S), NEW n \in 1..Len(b)
  PROVE  Cardinality(Blocks(SubSeq(b, n + 1, Len(b)))) <= Cardinality(Blocks(b))
<1> DEFINE r == SubSeq(b, n + 1, Len(b))
           shift == [i \in Blocks(r) |-> i + n]
<1>1. /\ r \in Seq(S) /\ Len(r) = Len(b) - n
      /\ \A i \in 1..Len(r) : r[i] = b[n + i]
  OBVIOUS
<1> HIDE DEF r
<1>2. \A i \in Blocks(r) : i \in Int /\ i + n \in Blocks(b)
  BY <1>1 DEF Blocks
<1>3. shift \in Injection(Blocks(r), Blocks(b))
  BY <1>2 DEF Injection, IsInjective
<1> HIDE DEF shift
<1>4. Cardinality(Blocks(r)) <= Cardinality(Blocks(b))
  BY <1>3, BlocksAreFew, FS_Injection
<1>5. QED BY <1>4 DEF r

\* A block is read into a buffer that is not full.
LEMMA BlocksOfMore ==
  ASSUME NEW b \in Seq({"head", "chunk", "block"}), NEW n \in Nat, n <= BlockSize,
         Len(b) <= 2 * BlockSize
  PROVE  Cardinality(Blocks(b \o [i \in 1..n |-> "block"])) <= 3 * BlockSize
<1> DEFINE m == [i \in 1..n |-> "block"]
<1>1. m \in Seq({"head", "chunk", "block"}) /\ Len(m) = n
  OBVIOUS
<1> HIDE DEF m
<1>2. b \o m \in Seq({"head", "chunk", "block"}) /\ Len(b \o m) = Len(b) + n
  BY <1>1
<1>3. Cardinality(Blocks(b \o m)) \in Nat /\ Cardinality(Blocks(b \o m)) <= Len(b) + n
  BY <1>2, BlocksAreFew
<1>4. Len(b) \in Nat /\ BlockSize \in Nat
  BY NumberAssumption
<1>5. Cardinality(Blocks(b \o m)) <= 3 * BlockSize
  BY <1>3, <1>4
<1>6. QED BY <1>5 DEF m

\* What is left of a file when the endpoint closes: nothing.
LEMMA CloseClears ==
  ASSUME NEW k \in Parsed
  PROVE  /\ CloseLocalEndpoint(k).off = 0 /\ CloseLocalEndpoint(k).ep = "EP_NONE"
         /\ CloseLocalEndpoint(k).send = k.send
BY DEF CloseLocalEndpoint, Parsed

LEMMA ErrorClears ==
  ASSUME NEW k \in Parsed
  PROVE  /\ SendHttpError(k).off = 0 /\ SendHttpError(k).ep = "EP_NONE"
         /\ Blocks(SendHttpError(k).send) = Blocks(k.send)
<1> DEFINE j == [k EXCEPT !.send = Append(@, "head")]
<1>1. k.send \in Seq({"head", "chunk", "block"})
  BY DEF Parsed
<1>2. Append(k.send, "head") \in Seq({"head", "chunk", "block"})
  BY <1>1
<1>3. j \in Parsed /\ j.send = Append(k.send, "head")
  BY <1>2 DEF Parsed
<1>4. SendHttpError(k) = CloseLocalEndpoint(j)
  BY DEF SendHttpError
<1> HIDE DEF j
<1>5. Blocks(Append(k.send, "head")) = Blocks(k.send)
  BY <1>1, BlocksAppend
<1>6. QED BY <1>3, <1>4, <1>5, CloseClears

LEMMA StatusClears ==
  ASSUME NEW k \in Parsed
  PROVE  /\ SendStatus(k).off = 0 /\ SendStatus(k).ep = "EP_NONE"
         /\ Blocks(SendStatus(k).send) = Blocks(k.send)
<1> DEFINE a == Append(k.send, "head")
           b == Append(a, "chunk")
           d == Append(b, "chunk")
           j == [k EXCEPT !.send = d]
<1>1. k.send \in Seq({"head", "chunk", "block"})
  BY DEF Parsed
<1>2. a \in Seq({"head", "chunk", "block"}) /\ Blocks(a) = Blocks(k.send)
  BY <1>1, BlocksAppend
<1>3. b \in Seq({"head", "chunk", "block"}) /\ Blocks(b) = Blocks(a)
  <2> HIDE DEF a
  <2>1. QED BY <1>2, BlocksAppend
<1>4. d \in Seq({"head", "chunk", "block"}) /\ Blocks(d) = Blocks(b)
  <2> HIDE DEF b
  <2>1. QED BY <1>3, BlocksAppend
<1>5. j \in Parsed /\ j.send = d
  BY <1>4 DEF Parsed
<1>6. SendStatus(k) = CloseLocalEndpoint(j)
  BY DEF SendStatus, WriteChunk
<1> HIDE DEF j
<1>7. QED BY <1>2, <1>3, <1>4, <1>5, <1>6, CloseClears

-----------------------------------------------------------------------------
(* The responses a step leaves alone *)

\* c sends on as before, or sends no file.
SendsOn(c) ==
  /\ conn'[c].ep = conn[c].ep /\ conn'[c].off = conn[c].off
  /\ conn[c].ep = "EP_FILE" => /\ conn'[c].cl = conn[c].cl
                               /\ fds'[conn'[c].fd] = fds[conn[c].fd]

SendsNothing(c) == conn'[c].ep # "EP_FILE" /\ conn'[c].off = 0

\* More may have befallen the segment, but its files are as they were.
LEMMA ResponseKept ==
  ASSUME NEW c \in Conn, ResponseOk(c), UNCHANGED content,
         since[c] \subseteq since'[c], sent'[c] = sent[c], outcome'[c] = outcome[c],
         SendsOn(c) \/ SendsNothing(c)
  PROVE  ResponseOk(c)'
<1>1. BodyOk(c)'
  BY DEF ResponseOk, BodyOk, FileSent, SendsOn, SendsNothing
<1>2. LeftOk(c)'
  BY DEF ResponseOk, LeftOk, FileSent, SendsOn, SendsNothing
<1>3. OutcomeOk(c)'
  BY DEF ResponseOk, OutcomeOk
<1>4. QED BY <1>1, <1>2, <1>3 DEF ResponseOk

LEMMA BufferKept ==
  ASSUME NEW c \in Conn, BufferOk(c), Blocks(conn'[c].send) = Blocks(conn[c].send)
  PROVE  BufferOk(c)'
BY DEF BufferOk

\* Connection d and its file are not touched.
Untouching(d) ==
  /\ conn'[d] = conn[d]
  /\ conn[d].ep = "EP_FILE" => fds'[conn[d].fd] = fds[conn[d].fd]
  /\ since'[d] = since[d] /\ sent'[d] = sent[d] /\ outcome'[d] = outcome[d]

\* A step changes one connection at most.
LEMMA OneResponse ==
  ASSUME ResponsesOk, UNCHANGED disk, NEW c \in Conn,
         \A d \in Conn \ {c} : Untouching(d),
         ResponseOk(c)', BufferOk(c)', AnswerOk'
  PROVE  ResponsesOk'
<1>1. SegmentOk'
  BY DEF ResponsesOk, SegmentOk, disk
<1>2. ASSUME NEW d \in Conn, d # c PROVE ResponseOk(d)' /\ BufferOk(d)'
  <2>1. Untouching(d)
    BY <1>2
  <2>2. SendsOn(d)
    BY <2>1 DEF Untouching, SendsOn
  <2>3. ResponseOk(d)'
    BY <2>1, <2>2, ResponseKept DEF ResponsesOk, Untouching, disk
  <2>4. BufferOk(d)'
    BY <2>1, BufferKept DEF ResponsesOk, Untouching
  <2>5. QED BY <2>3, <2>4
<1>3. QED BY <1>1, <1>2 DEF ResponsesOk

\* A step changes no response.
LEMMA AllResponses ==
  ASSUME ResponsesOk, UNCHANGED <<disk, fds, history>>,
         \A c \in Conn : /\ SendsOn(c)
                         /\ Blocks(conn'[c].send) = Blocks(conn[c].send),
         AnswerOk'
  PROVE  ResponsesOk'
<1>1. SegmentOk'
  BY DEF ResponsesOk, SegmentOk, disk
<1>2. ASSUME NEW c \in Conn PROVE ResponseOk(c)' /\ BufferOk(c)'
  BY ResponseKept, BufferKept DEF ResponsesOk, disk, history
<1>3. QED BY <1>1, <1>2 DEF ResponsesOk

LEMMA AnswerKept ==
  ASSUME AnswerOk, UNCHANGED <<disk, pc, cur, path, size, history>>
  PROVE  AnswerOk'
BY DEF AnswerOk, disk, history

LEMMA NoAnswerKept ==
  ASSUME pc' \notin {"lookup", "stat", "open"}
  PROVE  AnswerOk'
BY DEF AnswerOk

\* Steps that change neither connections nor what was sent.
LEMMA NothingSent ==
  ASSUME ResponsesOk, UNCHANGED <<disk, conn, fds, history>>,
         \/ pc' \notin {"lookup", "stat", "open"}
         \/ UNCHANGED <<pc, cur, path, size>>
  PROVE  ResponsesOk'
<1>1. AnswerOk'
  BY AnswerKept, NoAnswerKept DEF ResponsesOk
<1>2. \A c \in Conn : SendsOn(c)
  BY DEF SendsOn
<1>3. QED BY <1>1, <1>2, AllResponses

LEMMA InitResponses == Init => ResponsesOk
<1> SUFFICES ASSUME Init PROVE ResponsesOk
  OBVIOUS
<1>1. Min(Inode) \in Inode
  BY NumberAssumption, MinIsLeast
<1>2. /\ FirstFile \in Seq({0})
      /\ dir["edits"] = None /\ dir["edits_inprogress"] = Min(Inode)
  BY StreamAssumption DEF Init, Name
<1>3. \A i \in Inode : \A a \in DOMAIN content[i] : content[i][a] = 0
  BY <1>2 DEF Init
<1>4. SegmentOk
  BY <1>1, <1>2, <1>3 DEF Init, SegmentOk
<1>5. AnswerOk
  BY DEF Init, AnswerOk
<1>6. ASSUME NEW c \in Conn PROVE ResponseOk(c) /\ BufferOk(c)
  <2>1. /\ conn[c].ep = "EP_NONE" /\ conn[c].off = 0 /\ conn[c].send = <<>>
        /\ since[c] = {} /\ sent[c] = <<>> /\ outcome[c] = "none"
    BY DEF Init, Free
  <2>2. ResponseOk(c)
    BY <2>1 DEF ResponseOk, BodyOk, LeftOk, OutcomeOk
  <2>3. Blocks(conn[c].send) = {}
    BY <2>1 DEF Blocks
  <2>4. BufferOk(c)
    BY <2>3, FS_EmptySet, NumberAssumption DEF BufferOk
  <2>5. QED BY <2>2, <2>4
<1>7. QED BY <1>4, <1>5, <1>6 DEF ResponsesOk
-----------------------------------------------------------------------------
(* The RPC thread and the responses *)

\* A file grows by blocks like those it has, or was empty.
Grown(i) ==
  /\ Len(content'[i]) >= Len(content[i])
  /\ content[i] # <<>> =>
       \A b \in DOMAIN content'[i] : \E a \in DOMAIN content[i] :
         content'[i][b] = content[i][a]

LEMMA SentFile ==
  ASSUME HInv, NEW c \in Conn, conn[c].ep = "EP_FILE"
  PROVE  fds[conn[c].fd] \in Inode /\ FileSent(c) \in Seq(Generation)
<1>1. conn[c].fd \in Fd /\ fds[conn[c].fd] # None
  BY DEF HInv, Owned
<1>2. fds[conn[c].fd] \in Inode
  BY <1>1, TypeParts DEF HInv, FdsTyped
<1>3. QED BY <1>2, TypeParts DEF HInv, DiskTyped, FileSent

LEMMA GrownResponse ==
  ASSUME HInv, DiskTyped', NEW c \in Conn, ResponseOk(c), \A i \in Inode : Grown(i),
         UNCHANGED <<conn, fds, sent, outcome>>, since[c] \subseteq since'[c]
  PROVE  ResponseOk(c)'
<1>1. conn[c].ep = "EP_FILE" =>
        /\ FileSent(c) \in Seq(Generation) /\ FileSent(c)' \in Seq(Generation)
        /\ Len(FileSent(c)') >= Len(FileSent(c))
        /\ FileSent(c) # <<>> =>
             \A b \in DOMAIN FileSent(c)' : \E a \in DOMAIN FileSent(c) :
               FileSent(c)'[b] = FileSent(c)[a]
  BY SentFile DEF Grown, FileSent, DiskTyped
<1>2. conn[c] \in State
  BY TypeParts DEF HInv, ConnTyped
<1>3. LeftOk(c)'
  <2>1. LeftOk(c)
    BY DEF ResponseOk
  <2> HIDE DEF FileSent
  <2>2. CASE conn[c].ep = "EP_FILE" /\ since'[c] \cap {"cut", "moved", "pastEnd"} = {}
    <3>1. conn[c].off + conn[c].cl <= Len(FileSent(c))
      BY <2>1, <2>2 DEF LeftOk
    <3>2. conn[c].off \in Nat /\ conn[c].cl \in Nat
      BY <1>2 DEF State
    <3>3. Len(FileSent(c)) \in Nat /\ Len(FileSent(c)') \in Nat
      BY <1>1, <2>2
    <3>4. conn[c].off + conn[c].cl <= Len(FileSent(c)')
      BY <1>1, <2>2, <3>1, <3>2, <3>3
    <3>5. QED BY <2>1, <2>2, <3>4 DEF LeftOk
  <2>3. CASE ~(conn[c].ep = "EP_FILE" /\ since'[c] \cap {"cut", "moved", "pastEnd"} = {})
    BY <2>1, <2>3 DEF LeftOk
  <2>4. QED BY <2>2, <2>3
<1>4. BodyOk(c)'
  <2> SUFFICES ASSUME "cut" \notin since'[c] PROVE BodyOk(c)'
    BY DEF BodyOk
  <2>1. /\ \A i, j \in DOMAIN sent[c] : sent[c][i] = sent[c][j]
        /\ conn[c].ep = "EP_FILE" /\ sent[c] # <<>> =>
             /\ FileSent(c) # <<>>
             /\ \A i \in DOMAIN sent[c], b \in DOMAIN FileSent(c) :
                  sent[c][i] = FileSent(c)[b]
    BY DEF ResponseOk, BodyOk
  <2>2. CASE conn[c].ep = "EP_FILE" /\ sent[c] # <<>>
    <3> HIDE DEF FileSent
    <3>1. FileSent(c)' # <<>>
      BY <1>1, <2>1, <2>2
    <3>2. ASSUME NEW i \in DOMAIN sent[c], NEW b \in DOMAIN FileSent(c)'
          PROVE  sent[c][i] = FileSent(c)'[b]
      BY <1>1, <2>1, <2>2, <3>2
    <3>3. QED BY <2>1, <3>1, <3>2 DEF BodyOk
  <2>3. CASE ~(conn[c].ep = "EP_FILE" /\ sent[c] # <<>>)
    BY <2>1, <2>3 DEF BodyOk
  <2>4. QED BY <2>2, <2>3
<1>5. OutcomeOk(c)'
  BY DEF ResponseOk, OutcomeOk
<1>6. QED BY <1>3, <1>4, <1>5 DEF ResponseOk

\* What the RPC thread does to the files grows them, and what it does to the
\* names is seen by the answer that is being made.
LEMMA GrownResponses ==
  ASSUME HInv, DiskTyped', ResponsesOk, UNCHANGED Elsewhere, SegmentOk',
         \A i \in Inode : Grown(i),
         \A c \in Conn : since[c] \subseteq since'[c],
         \/ UNCHANGED dir
         \/ pc \in {"stat", "open"} => "moved" \in since'[cur]
  PROVE  ResponsesOk'
<1>1. \A c \in Conn : ResponseOk(c)'
  BY GrownResponse DEF ResponsesOk, Elsewhere
<1>2. \A c \in Conn : BufferOk(c)'
  BY BufferKept DEF ResponsesOk, Elsewhere
<1>3. AnswerOk'
  <2>1. AnswerOk /\ UNCHANGED <<pc, cur, path, size, sent, outcome>>
    BY DEF ResponsesOk, Elsewhere
  <2>2. pc \in {"stat", "open"} => cur \in Conn /\ path \in Name
    BY DEF HInv, Control
  <2>3. CASE pc \in {"stat", "open"} => "moved" \in since'[cur]
    BY <2>1, <2>3 DEF AnswerOk
  <2>4. CASE UNCHANGED dir /\ pc \in {"stat", "open"}
    <3>1. "moved" \in since'[cur] \/ dir'[path] # None
      BY <2>1, <2>2, <2>4 DEF AnswerOk
    <3>2. ASSUME pc = "open", since'[cur] \cap {"cut", "moved"} = {}
          PROVE  size <= Len(content'[dir[path]])
      <4>1. size <= Len(content[dir[path]]) /\ dir[path] # None
        BY <2>1, <2>2, <3>2 DEF AnswerOk
      <4>2. dir[path] \in Inode
        BY <2>2, <2>4, <4>1, TypeParts DEF HInv, DiskTyped
      <4>3. Len(content'[dir[path]]) >= Len(content[dir[path]])
        BY <4>2 DEF Grown
      <4>4. content[dir[path]] \in Seq(Generation) /\ content'[dir[path]] \in Seq(Generation)
        BY <4>2, TypeParts DEF HInv, DiskTyped
      <4>5. Len(content[dir[path]]) \in Nat /\ Len(content'[dir[path]]) \in Nat /\ size \in Nat
        BY <4>4, TypeParts DEF HInv, PathTyped
      <4>6. QED BY <4>1, <4>3, <4>5
    <3>3. QED BY <2>1, <2>4, <3>1, <3>2 DEF AnswerOk
  <2>5. CASE pc \notin {"stat", "open"}
    BY <2>1, <2>5 DEF AnswerOk
  <2>6. QED BY <2>3, <2>4, <2>5
<1>4. QED BY <1>1, <1>2, <1>3 DEF ResponsesOk

LEMMA SameIsGrown == ASSUME NEW i \in Inode, content'[i] = content[i], DiskTyped
                     PROVE Grown(i)
<1>1. Len(content[i]) \in Nat
  BY DEF DiskTyped
<1>2. QED BY <1>1 DEF Grown

LEMMA MovedGrows ==
  ASSUME HistoryTyped, NEW steps, Moved(steps), NEW c \in Conn
  PROVE  /\ since[c] \subseteq since'[c]
         /\ c = cur /\ pc \in steps => "moved" \in since'[c]
BY DEF Moved, HistoryTyped

LEMMA AppendBlockSent == ASSUME HInv, DiskTyped', ResponsesOk, AppendBlock PROVE ResponsesOk'
<1> DEFINE i == dir["edits_inprogress"]
<1>1. DiskTyped /\ SegmentOk
  BY TypeParts DEF HInv, ResponsesOk
<1>2. i \in Inode /\ content[i] \in Seq(Generation) /\ generation \in Generation
  BY <1>1 DEF AppendBlock, DiskTyped, Name
<1>3. /\ content' = [content EXCEPT ![i] = Append(content[i], generation)]
      /\ UNCHANGED <<dir, generation, since, Elsewhere>>
  BY DEF AppendBlock
<1>4. \A b \in DOMAIN content[i] : content[i][b] = generation
  BY <1>1, <1>2, NumberAssumption DEF SegmentOk
<1>5. /\ content'[i] = Append(content[i], generation)
      /\ \A j \in Inode \ {i} : content'[j] = content[j]
  BY <1>1, <1>2, <1>3 DEF DiskTyped
<1>6. \A b \in DOMAIN content'[i] : content'[i][b] = generation
  BY <1>2, <1>4, <1>5
<1>7. dir' = dir /\ generation' = generation
  BY <1>3
<1>8. SegmentOk'
  <2>1. ASSUME NEW j \in Inode, NEW a \in DOMAIN content'[j], NEW b \in DOMAIN content'[j]
        PROVE  content'[j][a] = content'[j][b]
    <3>1. CASE j = i
      BY <1>6, <2>1, <3>1
    <3>2. CASE j # i
      BY <1>1, <1>5, <2>1, <3>2 DEF SegmentOk
    <3>3. QED BY <3>1, <3>2
  <2>2. QED BY <1>1, <1>6, <1>7, <2>1 DEF SegmentOk
<1>9. Len(content[i]) \in Nat /\ Len(content'[i]) = Len(content[i]) + 1
  BY <1>2, <1>5
<1>10. content[i] # <<>> => 1 \in DOMAIN content[i] /\ content[i][1] = generation
  BY <1>2, <1>4
<1> HIDE DEF i
<1>11. Grown(i)
  BY <1>6, <1>9, <1>10 DEF Grown
<1>12. \A j \in Inode : Grown(j)
  BY <1>1, <1>5, <1>11, SameIsGrown
<1>13. \A c \in Conn : since[c] \subseteq since'[c]
  BY <1>3
<1>14. UNCHANGED Elsewhere
  BY <1>3
<1>15. QED BY <1>7, <1>8, <1>12, <1>13, <1>14, GrownResponses

LEMMA RenameFinalizedSent ==
  ASSUME HInv, DiskTyped', ResponsesOk, RenameFinalized PROVE ResponsesOk'
<1>1. DiskTyped /\ HistoryTyped /\ SegmentOk
  BY TypeParts DEF HInv, ResponsesOk
<1>2. /\ dir'["edits_inprogress"] = None /\ content' = content
      /\ Moved({"stat", "open"}) /\ UNCHANGED Elsewhere
  BY <1>1 DEF RenameFinalized, DiskTyped, Name
<1>3. SegmentOk'
  BY <1>1, <1>2 DEF SegmentOk
<1>4. \A i \in Inode : Grown(i)
  BY <1>1, <1>2, SameIsGrown
<1>5. /\ \A c \in Conn : since[c] \subseteq since'[c]
      /\ pc \in {"stat", "open"} => "moved" \in since'[cur]
  BY <1>1, <1>2, MovedGrows DEF HInv, Control
<1>6. QED BY <1>2, <1>3, <1>4, <1>5, GrownResponses

LEMMA RemoveFileSent ==
  ASSUME HInv, DiskTyped', ResponsesOk, RemoveFile PROVE ResponsesOk'
<1>1. DiskTyped /\ HistoryTyped /\ SegmentOk
  BY TypeParts DEF HInv, ResponsesOk
<1>2. /\ content' = content /\ generation' = generation
      /\ Moved({"lookup", "stat", "open"}) /\ UNCHANGED Elsewhere
  BY DEF RemoveFile
<1>3. \A n \in Name : dir'[n] = dir[n] \/ dir'[n] = None
  BY <1>1 DEF RemoveFile, DiskTyped
<1>4. SegmentOk'
  <2>1. "edits_inprogress" \in Name /\ "edits" \in Name
    BY DEF Name
  <2>2. QED BY <1>1, <1>2, <1>3, <2>1 DEF SegmentOk
<1>5. \A i \in Inode : Grown(i)
  BY <1>1, <1>2, SameIsGrown
<1>6. /\ \A c \in Conn : since[c] \subseteq since'[c]
      /\ pc \in {"stat", "open"} => "moved" \in since'[cur]
  BY <1>1, <1>2, MovedGrows DEF HInv, Control
<1>7. QED BY <1>2, <1>4, <1>5, <1>6, GrownResponses

LEMMA RenameAcceptedSent ==
  ASSUME HInv, DiskTyped', ResponsesOk, RenameAccepted PROVE ResponsesOk'
<1>1. DiskTyped /\ HistoryTyped /\ SegmentOk
  BY TypeParts DEF HInv, ResponsesOk
<1>2. PICK i \in Inode, len \in AcceptedLength :
        /\ content[i] = <<>>
        /\ dir' = [dir EXCEPT !["edits_inprogress"] = i]
        /\ content' = [content EXCEPT ![i] = [b \in 1..len |-> generation + 1]]
  BY DEF RenameAccepted
<1>3. /\ generation' = generation + 1 /\ \A n \in Name : dir[n] = None
      /\ Moved({"lookup", "stat", "open"}) /\ UNCHANGED Elsewhere
  BY DEF RenameAccepted
<1>4. /\ len \in Nat /\ generation \in Nat
  BY <1>1, NumberAssumption DEF DiskTyped, Generation
<1>5. /\ dir'["edits_inprogress"] = i /\ dir'["edits"] = None
  BY <1>1, <1>2, <1>3 DEF DiskTyped, Name
<1>6. /\ content'[i] = [b \in 1..len |-> generation + 1]
      /\ \A j \in Inode \ {i} : content'[j] = content[j]
  BY <1>1, <1>2 DEF DiskTyped
<1>7. SegmentOk'
  <2>1. \A b \in DOMAIN content'[i] : content'[i][b] = generation'
    BY <1>3, <1>6
  <2>2. ASSUME NEW j \in Inode, NEW a \in DOMAIN content'[j], NEW b \in DOMAIN content'[j]
        PROVE  content'[j][a] = content'[j][b]
    <3>1. CASE j = i
      BY <2>1, <2>2, <3>1
    <3>2. CASE j # i
      BY <1>1, <1>6, <2>2, <3>2 DEF SegmentOk
    <3>3. QED BY <3>1, <3>2
  <2>3. QED BY <1>5, <2>1, <2>2 DEF SegmentOk
<1>8. Grown(i)
  <2>1. Len(content'[i]) = len /\ Len(content[i]) = 0
    BY <1>2, <1>4, <1>6
  <2>2. QED BY <1>2, <1>4, <2>1 DEF Grown
<1>9. \A j \in Inode : Grown(j)
  BY <1>1, <1>6, <1>8, SameIsGrown
<1>10. /\ \A c \in Conn : since[c] \subseteq since'[c]
       /\ pc \in {"stat", "open"} => "moved" \in since'[cur]
  BY <1>1, <1>3, MovedGrows DEF HInv, Control
<1>11. QED BY <1>3, <1>7, <1>9, <1>10, GrownResponses

\* A truncation is in the history of every response.
LEMMA TruncateLogSent ==
  ASSUME HInv, DiskTyped', ResponsesOk, TruncateLog PROVE ResponsesOk'
<1>1. DiskTyped /\ HistoryTyped /\ SegmentOk /\ AnswerOk
  BY TypeParts DEF HInv, ResponsesOk
<1>2. PICK i \in Inode :
        /\ i = dir["edits_inprogress"]
        /\ content' = [content EXCEPT ![i] = <<>>]
  BY <1>1 DEF TruncateLog, DiskTyped, Name
<1>3. /\ dir' = dir /\ UNCHANGED Elsewhere
      /\ \A c \in Conn : since'[c] = since[c] \cup {"cut"}
  BY DEF TruncateLog
<1>4. /\ content'[i] = <<>>
      /\ \A j \in Inode \ {i} : content'[j] = content[j]
  BY <1>1, <1>2 DEF DiskTyped
<1>5. SegmentOk'
  <2>1. \A j \in Inode : \A a, b \in DOMAIN content'[j] : content'[j][a] = content'[j][b]
    BY <1>1, <1>4 DEF SegmentOk
  <2>2. QED BY <1>1, <1>2, <1>3, <1>4, <2>1 DEF SegmentOk
<1>6. UNCHANGED <<conn, fds, pc, cur, path, size, sent, outcome>>
  BY <1>3 DEF Elsewhere
<1>7. ASSUME NEW c \in Conn PROVE ResponseOk(c)' /\ BufferOk(c)'
  <2>1. ResponseOk(c) /\ BufferOk(c)
    BY DEF ResponsesOk
  <2>2. BodyOk(c)' /\ LeftOk(c)' /\ OutcomeOk(c)'
    BY <1>3, <1>6, <2>1 DEF ResponseOk, BodyOk, LeftOk, OutcomeOk
  <2>3. QED BY <1>6, <2>1, <2>2, BufferKept DEF ResponseOk
<1>8. AnswerOk'
  <2>1. pc \in {"lookup", "stat", "open"} => cur \in Conn
    BY DEF HInv, Control
  <2>2. QED BY <1>1, <1>3, <1>6, <2>1 DEF AnswerOk
<1>9. QED BY <1>5, <1>7, <1>8 DEF ResponsesOk

LEMMA RpcThreadSent == ASSUME HInv, ResponsesOk, RpcThread PROVE ResponsesOk'
<1>1. HInv'
  BY RpcThreadKeeps
<1>2. DiskTyped'
  BY <1>1 DEF HInv, TypeOK, DiskTyped
<1>3. QED BY <1>2, AppendBlockSent, RenameFinalizedSent, TruncateLogSent,
         RemoveFileSent, RenameAcceptedSent DEF RpcThread

-----------------------------------------------------------------------------
(* Steps that end no response *)

LEMMA QuietSent ==
  ASSUME HInv, ResponsesOk,
         \/ \E c \in Conn : Arrive(c) \/ Leave(c) \/ PollNothing(c)
         \/ Signal \/ CreateServer \/ Select \/ UNCHANGED vars
  PROVE  ResponsesOk'
<1>1. ASSUME NEW c \in Conn, Arrive(c) \/ Leave(c) \/ PollNothing(c) PROVE ResponsesOk'
  BY <1>1, NothingSent DEF Arrive, Leave, PollNothing, Server, Untouched, history
<1>2. CASE Signal
  BY <1>2, NothingSent DEF Signal, Server, history
<1>3. CASE CreateServer
  BY <1>3, NothingSent DEF CreateServer, Untouched
<1>4. CASE Select
  BY <1>4, NothingSent DEF Select, Untouched
<1>5. CASE UNCHANGED vars
  BY <1>5, NothingSent DEF vars
<1>6. QED BY <1>1, <1>2, <1>3, <1>4, <1>5

LEMMA TickSent == ASSUME HInv, ResponsesOk, Tick PROVE ResponsesOk'
<1>1. conn \in [Conn -> State]
  BY TypeParts DEF HInv, ConnTyped
<1>2. ASSUME NEW c \in Conn
      PROVE  /\ conn'[c].ep = conn[c].ep /\ conn'[c].off = conn[c].off
             /\ conn'[c].cl = conn[c].cl /\ conn'[c].fd = conn[c].fd
             /\ conn'[c].send = conn[c].send
  BY <1>1 DEF Tick, State
<1>3. UNCHANGED <<disk, fds, history, pc, cur, path, size>>
  BY DEF Tick, Server, history
<1>4. AnswerOk'
  BY <1>3, AnswerKept DEF ResponsesOk
<1>5. \A c \in Conn : SendsOn(c) /\ Blocks(conn'[c].send) = Blocks(conn[c].send)
  BY <1>2, <1>3 DEF SendsOn
<1>6. QED BY <1>3, <1>4, <1>5, AllResponses

LEMMA RecvEndSent == ASSUME HInv, ResponsesOk, NEW c \in Conn, RecvEnd(c) PROVE ResponsesOk'
<1>1. conn \in [Conn -> State]
  BY TypeParts DEF HInv, ConnTyped
<1>2. ASSUME NEW d \in Conn
      PROVE  /\ conn'[d].ep = conn[d].ep /\ conn'[d].off = conn[d].off
             /\ conn'[d].cl = conn[d].cl /\ conn'[d].fd = conn[d].fd
             /\ conn'[d].send = conn[d].send
  BY <1>1 DEF RecvEnd, State
<1>3. UNCHANGED <<disk, fds, history>> /\ pc' = "io"
  BY DEF RecvEnd, Untouched
<1>4. AnswerOk'
  BY <1>3, NoAnswerKept
<1>5. \A d \in Conn : SendsOn(d) /\ Blocks(conn'[d].send) = Blocks(conn[d].send)
  BY <1>2, <1>3 DEF SendsOn
<1>6. QED BY <1>3, <1>4, <1>5, AllResponses

-----------------------------------------------------------------------------
(* Steps that change one connection *)

\* A descriptor that is closed or opened is not that of another response.
LEMMA OthersUntouched ==
  ASSUME HInv, NEW c \in Conn, NEW k, conn' = [conn EXCEPT ![c] = k],
         \/ UNCHANGED fds
         \/ fds' = Release(fds, conn[c])
         \/ \E f \in Fd : \E i \in Inode : fds[f] = None /\ fds' = [fds EXCEPT ![f] = i],
         \A d \in Conn \ {c} : /\ since'[d] = since[d] /\ sent'[d] = sent[d]
                               /\ outcome'[d] = outcome[d]
  PROVE  conn'[c] = k /\ \A d \in Conn \ {c} : Untouching(d)
<1>1. ConnTyped /\ FdsTyped /\ Owned
  BY TypeParts DEF HInv
<1>2. conn'[c] = k /\ \A d \in Conn \ {c} : conn'[d] = conn[d]
  BY <1>1 DEF ConnTyped
<1>3. ASSUME NEW d \in Conn \ {c}, conn[d].ep = "EP_FILE"
      PROVE  fds'[conn[d].fd] = fds[conn[d].fd]
  <2>1. conn[d].fd \in Fd /\ fds[conn[d].fd] # None
    BY <1>1, <1>3 DEF Owned
  <2>2. conn[c].ep = "EP_FILE" => conn[c].fd \in Fd /\ conn[c].fd # conn[d].fd
    BY <1>1, <1>3 DEF Owned
  <2>3. CASE fds' = Release(fds, conn[c])
    BY <1>1, <2>1, <2>2, <2>3 DEF Release, FdsTyped
  <2>4. CASE \E f \in Fd : \E i \in Inode : fds[f] = None /\ fds' = [fds EXCEPT ![f] = i]
    BY <1>1, <2>1, <2>4 DEF FdsTyped
  <2>5. QED BY <2>3, <2>4
<1>4. QED BY <1>2, <1>3 DEF Untouching

\* A connection whose response has not begun, or is over and forgotten.
LEMMA FreshResponse ==
  ASSUME NEW c \in Conn, sent'[c] = <<>>, outcome'[c] = "none",
         conn'[c].ep # "EP_FILE", conn'[c].off = 0
  PROVE  ResponseOk(c)'
BY DEF ResponseOk, BodyOk, LeftOk, OutcomeOk

LEMMA FreeBuffer ==
  ASSUME NEW c \in Conn, conn'[c].send = <<>>
  PROVE  BufferOk(c)'
<1>1. Blocks(conn'[c].send) = {}
  BY DEF Blocks
<1>2. Cardinality(Blocks(conn'[c].send)) = 0 /\ BlockSize \in Nat
  BY <1>1, FS_EmptySet, NumberAssumption
<1>3. QED BY <1>2 DEF BufferOk

LEMMA AcceptSent == ASSUME HInv, ResponsesOk, Accept PROVE ResponsesOk'
<1> DEFINE k == [Free EXCEPT !.open = TRUE]
<1>1. PICK c \in Conn : conn' = [conn EXCEPT ![c] = k]
  BY DEF Accept
<1>2. UNCHANGED <<disk, fds, history>> /\ pc' = "io"
  BY DEF Accept
<1>3. k.ep = "EP_NONE" /\ k.off = 0 /\ k.send = <<>>
  BY DEF Free
<1> HIDE DEF k
<1>4. conn'[c] = k /\ \A d \in Conn \ {c} : Untouching(d)
  BY <1>1, <1>2, OthersUntouched DEF history
<1>5. ResponseOk(c)'
  <2>1. SendsNothing(c)
    BY <1>3, <1>4 DEF SendsNothing
  <2>2. QED BY <1>2, <2>1, ResponseKept DEF ResponsesOk, disk, history
<1>6. BufferOk(c)' /\ AnswerOk'
  BY <1>2, <1>3, <1>4, FreeBuffer, NoAnswerKept
<1>7. QED BY <1>2, <1>4, <1>5, <1>6, OneResponse

LEMMA WriteSent == ASSUME HInv, ResponsesOk, NEW c \in Conn, Write(c) PROVE ResponsesOk'
<1>1. conn \in [Conn -> State] /\ conn[c] \in State
  BY TypeParts DEF HInv, ConnTyped
<1>2. PICK k :
        /\ conn' = [conn EXCEPT ![c] = k]
        /\ k.ep = conn[c].ep /\ k.off = conn[c].off /\ k.cl = conn[c].cl
        /\ k.fd = conn[c].fd
        /\ \/ k.send = conn[c].send
           \/ \E n \in 1..Len(conn[c].send) :
                k.send = SubSeq(conn[c].send, n + 1, Len(conn[c].send))
  <2>1. ASSUME NEW n \in 1..Len(conn[c].send),
               conn' = [conn EXCEPT ![c] =
                 [conn[c] EXCEPT !.send = SubSeq(@, n + 1, Len(@)), !.idle = 0]]
        PROVE  \E k :
                 /\ conn' = [conn EXCEPT ![c] = k]
                 /\ k.ep = conn[c].ep /\ k.off = conn[c].off /\ k.cl = conn[c].cl
                 /\ k.fd = conn[c].fd
                 /\ \E m \in 1..Len(conn[c].send) :
                      k.send = SubSeq(conn[c].send, m + 1, Len(conn[c].send))
    <3> DEFINE k == [conn[c] EXCEPT
                       !.send = SubSeq(conn[c].send, n + 1, Len(conn[c].send)), !.idle = 0]
    <3>1. /\ k.ep = conn[c].ep /\ k.off = conn[c].off /\ k.cl = conn[c].cl
          /\ k.fd = conn[c].fd
          /\ k.send = SubSeq(conn[c].send, n + 1, Len(conn[c].send))
      BY <1>1 DEF State
    <3>2. conn' = [conn EXCEPT ![c] = k]
      BY <2>1
    <3> HIDE DEF k
    <3>3. QED BY <3>1, <3>2
  <2>2. ASSUME conn' = [conn EXCEPT ![c] =
                 [conn[c] EXCEPT !.idle = 0, !.flags = @ \cup {"closeImmediately"}]]
        PROVE  \E k :
                 /\ conn' = [conn EXCEPT ![c] = k]
                 /\ k.ep = conn[c].ep /\ k.off = conn[c].off /\ k.cl = conn[c].cl
                 /\ k.fd = conn[c].fd /\ k.send = conn[c].send
    <3> DEFINE k == [conn[c] EXCEPT !.idle = 0, !.flags = @ \cup {"closeImmediately"}]
    <3>1. /\ k.ep = conn[c].ep /\ k.off = conn[c].off /\ k.cl = conn[c].cl
          /\ k.fd = conn[c].fd /\ k.send = conn[c].send
      BY <1>1 DEF State
    <3>2. conn' = [conn EXCEPT ![c] = k]
      BY <2>2
    <3> HIDE DEF k
    <3>3. QED BY <3>1, <3>2
  <2>3. QED BY <2>1, <2>2 DEF Write
<1>3. UNCHANGED <<disk, fds, history>> /\ pc' = "io"
  BY DEF Write, Untouched
<1>4. conn'[c] = k /\ \A d \in Conn \ {c} : Untouching(d)
  BY <1>2, <1>3, OthersUntouched DEF history
<1>5. ResponseOk(c)'
  <2>1. SendsOn(c)
    BY <1>2, <1>3, <1>4 DEF SendsOn
  <2>2. QED BY <1>3, <2>1, ResponseKept DEF ResponsesOk, disk, history
<1>6. BufferOk(c)'
  <2>1. conn[c].send \in Seq({"head", "chunk", "block"}) /\ BufferOk(c)
    BY <1>1 DEF State, ResponsesOk
  <2>2. CASE k.send = conn[c].send
    BY <1>4, <2>1, <2>2, BufferKept
  <2>3. ASSUME NEW n \in 1..Len(conn[c].send),
               k.send = SubSeq(conn[c].send, n + 1, Len(conn[c].send))
        PROVE  BufferOk(c)'
    <3>1. Cardinality(Blocks(k.send)) <= Cardinality(Blocks(conn[c].send))
      BY <2>1, <2>3, BlocksOfRest
    <3>2. SubSeq(conn[c].send, n + 1, Len(conn[c].send)) \in Seq({"head", "chunk", "block"})
      BY <2>1
    <3>3. Cardinality(Blocks(k.send)) \in Nat /\ Cardinality(Blocks(conn[c].send)) \in Nat
      BY <2>1, <2>3, <3>2, BlocksAreFew
    <3>4. QED BY <1>4, <2>1, <3>1, <3>3, NumberAssumption DEF BufferOk
  <2>4. QED BY <1>2, <2>2, <2>3
<1>7. AnswerOk'
  BY <1>3, NoAnswerKept
<1>8. QED BY <1>3, <1>4, <1>5, <1>6, <1>7, OneResponse

-----------------------------------------------------------------------------
(* The body of a response *)

LEMMA Joined ==
  ASSUME NEW G, NEW s \in Seq(G), NEW q \in Seq(G)
  PROVE  /\ Len(s \o q) = Len(s) + Len(q) /\ DOMAIN (s \o q) = 1..(Len(s) + Len(q))
         /\ \A i \in 1..(Len(s) + Len(q)) :
              (s \o q)[i] = IF i <= Len(s) THEN s[i] ELSE q[i - Len(s)]
OBVIOUS

\* What was sent, and the next n blocks of a file.
Extended(s, t, off, n) == s \o SubSeq(t, off + 1, off + n)

\* All blocks are of one content.
Uniform(t)  == \A a, b \in DOMAIN t : t[a] = t[b]
Alike(s, t) == \A i \in DOMAIN s, b \in DOMAIN t : s[i] = t[b]

\* What is read next is like the rest of the file, and like what was sent of it.
LEMMA SentMore ==
  ASSUME NEW G, NEW s \in Seq(G), NEW t \in Seq(G), NEW off \in Nat, NEW n \in Nat, n > 0,
         off + n <= Len(t), Uniform(t), s # <<>> => Alike(s, t)
  PROVE  /\ t # <<>> /\ Alike(Extended(s, t, off, n), t)
         /\ Uniform(Extended(s, t, off, n))
<1> DEFINE q == SubSeq(t, off + 1, off + n)
           m == Extended(s, t, off, n)
<1>1. q \in Seq(G) /\ Len(q) = n /\ \A i \in 1..n : q[i] = t[off + i]
  OBVIOUS
<1>2. Len(t) \in Nat /\ Len(s) \in Nat /\ DOMAIN t = 1..Len(t) /\ DOMAIN s = 1..Len(s)
  OBVIOUS
<1>3. \A i \in 1..n : off + i \in DOMAIN t
  BY <1>2
<1>4. 1 \in DOMAIN t /\ t # <<>>
  BY <1>2
<1>5. m = s \o q
  BY DEF Extended
<1> HIDE DEF q, m
<1>6. /\ DOMAIN m = 1..(Len(s) + n)
      /\ \A i \in 1..(Len(s) + n) : m[i] = IF i <= Len(s) THEN s[i] ELSE q[i - Len(s)]
  BY <1>1, <1>5, Joined
<1>7. ASSUME NEW i \in DOMAIN m, NEW b \in DOMAIN t PROVE m[i] = t[b]
  <2>1. i \in 1..(Len(s) + n)
    BY <1>6
  <2>2. CASE i <= Len(s)
    <3>1. i \in DOMAIN s /\ s # <<>>
      BY <1>2, <2>1, <2>2
    <3>2. QED BY <1>6, <1>7, <2>1, <2>2, <3>1 DEF Alike
  <2>3. CASE ~(i <= Len(s))
    <3>1. i - Len(s) \in 1..n
      BY <1>2, <2>1, <2>3
    <3>2. m[i] = t[off + (i - Len(s))] /\ off + (i - Len(s)) \in DOMAIN t
      BY <1>1, <1>3, <1>6, <2>1, <2>3, <3>1
    <3>3. QED BY <1>7, <3>2 DEF Uniform
  <2>4. QED BY <2>2, <2>3
<1>8. \A i, j \in DOMAIN m : m[i] = m[j]
  BY <1>4, <1>7
<1>9. QED BY <1>4, <1>7, <1>8 DEF m, Uniform, Alike

\* A response ends: what is known of it is what it came to.
LEMMA ResponseEnds ==
  ASSUME HInv, NEW c \in Conn, NEW j \in Parsed, NEW end \in {"complete", "short"},
         conn' = [conn EXCEPT ![c] = CloseLocalEndpoint(j)],
         fds' = Release(fds, conn[c]),
         outcome' = [outcome EXCEPT ![c] = end],
         UNCHANGED since, \A d \in Conn \ {c} : sent'[d] = sent[d],
         Cardinality(Blocks(j.send)) <= 3 * BlockSize,
         end = "short" => since[c] \cap {"cut", "moved", "pastEnd"} # {},
         "cut" \notin since[c] => \A a, b \in DOMAIN sent'[c] : sent'[c][a] = sent'[c][b]
  PROVE  /\ ResponseOk(c)' /\ BufferOk(c)'
         /\ \A d \in Conn \ {c} : Untouching(d)
<1>1. outcome'[c] = end /\ \A d \in Conn \ {c} : outcome'[d] = outcome[d]
  BY TypeParts DEF HInv, HistoryTyped
<1>2. \A d \in Conn \ {c} : since'[d] = since[d] /\ sent'[d] = sent[d]
  OBVIOUS
<1>3. conn'[c] = CloseLocalEndpoint(j) /\ \A d \in Conn \ {c} : Untouching(d)
  BY <1>1, <1>2, OthersUntouched
<1>4. conn'[c].ep = "EP_NONE" /\ conn'[c].off = 0 /\ conn'[c].send = j.send
  BY <1>3, CloseClears
<1>5. BufferOk(c)'
  BY <1>4 DEF BufferOk
<1>6. BodyOk(c)' /\ LeftOk(c)' /\ OutcomeOk(c)'
  BY <1>1, <1>4 DEF BodyOk, LeftOk, OutcomeOk
<1>7. QED BY <1>3, <1>5, <1>6 DEF ResponseOk

LEMMA TransferSent ==
  ASSUME HInv, ResponsesOk, NEW c \in Conn, conn[c].ep = "EP_FILE", Transfer(c),
         UNCHANGED <<disk, since>>
  PROVE  /\ ResponseOk(c)' /\ BufferOk(c)'
         /\ \A d \in Conn \ {c} : Untouching(d)
<1> DEFINE k == conn[c]
           n == NextPart(k)
           blocks == [i \in 1..n |-> "block"]
           m == [k EXCEPT !.cl = @ - n, !.off = @ + n, !.send = @ \o blocks]
           more == Extended(sent[c], FileOf(k), k.off, n)
<1>1. ConnTyped /\ FdsTyped /\ HistoryTyped /\ ResponseOk(c) /\ BufferOk(c) /\ SegmentOk
  BY TypeParts DEF HInv, ResponsesOk
<1>2. /\ k \in State /\ k \in Parsed /\ k.cl \in Nat /\ k.off \in Nat
      /\ k.send \in Seq({"head", "chunk", "block"})
  BY <1>1, StateIsParsed DEF ConnTyped, State
<1>3. /\ FileOf(k) \in Seq(Generation) /\ n \in Int /\ n <= k.cl /\ n <= BlockSize
      /\ k.off + n <= Len(FileOf(k))
      /\ n <= 0 => k.cl = 0 \/ k.off >= Len(FileOf(k))
  BY NextPartTyped
<1>4. FileSent(c) = FileOf(k) /\ fds[k.fd] \in Inode
  BY SentFile DEF FileSent, FileOf
<1>5. \A a, b \in DOMAIN FileOf(k) : FileOf(k)[a] = FileOf(k)[b]
  BY <1>1, <1>4 DEF SegmentOk, FileOf
<1>6. CASE IsFull(k)
  <2>1. UNCHANGED <<conn, fds, sent, outcome>>
    BY <1>6 DEF Transfer
  <2>2. SendsOn(c)
    BY <2>1 DEF SendsOn
  <2>3. QED BY <1>1, <2>1, <2>2, ResponseKept, BufferKept DEF disk, Untouching
<1>7. CASE ~IsFull(k) /\ n <= 0
  <2> DEFINE end == IF k.cl = 0 THEN "complete" ELSE "short"
  <2>1. /\ conn' = [conn EXCEPT ![c] = CloseLocalEndpoint(k)]
        /\ fds' = Release(fds, k)
        /\ outcome' = [outcome EXCEPT ![c] = end]
        /\ sent' = sent
    BY <1>7 DEF Transfer
  <2>2. Cardinality(Blocks(k.send)) <= 3 * BlockSize
    BY <1>1 DEF BufferOk
  <2>3. "cut" \notin since[c] => \A a, b \in DOMAIN sent'[c] : sent'[c][a] = sent'[c][b]
    BY <1>1, <2>1 DEF ResponseOk, BodyOk
  <2>4. ASSUME end = "short" PROVE since[c] \cap {"cut", "moved", "pastEnd"} # {}
    <3>1. k.cl # 0 /\ k.off >= Len(FileOf(k))
      BY <1>3, <1>7, <2>4
    <3>2. Len(FileOf(k)) \in Nat
      BY <1>3
    <3>3. ~(k.off + k.cl <= Len(FileOf(k)))
      BY <1>2, <3>1, <3>2
    <3>4. QED BY <1>1, <1>4, <3>3 DEF ResponseOk, LeftOk
  <2>5. end \in {"complete", "short"}
    OBVIOUS
  <2> HIDE DEF end
  <2>6. QED BY <1>2, <2>1, <2>2, <2>3, <2>4, <2>5, ResponseEnds
<1>8. CASE ~IsFull(k) /\ ~(n <= 0)
  <2>1. n \in Nat /\ n > 0
    BY <1>3, <1>8
  <2>2. /\ m \in Parsed /\ m.ep = k.ep /\ m.fd = k.fd
        /\ m.send = k.send \o blocks /\ m.cl = k.cl - n /\ m.off = k.off + n
    <3>1. m \in State /\ m.ep = k.ep /\ m.fd = k.fd
      BY <1>2, <1>3, <2>1, MovedPart
    <3>2. m.send = k.send \o blocks /\ m.cl = k.cl - n /\ m.off = k.off + n
      BY <1>2 DEF State
    <3>3. QED BY <3>1, <3>2, StateIsParsed
  <2>3. /\ sent' = [sent EXCEPT ![c] = more]
        /\ \/ /\ conn' = [conn EXCEPT ![c] = m]
              /\ UNCHANGED <<fds, outcome>>
           \/ /\ conn' = [conn EXCEPT ![c] = CloseLocalEndpoint(m)]
              /\ fds' = Release(fds, k)
              /\ outcome' = [outcome EXCEPT ![c] = "complete"]
    BY <1>8 DEF Transfer, Extended
  <2>4. Cardinality(Blocks(m.send)) <= 3 * BlockSize
    <3>1. Len(k.send) <= 2 * BlockSize
      BY <1>2, <1>8, NumberAssumption DEF IsFull
    <3>2. QED BY <1>2, <1>3, <2>1, <2>2, <3>1, BlocksOfMore
  <2>5. /\ sent'[c] = more /\ sent[c] \in Seq(Generation)
        /\ \A d \in Conn \ {c} : sent'[d] = sent[d]
    BY <1>1, <2>3 DEF HistoryTyped
  <2>6. ASSUME "cut" \notin since[c]
        PROVE  /\ FileOf(k) # <<>>
               /\ \A a, b \in DOMAIN sent'[c] : sent'[c][a] = sent'[c][b]
               /\ \A a \in DOMAIN sent'[c], b \in DOMAIN FileOf(k) :
                    sent'[c][a] = FileOf(k)[b]
    <3>1. Uniform(FileOf(k)) /\ (sent[c] # <<>> => Alike(sent[c], FileOf(k)))
      BY <1>1, <1>4, <1>5, <2>6 DEF ResponseOk, BodyOk, Uniform, Alike
    <3>2. FileOf(k) \in Seq(Generation) /\ sent[c] \in Seq(Generation)
      BY <1>3, <2>5
    <3>3. k.off \in Nat /\ n \in Nat /\ n > 0 /\ k.off + n <= Len(FileOf(k))
      BY <1>2, <1>3, <2>1
    <3>4. sent'[c] = Extended(sent[c], FileOf(k), k.off, n)
      BY <2>5
    <3> HIDE DEF n, k
    <3>5. FileOf(k) # <<>> /\ Alike(sent'[c], FileOf(k)) /\ Uniform(sent'[c])
      BY <3>1, <3>2, <3>3, <3>4, SentMore
    <3>6. QED BY <3>5 DEF Alike, Uniform
  <2> HIDE DEF m, more, n, blocks
  <2>7. CASE conn' = [conn EXCEPT ![c] = m] /\ UNCHANGED <<fds, outcome>>
    <3>1. conn'[c] = m /\ \A d \in Conn \ {c} : Untouching(d)
      BY <2>5, <2>7, OthersUntouched
    <3>2. BufferOk(c)'
      BY <2>4, <3>1 DEF BufferOk
    <3>3. FileSent(c)' = FileOf(k) /\ conn'[c].ep = "EP_FILE"
      BY <1>4, <2>2, <2>7, <3>1 DEF FileSent, disk
    <3>4. BodyOk(c)'
      BY <2>6, <3>3 DEF BodyOk
    <3>5. LeftOk(c)'
      <4>1. conn'[c].off + conn'[c].cl = k.off + k.cl
        BY <1>2, <1>3, <2>2, <3>1
      <4>2. QED BY <1>1, <1>4, <3>3, <4>1 DEF ResponseOk, LeftOk
    <3>6. OutcomeOk(c)'
      BY <1>1, <2>7 DEF ResponseOk, OutcomeOk
    <3>7. QED BY <3>1, <3>2, <3>4, <3>5, <3>6 DEF ResponseOk
  <2>8. CASE /\ conn' = [conn EXCEPT ![c] = CloseLocalEndpoint(m)]
             /\ fds' = Release(fds, k)
             /\ outcome' = [outcome EXCEPT ![c] = "complete"]
    BY <2>2, <2>4, <2>5, <2>6, <2>8, ResponseEnds
  <2>9. QED BY <2>3, <2>7, <2>8
<1>9. QED BY <1>6, <1>7, <1>8

LEMMA PollTransferSent ==
  ASSUME HInv, ResponsesOk, NEW c \in Conn, PollTransfer(c) PROVE ResponsesOk'
<1>1. /\ conn[c].ep = "EP_FILE" /\ Transfer(c) /\ UNCHANGED <<disk, since>>
      /\ pc = "poll" /\ pc' = pc
  BY DEF PollTransfer, Untouched
<1>2. /\ ResponseOk(c)' /\ BufferOk(c)'
      /\ \A d \in Conn \ {c} : Untouching(d)
  BY <1>1, TransferSent
<1>3. AnswerOk'
  BY <1>1, NoAnswerKept
<1>4. QED BY <1>1, <1>2, <1>3, OneResponse

LEMMA FreeAlone ==
  ASSUME NEW c \in Conn, conn'[c] = Free, sent'[c] = <<>>, outcome'[c] = "none"
  PROVE  ResponseOk(c)' /\ BufferOk(c)'
<1>1. conn'[c].ep # "EP_FILE" /\ conn'[c].off = 0 /\ conn'[c].send = <<>>
  BY DEF Free
<1>2. QED BY <1>1, FreshResponse, FreeBuffer

LEMMA PollCloseSent ==
  ASSUME HInv, ResponsesOk, NEW c \in Conn, PollClose(c) PROVE ResponsesOk'
<1>1. /\ conn' = [conn EXCEPT ![c] = Free] /\ fds' = Release(fds, conn[c])
      /\ UNCHANGED disk /\ pc = "poll" /\ pc' = pc
  BY DEF PollClose, Drop
<1>2. /\ sent'[c] = <<>> /\ outcome'[c] = "none"
      /\ \A d \in Conn \ {c} : /\ since'[d] = since[d] /\ sent'[d] = sent[d]
                               /\ outcome'[d] = outcome[d]
  BY TypeParts DEF HInv, HistoryTyped, PollClose, Drop
<1>3. conn'[c] = Free /\ \A d \in Conn \ {c} : Untouching(d)
  BY <1>1, <1>2, OthersUntouched
<1>4. AnswerOk'
  BY <1>1, NoAnswerKept
<1>5. QED BY <1>1, <1>2, <1>3, <1>4, FreeAlone, OneResponse

LEMMA SweepSent == ASSUME HInv, ResponsesOk, Sweep PROVE ResponsesOk'
<1>1. /\ conn' = [c \in Conn |-> IF c \in Closing THEN Free ELSE conn[c]]
      /\ fds' = [f \in Fd |->
           IF \E c \in Closing : conn[c].ep = "EP_FILE" /\ conn[c].fd = f
           THEN None ELSE fds[f]]
      /\ since' = [c \in Conn |-> IF c \in Closing THEN {} ELSE since[c]]
      /\ sent' = [c \in Conn |-> IF c \in Closing THEN <<>> ELSE sent[c]]
      /\ outcome' = [c \in Conn |-> IF c \in Closing THEN "none" ELSE outcome[c]]
      /\ pc' = IF last THEN "done" ELSE "poll"
      /\ UNCHANGED disk
  BY DEF Sweep
<1>2. ASSUME NEW c \in Conn PROVE ResponseOk(c)' /\ BufferOk(c)'
  <2>1. CASE c \in Closing
    BY <1>1, <2>1, FreeAlone
  <2>2. CASE c \notin Closing
    <3>1. /\ conn'[c] = conn[c] /\ since'[c] = since[c] /\ sent'[c] = sent[c]
          /\ outcome'[c] = outcome[c]
      BY <1>1, <2>2
    <3>2. ASSUME conn[c].ep = "EP_FILE" PROVE fds'[conn[c].fd] = fds[conn[c].fd]
      <4>1. conn[c].fd \in Fd
        BY <3>2 DEF HInv, Owned
      <4>2. ~ \E d \in Closing : conn[d].ep = "EP_FILE" /\ conn[d].fd = conn[c].fd
        BY <2>2, <3>2 DEF HInv, Owned, Closing, Open
      <4>3. QED BY <1>1, <4>1, <4>2
    <3>3. SendsOn(c)
      BY <3>1, <3>2 DEF SendsOn
    <3>4. QED BY <1>1, <3>1, <3>3, ResponseKept, BufferKept DEF ResponsesOk, disk
  <2>3. QED BY <2>1, <2>2
<1>3. SegmentOk'
  BY <1>1 DEF ResponsesOk, SegmentOk, disk
<1>4. AnswerOk'
  BY <1>1, NoAnswerKept
<1>5. QED BY <1>2, <1>3, <1>4 DEF ResponsesOk

-----------------------------------------------------------------------------
(* Reading a connection *)

\* What was received leaves the file that is sent and the buffer alone.
LEMMA ReceivedKeepsResponse ==
  ASSUME HInv, NEW c \in Conn, Receiving(c)
  PROVE  /\ Received(c).off = conn[c].off /\ Received(c).send = conn[c].send
         /\ conn[c].ep = "EP_FILE" => Received(c).cl = conn[c].cl
<1> DEFINE k == [conn[c] EXCEPT !.recv = @ \o arrived[c], !.idle = 0]
<1>1. conn[c] \in State
  BY TypeParts DEF HInv, ConnTyped
<1>2. /\ k.off = conn[c].off /\ k.send = conn[c].send /\ k.cl = conn[c].cl
      /\ k.req = conn[c].req
  BY <1>1 DEF State
<1>3. DOMAIN k = {"open", "recv", "req", "cl", "ep", "fd", "off", "send", "flags", "idle"}
  BY <1>1 DEF State
<1>4. Received(c) = TryParse(k)
  BY DEF Received
<1> HIDE DEF k
<1>5. Received(c).off = k.off /\ Received(c).send = k.send
  BY <1>3, <1>4 DEF TryParse
<1>6. conn[c].ep = "EP_FILE" => Received(c).cl = k.cl
  <2>1. conn[c].ep = "EP_FILE" => k.req # None
    BY <1>2, RequestAssumption DEF HInv, Owned
  <2>2. QED BY <1>4, <2>1 DEF TryParse
<1>7. QED BY <1>2, <1>5, <1>6

\* Nothing is sent of a file, and something was perhaps buffered.
LEMMA ReadSent ==
  ASSUME HInv, ResponsesOk, NEW c \in Conn, Receiving(c), NEW k,
         conn' = [conn EXCEPT ![c] = k], UNCHANGED <<fds, pc, history>>,
         \/ k.ep # "EP_FILE" /\ k.off = 0
         \/ k.ep = conn[c].ep /\ k.off = conn[c].off /\ k.fd = conn[c].fd
            /\ (conn[c].ep = "EP_FILE" => k.cl = conn[c].cl),
         Blocks(k.send) = Blocks(conn[c].send)
  PROVE  ResponsesOk'
<1>1. UNCHANGED <<disk, fds, history>> /\ pc' = "io"
  BY DEF Receiving
<1>2. conn'[c] = k /\ \A d \in Conn \ {c} : Untouching(d)
  BY <1>1, OthersUntouched DEF history
<1>3. SendsOn(c) \/ SendsNothing(c)
  BY <1>1, <1>2 DEF SendsOn, SendsNothing
<1>4. ResponseOk(c)' /\ BufferOk(c)'
  BY <1>1, <1>2, <1>3, ResponseKept, BufferKept DEF ResponsesOk, disk, history
<1>5. AnswerOk'
  BY <1>1, NoAnswerKept
<1>6. QED BY <1>1, <1>2, <1>4, <1>5, OneResponse

LEMMA ToUserKeeps ==
  ASSUME NEW k \in Parsed
  PROVE  /\ ToUser(k).off = k.off /\ ToUser(k).send = k.send /\ ToUser(k).fd = k.fd
         /\ ToUser(k).cl = k.cl
         /\ ToUser(k).ep = k.ep \/ (k.ep # "EP_FILE" /\ ToUser(k).ep # "EP_FILE")
BY DEF ToUser, Parsed

LEMMA RecvBadSent == ASSUME HInv, ResponsesOk, NEW c \in Conn, RecvBad(c) PROVE ResponsesOk'
<1>1. /\ Receiving(c) /\ UNCHANGED <<fds, pc, history>>
      /\ conn' = [conn EXCEPT ![c] = SendHttpError(Received(c))]
  BY DEF RecvBad
<1>2. Received(c) \in Parsed /\ Received(c).send = conn[c].send
  BY <1>1, ReceivedTyped, ReceivedKeepsResponse
<1>3. QED BY <1>1, <1>2, ErrorClears, ReadSent

LEMMA RecvMoreSent == ASSUME HInv, ResponsesOk, NEW c \in Conn, RecvMore(c) PROVE ResponsesOk'
<1> DEFINE k == Received(c)
           j == IF k.req = None THEN k ELSE ToUser(k)
<1>1. Receiving(c) /\ UNCHANGED <<fds, pc, history>> /\ conn' = [conn EXCEPT ![c] = j]
  BY DEF RecvMore
<1>2. /\ k \in Parsed /\ k.ep = conn[c].ep /\ k.fd = conn[c].fd
      /\ k.off = conn[c].off /\ k.send = conn[c].send
      /\ conn[c].ep = "EP_FILE" => k.cl = conn[c].cl
  BY <1>1, ReceivedTyped, ReceivedKeepsResponse
<1>3. conn[c].ep # "EP_FILE" => conn[c].off = 0
  BY DEF ResponsesOk, ResponseOk, LeftOk
<1> HIDE DEF k
<1>4. /\ \/ j.ep # "EP_FILE" /\ j.off = 0
         \/ j.ep = conn[c].ep /\ j.off = conn[c].off /\ j.fd = conn[c].fd
            /\ (conn[c].ep = "EP_FILE" => j.cl = conn[c].cl)
      /\ j.send = conn[c].send
  BY <1>2, <1>3, ToUserKeeps
<1> HIDE DEF j
<1>5. QED BY <1>1, <1>4, ReadSent

LEMMA RecvUnknownSent ==
  ASSUME HInv, ResponsesOk, NEW c \in Conn, RecvUnknown(c) PROVE ResponsesOk'
<1> DEFINE k == [Received(c) EXCEPT !.ep = "EP_NONE"]
<1>1. /\ Receiving(c) /\ UNCHANGED <<fds, pc, history>>
      /\ conn' = [conn EXCEPT ![c] = SendHttpError(k)]
  BY DEF RecvUnknown
<1>2. Received(c) \in Parsed /\ Received(c).send = conn[c].send
  BY <1>1, ReceivedTyped, ReceivedKeepsResponse
<1>3. k \in Parsed /\ k.send = conn[c].send
  BY <1>2 DEF Parsed, Endpoint
<1> HIDE DEF k
<1>4. QED BY <1>1, <1>3, ErrorClears, ReadSent

LEMMA RecvForeignSent ==
  ASSUME HInv, ResponsesOk, NEW c \in Conn, RecvForeign(c) PROVE ResponsesOk'
<1> DEFINE k == ToUser(Received(c))
<1>1. /\ Receiving(c) /\ UNCHANGED <<fds, pc, history>>
      /\ conn' = [conn EXCEPT ![c] = SendStatus(k)]
  BY DEF RecvForeign
<1>2. Received(c) \in Parsed /\ Received(c).send = conn[c].send
  BY <1>1, ReceivedTyped, ReceivedKeepsResponse
<1>3. k \in Parsed /\ k.send = conn[c].send
  BY <1>2, ToUserTyped, ToUserKeeps
<1> HIDE DEF k
<1>4. QED BY <1>1, <1>3, StatusClears, ReadSent

LEMMA RecvGetJournalSent ==
  ASSUME HInv, ResponsesOk, NEW c \in Conn, RecvGetJournal(c) PROVE ResponsesOk'
<1> DEFINE k == ToUser(Received(c))
<1>1. /\ Receiving(c) /\ IsRequest(Received(c)) /\ UNCHANGED <<disk, fds>>
      /\ pc' = "lookup" /\ cur' = c /\ conn' = [conn EXCEPT ![c] = k]
  BY DEF RecvGetJournal, Receiving
<1>2. /\ Received(c) \in Parsed /\ Received(c).ep = conn[c].ep
      /\ Received(c).off = conn[c].off /\ Received(c).send = conn[c].send
  BY <1>1, ReceivedTyped, ReceivedKeepsResponse
<1>3. conn[c].ep # "EP_FILE"
  BY <1>1, <1>2, RequestTyped
<1>4. conn[c].off = 0
  BY <1>3 DEF ResponsesOk, ResponseOk, LeftOk
<1>5. k.ep # "EP_FILE" /\ k.off = 0 /\ k.send = conn[c].send
  BY <1>2, <1>3, <1>4, ToUserKeeps
<1>6. /\ sent'[c] = <<>> /\ outcome'[c] = "none"
      /\ \A d \in Conn \ {c} : /\ since'[d] = since[d] /\ sent'[d] = sent[d]
                               /\ outcome'[d] = outcome[d]
  BY TypeParts DEF HInv, HistoryTyped, RecvGetJournal
<1> HIDE DEF k
<1>7. conn'[c] = k /\ \A d \in Conn \ {c} : Untouching(d)
  BY <1>1, <1>6, OthersUntouched
<1>8. ResponseOk(c)' /\ BufferOk(c)'
  BY <1>5, <1>6, <1>7, FreshResponse, BufferKept DEF ResponsesOk
<1>9. AnswerOk'
  BY <1>1, <1>6 DEF AnswerOk
<1>10. QED BY <1>1, <1>7, <1>8, <1>9, OneResponse

-----------------------------------------------------------------------------
(* Answering a request *)

\* The answer is that the log is not there.
LEMMA NotFoundSent ==
  ASSUME HInv, ResponsesOk, Answering, NEW k, NEW end \in {"missing", "vanished"},
         conn' = [conn EXCEPT ![cur] = k],
         k.ep # "EP_FILE", k.off = 0, Blocks(k.send) = Blocks(conn[cur].send),
         outcome' = [outcome EXCEPT ![cur] = end], UNCHANGED <<disk, fds, sent>>,
         pc' = "io",
         since'[cur] \cap {"absent", "moved"} # {},
         \A d \in Conn \ {cur} : since'[d] = since[d]
  PROVE  ResponsesOk'
<1>1. HistoryTyped
  BY TypeParts DEF HInv
<1>2. PICK c \in Conn : c = cur
  BY AnsweredConn
<1>3. outcome'[c] = end /\ \A d \in Conn \ {c} : outcome'[d] = outcome[d]
  BY <1>1, <1>2 DEF HistoryTyped
<1>4. conn'[c] = k /\ \A d \in Conn \ {c} : Untouching(d)
  BY <1>2, <1>3, OthersUntouched
<1>5. sent'[c] = <<>>
  BY <1>2 DEF ResponsesOk, AnswerOk, Answering
<1>6. ResponseOk(c)'
  BY <1>2, <1>3, <1>4, <1>5 DEF ResponseOk, BodyOk, LeftOk, OutcomeOk
<1>7. BufferOk(c)'
  BY <1>2, <1>4, BufferKept DEF ResponsesOk
<1>8. AnswerOk'
  BY NoAnswerKept
<1>9. QED BY <1>4, <1>6, <1>7, <1>8, OneResponse

\* A directory that shows neither one name is empty: a segment has one name.
LEMMA OneName ==
  ASSUME SegmentOk, Cardinality(Present) # 1
  PROVE  \A n \in Name : dir[n] = None
<1>1. \A n : Cardinality({n}) = 1
  BY FS_Singleton
<1>2. CASE dir["edits"] # None
  <2>1. Present = {"edits"}
    BY <1>2 DEF SegmentOk, Present, Name
  <2>2. QED BY <1>1, <2>1
<1>3. CASE dir["edits_inprogress"] # None
  <2>1. Present = {"edits_inprogress"}
    BY <1>3 DEF SegmentOk, Present, Name
  <2>2. QED BY <1>1, <2>1
<1>4. QED BY <1>2, <1>3 DEF Name

LEMMA LookupSent == ASSUME HInv, ResponsesOk, Lookup PROVE ResponsesOk'
<1>1. /\ Answering /\ pc = "lookup" /\ UNCHANGED <<disk, cur, fds, sent>>
  BY DEF Lookup, Answering, AnsweringElsewhere, Untouched
<1>2. /\ cur \in Conn /\ conn[cur] \in Parsed /\ HistoryTyped
      /\ sent[cur] = <<>> /\ outcome[cur] = "none"
  BY <1>1, AnsweredConn, TypeParts DEF HInv, ResponsesOk, AnswerOk
<1>3. PICK seen \in SUBSET Name :
        /\ "moved" \in since[cur] \/ seen = Present
        /\ \/ /\ path' \in seen
              /\ pc' = "stat"
              /\ UNCHANGED <<conn, since, outcome>>
           \/ /\ Cardinality(seen) # 1
              /\ conn' = [conn EXCEPT ![cur] = SendStatus(@)]
              /\ outcome' = [outcome EXCEPT ![cur] = "missing"]
              /\ since' = [since EXCEPT ![cur] =
                             IF \A n \in Name : dir[n] = None THEN @ \cup {"absent"} ELSE @]
              /\ pc' = "io"
  BY DEF Lookup, Present
<1>4. CASE path' \in seen /\ pc' = "stat" /\ UNCHANGED <<conn, since, outcome>>
  <2>1. "moved" \in since[cur] \/ dir[path'] # None
    BY <1>3, <1>4 DEF Present
  <2>2. AnswerOk'
    BY <1>1, <1>2, <1>4, <2>1 DEF AnswerOk, disk
  <2>3. \A c \in Conn : SendsOn(c)
    BY <1>1, <1>4 DEF SendsOn
  <2>4. UNCHANGED history
    BY <1>1, <1>4 DEF history
  <2>5. QED BY <1>1, <1>4, <2>2, <2>3, <2>4, AllResponses
<1>5. CASE /\ Cardinality(seen) # 1
           /\ conn' = [conn EXCEPT ![cur] = SendStatus(@)]
           /\ outcome' = [outcome EXCEPT ![cur] = "missing"]
           /\ since' = [since EXCEPT ![cur] =
                          IF \A n \in Name : dir[n] = None THEN @ \cup {"absent"} ELSE @]
           /\ pc' = "io"
  <2>1. "moved" \in since[cur] \/ \A n \in Name : dir[n] = None
    BY <1>3, <1>5, OneName DEF ResponsesOk
  <2>2. since'[cur] \cap {"absent", "moved"} # {}
    BY <1>2, <1>5, <2>1 DEF HistoryTyped
  <2>3. \A d \in Conn \ {cur} : since'[d] = since[d]
    BY <1>2, <1>5 DEF HistoryTyped
  <2>4. /\ SendStatus(conn[cur]).ep # "EP_FILE" /\ SendStatus(conn[cur]).off = 0
        /\ Blocks(SendStatus(conn[cur]).send) = Blocks(conn[cur].send)
    BY <1>2, StatusClears
  <2>5. QED BY <1>1, <1>5, <2>2, <2>3, <2>4, NotFoundSent
<1>6. QED BY <1>3, <1>4, <1>5

LEMMA VanishedSent == ASSUME HInv, ResponsesOk, Vanished PROVE ResponsesOk'
<1>1. /\ Answering /\ pc \in {"stat", "open"} /\ dir[path] = None
      /\ UNCHANGED <<disk, fds, since, sent>> /\ pc' = "io"
      /\ conn' = [conn EXCEPT ![cur] = SendHttpError(conn[cur])]
      /\ outcome' = [outcome EXCEPT ![cur] = "vanished"]
  BY DEF Vanished, Answering, AnsweringElsewhere, Untouched
<1>2. conn[cur] \in Parsed
  BY <1>1, AnsweredConn
<1>3. since'[cur] \cap {"absent", "moved"} # {}
  BY <1>1 DEF ResponsesOk, AnswerOk
<1>4. /\ SendHttpError(conn[cur]).ep # "EP_FILE" /\ SendHttpError(conn[cur]).off = 0
      /\ Blocks(SendHttpError(conn[cur]).send) = Blocks(conn[cur].send)
  BY <1>2, ErrorClears
<1>5. QED BY <1>1, <1>3, <1>4, NotFoundSent

LEMMA StatSent == ASSUME HInv, ResponsesOk, Stat PROVE ResponsesOk'
<1>1. /\ Answering /\ pc = "stat" /\ pc' = "open" /\ dir[path] # None
      /\ UNCHANGED <<disk, cur, conn, fds, path, sent, outcome>>
      /\ size' = Len(content[dir[path]])
      /\ since' = [since EXCEPT ![cur] = {}]
  BY DEF Stat, Answering, AnsweringElsewhere, Untouched
<1>2. /\ cur \in Conn /\ conn[cur].ep = "EP_USER" /\ path \in Name
      /\ HistoryTyped /\ PathTyped /\ DiskTyped
  BY <1>1, AnsweredConn, TypeParts DEF HInv
<1>3. PICK c \in Conn : c = cur
  BY <1>2
<1>4. since'[c] = {} /\ \A d \in Conn \ {c} : since'[d] = since[d]
  BY <1>1, <1>2, <1>3 DEF HistoryTyped
<1>5. \A d \in Conn \ {c} : Untouching(d)
  BY <1>1, <1>4 DEF Untouching
<1>6. /\ sent[c] = <<>> /\ outcome[c] = "none" /\ conn[c].off = 0
      /\ conn[c].ep # "EP_FILE"
  BY <1>1, <1>2, <1>3 DEF ResponsesOk, AnswerOk, ResponseOk, LeftOk
<1>7. ResponseOk(c)' /\ BufferOk(c)'
  BY <1>1, <1>6, FreshResponse, BufferKept DEF ResponsesOk
<1>8. AnswerOk'
  <2>1. content[dir[path]] \in Seq(Generation)
    BY <1>1, <1>2 DEF DiskTyped
  <2>2. size' <= Len(content[dir[path]])
    BY <1>1, <2>1
  <2>3. QED BY <1>1, <1>3, <1>6, <2>2 DEF AnswerOk, disk
<1>9. QED BY <1>1, <1>5, <1>7, <1>8, OneResponse

\* No more is promised than stat() saw, unless the range goes beyond.
LEMMA PromisedWithin ==
  ASSUME NEW r \in Request, NEW n \in Nat, ~(r.until # None /\ r.until >= n)
  PROVE  Promised(r, n) <= n
<1>1. CASE r.until = None
  BY <1>1 DEF Promised
<1>2. CASE r.until # None
  <2>1. r.until \in Nat
    BY <1>2, RequestAssumption
  <2>2. r.until < n
    BY <1>2, <2>1
  <2>3. {r.until, n} \in SUBSET Nat /\ {r.until, n} # {}
    BY <2>1
  <2>4. Min({r.until, n}) \in Nat /\ Min({r.until, n}) <= r.until
    BY <2>3, MinIsLeast
  <2>5. Promised(r, n) = Min({r.until, n}) + 1
    BY <1>2 DEF Promised
  <2>6. QED BY <2>1, <2>2, <2>4, <2>5
<1>3. QED BY <1>1, <1>2

LEMMA OpenFileSent == ASSUME HInv, ResponsesOk, OpenFile PROVE ResponsesOk'
<1> DEFINE f == Min({g \in Fd : fds[g] = None})
<1>1. /\ Answering /\ pc = "open" /\ pc' = "io" /\ dir[path] # None
      /\ UNCHANGED <<disk, cur, sent, outcome>>
  BY DEF OpenFile, Answering, AnsweringElsewhere, Untouched
<1>2. /\ cur \in Conn /\ conn[cur] \in State /\ conn[cur].ep = "EP_USER"
      /\ conn[cur].req \in Request /\ path \in Name
      /\ HistoryTyped /\ PathTyped /\ DiskTyped /\ FdsTyped
  BY <1>1, AnsweredConn, TypeParts DEF HInv
<1>3. PICK c \in Conn : c = cur
  BY <1>2
<1>4. PICK n \in Nat : n = Promised(conn[c].req, size)
  BY <1>2, <1>3, PromisedTyped DEF PathTyped
<1>5. f \in Fd /\ fds[f] = None
  <2>1. {g \in Fd : fds[g] = None} \in SUBSET Nat
    BY NumberAssumption
  <2>2. {g \in Fd : fds[g] = None} # {}
    BY DEF OpenFile
  <2>3. QED BY <2>1, <2>2, MinIsLeast
<1> DEFINE buffer == Append(conn[c].send, "head")
           head == [conn[c] EXCEPT !.send = buffer, !.cl = n, !.ep = "EP_NONE",
                                   !.flags = @ \cup {"finishedSendingData"}]
           body == [conn[c] EXCEPT !.send = buffer, !.cl = n, !.ep = "EP_FILE", !.fd = f]
<1>6. /\ sent[c] = <<>> /\ outcome[c] = "none" /\ conn[c].off = 0
  BY <1>1, <1>2, <1>3 DEF ResponsesOk, AnswerOk, ResponseOk, LeftOk
<1>7. Blocks(buffer) = Blocks(conn[c].send) /\ buffer \in Seq({"head", "chunk", "block"})
  <2>1. conn[c].send \in Seq({"head", "chunk", "block"})
    BY <1>2, <1>3 DEF State
  <2>2. QED BY <2>1, BlocksAppend
<1>8. AnswerOk'
  BY <1>1, NoAnswerKept
<1> HIDE DEF f, buffer
<1>9. CASE conn' = [conn EXCEPT ![c] = head] /\ UNCHANGED <<fds, since>>
  <2>1. head.ep = "EP_NONE" /\ head.off = 0 /\ head.send = buffer
    BY <1>2, <1>3, <1>6 DEF State
  <2> HIDE DEF head
  <2>2. conn'[c] = head /\ \A d \in Conn \ {c} : Untouching(d)
    BY <1>1, <1>9, OthersUntouched
  <2>3. ResponseOk(c)' /\ BufferOk(c)'
    BY <1>1, <1>6, <1>7, <2>1, <2>2, FreshResponse, BufferKept DEF ResponsesOk
  <2>4. QED BY <1>1, <1>8, <2>2, <2>3, OneResponse
<1>10. CASE /\ conn' = [conn EXCEPT ![c] = body]
            /\ fds' = [fds EXCEPT ![f] = dir[path]]
            /\ since' = [since EXCEPT ![c] =
                 IF conn[c].req.until # None /\ conn[c].req.until >= size
                 THEN @ \cup {"pastEnd"} ELSE @]
  <2>1. /\ body.ep = "EP_FILE" /\ body.off = 0 /\ body.send = buffer
        /\ body.cl = n /\ body.fd = f
    BY <1>2, <1>3, <1>6 DEF State
  <2> HIDE DEF body
  <2>2. dir[path] \in Inode
    BY <1>1, <1>2 DEF DiskTyped
  <2>3. /\ since[c] \subseteq since'[c]
        /\ conn[c].req.until # None /\ conn[c].req.until >= size => "pastEnd" \in since'[c]
        /\ \A d \in Conn \ {c} : since'[d] = since[d]
    BY <1>2, <1>10 DEF HistoryTyped
  <2>4. conn'[c] = body /\ \A d \in Conn \ {c} : Untouching(d)
    BY <1>1, <1>5, <1>10, <2>2, <2>3, OthersUntouched
  <2>5. fds'[f] = dir[path]
    BY <1>2, <1>5, <1>10 DEF FdsTyped
  <2>6. BodyOk(c)' /\ OutcomeOk(c)'
    BY <1>1, <1>6 DEF BodyOk, OutcomeOk
  <2>7. LeftOk(c)'
    <3> SUFFICES ASSUME since'[c] \cap {"cut", "moved", "pastEnd"} = {}
                 PROVE  n <= Len(content'[dir[path]])
      BY <1>4, <2>1, <2>4, <2>5 DEF LeftOk, FileSent
    <3>1. since[c] \cap {"cut", "moved"} = {}
      BY <2>3
    <3>2. size <= Len(content[dir[path]])
      BY <1>1, <1>3, <3>1 DEF ResponsesOk, AnswerOk
    <3>3. n <= size
      BY <1>2, <1>3, <1>4, <2>3, PromisedWithin DEF PathTyped
    <3>4. size \in Nat /\ Len(content[dir[path]]) \in Nat
      BY <1>2, <2>2 DEF PathTyped, DiskTyped
    <3>5. n <= Len(content[dir[path]])
      BY <3>2, <3>3, <3>4
    <3>6. QED BY <1>1, <3>5 DEF disk
  <2>8. BufferOk(c)'
    BY <1>7, <2>1, <2>4, BufferKept DEF ResponsesOk
  <2>9. QED BY <1>1, <1>8, <2>4, <2>6, <2>7, <2>8, OneResponse DEF ResponseOk
<1>11. QED
  <2>1. CASE conn[c].req.method = "HEAD"
    BY <1>3, <1>4, <1>9, <2>1 DEF OpenFile, buffer
  <2>2. CASE conn[c].req.method # "HEAD"
    BY <1>3, <1>4, <1>10, <2>2 DEF OpenFile, buffer, f
  <2>3. QED BY <2>1, <2>2

-----------------------------------------------------------------------------
(* The theorems about responses *)

LEMMA StepSends == HInv /\ ResponsesOk /\ [Next]_vars => ResponsesOk'
<1> SUFFICES ASSUME HInv, ResponsesOk, [Next]_vars PROVE ResponsesOk'
  OBVIOUS
<1>1. CASE RpcThread
  BY <1>1, RpcThreadSent
<1>2. ASSUME NEW c \in Conn, Arrive(c) \/ Leave(c) PROVE ResponsesOk'
  BY <1>2, QuietSent
<1>3. CASE Tick \/ Signal
  BY <1>3, TickSent, QuietSent
<1>4. CASE ServerThread
  BY <1>4, QuietSent, PollTransferSent, PollCloseSent, AcceptSent, RecvBadSent,
     RecvMoreSent, RecvUnknownSent, RecvForeignSent, RecvGetJournalSent, LookupSent,
     VanishedSent, StatSent, OpenFileSent, RecvEndSent, WriteSent, SweepSent
     DEF ServerThread
<1>5. CASE UNCHANGED vars
  BY <1>5, QuietSent
<1>6. QED BY <1>1, <1>2, <1>3, <1>4, <1>5 DEF Next

\* The invariant that the theorems below rest on: what is left to send of a file
\* is in it unless something befell the file, what was sent is like what it
\* holds, and where an answer is being made, what was seen of the segment is so.
THEOREM ResponsesInvariant == Spec => []ResponsesOk
<1>1. Init => ResponsesOk
  BY InitResponses
<1>2. HInv /\ ResponsesOk /\ [Next]_vars => ResponsesOk'
  BY StepSends
<1>3. QED BY <1>1, <1>2, ServerInvariant, PTL DEF Spec

\* Every body holds the blocks of one content of the log, whatever is appended,
\* renamed or replaced while it is sent: only a truncation in place mixes two
\* (transfer_file_data reads on through the open descriptor, mongoose.c:4746).
THEOREM BodyIsOneContent == Spec => []BodyOfOneContent
<1>1. ResponsesOk => BodyOfOneContent
  BY DEF ResponsesOk, ResponseOk, BodyOk, BodyOfOneContent
<1>2. QED BY <1>1, ResponsesInvariant, PTL

\* A response falls short of its Content-Length only if the file was truncated,
\* exchanged between stat() and open(), or the range ends beyond it
\* (open_file_endpoint promises what stat() saw).
THEOREM ShortIsCut == Spec => []ShortOnlyIfCut
<1>1. ResponsesOk => ShortOnlyIfCut
  BY DEF ResponsesOk, ResponseOk, OutcomeOk, ShortOnlyIfCut
<1>2. QED BY <1>1, ResponsesInvariant, PTL

\* A log is reported as not found only if there was none, or its name changed
\* between the listing of the directory and the open() (send_reply, getLogFile).
THEOREM NotFoundIsMoved == Spec => []NotFoundOnlyIfMoved
<1>1. ResponsesOk => NotFoundOnlyIfMoved
  BY DEF ResponsesOk, ResponseOk, OutcomeOk, NotFoundOnlyIfMoved
<1>2. QED BY <1>1, ResponsesInvariant, PTL

\* However slowly a client reads and however large the file is, at most three
\* times IOBUF_SIZE of it wait in the send buffer (transfer_file_data reads on
\* only while no more than twice that much waits).
THEOREM BufferIsBounded == Spec => []BufferedBlocksBounded
<1>1. ResponsesOk => BufferedBlocksBounded
  BY DEF ResponsesOk, BufferOk, Blocks, BufferedBlocksBounded
<1>2. QED BY <1>1, ResponsesInvariant, PTL
=============================================================================
