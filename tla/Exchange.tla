------------------------------ MODULE Exchange ------------------------------
(***************************************************************************)
(* One TCP connection between a Client (src/src/Client.cpp) and the       *)
(* legacy Server (src/src/Server.cpp), at the level of bytes.             *)
(*                                                                         *)
(* Client::sendMessage writes a 4-byte big-endian length, then            *)
(* [type][payload].  Client::receiveMessage reads 4 bytes with            *)
(* MSG_WAITALL, rejects a length above 10 MiB, then reads that many bytes.*)
(* The server's accept thread gets an edge-triggered EPOLLIN event and    *)
(* calls handleClientConnection: Server::receiveMessage drains what has   *)
(* arrived in BUFFER_SIZE reads, processMessage dispatches on message[0], *)
(* and Server::sendMessage writes [type][payload] with no length.         *)
(*                                                                         *)
(* TCP may split the client's bytes into segments at any point; each      *)
(* arrival is an edge.  A server handler runs to completion before the    *)
(* client sees its reply (it is one iteration of the accept thread and    *)
(* its sends do not block on a small reply).                              *)
(***************************************************************************)
EXTENDS Naturals, Sequences, SequencesExt

CONSTANTS
  Ops,          \* client operations on this connection
  BufSize,      \* BUFFER_SIZE
  FileName,     \* bytes of the filename the client requests
  PeerId,       \* bytes of the peer id sent with FILE_LIST_REQUEST
  FileSize,     \* size of the shared file, if the server has it
  PeerLists,    \* possible payloads of the server's PEER_LIST_RESPONSE
  FileLists     \* possible payloads of the server's FILE_LIST_RESPONSE

\* Bytes are kept below 128 so that a 4-byte length fits TLC's integers.
Byte == 0..127

ASSUME /\ Ops \subseteq {"peerlist", "filelist", "download", "ping"}
       /\ BufSize \in Nat \ {0} /\ FileSize \in Nat
       /\ FileName \in Seq(Byte) /\ PeerId \in Seq(Byte)
       /\ PeerLists \subseteq Seq(Byte) /\ FileLists \subseteq Seq(Byte)

\* MessageType (src/include/Common.h).
PEER_LIST_REQUEST == 1
PEER_LIST_RESPONSE == 2
FILE_LIST_REQUEST == 3
FILE_LIST_RESPONSE == 4
FILE_REQUEST == 5
FILE_CHUNK == 6
FILE_COMPLETE == 7
ERROR_MESSAGE == 8
PING == 9

\* receiveMessage's "10MB max message size".
MaxMessage == 10 * 1024 * 1024

\* htonl: the 4 bytes of n, most significant first.
LengthBytes(n) ==
  <<(n \div 16777216) % 256, (n \div 65536) % 256, (n \div 256) % 256, n % 256>>

\* ntohl of the first 4 bytes of s.
LengthOf(s) == ((s[1] * 256 + s[2]) * 256 + s[3]) * 256 + s[4]

\* Client::sendMessage: length, then [type][payload].
ClientFrame(type, payload) ==
  LengthBytes(1 + Len(payload)) \o <<type>> \o payload

\* Server::sendMessage: [type][payload], no length.
ServerFrame(type, payload) == <<type>> \o payload

\* The request each client operation sends.
Request(op) ==
  CASE op = "peerlist" -> ClientFrame(PEER_LIST_REQUEST, <<>>)
    [] op = "filelist" -> ClientFrame(FILE_LIST_REQUEST, PeerId)
    [] op = "download" -> ClientFrame(FILE_REQUEST, FileName)
    [] op = "ping"     -> ClientFrame(PING, <<>>)

\* The shared file, its bytes all 'x'.
FileBytes == [i \in 1..FileSize |-> 120]

\* handleFileRequest's loop: one FILE_CHUNK per BUFFER_SIZE read.
RECURSIVE ChunkFrames(_)
ChunkFrames(s) ==
  IF s = <<>> THEN <<>>
  ELSE LET n == IF Len(s) < BufSize THEN Len(s) ELSE BufSize
       IN ServerFrame(FILE_CHUNK, SubSeq(s, 1, n)) \o ChunkFrames(SubSeq(s, n + 1, Len(s)))

VARIABLES
  op,           \* the client operation on this connection
  hasFile,      \* the server's FileManager shares FileName
  c2s,          \* bytes the client has sent
  arrived,      \* how many of them have reached the server's socket
  consumed,     \* how many of them the server has read
  edge,         \* an EPOLLIN edge is pending for the connection
  finSent,      \* the client has closed its socket (FIN sent)
  finIn,        \* the FIN has reached the server's socket
  srvOpen,      \* the server still has the connection in epoll
  s2c,          \* bytes the server has sent
  rpos,         \* how many of them the client has read
  cpc,          \* where the client is
  outcome       \* what the client operation ended with

vars == <<op, hasFile, c2s, arrived, consumed, edge, finSent, finIn, srvOpen, s2c,
          rpos, cpc, outcome>>

TypeOK ==
  /\ op \in Ops /\ hasFile \in BOOLEAN
  /\ c2s \in Seq(Byte) /\ s2c \in Seq(Byte)
  /\ arrived \in 0..Len(c2s) /\ consumed \in 0..arrived
  /\ rpos \in 0..Len(s2c)
  /\ edge \in BOOLEAN /\ finSent \in BOOLEAN /\ finIn \in BOOLEAN
  /\ srvOpen \in BOOLEAN
  /\ cpc \in {"send", "recv", "close", "closed"}
  /\ outcome \in {"none", "ok", "false", "fail"}

Init ==
  /\ op \in Ops /\ hasFile \in BOOLEAN
  /\ c2s = <<>> /\ arrived = 0 /\ consumed = 0 /\ edge = FALSE
  /\ finSent = FALSE /\ finIn = FALSE /\ srvOpen = TRUE
  /\ s2c = <<>> /\ rpos = 0
  /\ cpc = "send" /\ outcome = "none"

-----------------------------------------------------------------------------
(* Client                                                                  *)

\* The operation sends its request.  sendPing is followed at once by
\* disconnect() (PeerManager::broadcastPeerDiscovery); the others go on to
\* receiveMessage.
Send ==
  /\ cpc = "send"
  /\ c2s' = Request(op)
  /\ cpc' = IF op = "ping" THEN "close" ELSE "recv"
  /\ outcome' = IF op = "ping" THEN "ok" ELSE outcome
  /\ UNCHANGED <<op, hasFile, arrived, consumed, edge, finSent, finIn, srvOpen,
                 s2c, rpos>>

\* Bytes the client has received and not yet read.
Unread == SubSeq(s2c, rpos + 1, Len(s2c))

\* receiveMessage can return: 4 length bytes are there, the length is
\* accepted and the whole message has arrived.
Decodable ==
  /\ Len(Unread) >= 4
  /\ LengthOf(Unread) <= MaxMessage
  /\ Len(Unread) - 4 >= LengthOf(Unread)

\* receiveMessage throws "Message too large".
Oversize == Len(Unread) >= 4 /\ LengthOf(Unread) > MaxMessage

\* What the operation does with a message m that receiveMessage returned:
\* requestPeerList and requestFileList throw unless m is their response;
\* downloadFile returns false on an empty message, goes on after a chunk or
\* an unexpected type, and ends on FILE_COMPLETE or ERROR_MESSAGE.
Consume(m) ==
  LET expected == IF op = "peerlist" THEN PEER_LIST_RESPONSE ELSE FILE_LIST_RESPONSE
      end(o) == cpc' = "close" /\ outcome' = o
  IN  IF op \in {"peerlist", "filelist"}
      THEN IF m # <<>> /\ m[1] = expected THEN end("ok") ELSE end("fail")
      ELSE CASE m = <<>>              -> end("false")
             [] m[1] = FILE_COMPLETE  -> end("ok")
             [] m[1] = ERROR_MESSAGE  -> end("fail")
             [] OTHER                 -> UNCHANGED <<cpc, outcome>>

\* One call of Client::receiveMessage that returns or throws at once: the
\* length is read, a length above 10 MiB throws, otherwise the message is
\* read once all of it is there.
Receive ==
  /\ cpc = "recv"
  /\ Len(Unread) >= 4
  /\ IF LengthOf(Unread) > MaxMessage
     THEN cpc' = "close" /\ outcome' = "fail" /\ UNCHANGED rpos
     ELSE /\ Len(Unread) - 4 >= LengthOf(Unread)
          /\ rpos' = rpos + 4 + LengthOf(Unread)
          /\ Consume(SubSeq(Unread, 5, 4 + LengthOf(Unread)))
  /\ UNCHANGED <<op, hasFile, c2s, arrived, consumed, edge, finSent, finIn,
                 srvOpen, s2c>>

\* SO_RCVTIMEO (10 s) expires: recv returns short and receiveMessage
\* throws.  The server answers well within 10 s, so this happens only when
\* it has handled every byte and the client still lacks a message.
Timeout ==
  /\ cpc = "recv"
  /\ ~Decodable /\ ~Oversize
  /\ arrived = Len(c2s) /\ ~edge
  /\ cpc' = "close" /\ outcome' = "fail"
  /\ UNCHANGED <<op, hasFile, c2s, arrived, consumed, edge, finSent, finIn,
                 srvOpen, s2c, rpos>>

\* disconnect(): close the socket, which sends FIN after the data.
Close ==
  /\ cpc = "close"
  /\ cpc' = "closed" /\ finSent' = TRUE
  /\ UNCHANGED <<op, hasFile, c2s, arrived, consumed, edge, finIn, srvOpen,
                 s2c, rpos, outcome>>

-----------------------------------------------------------------------------
(* Network and server                                                      *)

\* The next k bytes of the client's stream reach the server's socket as one
\* segment; an edge-triggered EPOLLIN event is raised.
Arrive(k) ==
  /\ arrived < k /\ k <= Len(c2s)
  /\ arrived' = k /\ edge' = TRUE
  /\ UNCHANGED <<op, hasFile, c2s, consumed, finSent, finIn, srvOpen, s2c,
                 rpos, cpc, outcome>>

\* The FIN follows the data; its arrival is an edge as well.
FinArrive ==
  /\ finSent /\ ~finIn /\ arrived = Len(c2s)
  /\ finIn' = TRUE /\ edge' = TRUE
  /\ UNCHANGED <<op, hasFile, c2s, arrived, consumed, finSent, srvOpen, s2c,
                 rpos, cpc, outcome>>

\* What processMessage sends for a message m: dispatch on m[0].  A peer or
\* file list is any the registry or FileManager could hold; a file request
\* for a name FileManager does not know ends in getFileInfo's exception
\* and an ERROR_MESSAGE carrying its text.  Any other type (PING
\* included) is logged and gets no answer.
Reply(m) ==
  LET type == m[1]
      payload == Tail(m)
  IN  CASE type = PEER_LIST_REQUEST ->
             {ServerFrame(PEER_LIST_RESPONSE, l) : l \in PeerLists}
        [] type = FILE_LIST_REQUEST ->
             {ServerFrame(FILE_LIST_RESPONSE, l) : l \in FileLists}
        [] type = FILE_REQUEST /\ hasFile /\ payload = FileName ->
             {ChunkFrames(FileBytes) \o ServerFrame(FILE_COMPLETE, <<>>)}
        [] type = FILE_REQUEST ->
             {ServerFrame(ERROR_MESSAGE, payload)}
        [] OTHER -> {<<>>}

\* One handleClientConnection call for the pending edge.
\* Server::receiveMessage reads BUFFER_SIZE at a time: it stops after a
\* short read, or when recv reports EAGAIN (nothing left) or 0 (FIN,
\* which throws, and the catch closes the connection).  So a closed
\* connection is noticed only when the bytes waiting are a multiple of
\* BUFFER_SIZE (none included), and then the message read is discarded.
HandleClient ==
  /\ srvOpen /\ edge
  /\ edge' = FALSE
  /\ consumed' = arrived
  /\ LET n == arrived - consumed
         m == SubSeq(c2s, consumed + 1, arrived)
     IN  IF n % BufSize = 0 /\ finIn
         THEN srvOpen' = FALSE /\ UNCHANGED s2c
         ELSE /\ n > 0 => \E r \in Reply(m) : s2c' = s2c \o r
              /\ n = 0 => UNCHANGED s2c
              /\ UNCHANGED srvOpen
  /\ UNCHANGED <<op, hasFile, c2s, arrived, finSent, finIn, rpos, cpc, outcome>>

Client == Send \/ Receive \/ Timeout \/ Close
Network == (\E k \in 1..Len(c2s) : Arrive(k)) \/ FinArrive

Next == Client \/ Network \/ HandleClient

\* The client thread runs; TCP delivers what was sent; the accept thread
\* calls epoll_wait every second and handles every event it returns.
Spec ==
  /\ Init /\ [][Next]_vars
  /\ WF_vars(Client) /\ WF_vars(Network) /\ WF_vars(HandleClient)

-----------------------------------------------------------------------------
(* Properties                                                              *)

\* Once the client has disconnected, the server eventually closes its
\* side and drops the connection from epoll (no descriptor is leaked).
ConnectionReleased == finSent ~> ~srvOpen

====
