------------------------------ MODULE Protocol ------------------------------
(***************************************************************************)
(* The wire codec of src/src/Protocol.cpp and src/include/Protocol.h as    *)
(* operators over byte sequences.                                          *)
(*                                                                         *)
(* A byte is an integer in 0..255.  A uint32_t is kept as its four bytes,  *)
(* least significant first (a "word"), because its values pass TLC's       *)
(* integer range; arithmetic on it is done bytewise with Bitwise.          *)
(* MessageHeader is memcpy'd in host byte order, taken to be little-endian *)
(* (x86-64, AArch64); payload integers go through htonl/ntohl.             *)
(***************************************************************************)
EXTENDS Integers, Sequences, SequencesExt, Bitwise

Byte == 0..255

\* A uint32_t field n < 2^31 as it lies in memory: four bytes, least
\* significant first.
Word(n) == [i \in 1..4 |-> (n \div 2^(8 * (i - 1))) % 256]

XorWord(a, b) == <<a[1] ^^ b[1], a[2] ^^ b[2], a[3] ^^ b[3], a[4] ^^ b[4]>>

AllOnes == <<255, 255, 255, 255>>

\* enum class MessageType : uint8_t (src/include/Common.h).
PEER_LIST_REQUEST == 1
PEER_LIST_RESPONSE == 2
FILE_LIST_REQUEST == 3
FILE_LIST_RESPONSE == 4
FILE_REQUEST == 5
FILE_CHUNK == 6
FILE_COMPLETE == 7
ERROR_MESSAGE == 8
PING == 9
PONG == 10

-----------------------------------------------------------------------------
(* CRC-32                                                                  *)

\* 0xEDB88320, the reflected IEEE polynomial.
ReflectedPoly == <<32, 131, 184, 237>>

\* crc >> 1 and crc >> 8 on a word.
ShiftRight1(w) == [i \in 1..4 |-> w[i] \div 2 + (IF i < 4 THEN (w[i + 1] % 2) * 128 ELSE 0)]
ShiftRight8(w) == <<w[2], w[3], w[4], 0>>

RECURSIVE TableRounds(_, _)
TableRounds(c, k) ==
  IF k = 0 THEN c
  ELSE TableRounds(IF c[1] % 2 = 1 THEN XorWord(ShiftRight1(c), ReflectedPoly)
                                   ELSE ShiftRight1(c), k - 1)

\* crc32_table: the source lists the 256 entries of the table that eight
\* reflected shift-and-xor rounds produce from each index; the ASSUME
\* below compares entries with the literals written in the source.
crc32_table == [i \in Byte |-> TableRounds(<<i, 0, 0, 0>>, 8)]

ASSUME /\ crc32_table[0] = <<0, 0, 0, 0>>
       /\ crc32_table[1] = <<150, 48, 7, 119>>       \* 0x77073096
       /\ crc32_table[128] = <<32, 131, 184, 237>>  \* 0xedb88320
       /\ crc32_table[255] = <<141, 239, 2, 45>>     \* 0x2d02ef8d

\* One iteration of the loop: crc = table[(crc ^ byte) & 0xFF] ^ (crc >> 8).
CrcStep(crc, byte) == XorWord(crc32_table[crc[1] ^^ byte], ShiftRight8(crc))

\* The for loop over the bytes.  TLC passes arguments unevaluated, so the
\* step's value is tested before the loop goes on: evaluation stays one
\* byte deep.
RECURSIVE CrcLoop(_, _, _)
CrcLoop(crc, data, i) ==
  IF i > Len(data) THEN crc
  ELSE LET next == CrcStep(crc, data[i]) IN
       IF next[1] \in Byte THEN CrcLoop(next, data, i + 1) ELSE crc

\* Faulty variant: the final inversion is left out.
CalculateCRC32NoFinalXor(data) == CrcLoop(AllOnes, data, 1)

calculateCRC32(data) == XorWord(CrcLoop(AllOnes, data, 1), AllOnes)

-----------------------------------------------------------------------------
(* Header and frame                                                        *)

MAGIC_NUMBER == Word(1345474610)   \* 0x50325032, "P2P2"
PROTOCOL_VERSION == Word(1)

\* sizeof(MessageHeader): packed, 4 + 4 + 1 + 4 + 4 bytes.
HeaderSize == 17

\* 1-based positions of the header fields in a frame.
TypePos == 9
SizeField(data) == SubSeq(data, 10, 13)
ChecksumField(data) == SubSeq(data, 14, 17)

createMessage(type, payload) ==
  MAGIC_NUMBER \o PROTOCOL_VERSION \o <<type>> \o Word(Len(payload))
    \o calculateCRC32(payload) \o payload

Rejected == [ok |-> FALSE]

\* Faulty variant: the checksum is never verified.
ParseMessageNoCrc(data) ==
  IF /\ Len(data) >= HeaderSize
     /\ SubSeq(data, 1, 4) = MAGIC_NUMBER /\ SubSeq(data, 5, 8) = PROTOCOL_VERSION
     /\ SizeField(data) = Word(Len(data) - HeaderSize)
  THEN [ok |-> TRUE, type |-> data[TypePos], payload |-> SubSeq(data, HeaderSize + 1, Len(data))]
  ELSE Rejected

\* Too short, bad magic or version, a length other than header plus
\* payload_size, or (for a non-empty payload only) a CRC mismatch.
parseMessage(data) ==
  LET payload == SubSeq(data, HeaderSize + 1, Len(data)) IN
  IF /\ Len(data) >= HeaderSize
     /\ SubSeq(data, 1, 4) = MAGIC_NUMBER /\ SubSeq(data, 5, 8) = PROTOCOL_VERSION
     /\ SizeField(data) = Word(Len(data) - HeaderSize)
     /\ payload # <<>> => calculateCRC32(payload) = ChecksumField(data)
  THEN [ok |-> TRUE, type |-> data[TypePos], payload |-> payload]
  ELSE Rejected

-----------------------------------------------------------------------------
(* Payload encodings.  A std::string is its byte sequence.                 *)

\* Faulty variant: serializeUint32 without htonl (host order on the wire).
SerializeUint32HostOrder(v) == Word(v)

\* serializeUint32: htonl, so the most significant byte first.
serializeUint32(v) == Reverse(Word(v))

serializeString(str) == serializeUint32(Len(str)) \o str

Failed == [ok |-> FALSE]

\* Decoded uint32 values of 2^30 or more are kept as Huge: the parsers only
\* compare them with buffer sizes (size_t, no overflow), which they exceed.
Huge == 2^30
BigEndian(b) == IF b[1] >= 64 THEN Huge ELSE ((b[1] * 256 + b[2]) * 256 + b[3]) * 256 + b[4]

\* deserializeUint32 and deserializeString: on success the value and the
\* advanced offset, else failure (the offset is then never used again).
deserializeUint32(buf, off) ==
  IF off + 4 > Len(buf) THEN Failed
  ELSE [ok |-> TRUE, val |-> BigEndian(SubSeq(buf, off + 1, off + 4)), off |-> off + 4]

deserializeString(buf, off) ==
  LET n == deserializeUint32(buf, off) IN
  IF ~n.ok \/ n.off + n.val > Len(buf) THEN Failed
  ELSE [ok |-> TRUE, val |-> SubSeq(buf, n.off + 1, n.off + n.val), off |-> n.off + n.val]

\* FileInfo as it travels: filename, size, hash, last_modified.
SerializeFileInfo(f) ==
  serializeString(f.filename) \o serializeUint32(f.size)
    \o serializeString(f.hash) \o serializeUint32(f.last_modified)

createPeerListResponse(peers) ==
  serializeUint32(Len(peers)) \o FoldLeft(LAMBDA acc, p : acc \o serializeString(p), <<>>, peers)

createPeerListRequest == <<>>

createFileListRequest(peer_id) == serializeString(peer_id)

createFileListResponse(files) ==
  serializeUint32(Len(files)) \o FoldLeft(LAMBDA acc, f : acc \o SerializeFileInfo(f), <<>>, files)

createFileRequest(filename, offset, length) ==
  serializeString(filename) \o serializeUint32(offset) \o serializeUint32(length)

createFileChunk(chunk_data, offset) ==
  serializeUint32(offset) \o serializeUint32(Len(chunk_data)) \o chunk_data

createErrorMessage(code, message) == <<code>> \o serializeString(message)

\* The loop of parsePeerListResponse: count strings, stopping at the first
\* that does not decode.
RECURSIVE ReadPeers(_, _, _, _)
ReadPeers(buf, off, count, acc) ==
  IF count = 0 THEN [ok |-> TRUE, val |-> acc]
  ELSE LET s == deserializeString(buf, off) IN
       IF ~s.ok THEN Failed ELSE ReadPeers(buf, s.off, count - 1, Append(acc, s.val))

parsePeerListResponse(payload) ==
  LET n == deserializeUint32(payload, 0) IN
  IF ~n.ok THEN Failed ELSE ReadPeers(payload, n.off, n.val, <<>>)

\* One entry of parseFileListResponse: the four reads in order.
ReadFileInfo(buf, off) ==
  LET name == deserializeString(buf, off)
      size == deserializeUint32(buf, name.off)
      hash == deserializeString(buf, size.off)
      modified == deserializeUint32(buf, hash.off)
  IN IF ~name.ok \/ ~size.ok \/ ~hash.ok \/ ~modified.ok THEN Failed
     ELSE [ok |-> TRUE, off |-> modified.off,
           val |-> [filename |-> name.val, size |-> size.val,
                    hash |-> hash.val, last_modified |-> modified.val]]

RECURSIVE ReadFiles(_, _, _, _)
ReadFiles(buf, off, count, acc) ==
  IF count = 0 THEN [ok |-> TRUE, val |-> acc]
  ELSE LET f == ReadFileInfo(buf, off) IN
       IF ~f.ok THEN Failed ELSE ReadFiles(buf, f.off, count - 1, Append(acc, f.val))

parseFileListResponse(payload) ==
  LET n == deserializeUint32(payload, 0) IN
  IF ~n.ok THEN Failed ELSE ReadFiles(payload, n.off, n.val, <<>>)

parseFileRequest(payload) ==
  LET name == deserializeString(payload, 0)
      offset == deserializeUint32(payload, name.off)
      length == deserializeUint32(payload, offset.off)
  IN IF ~name.ok \/ ~offset.ok \/ ~length.ok THEN Failed
     ELSE [ok |-> TRUE, val |-> [filename |-> name.val, offset |-> offset.val, length |-> length.val]]

\* parseFileChunk checks that chunk_size bytes follow; bytes after them
\* are ignored.
parseFileChunk(payload) ==
  LET offset == deserializeUint32(payload, 0)
      size == deserializeUint32(payload, offset.off)
  IN IF ~offset.ok \/ ~size.ok \/ size.off + size.val > Len(payload) THEN Failed
     ELSE [ok |-> TRUE, val |-> [chunk_data |-> SubSeq(payload, size.off + 1, size.off + size.val),
                                 offset |-> offset.val]]

====
