------------------------------ MODULE Framing ------------------------------
(***************************************************************************)
(* One connection carrying frames built by the Protocol codec: a sender    *)
(* encodes a message (Protocol::createXxx, then createMessage), the        *)
(* network may damage the bytes (change one byte, or lose the last one),   *)
(* and the receiver decodes them (Protocol::parseMessage, then the parser  *)
(* for the type it finds in the header, as test_protocol.cpp does).        *)
(* Types without a parser in Protocol.cpp are received as raw payload.     *)
(***************************************************************************)
EXTENDS Protocol

CONSTANT Messages   \* messages the sender may send: [type, body]

VARIABLES
  msg,      \* the message last sent
  wire,     \* the bytes on the connection
  damage,   \* what the network did to them
  out,      \* what the receiver decoded
  stage     \* "idle", "sent" or "received"

vars == <<msg, wire, damage, out, stage>>

NoDamage == [kind |-> "none", pos |-> 0]

\* The payload the sending side builds for a message.
Payload(m) ==
  CASE m.type = PEER_LIST_RESPONSE -> createPeerListResponse(m.body)
    [] m.type = FILE_LIST_REQUEST  -> createFileListRequest(m.body)
    [] m.type = FILE_LIST_RESPONSE -> createFileListResponse(m.body)
    [] m.type = FILE_REQUEST -> createFileRequest(m.body.filename, m.body.offset, m.body.length)
    [] m.type = FILE_CHUNK   -> createFileChunk(m.body.chunk_data, m.body.offset)
    [] m.type = ERROR_MESSAGE -> createErrorMessage(m.body.code, m.body.message)
    [] m.type = PEER_LIST_REQUEST -> createPeerListRequest
    [] OTHER -> <<>>

Parsed == {PEER_LIST_RESPONSE, FILE_LIST_RESPONSE, FILE_REQUEST, FILE_CHUNK}

\* The receiving side: the parser for the type in the header.
ParseBody(type, payload) ==
  CASE type = PEER_LIST_RESPONSE -> parsePeerListResponse(payload)
    [] type = FILE_LIST_RESPONSE -> parseFileListResponse(payload)
    [] type = FILE_REQUEST -> parseFileRequest(payload)
    [] type = FILE_CHUNK   -> parseFileChunk(payload)
    [] OTHER -> [ok |-> TRUE, val |-> payload]

Decode(bytes) ==
  LET frame == parseMessage(bytes)
      body == ParseBody(frame.type, frame.payload)
  IN IF frame.ok /\ body.ok THEN [ok |-> TRUE, type |-> frame.type, body |-> body.val]
     ELSE Failed

TypeOK ==
  /\ msg \in Messages
  /\ \A i \in DOMAIN wire : wire[i] \in Byte
  /\ damage \in {NoDamage} \cup [kind : {"corrupt"}, pos : Nat] \cup {[kind |-> "truncate", pos |-> 0]}
  /\ out.ok \in BOOLEAN
  /\ stage \in {"idle", "sent", "received"}

Init ==
  /\ msg \in Messages
  /\ wire = <<>> /\ damage = NoDamage /\ out = Failed /\ stage = "idle"

Send(m) ==
  /\ stage = "idle"
  /\ msg' = m
  /\ wire' = createMessage(m.type, Payload(m))
  /\ damage' = NoDamage
  /\ stage' = "sent"
  /\ UNCHANGED out

\* The network changes one byte: every bit of it, or its lowest bit.
Corrupt(i, v) ==
  /\ stage = "sent" /\ damage = NoDamage
  /\ v \in {255 - wire[i], wire[i] ^^ 1}
  /\ wire' = [wire EXCEPT ![i] = v]
  /\ damage' = [kind |-> "corrupt", pos |-> i]
  /\ UNCHANGED <<msg, out, stage>>

\* The connection ends one byte early.
Truncate ==
  /\ stage = "sent" /\ damage = NoDamage
  /\ wire' = Front(wire)
  /\ damage' = [kind |-> "truncate", pos |-> 0]
  /\ UNCHANGED <<msg, out, stage>>

Receive ==
  /\ stage = "sent"
  /\ out' = Decode(wire)
  /\ stage' = "received"
  /\ UNCHANGED <<msg, wire, damage>>

\* The connection goes on with the next message.
Reset ==
  /\ stage = "received"
  /\ stage' = "idle"
  /\ wire' = <<>> /\ damage' = NoDamage /\ out' = Failed
  /\ UNCHANGED msg

Next ==
  \/ \E m \in Messages : Send(m)
  \/ \E i \in DOMAIN wire : \E v \in {255 - wire[i], wire[i] ^^ 1} : Corrupt(i, v)
  \/ Truncate \/ Receive \/ Reset

Spec == Init /\ [][Next]_vars

-----------------------------------------------------------------------------
(* Reference CRC-32, from its definition rather than from the table: the   *)
(* message bits, least significant bit of each byte first, with the first  *)
(* 32 complemented, times x^32, reduced modulo the IEEE polynomial          *)
(* x^32 + 0x04C11DB7; the remainder is complemented and read back with     *)
(* x^31 as the least significant bit.                                      *)

LsbFirst(b) == [k \in 1..8 |-> (b \div 2^(k - 1)) % 2]

\* The low 32 coefficients of the generator, x^31 first, as four bytes.
GeneratorLow == <<4, 193, 29, 183>>

\* The division register, x^31 first: shift in one bit, and subtract the
\* generator when the coefficient shifted out was 1.
ShiftIn(r, bit) ==
  <<((r[1] * 2) % 256) + r[2] \div 128, ((r[2] * 2) % 256) + r[3] \div 128,
    ((r[3] * 2) % 256) + r[4] \div 128, ((r[4] * 2) % 256) + bit>>

Reduce(r, bit) ==
  IF r[1] >= 128 THEN XorWord(ShiftIn(r, bit), GeneratorLow) ELSE ShiftIn(r, bit)

\* Eight bits of the dividend, least significant first.
ReduceByte(r, b) ==
  LET x == LsbFirst(b) IN
  Reduce(Reduce(Reduce(Reduce(Reduce(Reduce(Reduce(Reduce(r, x[1]), x[2]), x[3]), x[4]),
                                         x[5]), x[6]), x[7]), x[8])

RECURSIVE Remainder(_, _, _)
Remainder(r, bytes, i) ==
  IF i > Len(bytes) THEN r
  ELSE LET next == ReduceByte(r, bytes[i]) IN
       IF next[1] \in Byte THEN Remainder(next, bytes, i + 1) ELSE r

\* Reading the complemented remainder back with x^31 as bit 0 reverses the
\* bits: byte j of the result is byte j of the register, mirrored.
Mirror(b) == LET bit(k) == (b \div 2^k) % 2 IN
  bit(0) * 128 + bit(1) * 64 + bit(2) * 32 + bit(3) * 16 + bit(4) * 8 + bit(5) * 4 + bit(6) * 2 + bit(7)

\* The dividend: the message followed by four zero bytes (times x^32),
\* its first four bytes complemented.
CrcReference(data) ==
  LET dividend == [k \in 1..Len(data) + 4 |->
                    LET v == IF k <= Len(data) THEN data[k] ELSE 0
                    IN IF k <= 4 THEN 255 - v ELSE v]
      r == Remainder(<<0, 0, 0, 0>>, dividend, 1)
  IN [j \in 1..4 |-> 255 - Mirror(r[j])]

\* The standard check value: CRC-32("123456789") = 0xCBF43926.
CheckInput == <<49, 50, 51, 52, 53, 54, 55, 56, 57>>
ASSUME CrcReference(CheckInput) = <<38, 57, 244, 203>>

-----------------------------------------------------------------------------
(* Properties                                                              *)

\* What the receiver should get back: the parsed body for the types
\* Protocol.cpp can parse, the payload bytes for the others.
Expected(m) == IF m.type \in Parsed THEN m.body ELSE Payload(m)

\* Spec section 8, framing round-trip, extended to the typed payloads: an
\* undamaged frame made by createMessage and a createXxx decodes, through
\* parseMessage and the matching parseXxx, to the message that was sent.
RoundTrip ==
  stage = "received" /\ damage = NoDamage =>
    out = [ok |-> TRUE, type |-> msg.type, body |-> Expected(msg)]

\* Spec section 8, CRC detection, and section 4.1's length and magic
\* checks: a truncated frame, or one with a damaged byte anywhere but the
\* type tag (which no check covers) and the checksum of an empty payload
\* (which parseMessage does not verify), is rejected.
Detectable(d) ==
  \/ d.kind = "truncate"
  \/ /\ d.kind = "corrupt" /\ d.pos # TypePos
     /\ d.pos \in 14..17 => Len(wire) > HeaderSize

DamageDetected == stage = "received" /\ Detectable(damage) => ~out.ok

\* The checksum createMessage puts in the header is the CRC-32 of the
\* payload by the reference definition: the table-driven loop of
\* calculateCRC32, with its initial and final inversion, is that CRC.
ChecksumIsCrc32 ==
  stage = "sent" /\ damage = NoDamage =>
    ChecksumField(wire) = CrcReference(SubSeq(wire, HeaderSize + 1, Len(wire)))

====
