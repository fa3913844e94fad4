---------------------------- MODULE Frames_proofs ----------------------------
(***************************************************************************)
(* Framing is faithful for every set of messages, every bound and every    *)
(* way send and recv cut the stream: DeliveredAsSent, BufferBounded and    *)
(* RefusalHasCause are invariants of Frames.                               *)
(***************************************************************************)
EXTENDS Frames, SequenceTheorems, TLAPS

Size(m) == kWireHeaderBytes + Len(m.payload)
Digest(m) == Sha256(<<Fields(m), m.payload>>)

\* The frames lie one after the other from the start of the stream to its end.
Layout ==
    \A i \in 1 .. Len(sent) :
        /\ sent[i].start + Size(sent[i].message) <= Len(wire)
        /\ sent[i].start + Size(sent[i].message) =
            IF i < Len(sent) THEN sent[i + 1].start ELSE Len(wire)

\* The reader stands at the start of the first frame it has not returned.
Aligned ==
    consumed = IF Len(delivered) < Len(sent) THEN sent[Len(delivered) + 1].start
                                             ELSE Len(wire)

\* A cell the reader has not passed is the one that was encoded, or damaged.
Content ==
    \A i \in Len(delivered) + 1 .. Len(sent) :
        \A j \in 1 .. Size(sent[i].message) :
            \/ wire[sent[i].start + j] = EncodeFrame(sent[i].message)[j]
            \/ damaged > 0 /\ wire[sent[i].start + j] \in Damages

\* The loop waits only when it holds less than the largest frame it accepts.
WaitsForOne ==
    reader = "receive" => Available < kWireHeaderBytes + max_payload

IInv ==
    /\ TypeOK /\ Layout /\ Aligned /\ Content /\ WaitsForOne
    /\ DeliveredAsSent /\ BufferBounded /\ RefusalHasCause

-----------------------------------------------------------------------------

\* What the assumption says of one message.
LEMMA MessageType ==
    ASSUME NEW m \in Messages
    PROVE  /\ m.payload \in Seq(Parts) /\ Len(m.payload) \in Nat
           /\ m.type \in Nat /\ m.flags \in Nat
           /\ m.session_id \in Nat /\ m.sequence \in Nat
           /\ Size(m) \in Nat /\ Size(m) = 9 + Len(m.payload) /\ Size(m) >= 9
<1>1. m \in [type : 1 .. 8, flags : Nat, session_id : Nat, sequence : Nat,
            payload : Seq(Parts)]
  BY FramesAssumption
<1> QED  BY <1>1 DEF Size, kWireHeaderBytes

\* A message is made of its fields.
LEMMA MessageFields ==
    ASSUME NEW m \in Messages
    PROVE  /\ m.type \in 1 .. 8
           /\ m = [type |-> m.type, flags |-> m.flags,
                   session_id |-> m.session_id, sequence |-> m.sequence,
                   payload |-> m.payload]
<1>1. m \in [type : 1 .. 8, flags : Nat, session_id : Nat, sequence : Nat,
            payload : Seq(Parts)]
  BY FramesAssumption
<1> QED  BY <1>1

\* Sequences of the same cells are the same.
LEMMA SameCells ==
    ASSUME NEW S, NEW R, NEW a \in Seq(S), NEW b \in Seq(R), Len(a) = Len(b),
           \A i \in 1 .. Len(a) : a[i] = b[i]
    PROVE  a = b
  OBVIOUS

\* The cells of two sequences put together.
Joined(S, a, b) ==
    /\ a \o b \in Seq(S)
    /\ Len(a) \in Nat /\ Len(b) \in Nat
    /\ Len(a \o b) = Len(a) + Len(b)
    /\ \A i \in 1 .. Len(a) : (a \o b)[i] = a[i]
    /\ \A i \in 1 .. Len(b) : (a \o b)[Len(a) + i] = b[i]

\* Where each cell of a concatenation comes from.
LEMMA Together ==
    ASSUME NEW S, NEW a \in Seq(S), NEW b \in Seq(S)
    PROVE  Joined(S, a, b)
<1>1. Len(a) \in Nat /\ Len(b) \in Nat
  OBVIOUS
<1>2. \A i \in 1 .. Len(a) + Len(b) :
        (a \o b)[i] = IF i <= Len(a) THEN a[i] ELSE b[i - Len(a)]
  BY ConcatProperties
<1>3. ASSUME NEW i \in 1 .. Len(a)
      PROVE  (a \o b)[i] = a[i]
  <2>1. i \in 1 .. Len(a) + Len(b) /\ i <= Len(a)
    BY <1>1
  <2> QED  BY <1>2, <2>1
<1>4. ASSUME NEW i \in 1 .. Len(b)
      PROVE  (a \o b)[Len(a) + i] = b[i]
  <2>1. /\ Len(a) + i \in 1 .. Len(a) + Len(b)
        /\ ~(Len(a) + i <= Len(a)) /\ (Len(a) + i) - Len(a) = i
    BY <1>1
  <2> QED  BY <1>2, <2>1
<1> QED  BY <1>1, <1>3, <1>4, ConcatProperties DEF Joined

\* A header of eight cells, a digest and a payload put together.
Framed(S, head, d, rest) ==
    /\ head \o <<d>> \o rest \in Seq(S)
    /\ Len(head \o <<d>> \o rest) = 9 + Len(rest)
    /\ \A j \in 1 .. 8 : (head \o <<d>> \o rest)[j] = head[j]
    /\ (head \o <<d>> \o rest)[9] = d
    /\ \A j \in 1 .. Len(rest) : (head \o <<d>> \o rest)[9 + j] = rest[j]

\* Where the header, the digest and the payload end up.
LEMMA ThreeParts ==
    ASSUME NEW S, NEW head \in Seq(S), Len(head) = 8, NEW d \in S,
           NEW rest \in Seq(S)
    PROVE  Framed(S, head, d, rest)
<1>0. <<d>> \in Seq(S) /\ Len(<<d>>) = 1 /\ <<d>>[1] = d
  OBVIOUS
<1>1. PICK one \in Seq(S) : one = <<d>> /\ Len(one) = 1 /\ one[1] = d
  BY <1>0, Zenon
<1>2. PICK front : front = head \o one
  BY Zenon
<1>3. /\ front \in Seq(S) /\ Len(front) = 9
      /\ \A j \in 1 .. 8 : front[j] = head[j]
      /\ \A j \in 1 .. 1 : front[8 + j] = one[j]
  <2>1. Joined(S, head, one)
    BY Zenon, <1>1, Together
  <2> QED  BY <1>1, <1>2, <2>1 DEF Joined
<1>4. front[9] = d
  <2>1. 1 \in 1 .. 1 /\ 8 + 1 = 9
    OBVIOUS
  <2> QED  BY <1>1, <1>3, <2>1
<1>5. /\ front \o rest \in Seq(S)
      /\ Len(front \o rest) = 9 + Len(rest)
      /\ \A j \in 1 .. 9 : (front \o rest)[j] = front[j]
      /\ \A j \in 1 .. Len(rest) : (front \o rest)[9 + j] = rest[j]
  <2>1. Joined(S, front, rest)
    BY <1>3, Together
  <2> QED  BY Zenon, <1>3, <2>1 DEF Joined
<1>6. front \o rest = head \o <<d>> \o rest
  BY <1>1, <1>2
<1>7. /\ \A j \in 1 .. 8 : (front \o rest)[j] = head[j]
      /\ (front \o rest)[9] = d
  BY SMTT(60), <1>3, <1>4, <1>5
<1> QED  BY Zenon, <1>5, <1>6, <1>7 DEF Framed

\* The header is eight cells.
LEMMA FieldsShape ==
    ASSUME NEW m \in Messages
    PROVE  Fields(m) \in Seq(Cell) /\ Len(Fields(m)) = 8
<1>1. \A n \in Nat : <<n>> \in Cell
  BY DEF Cell
<1>2. PICK c3, c4, c6, c7, c8 \in Cell :
        /\ c3 = <<m.type>> /\ c4 = <<m.flags>> /\ c6 = <<Len(m.payload)>>
        /\ c7 = <<m.session_id>> /\ c8 = <<m.sequence>>
  BY Zenon, <1>1, MessageType
<1>3. PICK c1, c2, c5 \in Cell : c1 = <<77>> /\ c2 = <<1>> /\ c5 = <<0>>
  BY Zenon, <1>1
<1>4. Fields(m) = <<c1, c2, c3, c4, c5, c6, c7, c8>>
  BY <1>2, <1>3 DEF Fields, kWireMagic, kWireProtocolVersion
<1> QED  BY <1>4

\* The shape of an encoded frame: eight fields, the digest, the payload.
LEMMA FrameShape ==
    ASSUME NEW m \in Messages
    PROVE  /\ EncodeFrame(m) \in Seq(Cell)
           /\ Len(EncodeFrame(m)) = Size(m)
           /\ \A j \in 1 .. 8 : EncodeFrame(m)[j] = Fields(m)[j]
           /\ EncodeFrame(m)[9] = Digest(m)
           /\ \A j \in 1 .. Len(m.payload) : EncodeFrame(m)[9 + j] = m.payload[j]
<1>1. Digest(m) \in Cell /\ Parts \subseteq Cell
  BY DEF Cell, Digest
<1>2. m.payload \in Seq(Cell)
  <2>1. m.payload \in Seq(Parts)
    BY MessageType
  <2> QED  BY <1>1, <2>1
<1>3. EncodeFrame(m) = Fields(m) \o <<Digest(m)>> \o m.payload
  BY DEF EncodeFrame, Digest
<1>4. Fields(m) \in Seq(Cell) /\ Len(Fields(m)) = 8
  BY FieldsShape
<1>5. Size(m) = 9 + Len(m.payload)
  BY MessageType
<1>6. Framed(Cell, Fields(m), Digest(m), m.payload)
  BY <1>1, <1>2, <1>4, ThreeParts
<1> QED  BY Zenon, <1>3, <1>5, <1>6 DEF Framed

\* A damaged cell is a number: it is no digest, and read as a length it is one.
LEMMA DamageIsNumber ==
    ASSUME NEW c \in Damages
    PROVE  /\ c \in Cell /\ Len(c) = 1 /\ c[1] \in Nat
           /\ \A cells : c # Sha256(cells)
<1>1. PICK n \in 0 .. MaxNumber : c = <<n>>
  BY FramesAssumption
<1>2. n \in Nat
  BY <1>1, FramesAssumption
<1>3. \A cells : Len(Sha256(cells)) = 2
  BY DEF Sha256
<1> QED  BY <1>1, <1>2, <1>3 DEF Cell

-----------------------------------------------------------------------------
(* The frame the reader is at. *)

\* A header in the buffer is that of the first message not returned yet.
LEMMA AtFrame ==
    ASSUME IInv, Available >= kWireHeaderBytes
    PROVE  /\ Len(delivered) + 1 \in 1 .. Len(sent)
           /\ consumed = sent[Len(delivered) + 1].start
           /\ sent[Len(delivered) + 1].message \in Messages
           /\ consumed + 9 <= Len(wire)
           /\ \A j \in 1 .. Size(sent[Len(delivered) + 1].message) :
                \/ Buffered(j) = EncodeFrame(sent[Len(delivered) + 1].message)[j]
                \/ damaged > 0 /\ Buffered(j) \in Damages
<1>1. Len(delivered) \in Nat /\ Len(sent) \in Nat /\ Len(wire) \in Nat
      /\ consumed \in Nat /\ received \in Nat /\ written \in Nat
      /\ received <= written /\ written <= Len(wire)
  BY DEF IInv, TypeOK
<1>2. consumed + 9 <= received
  BY <1>1 DEF Available, kWireHeaderBytes
<1>3. Len(delivered) < Len(sent)
  BY <1>1, <1>2 DEF IInv, Aligned
<1>4. /\ Len(delivered) + 1 \in 1 .. Len(sent)
      /\ Len(delivered) + 1 \in Len(delivered) + 1 .. Len(sent)
  BY <1>1, <1>3
<1>5. sent[Len(delivered) + 1].message \in Messages
  <2>1. sent \in Seq([message : Messages, start : Nat])
    BY DEF IInv, TypeOK
  <2>2. sent[Len(delivered) + 1] \in [message : Messages, start : Nat]
    BY Zenon, <1>4, <2>1, ElementOfSeq
  <2> QED  BY <2>2
<1>6. consumed = sent[Len(delivered) + 1].start
  BY <1>3 DEF IInv, Aligned
<1> QED  BY SMTT(60), <1>1, <1>2, <1>4, <1>5, <1>6 DEF IInv, Content, Buffered

\* The length the header declares is a number, damaged or not.
LEMMA LengthIsNumber ==
    ASSUME IInv, Available >= kWireHeaderBytes
    PROVE  payload_len \in Nat /\ total \in Nat /\ total = 9 + payload_len
<1> DEFINE m == sent[Len(delivered) + 1].message
<1>1. m \in Messages /\ Size(m) >= 9 /\ Size(m) \in Nat
  BY AtFrame, MessageType
<1>2. Buffered(6) = EncodeFrame(m)[6] \/ Buffered(6) \in Damages
  BY <1>1, AtFrame
<1>3. EncodeFrame(m)[6] = <<Len(m.payload)>> /\ Len(m.payload) \in Nat
  <2>1. EncodeFrame(m)[6] = Fields(m)[6]
    BY <1>1, FrameShape
  <2>2. Fields(m)[6] = <<Len(m.payload)>>
    BY DEF Fields
  <2> QED  BY <1>1, <2>1, <2>2, MessageType
<1>4. Number(Buffered(6)) \in Nat
  BY <1>2, <1>3, DamageIsNumber DEF Number
<1> QED  BY <1>4 DEF payload_len, total, kWireHeaderBytes

\* A frame that verifies is the one that was sent: the digest in the stream is
\* no damaged cell, so it is the digest of what was encoded.
LEMMA VerifiedIsSent ==
    ASSUME IInv, Available >= kWireHeaderBytes, VerifyFrameImage
    PROVE  /\ Parsed = sent[Len(delivered) + 1].message
           /\ total = Size(sent[Len(delivered) + 1].message)
<1> DEFINE m == sent[Len(delivered) + 1].message
           eight == SubSeq(wire, consumed + 1, consumed + 8)
<1>1. m \in Messages /\ Size(m) >= 9 /\ Size(m) \in Nat /\ consumed + 9 <= Len(wire)
      /\ consumed \in Nat /\ wire \in Seq(Cell)
  BY Zenon, AtFrame, MessageType DEF IInv, TypeOK
<1>2. Buffered(9) = Sha256(<<eight, Payload>>)
  BY DEF VerifyFrameImage, kWireHeaderBytes, kWireDigestOffset
<1>3. Buffered(9) = EncodeFrame(m)[9] \/ Buffered(9) \in Damages
  BY <1>1, AtFrame
<1>4. Buffered(9) = Digest(m)
  BY <1>1, <1>2, <1>3, DamageIsNumber, FrameShape
<1>5. eight = Fields(m) /\ Payload = m.payload
  BY <1>2, <1>4 DEF Digest, Sha256
<1>6. \A j \in 1 .. 8 : Buffered(j) = eight[j]
  BY <1>1 DEF Buffered
<1>7. \A j \in 1 .. 8 : Buffered(j) = Fields(m)[j]
  BY Zenon, <1>5, <1>6
<1>8. /\ Number(Buffered(3)) = m.type /\ Number(Buffered(4)) = m.flags
      /\ Number(Buffered(7)) = m.session_id /\ Number(Buffered(8)) = m.sequence
      /\ Number(Buffered(6)) = Len(m.payload)
  BY SMTT(60), <1>7 DEF Fields, Number
<1>9. Parsed = m
  BY Zenon, <1>1, <1>5, <1>8, MessageFields DEF Parsed
<1> QED  BY <1>8, <1>9 DEF total, payload_len, Size

\* The frame the reader is at is undamaged and within its bound.
Acceptable ==
    damaged = 0 /\ Len(sent[Len(delivered) + 1].message.payload) <= max_payload

\* An undamaged frame within the bound decodes and verifies.
LEMMA UndamagedVerifies ==
    ASSUME IInv, Available >= kWireHeaderBytes, Acceptable
    PROVE  DecodeFrameHeader /\ (Available >= total => VerifyFrameImage)
<1>0. PICK m : m = sent[Len(delivered) + 1].message
  OBVIOUS
<1>1. consumed \in Nat /\ received \in Nat /\ wire \in Seq(Cell)
      /\ Len(wire) \in Nat /\ received <= Len(wire)
  BY DEF IInv, TypeOK
<1>2. m \in Messages /\ consumed + 9 <= Len(wire)
  BY <1>0, AtFrame
<1>3. PICK plen \in Nat : plen = Len(m.payload) /\ Size(m) = 9 + plen
  BY <1>2, MessageType
<1>4. \A j \in 1 .. 9 + plen : Buffered(j) = EncodeFrame(m)[j]
  BY <1>0, <1>3, AtFrame DEF Acceptable
<1>5. /\ \A j \in 1 .. 8 : Buffered(j) = Fields(m)[j]
      /\ Buffered(9) = Digest(m)
      /\ \A j \in 1 .. plen : Buffered(9 + j) = m.payload[j]
  <2>1. /\ \A j \in 1 .. 8 : EncodeFrame(m)[j] = Fields(m)[j]
        /\ EncodeFrame(m)[9] = Digest(m)
        /\ \A j \in 1 .. plen : EncodeFrame(m)[9 + j] = m.payload[j]
    BY <1>2, <1>3, FrameShape
  <2>2. \A j \in 1 .. 8 : Buffered(j) = EncodeFrame(m)[j]
    BY <1>3, <1>4
  <2>3. Buffered(9) = EncodeFrame(m)[9]
    BY <1>3, <1>4
  <2>4. \A j \in 1 .. plen : Buffered(9 + j) = EncodeFrame(m)[9 + j]
    BY <1>3, <1>4
  <2> QED  BY <2>1, <2>2, <2>3, <2>4
<1>6. /\ Buffered(1) = <<kWireMagic>> /\ Buffered(2) = <<kWireProtocolVersion>>
      /\ Buffered(3) = <<m.type>> /\ Buffered(5) = <<0>>
      /\ Buffered(6) = <<plen>>
  BY <1>3, <1>5 DEF Fields
<1>7. payload_len = plen /\ total = 9 + plen /\ Number(Buffered(3)) = m.type
  BY <1>6 DEF payload_len, total, Number, kWireHeaderBytes
<1>8. DecodeFrameHeader
  BY <1>0, <1>2, <1>3, <1>6, <1>7, MessageFields
     DEF DecodeFrameHeader, Acceptable
<1>9. ASSUME Available >= total  PROVE VerifyFrameImage
  <2>1. consumed + 9 + plen <= Len(wire)
    BY <1>1, <1>7, <1>9 DEF Available, kWireHeaderBytes
  <2>2. SubSeq(wire, consumed + 1, consumed + 8) = Fields(m)
    <3>1. PICK eight : eight = SubSeq(wire, consumed + 1, consumed + 8)
      BY Zenon
    <3>2. eight \in Seq(Cell) /\ Len(eight) = 8
          /\ \A j \in 1 .. 8 : eight[j] = Buffered(j)
      <4>1. consumed + 9 <= Len(wire)
        BY AtFrame
      <4> QED  BY <1>1, <3>1, <4>1 DEF Buffered
    <3>3. Fields(m) \in Seq(Cell) /\ Len(Fields(m)) = 8
      BY <1>2, FieldsShape
    <3>4. \A j \in 1 .. 8 : eight[j] = Fields(m)[j]
      BY <1>5, <3>2
    <3> QED  BY Zenon, <3>1, <3>2, <3>3, <3>4, SeqEqual
  <2>3. Payload = m.payload
    <3>1. PICK rest : rest = SubSeq(wire, consumed + 10, consumed + 9 + plen)
      BY Zenon
    <3>2. consumed + kWireHeaderBytes + 1 = consumed + 10
          /\ consumed + total = consumed + 9 + plen
      BY <1>1, <1>7 DEF kWireHeaderBytes
    <3>3. Payload = rest
      BY Zenon, <3>1, <3>2 DEF Payload
    <3>4. rest \in Seq(Cell) /\ Len(rest) = plen
          /\ \A j \in 1 .. plen : rest[j] = wire[consumed + 9 + j]
      <4>1. \A i \in consumed + 10 .. consumed + 9 + plen : wire[i] \in Cell
        BY <1>1, <2>1
      <4>2. /\ rest \in Seq(Cell)
            /\ Len(rest) = IF consumed + 10 <= consumed + 9 + plen
                           THEN (consumed + 9 + plen) - (consumed + 10) + 1
                           ELSE 0
            /\ \A j \in 1 .. (consumed + 9 + plen) - (consumed + 10) + 1 :
                 rest[j] = wire[(consumed + 10) + j - 1]
        BY <1>1, <3>1, <4>1, SubSeqProperties
      <4>3. (consumed + 9 + plen) - (consumed + 10) + 1 = plen
        BY <1>1
      <4>4. \A j \in 1 .. plen : (consumed + 10) + j - 1 = consumed + 9 + j
        BY <1>1
      <4> QED  BY <1>1, <4>2, <4>3, <4>4
    <3>5. \A j \in 1 .. plen : wire[consumed + 9 + j] = m.payload[j]
      <4>1. \A j \in 1 .. plen : wire[consumed + (9 + j)] = m.payload[j]
        BY <1>5 DEF Buffered
      <4>2. \A j \in 1 .. plen : consumed + (9 + j) = consumed + 9 + j
        BY <1>1
      <4> QED  BY <4>1, <4>2
    <3>6. m.payload \in Seq(Parts) /\ Len(m.payload) = plen
      BY <1>2, <1>3, MessageType
    <3> QED  BY <3>3, <3>4, <3>5, <3>6, SameCells
  <2> QED  BY Zenon, <1>5, <2>2, <2>3
           DEF VerifyFrameImage, Digest, kWireHeaderBytes, kWireDigestOffset
<1> QED  BY <1>8, <1>9

-----------------------------------------------------------------------------
(* One lemma per action. *)

\* The types, as plain facts.
LEMMA Types ==
    ASSUME TypeOK
    PROVE  /\ wire \in Seq(Cell) /\ Len(wire) \in Nat
           /\ written \in Nat /\ received \in Nat /\ consumed \in Nat
           /\ damaged \in Nat
           /\ consumed <= received /\ received <= written /\ written <= Len(wire)
           /\ sent \in Seq([message : Messages, start : Nat])
           /\ Len(sent) \in Nat
           /\ delivered \in Seq(Messages) /\ Len(delivered) \in Nat
  BY DEF TypeOK

\* An entry of the history is a message and a position.
LEMMA SentType ==
    ASSUME TypeOK, NEW i \in 1 .. Len(sent)
    PROVE  sent[i].message \in Messages /\ sent[i].start \in Nat
<1>1. sent \in Seq([message : Messages, start : Nat])
  BY DEF TypeOK
<1>2. sent[i] \in [message : Messages, start : Nat]
  BY Zenon, <1>1, ElementOfSeq
<1> QED  BY <1>2

\* Steps that move only the far cursors or the loop keep the frames in place.
LEMMA StreamKept ==
    ASSUME IInv, UNCHANGED <<wire, consumed, damaged, sent, delivered>>
    PROVE  Layout' /\ Aligned' /\ Content' /\ DeliveredAsSent'
  BY DEF IInv, Layout, Aligned, Content, DeliveredAsSent

\* No step but NextFails makes the loop fail.
LEMMA RefusalKept ==
    ASSUME IInv, UNCHANGED <<damaged, sent, delivered>>,
           reader' = "failed" => reader = "failed"
    PROVE  RefusalHasCause'
  BY DEF IInv, RefusalHasCause

LEMMA Start == Init => IInv
<1> SUFFICES ASSUME Init PROVE IInv
  OBVIOUS
<1>1. TypeOK
  BY DEF Init, TypeOK
<1>2. Len(sent) = 0 /\ Len(delivered) = 0 /\ Len(wire) = 0 /\ consumed = 0
      /\ received = 0 /\ reader = "next"
  BY DEF Init
<1>3. Layout /\ Aligned /\ Content /\ WaitsForOne /\ DeliveredAsSent
      /\ RefusalHasCause
  BY <1>2 DEF Layout, Aligned, Content, WaitsForOne, DeliveredAsSent,
              RefusalHasCause
<1>4. BufferBounded
  BY <1>2, FramesAssumption DEF BufferBounded, Available, kWireHeaderBytes
<1> QED  BY <1>1, <1>3, <1>4 DEF IInv

LEMMA WriteKeeps == ASSUME IInv, NEW n, Write(n) PROVE IInv'
<1>1. UNCHANGED <<wire, received, consumed, open, damaged, sent, reader, delivered>>
      /\ n \in 1 .. Len(wire) - written /\ written' = written + n
  BY DEF Write
<1>2. TypeOK'
  <2>1. written' \in Nat /\ received <= written' /\ written' <= Len(wire)
    BY <1>1, Types DEF IInv
  <2> QED  BY <1>1, <2>1 DEF IInv, TypeOK
<1>3. WaitsForOne' /\ BufferBounded'
  BY <1>1 DEF IInv, WaitsForOne, BufferBounded, Available
<1> QED  BY <1>1, <1>2, <1>3, StreamKept, RefusalKept DEF IInv

LEMMA CloseKeeps == ASSUME IInv, Close PROVE IInv'
<1>1. UNCHANGED <<wire, written, received, consumed, damaged, sent, reader, delivered>>
      /\ open' = FALSE
  BY DEF Close
<1>2. TypeOK' /\ WaitsForOne' /\ BufferBounded'
  BY Zenon, <1>1 DEF IInv, TypeOK, WaitsForOne, BufferBounded, Available
<1> QED  BY <1>1, <1>2, StreamKept, RefusalKept DEF IInv

LEMMA EndKeeps == ASSUME IInv, PeerClosed \/ Released PROVE IInv'
<1>1. UNCHANGED <<wire, written, received, consumed, open, damaged, sent, delivered>>
      /\ reader' \in {"closed", "released"}
  BY DEF PeerClosed, Released
<1>2. TypeOK' /\ WaitsForOne' /\ BufferBounded'
  BY <1>1 DEF IInv, TypeOK, WaitsForOne, BufferBounded, Available
<1>3. reader' # "failed"
  BY <1>1
<1> QED  BY <1>1, <1>2, <1>3, StreamKept, RefusalKept DEF IInv

LEMMA ReceiveKeeps == ASSUME IInv, NEW n, Receive(n) PROVE IInv'
<1>1. UNCHANGED <<wire, written, consumed, open, damaged, sent, delivered>>
      /\ reader = "receive" /\ reader' = "next"
      /\ n \in 1 .. Capacity /\ n <= written - received
      /\ received' = received + n
  BY DEF Receive
<1>2. n \in Nat /\ n <= Capacity /\ Capacity \in Nat /\ max_payload \in Nat
  BY <1>1, FramesAssumption
<1>3. received' \in Nat /\ consumed <= received' /\ received' <= written
  BY <1>1, <1>2, Types DEF IInv
<1>4. TypeOK'
  BY <1>1, <1>3 DEF IInv, TypeOK
<1>5. BufferBounded'
  <2>1. received - consumed < 9 + max_payload
    BY <1>1 DEF IInv, WaitsForOne, Available, kWireHeaderBytes
  <2>2. received' - consumed < 9 + max_payload + Capacity
    BY SMTT(60), <1>1, <1>2, <2>1, Types DEF IInv
  <2> QED  BY <1>1, <2>2 DEF BufferBounded, Available, kWireHeaderBytes
<1>6. WaitsForOne' /\ reader' # "failed"
  BY <1>1 DEF WaitsForOne
<1> QED  BY <1>1, <1>4, <1>5, <1>6, StreamKept, RefusalKept DEF IInv

LEMMA NextWaitsKeeps == ASSUME IInv, NextWaits PROVE IInv'
<1>1. UNCHANGED <<wire, written, received, consumed, open, damaged, sent, delivered>>
      /\ reader' = "receive" /\ NeedsMore
  BY DEF NextWaits
<1>2. TypeOK' /\ BufferBounded' /\ reader' # "failed"
  BY <1>1 DEF IInv, TypeOK, BufferBounded, Available
<1>3. Available < 9 + max_payload
  <2>0. Available \in Int /\ max_payload \in Nat
    BY Types, FramesAssumption DEF IInv, Available
  <2>1. CASE Available >= kWireHeaderBytes
    <3>1. payload_len <= max_payload /\ Available < total
      BY <1>1, <2>1 DEF NeedsMore, DecodeFrameHeader
    <3> QED  BY <2>0, <2>1, <3>1, LengthIsNumber
  <2>2. CASE ~(Available >= kWireHeaderBytes)
    BY <2>0, <2>2 DEF kWireHeaderBytes
  <2> QED  BY <2>1, <2>2
<1>4. WaitsForOne'
  BY <1>1, <1>3 DEF WaitsForOne, Available, kWireHeaderBytes
<1> QED  BY <1>1, <1>2, <1>4, StreamKept, RefusalKept DEF IInv

LEMMA NextFailsKeeps == ASSUME IInv, NextFails PROVE IInv'
<1>1. UNCHANGED <<wire, written, received, consumed, open, damaged, sent, delivered>>
      /\ reader' = "failed" /\ Available >= kWireHeaderBytes
      /\ ~(DecodeFrameHeader /\ (Available >= total => VerifyFrameImage))
  BY DEF NextFails
<1>2. TypeOK' /\ BufferBounded' /\ WaitsForOne'
  BY <1>1 DEF IInv, TypeOK, BufferBounded, WaitsForOne, Available
<1>3. ~Acceptable
  BY <1>1, UndamagedVerifies
<1>4. RefusalHasCause'
  <2>1. Len(delivered) + 1 \in 1 .. Len(sent) /\ Len(delivered) \in Nat
        /\ Len(sent) \in Nat
    BY <1>1, AtFrame, Types DEF IInv
  <2>2. Len(delivered) < Len(sent)
    BY <2>1
  <2>3. damaged > 0
        \/ Len(sent[Len(delivered) + 1].message.payload) > max_payload
    <3>1. PICK m : m = sent[Len(delivered) + 1].message
      OBVIOUS
    <3>2. PICK plen \in Nat : plen = Len(m.payload)
      BY <1>1, <3>1, AtFrame, MessageType
    <3>3. ~(damaged = 0 /\ plen <= max_payload)
      BY <1>3, <3>1, <3>2 DEF Acceptable
    <3>4. damaged \in Nat /\ max_payload \in Nat
      BY Types, FramesAssumption DEF IInv
    <3>5. damaged > 0 \/ plen > max_payload
      BY <3>3, <3>4
    <3> QED  BY <3>1, <3>2, <3>5
  <2> QED  BY <1>1, <2>2, <2>3 DEF RefusalHasCause
<1> QED  BY <1>1, <1>2, <1>4, StreamKept DEF IInv

LEMMA NextDeliversKeeps == ASSUME IInv, NextDelivers PROVE IInv'
<1>0. PICK k : k = Len(delivered) + 1
  OBVIOUS
<1>1. UNCHANGED <<wire, written, received, open, damaged, sent, reader>>
      /\ reader = "next" /\ Available >= kWireHeaderBytes
      /\ Available >= total /\ VerifyFrameImage
      /\ delivered' = Append(delivered, Parsed)
      /\ consumed' = consumed + total
  BY DEF NextDelivers
<1>2. Parsed = sent[k].message /\ total = Size(sent[k].message)
  BY <1>0, <1>1, VerifiedIsSent
<1>3. k \in 1 .. Len(sent) /\ consumed = sent[k].start
      /\ sent[k].message \in Messages
  BY <1>0, <1>1, AtFrame
<1>4. /\ delivered' \in Seq(Messages) /\ Len(delivered') = k
      /\ Len(delivered) \in Nat /\ Len(sent) \in Nat /\ k \in Nat
      /\ \A i \in 1 .. k : delivered'[i] = IF i = k THEN sent[k].message
                                                   ELSE delivered[i]
  BY SMTT(60), <1>0, <1>1, <1>2, <1>3, Types DEF IInv
<1>5. consumed' \in Nat /\ consumed <= consumed' /\ consumed' <= received
  <2>1. total \in Nat
    BY <1>1, LengthIsNumber
  <2>2. total <= received - consumed
    BY <1>1, <2>1, Types DEF Available, IInv
  <2> QED  BY SMTT(60), <1>1, <2>1, <2>2, Types DEF IInv
<1>6. TypeOK'
  BY <1>1, <1>4, <1>5 DEF IInv, TypeOK
<1>7. Layout'
  BY <1>1 DEF IInv, Layout
<1>8. Aligned'
  <2>1. consumed' = IF k < Len(sent) THEN sent[k + 1].start ELSE Len(wire)
    BY Zenon, <1>1, <1>2, <1>3 DEF IInv, Layout
  <2> QED  BY <1>1, <1>4, <2>1 DEF Aligned
<1>9. Content'
  <2>1. \A i \in k + 1 .. Len(sent) : i \in Len(delivered) + 1 .. Len(sent)
    BY <1>0, <1>4
  <2> QED  BY Zenon, <1>1, <1>4, <2>1 DEF IInv, Content
<1>10. DeliveredAsSent'
  <2>1. k <= Len(sent)
    BY <1>3, <1>4
  <2>2. ASSUME NEW i \in 1 .. k PROVE delivered'[i] = sent[i].message
    <3>1. CASE i = k
      BY <1>4, <3>1
    <3>2. CASE i # k
      <4>1. i \in 1 .. Len(delivered)
        BY <1>0, <1>4, <3>2
      <4> QED  BY <1>4, <3>2, <4>1 DEF IInv, DeliveredAsSent
    <3> QED  BY <3>1, <3>2
  <2> QED  BY <1>1, <1>4, <2>1, <2>2 DEF DeliveredAsSent
<1>11. BufferBounded'
  <2>1. received - consumed < 9 + max_payload + Capacity
    BY DEF IInv, BufferBounded, Available, kWireHeaderBytes
  <2>2. received - consumed' < 9 + max_payload + Capacity
    BY SMTT(60), <1>5, <2>1, Types, FramesAssumption DEF IInv
  <2> QED  BY <1>1, <2>2 DEF BufferBounded, Available, kWireHeaderBytes
<1>12. WaitsForOne' /\ RefusalHasCause'
  BY <1>1 DEF WaitsForOne, RefusalHasCause
<1> QED  BY <1>6, <1>7, <1>8, <1>9, <1>10, <1>11, <1>12 DEF IInv

\* The cells of the stream before and after a frame is appended.
LEMMA SendKeeps == ASSUME IInv, NEW m \in Messages, Send(m) PROVE IInv'
<1>0. PICK f : f = EncodeFrame(m)
  OBVIOUS
<1>1. UNCHANGED <<written, received, consumed, open, damaged, reader, delivered>>
      /\ wire' = wire \o f
      /\ sent' = Append(sent, [message |-> m, start |-> Len(wire)])
  BY <1>0 DEF Send
<1>2. f \in Seq(Cell) /\ Len(f) = Size(m) /\ Size(m) \in Nat
  BY <1>0, FrameShape, MessageType
<1>3. Joined(Cell, wire, f)
  BY <1>2, Types, Together DEF IInv
<1>4. PICK old \in Nat, k \in Nat, d \in Nat :
        old = Len(wire) /\ k = Len(sent) + 1 /\ d = Len(delivered)
  BY Types DEF IInv
<1>5. /\ sent' \in Seq([message : Messages, start : Nat]) /\ Len(sent') = k
      /\ \A i \in 1 .. k - 1 : sent'[i] = sent[i]
      /\ sent'[k].message = m /\ sent'[k].start = old
  BY <1>1, <1>4, Types DEF IInv
<1>6. wire' \in Seq(Cell) /\ Len(wire') = old + Size(m)
  BY Zenon, <1>1, <1>2, <1>3, <1>4 DEF Joined
<1>7. TypeOK'
  <2>1. written <= old + Size(m)
    BY <1>2, <1>4, Types DEF IInv
  <2> QED  BY <1>1, <1>5, <1>6, <2>1 DEF IInv, TypeOK
<1>8. ASSUME NEW i \in 1 .. k - 1
      PROVE  /\ i \in 1 .. Len(sent)
             /\ sent[i].start \in Nat /\ Size(sent[i].message) \in Nat
             /\ sent[i].start + Size(sent[i].message) <= old
             /\ sent[i].start + Size(sent[i].message) =
                    IF i < k - 1 THEN sent[i + 1].start ELSE old
  <2>1. i \in 1 .. Len(sent)
    BY <1>4, Types DEF IInv
  <2>2. sent[i].message \in Messages /\ sent[i].start \in Nat
    BY <2>1, SentType DEF IInv
  <2>3. Len(sent) = k - 1
    BY <1>4, Types DEF IInv
  <2>4. /\ sent[i].start + Size(sent[i].message) <= old
        /\ sent[i].start + Size(sent[i].message) =
               IF i < k - 1 THEN sent[i + 1].start ELSE old
    BY Zenon, <1>4, <2>1, <2>3 DEF IInv, Layout
  <2> QED  BY Zenon, <2>1, <2>2, <2>4, MessageType
<1>9. Layout'
  <2>1. ASSUME NEW i \in 1 .. k
        PROVE  /\ sent'[i].start + Size(sent'[i].message) <= old + Size(m)
               /\ sent'[i].start + Size(sent'[i].message) =
                    IF i < k THEN sent'[i + 1].start ELSE old + Size(m)
    <3>1. CASE i = k
      BY <1>2, <1>5, <3>1
    <3>2. CASE i # k
      <4>1. i \in 1 .. k - 1
        BY <3>2
      <4>2. sent'[i] = sent[i]
        BY <1>5, <4>1
      <4>3. sent'[i + 1].start = IF i < k - 1 THEN sent[i + 1].start ELSE old
        <5>1. CASE i < k - 1
          <6>1. i + 1 \in 1 .. k - 1
            BY <5>1
          <6> QED  BY <1>5, <5>1, <6>1
        <5>2. CASE ~(i < k - 1)
          <6>1. i + 1 = k
            BY <4>1, <5>2
          <6> QED  BY <1>5, <5>2, <6>1
        <5> QED  BY <5>1, <5>2
      <4>4. sent[i].start + Size(sent[i].message) <= old + Size(m)
        BY SMTT(60), <1>2, <1>8, <4>1
      <4> QED  BY <1>8, <4>1, <4>2, <4>3, <4>4
    <3> QED  BY <3>1, <3>2
  <2>2. \A i : Size(sent'[i].message) = Size(sent[i].message)'
    BY DEF Size, kWireHeaderBytes
  <2> QED  BY Zenon, <1>5, <1>6, <2>1, <2>2 DEF Layout
<1>10. Aligned'
  <2>1. d <= k - 1
    BY <1>4, Types DEF IInv, DeliveredAsSent
  <2>2. CASE d < k - 1
    <3>1. d + 1 \in 1 .. k - 1 /\ d < k
      BY <2>2
    <3>2. consumed = sent[d + 1].start
      BY <1>4, <2>2, Types DEF IInv, Aligned
    <3> QED  BY <1>1, <1>4, <1>5, <3>1, <3>2 DEF Aligned
  <2>3. CASE d = k - 1
    <3>1. d + 1 = k /\ d < k /\ ~(d < k - 1)
      BY <2>3
    <3>2. consumed = old
      BY SMTT(60), <1>4, <3>1, Types DEF IInv, Aligned
    <3> QED  BY <1>1, <1>4, <1>5, <3>1, <3>2 DEF Aligned
  <2> QED  BY <2>1, <2>2, <2>3
<1>11. Content'
  <2>1. ASSUME NEW i \in d + 1 .. k, NEW j \in 1 .. Size(sent'[i].message)
        PROVE  \/ wire'[sent'[i].start + j] = EncodeFrame(sent'[i].message)[j]
               \/ damaged > 0 /\ wire'[sent'[i].start + j] \in Damages
    <3>1. CASE i = k
      <4>1. j \in 1 .. Len(f) /\ sent'[i].start = old
        BY <1>2, <1>5, <3>1
      <4>2. (wire \o f)[old + j] = f[j]
        BY <1>3, <1>4, <4>1 DEF Joined
      <4> QED  BY Zenon, <1>0, <1>1, <1>5, <3>1, <4>1, <4>2
    <3>2. CASE i # k
      <4>1. i \in 1 .. k - 1 /\ i \in d + 1 .. k - 1
        BY <3>2
      <4>2. sent'[i] = sent[i] /\ j \in 1 .. Size(sent[i].message)
        BY <1>5, <4>1
      <4>3. sent[i].start + j \in 1 .. old
        <5>1. PICK size \in Nat, at \in Nat :
                size = Size(sent[i].message) /\ at = sent[i].start
          BY <1>8, <4>1
        <5>2. at + size <= old /\ j \in 1 .. size
          BY SMTT(60), <1>8, <4>1, <4>2, <5>1
        <5>3. at + j \in 1 .. old
          BY <5>2
        <5> QED  BY <5>1, <5>3
      <4>4. (wire \o f)[sent[i].start + j] = wire[sent[i].start + j]
        BY <1>3, <1>4, <4>3 DEF Joined
      <4>5. i \in Len(delivered) + 1 .. Len(sent)
        BY <1>4, <4>1, Types DEF IInv
      <4>6. \/ wire[sent[i].start + j] = EncodeFrame(sent[i].message)[j]
            \/ damaged > 0 /\ wire[sent[i].start + j] \in Damages
        BY <4>2, <4>5 DEF IInv, Content
      <4> QED  BY Zenon, <1>1, <4>2, <4>4, <4>6
    <3> QED  BY <3>1, <3>2
  <2>2. \A i : /\ Size(sent'[i].message) = Size(sent[i].message)'
              /\ EncodeFrame(sent'[i].message) = EncodeFrame(sent[i].message)'
    BY DEF Size, kWireHeaderBytes, EncodeFrame, Fields, Sha256, kWireMagic,
           kWireProtocolVersion
  <2> QED  BY Zenon, <1>1, <1>4, <1>5, <2>1, <2>2 DEF Content
<1>12. DeliveredAsSent'
  <2>1. d <= k - 1 /\ \A i \in 1 .. d : delivered[i] = sent[i].message
    BY <1>4, Types DEF IInv, DeliveredAsSent
  <2>2. d <= k /\ \A i \in 1 .. d : i \in 1 .. k - 1
    BY <2>1
  <2> QED  BY <1>1, <1>4, <1>5, <2>1, <2>2 DEF DeliveredAsSent
<1>13. WaitsForOne' /\ BufferBounded'
  BY <1>1 DEF IInv, WaitsForOne, BufferBounded, Available
<1>14. RefusalHasCause'
  <2>1. SUFFICES ASSUME reader = "failed", ~(damaged > 0)
                 PROVE  d < k /\ Len(sent'[d + 1].message.payload) > max_payload
    BY Zenon, <1>1, <1>4, <1>5 DEF RefusalHasCause
  <2>2. Len(delivered) < Len(sent)
        /\ Len(sent[Len(delivered) + 1].message.payload) > max_payload
    BY <2>1 DEF IInv, RefusalHasCause
  <2>3. d + 1 \in 1 .. k - 1 /\ d < k
    BY SMTT(60), <1>4, <2>2, Types DEF IInv
  <2> QED  BY Zenon, <1>4, <1>5, <2>2, <2>3
<1> QED  BY <1>7, <1>9, <1>10, <1>11, <1>12, <1>13, <1>14 DEF IInv

LEMMA DamageKeeps == ASSUME IInv, NEW p, NEW c, Damage(p, c) PROVE IInv'
<1>1. UNCHANGED <<written, received, consumed, open, sent, reader, delivered>>
      /\ p \in received + 1 .. written /\ c \in Damages
      /\ wire' = [wire EXCEPT ![p] = c] /\ damaged' = damaged + 1
  BY DEF Damage
<1>2. p \in 1 .. Len(wire) /\ c \in Cell /\ damaged' \in Nat /\ damaged' > 0
  BY <1>1, Types, DamageIsNumber DEF IInv
<1>3. wire' \in Seq(Cell) /\ Len(wire') = Len(wire)
      /\ \A q \in 1 .. Len(wire) : wire'[q] = IF q = p THEN c ELSE wire[q]
  BY SMTT(60), <1>1, <1>2, Types DEF IInv
<1>4. TypeOK'
  BY SMTT(60), <1>1, <1>2, <1>3 DEF IInv, TypeOK
<1>5. Layout' /\ Aligned'
  BY SMTT(60), <1>1, <1>3 DEF IInv, Layout, Aligned
<1>6. Content'
  <2>1. ASSUME NEW i \in Len(delivered) + 1 .. Len(sent),
               NEW j \in 1 .. Size(sent[i].message)
        PROVE  \/ wire'[sent[i].start + j] = EncodeFrame(sent[i].message)[j]
               \/ damaged' > 0 /\ wire'[sent[i].start + j] \in Damages
    <3>1. i \in 1 .. Len(sent)
      BY Types DEF IInv
    <3>2. sent[i].message \in Messages /\ sent[i].start \in Nat
      BY <3>1, SentType DEF IInv
    <3>3. PICK size \in Nat, at \in Nat :
            size = Size(sent[i].message) /\ at = sent[i].start
      BY <3>2, MessageType
    <3>4. at + size <= Len(wire)
      BY <3>1, <3>3 DEF IInv, Layout
    <3>5. j \in 1 .. size /\ Len(wire) \in Nat
      BY <3>3, Types DEF IInv
    <3>6. at + j \in 1 .. Len(wire)
      BY <3>4, <3>5
    <3>7. \/ wire[at + j] = EncodeFrame(sent[i].message)[j]
          \/ wire[at + j] \in Damages
      BY <3>3 DEF IInv, Content
    <3>8. wire'[at + j] = wire[at + j] \/ wire'[at + j] \in Damages
      BY <1>1, <1>3, <3>6
    <3> QED  BY SMTT(60), <1>2, <3>3, <3>7, <3>8
  <2> QED  BY Zenon, <1>1, <2>1 DEF Content
<1>7. DeliveredAsSent' /\ WaitsForOne' /\ BufferBounded'
  BY <1>1 DEF IInv, DeliveredAsSent, WaitsForOne, BufferBounded, Available
<1>8. RefusalHasCause'
  BY <1>2 DEF RefusalHasCause
<1> QED  BY <1>4, <1>5, <1>6, <1>7, <1>8 DEF IInv

-----------------------------------------------------------------------------

\* Every step of the sender, the network and the reader keeps IInv.
LEMMA StepKeeps == IInv /\ [Next]_vars => IInv'
<1> SUFFICES ASSUME IInv, [Next]_vars PROVE IInv'
  OBVIOUS
<1>1. ASSUME NEW m \in Messages, Send(m) PROVE IInv'
  BY <1>1, SendKeeps
<1>2. ASSUME NEW n \in 1 .. Len(wire) - written, Write(n) PROVE IInv'
  BY <1>2, WriteKeeps
<1>3. CASE Close
  BY <1>3, CloseKeeps
<1>4. ASSUME NEW i \in received + 1 .. written, NEW cell \in Damages,
             Damage(i, cell)
      PROVE  IInv'
  BY <1>4, DamageKeeps
<1>5. CASE Reader
  <2>1. ASSUME NEW n \in 1 .. Capacity, Receive(n) PROVE IInv'
    BY <2>1, ReceiveKeeps
  <2> QED
    BY <1>5, <2>1, NextWaitsKeeps, NextFailsKeeps, NextDeliversKeeps, EndKeeps
       DEF Reader
<1>6. CASE Released
  BY <1>6, EndKeeps
<1>7. CASE UNCHANGED vars
  <2>1. UNCHANGED <<wire, written, received, consumed, open, damaged, sent,
                    reader, delivered>>
    BY <1>7 DEF vars
  <2>2. TypeOK' /\ WaitsForOne' /\ BufferBounded'
    BY <2>1 DEF IInv, TypeOK, WaitsForOne, BufferBounded, Available
  <2> QED  BY <2>1, <2>2, StreamKept, RefusalKept DEF IInv
<1> QED  BY <1>1, <1>2, <1>3, <1>4, <1>5, <1>6, <1>7 DEF Next

\* The strengthening is an invariant.
THEOREM Inductive == Spec => []IInv
  BY Start, StepKeeps, PTL DEF Spec

\* The cursors stay in order and every cell is one the format knows.
THEOREM TypeCorrect == Spec => []TypeOK
<1>1. IInv => TypeOK
  BY DEF IInv
<1> QED  BY <1>1, Inductive, PTL

\* The receive loop returns a prefix of what was sent, whole and in order,
\* however send and recv cut the stream and whatever is damaged or cut short.
THEOREM FramingIsFaithful == Spec => []DeliveredAsSent
<1>1. IInv => DeliveredAsSent
  BY DEF IInv
<1> QED  BY <1>1, Inductive, PTL

\* FrameReader's buffer is bounded by the largest frame it accepts and one
\* read, for every bound and every read size.
THEOREM BufferIsBounded == Spec => []BufferBounded
<1>1. IInv => BufferBounded
  BY DEF IInv
<1> QED  BY <1>1, Inductive, PTL

\* FrameReader refuses only damage and frames beyond its bound.
THEOREM RefusalsAreDeserved == Spec => []RefusalHasCause
<1>1. IInv => RefusalHasCause
  BY DEF IInv
<1> QED  BY <1>1, Inductive, PTL
=============================================================================
