------------------------------- MODULE Frames -------------------------------
(***************************************************************************)
(* One direction of a connection: EncodeFrame and net::SendAll at one end, *)
(* net::Receive and FrameReader at the other (wire.cpp, net.cpp, and the   *)
(* receive loops ReceiveFrame of server.cpp and ReceiveOne of client.cpp). *)
(*                                                                         *)
(* The stream is one sequence of cells with three cursors on it:           *)
(*     consumed <= received <= written <= Len(wire)                        *)
(* FrameReader's buffer is what lies between consumed and received, what   *)
(* is on its way lies between received and written, and what SendAll still *)
(* has to write comes last. A cell is a fixed-width field of the header, a *)
(* digest, or a part of a payload; nothing aligns what one call of send or *)
(* recv moves with the frames.                                             *)
(***************************************************************************)
EXTENDS Naturals, Sequences

CONSTANTS Parts,         \* the cells payloads are made of
          Messages,      \* what may be sent: header fields and payload
          Damages,       \* what a cell damaged on its way may read as
          MaxNumber,     \* bound: what a damaged number may read as
          max_payload,   \* the reader's own bound
          Capacity,      \* the most one call of recv returns
          MaxFrames,     \* bound: frames sent
          MaxDamage      \* bound: cells damaged

ASSUME FramesAssumption ==
    /\ Messages \subseteq [type : 1 .. 8, flags : Nat, session_id : Nat,
                           sequence : Nat, payload : Seq(Parts)]
    /\ Damages \subseteq {<<n>> : n \in 0 .. MaxNumber}
    /\ MaxNumber \in Nat /\ max_payload \in Nat /\ Capacity \in Nat \ {0}
    /\ MaxFrames \in Nat /\ MaxDamage \in Nat

VARIABLES
    wire, written, received, consumed,
    open,        \* the sender's end is there
    damaged,     \* cells damaged so far
    sent,        \* history: every message handed to SendAll, and where its
                 \* frame starts
    reader,      \* "next", "receive", or why the loop ended: "failed",
                 \* "closed", "released"
    delivered    \* the messages the loop returned, in order

vars == <<wire, written, received, consumed, open, damaged, sent, reader,
          delivered>>

Init ==
    /\ wire = <<>> /\ written = 0 /\ received = 0 /\ consumed = 0
    /\ open = TRUE /\ damaged = 0
    /\ sent = <<>> /\ reader = "next" /\ delivered = <<>>

-----------------------------------------------------------------------------
(* The format. *)

\* In cells: eight fields and the digest of them and of the payload.
kWireMagic == 77
kWireProtocolVersion == 1
kWireHeaderBytes == 9
kWireDigestOffset == 8

\* A digest is told apart from every other one and from every other cell.
Sha256(cells) == <<"sha256", cells>>

\* The header up to its digest.
Fields(m) ==
    <<<<kWireMagic>>, <<kWireProtocolVersion>>, <<m.type>>, <<m.flags>>, <<0>>,
      <<Len(m.payload)>>, <<m.session_id>>, <<m.sequence>>>>

EncodeFrame(m) ==
    Fields(m) \o <<Sha256(<<Fields(m), m.payload>>)>> \o m.payload

\* The n-th cell the reader has and has not consumed, and how many there are.
Buffered(n) == wire[consumed + n]
Available == received - consumed

Number(cell) == cell[1]
payload_len == Number(Buffered(6))
total == kWireHeaderBytes + payload_len

\* Fault: the declared length is not compared with the reader's bound.
DecodeAnyLength ==
    /\ Buffered(1) = <<kWireMagic>>
    /\ Buffered(2) = <<kWireProtocolVersion>>
    /\ Number(Buffered(3)) \in 1 .. 8
    /\ Buffered(5) = <<0>>

\* Fault: a payload of exactly the bound is refused.
DecodeBelowBound == DecodeAnyLength /\ payload_len < max_payload

DecodeFrameHeader ==
    /\ Buffered(1) = <<kWireMagic>>
    /\ Buffered(2) = <<kWireProtocolVersion>>
    /\ Number(Buffered(3)) \in 1 .. 8
    /\ Buffered(5) = <<0>>
    /\ payload_len <= max_payload

Payload == SubSeq(wire, consumed + kWireHeaderBytes + 1, consumed + total)

\* Fault: the digest is compared over the payload only.
VerifyPayloadOnly ==
    Buffered(kWireHeaderBytes)[2][2] = Payload

\* The image is cut to the length the header declares; what is left to verify
\* is the digest.
VerifyFrameImage ==
    Buffered(kWireHeaderBytes) =
        Sha256(<<SubSeq(wire, consumed + 1, consumed + kWireDigestOffset),
                 Payload>>)

Parsed ==
    [type |-> Number(Buffered(3)), flags |-> Number(Buffered(4)),
     session_id |-> Number(Buffered(7)), sequence |-> Number(Buffered(8)),
     payload |-> Payload]

-----------------------------------------------------------------------------
(* The sender. *)

\* SendFrame: the frame is encoded and handed to SendAll, one at a time.
Send(m) ==
    /\ open /\ written = Len(wire) /\ Len(sent) < MaxFrames
    /\ wire' = wire \o EncodeFrame(m)
    /\ sent' = Append(sent, [message |-> m, start |-> Len(wire)])
    /\ UNCHANGED <<written, received, consumed, open, damaged, reader,
                   delivered>>

\* One round of SendAll's loop: send takes some of what is left.
Write(n) ==
    /\ open /\ n \in 1 .. Len(wire) - written
    /\ written' = written + n
    /\ UNCHANGED <<wire, received, consumed, open, damaged, sent, reader,
                   delivered>>

\* send fails, or the sender closes or dies, in the middle of a frame or not.
Close ==
    /\ open
    /\ open' = FALSE
    /\ UNCHANGED <<wire, written, received, consumed, damaged, sent, reader,
                   delivered>>

\* A cell is damaged on its way.
Damage(i, cell) ==
    /\ damaged < MaxDamage /\ i \in received + 1 .. written
    /\ cell \in Damages /\ wire[i] # cell
    /\ wire' = [wire EXCEPT ![i] = cell]
    /\ damaged' = damaged + 1
    /\ UNCHANGED <<written, received, consumed, open, sent, reader, delivered>>

-----------------------------------------------------------------------------
(* The receive loop. *)

\* Fault: a header that ends exactly where the buffer does is waited for.
NeedsMoreThanHeader ==
    Available > kWireHeaderBytes => DecodeFrameHeader /\ Available < total

\* Next has no whole frame: the loop goes on to wait for more.
NeedsMore ==
    Available >= kWireHeaderBytes => DecodeFrameHeader /\ Available < total

NextWaits ==
    /\ reader = "next" /\ NeedsMore
    /\ reader' = "receive"
    /\ UNCHANGED <<wire, written, received, consumed, open, damaged, sent,
                   delivered>>

\* Next refuses what it holds, and failed_ makes it refuse whatever follows.
NextFails ==
    /\ reader = "next" /\ Available >= kWireHeaderBytes
    /\ \/ ~DecodeFrameHeader
       \/ DecodeFrameHeader /\ Available >= total /\ ~VerifyFrameImage
    /\ reader' = "failed"
    /\ UNCHANGED <<wire, written, received, consumed, open, damaged, sent,
                   delivered>>

\* Fault: the length declared is taken out before all of it was received.
DeliversEarly ==
    /\ reader = "next" /\ Available >= kWireHeaderBytes
    /\ DecodeFrameHeader /\ written - consumed >= total /\ VerifyFrameImage
    /\ delivered' = Append(delivered, Parsed)
    /\ consumed' = consumed + total
    /\ UNCHANGED <<wire, written, received, open, damaged, sent, reader>>

\* Next takes one frame out of the buffer and Compact closes the gap.
NextDelivers ==
    /\ reader = "next" /\ Available >= kWireHeaderBytes
    /\ DecodeFrameHeader /\ Available >= total /\ VerifyFrameImage
    /\ delivered' = Append(delivered, Parsed)
    /\ consumed' = consumed + total
    /\ UNCHANGED <<wire, written, received, open, damaged, sent, reader>>

\* The socket is readable: Receive, and Feed.
Receive(n) ==
    /\ reader = "receive"
    /\ n \in 1 .. Capacity /\ n <= written - received
    /\ received' = received + n
    /\ reader' = "next"
    /\ UNCHANGED <<wire, written, consumed, open, damaged, sent, delivered>>

\* Everything was read and the sender is gone.
PeerClosed ==
    /\ reader = "receive" /\ ~open /\ received = written
    /\ reader' = "closed"
    /\ UNCHANGED <<wire, written, received, consumed, open, damaged, sent,
                   delivered>>

\* The wait is released by Stop, or by Close of the client.
Released ==
    /\ reader = "receive"
    /\ reader' = "released"
    /\ UNCHANGED <<wire, written, received, consumed, open, damaged, sent,
                   delivered>>

Reader ==
    \/ NextWaits \/ NextFails \/ NextDelivers \/ PeerClosed
    \/ \E n \in 1 .. Capacity : Receive(n)

Next ==
    \/ \E m \in Messages : Send(m)
    \/ \E n \in 1 .. Len(wire) - written : Write(n)
    \/ Close
    \/ \E i \in received + 1 .. written, cell \in Damages : Damage(i, cell)
    \/ Reader
    \/ Released

Spec == Init /\ [][Next]_vars

\* send makes progress as long as the connection lasts (the other end reads),
\* and the receiving thread runs.
LiveSpec ==
    /\ Spec
    /\ WF_vars(\E n \in 1 .. Len(wire) - written : Write(n))
    /\ WF_vars(Reader)

-----------------------------------------------------------------------------
(* What is checked. *)

\* What may lie in the stream.
Cell ==
    Parts \cup [1 .. 1 -> Nat]
    \cup {Sha256(<<Fields(m), m.payload>>) : m \in Messages}

\* The three cursors stay in order (SendAll, Receive, Feed, Compact), and what
\* Next returns are messages somebody may have sent.
TypeOK ==
    /\ wire \in Seq(Cell)
    /\ {written, received, consumed, damaged} \subseteq Nat
    /\ consumed <= received /\ received <= written /\ written <= Len(wire)
    /\ open \in BOOLEAN
    /\ sent \in Seq([message : Messages, start : Nat])
    /\ reader \in {"next", "receive", "failed", "closed", "released"}
    /\ delivered \in Seq(Messages)

\* Whatever send and recv move at a time, whatever is damaged on the way and
\* wherever the connection ends, the loop returns the messages that were sent,
\* each once, whole and in order: a prefix of them.
DeliveredAsSent ==
    /\ Len(delivered) <= Len(sent)
    /\ \A i \in 1 .. Len(delivered) : delivered[i] = sent[i].message

\* FrameReader never holds more than one frame of the largest size it accepts
\* and one more read, however many frames the peer writes ahead.
BufferBounded == Available < kWireHeaderBytes + max_payload + Capacity

\* Next refuses nothing it should accept: when it failed, a cell was damaged,
\* or the frame it is at is larger than the reader's bound.
RefusalHasCause ==
    reader = "failed" =>
        \/ damaged > 0
        \/ /\ Len(delivered) < Len(sent)
           /\ Len(sent[Len(delivered) + 1].message.payload) > max_payload

CutShort(k) ==
    /\ ~open /\ k <= Len(sent)
    /\ written < sent[k].start + kWireHeaderBytes + Len(sent[k].message.payload)

\* A frame whose last cell was written, or will be because the sender is still
\* there, is returned, unless a cell was damaged or the loop ended on purpose:
\* the reader never waits for more than the frame it is at.
FramesArrive ==
    \A k \in 1 .. MaxFrames :
        k <= Len(sent) ~> \/ Len(delivered) >= k
                          \/ damaged > 0 \/ reader \in {"failed", "released"}
                          \/ CutShort(k)
=============================================================================
