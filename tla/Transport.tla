----------------------------- MODULE Transport -----------------------------
(***************************************************************************)
(* Statuses over a TCP connection (protocol.cpp, frame_io.hpp,             *)
(* socket.hpp): write_status at one end, read_status at the other.  The    *)
(* requests travel the other way through the same write_frame and          *)
(* read_frame.                                                             *)
(*                                                                         *)
(* The stream is a sequence of units.  One unit stands for the four bytes  *)
(* of a u32, for the eight of the request id and for one byte of a text;   *)
(* send and recv may stop after any of them.  The kernel's buffers hold    *)
(* WireBound units, so that a frame never fits at once.                    *)
(***************************************************************************)
EXTENDS Integers, Sequences

CONSTANTS
  Version,      \* kProtocolVersion
  MaxPayload,   \* kMaxFramePayload, in units
  Word,         \* the numbers a u32 holds
  Statuses,     \* the statuses with payloads that are written
  Foreign,      \* the frames of peers that do not use write_frame
  WriteBound,   \* bound: the frames written on the connection
  WireBound,    \* bound: the units the connection buffers
  crc32c(_)     \* the checksum: any will do, as the connection changes no unit

Status == [code: Nat, msg: Seq(Nat), payload: Seq(Nat)]
ASSUME TransportAssumption ==
  /\ Version \in Nat /\ MaxPayload \in Nat /\ Word \in Nat /\ MaxPayload < Word
  /\ WriteBound \in Nat /\ WireBound \in Nat \ {0}
  /\ Statuses \subseteq Status
  /\ Foreign \subseteq Seq(Nat)

VARIABLES
  written,      \* what the writer has begun to send: statuses and foreign frames
  out,          \* the units of send_all that are still to be sent
  writer,       \* "open" or "closed"
  wire,         \* the units in the connection
  up,           \* FALSE once the connection is reset
  reader,       \* the read_frame in progress
  delivered     \* the statuses read_status has returned

vars == <<written, out, writer, wire, up, reader, delivered>>

-----------------------------------------------------------------------------
(***************************************************************************)
(* The frame: length and checksum of the payload, then the payload, which  *)
(* is version, kind, request id and body.                                  *)
(***************************************************************************)
HeaderLen == 2
PrefixLen == 3

\* The payload of write_frame(s, 0, 0, body), refused when it is too long.
Payload(body) == <<Version, 0, 0>> \o body
Encodable(body) == Len(Payload(body)) <= MaxPayload
encode_frame(body) ==
  <<Len(Payload(body)), crc32c(Payload(body))>> \o Payload(body)

\* Whether decode_frame takes the frame, and the body it finds.
decode_frame(frame) ==
  LET payload == SubSeq(frame, HeaderLen + 1, Len(frame))
  IN  /\ frame[1] <= MaxPayload
      /\ frame[1] + HeaderLen = Len(frame)
      /\ crc32c(payload) = frame[2]
      /\ Len(payload) >= PrefixLen
      /\ payload[1] = Version
BodyOf(frame) == SubSeq(frame, HeaderLen + PrefixLen + 1, Len(frame))

encode_status_payload(st) == <<st.code, Len(st.msg)>> \o st.msg \o st.payload

\* decode_status adds in 32 bits.
MsgEnd(body) == (2 + body[2]) % Word
decode_status(body) == Len(body) >= 2 /\ MsgEnd(body) <= Len(body)
StatusOf(body) ==
  [code |-> body[1],
   msg |-> SubSeq(body, 3, IF 2 + body[2] < Len(body) THEN 2 + body[2] ELSE Len(body)),
   payload |-> SubSeq(body, MsgEnd(body) + 1, Len(body))]

\* The foreign frames have a header and are rejected for what they hold: for the
\* length they announce, or for the payload of that length.
Rejected(frame) ==
  /\ Len(frame) >= HeaderLen
  /\ \/ frame[1] > MaxPayload
     \/ /\ Len(frame) = HeaderLen + frame[1]
        /\ ~(decode_frame(frame) /\ decode_status(BodyOf(frame)))
ASSUME ForeignAssumption == \A frame \in Foreign : Rejected(frame)

-----------------------------------------------------------------------------
NextFrame == [at |-> "header", got |-> <<>>, need |-> HeaderLen]
Closed == [at |-> "closed", got |-> <<>>, need |-> 0]

Init ==
  /\ written = <<>> /\ delivered = <<>>
  /\ out = <<>> /\ writer = "open"
  /\ wire = <<>> /\ up = TRUE
  /\ reader = NextFrame

\* write_status: begins once the send before it has ended.
WriteStatus(st) ==
  /\ writer = "open" /\ out = <<>>
  /\ Len(written) < WriteBound
  /\ IF Encodable(encode_status_payload(st))
     THEN /\ written' = Append(written, [frame |-> encode_frame(encode_status_payload(st)),
                                         status |-> st])
          /\ out' = encode_frame(encode_status_payload(st))
     ELSE UNCHANGED <<written, out>>
  /\ UNCHANGED <<writer, wire, up, reader, delivered>>

\* A peer that is not el_worker or el_coordinator.
NoStatus == [code |-> 0, msg |-> <<>>, payload |-> <<>>]
WriteForeign(frame) ==
  /\ writer = "open" /\ out = <<>>
  /\ Len(written) < WriteBound
  /\ written' = Append(written, [frame |-> frame, status |-> NoStatus])
  /\ out' = frame
  /\ UNCHANGED <<writer, wire, up, reader, delivered>>

\* Mutant: what one send has not taken is dropped.
SendOnce(n) ==
  /\ up /\ writer = "open" /\ out # <<>>
  /\ n <= Len(out) /\ Len(wire) + n <= WireBound
  /\ wire' = wire \o SubSeq(out, 1, n)
  /\ out' = <<>>
  /\ UNCHANGED <<written, writer, up, reader, delivered>>

\* One send of send_all takes some of the units.
Send(n) ==
  /\ up /\ writer = "open" /\ out # <<>>
  /\ n <= Len(out) /\ Len(wire) + n <= WireBound
  /\ wire' = wire \o SubSeq(out, 1, n)
  /\ out' = SubSeq(out, n + 1, Len(out))
  /\ UNCHANGED <<written, writer, up, reader, delivered>>

\* The writer closes, or dies in the middle of a frame; or its send fails.
CloseWriter ==
  /\ writer = "open"
  /\ writer' = "closed" /\ out' = <<>>
  /\ UNCHANGED <<written, wire, up, reader, delivered>>

\* The connection breaks and loses what it holds.
Reset ==
  /\ up
  /\ up' = FALSE /\ wire' = <<>>
  /\ UNCHANGED <<written, out, writer, reader, delivered>>

-----------------------------------------------------------------------------
(***************************************************************************)
(* read_status: the header, its length checked before the payload is       *)
(* allocated, the payload, and the checks of decode_frame and              *)
(* decode_status.  A reader that gets false closes the connection.         *)
(***************************************************************************)
Reading == reader.at \in {"header", "payload"}

\* One recv of recv_all returns some of what is there and still wanted.
Recv(n) ==
  /\ Reading
  /\ n <= Len(wire) /\ Len(reader.got) + n <= reader.need
  /\ reader' = [reader EXCEPT !.got = @ \o SubSeq(wire, 1, n)]
  /\ wire' = SubSeq(wire, n + 1, Len(wire))
  /\ UNCHANGED <<written, out, writer, up, delivered>>

\* recv returns 0 or an error before recv_all has all it wants.
RecvFails ==
  /\ Reading
  /\ Len(reader.got) < reader.need
  /\ wire = <<>>
  /\ ~up \/ writer = "closed"
  /\ reader' = Closed
  /\ UNCHANGED <<written, out, writer, wire, up, delivered>>


HeaderRead ==
  /\ reader.at = "header"
  /\ Len(reader.got) = reader.need
  /\ reader' = IF reader.got[1] > MaxPayload THEN Closed
               ELSE [reader EXCEPT !.at = "payload", !.need = HeaderLen + reader.got[1]]
  /\ UNCHANGED <<written, out, writer, wire, up, delivered>>

\* Mutant: after a frame that is rejected the reader goes on to the next.
FrameSkipped ==
  /\ reader.at = "payload"
  /\ Len(reader.got) = reader.need
  /\ reader' = NextFrame
  /\ LET frame == reader.got
     IN  delivered' = IF decode_frame(frame) /\ decode_status(BodyOf(frame))
                      THEN Append(delivered, StatusOf(BodyOf(frame))) ELSE delivered
  /\ UNCHANGED <<written, out, writer, wire, up>>

FrameRead ==
  /\ reader.at = "payload"
  /\ Len(reader.got) = reader.need
  /\ LET frame == reader.got
         accepted == decode_frame(frame) /\ decode_status(BodyOf(frame))
     IN  /\ reader' = IF accepted THEN NextFrame ELSE Closed
         /\ delivered' = IF accepted THEN Append(delivered, StatusOf(BodyOf(frame)))
                         ELSE delivered
  /\ UNCHANGED <<written, out, writer, wire, up>>

\* The reader has closed the connection.
Over == reader.at = "closed" /\ UNCHANGED vars

Next ==
  \/ \E st \in Statuses : WriteStatus(st)
  \/ \E frame \in Foreign : WriteForeign(frame)
  \/ \E n \in 1..WireBound : Send(n) \/ Recv(n)
  \/ CloseWriter \/ Reset
  \/ RecvFails \/ HeaderRead \/ FrameRead
  \/ Over

\* Both ends go on with a send_all and a read_frame they have begun.
Transfer == \/ \E n \in 1..WireBound : Send(n) \/ Recv(n)
            \/ RecvFails \/ HeaderRead \/ FrameRead
Spec == Init /\ [][Next]_vars /\ WF_vars(Transfer)

-----------------------------------------------------------------------------
\* The connection is a Channel of statuses: however send and recv cut the
\* frames, wherever the writer dies or the connection breaks, read_status
\* returns the statuses written, in order, none torn, skipped or repeated, and
\* none from behind a frame that is malformed.
Stream == INSTANCE Channel WITH
  WellFormed <- Statuses,
  written <- [i \in DOMAIN written |->
                IF written[i].frame \in Foreign THEN [code |-> -1] ELSE written[i].status],
  ended <- reader.at = "closed"
ImplementsChannel == Stream!ChannelSpec


\* A status that was written reaches the reader unless the connection breaks or
\* a malformed frame ends it: no interleaving of partial sends and receives
\* leaves both ends waiting, and what has been sent is read even if the writer
\* closes, or dies in its next frame.
Broken(n) == ~up \/ \E i \in DOMAIN written : i <= n /\ written[i].frame \in Foreign
Sent(n) ==
  /\ writer = "open"
  /\ Len(written) > n \/ (Len(written) = n /\ out = <<>>)
StatusArrives ==
  \A n \in 1..WriteBound :
    /\ Len(written) >= n ~> Len(delivered) >= n \/ writer = "closed" \/ Broken(n)
    /\ Sent(n) ~> Len(delivered) >= n \/ Broken(n)
=============================================================================
