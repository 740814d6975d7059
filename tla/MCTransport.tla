---------------------------- MODULE MCTransport ----------------------------
(***************************************************************************)
(* An instance of the transport for TLC.                                   *)
(***************************************************************************)
EXTENDS Transport, SequencesExt

\* A checksum that tells the frames of the instance apart.
Checksum(units) == FoldLeft(LAMBDA acc, u : (acc * 3 + u + 1) % 64, 0, units)

St(code, msg, payload) == [code |-> code, msg |-> msg, payload |-> payload]
\* OK without a payload, a digest, an error with its message; one too long.
SmallStatuses ==
  {St(0, <<>>, <<>>), St(0, <<>>, <<3>>), St(2, <<3>>, <<>>), St(2, <<3, 3>>, <<3, 3>>)}

\* Too long a length, a wrong checksum, another version, a payload that is too
\* short, and a status whose message is longer than its body.
Framed(payload) == <<Len(payload), crc32c(payload)>> \o payload
BadFrames ==
  { <<MaxPayload + 1, 0>>, <<5, 0, Version, 0, 0, 2, 0>>, Framed(<<Version + 1, 0, 0, 0, 0>>),
    Framed(<<Version>>), Framed(<<Version, 0, 0, 0, 1>>) }
=============================================================================
