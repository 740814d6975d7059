------------------------------- MODULE Channel -------------------------------
(***************************************************************************)
(* What one direction of a connection promises: the messages arrive whole, *)
(* in the order they were written, each once, until the connection ends.   *)
(* A message that is not well-formed ends it.                              *)
(***************************************************************************)
EXTENDS Naturals, Sequences

CONSTANT WellFormed     \* the messages that may be delivered

VARIABLES written, delivered, ended

ChannelInit == written = <<>> /\ delivered = <<>> /\ ended = FALSE

Write ==
  /\ Len(written') = Len(written) + 1
  /\ SubSeq(written', 1, Len(written)) = written
  /\ UNCHANGED <<delivered, ended>>

Deliver ==
  /\ ~ended
  /\ Len(delivered) < Len(written)
  /\ written[Len(delivered) + 1] \in WellFormed
  /\ delivered' = Append(delivered, written[Len(delivered) + 1])
  /\ UNCHANGED <<written, ended>>

End == ended' = TRUE /\ UNCHANGED <<written, delivered>>

ChannelSpec ==
  ChannelInit /\ [][Write \/ Deliver \/ End]_<<written, delivered, ended>>
=============================================================================
