--------------------------- MODULE MCPacketFraming ---------------------------
(* Bounds for model-checking the framing.  As an opcode, 0 is invalid, 1 the *)
(* only valid one.  As a size, 0 and 1 fit into the buffer with a header, 3  *)
(* is accepted and does not, 4 is refused.                                   *)
EXTENDS PacketFraming

MCByte == {0, 1, 3, 4}
=============================================================================
