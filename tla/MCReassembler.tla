--------------------------- MODULE MCReassembler ---------------------------
(* Reassembler for model checking: messages of one to three packets of four *)
(* bytes, two of which fill their packets exactly, on two characteristics.   *)
EXTENDS Reassembler

MCChannels == {"settings", "query"}
=============================================================================
