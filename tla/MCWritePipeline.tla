--------------------------- MODULE MCWritePipeline --------------------------
(* Two accounts share a device.  A pipeline of two writes is full after     *)
(* the second one, as the code's is after the tenth.                        *)
EXTENDS WritePipeline
============================================================================
