--------------------------- MODULE MCChunkUpload ---------------------------
(* Instances of ChunkUpload for TLC: uploads as model values.               *)
EXTENDS ChunkUpload

CONSTANTS u1, u2
=============================================================================
