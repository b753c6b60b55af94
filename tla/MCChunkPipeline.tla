--------------------------- MODULE MCChunkPipeline ---------------------------
(* Instances of ChunkPipeline for TLC; the constants are in the .cfg files. *)
EXTENDS ChunkPipeline
=============================================================================
