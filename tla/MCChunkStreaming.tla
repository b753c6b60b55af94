-------------------------- MODULE MCChunkStreaming --------------------------
(* ChunkStreaming for TLC: chunks so far apart that a player sees only its own. *)
EXTENDS ChunkStreaming, TLC

CONSTANTS here, away

OwnChunk == [c \in Coords |-> {c}]

\* Nothing tells the chunks, or the clients, from each other.
Symmetry == Permutations(Coords) \cup Permutations(Clients)
=============================================================================
