-------------------------- MODULE MCChunkedPayload --------------------------
(***************************************************************************)
(* Chunks of up to MaxChunk bytes around a small buffer, with every size   *)
(* up to one more than it holds.                                           *)
(***************************************************************************)
EXTENDS ChunkedPayload

CONSTANTS MaxChunk   \* the most bytes of a chunk: bounds Chunks

MCByte == {0, 1, 2}

MCSizes == 0..(BufferSize + 1)

MCChunks ==
    [size : MCSizes \cup {NoSize}, data : UNION {[1..n -> MCByte \ {ZeroByte}] : n \in 0..MaxChunk}]
=============================================================================
