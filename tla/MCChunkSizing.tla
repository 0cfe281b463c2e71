---------------------------- MODULE MCChunkSizing ----------------------------
(***************************************************************************)
(* ChunkSizing with the values around every boundary of the code: message  *)
(* sizes at the minimum, at the fallback and where the configured chunk    *)
(* size takes over from the budget, and files of a byte less and a byte    *)
(* more than a whole number of chunks.                                     *)
(***************************************************************************)
EXTENDS ChunkSizing

Around(n) == {n - 1, n, n + 1}

Budget == CHUNK_SIZE + ENCRYPTED_PAYLOAD_OVERHEAD + TRANSPORT_SAFETY_MARGIN

BoundaryMessageSizes ==
  {0, 1, 65536} \cup Around(1040) \cup Around(MIN_USABLE_MESSAGE_SIZE)
    \cup Around(MOBILE_FALLBACK_MAX_MESSAGE_SIZE) \cup Around(CHUNK_SIZE)
    \cup Around(Budget)

BoundaryFileSizes ==
  {0} \cup Around(1) \cup Around(1008) \cup Around(15344) \cup Around(30688)
    \cup Around(64496) \cup Around(CHUNK_SIZE) \cup Around(2 * CHUNK_SIZE)
=============================================================================
