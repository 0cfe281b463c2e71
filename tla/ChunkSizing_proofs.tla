-------------------------- MODULE ChunkSizing_proofs --------------------------
(***************************************************************************)
(* For every file size and every negotiated message size, the chunks fit   *)
(* into the messages and cover the file.  The three invariants are         *)
(* inductive together: that a chunk fits needs an offset within the file,  *)
(* and that the offset stays there needs a chunk size that is positive.    *)
(***************************************************************************)
EXTENDS ChunkSizing, TLAPS

Inv == /\ TypeOK
       /\ ChunksFit
       /\ Coverage
       /\ state = "sending" => ~TooSmall(negotiated)

\* A message size the code accepts leaves room for at least 1008 bytes.
LEMMA BudgetPositive ==
  ASSUME NEW value \in Nat, ~TooSmall(value)
  PROVE  /\ getPeerMaxMessageSize(value) \in Nat
         /\ getEffectiveFileChunkSize(value) \in Nat \ {0}
         /\ getEffectiveFileChunkSize(value) + ENCRYPTED_PAYLOAD_OVERHEAD
              + TRANSPORT_SAFETY_MARGIN <= getPeerMaxMessageSize(value)
BY DEF TooSmall, getPeerMaxMessageSize, getEffectiveFileChunkSize, Least,
       PayloadBudget, MOBILE_FALLBACK_MAX_MESSAGE_SIZE, CHUNK_SIZE,
       ENCRYPTED_PAYLOAD_OVERHEAD, TRANSPORT_SAFETY_MARGIN,
       MIN_USABLE_MESSAGE_SIZE

LEMMA OneMore ==
  ASSUME NEW i \in Nat, NEW size \in Nat
  PROVE  /\ (i + 1) * size = i * size + size
         /\ i * size \in Nat
         /\ i + 1 - 1 = i
OBVIOUS

LEMMA InitInv == Init => Inv
<1> SUFFICES ASSUME Init PROVE Inv
  OBVIOUS
<1>1. fileSize \in Nat /\ negotiated \in Nat
  BY SizesAssumption DEF Init
<1>2. TypeOK
  BY <1>1 DEF Init, TypeOK
<1>3. ChunksFit
  BY DEF Init, ChunksFit
<1>4. Coverage
  <2> SUFFICES ASSUME state # "failed" PROVE Coverage
    BY DEF Coverage
  <2>1. getEffectiveFileChunkSize(negotiated) \in Nat
    BY <1>1, BudgetPositive DEF Init
  <2>2. 0 * getEffectiveFileChunkSize(negotiated) = 0
    BY <2>1
  <2> QED
    BY <1>1, <2>2 DEF Init, Coverage, Least
<1> QED
  BY <1>2, <1>3, <1>4 DEF Init, Inv

LEMMA NextInv == Inv /\ [Next]_vars => Inv'
<1> SUFFICES ASSUME Inv, [Next]_vars PROVE Inv'
  OBVIOUS
<1>1. CASE SendSlice
  <2> DEFINE size == getEffectiveFileChunkSize(negotiated)
             max == getPeerMaxMessageSize(negotiated)
  <2>1. /\ fileSize \in Nat /\ negotiated \in Nat /\ offset \in Nat
        /\ chunkIndex \in Nat
        /\ fileSize' = fileSize /\ negotiated' = negotiated
        /\ fileSize \in FileSizes /\ negotiated \in MessageSizes
    BY <1>1, SizesAssumption DEF Inv, TypeOK, SendSlice
  <2>2. state = "sending" /\ ~TooSmall(negotiated)
    BY <1>1 DEF Inv, SendSlice
  <2>3. /\ max \in Nat /\ size \in Nat \ {0}
        /\ size + ENCRYPTED_PAYLOAD_OVERHEAD + TRANSPORT_SAFETY_MARGIN <= max
    BY <2>1, <2>2, BudgetPositive
  <2>4. /\ offset = Least(chunkIndex * size, fileSize)
        /\ offset < fileSize \/ chunkIndex = 0
    BY <2>2 DEF Inv, Coverage
  <2> DEFINE next == chunkIndex * size
             length == Least(size, fileSize - offset)
  <2>5. next \in Nat /\ (chunkIndex + 1) * size = next + size
        /\ chunkIndex + 1 - 1 = chunkIndex
        /\ (chunkIndex = 0 => next = 0)
    BY <2>1, <2>3, OneMore
  <2>6. size' = size /\ max' = max
    BY <2>1 DEF getEffectiveFileChunkSize, getPeerMaxMessageSize,
                PayloadBudget
  <2>7. SliceLength = length
    BY DEF SliceLength
  <2> HIDE DEF size, max, next
  <2>8. /\ offset = next
        /\ length \in Nat
        /\ length <= size
        /\ offset + length = Least(next + size, fileSize)
    BY <2>1, <2>3, <2>4, <2>5 DEF Least, next
  <2> HIDE DEF length
  <2>9. Fits(length + ENCRYPTED_PAYLOAD_OVERHEAD, negotiated)
    BY <2>3, <2>8
    DEF Fits, max, ENCRYPTED_PAYLOAD_OVERHEAD, TRANSPORT_SAFETY_MARGIN
  <2>10. /\ payload' = length + ENCRYPTED_PAYLOAD_OVERHEAD
         /\ offset' = offset + length
         /\ chunkIndex' = chunkIndex + 1
         /\ state' = IF Finished(offset + length) THEN "ended" ELSE "sending"
    BY <1>1, <2>7, <2>9 DEF SendSlice
  <2>11. TypeOK'
    BY <2>1, <2>8, <2>10 DEF TypeOK, ENCRYPTED_PAYLOAD_OVERHEAD
  <2>12. ChunksFit'
    <3>1. payload' + TRANSPORT_SAFETY_MARGIN <= max'
      BY <2>3, <2>6, <2>8, <2>10
      DEF ENCRYPTED_PAYLOAD_OVERHEAD, TRANSPORT_SAFETY_MARGIN
    <3>2. state' # "failed"
      BY <2>10
    <3> QED
      BY <3>1, <3>2 DEF ChunksFit, max
  <2>13. Coverage'
    <3>1. offset' = Least(chunkIndex' * size', fileSize')
      BY <2>1, <2>5, <2>6, <2>8, <2>10
    <3>2. state' = "sending" => offset' < fileSize'
      BY <2>1, <2>8, <2>10 DEF Finished
    <3>3. state' = "ended" => offset' = fileSize'
      BY <2>1, <2>3, <2>5, <2>8, <2>10 DEF Finished, Least
    <3>4. chunkIndex' > 0 /\ chunkIndex' - 1 = chunkIndex
      BY <2>1, <2>10
    <3>5. chunkIndex' = 1 \/ (chunkIndex' - 1) * size' < fileSize'
      <4>1. chunkIndex # 0 => next < fileSize
        BY <2>1, <2>4, <2>8
      <4> QED
        BY <2>1, <2>6, <2>10, <3>4, <4>1 DEF next
    <3> QED
      BY <3>1, <3>2, <3>3, <3>4, <3>5 DEF Coverage, size
  <2>14. ~TooSmall(negotiated)'
    BY <2>1, <2>2 DEF TooSmall, getPeerMaxMessageSize
  <2> QED
    BY <2>11, <2>12, <2>13, <2>14 DEF Inv
<1>2. CASE UNCHANGED vars
  BY <1>2
  DEF vars, Inv, TypeOK, ChunksFit, Coverage, TooSmall, SliceLength,
      getPeerMaxMessageSize, getEffectiveFileChunkSize, PayloadBudget
<1> QED
  BY <1>1, <1>2 DEF Next

LEMMA Invariant == Spec => []Inv
BY InitInv, NextInv, PTL DEF Spec

\* chunkSizing.js, fileChunks.js: sizes, offsets and counts are natural numbers.
THEOREM TypeCorrect == Spec => []TypeOK
<1>1. Inv => TypeOK
  BY DEF Inv
<1> QED
  BY <1>1, Invariant, PTL

\* No file and no negotiated message size makes the sender hand send() an
\* encrypted chunk that is too large, or fail in the middle of a file.
THEOREM ChunksAlwaysFit == Spec => []ChunksFit
<1>1. Inv => ChunksFit
  BY DEF Inv
<1> QED
  BY <1>1, Invariant, PTL

\* When file-end is sent, the chunks are exactly the file, in the least number
\* of chunks the chunk size allows.
THEOREM FileCovered == Spec => []Coverage
<1>1. Inv => Coverage
  BY DEF Inv
<1> QED
  BY <1>1, Invariant, PTL
=============================================================================
