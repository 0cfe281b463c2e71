----------------------------- MODULE ChunkSizing -----------------------------
(***************************************************************************)
(* How client/js/transfer cuts a file into messages: the chunk size that   *)
(* chunkSizing.js derives from the message size the two WebRTC stacks      *)
(* negotiated, and the offsets of the chunk loop of fileChunks.js.  When   *)
(* the loop may run is the matter of FileTransfer; here the sizes count.   *)
(***************************************************************************)
EXTENDS Integers

CONSTANTS
  FileSizes,    \* sizes of files, in bytes
  MessageSizes  \* values of sctp.maxMessageSize, 0 when it is missing, is
                \* infinite or is not positive

ASSUME SizesAssumption == FileSizes \subseteq Nat /\ MessageSizes \subseteq Nat

MOBILE_FALLBACK_MAX_MESSAGE_SIZE == 16 * 1024
ENCRYPTED_PAYLOAD_OVERHEAD == 16
TRANSPORT_SAFETY_MARGIN == 1024
MIN_USABLE_MESSAGE_SIZE == 2048
CHUNK_SIZE == 256 * 1024

Least(x, y) == IF x <= y THEN x ELSE y

getPeerMaxMessageSize(value) ==
  IF value > 0 THEN value ELSE MOBILE_FALLBACK_MAX_MESSAGE_SIZE

\* Mutant of TooSmall: only a size of zero is refused.
NotPositive(value) == getPeerMaxMessageSize(value) < 1

\* getEffectiveFileChunkSize throws for such a size.
TooSmall(value) == getPeerMaxMessageSize(value) < MIN_USABLE_MESSAGE_SIZE

\* Mutants of PayloadBudget: the authentication tag is forgotten; nothing is
\* reserved at all.
MarginOnly(value) == getPeerMaxMessageSize(value) - TRANSPORT_SAFETY_MARGIN
NothingReserved(value) == getPeerMaxMessageSize(value)

PayloadBudget(value) ==
  getPeerMaxMessageSize(value) - ENCRYPTED_PAYLOAD_OVERHEAD
    - TRANSPORT_SAFETY_MARGIN

getEffectiveFileChunkSize(value) == Least(CHUNK_SIZE, PayloadBudget(value))

\* assertDataChannelMessageFits does not throw.
Fits(bytes, value) == bytes <= getPeerMaxMessageSize(value)

-----------------------------------------------------------------------------
VARIABLES
  fileSize,    \* file.size
  negotiated,  \* peer.connection.sctp.maxMessageSize
  state,       \* the chunk loop: "sending", then "ended" or "failed"
  offset,      \* bytes of the file sent so far
  chunkIndex,  \* index of the next chunk
  payload      \* size of the last encrypted chunk handed to send()

vars == <<fileSize, negotiated, state, offset, chunkIndex, payload>>

TypeOK ==
  /\ fileSize \in FileSizes
  /\ negotiated \in MessageSizes
  /\ state \in {"sending", "ended", "failed"}
  /\ offset \in Nat
  /\ chunkIndex \in Nat
  /\ payload \in Nat

Init ==
  /\ fileSize \in FileSizes
  /\ negotiated \in MessageSizes
  /\ state = IF TooSmall(negotiated) THEN "failed" ELSE "sending"
  /\ offset = 0
  /\ chunkIndex = 0
  /\ payload = 0

\* The length of file.slice(offset, offset + chunkSize)
SliceLength ==
  Least(getEffectiveFileChunkSize(negotiated), fileSize - offset)

\* Mutant of Finished: the loop goes on at the end of the file.
PastTheEnd(sentBytes) == sentBytes > fileSize

Finished(sentBytes) == sentBytes >= fileSize

\* One chunk; a 0-byte file has one empty chunk.
SendSlice ==
  LET bytes == SliceLength + ENCRYPTED_PAYLOAD_OVERHEAD IN
  /\ state = "sending"
  /\ IF Fits(bytes, negotiated)
     THEN /\ payload' = bytes
          /\ offset' = offset + SliceLength
          /\ chunkIndex' = chunkIndex + 1
          /\ state' = IF Finished(offset + SliceLength) THEN "ended"
                                                        ELSE "sending"
     ELSE state' = "failed" /\ UNCHANGED <<offset, chunkIndex, payload>>
  /\ UNCHANGED <<fileSize, negotiated>>

Next == SendSlice

Spec == Init /\ [][Next]_vars /\ WF_vars(Next)

-----------------------------------------------------------------------------
\* A file transfer fails for its sizes only at the start, when the negotiated
\* message size is unusable: no encrypted chunk is refused in the middle of a
\* file, and the margin for framing is left free (fileChunks.js:131-134).
ChunksFit ==
  /\ state = "failed" => TooSmall(negotiated) /\ offset = 0
  /\ payload > 0 =>
       payload + TRANSPORT_SAFETY_MARGIN <= getPeerMaxMessageSize(negotiated)

\* The file is sent whole, in as few chunks as the chunk size allows and in
\* at least one: file-end is neither early nor does an empty chunk precede it.
Coverage ==
  LET size == getEffectiveFileChunkSize(negotiated) IN
  state # "failed" =>
    /\ offset = Least(chunkIndex * size, fileSize)
    /\ state = "sending" => offset < fileSize \/ chunkIndex = 0
    /\ state = "ended" =>
         /\ offset = fileSize
         /\ chunkIndex > 0
         /\ chunkIndex = 1 \/ (chunkIndex - 1) * size < fileSize

\* The chunk loop ends for every usable message size, however small.
LoopEnds == state = "sending" ~> state = "ended"
=============================================================================
