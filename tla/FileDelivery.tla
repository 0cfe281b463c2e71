---------------------------- MODULE FileDelivery ----------------------------
(***************************************************************************)
(* What the file transfer promises, without its protocol: a place on the   *)
(* receiver's disk is filled with the chunks of ONE file the other browser *)
(* offered, in order, without a hole or a repetition.  The place is kept   *)
(* only when the whole file is there, and then it is kept for good; until  *)
(* then it may be dropped.  FileTransfer implements this specification.    *)
(***************************************************************************)
EXTENDS Naturals, Sequences

CONSTANTS Peer, Tid, NoPeer, FileLen

VARIABLES
  offeredBy,  \* offeredBy[t]: who offered the file t
  data,       \* data[h]: the chunks in the place opened for the prompt h
  kept        \* the places that hold a finished file

vars == <<offeredBy, data, kept>>

\* Every file has at least one chunk, that of a 0-byte file is empty.
Chunks(t) == IF FileLen[t] = 0 THEN 1 ELSE FileLen[t]

FirstChunks(t, n) == [i \in 1..n |-> <<t, i>>]

Init ==
  /\ offeredBy = [t \in Tid |-> NoPeer]
  /\ data = [h \in Tid |-> <<>>]
  /\ kept = {}

Offer(p, t) ==
  /\ offeredBy[t] = NoPeer
  /\ offeredBy' = [offeredBy EXCEPT ![t] = p]
  /\ UNCHANGED <<data, kept>>

\* The next chunk of a file t of the browser that made the offer h.  A file
\* is never received into two places.
Receive(h, t) ==
  LET n == Len(data[h]) IN
  /\ h \notin kept
  /\ offeredBy[t] # NoPeer
  /\ offeredBy[t] = offeredBy[h]
  /\ n < Chunks(t)
  /\ data[h] = FirstChunks(t, n)
  /\ \A g \in Tid \ {h} : data[g] # <<>> => data[g][1][1] # t
  /\ data' = [data EXCEPT ![h] = FirstChunks(t, n + 1)]
  /\ UNCHANGED <<offeredBy, kept>>

Keep(h) ==
  /\ h \notin kept
  /\ \E t \in Tid : data[h] = FirstChunks(t, Chunks(t))
  /\ kept' = kept \cup {h}
  /\ UNCHANGED <<offeredBy, data>>

Drop(h) ==
  /\ h \notin kept
  /\ data' = [data EXCEPT ![h] = <<>>]
  /\ UNCHANGED <<offeredBy, kept>>

Next ==
  \/ \E p \in Peer, t \in Tid : Offer(p, t)
  \/ \E h, t \in Tid : Receive(h, t)
  \/ \E h \in Tid : Keep(h) \/ Drop(h)

Spec == Init /\ [][Next]_vars
=============================================================================
