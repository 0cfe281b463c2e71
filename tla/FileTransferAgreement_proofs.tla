-------------------- MODULE FileTransferAgreement_proofs --------------------
(***************************************************************************)
(* Nobody waits for ever in a file transfer.  Three inductive invariants,  *)
(* each on top of the ones before it:                                      *)
(*                                                                         *)
(*   StreamsHeld   who holds which open file: none is left behind;         *)
(*   Agreement     while the channel is open, where an offer, a prompt or  *)
(*                 a stop message of a transfer is: the two ends agree     *)
(*                 once everything is handled;                             *)
(*   SendersWoken  what a sender that waits for its wake-up may count on:  *)
(*                 its own closure, or a message that cancels it.          *)
(*                                                                         *)
(* They hold as long as no FileReader fails, the last one if both browsers *)
(* have a key from the start.                                              *)
(***************************************************************************)
EXTENDS FileTransferDelivery_proofs

-----------------------------------------------------------------------------
(* Who holds an open file *)

\* Outside the chain a reset meets an open file only on a closed channel, and
\* a closed channel leaves no open file but to a pending reset; a browser that
\* sends has no open file.
StreamState(p) ==
  /\ aborting[p] # {} => ~IsOpen(p)
  /\ ~IsOpen(p) /\ xfer[p].stream # NoTid => xfer[p].stream \in aborting[p]
  /\ xfer[p].direction = "send" =>
       /\ xfer[p].stream = NoTid /\ xfer[p].state # "prompting"
       /\ xfer[p].tid # NoTid

\* p's transfer, a pending reset or the handler at work has the file h.
Held(p, h) ==
  \/ xfer[p].stream = h
  \/ h \in aborting[p]
  \/ chain[p].pc \in {"reset", "close"} /\ chain[p].handle = h

StreamsHeld ==
  /\ \A p \in Peer : StreamState(p)
  /\ \A h \in Tid : disk[h].status = "open" => \E p \in Peer : Held(p, h)

\* A step of p keeps what the other browser holds.
LEMMA StreamsKept ==
  ASSUME StreamsHeld, NEW p \in Peer, NEW q, q = Other(p),
         xfer'[q] = xfer[q], chain'[q] = chain[q],
         aborting'[q] = aborting[q], dc'[q] = dc[q],
         StreamState(p)',
         \A h \in Tid : disk'[h].status = "open" =>
           Held(p, h)' \/ (disk[h].status = "open" /\ ~Held(p, h))
  PROVE  StreamsHeld'
<1>1. q \in Peer /\ \A r \in Peer : r = p \/ r = q
  BY OtherOther
<1>2. StreamState(q)' /\ \A h : Held(q, h) => Held(q, h)'
  BY <1>1 DEF StreamsHeld, StreamState, IsOpen, Held
<1>3. ASSUME NEW h \in Tid, disk'[h].status = "open"
      PROVE  \E r \in Peer : Held(r, h)'
  <2>1. CASE Held(p, h)'
    BY <2>1
  <2>2. CASE disk[h].status = "open" /\ ~Held(p, h)
    BY <1>1, <1>2, <2>2 DEF StreamsHeld
  <2> QED
    BY <1>3, <2>1, <2>2
<1>4. \A r \in Peer : StreamState(r)'
  BY <1>1, <1>2
<1> QED
  BY <1>3, <1>4 DEF StreamsHeld, Held

LEMMA StreamsStay ==
  ASSUME StreamsHeld, UNCHANGED <<xfer, chain, aborting, disk, dc>>
  PROVE  StreamsHeld'
BY DEF StreamsHeld, StreamState, IsOpen, Held

\* p's transfer keeps its file, and no handler lets one go.
LEMMA StreamSame ==
  ASSUME StreamsHeld, NEW p \in Peer, NEW q, q = Other(p),
         xfer'[q] = xfer[q], chain'[q] = chain[q],
         xfer'[p].stream = xfer[p].stream,
         xfer'[p].direction = "send" =>
           /\ xfer'[p].stream = NoTid /\ xfer'[p].state # "prompting"
           /\ xfer'[p].tid # NoTid,
         chain'[p] = chain[p] \/ chain[p].pc \notin {"reset", "close"},
         UNCHANGED <<aborting, disk, dc>>
  PROVE  StreamsHeld'
<1>1. StreamState(p)'
  BY DEF StreamsHeld, StreamState, IsOpen
<1>2. \A h : Held(p, h) => Held(p, h)'
  BY DEF Held
<1> QED
  BY <1>1, <1>2, StreamsKept

LEMMA TransferObject ==
  ASSUME ChunksHaveOnePlace, NEW p \in Peer
  PROVE  /\ xfer[p].stream # NoTid => xfer[p].state = "transferring"
         /\ picker[p] # NoTid =>
              xfer[p].state = "prompting" \/ (xfer[p].state = "idle" /\ xfer[p].tid = NoTid)
         /\ chain[p].pc # "free" =>
              xfer[p].stream = chain[p].handle \/ xfer[p].stream = NoTid
BY DEF ChunksHaveOnePlace, ObjectStates, TransferState, DialogState,
       HandlerState, Vacant

\* A reset outside the chain: an open file is only met on a closed channel.
LEMMA ResetTransferHolds ==
  ASSUME TypeOK, StreamsHeld, NEW p \in Peer, NEW lp, ResetTransfer(p, lp),
         xfer[p].stream # NoTid => dc'[p] = "closed",
         dc'[p] \in {dc[p], "closed"}, dc'[Other(p)] = dc[Other(p)],
         UNCHANGED disk
  PROVE  StreamsHeld'
<1> SUFFICES ASSUME NEW q, q = Other(p) PROVE StreamsHeld'
  OBVIOUS
<1>1. q \in Peer /\ q # p /\ StreamState(p)
  BY OtherOther DEF StreamsHeld
<1>2. CASE xfer[p].stream = NoTid
  <2>1. /\ xfer' = [xfer EXCEPT ![p] = InitialTransferState]
        /\ chain' = Staled(p) /\ UNCHANGED aborting
    BY <1>2 DEF ResetTransfer, Replaced
  <2>2. xfer'[q] = xfer[q] /\ xfer'[p].stream = NoTid /\ xfer'[p].direction = "none"
    BY <1>1, <2>1 DEF TypeOK, InitialTransferState
  <2>3. /\ chain'[q] = chain[q] /\ chain'[p].pc = chain[p].pc
        /\ chain'[p].handle = chain[p].handle
    BY <2>1, StaledRests
  <2>4. StreamState(p)'
    BY <1>1, <2>1, <2>2 DEF StreamState, IsOpen
  <2>5. \A h \in Tid : Held(p, h) => Held(p, h)'
    BY <1>2, <2>1, <2>3, TidAssumption DEF Held
  <2> QED
    BY <2>1, <2>2, <2>3, <2>4, <2>5, StreamsKept
<1>3. CASE xfer[p].stream # NoTid
  <2>1. /\ aborting' = [aborting EXCEPT ![p] = @ \cup {xfer[p].stream}]
        /\ UNCHANGED <<xfer, chain>>
    BY <1>3 DEF ResetTransfer
  <2>2. aborting'[p] = aborting[p] \cup {xfer[p].stream} /\ aborting'[q] = aborting[q]
    BY <1>1, <2>1 DEF TypeOK
  <2>3. StreamState(p)'
    BY <1>1, <1>3, <2>1, <2>2 DEF StreamState, IsOpen
  <2>4. \A h \in Tid : Held(p, h) => Held(p, h)'
    BY <2>1, <2>2 DEF Held
  <2> QED
    BY <2>1, <2>2, <2>3, <2>4, StreamsKept
<1> QED
  BY <1>2, <1>3

LEMMA ResetInChainHolds ==
  ASSUME TypeOK, StreamsHeld, NEW p \in Peer, ResetInChain(p),
         chain[p].pc \notin {"reset", "close"}, UNCHANGED <<aborting, disk, dc>>
  PROVE  StreamsHeld'
<1> SUFFICES ASSUME NEW q, q = Other(p) PROVE StreamsHeld'
  OBVIOUS
<1>1. q \in Peer /\ q # p /\ StreamState(p)
  BY OtherOther DEF StreamsHeld
<1>2. chain'[q] = chain[q] /\ xfer'[q] = xfer[q]
  BY <1>1 DEF ResetInChain, Replaced, TypeOK
<1>3. CASE xfer[p].stream = NoTid
  <2>1. xfer' = [xfer EXCEPT ![p] = InitialTransferState]
    BY <1>3 DEF ResetInChain, Replaced
  <2>2. xfer'[p].stream = NoTid /\ xfer'[p].direction = "none"
    BY <1>1, <2>1 DEF TypeOK, InitialTransferState
  <2> QED
    BY <1>2, <1>3, <2>2, StreamSame
<1>4. CASE xfer[p].stream # NoTid
  <2>1. UNCHANGED xfer
    BY <1>4 DEF ResetInChain
  <2> QED
    BY <1>1, <1>2, <2>1, StreamSame DEF StreamState
<1> QED
  BY <1>3, <1>4

-----------------------------------------------------------------------------
(* The steps of the users *)

LEMMA OfferHolds ==
  ASSUME Inv, ChunksHaveOnePlace, StreamsHeld, NEW p \in Peer, NEW t \in Tid,
         Offer(p, t)
  PROVE  StreamsHeld'
<1> DEFINE x == [xfer[p] EXCEPT !.state = "offering", !.direction = "send",
                                !.tid = t]
<1>1. xfer[p].state = "idle" /\ UNCHANGED <<chain, aborting, disk, dc>>
  BY DEF Offer
<1>2. xfer' = [xfer EXCEPT ![p] = x]
  BY DEF Offer, Inv, TypeOK
<1>3. x.state = "offering" /\ x.tid = t /\ x.stream = xfer[p].stream
  BY XferType DEF Transfer, Inv
<1> HIDE DEF x
<1>4. xfer'[p] = x /\ xfer'[Other(p)] = xfer[Other(p)]
  BY <1>2, OtherOther DEF Inv, TypeOK
<1>5. xfer[p].stream = NoTid
  BY <1>1, TransferObject
<1>6. t # NoTid
  BY TidAssumption
<1> QED
  BY <1>1, <1>3, <1>4, <1>5, <1>6, StreamSame

LEMMA AcceptHolds ==
  ASSUME Inv, ChunksHaveOnePlace, StreamsHeld, NEW p \in Peer, Accept(p)
  PROVE  StreamsHeld'
<1>1. xfer[p].stream = NoTid
  BY TransferObject DEF Accept, Prompting
<1> QED
  BY <1>1, StreamsStay, ResetTransferHolds DEF Accept, Inv

LEMMA UserCancelsHolds ==
  ASSUME Inv, ChunksHaveOnePlace, StreamsHeld, NEW p \in Peer,
         PickerAbort(p) \/ Reject(p) \/ Cancel(p)
  PROVE  StreamsHeld'
<1>1. ResetTransfer(p, loop) /\ UNCHANGED <<disk, dc>>
  BY DEF PickerAbort, Reject, Cancel
<1>2. xfer[p].stream = NoTid
  <2>1. Cancel(p) => xfer[p].direction = "send"
    BY DEF Cancel
  <2>2. PickerAbort(p) => picker[p] # NoTid
    BY DEF PickerAbort
  <2>3. Reject(p) => xfer[p].state = "prompting"
    BY DEF Reject, Prompting
  <2> QED
    BY <2>1, <2>2, <2>3, TransferObject DEF StreamsHeld, StreamState
<1> QED
  BY <1>1, <1>2, ResetTransferHolds DEF Inv

LEMMA PickerSaveHolds ==
  ASSUME Inv, ChunksHaveOnePlace, StreamsHeld, NEW p \in Peer, PickerSave(p)
  PROVE  StreamsHeld'
<1> SUFFICES ASSUME NEW h, h = picker[p], NEW q, q = Other(p)
             PROVE  StreamsHeld'
  OBVIOUS
<1> DEFINE x == [xfer[p] EXCEPT !.stream = h, !.state = "transferring"]
<1>1. /\ h # NoTid
      /\ disk' = [disk EXCEPT ![h].status = "open"]
      /\ aborting' = IF IsOpen(p) THEN aborting
                     ELSE [aborting EXCEPT ![p] = @ \cup {h}]
      /\ UNCHANGED <<chain, dc>>
  BY DEF PickerSave
<1>2. q \in Peer /\ q # p /\ StreamState(p) /\ TypeOK
  BY OtherOther DEF StreamsHeld, Inv
<1>3. xfer' = [xfer EXCEPT ![p] = x]
  BY <1>2 DEF PickerSave, TypeOK
<1>4. /\ x.state = "transferring" /\ x.tid = xfer[p].tid /\ x.stream = h
      /\ x.direction = xfer[p].direction
  BY <1>2, XferType DEF Transfer
<1> HIDE DEF x
<1>5. xfer'[p] = x /\ xfer'[q] = xfer[q]
  BY <1>2, <1>3 DEF TypeOK
<1>6. xfer[p].direction # "send"
  BY <1>1, <1>2, TransferObject DEF StreamState
<1>7. xfer[p].stream = NoTid
  BY <1>1, TransferObject
<1>8. /\ aborting'[q] = aborting[q]
      /\ aborting'[p] = IF IsOpen(p) THEN aborting[p] ELSE aborting[p] \cup {h}
  BY <1>1, <1>2 DEF TypeOK
<1>9. StreamState(p)'
  BY <1>1, <1>2, <1>4, <1>5, <1>6, <1>8 DEF StreamState, IsOpen
<1>10. ASSUME NEW g \in Tid, disk'[g].status = "open"
       PROVE  Held(p, g)' \/ (disk[g].status = "open" /\ ~Held(p, g))
  <2>1. CASE g = h
    BY <1>4, <1>5, <2>1 DEF Held
  <2>2. CASE g # h
    <3>1. disk'[g] = disk[g]
      BY <1>1, <1>2, <2>2 DEF TypeOK
    <3>2. Held(p, g) => Held(p, g)'
      BY <1>1, <1>7, <1>8, TidAssumption DEF Held
    <3> QED
      BY <1>10, <3>1, <3>2
  <2> QED
    BY <2>1, <2>2
<1> QED
  BY <1>1, <1>5, <1>8, <1>9, <1>10, StreamsKept

-----------------------------------------------------------------------------
(* The steps of the message chain *)

LEMMA HandleFileMetaHolds ==
  ASSUME Inv, ChunksHaveOnePlace, StreamsHeld, NEW p \in Peer, HandleFileMeta(p)
  PROVE  StreamsHeld'
<1> SUFFICES ASSUME NEW t, t = Head(chan[p]).tid PROVE StreamsHeld'
  OBVIOUS
<1>1. UNCHANGED <<chain, aborting, disk, dc>>
  BY DEF HandleFileMeta, Dispatch
<1>2. CASE xfer[p].state # "idle"
  BY <1>1, <1>2, StreamsStay DEF HandleFileMeta
<1>3. CASE xfer[p].state = "idle"
  <2> DEFINE x == [xfer[p] EXCEPT !.state = "prompting", !.direction = "receive",
                                  !.tid = t, !.expected = 0]
  <2>1. xfer' = [xfer EXCEPT ![p] = x]
    BY <1>3 DEF HandleFileMeta, Inv, TypeOK
  <2>2. x.direction = "receive" /\ x.stream = xfer[p].stream
    BY XferType DEF Transfer, Inv
  <2> HIDE DEF x
  <2>3. xfer'[p] = x /\ xfer'[Other(p)] = xfer[Other(p)]
    BY <2>1, OtherOther DEF Inv, TypeOK
  <2> QED
    BY <1>1, <2>2, <2>3, StreamSame
<1> QED
  BY <1>2, <1>3

\* The transfer of p changes its state or header only.
LEMMA SameStreamHolds ==
  ASSUME StreamsHeld, NEW p \in Peer, NEW x,
         xfer' = xfer \/ xfer' = [xfer EXCEPT ![p] = x], TypeOK,
         x.stream = xfer[p].stream, x.direction = xfer[p].direction,
         x.tid = xfer[p].tid, x.state # "prompting" \/ x.state = xfer[p].state,
         chain'[Other(p)] = chain[Other(p)],
         chain'[p] = chain[p] \/ chain[p].pc \notin {"reset", "close"},
         UNCHANGED <<aborting, disk, dc>>
  PROVE  StreamsHeld'
<1>1. xfer'[Other(p)] = xfer[Other(p)] /\ xfer'[p] \in {xfer[p], x}
  BY OtherOther DEF TypeOK
<1>2. StreamState(p)
  BY DEF StreamsHeld
<1> QED
  BY <1>1, <1>2, StreamSame DEF StreamState

LEMMA HandleReadyHolds ==
  ASSUME Inv, ChunksHaveOnePlace, StreamsHeld, NEW p \in Peer, HandleReady(p)
  PROVE  StreamsHeld'
<1> DEFINE x == [xfer[p] EXCEPT !.state = "transferring"]
<1>1. UNCHANGED <<disk, dc>>
  BY DEF HandleReady, Dispatch
<1>2. \/ UNCHANGED <<xfer, chain, aborting>>
      \/ xfer' = [xfer EXCEPT ![p] = x] /\ UNCHANGED <<chain, aborting>>
      \/ xfer[p].state = "offering" /\ ResetTransfer(p, loop)
  BY DEF HandleReady, Inv, TypeOK
<1>3. /\ x.stream = xfer[p].stream /\ x.direction = xfer[p].direction
      /\ x.tid = xfer[p].tid /\ x.state = "transferring"
  BY XferType DEF Transfer, Inv
<1> HIDE DEF x
<1>4. xfer[p].state = "offering" => xfer[p].stream = NoTid
  BY TransferObject
<1> QED
  BY <1>1, <1>2, <1>3, <1>4, StreamsStay, SameStreamHolds, ResetTransferHolds
  DEF Inv

LEMMA HandleStopHolds ==
  ASSUME Inv, ChunksHaveOnePlace, StreamsHeld, NEW p \in Peer, NEW type,
         HandleStop(p, type)
  PROVE  StreamsHeld'
<1>1. chain[p].pc = "free" /\ UNCHANGED <<aborting, disk, dc>>
  BY DEF HandleStop, Dispatch
<1>2. ResetInChain(p) \/ UNCHANGED <<xfer, chain>>
  BY DEF HandleStop
<1> QED
  BY <1>1, <1>2, StreamsStay, ResetInChainHolds DEF Inv

LEMMA HandleChunkHeaderHolds ==
  ASSUME Inv, ChunksHaveOnePlace, StreamsHeld, NEW p \in Peer,
         HandleChunkHeader(p)
  PROVE  StreamsHeld'
<1> DEFINE x == [xfer[p] EXCEPT !.expected = Head(chan[p]).idx]
<1>1. UNCHANGED <<chain, aborting, disk, dc>>
  BY DEF HandleChunkHeader, Dispatch
<1>2. xfer' = xfer \/ xfer' = [xfer EXCEPT ![p] = x]
  BY DEF HandleChunkHeader, Inv, TypeOK
<1>3. /\ x.stream = xfer[p].stream /\ x.direction = xfer[p].direction
      /\ x.tid = xfer[p].tid /\ x.state = xfer[p].state
  BY XferType DEF Transfer, Inv
<1> HIDE DEF x
<1> QED
  BY <1>1, <1>2, <1>3, SameStreamHolds DEF Inv

LEMMA HandleBinaryChunkHolds ==
  ASSUME Inv, ChunksHaveOnePlace, StreamsHeld, NEW p \in Peer,
         HandleBinaryChunk(p)
  PROVE  StreamsHeld'
<1> DEFINE c == [pc |-> "decrypt",
                 block |-> <<Head(chan[p]).tid, Head(chan[p]).idx>>,
                 aad |-> <<xfer[p].tid, xfer[p].expected>>,
                 obj |-> "live", handle |-> xfer[p].stream]
<1>1. chain[p].pc = "free" /\ UNCHANGED <<aborting, disk, dc>>
  BY DEF HandleBinaryChunk, Dispatch
<1>2. \/ UNCHANGED <<xfer, chain>>
      \/ ResetInChain(p)
      \/ xfer' = xfer /\ chain' = [chain EXCEPT ![p] = c]
  BY DEF HandleBinaryChunk
<1> HIDE DEF c
<1>3. ASSUME xfer' = xfer, chain' = [chain EXCEPT ![p] = c] PROVE StreamsHeld'
  <2>1. chain'[Other(p)] = chain[Other(p)]
    BY <1>3, OtherOther DEF Inv, TypeOK
  <2> QED
    BY <1>1, <1>3, <2>1, StreamSame DEF StreamsHeld, StreamState
<1> QED
  BY <1>1, <1>2, <1>3, StreamsStay, ResetInChainHolds DEF Inv

LEMMA DecryptDoneHolds ==
  ASSUME Inv, ChunksHaveOnePlace, StreamsHeld, NEW p \in Peer, DecryptDone(p)
  PROVE  StreamsHeld'
<1> DEFINE x == [xfer[p] EXCEPT !.expected = 0]
<1>1. chain[p].pc = "decrypt" /\ UNCHANGED <<aborting, disk, dc>>
  BY DEF DecryptDone
<1>2. \/ ResetInChain(p)
      \/ /\ xfer' = xfer \/ xfer' = [xfer EXCEPT ![p] = x]
         /\ chain' = [chain EXCEPT ![p].pc = "write"]
  BY DEF DecryptDone, GiveUp, Inv, TypeOK
<1>3. /\ x.stream = xfer[p].stream /\ x.direction = xfer[p].direction
      /\ x.tid = xfer[p].tid /\ x.state = xfer[p].state
  BY XferType DEF Transfer, Inv
<1> HIDE DEF x
<1>4. ASSUME xfer' = xfer \/ xfer' = [xfer EXCEPT ![p] = x],
             chain' = [chain EXCEPT ![p].pc = "write"]
      PROVE  StreamsHeld'
  <2>1. chain'[Other(p)] = chain[Other(p)]
    BY <1>4, OtherOther DEF Inv, TypeOK
  <2> QED
    BY <1>1, <1>3, <1>4, <2>1, SameStreamHolds DEF Inv
<1> QED
  BY <1>1, <1>2, <1>4, ResetInChainHolds DEF Inv

LEMMA WriteDoneHolds ==
  ASSUME Inv, ChunksHaveOnePlace, StreamsHeld, NEW p \in Peer, WriteDone(p)
  PROVE  StreamsHeld'
<1> SUFFICES ASSUME NEW h, h = chain[p].handle, NEW q, q = Other(p)
             PROVE  StreamsHeld'
  OBVIOUS
<1> DEFINE f == [disk[h] EXCEPT !.data = Append(@, chain[p].block)]
<1>1. /\ chain[p].pc = "write"
      /\ disk' = [disk EXCEPT ![h] = f]
      /\ chain' = [chain EXCEPT ![p] = FreeChain]
      /\ UNCHANGED <<xfer, aborting, dc>>
  BY DEF WriteDone
<1>2. h \in Tid => f.status = disk[h].status
  BY DEF Inv, TypeOK, File
<1> HIDE DEF f
<1>3. \A g \in Tid : disk'[g].status = disk[g].status
  BY <1>1, <1>2 DEF Inv, TypeOK
<1>4. chain'[q] = chain[q]
  BY <1>1, OtherOther DEF Inv, TypeOK
<1>5. StreamState(p)'
  BY <1>1 DEF StreamsHeld, StreamState, IsOpen
<1>6. \A g : Held(p, g) => Held(p, g)'
  BY <1>1 DEF Held
<1> QED
  BY <1>1, <1>3, <1>4, <1>5, <1>6, StreamsKept

LEMMA WriteErrorHolds ==
  ASSUME Inv, ChunksHaveOnePlace, StreamsHeld, NEW p \in Peer, WriteError(p)
  PROVE  StreamsHeld'
BY ResetInChainHolds DEF WriteError, GiveUp, Inv

\* p's file is closed, or given up unclosed.
LEMMA FileEndedHolds ==
  ASSUME Inv, ChunksHaveOnePlace, StreamsHeld, NEW p \in Peer,
         NEW q, q = Other(p), xfer' = FileEnded(p), chain'[q] = chain[q],
         chain'[p] = chain[p] \/ disk'[chain[p].handle].status # "open",
         UNCHANGED <<aborting, dc>>,
         \A g \in Tid : disk'[g].status = "open" => disk[g].status = "open",
         xfer[p].stream # NoTid /\ xfer[p].stream \notin aborting[p] =>
           disk'[xfer[p].stream].status # "open"
  PROVE  StreamsHeld'
<1>1. /\ xfer'[p].state = "idle" /\ xfer'[p].stream = NoTid
      /\ xfer'[p].tid = xfer[p].tid /\ xfer'[p].direction = xfer[p].direction
      /\ xfer'[q] = xfer[q]
  BY FileEndedIs DEF Inv
<1>2. StreamState(p)'
  BY <1>1 DEF StreamsHeld, StreamState, IsOpen
<1>3. \A g \in Tid : disk'[g].status = "open" /\ Held(p, g) => Held(p, g)'
  BY TidAssumption DEF Held
<1> QED
  BY <1>1, <1>2, <1>3, StreamsKept

LEMMA HandleFileEndHolds ==
  ASSUME Inv, ChunksHaveOnePlace, StreamsHeld, NEW p \in Peer, HandleFileEnd(p)
  PROVE  StreamsHeld'
<1> DEFINE x == [xfer[p] EXCEPT !.state = "idle"]
<1>1. /\ chain[p].pc = "free" /\ UNCHANGED <<aborting, disk, dc>>
  BY DEF HandleFileEnd, Dispatch
<1>2. x.stream = xfer[p].stream /\ x.direction = xfer[p].direction
      /\ x.tid = xfer[p].tid /\ x.state = "idle"
  BY XferType DEF Transfer, Inv
<1>3. \/ UNCHANGED <<xfer, chain>>
      \/ xfer' = [xfer EXCEPT ![p] = x] /\ UNCHANGED chain
      \/ /\ xfer' = xfer
         /\ chain' = [chain EXCEPT ![p] = [FreeChain EXCEPT !.pc = "close",
                                             !.handle = xfer[p].stream]]
      \/ /\ ~Usable(p, xfer[p].stream)
         /\ xfer' = FileEnded(p) /\ UNCHANGED chain
  BY DEF HandleFileEnd, Inv, TypeOK
<1> HIDE DEF x
<1>4. ASSUME xfer' = xfer,
             chain' = [chain EXCEPT ![p] = [FreeChain EXCEPT !.pc = "close",
                                              !.handle = xfer[p].stream]]
      PROVE  StreamsHeld'
  <2>1. chain'[Other(p)] = chain[Other(p)]
    BY <1>4, OtherOther DEF Inv, TypeOK
  <2> QED
    BY <1>1, <1>4, <2>1, StreamSame DEF StreamsHeld, StreamState
<1>5. ASSUME ~Usable(p, xfer[p].stream), xfer' = FileEnded(p), UNCHANGED chain
      PROVE  StreamsHeld'
  BY <1>1, <1>5, FileEndedHolds DEF Usable
<1> QED
  BY <1>1, <1>2, <1>3, <1>4, <1>5, StreamsStay, SameStreamHolds DEF Inv

LEMMA CloseDoneHolds ==
  ASSUME Inv, ChunksHaveOnePlace, StreamsHeld, NEW p \in Peer,
         NEW status \in {"saved", "broken"}, CloseDone(p, status)
  PROVE  StreamsHeld'
<1> SUFFICES ASSUME NEW h, h = chain[p].handle PROVE StreamsHeld'
  OBVIOUS
<1> DEFINE f == [disk[h] EXCEPT !.status = status,
                                !.data = IF status = "saved" THEN @ ELSE <<>>]
<1>1. /\ chain[p].pc = "close" /\ xfer' = FileEnded(p)
      /\ chain' = [chain EXCEPT ![p] = FreeChain]
      /\ UNCHANGED <<aborting, dc>>
  BY DEF CloseDone
<1>2. h \in Tid /\ disk[h] \in File
  BY <1>1 DEF Inv, TypeOK, FilesHaveOnePlace, ClosingIsOpen, OwnFiles, Opened
<1>3. disk' = [disk EXCEPT ![h] = f]
  BY <1>2 DEF CloseDone, File
<1>4. f.status = status
  BY <1>2 DEF File
<1> HIDE DEF f
<1>5. disk'[h].status # "open" /\ \A g \in Tid : g # h => disk'[g] = disk[g]
  BY <1>2, <1>3, <1>4 DEF Inv, TypeOK
<1>6. xfer[p].stream \in {h, NoTid}
  BY <1>1, TransferObject
<1>7. chain'[Other(p)] = chain[Other(p)]
  BY <1>1, OtherOther DEF Inv, TypeOK
<1> QED
  BY <1>1, <1>5, <1>6, <1>7, FileEndedHolds

-----------------------------------------------------------------------------
(* The steps that end a reset *)

LEMMA ReplacedIs ==
  ASSUME TypeOK, NEW p \in Peer, NEW lp, NEW old, Replaced(p, lp, old)
  PROVE  /\ xfer'[p].stream = NoTid /\ xfer'[p].direction = "none"
         /\ xfer'[Other(p)] = xfer[Other(p)]
BY OtherOther DEF Replaced, TypeOK, InitialTransferState

LEMMA FinishChainResetHolds ==
  ASSUME Inv, ChunksHaveOnePlace, StreamsHeld, NEW p \in Peer,
         FinishChainReset(p)
  PROVE  StreamsHeld'
<1> SUFFICES ASSUME NEW h, h = chain[p].handle, NEW q, q = Other(p)
             PROVE  StreamsHeld'
  OBVIOUS
<1>1. /\ chain[p].pc = "reset" /\ disk' = Discarded(h)
      /\ chain' = [chain EXCEPT ![p] = FreeChain]
      /\ UNCHANGED <<aborting, dc>>
  BY DEF FinishChainReset
<1>2. Opened(p, h) /\ h \in Tid
  BY <1>1 DEF ChunksHaveOnePlace, ObjectStates, HandlerState, Inv,
              FilesHaveOnePlace, OwnFiles, Opened
<1>3. disk'[h].status # "open" /\ \A g \in Tid : g # h => disk'[g] = disk[g]
  BY <1>1, <1>2, DiscardedData DEF Inv
<1>4. /\ xfer'[p].stream = NoTid /\ xfer'[p].direction = "none"
      /\ xfer'[q] = xfer[q]
  BY ReplacedIs DEF FinishChainReset, Inv
<1>5. xfer[p].stream \in {h, NoTid}
  BY <1>1, TransferObject
<1>6. chain'[q] = chain[q]
  BY <1>1, OtherOther DEF Inv, TypeOK
<1>7. StreamState(p)'
  BY <1>1, <1>4 DEF StreamsHeld, StreamState, IsOpen
<1>8. \A g \in Tid : g # h /\ Held(p, g) => Held(p, g)'
  BY <1>1, <1>5, TidAssumption DEF Held
<1> QED
  BY <1>1, <1>3, <1>4, <1>6, <1>7, <1>8, StreamsKept

LEMMA FinishAbortHolds ==
  ASSUME Inv, ChunksHaveOnePlace, StreamsHeld, NEW p \in Peer, NEW h \in Tid,
         FinishAbort(p, h)
  PROVE  StreamsHeld'
<1> SUFFICES ASSUME NEW q, q = Other(p) PROVE StreamsHeld'
  OBVIOUS
<1>1. /\ h \in aborting[p] /\ disk' = Discarded(h)
      /\ aborting' = [aborting EXCEPT ![p] = @ \ {h}]
      /\ chain' = Staled(p)
      /\ UNCHANGED dc
  BY DEF FinishAbort
<1>2. Opened(p, h) /\ q \in Peer /\ q # p
  BY <1>1, OtherOther DEF Inv, FilesHaveOnePlace, OwnFiles
<1>3. disk'[h].status # "open" /\ \A g \in Tid : g # h => disk'[g] = disk[g]
  BY <1>1, <1>2, DiscardedData DEF Inv
<1>4. /\ xfer'[p].stream = NoTid /\ xfer'[p].direction = "none"
      /\ xfer'[q] = xfer[q]
  BY ReplacedIs DEF FinishAbort, Inv
<1>5. /\ aborting'[p] = aborting[p] \ {h} /\ aborting'[q] = aborting[q]
  BY <1>1, <1>2 DEF Inv, TypeOK
<1>6. /\ chain'[q] = chain[q] /\ chain'[p].pc = chain[p].pc
      /\ chain'[p].handle = chain[p].handle
  BY <1>1, StaledRests DEF Inv
<1>7. StreamState(p)
  BY DEF StreamsHeld
<1>8. StreamState(p)'
  BY <1>1, <1>4, <1>5, <1>7 DEF StreamState, IsOpen
<1>9. xfer[p].stream # NoTid => xfer[p].stream \in aborting[p]
  BY <1>1, <1>7 DEF StreamState
<1>10. \A g \in Tid : g # h /\ Held(p, g) => Held(p, g)'
  BY <1>5, <1>6, <1>9, TidAssumption DEF Held
<1> QED
  BY <1>1, <1>3, <1>4, <1>5, <1>6, <1>8, <1>10, StreamsKept

-----------------------------------------------------------------------------
(* The steps of the channel and of the chunk loops *)

LEMMA CloseChannelHolds ==
  ASSUME Inv, ChunksHaveOnePlace, StreamsHeld, NEW p \in Peer, CloseChannel(p)
  PROVE  StreamsHeld'
<1>1. /\ dc' = [dc EXCEPT ![p] = "closed"] /\ UNCHANGED disk
      /\ IF xfer[p].state # "idle" THEN ResetTransfer(p, loop)
         ELSE UNCHANGED <<xfer, chain, aborting>>
  BY DEF CloseChannel
<1>2. dc'[p] = "closed" /\ dc'[Other(p)] = dc[Other(p)]
  BY <1>1, OtherOther DEF Inv, TypeOK
<1>3. CASE xfer[p].state # "idle"
  BY <1>1, <1>2, <1>3, ResetTransferHolds DEF Inv
<1>4. CASE xfer[p].state = "idle"
  <2>1. xfer[p].stream = NoTid
    BY <1>4, TransferObject
  <2>2. StreamState(p)'
    BY <1>1, <1>2, <1>4, <2>1 DEF StreamsHeld, StreamState, IsOpen
  <2>3. \A h : Held(p, h) => Held(p, h)'
    BY <1>1, <1>4 DEF Held
  <2> QED
    BY <1>1, <1>2, <1>4, <2>2, <2>3, StreamsKept
<1> QED
  BY <1>3, <1>4

LEMMA SendLoopHolds ==
  ASSUME Inv, ChunksHaveOnePlace, StreamsHeld, NEW t \in Tid,
         "read-error" \notin Env, SendLoop(t)
  PROVE  StreamsHeld'
<1>1. ASSUME ReadDone(t) \/ SendChunk(t) PROVE StreamsHeld'
  BY <1>1, StreamsStay DEF ReadDone, SendChunk
<1>2. ASSUME SendFails(t) PROVE StreamsHeld'
  <2>1. owner[t] \in Peer
    BY <1>2 DEF SendFails, Inv, FilesHaveOnePlace, OwnLoops
  <2>2. dc[owner[t]] = "closed" /\ UNCHANGED <<disk, dc>>
    BY <1>2, <2>1 DEF SendFails, IsOpen, Inv, TypeOK
  <2>3. \/ UNCHANGED <<xfer, chain, aborting>>
        \/ ResetTransfer(owner[t], [loop EXCEPT ![t].pc = "off"])
    BY <1>2 DEF SendFails
  <2> QED
    BY <2>1, <2>2, <2>3, StreamsStay, ResetTransferHolds DEF Inv
<1>3. ASSUME SendLastChunk(t) PROVE StreamsHeld'
  <2> SUFFICES ASSUME NEW p, p = owner[t] PROVE StreamsHeld'
    OBVIOUS
  <2> DEFINE x == [xfer[p] EXCEPT !.state = "idle"]
  <2>1. p \in Peer /\ UNCHANGED <<chain, aborting, disk, dc>>
    BY <1>3 DEF SendLastChunk, Inv, FilesHaveOnePlace, OwnLoops
  <2>2. xfer' = xfer \/ xfer' = [xfer EXCEPT ![p] = x]
    BY <1>3 DEF SendLastChunk, Completed, Inv, TypeOK
  <2>3. /\ x.stream = xfer[p].stream /\ x.direction = xfer[p].direction
        /\ x.tid = xfer[p].tid /\ x.state = "idle"
    BY <2>1, XferType DEF Transfer, Inv
  <2> HIDE DEF x
  <2> QED
    BY <2>1, <2>2, <2>3, SameStreamHolds DEF Inv
<1> QED
  BY <1>1, <1>2, <1>3 DEF SendLoop, ReadError

LEMMA NextHolds ==
  ASSUME Inv, ChunksHaveOnePlace, StreamsHeld, "read-error" \notin Env,
         [Next]_vars
  PROVE  StreamsHeld'
<1>1. ASSUME NEW p \in Peer, User(p) PROVE StreamsHeld'
  BY <1>1, OfferHolds, AcceptHolds, PickerSaveHolds, UserCancelsHolds DEF User
<1>2. ASSUME NEW p \in Peer, MessageChain(p) PROVE StreamsHeld'
  BY <1>2, HandleFileMetaHolds, HandleReadyHolds, HandleStopHolds,
     HandleChunkHeaderHolds, HandleBinaryChunkHolds, DecryptDoneHolds,
     WriteDoneHolds, WriteErrorHolds, HandleFileEndHolds, CloseDoneHolds,
     FinishChainResetHolds
  DEF MessageChain
<1>3. ASSUME NEW p \in Peer, BufferedAmountLow(p) \/ HandshakeDone(p)
      PROVE  StreamsHeld'
  BY <1>3, StreamsStay DEF BufferedAmountLow, HandshakeDone
<1>4. ASSUME UNCHANGED vars PROVE StreamsHeld'
  BY <1>4, StreamsStay DEF vars
<1> QED
  BY <1>1, <1>2, <1>3, <1>4, FinishAbortHolds, CloseChannelHolds, SendLoopHolds
  DEF Next, Aborts

\* Unless a FileReader fails, an open file is not forgotten: the transfer object has
\* it, a pending reset or the handler at work.  When it is closed is not claimed.
THEOREM NoStreamIsOrphan ==
  ASSUME "read-error" \notin Env
  PROVE  Spec => []NoOrphanStream
<1>1. Init => StreamsHeld
  BY DEF Init, InitialTransferState, StreamsHeld, StreamState
<1>2. Inv /\ ChunksHaveOnePlace /\ StreamsHeld /\ [Next]_vars => StreamsHeld'
  BY NextHolds
<1>3. StreamsHeld => NoOrphanStream
  BY DEF StreamsHeld, Held, NoOrphanStream
<1>4. Spec => []Inv
  BY InitInv, NextInv, PTL DEF Spec
<1> QED
  BY <1>1, <1>2, <1>3, <1>4, ChunksCorrect, PTL DEF Spec

-----------------------------------------------------------------------------
(* Sequences of messages *)

\* The transfers that messages of the types T are about.
TidsOf(s, T) == {s[i].tid : i \in {j \in 1..Len(s) : s[j].type \in T}}

StopTypes == {"reject-transfer", "cancel-transfer"}
Stops(s) == TidsOf(s, StopTypes)
Ends(s) == TidsOf(s, {"file-end"})

\* There is a chunk of another transfer than t.
Stray(s, t) == \E v \in TidsOf(s, {"binary"}) : v # t

\* No offer follows a message that stops it.
StopsLast(s) ==
  \A i, j \in 1..Len(s) :
    i < j /\ s[i].type \in StopTypes /\ s[j].type = "file-meta"
      => s[i].tid # s[j].tid

LEMMA SomeMessage == \A type : \E m : m.type = type
<1>1. \A type : Msg(type, NoTid).type = type
  BY DEF Msg
<1> QED
  BY <1>1

LEMMA TidsAre ==
  ASSUME NEW s, NEW T, NEW t
  PROVE  t \in TidsOf(s, T) <=>
           \E i \in 1..Len(s) : s[i].type \in T /\ s[i].tid = t
BY DEF TidsOf

LEMMA TidsMean ==
  ASSUME NEW s
  PROVE  /\ Metas(s) = TidsOf(s, {"file-meta"})
         /\ Readies(s) = TidsOf(s, {"ready"})
BY DEF TidsOf, Metas, Readies

LEMMA TidsTail ==
  ASSUME NEW s \in Seq(Message), s # <<>>, NEW T
  PROVE  /\ TidsOf(Tail(s), T) \subseteq TidsOf(s, T)
         /\ \A t \in TidsOf(s, T) :
              t \in TidsOf(Tail(s), T) \/ (Head(s).type \in T /\ Head(s).tid = t)
         /\ Head(s).type \in T => Head(s).tid \in TidsOf(s, T)
<1> DEFINE u == Tail(s)
<1>1. /\ Len(s) \in Nat /\ Len(s) >= 1 /\ Len(u) = Len(s) - 1
      /\ \A i \in 1..Len(u) : u[i] = s[i + 1]
      /\ Head(s) = s[1]
  OBVIOUS
<1> HIDE DEF u
<1>2. \A i \in 1..Len(u) : i + 1 \in 1..Len(s) /\ u[i] = s[i + 1]
  BY <1>1
<1>3. ASSUME NEW t \in TidsOf(u, T) PROVE t \in TidsOf(s, T)
  <2>1. PICK i \in 1..Len(u) : u[i].type \in T /\ u[i].tid = t
    BY <1>3, TidsAre
  <2> QED
    BY <1>2, <2>1, TidsAre
<1>4. ASSUME NEW t \in TidsOf(s, T)
      PROVE  t \in TidsOf(u, T) \/ (Head(s).type \in T /\ Head(s).tid = t)
  <2>1. PICK i \in 1..Len(s) : s[i].type \in T /\ s[i].tid = t
    BY <1>4, TidsAre
  <2>2. CASE i = 1
    BY <1>1, <2>1, <2>2
  <2>3. CASE i # 1
    <3>1. i - 1 \in 1..Len(u) /\ u[i - 1] = s[i]
      BY <1>1, <2>3
    <3> QED
      BY <2>1, <3>1, TidsAre
  <2> QED
    BY <2>2, <2>3
<1>5. ASSUME Head(s).type \in T PROVE Head(s).tid \in TidsOf(s, T)
  <2>1. 1 \in 1..Len(s)
    BY <1>1
  <2> QED
    BY <1>1, <1>5, <2>1, TidsAre
<1> QED
  BY <1>3, <1>4, <1>5 DEF u

LEMMA StopsLastTail ==
  ASSUME NEW s \in Seq(Message), s # <<>>, StopsLast(s)
  PROVE  /\ StopsLast(Tail(s))
         /\ Head(s).type \in StopTypes => Head(s).tid \notin Metas(Tail(s))
<1> DEFINE u == Tail(s)
<1>1. /\ Len(s) \in Nat /\ Len(s) >= 1 /\ Len(u) = Len(s) - 1
      /\ \A i \in 1..Len(u) : u[i] = s[i + 1]
      /\ Head(s) = s[1]
  OBVIOUS
<1> HIDE DEF u
<1>2. \A i \in 1..Len(u) : i + 1 \in 1..Len(s) /\ 1 < i + 1 /\ u[i] = s[i + 1]
  BY <1>1
<1>3. 1 \in 1..Len(s)
  BY <1>1
<1>4. ASSUME NEW i \in 1..Len(u), NEW j \in 1..Len(u), i < j,
             u[i].type \in StopTypes, u[j].type = "file-meta"
      PROVE  u[i].tid # u[j].tid
  <2>1. i + 1 < j + 1
    BY <1>4
  <2>2. /\ i + 1 \in 1..Len(s) /\ j + 1 \in 1..Len(s)
        /\ u[i] = s[i + 1] /\ u[j] = s[j + 1]
    BY <1>2
  <2>3. s[i + 1].type \in StopTypes /\ s[j + 1].type = "file-meta"
    BY <1>4, <2>2
  <2> QED
    BY <2>1, <2>2, <2>3 DEF StopsLast
<1>5. ASSUME Head(s).type \in StopTypes, Head(s).tid \in Metas(u) PROVE FALSE
  <2>1. PICK i \in 1..Len(u) : u[i].type = "file-meta" /\ u[i].tid = Head(s).tid
    BY <1>5, MetasOf
  <2> QED
    BY <1>1, <1>2, <1>3, <1>5, <2>1 DEF StopsLast
<1> QED
  BY <1>4, <1>5 DEF StopsLast, u

LEMMA TidsAppend ==
  ASSUME NEW s \in Seq(Message), NEW m \in Message, NEW T
  PROVE  TidsOf(s \o <<m>>, T) =
           TidsOf(s, T) \cup (IF m.type \in T THEN {m.tid} ELSE {})
<1> DEFINE u == s \o <<m>>
<1>1. /\ Len(s) \in Nat /\ Len(u) = Len(s) + 1
      /\ \A i \in 1..Len(s) : u[i] = s[i]
      /\ u[Len(s) + 1] = m
  OBVIOUS
<1> HIDE DEF u
<1>2. /\ \A i \in 1..Len(u) : i \in 1..Len(s) \/ i = Len(s) + 1
      /\ \A i \in 1..Len(s) : i \in 1..Len(u)
      /\ Len(s) + 1 \in 1..Len(u)
  BY <1>1
<1>3. ASSUME NEW t \in TidsOf(u, T)
      PROVE  t \in TidsOf(s, T) \/ (m.type \in T /\ t = m.tid)
  <2>1. PICK i \in 1..Len(u) : u[i].type \in T /\ u[i].tid = t
    BY <1>3, TidsAre
  <2>2. CASE i \in 1..Len(s)
    BY <1>1, <2>1, <2>2, TidsAre
  <2>3. CASE i = Len(s) + 1
    BY <1>1, <2>1, <2>3
  <2> QED
    BY <1>2, <2>2, <2>3
<1>4. ASSUME NEW t \in TidsOf(s, T) PROVE t \in TidsOf(u, T)
  <2>1. PICK i \in 1..Len(s) : s[i].type \in T /\ s[i].tid = t
    BY <1>4, TidsAre
  <2> QED
    BY <1>1, <1>2, <2>1, TidsAre
<1>5. m.type \in T => m.tid \in TidsOf(u, T)
  BY <1>1, <1>2, TidsAre
<1> QED
  BY <1>3, <1>4, <1>5 DEF u

LEMMA StopsLastAppend ==
  ASSUME NEW s \in Seq(Message), NEW m \in Message, StopsLast(s),
         m.type = "file-meta" => m.tid \notin Stops(s)
  PROVE  StopsLast(s \o <<m>>)
<1> DEFINE u == s \o <<m>>
<1>1. /\ Len(s) \in Nat /\ Len(u) = Len(s) + 1
      /\ \A i \in 1..Len(s) : u[i] = s[i]
      /\ u[Len(s) + 1] = m
  OBVIOUS
<1> HIDE DEF u
<1> SUFFICES ASSUME NEW i \in 1..Len(u), NEW j \in 1..Len(u), i < j,
                    u[i].type \in StopTypes, u[j].type = "file-meta"
             PROVE  u[i].tid # u[j].tid
  BY DEF StopsLast, u
<1>2. i \in 1..Len(s) /\ u[i] = s[i]
  BY <1>1
<1>3. CASE j \in 1..Len(s)
  BY <1>1, <1>2, <1>3 DEF StopsLast
<1>4. CASE j = Len(s) + 1
  BY <1>1, <1>2, <1>4, TidsAre DEF Stops
<1> QED
  BY <1>1, <1>3, <1>4

LEMMA TidsAdds ==
  ASSUME NEW s \in Seq(Message), NEW u \in Seq(Message), NEW t, NEW k,
         AddsChunk(s, u, t, k)
  PROVE  /\ \A T : /\ TidsOf(s, T) \subseteq TidsOf(u, T)
                   /\ T \cap {"file-chunk", "binary", "file-end"} = {} =>
                        TidsOf(u, T) = TidsOf(s, T)
         /\ Ends(u) \subseteq Ends(s) \cup {t}
         /\ Len(u) # Len(s) + 3 => Ends(u) = Ends(s)
         /\ t \in TidsOf(u, {"binary"})
         /\ StopsLast(s) => StopsLast(u)
<1>1. /\ Len(s) \in Nat /\ Len(u) \in Nat /\ Len(u) >= Len(s) + 2
      /\ \A i \in 1..Len(s) : i \in 1..Len(u) /\ u[i] = s[i]
      /\ Len(s) + 2 \in 1..Len(u) /\ u[Len(s) + 2] = Binary(t, k)
  BY DEF AddsChunk
<1>2. ASSUME NEW i \in 1..Len(u)
      PROVE  \/ i \in 1..Len(s) /\ u[i] = s[i]
             \/ u[i].type \in {"file-chunk", "binary"}
             \/ /\ u[i].type = "file-end" /\ u[i].tid = t /\ Len(u) = Len(s) + 3
  BY AddsChunkAt
<1>3. ASSUME NEW T, NEW v \in TidsOf(s, T) PROVE v \in TidsOf(u, T)
  <2>1. PICK i \in 1..Len(s) : s[i].type \in T /\ s[i].tid = v
    BY <1>3, TidsAre
  <2> QED
    BY <1>1, <2>1, TidsAre
<1>4. ASSUME NEW T, T \cap {"file-chunk", "binary", "file-end"} = {},
             NEW v \in TidsOf(u, T)
      PROVE  v \in TidsOf(s, T)
  <2>1. PICK i \in 1..Len(u) : u[i].type \in T /\ u[i].tid = v
    BY <1>4, TidsAre
  <2>2. i \in 1..Len(s) /\ u[i] = s[i]
    BY <1>2, <1>4, <2>1
  <2> QED
    BY <2>1, <2>2, TidsAre
<1>5. ASSUME NEW v \in Ends(u)
      PROVE  v \in Ends(s) \/ (v = t /\ Len(u) = Len(s) + 3)
  <2>1. PICK i \in 1..Len(u) : u[i].type = "file-end" /\ u[i].tid = v
    BY <1>5, TidsAre DEF Ends
  <2>2. CASE i \in 1..Len(s) /\ u[i] = s[i]
    BY <2>1, <2>2, TidsAre DEF Ends
  <2> QED
    BY <1>2, <2>1, <2>2
<1>6. t \in TidsOf(u, {"binary"})
  BY <1>1, TidsAre DEF Binary
<1>7. ASSUME StopsLast(s) PROVE StopsLast(u)
  <2> SUFFICES ASSUME NEW i \in 1..Len(u), NEW j \in 1..Len(u), i < j,
                      u[i].type \in StopTypes, u[j].type = "file-meta"
               PROVE  u[i].tid # u[j].tid
    BY DEF StopsLast
  <2> QED
    BY <1>2, <1>7 DEF StopsLast, StopTypes
<1>8. ASSUME NEW T
      PROVE  /\ TidsOf(s, T) \subseteq TidsOf(u, T)
             /\ T \cap {"file-chunk", "binary", "file-end"} = {} =>
                  TidsOf(u, T) = TidsOf(s, T)
  <2>1. TidsOf(s, T) \subseteq TidsOf(u, T)
    BY <1>3
  <2>2. ASSUME T \cap {"file-chunk", "binary", "file-end"} = {}
        PROVE  TidsOf(u, T) \subseteq TidsOf(s, T)
    BY <1>4, <2>2
  <2> QED
    BY <2>1, <2>2
<1>9. Ends(s) \subseteq Ends(u)
  BY <1>3 DEF Ends
<1> QED
  BY <1>5, <1>6, <1>7, <1>8, <1>9

-----------------------------------------------------------------------------
(* Which end waits for what *)

AllOpen == \A p \in Peer : IsOpen(p)

Offers(p, t) == xfer[p].state = "offering" /\ xfer[p].tid = t
Prompts(p, t) == xfer[p].state = "prompting" /\ xfer[p].tid = t

\* A handler at work keeps its file, and only a reset in the chain waits.
Steady(p) ==
  /\ chain[p].pc # "free" => xfer[p].stream = chain[p].handle
  /\ p \in cancelled => chain[p].pc = "reset"

\* A transfer that p stopped is over at p, and its offer is no longer under way.
StopsEnd(p, q) ==
  /\ StopsLast(chan[q])
  /\ \A t \in Stops(chan[q]) : t # NoTid =>
       /\ t \in Tid /\ owner[t] # NoPeer
       /\ t \notin Metas(chan[p])
       /\ xfer[p].tid = t => chain[p].pc = "reset"

\* An offer of p is under way, prompted for or answered.
OfferHeard(p, q) ==
  xfer[p].state = "offering" =>
    \/ xfer[p].tid \in Metas(chan[q])
    \/ Prompts(q, xfer[p].tid)
    \/ xfer[p].tid \in Readies(chan[p])
    \/ xfer[p].tid \in Stops(chan[p])

\* A prompt of q is for an offer of p, or p has stopped it.
PromptMeant(p, q) ==
  \A t \in Tid : t \in Metas(chan[q]) \/ Prompts(q, t) =>
    Offers(p, t) \/ t \in Stops(chan[q])

Agree(p, q) ==
  Steady(p) /\ StopsEnd(p, q) /\ OfferHeard(p, q) /\ PromptMeant(p, q)

\* As long as the channel is open.
Agreement == AllOpen => \A p \in Peer : Agree(p, Other(p))

-----------------------------------------------------------------------------
(* What is known of a transfer of p *)

Facts(p, q) ==
  /\ p # NoPeer /\ p # q /\ p \in Peer /\ aborting[p] = {}
  /\ xfer[p].tid \in TidOrNone
  /\ xfer[p].state \in {"idle", "offering", "prompting", "transferring"}
  /\ xfer[p].stream # NoTid => xfer[p].state = "transferring"
  /\ xfer[p].state = "transferring" /\ xfer[p].stream = NoTid =>
       xfer[p].tid \in Tid /\ owner[xfer[p].tid] = p
  /\ xfer[p].state = "offering" =>
       xfer[p].tid \in Tid /\ owner[xfer[p].tid] = p /\ ~Started(xfer[p].tid)
  /\ xfer[p].state = "prompting" =>
       /\ xfer[p].tid \in Tid /\ owner[xfer[p].tid] = q
       /\ xfer[p].tid \notin Readies(chan[q])
       /\ ~Started(xfer[p].tid)
  /\ xfer[p].tid \in Tid =>
       owner[xfer[p].tid] # NoPeer /\ xfer[p].tid \notin Metas(chan[p])
  /\ \A t \in Metas(chan[p]) :
       t \in Tid /\ owner[t] = q /\ t \notin Readies(chan[q])
  /\ \A t \in Readies(chan[p]) : t # NoTid => t \in Tid /\ owner[t] = p
  /\ picker[p] # NoTid =>
       /\ chain[p].pc = "free"
       /\ xfer[p].state = "prompting" \/ (xfer[p].state = "idle" /\ xfer[p].tid = NoTid)
  /\ chain[p].pc # "free" => chain[p].handle # NoTid

LEMMA FactsOf ==
  ASSUME Inv, ChunksHaveOnePlace, StreamsHeld, AllOpen,
         NEW p \in Peer, NEW q, q = Other(p)
  PROVE  Facts(p, q)
<1>1. q \in Peer /\ p # q /\ Other(q) = p /\ p # NoPeer
  BY OtherOther, NoPeerAssumption
<1>2. /\ TypeOK /\ OpenedOnce /\ OwnLoops /\ StartedOnce(p)
      /\ TransferState(p) /\ HandlerState(p) /\ DialogState(p) /\ StreamState(p)
  BY DEF Inv, FilesHaveOnePlace, ChunksHaveOnePlace, ObjectStates, StreamsHeld
<1>3. aborting[p] = {}
  BY <1>2 DEF StreamState, AllOpen
<1>4. xfer[p].state \in {"idle", "offering", "prompting", "transferring"}
  BY <1>2, XferType DEF Transfer
<1>5. xfer[p].state = "prompting" => xfer[p].tid \in Tid /\ owner[xfer[p].tid] = q
  BY <1>2 DEF OpenedOnce, Unopened
<1>6. ASSUME NEW t \in Metas(chan[p])
      PROVE  t \in Tid /\ owner[t] = q /\ t \notin Readies(chan[q]) /\ xfer[p].tid # t
  BY <1>1, <1>2 DEF OpenedOnce, Unopened, StartedOnce, Waiting
<1>7. /\ xfer[p].state = "offering" =>
           xfer[p].tid \in Tid /\ owner[xfer[p].tid] = p /\ ~Started(xfer[p].tid)
      /\ xfer[p].state = "prompting" =>
           ~Started(xfer[p].tid) /\ xfer[p].tid \notin Readies(chan[q])
      /\ xfer[p].tid \in Tid => owner[xfer[p].tid] # NoPeer
      /\ \A t \in Readies(chan[p]) : t # NoTid => t \in Tid /\ owner[t] = p
  BY <1>2 DEF OwnLoops, StartedOnce, Waiting
<1>8. /\ xfer[p].stream # NoTid => xfer[p].state = "transferring"
      /\ xfer[p].state = "transferring" /\ xfer[p].stream = NoTid =>
           xfer[p].tid \in Tid /\ owner[xfer[p].tid] = p
      /\ picker[p] # NoTid =>
           /\ chain[p].pc = "free"
           /\ xfer[p].state = "prompting" \/ (xfer[p].state = "idle" /\ xfer[p].tid = NoTid)
      /\ chain[p].pc # "free" => chain[p].handle # NoTid
  BY <1>2 DEF TransferState, HandlerState, DialogState
<1> QED
  BY <1>1, <1>2, <1>3, <1>4, <1>5, <1>6, <1>7, <1>8, XferType DEF Facts

\* The state of the two browsers while the channel is open.
Talk(p, q) ==
  /\ Inv /\ ChunksHaveOnePlace /\ StreamsHeld /\ AllOpen
  /\ p \in Peer /\ q = Other(p) /\ q \in Peer /\ IsOpen(p) /\ IsOpen(q)
  /\ Facts(p, q) /\ Facts(q, p)
  /\ Agree(p, q) /\ Agree(q, p)

LEMMA TalkOf ==
  ASSUME Inv, ChunksHaveOnePlace, StreamsHeld, Agreement, AllOpen,
         NEW p \in Peer, NEW q, q = Other(p)
  PROVE  Talk(p, q)
<1>1. q \in Peer /\ p = Other(q)
  BY OtherOther
<1> QED
  BY <1>1, FactsOf DEF Talk, Agreement, AllOpen

LEMMA AgreementOf ==
  ASSUME NEW p \in Peer, NEW q, q = Other(p),
         AllOpen' => Agree(p, q)' /\ Agree(q, p)'
  PROVE  Agreement'
<1>1. q \in Peer /\ p = Other(q) /\ \A r \in Peer : r = p \/ r = q
  BY OtherOther
<1>2. ASSUME AllOpen', NEW r \in Peer, NEW o, o = Other(r) PROVE Agree(r, o)'
  <2>1. (r = p /\ o = q) \/ (r = q /\ o = p)
    BY <1>1, <1>2
  <2>2. CASE r = p /\ o = q
    BY <1>2, <2>2
  <2>3. CASE r = q /\ o = p
    BY <1>2, <2>3
  <2> QED
    BY <2>1, <2>2, <2>3
<1>3. ASSUME AllOpen', NEW r \in Peer PROVE Agree(r, Other(r))'
  BY <1>2, <1>3
<1> QED
  BY <1>3 DEF Agreement

-----------------------------------------------------------------------------
(* What a step does to the channels *)

\* u is s without its first message m.
Takes(s, u, m) ==
  /\ Metas(u) \subseteq Metas(s) /\ Readies(u) \subseteq Readies(s)
  /\ Stops(u) \subseteq Stops(s) /\ Ends(u) \subseteq Ends(s)
  /\ \A t \in Metas(s) : t \in Metas(u) \/ (m.type = "file-meta" /\ m.tid = t)
  /\ \A t \in Readies(s) : t \in Readies(u) \/ (m.type = "ready" /\ m.tid = t)
  /\ \A t \in Stops(s) : t \in Stops(u) \/ (m.type \in StopTypes /\ m.tid = t)
  /\ \A t : Stray(s, t) => Stray(u, t) \/ (m.type = "binary" /\ m.tid # t)
  /\ m.type = "file-meta" => m.tid \in Metas(s) /\ m.tid \notin Metas(u)
  /\ m.type = "ready" => m.tid \in Readies(s)
  /\ m.type = "file-end" => m.tid \in Ends(s)
  /\ m.type \in StopTypes => m.tid \in Stops(s) /\ m.tid \notin Metas(u)
  /\ StopsLast(u)

\* u is s and one more message, of this type and about t.
Tells(s, u, type, t) ==
  /\ Metas(u) = Metas(s) \cup (IF type = "file-meta" THEN {t} ELSE {})
  /\ Readies(u) = Readies(s) \cup (IF type = "ready" THEN {t} ELSE {})
  /\ Stops(u) = Stops(s) \cup (IF type \in StopTypes THEN {t} ELSE {})
  /\ Ends(u) = Ends(s) \cup (IF type = "file-end" THEN {t} ELSE {})
  /\ \A v : Stray(s, v) => Stray(u, v)
  /\ (type = "file-meta" => t \notin Stops(s)) => StopsLast(u)

LEMMA TakesTail ==
  ASSUME NEW s \in Seq(Message), s # <<>>, StopsLast(s), NoMetaTwice(s)
  PROVE  Takes(s, Tail(s), Head(s))
<1> DEFINE u == Tail(s)
           m == Head(s)
<1>1. \A T : /\ TidsOf(u, T) \subseteq TidsOf(s, T)
             /\ \A t \in TidsOf(s, T) :
                  t \in TidsOf(u, T) \/ (m.type \in T /\ m.tid = t)
             /\ m.type \in T => m.tid \in TidsOf(s, T)
  BY TidsTail
<1>2. /\ m.type = "file-meta" => m.tid \in Metas(s) /\ m.tid \notin Metas(u)
      /\ m.type \in StopTypes => m.tid \notin Metas(u)
      /\ StopsLast(u)
  BY MetasTail, StopsLastTail
<1> HIDE DEF u, m
<1>3. /\ Metas(u) \subseteq Metas(s)
      /\ \A t \in Metas(s) : t \in Metas(u) \/ (m.type = "file-meta" /\ m.tid = t)
  BY <1>1, TidsMean
<1>4. /\ Readies(u) \subseteq Readies(s)
      /\ \A t \in Readies(s) : t \in Readies(u) \/ (m.type = "ready" /\ m.tid = t)
      /\ m.type = "ready" => m.tid \in Readies(s)
  BY <1>1, TidsMean
<1>5. /\ Stops(u) \subseteq Stops(s)
      /\ \A t \in Stops(s) : t \in Stops(u) \/ (m.type \in StopTypes /\ m.tid = t)
      /\ m.type \in StopTypes => m.tid \in Stops(s)
  BY <1>1 DEF Stops
<1>6. Ends(u) \subseteq Ends(s) /\ (m.type = "file-end" => m.tid \in Ends(s))
  BY <1>1 DEF Ends
<1>7. ASSUME NEW t, Stray(s, t)
      PROVE  Stray(u, t) \/ (m.type = "binary" /\ m.tid # t)
  <2>1. PICK v \in TidsOf(s, {"binary"}) : v # t
    BY <1>7 DEF Stray
  <2>2. v \in TidsOf(u, {"binary"}) \/ (m.type \in {"binary"} /\ m.tid = v)
    BY <1>1
  <2> QED
    BY <2>1, <2>2 DEF Stray
<1> QED
  BY <1>2, <1>3, <1>4, <1>5, <1>6, <1>7 DEF Takes, u, m

LEMMA TellsAppend ==
  ASSUME NEW s \in Seq(Message), StopsLast(s), NEW type \in MessageType,
         NEW t \in TidOrNone, NEW m, m = Msg(type, t)
  PROVE  Tells(s, s \o <<m>>, type, t)
<1> DEFINE u == s \o <<m>>
<1>1. m \in Message /\ m.type = type /\ m.tid = t
  BY MsgType DEF Msg
<1>2. \A T : TidsOf(u, T) = TidsOf(s, T) \cup (IF type \in T THEN {t} ELSE {})
  BY <1>1, TidsAppend
<1>3. (type = "file-meta" => t \notin Stops(s)) => StopsLast(u)
  BY <1>1, StopsLastAppend
<1> HIDE DEF u
<1>4. Metas(u) = Metas(s) \cup (IF type = "file-meta" THEN {t} ELSE {})
  BY <1>2, TidsMean
<1>5. Readies(u) = Readies(s) \cup (IF type = "ready" THEN {t} ELSE {})
  BY <1>2, TidsMean
<1>6. Stops(u) = Stops(s) \cup (IF type \in StopTypes THEN {t} ELSE {})
  BY <1>2 DEF Stops
<1>7. Ends(u) = Ends(s) \cup (IF type = "file-end" THEN {t} ELSE {})
  BY <1>2 DEF Ends
<1>8. \A v : Stray(s, v) => Stray(u, v)
  BY <1>2 DEF Stray
<1> QED
  BY <1>3, <1>4, <1>5, <1>6, <1>7, <1>8 DEF Tells, u

\* The handler of p's chain takes a message.
LEMMA Took ==
  ASSUME NEW p, NEW q, Talk(p, q), chan[p] # <<>>, chan' = Rest(p)
  PROVE  Takes(chan[p], chan'[p], Head(chan[p])) /\ chan'[q] = chan[q]
<1>1. /\ chan \in [Peer -> Seq(Message)] /\ StopsLast(chan[p])
      /\ NoMetaTwice(chan[p]) /\ p \in Peer /\ q \in Peer /\ p # q
  BY DEF Talk, Agree, StopsEnd, Facts, Inv, TypeOK, FilesHaveOnePlace, OpenedOnce
<1>2. chan'[p] = Tail(chan[p]) /\ chan'[q] = chan[q]
  BY <1>1 DEF Rest
<1> QED
  BY <1>1, <1>2, TakesTail

\* p sends a message.
LEMMA Told ==
  ASSUME NEW p, NEW q, Talk(p, q), NEW type \in MessageType,
         NEW t \in TidOrNone,
         \/ chan' = TrySent(chan, p, Msg(type, t))
         \/ chan' = Sent(chan, p, <<Msg(type, t)>>)
  PROVE  Tells(chan[q], chan'[q], type, t) /\ chan'[p] = chan[p]
<1>1. /\ chan \in [Peer -> Seq(Message)] /\ StopsLast(chan[q])
      /\ p \in Peer /\ q \in Peer /\ p # q /\ q = Other(p) /\ IsOpen(p) /\ IsOpen(q)
  BY DEF Talk, Agree, StopsEnd, Facts, Inv, TypeOK
<1>2. chan'[q] = chan[q] \o <<Msg(type, t)>> /\ chan'[p] = chan[p]
  BY <1>1 DEF TrySent, Sent
<1>3. chan[q] \in Seq(Message)
  BY <1>1
<1> QED
  BY <1>1, <1>2, <1>3, TellsAppend

\* p answers the message it takes.
LEMMA TookTold ==
  ASSUME NEW p, NEW q, Talk(p, q), NEW type \in MessageType,
         NEW t \in TidOrNone, chan[p] # <<>>,
         chan' = TrySent(Rest(p), p, Msg(type, t))
  PROVE  /\ Takes(chan[p], chan'[p], Head(chan[p]))
         /\ Tells(chan[q], chan'[q], type, t)
<1>1. /\ chan \in [Peer -> Seq(Message)] /\ StopsLast(chan[p]) /\ StopsLast(chan[q])
      /\ NoMetaTwice(chan[p])
      /\ p \in Peer /\ q \in Peer /\ p # q /\ q = Other(p) /\ IsOpen(p) /\ IsOpen(q)
  BY DEF Talk, Agree, StopsEnd, Facts, Inv, TypeOK, FilesHaveOnePlace, OpenedOnce
<1>2. chan'[q] = chan[q] \o <<Msg(type, t)>> /\ chan'[p] = Tail(chan[p])
  <2> DEFINE c == Rest(p)
  <2>1. c[p] = Tail(chan[p]) /\ c[q] = chan[q] /\ DOMAIN c = Peer
    BY <1>1 DEF Rest
  <2>2. chan' = [c EXCEPT ![q] = @ \o <<Msg(type, t)>>]
    BY <1>1 DEF TrySent, Sent
  <2> HIDE DEF c
  <2>3. chan'[q] = c[q] \o <<Msg(type, t)>> /\ chan'[p] = c[p]
    BY <1>1, <2>1, <2>2
  <2> QED
    BY <2>1, <2>3
<1>3. chan[q] \in Seq(Message) /\ chan[p] \in Seq(Message)
  BY <1>1
<1> QED
  BY <1>1, <1>2, <1>3, TellsAppend, TakesTail

-----------------------------------------------------------------------------
(* What a step leaves of the agreement *)

\* A step of p and what it leaves to q.
Alone(p, q) ==
  /\ xfer'[q] = xfer[q] /\ chain'[q] = chain[q]
  /\ q \in cancelled' => q \in cancelled

\* The same transfers are offered, answered and stopped.
SameTalk(s, u) ==
  /\ Metas(u) = Metas(s) /\ Readies(u) = Readies(s) /\ Stops(u) = Stops(s)
  /\ StopsLast(s) => StopsLast(u)

LEMMA SameSame == \A s : SameTalk(s, s)
BY DEF SameTalk

\* p neither offers nor prompts, and waits for nothing, that it did not before.
LEMMA RestAgrees ==
  ASSUME NEW p, NEW q, Talk(p, q), Alone(p, q), Steady(p)', UNCHANGED owner,
         xfer'[p].tid = xfer[p].tid,
         chain[p].pc = "reset" => chain'[p].pc = "reset",
         xfer'[p].state = "offering" <=> xfer[p].state = "offering",
         xfer'[p].state = "prompting" <=> xfer[p].state = "prompting",
         SameTalk(chan[q], chan'[q]),
         NEW m,
         chan'[p] = chan[p] \/ Takes(chan[p], chan'[p], m),
         m.type # "file-meta" \/ chan'[p] = chan[p],
         m.type = "ready" => ~Offers(p, m.tid) \/ chan'[p] = chan[p],
         m.type \in StopTypes =>
           m.tid = NoTid \/ xfer[p].tid # m.tid \/ chan'[p] = chan[p]
  PROVE  Agree(p, q)' /\ Agree(q, p)'
<1>1. /\ StopsEnd(p, q) /\ StopsEnd(q, p) /\ OfferHeard(p, q) /\ OfferHeard(q, p)
      /\ PromptMeant(p, q) /\ PromptMeant(q, p) /\ Steady(q)
      /\ Facts(p, q) /\ Facts(q, p)
  BY DEF Talk, Agree
<1>2. /\ Metas(chan'[q]) = Metas(chan[q]) /\ Readies(chan'[q]) = Readies(chan[q])
      /\ Stops(chan'[q]) = Stops(chan[q]) /\ StopsLast(chan'[q])
  BY <1>1 DEF SameTalk, StopsEnd
<1>3. /\ Metas(chan'[p]) = Metas(chan[p]) /\ Readies(chan'[p]) \subseteq Readies(chan[p])
      /\ Stops(chan'[p]) \subseteq Stops(chan[p]) /\ StopsLast(chan'[p])
      /\ Offers(p, xfer[p].tid) /\ xfer[p].tid \in Readies(chan[p]) =>
           xfer[p].tid \in Readies(chan'[p])
      /\ xfer[p].tid # NoTid /\ xfer[p].tid \in Stops(chan[p]) =>
           xfer[p].tid \in Stops(chan'[p])
      /\ \A t \in Stops(chan[p]) :
           t \in Stops(chan'[p])
           \/ (t \notin Metas(chan'[p]) /\ (t = NoTid \/ xfer[p].tid # t))
  BY <1>1 DEF Takes, StopsEnd
<1>4. StopsEnd(p, q)'
  BY <1>1, <1>2, <1>3 DEF StopsEnd
<1>5. OfferHeard(p, q)'
  BY <1>1, <1>2, <1>3, TidAssumption DEF OfferHeard, Facts, Offers, Prompts, Alone
<1>6. PromptMeant(p, q)'
  BY <1>1, <1>2, <1>3 DEF PromptMeant, Offers, Prompts, Alone
<1>7. StopsEnd(q, p)'
  BY <1>1, <1>2, <1>3 DEF StopsEnd, Alone
<1>8. OfferHeard(q, p)'
  BY <1>1, <1>2, <1>3 DEF OfferHeard, Prompts, Alone
<1>9. PromptMeant(q, p)'
  BY <1>1, <1>2, <1>3, TidAssumption DEF PromptMeant, Offers, Prompts, Alone
<1>10. Steady(q)'
  BY <1>1 DEF Steady, Alone
<1> QED
  BY <1>4, <1>5, <1>6, <1>7, <1>8, <1>9, <1>10 DEF Agree

\* p's transfer starts anew.
Vanishes(p) ==
  /\ xfer'[p].state = "idle" /\ xfer'[p].tid = NoTid
  /\ xfer'[p].stream = NoTid
  /\ p \notin cancelled' /\ chain'[p].pc = "free"

\* A user gives up a transfer and tells the other browser.
LEMMA StopAgrees ==
  ASSUME NEW p, NEW q, Talk(p, q), Alone(p, q), Vanishes(p), UNCHANGED owner,
         NEW type \in StopTypes, Tells(chan[q], chan'[q], type, xfer[p].tid),
         chan'[p] = chan[p]
  PROVE  Agree(p, q)' /\ Agree(q, p)'
<1>1. /\ StopsEnd(p, q) /\ StopsEnd(q, p) /\ OfferHeard(p, q) /\ OfferHeard(q, p)
      /\ PromptMeant(p, q) /\ PromptMeant(q, p) /\ Steady(q)
      /\ Facts(p, q) /\ Facts(q, p)
  BY DEF Talk, Agree
<1>2. /\ Metas(chan'[q]) = Metas(chan[q]) /\ Readies(chan'[q]) = Readies(chan[q])
      /\ Stops(chan'[q]) = Stops(chan[q]) \cup {xfer[p].tid}
      /\ StopsLast(chan'[q])
  BY <1>1 DEF Tells, StopsEnd, StopTypes
<1>3. Steady(p)' /\ Steady(q)'
  BY <1>1 DEF Steady, Alone, Vanishes
<1>4. StopsEnd(p, q)'
  BY <1>1, <1>2 DEF StopsEnd, Facts, Vanishes, TidOrNone
<1>5. OfferHeard(p, q)'
  BY DEF OfferHeard, Vanishes
<1>6. PromptMeant(p, q)'
  BY <1>1, <1>2 DEF PromptMeant, Offers, Prompts, Alone
<1>7. StopsEnd(q, p)'
  BY <1>1, <1>2 DEF StopsEnd, Alone
<1>8. OfferHeard(q, p)'
  BY <1>1, <1>2 DEF OfferHeard, Prompts, Alone
<1>9. PromptMeant(q, p)'
  BY <1>1 DEF PromptMeant, Offers, Prompts, Alone, Vanishes
<1> QED
  BY <1>3, <1>4, <1>5, <1>6, <1>7, <1>8, <1>9 DEF Agree

\* Neither an offer nor a prompt of a transfer that q has stopped is left at q.
LEMMA StoppedIsOver ==
  ASSUME NEW p, NEW q, Talk(p, q), NEW t \in Stops(chan[p]), t # NoTid
  PROVE  /\ t \in Tid /\ ~Offers(q, t) /\ ~Prompts(q, t)
         /\ t \notin Metas(chan[q])
BY DEF Talk, Agree, StopsEnd, Steady, Facts, Offers, Prompts

\* p learns that its transfer was stopped.
LEMMA HeardStopAgrees ==
  ASSUME NEW p, NEW q, Talk(p, q), Alone(p, q), Vanishes(p), UNCHANGED owner,
         chan'[q] = chan[q],
         NEW m, m.type \in StopTypes, m.tid = xfer[p].tid, m.tid # NoTid,
         Takes(chan[p], chan'[p], m)
  PROVE  Agree(p, q)' /\ Agree(q, p)'
<1>1. /\ StopsEnd(p, q) /\ StopsEnd(q, p) /\ OfferHeard(p, q) /\ OfferHeard(q, p)
      /\ PromptMeant(p, q) /\ PromptMeant(q, p) /\ Steady(q)
      /\ Facts(p, q) /\ Facts(q, p)
  BY DEF Talk, Agree
<1>2. /\ Metas(chan'[p]) = Metas(chan[p]) /\ Readies(chan'[p]) = Readies(chan[p])
      /\ Stops(chan'[p]) \subseteq Stops(chan[p])
      /\ \A t \in Stops(chan[p]) : t \in Stops(chan'[p]) \/ t = m.tid
      /\ m.tid \in Stops(chan[p])
      /\ m.tid \notin Metas(chan'[p])
      /\ StopsLast(chan'[p])
  BY DEF Takes, StopTypes
<1>a. /\ m.tid \in Tid /\ ~Offers(q, m.tid) /\ ~Prompts(q, m.tid)
      /\ m.tid \notin Metas(chan[q])
  BY <1>2, StoppedIsOver
<1>3. Steady(p)' /\ Steady(q)'
  BY <1>1 DEF Steady, Alone, Vanishes
<1>4. StopsEnd(p, q)'
  BY <1>1, <1>2 DEF StopsEnd, Vanishes
<1>5. OfferHeard(p, q)'
  BY DEF OfferHeard, Vanishes
<1>6. PromptMeant(p, q)'
  BY <1>1, <1>a DEF PromptMeant, Offers, Prompts, Alone
<1>7. StopsEnd(q, p)'
  BY <1>1, <1>2 DEF StopsEnd, Alone
<1>8. OfferHeard(q, p)'
  BY <1>1, <1>2, <1>a DEF OfferHeard, Offers, Prompts, Alone
<1>9. PromptMeant(q, p)'
  BY <1>1, <1>2 DEF PromptMeant, Offers, Prompts, Alone, Vanishes
<1> QED
  BY <1>3, <1>4, <1>5, <1>6, <1>7, <1>8, <1>9 DEF Agree

\* The reset of a transfer with a file comes to its end.
LEMMA ResetAgrees ==
  ASSUME NEW p, NEW q, Talk(p, q), Alone(p, q), Vanishes(p), UNCHANGED owner,
         UNCHANGED chan, xfer[p].state = "transferring"
  PROVE  Agree(p, q)' /\ Agree(q, p)'
<1>1. /\ StopsEnd(p, q) /\ StopsEnd(q, p) /\ OfferHeard(p, q) /\ OfferHeard(q, p)
      /\ PromptMeant(p, q) /\ PromptMeant(q, p) /\ Steady(q)
  BY DEF Talk, Agree
<1>2. Steady(p)' /\ Steady(q)' /\ StopsEnd(p, q)' /\ StopsEnd(q, p)'
  BY <1>1 DEF Steady, StopsEnd, Alone, Vanishes
<1>3. OfferHeard(p, q)' /\ OfferHeard(q, p)'
  BY <1>1 DEF OfferHeard, Prompts, Alone, Vanishes
<1>4. PromptMeant(p, q)' /\ PromptMeant(q, p)'
  BY <1>1 DEF PromptMeant, Offers, Prompts, Alone, Vanishes
<1> QED
  BY <1>2, <1>3, <1>4 DEF Agree

\* A handler of p gives its transfer up: it will wait for the abort of the file.
LEMMA GivesUpAgrees ==
  ASSUME NEW p, NEW q, Talk(p, q), Alone(p, q), UNCHANGED owner, Steady(p)',
         xfer'[p] = xfer[p], chain'[p].pc = "reset",
         xfer[p].state = "transferring",
         \/ chan'[q] = chan[q]
         \/ Tells(chan[q], chan'[q], "cancel-transfer", xfer[p].tid),
         NEW m, m.type \in StopTypes \cup {"binary"},
         chan'[p] = chan[p] \/ Takes(chan[p], chan'[p], m)
  PROVE  Agree(p, q)' /\ Agree(q, p)'
<1>1. /\ StopsEnd(p, q) /\ StopsEnd(q, p) /\ OfferHeard(p, q) /\ OfferHeard(q, p)
      /\ PromptMeant(p, q) /\ PromptMeant(q, p) /\ Steady(q)
      /\ Facts(p, q) /\ Facts(q, p)
  BY DEF Talk, Agree
<1>2. /\ Metas(chan'[p]) = Metas(chan[p])
      /\ Stops(chan'[p]) \subseteq Stops(chan[p])
      /\ \A t \in Stops(chan[p]) : t \in Stops(chan'[p]) \/ t \notin Metas(chan'[p])
      /\ StopsLast(chan'[p])
  BY <1>1 DEF Takes, StopTypes, StopsEnd
<1>3. /\ Metas(chan'[q]) = Metas(chan[q]) /\ Readies(chan'[q]) = Readies(chan[q])
      /\ Stops(chan[q]) \subseteq Stops(chan'[q])
      /\ \A t \in Stops(chan'[q]) : t \in Stops(chan[q]) \/ t = xfer[p].tid
      /\ StopsLast(chan'[q])
  BY <1>1 DEF Tells, StopsEnd, StopTypes
<1>4. StopsEnd(p, q)'
  BY <1>1, <1>2, <1>3 DEF StopsEnd, Facts, TidOrNone
<1>5. OfferHeard(p, q)'
  BY DEF OfferHeard
<1>6. PromptMeant(p, q)'
  BY <1>1, <1>3 DEF PromptMeant, Offers, Prompts, Alone
<1>7. StopsEnd(q, p)'
  BY <1>1, <1>2, <1>3 DEF StopsEnd, Alone
<1>8. OfferHeard(q, p)'
  BY <1>1, <1>2, <1>3 DEF OfferHeard, Prompts, Alone
<1>9. PromptMeant(q, p)'
  BY <1>1, <1>2 DEF PromptMeant, Offers, Prompts, Alone
<1>10. Steady(q)'
  BY <1>1 DEF Steady, Alone
<1> QED
  BY <1>4, <1>5, <1>6, <1>7, <1>8, <1>9, <1>10 DEF Agree

\* p takes the answer to its offer, and sends or gives up.
LEMMA AnsweredAgrees ==
  ASSUME NEW p, NEW q, Talk(p, q), Alone(p, q), UNCHANGED owner, Steady(p)',
         xfer[p].state = "offering",
         xfer'[p].tid \in {xfer[p].tid, NoTid},
         xfer'[p].state \in {"idle", "transferring"},
         chan'[q] = chan[q], chain[p].pc = "free",
         NEW m, m.type = "ready", m.tid = xfer[p].tid,
         Takes(chan[p], chan'[p], m)
  PROVE  Agree(p, q)' /\ Agree(q, p)'
<1>1. /\ StopsEnd(p, q) /\ StopsEnd(q, p) /\ OfferHeard(p, q) /\ OfferHeard(q, p)
      /\ PromptMeant(p, q) /\ PromptMeant(q, p) /\ Steady(q)
      /\ Facts(p, q) /\ Facts(q, p)
  BY DEF Talk, Agree
<1>2. /\ Metas(chan'[p]) = Metas(chan[p]) /\ Stops(chan'[p]) = Stops(chan[p])
      /\ Readies(chan'[p]) \subseteq Readies(chan[p])
      /\ m.tid \in Readies(chan[p])
      /\ StopsLast(chan'[p])
  BY DEF Takes, StopTypes
<1>3. StopsEnd(p, q)'
  BY <1>1, <1>2 DEF StopsEnd
<1>4. OfferHeard(p, q)'
  BY DEF OfferHeard
<1>5. PromptMeant(p, q)'
  BY <1>1, <1>2 DEF PromptMeant, Offers, Prompts, Alone, Facts
<1>6. StopsEnd(q, p)'
  BY <1>1, <1>2 DEF StopsEnd, Alone
<1>7. OfferHeard(q, p)'
  BY <1>1, <1>2 DEF OfferHeard, Prompts, Alone
<1>8. PromptMeant(q, p)'
  BY <1>1, <1>2 DEF PromptMeant, Offers, Prompts, Alone
<1>9. Steady(q)'
  BY <1>1 DEF Steady, Alone
<1> QED
  BY <1>3, <1>4, <1>5, <1>6, <1>7, <1>8, <1>9 DEF Agree

-----------------------------------------------------------------------------
(* Resets while the channel is open *)

LEMMA ReplacedOpen ==
  ASSUME NEW p, NEW q, Talk(p, q), NEW lp, NEW old, Replaced(p, lp, old)
  PROVE  /\ xfer'[p] = InitialTransferState /\ xfer'[q] = xfer[q]
         /\ low'[p] = NoTid /\ low'[q] = low[q]
         /\ p \notin cancelled' /\ (q \in cancelled' => q \in cancelled)
         /\ \A t \in Tid : owner[t] # p => loop'[t] = lp[t]
BY DEF Replaced, Talk, Facts, Inv, TypeOK

\* Outside the chain a reset has no file to abort, and no handler waits.
LEMMA OpenReset ==
  ASSUME NEW p, NEW q, Talk(p, q), NEW lp, ResetTransfer(p, lp), StreamsHeld',
         UNCHANGED dc
  PROVE  /\ xfer[p].stream = NoTid /\ chain[p].pc = "free"
         /\ Alone(p, q) /\ Vanishes(p) /\ Replaced(p, lp, "halted")
<1>1. p \in Peer /\ q \in Peer /\ p # q /\ q = Other(p) /\ TypeOK /\ Steady(p)
      /\ IsOpen(p) /\ Facts(p, q)
  BY DEF Talk, Facts, Inv, Agree
<1>2. xfer[p].stream = NoTid
  <2> SUFFICES ASSUME xfer[p].stream # NoTid PROVE FALSE
    OBVIOUS
  <2>1. aborting'[p] = aborting[p] \cup {xfer[p].stream}
    BY <1>1 DEF ResetTransfer, TypeOK
  <2>2. StreamState(p)' /\ IsOpen(p)'
    BY <1>1 DEF StreamsHeld, IsOpen
  <2> QED
    BY <2>1, <2>2 DEF StreamState
<1>3. chain[p].pc = "free"
  BY <1>1, <1>2 DEF Steady, Facts
<1>4. Replaced(p, lp, "halted") /\ chain' = Staled(p)
  BY <1>2 DEF ResetTransfer
<1>5. chain'[q] = chain[q] /\ chain'[p].pc = "free"
  BY <1>1, <1>3, <1>4, StaledRests
<1> QED
  BY <1>2, <1>3, <1>4, <1>5, ReplacedOpen DEF Alone, Vanishes, InitialTransferState

LEMMA OpenResetInChain ==
  ASSUME NEW p, NEW q, Talk(p, q), ResetInChain(p)
  PROVE  /\ Alone(p, q)
         /\ xfer[p].stream = NoTid => Vanishes(p) /\ Replaced(p, loop, "halted")
         /\ xfer[p].stream # NoTid =>
              /\ Steady(p)' /\ chain'[p].pc = "reset"
              /\ UNCHANGED <<xfer, loop, low>>
<1>1. p \in Peer /\ q \in Peer /\ p # q /\ q = Other(p) /\ TypeOK
  BY DEF Talk, Facts, Inv
<1>2. CASE xfer[p].stream = NoTid
  <2>1. Replaced(p, loop, "halted") /\ chain' = [chain EXCEPT ![p] = FreeChain]
    BY <1>2 DEF ResetInChain
  <2>2. chain'[q] = chain[q] /\ chain'[p].pc = "free"
    BY <1>1, <2>1 DEF TypeOK, FreeChain
  <2> QED
    BY <1>2, <2>1, <2>2, ReplacedOpen DEF Alone, Vanishes, InitialTransferState
<1>3. CASE xfer[p].stream # NoTid
  <2> DEFINE c == [FreeChain EXCEPT !.pc = "reset", !.handle = xfer[p].stream]
  <2>1. /\ cancelled' = cancelled \cup {p} /\ chain' = [chain EXCEPT ![p] = c]
        /\ UNCHANGED <<xfer, loop, low>>
    BY <1>3 DEF ResetInChain
  <2>2. c.pc = "reset" /\ c.handle = xfer[p].stream
    BY DEF FreeChain
  <2> HIDE DEF c
  <2>3. chain'[q] = chain[q] /\ chain'[p] = c
    BY <1>1, <2>1 DEF TypeOK
  <2> QED
    BY <1>1, <1>3, <2>1, <2>2, <2>3 DEF Alone, Steady
<1> QED
  BY <1>2, <1>3

-----------------------------------------------------------------------------
(* The steps of the users *)

LEMMA OfferAgrees ==
  ASSUME NEW p, NEW q, Talk(p, q), NEW t \in Tid, Offer(p, t)
  PROVE  Agree(p, q)' /\ Agree(q, p)'
<1> DEFINE x == [xfer[p] EXCEPT !.state = "offering", !.direction = "send",
                                !.tid = t]
<1>1. /\ StopsEnd(p, q) /\ StopsEnd(q, p) /\ OfferHeard(p, q) /\ OfferHeard(q, p)
      /\ PromptMeant(p, q) /\ PromptMeant(q, p) /\ Steady(p) /\ Steady(q)
      /\ Facts(p, q) /\ Facts(q, p) /\ TypeOK /\ p \in Peer /\ q \in Peer /\ p # q
      /\ t # NoTid /\ t \in TidOrNone
  BY TidAssumption DEF Talk, Agree, Facts, Inv, TidOrNone
<1>2. /\ xfer' = [xfer EXCEPT ![p] = x]
      /\ xfer[p].state = "idle" /\ owner[t] = NoPeer
      /\ owner' = [owner EXCEPT ![t] = p]
      /\ cancelled' = cancelled \ {p}
      /\ chan' = Sent(chan, p, <<Msg("file-meta", t)>>)
      /\ UNCHANGED chain
  BY <1>1 DEF Offer, TypeOK
<1>3. x.state = "offering" /\ x.tid = t /\ x.stream = xfer[p].stream
  BY <1>1, XferType DEF Transfer
<1> HIDE DEF x
<1>4. xfer'[p] = x /\ xfer'[q] = xfer[q]
  BY <1>1, <1>2 DEF TypeOK
<1>5. /\ owner'[t] # NoPeer
      /\ \A v \in Tid : owner[v] # NoPeer => owner'[v] = owner[v] /\ v # t
  BY <1>1, <1>2 DEF TypeOK, Facts
<1>6. Tells(chan[q], chan'[q], "file-meta", t) /\ chan'[p] = chan[p]
  BY <1>1, <1>2, Told DEF MessageType
<1>7. t \notin Stops(chan[q]) /\ t \notin Stops(chan[p])
  BY <1>1, <1>2 DEF StopsEnd
<1>8. /\ Metas(chan'[q]) = Metas(chan[q]) \cup {t}
      /\ Readies(chan'[q]) = Readies(chan[q])
      /\ Stops(chan'[q]) = Stops(chan[q]) /\ StopsLast(chan'[q])
  BY <1>6, <1>7 DEF Tells, StopTypes
<1>9. StopsEnd(p, q)'
  BY <1>1, <1>3, <1>4, <1>5, <1>6, <1>7, <1>8 DEF StopsEnd
<1>10. OfferHeard(p, q)'
  BY <1>3, <1>4, <1>8 DEF OfferHeard
<1>11. PromptMeant(p, q)'
  BY <1>1, <1>2, <1>3, <1>4, <1>8 DEF PromptMeant, Offers, Prompts
<1>12. StopsEnd(q, p)'
  BY <1>1, <1>2, <1>4, <1>5, <1>6, <1>7, <1>8 DEF StopsEnd
<1>13. OfferHeard(q, p)'
  BY <1>1, <1>2, <1>4, <1>6, <1>8 DEF OfferHeard, Prompts
<1>14. PromptMeant(q, p)'
  BY <1>1, <1>3, <1>4, <1>6 DEF PromptMeant, Offers, Prompts
<1>15. Steady(p)' /\ Steady(q)'
  BY <1>1, <1>2, <1>3, <1>4 DEF Steady
<1> QED
  BY <1>9, <1>10, <1>11, <1>12, <1>13, <1>14, <1>15 DEF Agree

LEMMA AcceptAgrees ==
  ASSUME NEW p, NEW q, Talk(p, q), Accept(p)
  PROVE  Agree(p, q)' /\ Agree(q, p)'
<1>1. UNCHANGED <<xfer, cancelled, chain, chan, owner>>
  BY DEF Accept, Talk
<1> QED
  BY <1>1, SameSame, RestAgrees DEF Alone, Talk, Agree, Steady

LEMMA PickerSaveAgrees ==
  ASSUME NEW p, NEW q, Talk(p, q), PickerSave(p)
  PROVE  Agree(p, q)' /\ Agree(q, p)'
<1> SUFFICES ASSUME NEW h, h = picker[p] PROVE Agree(p, q)' /\ Agree(q, p)'
  OBVIOUS
<1> DEFINE x == [xfer[p] EXCEPT !.stream = h, !.state = "transferring"]
<1>1. /\ StopsEnd(p, q) /\ StopsEnd(q, p) /\ OfferHeard(p, q) /\ OfferHeard(q, p)
      /\ PromptMeant(p, q) /\ PromptMeant(q, p) /\ Steady(p) /\ Steady(q)
      /\ Facts(p, q) /\ Facts(q, p) /\ TypeOK /\ p \in Peer /\ q \in Peer /\ p # q
      /\ IsOpen(p)
  BY DEF Talk, Agree, Facts, Inv
<1>2. /\ xfer' = [xfer EXCEPT ![p] = x] /\ h # NoTid
      /\ cancelled' = cancelled \ {p}
      /\ chan' = TrySent(chan, p, Msg("ready", xfer[p].tid))
      /\ UNCHANGED <<chain, owner>>
  BY <1>1 DEF PickerSave, TypeOK
<1>3. x.state = "transferring" /\ x.tid = xfer[p].tid /\ x.stream = h
  BY <1>1, XferType DEF Transfer
<1> HIDE DEF x
<1>4. xfer'[p] = x /\ xfer'[q] = xfer[q]
  BY <1>1, <1>2 DEF TypeOK
<1>5. /\ chain[p].pc = "free"
      /\ xfer[p].state = "prompting" \/ (xfer[p].state = "idle" /\ xfer[p].tid = NoTid)
  BY <1>1, <1>2 DEF Facts
<1>6. Tells(chan[q], chan'[q], "ready", xfer[p].tid) /\ chan'[p] = chan[p]
  BY <1>1, <1>2, Told, XferType DEF MessageType
<1>7. /\ Metas(chan'[q]) = Metas(chan[q])
      /\ Readies(chan'[q]) = Readies(chan[q]) \cup {xfer[p].tid}
      /\ Stops(chan'[q]) = Stops(chan[q]) /\ StopsLast(chan'[q])
  BY <1>1, <1>6 DEF Tells, StopsEnd, StopTypes
<1>8. StopsEnd(p, q)'
  BY <1>1, <1>2, <1>3, <1>4, <1>6, <1>7 DEF StopsEnd
<1>9. OfferHeard(p, q)'
  BY <1>3, <1>4 DEF OfferHeard
<1>10. PromptMeant(p, q)'
  BY <1>1, <1>4, <1>5, <1>7 DEF PromptMeant, Offers, Prompts
<1>11. StopsEnd(q, p)'
  BY <1>1, <1>2, <1>4, <1>6, <1>7 DEF StopsEnd
<1>12. OfferHeard(q, p)'
  BY <1>1, <1>4, <1>6, <1>7 DEF OfferHeard, Prompts
<1>13. PromptMeant(q, p)'
  BY <1>1, <1>3, <1>4, <1>6 DEF PromptMeant, Offers, Prompts
<1>14. Steady(p)' /\ Steady(q)'
  BY <1>1, <1>2, <1>4, <1>5 DEF Steady
<1> QED
  BY <1>8, <1>9, <1>10, <1>11, <1>12, <1>13, <1>14 DEF Agree

LEMMA UserCancelsAgrees ==
  ASSUME NEW p, NEW q, Talk(p, q), StreamsHeld',
         PickerAbort(p) \/ Reject(p) \/ Cancel(p)
  PROVE  Agree(p, q)' /\ Agree(q, p)'
<1>1. PICK type \in StopTypes :
        /\ ResetTransfer(p, loop) /\ UNCHANGED <<owner, dc>>
        /\ chan' = TrySent(chan, p, Msg(type, xfer[p].tid))
  BY DEF PickerAbort, Reject, Cancel, StopTypes
<1>2. type \in MessageType /\ xfer[p].tid \in TidOrNone
  BY DEF MessageType, StopTypes, Talk, Facts
<1> QED
  BY <1>1, <1>2, OpenReset, Told, StopAgrees

-----------------------------------------------------------------------------
(* The steps of the message chain *)

LEMMA HandleFileMetaAgrees ==
  ASSUME NEW p, NEW q, Talk(p, q), HandleFileMeta(p)
  PROVE  Agree(p, q)' /\ Agree(q, p)'
<1> SUFFICES ASSUME NEW m, m = Head(chan[p]), NEW t, t = m.tid
             PROVE  Agree(p, q)' /\ Agree(q, p)'
  OBVIOUS
<1>1. /\ StopsEnd(p, q) /\ StopsEnd(q, p) /\ OfferHeard(p, q) /\ OfferHeard(q, p)
      /\ PromptMeant(p, q) /\ PromptMeant(q, p) /\ Steady(p) /\ Steady(q)
      /\ Facts(p, q) /\ Facts(q, p) /\ TypeOK /\ p \in Peer /\ q \in Peer /\ p # q
  BY DEF Talk, Agree, Facts, Inv
<1>2. /\ chan[p] # <<>> /\ m.type = "file-meta" /\ chain[p].pc = "free"
      /\ UNCHANGED <<chain, owner>>
  BY DEF HandleFileMeta, Dispatch
<1>3. t \in TidOrNone
  BY <1>1, <1>2, HeadType
<1>4. CASE xfer[p].state # "idle"
  <2>1. /\ chan' = TrySent(Rest(p), p, Msg("reject-transfer", t))
        /\ UNCHANGED <<xfer, cancelled>>
    BY <1>4 DEF HandleFileMeta
  <2>2. /\ Takes(chan[p], chan'[p], m)
        /\ Tells(chan[q], chan'[q], "reject-transfer", t)
    BY <1>2, <1>3, <2>1, TookTold DEF MessageType
  <2>3. /\ t \in Metas(chan[p]) /\ t \notin Metas(chan'[p])
        /\ Metas(chan'[p]) \subseteq Metas(chan[p])
        /\ \A v \in Metas(chan[p]) : v \in Metas(chan'[p]) \/ v = t
        /\ Readies(chan'[p]) = Readies(chan[p])
        /\ Stops(chan'[p]) = Stops(chan[p])
        /\ StopsLast(chan'[p])
    BY <1>2, <2>2 DEF Takes, StopTypes
  <2>4. /\ Metas(chan'[q]) = Metas(chan[q]) /\ Readies(chan'[q]) = Readies(chan[q])
        /\ Stops(chan'[q]) = Stops(chan[q]) \cup {t} /\ StopsLast(chan'[q])
    BY <2>2 DEF Tells, StopTypes
  <2>5. StopsEnd(p, q)'
    BY <1>1, <1>2, <2>1, <2>3, <2>4 DEF StopsEnd, Facts
  <2>6. OfferHeard(p, q)'
    BY <1>1, <2>1, <2>3, <2>4 DEF OfferHeard, Prompts
  <2>7. PromptMeant(p, q)'
    BY <1>1, <2>1, <2>4 DEF PromptMeant, Offers, Prompts
  <2>8. StopsEnd(q, p)'
    BY <1>1, <1>2, <2>1, <2>3, <2>4 DEF StopsEnd
  <2>9. OfferHeard(q, p)'
    BY <1>1, <2>1, <2>3, <2>4 DEF OfferHeard, Prompts
  <2>10. PromptMeant(q, p)'
    BY <1>1, <2>1, <2>3 DEF PromptMeant, Offers, Prompts
  <2>11. Steady(p)' /\ Steady(q)'
    BY <1>1, <1>2, <2>1 DEF Steady
  <2> QED
    BY <2>5, <2>6, <2>7, <2>8, <2>9, <2>10, <2>11 DEF Agree
<1>5. CASE xfer[p].state = "idle"
  <2> DEFINE x == [xfer[p] EXCEPT !.state = "prompting", !.direction = "receive",
                                  !.tid = t, !.expected = 0]
  <2>1. /\ chan' = Rest(p) /\ xfer' = [xfer EXCEPT ![p] = x]
        /\ cancelled' = cancelled \ {p}
    BY <1>1, <1>5 DEF HandleFileMeta, TypeOK
  <2>2. x.state = "prompting" /\ x.tid = t /\ x.stream = xfer[p].stream
    BY <1>1, XferType DEF Transfer
  <2> HIDE DEF x
  <2>3. xfer'[p] = x /\ xfer'[q] = xfer[q]
    BY <1>1, <2>1 DEF TypeOK
  <2>4. Takes(chan[p], chan'[p], m) /\ chan'[q] = chan[q]
    BY <1>2, <2>1, Took
  <2>5. /\ t \in Metas(chan[p]) /\ t \notin Metas(chan'[p])
        /\ Metas(chan'[p]) \subseteq Metas(chan[p])
        /\ \A v \in Metas(chan[p]) : v \in Metas(chan'[p]) \/ v = t
        /\ Readies(chan'[p]) = Readies(chan[p])
        /\ Stops(chan'[p]) = Stops(chan[p])
        /\ StopsLast(chan'[p])
    BY <1>2, <2>4 DEF Takes, StopTypes
  <2>6. StopsEnd(p, q)'
    BY <1>1, <1>2, <2>2, <2>3, <2>4, <2>5 DEF StopsEnd
  <2>7. OfferHeard(p, q)'
    BY <2>2, <2>3 DEF OfferHeard
  <2>8. PromptMeant(p, q)'
    BY <1>1, <1>5, <2>3, <2>4 DEF PromptMeant, Offers, Prompts
  <2>9. StopsEnd(q, p)'
    BY <1>1, <1>2, <2>3, <2>4, <2>5 DEF StopsEnd
  <2>10. OfferHeard(q, p)'
    BY <1>1, <1>5, <2>2, <2>3, <2>4, <2>5 DEF OfferHeard, Prompts
  <2>11. PromptMeant(q, p)'
    BY <1>1, <2>2, <2>3, <2>4, <2>5 DEF PromptMeant, Offers, Prompts
  <2>12. Steady(p)' /\ Steady(q)'
    BY <1>1, <1>2, <2>1, <2>3 DEF Steady
  <2> QED
    BY <2>6, <2>7, <2>8, <2>9, <2>10, <2>11, <2>12 DEF Agree
<1> QED
  BY <1>4, <1>5

LEMMA HandleReadyAgrees ==
  ASSUME NEW p, NEW q, Talk(p, q), StreamsHeld', HandleReady(p)
  PROVE  Agree(p, q)' /\ Agree(q, p)'
<1> SUFFICES ASSUME NEW m, m = Head(chan[p])
             PROVE  Agree(p, q)' /\ Agree(q, p)'
  OBVIOUS
<1>1. /\ chan[p] # <<>> /\ m.type = "ready" /\ chain[p].pc = "free"
      /\ UNCHANGED <<owner, dc>> /\ chan' = Rest(p)
      /\ TypeOK /\ p \in Peer /\ q \in Peer /\ p # q /\ IsOpen(p) /\ Steady(p)
      /\ Facts(p, q)
  BY DEF HandleReady, Dispatch, Talk, Facts, Inv, Agree
<1>2. Takes(chan[p], chan'[p], m) /\ chan'[q] = chan[q]
  BY <1>1, Took
<1>3. CASE ~(IsTransferIdValid(p, m.tid) /\ xfer[p].state = "offering")
  <2>1. UNCHANGED <<xfer, cancelled, chain>>
    BY <1>3 DEF HandleReady
  <2>2. ~Offers(p, m.tid)
    BY <1>1, <1>3, TidAssumption DEF IsTransferIdValid, Offers, Facts
  <2> QED
    BY <1>1, <1>2, <2>1, <2>2, SameSame, RestAgrees DEF Alone, Steady, StopTypes
<1>4. CASE IsTransferIdValid(p, m.tid) /\ xfer[p].state = "offering"
  <2>1. m.tid = xfer[p].tid
    BY <1>4 DEF IsTransferIdValid
  <2>2. CASE p \in secure
    <3> DEFINE x == [xfer[p] EXCEPT !.state = "transferring"]
    <3>1. xfer' = [xfer EXCEPT ![p] = x] /\ UNCHANGED <<cancelled, chain>>
      BY <1>1, <1>4, <2>2 DEF HandleReady, TypeOK
    <3>2. x.state = "transferring" /\ x.tid = xfer[p].tid /\ x.stream = xfer[p].stream
      BY <1>1, XferType DEF Transfer
    <3> HIDE DEF x
    <3>3. xfer'[p] = x /\ xfer'[q] = xfer[q]
      BY <1>1, <3>1 DEF TypeOK
    <3>4. Steady(p)'
      BY <1>1, <3>1, <3>2, <3>3 DEF Steady
    <3> QED
      BY <1>1, <1>2, <1>4, <2>1, <3>1, <3>2, <3>3, <3>4, AnsweredAgrees DEF Alone
  <2>3. CASE p \notin secure
    <3>1. ResetTransfer(p, loop)
      BY <1>1, <1>4, <2>3 DEF HandleReady
    <3>2. Alone(p, q) /\ Vanishes(p)
      BY <1>1, <3>1, OpenReset
    <3>3. Steady(p)'
      BY <3>2 DEF Vanishes, Steady
    <3> QED
      BY <1>1, <1>2, <1>4, <2>1, <3>2, <3>3, AnsweredAgrees DEF Vanishes
  <2> QED
    BY <2>2, <2>3
<1> QED
  BY <1>3, <1>4

LEMMA HandleStopAgrees ==
  ASSUME NEW p, NEW q, Talk(p, q), NEW type, HandleStop(p, type)
  PROVE  Agree(p, q)' /\ Agree(q, p)'
<1> SUFFICES ASSUME NEW m, m = Head(chan[p])
             PROVE  Agree(p, q)' /\ Agree(q, p)'
  OBVIOUS
<1>1. /\ chan[p] # <<>> /\ m.type \in StopTypes /\ UNCHANGED owner
      /\ chan' = Rest(p) /\ Steady(p) /\ Facts(p, q)
  BY DEF HandleStop, Dispatch, Talk, StopTypes, Agree
<1>2. Takes(chan[p], chan'[p], m) /\ chan'[q] = chan[q]
  BY <1>1, Took
<1>3. CASE ~IsTransferIdValid(p, m.tid)
  <2>1. UNCHANGED <<xfer, cancelled, chain>>
    BY <1>3 DEF HandleStop
  <2> QED
    BY <1>1, <1>2, <1>3, <2>1, SameSame, RestAgrees
    DEF Alone, Steady, StopTypes, IsTransferIdValid
<1>4. CASE IsTransferIdValid(p, m.tid)
  <2>1. ResetInChain(p) /\ m.tid = xfer[p].tid /\ m.tid # NoTid
    BY <1>4 DEF HandleStop, IsTransferIdValid
  <2>2. CASE xfer[p].stream = NoTid
    BY <1>1, <1>2, <2>1, <2>2, OpenResetInChain, HeardStopAgrees
  <2>3. CASE xfer[p].stream # NoTid
    <3>1. xfer[p].state = "transferring"
      BY <1>1, <2>3 DEF Facts
    <3> QED
      BY <1>1, <1>2, <2>1, <2>3, <3>1, OpenResetInChain, GivesUpAgrees
  <2> QED
    BY <2>2, <2>3
<1> QED
  BY <1>3, <1>4

LEMMA HandleChunkHeaderAgrees ==
  ASSUME NEW p, NEW q, Talk(p, q), HandleChunkHeader(p)
  PROVE  Agree(p, q)' /\ Agree(q, p)'
<1> SUFFICES ASSUME NEW m, m = Head(chan[p])
             PROVE  Agree(p, q)' /\ Agree(q, p)'
  OBVIOUS
<1> DEFINE x == [xfer[p] EXCEPT !.expected = m.idx]
<1>1. /\ chan[p] # <<>> /\ m.type = "file-chunk"
      /\ UNCHANGED <<owner, cancelled, chain>>
      /\ chan' = Rest(p) /\ Steady(p) /\ TypeOK /\ p \in Peer /\ q \in Peer /\ p # q
  BY DEF HandleChunkHeader, Dispatch, Talk, Agree, Inv, Facts
<1>2. Takes(chan[p], chan'[p], m) /\ chan'[q] = chan[q]
  BY <1>1, Took
<1>3. xfer' = xfer \/ xfer' = [xfer EXCEPT ![p] = x]
  BY <1>1 DEF HandleChunkHeader, TypeOK
<1>4. x.state = xfer[p].state /\ x.tid = xfer[p].tid /\ x.stream = xfer[p].stream
  BY <1>1, XferType DEF Transfer
<1> HIDE DEF x
<1>5. xfer'[q] = xfer[q] /\ xfer'[p] \in {xfer[p], x}
  BY <1>1, <1>3 DEF TypeOK
<1>6. Steady(p)'
  BY <1>1, <1>4, <1>5 DEF Steady
<1> QED
  BY <1>1, <1>2, <1>4, <1>5, <1>6, SameSame, RestAgrees DEF Alone, StopTypes

LEMMA HandleBinaryChunkAgrees ==
  ASSUME NEW p, NEW q, Talk(p, q), HandleBinaryChunk(p)
  PROVE  Agree(p, q)' /\ Agree(q, p)'
<1> SUFFICES ASSUME NEW m, m = Head(chan[p])
             PROVE  Agree(p, q)' /\ Agree(q, p)'
  OBVIOUS
<1> DEFINE c == [pc |-> "decrypt", block |-> <<m.tid, m.idx>>,
                 aad |-> <<xfer[p].tid, xfer[p].expected>>,
                 obj |-> "live", handle |-> xfer[p].stream]
<1>1. /\ chan[p] # <<>> /\ m.type = "binary" /\ UNCHANGED owner
      /\ chain[p].pc = "free"
      /\ Steady(p) /\ Facts(p, q) /\ TypeOK /\ p \in Peer /\ q \in Peer /\ p # q
  BY DEF HandleBinaryChunk, Dispatch, Talk, Agree, Inv, Facts
<1>2. \/ chan' = Rest(p) /\ UNCHANGED <<xfer, cancelled, chain>>
      \/ chan' = Rest(p) /\ UNCHANGED <<xfer, cancelled>> /\ chain' = [chain EXCEPT ![p] = c]
      \/ /\ xfer[p].stream # NoTid /\ ResetInChain(p)
         /\ \/ chan' = Rest(p)
            \/ chan' = TrySent(Rest(p), p, Msg("cancel-transfer", xfer[p].tid))
  BY DEF HandleBinaryChunk
<1> HIDE DEF c
<1>3. CASE chan' = Rest(p) /\ UNCHANGED <<xfer, cancelled, chain>>
  BY <1>1, <1>3, Took, SameSame, RestAgrees DEF Alone, Steady, StopTypes
<1>4. CASE chan' = Rest(p) /\ UNCHANGED <<xfer, cancelled>> /\ chain' = [chain EXCEPT ![p] = c]
  <2>1. chain'[q] = chain[q] /\ chain'[p] = c
    BY <1>1, <1>4 DEF TypeOK
  <2>2. Steady(p)'
    BY <1>1, <1>4, <2>1 DEF Steady, c
  <2> QED
    BY <1>1, <1>4, <2>1, <2>2, Took, SameSame, RestAgrees DEF Alone, StopTypes
<1>5. CASE /\ xfer[p].stream # NoTid /\ ResetInChain(p)
           /\ \/ chan' = Rest(p)
              \/ chan' = TrySent(Rest(p), p, Msg("cancel-transfer", xfer[p].tid))
  <2>1. xfer[p].state = "transferring" /\ xfer[p].tid \in TidOrNone
    BY <1>1, <1>5 DEF Facts
  <2>2. /\ Takes(chan[p], chan'[p], m)
        /\ \/ chan'[q] = chan[q]
           \/ Tells(chan[q], chan'[q], "cancel-transfer", xfer[p].tid)
    BY <1>1, <1>5, <2>1, Took, TookTold DEF MessageType
  <2> QED
    BY <1>1, <1>5, <2>1, <2>2, OpenResetInChain, GivesUpAgrees
<1> QED
  BY <1>2, <1>3, <1>4, <1>5

\* The handler that gives up a chunk does so for p's current transfer.
LEMMA GivesUpCurrent ==
  ASSUME NEW p, NEW q, Talk(p, q), chain[p].pc \in {"decrypt", "write"}
  PROVE  /\ chain[p].aad[1] = xfer[p].tid /\ xfer[p].stream # NoTid
         /\ xfer[p].state = "transferring"
<1>1. Steady(p) /\ HandlerState(p) /\ PlaceOfChunk(p) /\ Facts(p, q)
  BY DEF Talk, Facts, Agree, ChunksHaveOnePlace, ObjectStates
<1>2. xfer[p].stream # NoTid /\ xfer[p].state = "transferring"
  BY <1>1 DEF Steady, Facts
<1>3. chain[p].obj = "live"
  BY <1>1, <1>2 DEF HandlerState, Vacant
<1> QED
  BY <1>1, <1>2, <1>3 DEF PlaceOfChunk

LEMMA GiveUpAgrees ==
  ASSUME NEW p, NEW q, Talk(p, q), chain[p].pc \in {"decrypt", "write"},
         GiveUp(p), UNCHANGED owner
  PROVE  Agree(p, q)' /\ Agree(q, p)'
<1>1. /\ chain[p].aad[1] = xfer[p].tid /\ xfer[p].stream # NoTid
      /\ xfer[p].state = "transferring" /\ xfer[p].tid \in TidOrNone
  BY GivesUpCurrent DEF Talk, Facts
<1>2. ResetInChain(p) /\ chan' = TrySent(chan, p, Msg("cancel-transfer", xfer[p].tid))
  BY <1>1 DEF GiveUp
<1>3. /\ Tells(chan[q], chan'[q], "cancel-transfer", xfer[p].tid)
      /\ chan'[p] = chan[p]
  BY <1>1, <1>2, Told DEF MessageType
<1>4. PICK m : m.type = "binary"
  BY SomeMessage
<1> QED
  BY <1>1, <1>2, <1>3, <1>4, OpenResetInChain, GivesUpAgrees

LEMMA DecryptDoneAgrees ==
  ASSUME NEW p, NEW q, Talk(p, q), DecryptDone(p)
  PROVE  Agree(p, q)' /\ Agree(q, p)'
<1> DEFINE x == [xfer[p] EXCEPT !.expected = 0]
           c == [chain[p] EXCEPT !.pc = "write"]
<1>1. /\ chain[p].pc = "decrypt" /\ UNCHANGED owner
      /\ Steady(p) /\ TypeOK /\ p \in Peer /\ q \in Peer /\ p # q
  BY DEF DecryptDone, Talk, Agree, Inv, Facts
<1>2. \/ GiveUp(p)
      \/ /\ xfer' = xfer \/ xfer' = [xfer EXCEPT ![p] = x]
         /\ chain' = [chain EXCEPT ![p] = c]
         /\ UNCHANGED <<cancelled, chan>>
  BY <1>1 DEF DecryptDone, TypeOK
<1>3. /\ x.state = xfer[p].state /\ x.tid = xfer[p].tid /\ x.stream = xfer[p].stream
      /\ c.pc = "write" /\ c.handle = chain[p].handle
  BY <1>1, XferType DEF Transfer, TypeOK, Handler
<1> HIDE DEF x, c
<1>4. ASSUME xfer' = xfer \/ xfer' = [xfer EXCEPT ![p] = x],
             chain' = [chain EXCEPT ![p] = c], UNCHANGED <<cancelled, chan>>
      PROVE  Agree(p, q)' /\ Agree(q, p)'
  <2>1. /\ xfer'[q] = xfer[q] /\ xfer'[p] \in {xfer[p], x}
        /\ chain'[q] = chain[q] /\ chain'[p] = c
    BY <1>1, <1>4 DEF TypeOK
  <2>2. Steady(p)'
    BY <1>1, <1>3, <1>4, <2>1 DEF Steady
  <2> QED
    BY <1>1, <1>3, <1>4, <2>1, <2>2, SameSame, RestAgrees DEF Alone
<1> QED
  BY <1>1, <1>2, <1>4, GiveUpAgrees

LEMMA WriteDoneAgrees ==
  ASSUME NEW p, NEW q, Talk(p, q), WriteDone(p)
  PROVE  Agree(p, q)' /\ Agree(q, p)'
<1>1. /\ chain[p].pc = "write" /\ UNCHANGED <<owner, xfer, cancelled, chan>>
      /\ chain' = [chain EXCEPT ![p] = FreeChain]
      /\ Steady(p) /\ TypeOK /\ p \in Peer /\ q \in Peer /\ p # q
  BY DEF WriteDone, Talk, Agree, Inv, Facts
<1>2. chain'[q] = chain[q] /\ chain'[p].pc = "free"
  BY <1>1 DEF TypeOK, FreeChain
<1>3. Steady(p)'
  BY <1>1, <1>2 DEF Steady
<1> QED
  BY <1>1, <1>2, <1>3, SameSame, RestAgrees DEF Alone

LEMMA WriteErrorAgrees ==
  ASSUME NEW p, NEW q, Talk(p, q), WriteError(p)
  PROVE  Agree(p, q)' /\ Agree(q, p)'
BY GiveUpAgrees DEF WriteError

\* An ended file is of a transfer that runs, or has ended at p before.
LEMMA EndedTransfer ==
  ASSUME NEW p, NEW q, Talk(p, q), chan[p] # <<>>, Head(chan[p]).type = "file-end",
         IsTransferIdValid(p, Head(chan[p]).tid)
  PROVE  xfer[p].state \notin {"offering", "prompting"}
<1>1. /\ Incoming(p, xfer[p].tid) /\ Started(xfer[p].tid)
  BY EndComes DEF Talk, IsTransferIdValid
<1> QED
  BY <1>1 DEF Talk, Facts

LEMMA HandleFileEndAgrees ==
  ASSUME NEW p, NEW q, Talk(p, q), HandleFileEnd(p)
  PROVE  Agree(p, q)' /\ Agree(q, p)'
<1> SUFFICES ASSUME NEW m, m = Head(chan[p])
             PROVE  Agree(p, q)' /\ Agree(q, p)'
  OBVIOUS
<1> DEFINE x == [xfer[p] EXCEPT !.state = "idle"]
           c == [FreeChain EXCEPT !.pc = "close", !.handle = xfer[p].stream]
<1>1. /\ chan[p] # <<>> /\ m.type = "file-end" /\ chain[p].pc = "free"
      /\ UNCHANGED <<owner, cancelled>> /\ chan' = Rest(p)
      /\ Steady(p) /\ Facts(p, q) /\ TypeOK /\ p \in Peer /\ q \in Peer /\ p # q
      /\ q = Other(p)
  BY DEF HandleFileEnd, Dispatch, Talk, Agree, Inv, Facts
<1>2. Takes(chan[p], chan'[p], m) /\ chan'[q] = chan[q]
  BY <1>1, Took
<1>3. \/ UNCHANGED <<xfer, chain>>
      \/ /\ xfer[p].state \notin {"offering", "prompting"}
         /\ \/ xfer' = [xfer EXCEPT ![p] = x] /\ UNCHANGED chain
            \/ xfer' = xfer /\ chain' = [chain EXCEPT ![p] = c]
            \/ xfer' = FileEnded(p) /\ UNCHANGED chain
  BY <1>1, EndedTransfer DEF HandleFileEnd, TypeOK
<1>4. /\ x.state = "idle" /\ x.tid = xfer[p].tid /\ x.stream = xfer[p].stream
      /\ c.pc = "close" /\ c.handle = xfer[p].stream
  BY <1>1, XferType DEF Transfer, FreeChain
<1> HIDE DEF x, c
<1>5. CASE UNCHANGED <<xfer, chain>>
  BY <1>1, <1>2, <1>5, SameSame, RestAgrees DEF Alone, Steady, StopTypes
<1>6. ASSUME xfer[p].state \notin {"offering", "prompting"},
             xfer' = [xfer EXCEPT ![p] = x], UNCHANGED chain
      PROVE  Agree(p, q)' /\ Agree(q, p)'
  <2>1. xfer'[q] = xfer[q] /\ xfer'[p] = x
    BY <1>1, <1>6 DEF TypeOK
  <2>2. Steady(p)'
    BY <1>1, <1>4, <1>6, <2>1 DEF Steady
  <2> QED
    BY <1>1, <1>2, <1>4, <1>6, <2>1, <2>2, SameSame, RestAgrees DEF Alone, StopTypes
<1>7. ASSUME xfer' = xfer, chain' = [chain EXCEPT ![p] = c]
      PROVE  Agree(p, q)' /\ Agree(q, p)'
  <2>1. chain'[q] = chain[q] /\ chain'[p] = c
    BY <1>1, <1>7 DEF TypeOK
  <2>2. Steady(p)'
    BY <1>1, <1>4, <1>7, <2>1 DEF Steady
  <2> QED
    BY <1>1, <1>2, <1>4, <1>7, <2>1, <2>2, SameSame, RestAgrees DEF Alone, StopTypes
<1>8. ASSUME xfer[p].state \notin {"offering", "prompting"},
             xfer' = FileEnded(p), UNCHANGED chain
      PROVE  Agree(p, q)' /\ Agree(q, p)'
  <2>1. /\ xfer'[p].state = "idle" /\ xfer'[p].tid = xfer[p].tid
        /\ xfer'[q] = xfer[q]
    BY <1>1, <1>8, FileEndedIs
  <2>2. Steady(p)'
    BY <1>1, <1>8, <2>1 DEF Steady
  <2> QED
    BY <1>1, <1>2, <1>8, <2>1, <2>2, SameSame, RestAgrees DEF Alone, StopTypes
<1> QED
  BY <1>3, <1>5, <1>6, <1>7, <1>8

LEMMA CloseDoneAgrees ==
  ASSUME NEW p, NEW q, Talk(p, q), NEW status, CloseDone(p, status)
  PROVE  Agree(p, q)' /\ Agree(q, p)'
<1>1. /\ chain[p].pc = "close" /\ UNCHANGED <<owner, cancelled, chan>>
      /\ chain' = [chain EXCEPT ![p] = FreeChain] /\ xfer' = FileEnded(p)
      /\ Steady(p) /\ Facts(p, q) /\ TypeOK /\ p \in Peer /\ q \in Peer /\ p # q
      /\ q = Other(p)
  BY DEF CloseDone, Talk, Agree, Inv, Facts
<1>2. chain'[q] = chain[q] /\ chain'[p].pc = "free"
  BY <1>1 DEF TypeOK, FreeChain
<1>3. /\ xfer'[p].state = "idle" /\ xfer'[p].tid = xfer[p].tid
      /\ xfer'[q] = xfer[q]
  BY <1>1, FileEndedIs
<1>4. xfer[p].state = "transferring"
  BY <1>1 DEF Steady, Facts
<1>5. Steady(p)'
  BY <1>1, <1>2 DEF Steady
<1> QED
  BY <1>1, <1>2, <1>3, <1>4, <1>5, SameSame, RestAgrees DEF Alone

LEMMA FinishChainResetAgrees ==
  ASSUME NEW p, NEW q, Talk(p, q), FinishChainReset(p)
  PROVE  Agree(p, q)' /\ Agree(q, p)'
<1>1. /\ chain[p].pc = "reset" /\ UNCHANGED <<owner, chan>>
      /\ chain' = [chain EXCEPT ![p] = FreeChain]
      /\ Replaced(p, loop, OldObject(p))
      /\ Steady(p) /\ Facts(p, q) /\ TypeOK /\ p \in Peer /\ q \in Peer /\ p # q
  BY DEF FinishChainReset, Talk, Agree, Inv, Facts
<1>2. chain'[q] = chain[q] /\ chain'[p].pc = "free"
  BY <1>1 DEF TypeOK, FreeChain
<1>3. xfer[p].state = "transferring"
  BY <1>1 DEF Steady, Facts
<1>4. Alone(p, q) /\ Vanishes(p)
  BY <1>1, <1>2, ReplacedOpen DEF Alone, Vanishes, InitialTransferState
<1> QED
  BY <1>1, <1>3, <1>4, ResetAgrees

-----------------------------------------------------------------------------
(* The steps of the chunk loops *)

LEMMA SendsSame ==
  ASSUME NEW p, NEW q, Talk(p, q), NEW t \in Tid, NEW ms,
         Carries(ms, t, loop[t].next), chan' = Sent(chan, p, ms)
  PROVE  /\ chan'[p] = chan[p] /\ SameTalk(chan[q], chan'[q])
         /\ Carried(chan[q], chan'[q], t, loop[t].next)
         /\ AddsChunk(chan[q], chan'[q], t, loop[t].next)
         /\ chan[q] \in Seq(Message) /\ chan'[q] \in Seq(Message)
<1>1. /\ TypeOK /\ p \in Peer /\ q \in Peer /\ p # q /\ q = Other(p) /\ IsOpen(q)
      /\ loop[t].next \in Nat /\ chan[q] \in Seq(Message)
  BY DEF Talk, Inv, Facts, TypeOK, Loop
<1>2. chan'[p] = chan[p] /\ chan'[q] = chan[q] \o ms
  BY <1>1 DEF Sent, TypeOK
<1>3. Carried(chan[q], chan'[q], t, loop[t].next)
  BY <1>2 DEF Carried
<1>4. /\ chan'[q] \in Seq(Message)
      /\ AddsChunk(chan[q], chan'[q], t, loop[t].next)
  BY <1>1, <1>3, AddsChunkIs
<1>5. /\ \A T : T \cap {"file-chunk", "binary", "file-end"} = {} =>
                  TidsOf(chan'[q], T) = TidsOf(chan[q], T)
      /\ StopsLast(chan[q]) => StopsLast(chan'[q])
  BY <1>1, <1>4, TidsAdds
<1>6. Metas(chan'[q]) = Metas(chan[q])
  <2>1. {"file-meta"} \cap {"file-chunk", "binary", "file-end"} = {}
    OBVIOUS
  <2> QED
    BY <1>5, <2>1, TidsMean
<1>7. Readies(chan'[q]) = Readies(chan[q])
  <2>1. {"ready"} \cap {"file-chunk", "binary", "file-end"} = {}
    OBVIOUS
  <2> QED
    BY <1>5, <2>1, TidsMean
<1>8. Stops(chan'[q]) = Stops(chan[q])
  <2>1. StopTypes \cap {"file-chunk", "binary", "file-end"} = {}
    BY DEF StopTypes
  <2> QED
    BY <1>5, <2>1 DEF Stops
<1> QED
  BY <1>1, <1>2, <1>3, <1>4, <1>5, <1>6, <1>7, <1>8 DEF SameTalk

LEMMA SendLoopAgrees ==
  ASSUME NEW p, NEW q, Talk(p, q), NEW t \in Tid, owner[t] = p,
         "read-error" \notin Env, SendLoop(t)
  PROVE  Agree(p, q)' /\ Agree(q, p)'
<1>1. /\ Steady(p) /\ Facts(p, q) /\ TypeOK /\ p \in Peer /\ q \in Peer /\ p # q
      /\ q = Other(p) /\ IsOpen(p)
  BY DEF Talk, Agree, Inv, Facts
<1>2. PICK m : m.type = "binary"
  BY SomeMessage
<1>3. CASE ReadDone(t)
  <2>1. UNCHANGED <<xfer, cancelled, chain, chan, owner>>
    BY <1>3 DEF ReadDone
  <2> QED
    BY <1>1, <1>2, <2>1, SameSame, RestAgrees DEF Alone, Steady
<1>4. CASE SendChunk(t)
  <2>1. /\ UNCHANGED <<xfer, cancelled, chain, owner>>
        /\ chan' = Sent(chan, p, <<ChunkHeader(t, loop[t].next), Binary(t, loop[t].next)>>)
        /\ loop[t].next # Chunks(t)
    BY <1>4 DEF SendChunk, IsLast
  <2>2. chan'[p] = chan[p] /\ SameTalk(chan[q], chan'[q])
    BY <2>1, SendsSame DEF Carries
  <2> QED
    BY <1>1, <1>2, <2>1, <2>2, RestAgrees DEF Alone, Steady
<1>5. CASE SendLastChunk(t)
  <2> DEFINE x == [xfer[p] EXCEPT !.state = "idle"]
  <2>1. /\ UNCHANGED <<cancelled, chain, owner>> /\ loop[t].pc = "seal"
        /\ chan' = Sent(chan, p, LastMessages(t, loop[t].next))
        /\ loop[t].next = Chunks(t)
        /\ \/ xfer' = xfer
           \/ xfer' = [xfer EXCEPT ![p] = x] /\ loop[t].obj = "live"
    BY <1>1, <1>5 DEF SendLastChunk, IsLast, Completed, TypeOK
  <2>2. chan'[p] = chan[p] /\ SameTalk(chan[q], chan'[q])
    BY <2>1, SendsSame DEF Carries
  <2>3. loop[t].obj = "live" => xfer[p].state = "transferring"
    BY <2>1 DEF Talk, ChunksHaveOnePlace, LoopCounts
  <2>4. x.state = "idle" /\ x.tid = xfer[p].tid /\ x.stream = xfer[p].stream
    BY <1>1, XferType DEF Transfer
  <2> HIDE DEF x
  <2>5. xfer'[q] = xfer[q] /\ (xfer'[p] = xfer[p] \/ (xfer'[p] = x /\ loop[t].obj = "live"))
    BY <1>1, <2>1 DEF TypeOK
  <2>6. Steady(p)'
    BY <1>1, <2>1, <2>4, <2>5 DEF Steady
  <2> QED
    BY <1>2, <2>1, <2>2, <2>3, <2>4, <2>5, <2>6, RestAgrees DEF Alone
<1> QED
  BY <1>1, <1>3, <1>4, <1>5 DEF SendLoop, ReadError, SendFails

-----------------------------------------------------------------------------
(* The two ends agree *)

\* No file is aborted outside the chain while the channel is open.
LEMMA NoAbort ==
  ASSUME NEW p, NEW q, Talk(p, q), NEW h, FinishAbort(p, h)
  PROVE  FALSE
BY DEF Talk, Facts, FinishAbort

LEMMA PeerAgrees ==
  ASSUME NEW p, NEW q, Talk(p, q), StreamsHeld', AllOpen',
         \/ User(p) \/ MessageChain(p) \/ Aborts(p) \/ BufferedAmountLow(p)
         \/ CloseChannel(p) \/ HandshakeDone(p)
  PROVE  Agree(p, q)' /\ Agree(q, p)'
<1>1. CASE User(p)
  BY <1>1, OfferAgrees, AcceptAgrees, PickerSaveAgrees, UserCancelsAgrees DEF User
<1>2. CASE MessageChain(p)
  BY <1>2, HandleFileMetaAgrees, HandleReadyAgrees, HandleStopAgrees,
     HandleChunkHeaderAgrees, HandleBinaryChunkAgrees, DecryptDoneAgrees,
     WriteDoneAgrees, WriteErrorAgrees, HandleFileEndAgrees, CloseDoneAgrees,
     FinishChainResetAgrees
  DEF MessageChain
<1>3. CASE BufferedAmountLow(p) \/ HandshakeDone(p)
  <2>1. UNCHANGED <<xfer, cancelled, chain, chan, owner>>
    BY <1>3 DEF BufferedAmountLow, HandshakeDone
  <2>2. Steady(p)'
    BY <2>1 DEF Talk, Agree, Steady
  <2>3. PICK m : m.type = "binary"
    BY SomeMessage
  <2> QED
    BY <2>1, <2>2, <2>3, SameSame, RestAgrees DEF Alone
<1>4. CASE CloseChannel(p)
  <2>1. ~IsOpen(p)' /\ p \in Peer
    BY <1>4 DEF CloseChannel, IsOpen, Talk, Inv, TypeOK
  <2> QED
    BY <2>1 DEF AllOpen
<1> QED
  BY <1>1, <1>2, <1>3, <1>4, NoAbort DEF Aborts

\* No channel opens again.
LEMMA OpenBefore ==
  ASSUME Inv, [Next]_vars, AllOpen'
  PROVE  AllOpen
<1>1. CASE UNCHANGED dc
  BY <1>1 DEF AllOpen, IsOpen
<1>2. ASSUME NEW p \in Peer, CloseChannel(p) PROVE AllOpen
  <2>1. \A r \in Peer : dc'[r] \in {dc[r], "closed"}
    BY <1>2 DEF CloseChannel, Inv, TypeOK
  <2> QED
    BY <2>1 DEF AllOpen, IsOpen
<1>3. ASSUME NEW p \in Peer, User(p) PROVE UNCHANGED dc
  BY <1>3 DEF User, Offer, Accept, PickerSave, PickerAbort, Reject, Cancel
<1>4. ASSUME NEW p \in Peer, MessageChain(p) PROVE UNCHANGED dc
  BY <1>4
  DEF MessageChain, HandleFileMeta, HandleReady, HandleStop, HandleChunkHeader,
      HandleBinaryChunk, DecryptDone, WriteDone, WriteError, HandleFileEnd,
      CloseDone, FinishChainReset, Dispatch
<1>5. ASSUME NEW p \in Peer, Aborts(p) \/ BufferedAmountLow(p) \/ HandshakeDone(p)
      PROVE  UNCHANGED dc
  BY <1>5 DEF Aborts, FinishAbort, BufferedAmountLow, HandshakeDone
<1>6. ASSUME NEW t \in Tid, SendLoop(t) PROVE UNCHANGED dc
  BY <1>6 DEF SendLoop, ReadDone, ReadError, SendChunk, SendLastChunk, SendFails
<1>7. UNCHANGED vars => UNCHANGED dc
  BY DEF vars
<1> QED
  BY <1>1, <1>2, <1>3, <1>4, <1>5, <1>6, <1>7 DEF Next

LEMMA NextAgrees ==
  ASSUME Inv, ChunksHaveOnePlace, StreamsHeld, Agreement, StreamsHeld',
         "read-error" \notin Env, [Next]_vars
  PROVE  Agreement'
<1>1. ASSUME NEW p \in Peer,
             \/ User(p) \/ MessageChain(p) \/ Aborts(p) \/ BufferedAmountLow(p)
             \/ CloseChannel(p) \/ HandshakeDone(p)
      PROVE  Agreement'
  <2> SUFFICES ASSUME AllOpen', NEW q, q = Other(p)
               PROVE  Agree(p, q)' /\ Agree(q, p)'
    BY AgreementOf
  <2>1. Talk(p, q)
    BY <1>1, OpenBefore, TalkOf DEF Next
  <2> QED
    BY <1>1, <2>1, PeerAgrees
<1>2. ASSUME NEW t \in Tid, SendLoop(t) PROVE Agreement'
  <2>1. owner[t] \in Peer
    BY <1>2 DEF SendLoop, ReadDone, ReadError, SendChunk, SendLastChunk, SendFails,
                Inv, FilesHaveOnePlace, OwnLoops
  <2> SUFFICES ASSUME AllOpen', NEW p, p = owner[t], NEW q, q = Other(p)
               PROVE  Agree(p, q)' /\ Agree(q, p)'
    BY <2>1, AgreementOf
  <2>2. Talk(p, q)
    BY <1>2, <2>1, OpenBefore, TalkOf DEF Next
  <2> QED
    BY <1>2, <2>2, SendLoopAgrees
<1>3. ASSUME UNCHANGED vars PROVE Agreement'
  BY <1>3 DEF vars, Agreement, AllOpen, IsOpen, Agree, Steady, StopsEnd, OfferHeard,
              PromptMeant, Offers, Prompts
<1> QED
  BY <1>1, <1>2, <1>3 DEF Next

LEMMA NothingSaid ==
  /\ Metas(<<>>) = {} /\ Readies(<<>>) = {} /\ StopsLast(<<>>)
  /\ \A T : TidsOf(<<>>, T) = {}
<1>1. Len(<<>>) = 0 /\ 1..0 = {}
  OBVIOUS
<1> QED
  BY <1>1 DEF Metas, Readies, StopsLast, TidsOf

LEMMA InitAgrees == Init => StreamsHeld /\ Agreement
<1>1. Init => StreamsHeld
  BY DEF Init, InitialTransferState, StreamsHeld, StreamState
<1>2. ASSUME Init, NEW p \in Peer, NEW q, q = Other(p) PROVE Agree(p, q)
  <2>1. q \in Peer
    BY <1>2, OtherOther
  <2>2. /\ xfer[p].state = "idle" /\ xfer[q].state = "idle"
        /\ chan[p] = <<>> /\ chan[q] = <<>> /\ chain[p].pc = "free"
        /\ cancelled = {}
    BY <1>2, <2>1 DEF Init, InitialTransferState, FreeChain
  <2> QED
    BY <2>2, NothingSaid
    DEF Agree, Steady, StopsEnd, OfferHeard, PromptMeant, Prompts, Stops
<1>3. Init => Agreement
  BY <1>2 DEF Agreement
<1> QED
  BY <1>1, <1>3

\* What is known of every state, as long as no FileReader fails.
Agreed == Inv /\ ChunksHaveOnePlace /\ StreamsHeld /\ Agreement

LEMMA AlwaysAgreed ==
  ASSUME "read-error" \notin Env
  PROVE  Spec => []Agreed
<1>1. Inv /\ ChunksHaveOnePlace /\ StreamsHeld /\ Agreement /\ [Next]_vars
        => StreamsHeld' /\ Agreement'
  BY NextHolds, NextAgrees
<1>2. Spec => []Inv
  BY InitInv, NextInv, PTL DEF Spec
<1> QED
  BY <1>1, <1>2, InitAgrees, ChunksCorrect, PTL DEF Spec, Agreed

\* Unless a FileReader fails, an offer that waits for an answer has a prompt of
\* the same transfer at the other end, and a prompt an offer, once everything
\* sent has been handled (handleFileMeta, acceptIncomingFile, and the messages
\* that reject and cancel).
THEOREM EndsDoAgree ==
  ASSUME "read-error" \notin Env
  PROVE  Spec => []EndsAgree
<1>1. ASSUME Agreed PROVE EndsAgree
  <2> SUFFICES ASSUME Quiet, NEW p \in Peer, NEW q, q = Other(p)
               PROVE  /\ xfer[p].state = "offering" <=> xfer[q].state = "prompting"
                      /\ xfer[p].state \in {"offering", "prompting"} =>
                           xfer[q].tid = xfer[p].tid
    BY DEF EndsAgree
  <2>1. AllOpen
    BY DEF Quiet, AllOpen
  <2>2. Talk(p, q)
    BY <1>1, <2>1, TalkOf DEF Agreed
  <2>3. chan[p] = <<>> /\ chan[q] = <<>>
    BY <2>2 DEF Quiet, Talk
  <2>4. /\ OfferHeard(p, q) /\ OfferHeard(q, p) /\ PromptMeant(p, q)
        /\ PromptMeant(q, p) /\ Facts(p, q) /\ Facts(q, p)
    BY <2>2 DEF Talk, Agree
  <2> QED
    BY <2>3, <2>4, NothingSaid
    DEF OfferHeard, PromptMeant, Offers, Prompts, Facts, Stops
<1> QED
  BY <1>1, AlwaysAgreed, PTL

-----------------------------------------------------------------------------
(* Who wakes a sender *)

\* p is sending its file.
Going(p) == xfer[p].state = "transferring" /\ xfer[p].stream = NoTid

\* p sends t, or is about to.
Awaits(p, t) ==
  /\ xfer[p].tid = t
  /\ Going(p) \/ (xfer[p].state = "offering" /\ t \in Readies(chan[p]))

\* p takes the chunks of t.
Receives(p, t) ==
  /\ xfer[p].state = "transferring" /\ xfer[p].tid = t
  /\ chain[p].pc \notin {"reset", "close"}

\* The loop of the transfer that p sends uses p's transfer object.
LoopSends(p, q) ==
  Going(p) => loop[xfer[p].tid].obj = "live" /\ xfer[p].tid \notin Ends(chan[q])

\* What p sends q receives, or q has stopped it.
Heard(p, q) ==
  \A t \in Tid : Awaits(p, t) => Receives(q, t) \/ t \in Stops(chan[p])

\* The loop of p goes on, waits for its wake-up, or will be stopped for a chunk
\* that the loop of another transfer sent.
Wakes(p, q) ==
  Going(p) =>
    \/ loop[xfer[p].tid].pc \in {"read", "seal"}
    \/ loop[xfer[p].tid].pc = "wait" /\ low[p] = xfer[p].tid
    \/ xfer[p].tid \in Stops(chan[p])
    \/ Stray(chan[q], xfer[p].tid)

Woken(p, q) == LoopSends(p, q) /\ Heard(p, q) /\ Wakes(p, q)

\* As long as the channel is open.
SendersWoken ==
  secure = Peer /\ (AllOpen => \A p \in Peer : Woken(p, Other(p)))

-----------------------------------------------------------------------------
(* What a step leaves of it *)

\* A browser that awaits chunks of a transfer offered it itself.
LEMMA AwaitsOwn ==
  ASSUME NEW p, NEW q, Talk(p, q), NEW t, Awaits(p, t)
  PROVE  t \in Tid /\ owner[t] = p
BY DEF Talk, Facts, Awaits, Going

\* The browser that receives it has a file for it.
LEMMA ReceivesFile ==
  ASSUME NEW p, NEW q, Talk(p, q), NEW t, Awaits(q, t), Receives(p, t)
  PROVE  /\ xfer[p].stream # NoTid /\ xfer[p].state = "transferring"
         /\ xfer[p].tid = t /\ t \in Tid
BY DEF Talk, Facts, Awaits, Going, Receives

\* p's transfer neither sends nor is about to.
LEMMA SenderRests ==
  ASSUME NEW p, NEW q, \A t : ~Awaits(p, t)'
  PROVE  Woken(p, q)'
<1>1. ~Going(p)'
  BY DEF Awaits
<1> QED
  BY <1>1 DEF Woken, LoopSends, Heard, Wakes

\* p sends what it sent before.
LEMMA SenderStays ==
  ASSUME NEW p, NEW q, Talk(p, q), Woken(p, q), Alone(p, q),
         \A t : Awaits(p, t)' => Awaits(p, t), Going(p)' => Going(p),
         xfer'[p].tid = xfer[p].tid,
         Going(p) => loop'[xfer[p].tid] = loop[xfer[p].tid] /\ low'[p] = low[p],
         Ends(chan'[q]) \subseteq Ends(chan[q]),
         xfer[p].tid \in Tid /\ xfer[p].tid \in Stops(chan[p]) =>
           xfer[p].tid \in Stops(chan'[p]),
         \A t : Stray(chan[q], t) => Stray(chan'[q], t)
  PROVE  Woken(p, q)'
<1>1. LoopSends(p, q)'
  BY DEF Woken, LoopSends
<1>2. Heard(p, q)'
  BY DEF Woken, Heard, Awaits, Receives, Alone
<1>3. Going(p) => xfer[p].tid \in Tid
  BY DEF Talk, Facts, Going
<1>4. Wakes(p, q)'
  BY <1>3 DEF Woken, Wakes
<1> QED
  BY <1>1, <1>2, <1>4 DEF Woken

\* p takes what q sends, or stops it.
LEMMA ReceiverStays ==
  ASSUME NEW p, NEW q, Talk(p, q), Woken(q, p), Alone(p, q),
         \A t \in Tid : owner[t] = q => loop'[t] = loop[t], low'[q] = low[q],
         Ends(chan'[p]) \subseteq Ends(chan[p]),
         Stops(chan[q]) \subseteq Stops(chan'[q]),
         \A t \in Readies(chan'[q]) : t \in Readies(chan[q]) \/ Receives(p, t)',
         \A t : Awaits(q, t) /\ Receives(p, t) =>
                  Receives(p, t)' \/ t \in Stops(chan'[q]),
         \A t : Awaits(q, t) /\ Going(q) /\ Stray(chan[p], t) =>
                  Stray(chan'[p], t) \/ t \in Stops(chan'[q])
  PROVE  Woken(q, p)'
<1>1. xfer'[q] = xfer[q] /\ (Going(q)' <=> Going(q))
  BY DEF Alone, Going
<1>2. Going(q) => /\ Awaits(q, xfer[q].tid)
                  /\ loop'[xfer[q].tid] = loop[xfer[q].tid]
  BY DEF Going, Awaits, Talk, Facts
<1>3. LoopSends(q, p)'
  BY <1>1, <1>2 DEF Woken, LoopSends
<1>4. ASSUME NEW t \in Tid, Awaits(q, t)'
      PROVE  Receives(p, t)' \/ t \in Stops(chan'[q])
  <2>1. Awaits(q, t) \/ Receives(p, t)'
    BY <1>1, <1>4 DEF Awaits
  <2>2. Awaits(q, t) => Receives(p, t) \/ t \in Stops(chan[q])
    BY DEF Woken, Heard
  <2> QED
    BY <2>1, <2>2
<1>5. Wakes(q, p)'
  BY <1>1, <1>2 DEF Woken, Wakes
<1> QED
  BY <1>3, <1>4, <1>5 DEF Woken, Heard

\* Nothing of a transfer changes, and no chunk comes or goes.
LEMMA AllRest ==
  ASSUME NEW p, NEW q, Talk(p, q), Woken(p, q), Woken(q, p),
         UNCHANGED <<xfer, cancelled, chain, chan, loop, low>>
  PROVE  Woken(p, q)' /\ Woken(q, p)'
BY DEF Woken, LoopSends, Heard, Wakes, Going, Awaits, Receives

LEMMA TakesEnds ==
  ASSUME NEW s, NEW u, NEW m, Takes(s, u, m)
  PROVE  /\ Ends(u) \subseteq Ends(s) /\ Stops(u) \subseteq Stops(s)
         /\ Readies(u) \subseteq Readies(s)
         /\ \A t \in Stops(s) : t \in Stops(u) \/ (m.type \in StopTypes /\ m.tid = t)
         /\ \A t : Stray(s, t) => Stray(u, t) \/ (m.type = "binary" /\ m.tid # t)
BY DEF Takes

-----------------------------------------------------------------------------
(* The steps of the users *)

LEMMA OfferWakes ==
  ASSUME NEW p, NEW q, Talk(p, q), Woken(p, q), Woken(q, p), NEW t \in Tid,
         Offer(p, t)
  PROVE  Woken(p, q)' /\ Woken(q, p)'
<1> DEFINE x == [xfer[p] EXCEPT !.state = "offering", !.direction = "send",
                                !.tid = t]
<1>1. /\ Facts(p, q) /\ TypeOK /\ p \in Peer /\ q \in Peer /\ p # q
      /\ t # NoTid /\ t \in TidOrNone
  BY TidAssumption DEF Talk, Facts, Inv, TidOrNone
<1>2. /\ xfer' = [xfer EXCEPT ![p] = x]
      /\ xfer[p].state = "idle" /\ owner[t] = NoPeer
      /\ cancelled' = cancelled \ {p}
      /\ chan' = Sent(chan, p, <<Msg("file-meta", t)>>)
      /\ UNCHANGED <<chain, loop, low>>
  BY <1>1 DEF Offer, TypeOK
<1>3. x.state = "offering" /\ x.tid = t
  BY <1>1, XferType DEF Transfer
<1> HIDE DEF x
<1>4. xfer'[p] = x /\ xfer'[q] = xfer[q]
  BY <1>1, <1>2 DEF TypeOK
<1>5. Tells(chan[q], chan'[q], "file-meta", t) /\ chan'[p] = chan[p]
  BY <1>1, <1>2, Told DEF MessageType
<1>6. t \notin Readies(chan[p])
  BY <1>1, <1>2 DEF Facts
<1>7. \A v : ~Awaits(p, v)'
  BY <1>3, <1>4, <1>5, <1>6 DEF Awaits, Going
<1>8. Alone(p, q)
  BY <1>2, <1>4 DEF Alone
<1>9. \A v : ~Receives(p, v)
  BY <1>2 DEF Receives
<1>10. /\ Stops(chan[q]) \subseteq Stops(chan'[q])
       /\ Readies(chan'[q]) \subseteq Readies(chan[q])
  BY <1>5 DEF Tells, StopTypes
<1>11. Woken(p, q)'
  BY <1>7, SenderRests
<1>12. Woken(q, p)'
  BY <1>2, <1>5, <1>8, <1>9, <1>10, ReceiverStays
<1> QED
  BY <1>11, <1>12

LEMMA AcceptWakes ==
  ASSUME NEW p, NEW q, Talk(p, q), Woken(p, q), Woken(q, p), Accept(p)
  PROVE  Woken(p, q)' /\ Woken(q, p)'
<1>1. UNCHANGED <<xfer, cancelled, chain, chan, loop, low>>
  BY DEF Accept, Talk
<1> QED
  BY <1>1, AllRest

LEMMA PickerSaveWakes ==
  ASSUME NEW p, NEW q, Talk(p, q), Woken(p, q), Woken(q, p), PickerSave(p)
  PROVE  Woken(p, q)' /\ Woken(q, p)'
<1> SUFFICES ASSUME NEW h, h = picker[p] PROVE Woken(p, q)' /\ Woken(q, p)'
  OBVIOUS
<1> DEFINE x == [xfer[p] EXCEPT !.stream = h, !.state = "transferring"]
<1>1. /\ Facts(p, q) /\ TypeOK /\ p \in Peer /\ q \in Peer /\ p # q /\ IsOpen(p)
  BY DEF Talk, Facts, Inv
<1>2. /\ xfer' = [xfer EXCEPT ![p] = x] /\ h # NoTid
      /\ cancelled' = cancelled \ {p}
      /\ chan' = TrySent(chan, p, Msg("ready", xfer[p].tid))
      /\ UNCHANGED <<chain, loop, low>>
  BY <1>1 DEF PickerSave, TypeOK
<1>3. x.state = "transferring" /\ x.tid = xfer[p].tid /\ x.stream = h
  BY <1>1, XferType DEF Transfer
<1> HIDE DEF x
<1>4. xfer'[p] = x /\ xfer'[q] = xfer[q]
  BY <1>1, <1>2 DEF TypeOK
<1>5. chain[p].pc = "free" /\ xfer[p].state \in {"prompting", "idle"}
  BY <1>1, <1>2 DEF Facts
<1>6. Tells(chan[q], chan'[q], "ready", xfer[p].tid) /\ chan'[p] = chan[p]
  BY <1>1, <1>2, Told, XferType DEF MessageType
<1>7. \A v : ~Awaits(p, v)'
  BY <1>2, <1>3, <1>4 DEF Awaits, Going
<1>8. Alone(p, q)
  BY <1>2, <1>4 DEF Alone
<1>9. /\ \A v : ~Receives(p, v)
      /\ Receives(p, xfer[p].tid)'
  BY <1>2, <1>3, <1>4, <1>5 DEF Receives
<1>10. /\ Stops(chan[q]) \subseteq Stops(chan'[q])
       /\ \A v \in Readies(chan'[q]) : v \in Readies(chan[q]) \/ v = xfer[p].tid
       /\ Ends(chan'[p]) \subseteq Ends(chan[p])
  BY <1>6 DEF Tells, StopTypes
<1>11. Woken(p, q)'
  BY <1>7, SenderRests
<1>12. \A v \in Readies(chan'[q]) : v \in Readies(chan[q]) \/ Receives(p, v)'
  BY <1>3, <1>4, <1>9, <1>10 DEF Receives
<1>13. Woken(q, p)'
  BY <1>2, <1>6, <1>8, <1>9, <1>10, <1>12, ReceiverStays
<1> QED
  BY <1>11, <1>13

\* p's transfer starts anew, after it sent, prompted or waited.
LEMMA VanishWakes ==
  ASSUME NEW p, NEW q, Talk(p, q), Woken(q, p), Alone(p, q), Vanishes(p),
         NEW old, Replaced(p, loop, old),
         xfer[p].stream = NoTid \/ chain[p].pc = "reset",
         NEW m, m.type # "binary",
         chan'[p] = chan[p] \/ Takes(chan[p], chan'[p], m),
         \/ chan'[q] = chan[q]
         \/ \E type \in StopTypes : Tells(chan[q], chan'[q], type, xfer[p].tid)
  PROVE  Woken(p, q)' /\ Woken(q, p)'
<1>1. \A v : ~Awaits(p, v)'
  BY DEF Awaits, Going, Vanishes
<1>2. \A v : ~(Awaits(q, v) /\ Receives(p, v))
  BY ReceivesFile DEF Receives
<1>3. /\ \A t \in Tid : owner[t] = q => loop'[t] = loop[t]
      /\ low'[q] = low[q]
  BY ReplacedOpen DEF Talk, Facts
<1>4. /\ Ends(chan'[p]) \subseteq Ends(chan[p])
      /\ \A v : Stray(chan[p], v) => Stray(chan'[p], v)
  BY TakesEnds
<1>5. /\ Stops(chan[q]) \subseteq Stops(chan'[q])
      /\ Readies(chan'[q]) \subseteq Readies(chan[q])
  <2>1. CASE chan'[q] = chan[q]
    BY <2>1
  <2>2. ASSUME NEW type \in StopTypes, Tells(chan[q], chan'[q], type, xfer[p].tid)
        PROVE  /\ Stops(chan[q]) \subseteq Stops(chan'[q])
               /\ Readies(chan'[q]) \subseteq Readies(chan[q])
    BY <2>2 DEF Tells, StopTypes
  <2> QED
    BY <2>1, <2>2
<1>6. Woken(p, q)'
  BY <1>1, SenderRests
<1>7. Woken(q, p)'
  BY <1>2, <1>3, <1>4, <1>5, ReceiverStays
<1> QED
  BY <1>6, <1>7

LEMMA UserCancelsWakes ==
  ASSUME NEW p, NEW q, Talk(p, q), Woken(p, q), Woken(q, p), StreamsHeld',
         PickerAbort(p) \/ Reject(p) \/ Cancel(p)
  PROVE  Woken(p, q)' /\ Woken(q, p)'
<1>1. PICK type \in StopTypes :
        /\ ResetTransfer(p, loop) /\ UNCHANGED dc
        /\ chan' = TrySent(chan, p, Msg(type, xfer[p].tid))
  BY DEF PickerAbort, Reject, Cancel, StopTypes
<1>2. type \in MessageType /\ xfer[p].tid \in TidOrNone
  BY DEF MessageType, StopTypes, Talk, Facts
<1>3. Tells(chan[q], chan'[q], type, xfer[p].tid) /\ chan'[p] = chan[p]
  BY <1>1, <1>2, Told
<1>4. PICK m : m.type = "ready"
  BY SomeMessage
<1>5. /\ Alone(p, q) /\ Vanishes(p) /\ Replaced(p, loop, "halted")
      /\ xfer[p].stream = NoTid
  BY <1>1, OpenReset
<1> QED
  BY <1>3, <1>4, <1>5, VanishWakes

-----------------------------------------------------------------------------
(* The steps of the message chain *)

\* Whoever sends what u is for finds there what s had.
Keeps(s, u) ==
  /\ Ends(u) \subseteq Ends(s) /\ Readies(u) \subseteq Readies(s)
  /\ Stops(s) \subseteq Stops(u)
  /\ \A t : Stray(s, t) => Stray(u, t)

LEMMA KeepsSame == \A s : Keeps(s, s)
BY DEF Keeps

LEMMA TellsKeeps ==
  ASSUME NEW s, NEW u, NEW type \in StopTypes, NEW t, Tells(s, u, type, t)
  PROVE  Keeps(s, u) /\ t \in Stops(u)
BY DEF Tells, Keeps, StopTypes

\* A step of the chain of p that starts no transfer and ends none that q sends.
LEMMA RestWakes ==
  ASSUME NEW p, NEW q, Talk(p, q), Woken(p, q), Woken(q, p), Alone(p, q),
         UNCHANGED <<loop, low>>, xfer'[p].tid = xfer[p].tid,
         Going(p)' => Going(p),
         xfer'[p].state = "offering" => xfer[p].state = "offering",
         Keeps(chan[q], chan'[q]),
         NEW m, chan'[p] = chan[p] \/ Takes(chan[p], chan'[p], m),
         m.type \in StopTypes =>
           m.tid = NoTid \/ xfer[p].tid # m.tid \/ chan'[p] = chan[p],
         \A t : Awaits(q, t) /\ Receives(p, t) =>
                  Receives(p, t)' \/ t \in Stops(chan'[q]),
         \A t : Awaits(q, t) /\ m.type = "binary" /\ m.tid # t =>
                  t \in Stops(chan'[q]) \/ chan'[p] = chan[p]
  PROVE  Woken(p, q)' /\ Woken(q, p)'
<1>1. /\ Ends(chan'[q]) \subseteq Ends(chan[q])
      /\ Readies(chan'[q]) \subseteq Readies(chan[q])
      /\ Stops(chan[q]) \subseteq Stops(chan'[q])
      /\ \A t : Stray(chan[q], t) => Stray(chan'[q], t)
  BY DEF Keeps
<1>2. /\ Ends(chan'[p]) \subseteq Ends(chan[p])
      /\ Readies(chan'[p]) \subseteq Readies(chan[p])
      /\ \A t \in Stops(chan[p]) :
           t \in Stops(chan'[p]) \/ t = NoTid \/ xfer[p].tid # t
  BY TakesEnds
<1>3. ASSUME NEW t, Awaits(q, t), Stray(chan[p], t)
      PROVE  Stray(chan'[p], t) \/ t \in Stops(chan'[q])
  BY <1>3, TakesEnds
<1>4. \A t : Awaits(p, t)' => Awaits(p, t)
  BY <1>2 DEF Awaits
<1>5. xfer[p].tid \in Tid /\ xfer[p].tid \in Stops(chan[p]) =>
        xfer[p].tid \in Stops(chan'[p])
  BY <1>2, TidAssumption
<1>6. Woken(p, q)'
  BY <1>1, <1>4, <1>5, SenderStays
<1>7. Woken(q, p)'
  BY <1>1, <1>2, <1>3, ReceiverStays
<1> QED
  BY <1>6, <1>7

\* The chain of p stops a transfer whose file it has.
LEMMA FileStopsWakes ==
  ASSUME NEW p, NEW q, Talk(p, q), Woken(q, p), Alone(p, q),
         UNCHANGED <<xfer, loop, low>>,
         xfer[p].stream # NoTid, xfer[p].state = "transferring",
         Keeps(chan[q], chan'[q]),
         NEW m, chan'[p] = chan[p] \/ Takes(chan[p], chan'[p], m),
         \A t : Awaits(q, t) /\ Receives(p, t) => t \in Stops(chan'[q])
  PROVE  Woken(p, q)' /\ Woken(q, p)'
<1>1. \A t : ~Awaits(p, t)'
  BY DEF Awaits, Going
<1>2. /\ Readies(chan'[q]) \subseteq Readies(chan[q])
      /\ Stops(chan[q]) \subseteq Stops(chan'[q])
  BY DEF Keeps
<1>3. Ends(chan'[p]) \subseteq Ends(chan[p])
  BY TakesEnds
<1>4. ASSUME NEW t, Awaits(q, t)
      PROVE  t \in Stops(chan'[q])
  <2>1. t \in Tid
    BY <1>4, AwaitsOwn DEF Talk, Awaits, Going, Facts
  <2>2. Receives(p, t) \/ t \in Stops(chan[q])
    BY <1>4, <2>1 DEF Woken, Heard
  <2> QED
    BY <1>2, <1>4, <2>2
<1>5. Woken(p, q)'
  BY <1>1, SenderRests
<1>6. Woken(q, p)'
  BY <1>2, <1>3, <1>4, ReceiverStays
<1> QED
  BY <1>5, <1>6

LEMMA HandleFileMetaWakes ==
  ASSUME NEW p, NEW q, Talk(p, q), Woken(p, q), Woken(q, p), HandleFileMeta(p)
  PROVE  Woken(p, q)' /\ Woken(q, p)'
<1> SUFFICES ASSUME NEW m, m = Head(chan[p]), NEW t, t = m.tid
             PROVE  Woken(p, q)' /\ Woken(q, p)'
  OBVIOUS
<1>1. /\ Facts(p, q) /\ TypeOK /\ p \in Peer /\ q \in Peer /\ p # q
      /\ chan[p] # <<>> /\ m.type = "file-meta"
      /\ UNCHANGED <<chain, loop, low>>
  BY DEF HandleFileMeta, Dispatch, Talk, Facts, Inv
<1>2. t \in TidOrNone
  BY <1>1, HeadType
<1>3. CASE xfer[p].state # "idle"
  <2>1. /\ chan' = TrySent(Rest(p), p, Msg("reject-transfer", t))
        /\ UNCHANGED <<xfer, cancelled>>
    BY <1>3 DEF HandleFileMeta
  <2>2. /\ Takes(chan[p], chan'[p], m)
        /\ Tells(chan[q], chan'[q], "reject-transfer", t)
    BY <1>1, <1>2, <2>1, TookTold DEF MessageType
  <2>3. Keeps(chan[q], chan'[q])
    BY <2>2, TellsKeeps DEF StopTypes
  <2>4. \A v : Receives(p, v) => Receives(p, v)'
    BY <1>1, <2>1 DEF Receives
  <2>5. Going(p)' => Going(p)
    BY <2>1 DEF Going
  <2> QED
    BY <1>1, <2>1, <2>2, <2>3, <2>4, <2>5, RestWakes DEF Alone, StopTypes
<1>4. CASE xfer[p].state = "idle"
  <2> DEFINE x == [xfer[p] EXCEPT !.state = "prompting", !.direction = "receive",
                                  !.tid = t, !.expected = 0]
  <2>1. /\ chan' = Rest(p) /\ xfer' = [xfer EXCEPT ![p] = x]
        /\ cancelled' = cancelled \ {p}
    BY <1>1, <1>4 DEF HandleFileMeta, TypeOK
  <2>2. x.state = "prompting"
    BY <1>1, XferType DEF Transfer
  <2> HIDE DEF x
  <2>3. xfer'[p] = x /\ xfer'[q] = xfer[q]
    BY <1>1, <2>1 DEF TypeOK
  <2>4. Takes(chan[p], chan'[p], m) /\ chan'[q] = chan[q]
    BY <1>1, <2>1, Took
  <2>5. /\ Ends(chan'[p]) \subseteq Ends(chan[p])
        /\ \A v : Stray(chan[p], v) => Stray(chan'[p], v)
    BY <1>1, <2>4, TakesEnds
  <2>6. Alone(p, q)
    BY <1>1, <2>1, <2>3 DEF Alone
  <2>7. \A v : ~Awaits(p, v)' /\ ~Receives(p, v)
    BY <1>4, <2>2, <2>3 DEF Awaits, Going, Receives
  <2>8. Woken(p, q)'
    BY <2>7, SenderRests
  <2>9. Woken(q, p)'
    BY <1>1, <2>4, <2>5, <2>6, <2>7, ReceiverStays
  <2> QED
    BY <2>8, <2>9
<1> QED
  BY <1>3, <1>4

\* The offer whose answer p takes has no chunk under way.
LEMMA HandleReadyWakes ==
  ASSUME NEW p, NEW q, Talk(p, q), Woken(p, q), Woken(q, p), p \in secure,
         HandleReady(p)
  PROVE  Woken(p, q)' /\ Woken(q, p)'
<1> SUFFICES ASSUME NEW m, m = Head(chan[p]), NEW t, t = m.tid
             PROVE  Woken(p, q)' /\ Woken(q, p)'
  OBVIOUS
<1>1. /\ Facts(p, q) /\ TypeOK /\ p \in Peer /\ q \in Peer /\ p # q /\ IsOpen(p)
      /\ chan[p] # <<>> /\ m.type = "ready" /\ chan' = Rest(p)
  BY DEF HandleReady, Dispatch, Talk, Facts, Inv
<1>2. Takes(chan[p], chan'[p], m) /\ chan'[q] = chan[q]
  BY <1>1, Took
<1>3. CASE ~(IsTransferIdValid(p, t) /\ xfer[p].state = "offering")
  <2>1. UNCHANGED <<xfer, cancelled, chain, loop, low>>
    BY <1>3 DEF HandleReady
  <2>2. \A v : Receives(p, v) => Receives(p, v)'
    BY <2>1 DEF Receives
  <2>3. Going(p)' => Going(p)
    BY <2>1 DEF Going
  <2> QED
    BY <1>1, <1>2, <2>1, <2>2, <2>3, KeepsSame, RestWakes DEF Alone, StopTypes
<1>4. CASE IsTransferIdValid(p, t) /\ xfer[p].state = "offering"
  <2> DEFINE x == [xfer[p] EXCEPT !.state = "transferring"]
             l == [pc |-> FirstStep(t), next |-> 1, obj |-> "live"]
  <2>1. /\ xfer' = [xfer EXCEPT ![p] = x] /\ loop' = [loop EXCEPT ![t] = l]
        /\ UNCHANGED <<cancelled, chain, low>>
        /\ t = xfer[p].tid
    BY <1>1, <1>4 DEF HandleReady, TypeOK, IsTransferIdValid
  <2>2. /\ x.state = "transferring" /\ x.tid = t /\ x.stream = xfer[p].stream
        /\ l.obj = "live" /\ l.pc \in {"read", "seal"}
    BY <1>1, <2>1, XferType DEF Transfer, FirstStep
  <2> HIDE DEF x, l
  <2>3. t \in Tid /\ owner[t] = p /\ ~Started(t) /\ xfer[p].stream = NoTid
    BY <1>1, <1>4, <2>1 DEF Facts
  <2>4. /\ xfer'[p] = x /\ xfer'[q] = xfer[q] /\ loop'[t] = l
        /\ \A v \in Tid : owner[v] = q => loop'[v] = loop[v]
    BY <1>1, <2>1, <2>3 DEF TypeOK
  <2>5. t \notin Ends(chan[q])
    <3> SUFFICES ASSUME t \in Ends(chan[q]) PROVE FALSE
      OBVIOUS
    <3>1. PICK i \in 1..Len(chan[q]) :
            chan[q][i].type = "file-end" /\ chan[q][i].tid = t
      BY TidsAre DEF Ends
    <3>2. LoopMessages(q)
      BY DEF Talk, ChunksHaveOnePlace
    <3> QED
      BY <2>3, <3>1, <3>2 DEF LoopMessages, OfLoop
  <2>6. LoopSends(p, q)'
    BY <1>2, <2>2, <2>4, <2>5 DEF LoopSends
  <2>7. Heard(p, q)'
    <3>1. Awaits(p, t)
      BY <1>1, <1>2, <1>4, <2>1 DEF Awaits, Takes
    <3>2. Receives(q, t) \/ t \in Stops(chan[p])
      BY <2>3, <3>1 DEF Woken, Heard
    <3>3. Receives(q, t)' \/ t \in Stops(chan'[p])
      BY <1>1, <1>2, <2>1, <2>4, <3>2 DEF Receives, Takes, StopTypes
    <3> QED
      BY <2>2, <2>4, <3>3 DEF Heard, Awaits
  <2>8. Wakes(p, q)'
    BY <2>2, <2>4 DEF Wakes
  <2>9. Alone(p, q)
    BY <2>1, <2>4 DEF Alone
  <2>10. \A v : ~Receives(p, v)
    BY <1>4 DEF Receives
  <2>11. /\ Ends(chan'[p]) \subseteq Ends(chan[p])
         /\ \A v : Stray(chan[p], v) => Stray(chan'[p], v)
    BY <1>1, <1>2, TakesEnds
  <2>12. Woken(q, p)'
    BY <1>2, <2>1, <2>4, <2>9, <2>10, <2>11, ReceiverStays
  <2> QED
    BY <2>6, <2>7, <2>8, <2>12 DEF Woken
<1> QED
  BY <1>3, <1>4

\* Of a stopped transfer nothing is sent any more.
LEMMA StopIsLast ==
  ASSUME NEW p, NEW q, Talk(p, q), NEW t \in Stops(chan[p]), t # NoTid
  PROVE  ~Awaits(q, t)
<1>1. /\ StopsEnd(q, p) /\ Steady(q) /\ Facts(q, p)
      /\ ~Offers(q, t)
  BY StoppedIsOver DEF Talk, Agree
<1>2. Going(q) => xfer[q].tid # t
  BY DEF Talk, Agree, StopsEnd, Steady, Facts, Going
<1> QED
  BY <1>2, StoppedIsOver DEF Awaits, Offers

LEMMA HandleStopWakes ==
  ASSUME NEW p, NEW q, Talk(p, q), Woken(p, q), Woken(q, p), NEW type,
         HandleStop(p, type)
  PROVE  Woken(p, q)' /\ Woken(q, p)'
<1> SUFFICES ASSUME NEW m, m = Head(chan[p])
             PROVE  Woken(p, q)' /\ Woken(q, p)'
  OBVIOUS
<1>1. /\ chan[p] # <<>> /\ m.type \in StopTypes /\ chan' = Rest(p) /\ Facts(p, q)
  BY DEF HandleStop, Dispatch, Talk, StopTypes
<1>2. /\ Takes(chan[p], chan'[p], m) /\ chan'[q] = chan[q]
      /\ Keeps(chan[q], chan'[q])
  BY <1>1, Took, KeepsSame
<1>3. m.type # "binary"
  BY <1>1 DEF StopTypes
<1>4. CASE ~IsTransferIdValid(p, m.tid)
  <2>1. UNCHANGED <<xfer, cancelled, chain, loop, low>>
    BY <1>4 DEF HandleStop
  <2>2. \A v : Receives(p, v) => Receives(p, v)'
    BY <2>1 DEF Receives
  <2>3. Going(p)' => Going(p)
    BY <2>1 DEF Going
  <2> QED
    BY <1>1, <1>2, <1>3, <1>4, <2>1, <2>2, <2>3, RestWakes
    DEF Alone, IsTransferIdValid
<1>5. CASE IsTransferIdValid(p, m.tid)
  <2>1. ResetInChain(p) /\ m.tid = xfer[p].tid /\ m.tid # NoTid
    BY <1>5 DEF HandleStop, IsTransferIdValid
  <2>2. CASE xfer[p].stream = NoTid
    <3>1. Alone(p, q) /\ Vanishes(p) /\ Replaced(p, loop, "halted")
      BY <2>1, <2>2, OpenResetInChain
    <3> QED
      BY <1>2, <1>3, <2>2, <3>1, VanishWakes
  <2>3. CASE xfer[p].stream # NoTid
    <3>1. xfer[p].state = "transferring"
      BY <1>1, <2>3 DEF Facts
    <3>2. Alone(p, q) /\ UNCHANGED <<xfer, loop, low>>
      BY <2>1, <2>3, OpenResetInChain
    <3>3. m.tid \in Stops(chan[p])
      BY <1>1, <1>2 DEF Takes
    <3>4. \A t : ~(Awaits(q, t) /\ Receives(p, t))
      BY <2>1, <3>3, StopIsLast DEF Receives
    <3> QED
      BY <1>2, <2>3, <3>1, <3>2, <3>4, FileStopsWakes
  <2> QED
    BY <2>2, <2>3
<1> QED
  BY <1>4, <1>5

LEMMA HandleChunkHeaderWakes ==
  ASSUME NEW p, NEW q, Talk(p, q), Woken(p, q), Woken(q, p), HandleChunkHeader(p)
  PROVE  Woken(p, q)' /\ Woken(q, p)'
<1> SUFFICES ASSUME NEW m, m = Head(chan[p])
             PROVE  Woken(p, q)' /\ Woken(q, p)'
  OBVIOUS
<1> DEFINE x == [xfer[p] EXCEPT !.expected = m.idx]
<1>1. /\ chan[p] # <<>> /\ m.type = "file-chunk"
      /\ UNCHANGED <<cancelled, chain, loop, low>>
      /\ chan' = Rest(p) /\ TypeOK /\ p \in Peer /\ q \in Peer /\ p # q
  BY DEF HandleChunkHeader, Dispatch, Talk, Inv, Facts
<1>2. Takes(chan[p], chan'[p], m) /\ chan'[q] = chan[q]
  BY <1>1, Took
<1>3. xfer' = xfer \/ xfer' = [xfer EXCEPT ![p] = x]
  BY <1>1 DEF HandleChunkHeader, TypeOK
<1>4. x.state = xfer[p].state /\ x.tid = xfer[p].tid /\ x.stream = xfer[p].stream
  BY <1>1, XferType DEF Transfer
<1> HIDE DEF x
<1>5. xfer'[q] = xfer[q] /\ xfer'[p] \in {xfer[p], x}
  BY <1>1, <1>3 DEF TypeOK
<1>6. /\ \A v : Receives(p, v) => Receives(p, v)'
      /\ Going(p)' => Going(p)
  BY <1>1, <1>4, <1>5 DEF Receives, Going
<1> QED
  BY <1>1, <1>2, <1>4, <1>5, <1>6, KeepsSame, RestWakes DEF Alone, StopTypes

\* A chunk of another transfer than the one p takes makes p cancel that one.
LEMMA HandleBinaryChunkWakes ==
  ASSUME NEW p, NEW q, Talk(p, q), Woken(p, q), Woken(q, p), p \in secure,
         HandleBinaryChunk(p)
  PROVE  Woken(p, q)' /\ Woken(q, p)'
<1> SUFFICES ASSUME NEW m, m = Head(chan[p])
             PROVE  Woken(p, q)' /\ Woken(q, p)'
  OBVIOUS
<1> DEFINE c == [pc |-> "decrypt", block |-> <<m.tid, m.idx>>,
                 aad |-> <<xfer[p].tid, xfer[p].expected>>,
                 obj |-> "live", handle |-> xfer[p].stream]
           files == xfer[p].state = "transferring" /\ xfer[p].stream # NoTid
<1>1. /\ chan[p] # <<>> /\ m.type = "binary" /\ chain[p].pc = "free"
      /\ Facts(p, q) /\ TypeOK /\ p \in Peer /\ q \in Peer /\ p # q
  BY DEF HandleBinaryChunk, Dispatch, Talk, Inv, Facts
<1>2. \/ /\ ~files
         /\ chan' = Rest(p) /\ UNCHANGED <<xfer, cancelled, chain, loop, low>>
      \/ /\ files /\ xfer[p].expected = 0 /\ ResetInChain(p)
         /\ \/ xfer[p].tid = NoTid /\ chan' = Rest(p)
            \/ chan' = TrySent(Rest(p), p, Msg("cancel-transfer", xfer[p].tid))
      \/ /\ xfer[p].expected # 0
         /\ chan' = Rest(p) /\ chain' = [chain EXCEPT ![p] = c]
         /\ UNCHANGED <<xfer, cancelled, loop, low>>
  BY DEF HandleBinaryChunk
<1>3. c.pc = "decrypt"
  OBVIOUS
<1> HIDE DEF c
<1>4. ASSUME NEW t, Awaits(q, t)
      PROVE  Receives(p, t) \/ t \in Stops(chan[q])
  <2>1. t \in Tid
    BY <1>4, AwaitsOwn DEF Talk, Awaits, Going, Facts
  <2> QED
    BY <1>4, <2>1 DEF Woken, Heard
<1>5. \A t : Awaits(q, t) /\ Receives(p, t) => files /\ t \in Tid
  BY ReceivesFile
<1> HIDE DEF files
<1>6. ASSUME ~files, chan' = Rest(p), UNCHANGED <<xfer, cancelled, chain, loop, low>>
      PROVE  Woken(p, q)' /\ Woken(q, p)'
  <2>1. /\ Takes(chan[p], chan'[p], m) /\ chan'[q] = chan[q]
        /\ Keeps(chan[q], chan'[q])
    BY <1>1, <1>6, Took, KeepsSame
  <2>2. \A t : Awaits(q, t) => t \in Stops(chan'[q])
    BY <1>4, <1>5, <1>6, <2>1
  <2>3. Going(p)' => Going(p)
    BY <1>6 DEF Going
  <2> QED
    BY <1>1, <1>6, <2>1, <2>2, <2>3, RestWakes DEF Alone, StopTypes
<1>7. ASSUME files, ResetInChain(p),
             \/ xfer[p].tid = NoTid /\ chan' = Rest(p)
             \/ chan' = TrySent(Rest(p), p, Msg("cancel-transfer", xfer[p].tid))
      PROVE  Woken(p, q)' /\ Woken(q, p)'
  <2>1. /\ xfer[p].state = "transferring" /\ xfer[p].stream # NoTid
        /\ xfer[p].tid \in TidOrNone
    BY <1>1, <1>7 DEF files, Facts
  <2>2. Alone(p, q) /\ UNCHANGED <<xfer, loop, low>>
    BY <1>7, <2>1, OpenResetInChain
  <2>3. CASE xfer[p].tid = NoTid /\ chan' = Rest(p)
    <3>1. /\ Takes(chan[p], chan'[p], m) /\ Keeps(chan[q], chan'[q])
      BY <1>1, <2>3, Took, KeepsSame
    <3>2. \A t : ~(Awaits(q, t) /\ Receives(p, t))
      BY <1>5, <2>3, TidAssumption DEF Receives
    <3> QED
      BY <2>1, <2>2, <3>1, <3>2, FileStopsWakes
  <2>4. CASE chan' = TrySent(Rest(p), p, Msg("cancel-transfer", xfer[p].tid))
    <3>1. /\ Takes(chan[p], chan'[p], m)
          /\ Tells(chan[q], chan'[q], "cancel-transfer", xfer[p].tid)
      BY <1>1, <2>1, <2>4, TookTold DEF MessageType
    <3>2. Keeps(chan[q], chan'[q]) /\ xfer[p].tid \in Stops(chan'[q])
      BY <3>1, TellsKeeps DEF StopTypes
    <3>3. \A t : Receives(p, t) => t \in Stops(chan'[q])
      BY <3>2 DEF Receives
    <3> QED
      BY <2>1, <2>2, <3>1, <3>2, <3>3, FileStopsWakes
  <2> QED
    BY <1>7, <2>3, <2>4
<1>8. ASSUME xfer[p].expected # 0, chan' = Rest(p), chain' = [chain EXCEPT ![p] = c],
             UNCHANGED <<xfer, cancelled, loop, low>>
      PROVE  Woken(p, q)' /\ Woken(q, p)'
  <2>1. /\ Takes(chan[p], chan'[p], m) /\ chan'[q] = chan[q]
        /\ Keeps(chan[q], chan'[q])
    BY <1>1, <1>8, Took, KeepsSame
  <2>2. chain'[q] = chain[q] /\ chain'[p] = c
    BY <1>1, <1>8 DEF TypeOK
  <2>3. m.tid = xfer[p].tid
    BY <1>1, <1>8, ExpectedComes DEF Talk
  <2>4. /\ \A t : Receives(p, t) => Receives(p, t)'
        /\ Going(p)' => Going(p)
    BY <1>3, <1>8, <2>2 DEF Receives, Going
  <2>5. \A t : Awaits(q, t) /\ m.tid # t => t \in Stops(chan'[q])
    BY <1>4, <2>1, <2>3 DEF Receives
  <2> QED
    BY <1>1, <1>8, <2>1, <2>2, <2>4, <2>5, RestWakes DEF Alone, StopTypes
<1> QED
  BY <1>2, <1>6, <1>7, <1>8

LEMMA GiveUpWakes ==
  ASSUME NEW p, NEW q, Talk(p, q), Woken(q, p), chain[p].pc \in {"decrypt", "write"},
         GiveUp(p)
  PROVE  Woken(p, q)' /\ Woken(q, p)'
<1>1. /\ chain[p].aad[1] = xfer[p].tid /\ xfer[p].stream # NoTid
      /\ xfer[p].state = "transferring" /\ xfer[p].tid \in TidOrNone
  BY GivesUpCurrent DEF Talk, Facts
<1>2. ResetInChain(p) /\ chan' = TrySent(chan, p, Msg("cancel-transfer", xfer[p].tid))
  BY <1>1 DEF GiveUp
<1>3. /\ Tells(chan[q], chan'[q], "cancel-transfer", xfer[p].tid)
      /\ chan'[p] = chan[p]
  BY <1>1, <1>2, Told DEF MessageType
<1>4. Keeps(chan[q], chan'[q]) /\ xfer[p].tid \in Stops(chan'[q])
  BY <1>3, TellsKeeps DEF StopTypes
<1>5. \A t : Receives(p, t) => t \in Stops(chan'[q])
  BY <1>4 DEF Receives
<1>6. Alone(p, q) /\ UNCHANGED <<xfer, loop, low>>
  BY <1>1, <1>2, OpenResetInChain
<1> QED
  BY <1>1, <1>3, <1>4, <1>5, <1>6, FileStopsWakes

LEMMA DecryptDoneWakes ==
  ASSUME NEW p, NEW q, Talk(p, q), Woken(p, q), Woken(q, p), DecryptDone(p)
  PROVE  Woken(p, q)' /\ Woken(q, p)'
<1> DEFINE x == [xfer[p] EXCEPT !.expected = 0]
           c == [chain[p] EXCEPT !.pc = "write"]
<1>1. /\ chain[p].pc = "decrypt" /\ TypeOK /\ p \in Peer /\ q \in Peer /\ p # q
  BY DEF DecryptDone, Talk, Inv, Facts
<1>2. \/ GiveUp(p)
      \/ /\ xfer' = xfer \/ xfer' = [xfer EXCEPT ![p] = x]
         /\ chain' = [chain EXCEPT ![p] = c]
         /\ UNCHANGED <<cancelled, chan, loop, low>>
  BY <1>1 DEF DecryptDone, TypeOK
<1>3. /\ x.state = xfer[p].state /\ x.tid = xfer[p].tid /\ x.stream = xfer[p].stream
      /\ c.pc = "write"
  BY <1>1, XferType DEF Transfer, TypeOK, Handler
<1> HIDE DEF x, c
<1>4. ASSUME xfer' = xfer \/ xfer' = [xfer EXCEPT ![p] = x],
             chain' = [chain EXCEPT ![p] = c], UNCHANGED <<cancelled, chan, loop, low>>
      PROVE  Woken(p, q)' /\ Woken(q, p)'
  <2>1. /\ xfer'[q] = xfer[q] /\ xfer'[p] \in {xfer[p], x}
        /\ chain'[q] = chain[q] /\ chain'[p] = c
    BY <1>1, <1>4 DEF TypeOK
  <2>2. /\ \A t : Receives(p, t) => Receives(p, t)'
        /\ Going(p)' => Going(p)
    BY <1>3, <2>1 DEF Receives, Going
  <2> QED
    BY <1>3, <1>4, <2>1, <2>2, KeepsSame, RestWakes DEF Alone
<1> QED
  BY <1>1, <1>2, <1>4, GiveUpWakes

LEMMA WriteDoneWakes ==
  ASSUME NEW p, NEW q, Talk(p, q), Woken(p, q), Woken(q, p), WriteDone(p)
  PROVE  Woken(p, q)' /\ Woken(q, p)'
<1>1. /\ UNCHANGED <<xfer, cancelled, chan, loop, low>>
      /\ chain' = [chain EXCEPT ![p] = FreeChain]
      /\ TypeOK /\ p \in Peer /\ q \in Peer /\ p # q
  BY DEF WriteDone, Talk, Inv, Facts
<1>2. chain'[q] = chain[q] /\ chain'[p].pc = "free"
  BY <1>1 DEF TypeOK, FreeChain
<1>3. /\ \A t : Receives(p, t) => Receives(p, t)'
      /\ Going(p)' => Going(p)
  BY <1>1, <1>2 DEF Receives, Going
<1> QED
  BY <1>1, <1>2, <1>3, KeepsSame, RestWakes DEF Alone

LEMMA WriteErrorWakes ==
  ASSUME NEW p, NEW q, Talk(p, q), Woken(p, q), Woken(q, p), WriteError(p)
  PROVE  Woken(p, q)' /\ Woken(q, p)'
BY GiveUpWakes DEF WriteError

\* Of an ended file nothing is sent any more.
LEMMA EndIsSent ==
  ASSUME NEW p, NEW q, Talk(p, q), Woken(q, p), chan[p] # <<>>,
         NEW m, m = Head(chan[p]), m.type = "file-end", m.tid \in Ends(chan[p])
  PROVE  ~Awaits(q, m.tid)
<1>1. Started(m.tid)
  BY EndComes DEF Talk
<1>2. ~Going(q) \/ xfer[q].tid # m.tid
  BY DEF Woken, LoopSends
<1> QED
  BY <1>1, <1>2 DEF Awaits, Talk, Facts

LEMMA HandleFileEndWakes ==
  ASSUME NEW p, NEW q, Talk(p, q), Woken(p, q), Woken(q, p), HandleFileEnd(p)
  PROVE  Woken(p, q)' /\ Woken(q, p)'
<1> SUFFICES ASSUME NEW m, m = Head(chan[p])
             PROVE  Woken(p, q)' /\ Woken(q, p)'
  OBVIOUS
<1> DEFINE x == [xfer[p] EXCEPT !.state = "idle"]
           c == [FreeChain EXCEPT !.pc = "close", !.handle = xfer[p].stream]
<1>1. /\ chan[p] # <<>> /\ m.type = "file-end"
      /\ UNCHANGED <<cancelled, loop, low>> /\ chan' = Rest(p)
      /\ TypeOK /\ p \in Peer /\ q \in Peer /\ p # q /\ q = Other(p)
  BY DEF HandleFileEnd, Dispatch, Talk, Inv, Facts
<1>2. /\ Takes(chan[p], chan'[p], m) /\ chan'[q] = chan[q]
      /\ Keeps(chan[q], chan'[q])
  BY <1>1, Took, KeepsSame
<1>3. \/ UNCHANGED <<xfer, chain>>
      \/ /\ m.tid = xfer[p].tid
         /\ \/ xfer' = [xfer EXCEPT ![p] = x] /\ UNCHANGED chain
            \/ xfer' = xfer /\ chain' = [chain EXCEPT ![p] = c]
            \/ xfer' = FileEnded(p) /\ UNCHANGED chain
  BY <1>1 DEF HandleFileEnd, TypeOK, IsTransferIdValid
<1>4. x.state = "idle" /\ x.tid = xfer[p].tid
  BY <1>1, XferType DEF Transfer
<1> HIDE DEF x, c
<1>5. CASE UNCHANGED <<xfer, chain>>
  <2>1. /\ \A t : Receives(p, t) => Receives(p, t)'
        /\ Going(p)' => Going(p)
    BY <1>5 DEF Receives, Going
  <2> QED
    BY <1>1, <1>2, <1>5, <2>1, RestWakes DEF Alone, StopTypes
<1>6. ASSUME m.tid = xfer[p].tid,
             \/ xfer' = [xfer EXCEPT ![p] = x] /\ UNCHANGED chain
             \/ xfer' = xfer /\ chain' = [chain EXCEPT ![p] = c]
             \/ xfer' = FileEnded(p) /\ UNCHANGED chain
      PROVE  Woken(p, q)' /\ Woken(q, p)'
  <2>1. m.tid \in Ends(chan[p])
    BY <1>1, <1>2 DEF Takes
  <2>2. \A t : ~(Awaits(q, t) /\ Receives(p, t))
    BY <1>1, <1>6, <2>1, EndIsSent DEF Receives
  <2>3. /\ xfer'[q] = xfer[q] /\ chain'[q] = chain[q]
        /\ xfer'[p].tid = xfer[p].tid
        /\ xfer'[p].state = "idle" \/ xfer'[p] = xfer[p]
    <3>1. CASE xfer' = [xfer EXCEPT ![p] = x] /\ UNCHANGED chain
      BY <1>1, <1>4, <3>1 DEF TypeOK
    <3>2. CASE xfer' = xfer /\ chain' = [chain EXCEPT ![p] = c]
      BY <1>1, <3>2 DEF TypeOK
    <3>3. CASE xfer' = FileEnded(p) /\ UNCHANGED chain
      BY <1>1, <3>3, FileEndedIs
    <3> QED
      BY <1>6, <3>1, <3>2, <3>3
  <2>4. Going(p)' => Going(p)
    BY <2>3 DEF Going
  <2> QED
    BY <1>1, <1>2, <2>2, <2>3, <2>4, RestWakes DEF Alone, StopTypes
<1> QED
  BY <1>3, <1>5, <1>6

LEMMA CloseDoneWakes ==
  ASSUME NEW p, NEW q, Talk(p, q), Woken(p, q), Woken(q, p), NEW status,
         CloseDone(p, status)
  PROVE  Woken(p, q)' /\ Woken(q, p)'
<1>1. /\ chain[p].pc = "close" /\ UNCHANGED <<cancelled, chan, loop, low>>
      /\ chain' = [chain EXCEPT ![p] = FreeChain] /\ xfer' = FileEnded(p)
      /\ TypeOK /\ p \in Peer /\ q \in Peer /\ p # q /\ q = Other(p)
  BY DEF CloseDone, Talk, Inv, Facts
<1>2. chain'[q] = chain[q]
  BY <1>1 DEF TypeOK
<1>3. /\ xfer'[p].state = "idle" /\ xfer'[p].tid = xfer[p].tid
      /\ xfer'[q] = xfer[q]
  BY <1>1, FileEndedIs
<1>4. /\ \A t : ~Receives(p, t)
      /\ ~Going(p)'
  BY <1>1, <1>3 DEF Receives, Going
<1> QED
  BY <1>1, <1>2, <1>3, <1>4, KeepsSame, RestWakes DEF Alone

LEMMA FinishChainResetWakes ==
  ASSUME NEW p, NEW q, Talk(p, q), Woken(q, p), FinishChainReset(p)
  PROVE  Woken(p, q)' /\ Woken(q, p)'
<1>1. /\ chain[p].pc = "reset" /\ UNCHANGED chan
      /\ chain' = [chain EXCEPT ![p] = FreeChain]
      /\ Replaced(p, loop, OldObject(p))
      /\ TypeOK /\ p \in Peer /\ q \in Peer /\ p # q
  BY DEF FinishChainReset, Talk, Inv, Facts
<1>2. chain'[q] = chain[q] /\ chain'[p].pc = "free"
  BY <1>1 DEF TypeOK, FreeChain
<1>3. Alone(p, q) /\ Vanishes(p)
  BY <1>1, <1>2, ReplacedOpen DEF Alone, Vanishes, InitialTransferState
<1>4. PICK m : m.type = "ready"
  BY SomeMessage
<1> QED
  BY <1>1, <1>3, <1>4, VanishWakes

-----------------------------------------------------------------------------
(* The steps of the chunk loops *)

\* A loop of p's does not change what q sends.
LEMMA LoopStepWakes ==
  ASSUME NEW p, NEW q, Talk(p, q), Woken(q, p), NEW t \in Tid, owner[t] = p,
         \A v \in Tid : v # t => loop'[v] = loop[v],
         cancelled' = cancelled, chain' = chain, low'[q] = low[q],
         chan'[p] = chan[p], SameTalk(chan[q], chan'[q]),
         xfer'[q] = xfer[q], xfer'[p] = xfer[p] \/ xfer[p].stream = NoTid
  PROVE  Alone(p, q) /\ Woken(q, p)'
<1>1. p # q
  BY DEF Talk, Facts
<1>2. Alone(p, q)
  BY DEF Alone
<1>3. ASSUME NEW v, Awaits(q, v), Receives(p, v) PROVE Receives(p, v)'
  BY <1>3, ReceivesFile DEF Receives
<1>4. /\ Stops(chan[q]) \subseteq Stops(chan'[q])
      /\ Readies(chan'[q]) \subseteq Readies(chan[q])
  BY DEF SameTalk
<1>5. Woken(q, p)'
  BY <1>1, <1>2, <1>3, <1>4, ReceiverStays
<1> QED
  BY <1>2, <1>5

\* The loop of the transfer that p sends goes on.
LEMMA NotHalted ==
  ASSUME NEW p, NEW q, Talk(p, q), LoopSends(p, q), Going(p),
         NEW t, t = xfer[p].tid
  PROVE  ~Halted(t) /\ owner[t] = p /\ t \in Tid
<1>1. Facts(p, q) /\ Steady(p) /\ IsOpen(p)
  BY DEF Talk, Agree
<1>2. owner[t] = p /\ t \in Tid /\ xfer[p].stream = NoTid
  BY <1>1 DEF Facts, Going
<1>3. p \notin cancelled
  BY <1>1, <1>2 DEF Facts, Steady
<1>4. loop[t].obj = "live"
  BY DEF LoopSends
<1> QED
  BY <1>1, <1>2, <1>3, <1>4 DEF Halted, Cancelled

LEMMA ReadDoneWakes ==
  ASSUME NEW p, NEW q, Talk(p, q), Woken(p, q), Woken(q, p), NEW t \in Tid,
         owner[t] = p, ReadDone(t)
  PROVE  Woken(p, q)' /\ Woken(q, p)'
<1> DEFINE l == [loop[t] EXCEPT !.pc = IF Halted(t) THEN "off" ELSE "seal"]
<1>1. /\ UNCHANGED <<xfer, cancelled, chain, chan, low>>
      /\ loop' = [loop EXCEPT ![t] = l]
      /\ l.pc = (IF Halted(t) THEN "off" ELSE "seal") /\ l.obj = loop[t].obj
  BY DEF ReadDone, Talk, Inv, TypeOK, Loop
<1> HIDE DEF l
<1>2. /\ Alone(p, q) /\ Woken(q, p)' /\ loop'[t] = l
      /\ \A v \in Tid : v # t => loop'[v] = loop[v]
  <2>1. /\ loop'[t] = l
        /\ \A v \in Tid : v # t => loop'[v] = loop[v]
    BY <1>1 DEF Talk, Inv, TypeOK
  <2> QED
    BY <1>1, <2>1, LoopStepWakes, SameSame
<1>3. Going(p)' <=> Going(p)
  BY <1>1 DEF Going
<1>4. CASE Going(p) /\ xfer[p].tid = t
  <2>1. ~Halted(t) /\ l.pc = "seal"
    BY <1>1, <1>4, NotHalted DEF Woken
  <2>2. LoopSends(p, q)' /\ Wakes(p, q)'
    BY <1>1, <1>2, <1>4, <2>1 DEF Woken, LoopSends, Wakes
  <2>3. Heard(p, q)'
    BY <1>1, <1>3 DEF Woken, Heard, Awaits, Receives
  <2> QED
    BY <1>2, <2>2, <2>3 DEF Woken
<1>5. CASE ~(Going(p) /\ xfer[p].tid = t)
  <2>1. Going(p) => loop'[xfer[p].tid] = loop[xfer[p].tid]
    BY <1>2, <1>5 DEF Talk, Facts, Going
  <2>2. \A v : Awaits(p, v)' => Awaits(p, v)
    BY <1>1, <1>3 DEF Awaits
  <2>3. Woken(p, q)'
    BY <1>1, <1>2, <1>3, <2>1, <2>2, SenderStays
  <2> QED
    BY <1>2, <2>3
<1> QED
  BY <1>4, <1>5

\* What a chunk leaves of the messages about transfers.
LEMMA ChunkLeaves ==
  ASSUME NEW p, NEW q, Talk(p, q), NEW t \in Tid, NEW ms,
         Carries(ms, t, loop[t].next), chan' = Sent(chan, p, ms)
  PROVE  /\ chan'[p] = chan[p] /\ SameTalk(chan[q], chan'[q])
         /\ Ends(chan'[q]) \subseteq Ends(chan[q]) \cup {t}
         /\ loop[t].next # Chunks(t) => Ends(chan'[q]) = Ends(chan[q])
         /\ \A v : Stray(chan[q], v) \/ v # t => Stray(chan'[q], v)
<1>1. /\ chan'[p] = chan[p] /\ SameTalk(chan[q], chan'[q])
      /\ Carried(chan[q], chan'[q], t, loop[t].next)
      /\ AddsChunk(chan[q], chan'[q], t, loop[t].next)
      /\ chan[q] \in Seq(Message) /\ chan'[q] \in Seq(Message)
      /\ loop[t].next \in Nat
  BY SendsSame DEF Talk, Inv, TypeOK, Loop
<1>2. Len(chan'[q]) = Len(chan[q]) + 3 => loop[t].next = Chunks(t)
  BY <1>1, AddsChunkIs
<1>3. /\ \A T : TidsOf(chan[q], T) \subseteq TidsOf(chan'[q], T)
      /\ Ends(chan'[q]) \subseteq Ends(chan[q]) \cup {t}
      /\ Len(chan'[q]) # Len(chan[q]) + 3 => Ends(chan'[q]) = Ends(chan[q])
      /\ t \in TidsOf(chan'[q], {"binary"})
  BY <1>1, TidsAdds
<1>4. \A v : Stray(chan[q], v) \/ v # t => Stray(chan'[q], v)
  BY <1>3 DEF Stray
<1> QED
  BY <1>1, <1>2, <1>3, <1>4

\* The loop of a cancelled transfer may take the wake-up, but then its chunk is
\* on the way.
LEMMA SendChunkWakes ==
  ASSUME NEW p, NEW q, Talk(p, q), Woken(p, q), Woken(q, p), NEW t \in Tid,
         owner[t] = p, SendChunk(t)
  PROVE  Woken(p, q)' /\ Woken(q, p)'
<1>1. /\ TypeOK /\ p \in Peer /\ q \in Peer /\ p # q
      /\ UNCHANGED <<xfer, cancelled, chain>>
      /\ chan' = Sent(chan, p, <<ChunkHeader(t, loop[t].next), Binary(t, loop[t].next)>>)
      /\ loop[t].next # Chunks(t)
  BY DEF SendChunk, IsLast, Talk, Facts, Inv
<1>2. PICK pc :
        /\ loop' = [loop EXCEPT ![t].pc = pc, ![t].next = loop[t].next + 1]
        /\ \/ pc = "wait" /\ low' = [low EXCEPT ![p] = t]
           \/ pc = (IF Halted(t) THEN "off" ELSE "read") /\ UNCHANGED low
  BY DEF SendChunk
<1> DEFINE l == [loop[t] EXCEPT !.pc = pc, !.next = loop[t].next + 1]
<1>3. loop' = [loop EXCEPT ![t] = l]
  BY <1>1, <1>2 DEF TypeOK
<1>4. l.pc = pc /\ l.obj = loop[t].obj
  BY <1>1 DEF TypeOK, Loop
<1> HIDE DEF l
<1>5. /\ low'[q] = low[q] /\ loop'[t] = l
      /\ \/ pc = "wait" /\ low'[p] = t
         \/ pc = (IF Halted(t) THEN "off" ELSE "read") /\ low'[p] = low[p]
      /\ \A v \in Tid : v # t => loop'[v] = loop[v]
  BY <1>1, <1>2, <1>3 DEF TypeOK
<1>6. /\ chan'[p] = chan[p] /\ SameTalk(chan[q], chan'[q])
      /\ Ends(chan'[q]) = Ends(chan[q])
      /\ \A v : Stray(chan[q], v) \/ v # t => Stray(chan'[q], v)
  BY <1>1, ChunkLeaves DEF Carries
<1>7. Alone(p, q) /\ Woken(q, p)'
  BY <1>1, <1>5, <1>6, LoopStepWakes
<1>8. /\ Going(p)' <=> Going(p)
      /\ \A v : Awaits(p, v)' => Awaits(p, v)
  BY <1>1, <1>6 DEF Going, Awaits
<1>9. CASE Going(p)
  <2>1. xfer[p].tid \in Tid
    BY <1>9 DEF Going, Talk, Facts
  <2>2. Heard(p, q)'
    BY <1>1, <1>6, <1>8 DEF Woken, Heard, Receives, Awaits
  <2>3. LoopSends(p, q)'
    BY <1>1, <1>4, <1>5, <1>6, <1>9, <2>1 DEF Woken, LoopSends
  <2>4. CASE xfer[p].tid = t
    <3>1. ~Halted(t)
      BY <1>9, <2>4, NotHalted DEF Woken
    <3>2. Wakes(p, q)'
      BY <1>1, <1>4, <1>5, <2>4, <3>1 DEF Wakes
    <3> QED
      BY <1>7, <2>2, <2>3, <3>2 DEF Woken
  <2>5. CASE xfer[p].tid # t
    <3>1. Wakes(p, q)'
      BY <1>1, <1>6, <2>5 DEF Wakes
    <3> QED
      BY <1>7, <2>2, <2>3, <3>1 DEF Woken
  <2> QED
    BY <2>4, <2>5
<1>10. CASE ~Going(p)
  <2>1. Woken(p, q)'
    BY <1>1, <1>6, <1>7, <1>8, <1>10, SenderStays
  <2> QED
    BY <1>7, <2>1
<1> QED
  BY <1>9, <1>10

LEMMA SendLastChunkWakes ==
  ASSUME NEW p, NEW q, Talk(p, q), Woken(p, q), Woken(q, p), NEW t \in Tid,
         owner[t] = p, SendLastChunk(t)
  PROVE  Woken(p, q)' /\ Woken(q, p)'
<1> DEFINE x == [xfer[p] EXCEPT !.state = "idle"]
           l == [loop[t] EXCEPT !.pc = "off"]
<1>1. /\ UNCHANGED <<cancelled, chain, low>> /\ loop[t].pc = "seal"
      /\ chan' = Sent(chan, p, LastMessages(t, loop[t].next))
      /\ loop[t].next = Chunks(t) /\ loop' = [loop EXCEPT ![t] = l]
      /\ xfer' = IF loop[t].obj = "live" THEN [xfer EXCEPT ![p] = x] ELSE xfer
      /\ TypeOK /\ p \in Peer /\ q \in Peer /\ p # q /\ q = Other(p)
  BY DEF SendLastChunk, IsLast, Completed, Talk, Facts, Inv, TypeOK
<1>2. x.state = "idle" /\ x.tid = xfer[p].tid
  BY <1>1, XferType DEF Transfer
<1> HIDE DEF x, l
<1>3. /\ xfer'[q] = xfer[q] /\ xfer'[p] = IF loop[t].obj = "live" THEN x ELSE xfer[p]
  BY <1>1 DEF TypeOK
<1>4. /\ chan'[p] = chan[p] /\ SameTalk(chan[q], chan'[q])
      /\ Ends(chan'[q]) \subseteq Ends(chan[q]) \cup {t}
      /\ \A v : Stray(chan[q], v) \/ v # t => Stray(chan'[q], v)
  <2>1. PICK ms : ms = LastMessages(t, loop[t].next)
    OBVIOUS
  <2>2. Carries(ms, t, loop[t].next) /\ chan' = Sent(chan, p, ms)
    BY <1>1, <2>1 DEF Carries
  <2>3. /\ chan'[p] = chan[p] /\ SameTalk(chan[q], chan'[q])
        /\ Ends(chan'[q]) \subseteq Ends(chan[q]) \cup {t}
    BY <2>2, ChunkLeaves
  <2>4. \A v : Stray(chan[q], v) \/ v # t => Stray(chan'[q], v)
    BY <2>2, ChunkLeaves
  <2> QED
    BY <2>3, <2>4
<1>5. /\ loop[t].obj = "live" => xfer[p].tid = t
      /\ Started(t)
  BY <1>1 DEF Talk, ChunksHaveOnePlace, LoopCounts
<1>6. loop[t].obj = "live" => xfer[p].stream = NoTid
  <2>1. TransferState(p)
    BY DEF Talk, ChunksHaveOnePlace, ObjectStates
  <2> QED
    BY <1>1, <1>5, <2>1, TidAssumption DEF TransferState, Incoming
<1>7. /\ Alone(p, q) /\ Woken(q, p)' /\ loop'[t] = l
      /\ \A v \in Tid : v # t => loop'[v] = loop[v]
  <2>1. /\ loop'[t] = l
        /\ \A v \in Tid : v # t => loop'[v] = loop[v]
    BY <1>1 DEF TypeOK
  <2> QED
    BY <1>1, <1>3, <1>4, <1>6, <2>1, LoopStepWakes
<1>8. CASE xfer[p].tid = t
  <2>1. xfer[p].state # "offering"
    BY <1>5, <1>8 DEF Talk, Facts
  <2>2. Going(p) => loop[t].obj = "live"
    BY <1>8 DEF Woken, LoopSends
  <2>3. xfer'[p].state # "offering" /\ ~Going(p)'
    BY <1>2, <1>3, <2>1, <2>2 DEF Going
  <2>4. \A v : ~Awaits(p, v)'
    BY <2>3 DEF Awaits
  <2>5. Woken(p, q)'
    BY <2>4, SenderRests
  <2> QED
    BY <1>7, <2>5
<1>9. CASE xfer[p].tid # t
  <2>1. xfer'[p] = xfer[p]
    BY <1>3, <1>5, <1>9
  <2>2. /\ Going(p)' <=> Going(p)
        /\ Going(p) => xfer[p].tid \in Tid
    BY <2>1 DEF Going, Talk, Facts
  <2>3. LoopSends(p, q)'
    BY <1>4, <1>7, <1>9, <2>1, <2>2 DEF Woken, LoopSends
  <2>4. Heard(p, q)'
    BY <1>1, <1>3, <1>4, <2>1, <2>2 DEF Woken, Heard, Awaits, Receives
  <2>5. Wakes(p, q)'
    BY <1>4, <1>9, <2>1 DEF Wakes
  <2> QED
    BY <1>7, <2>3, <2>4, <2>5 DEF Woken
<1> QED
  BY <1>8, <1>9

LEMMA BufferedAmountLowWakes ==
  ASSUME NEW p, NEW q, Talk(p, q), Woken(p, q), Woken(q, p), BufferedAmountLow(p)
  PROVE  Woken(p, q)' /\ Woken(q, p)'
<1> SUFFICES ASSUME NEW t, t = low[p] PROVE Woken(p, q)' /\ Woken(q, p)'
  OBVIOUS
<1> DEFINE l == [loop[t] EXCEPT !.pc = IF Halted(t) THEN "off" ELSE "read"]
<1>1. t \in Tid /\ owner[t] = p /\ low \in [Peer -> TidOrNone] /\ p \in Peer
      /\ q \in Peer /\ p # q
  BY DEF BufferedAmountLow, Talk, Facts, Inv, TypeOK, FilesHaveOnePlace, OwnLoops,
         TidOrNone
<1>2. /\ UNCHANGED <<xfer, cancelled, chain, chan>>
      /\ loop' = [loop EXCEPT ![t] = l] /\ low' = [low EXCEPT ![p] = NoTid]
      /\ l.pc = (IF Halted(t) THEN "off" ELSE "read") /\ l.obj = loop[t].obj
  BY <1>1 DEF BufferedAmountLow, Talk, Inv, TypeOK, Loop
<1> HIDE DEF l
<1>3. low'[q] = low[q]
  BY <1>1, <1>2
<1>4. /\ Alone(p, q) /\ Woken(q, p)' /\ loop'[t] = l
      /\ \A v \in Tid : v # t => loop'[v] = loop[v]
  <2>1. /\ loop'[t] = l
        /\ \A v \in Tid : v # t => loop'[v] = loop[v]
    BY <1>1, <1>2 DEF Talk, Inv, TypeOK
  <2> QED
    BY <1>1, <1>2, <1>3, <2>1, LoopStepWakes, SameSame
<1>5. /\ Going(p)' <=> Going(p)
      /\ Going(p) => xfer[p].tid \in Tid
  BY <1>2 DEF Going, Talk, Facts
<1>6. Heard(p, q)'
  BY <1>2, <1>5 DEF Woken, Heard, Awaits, Receives
<1>7. CASE Going(p) /\ xfer[p].tid = t
  <2>1. ~Halted(t) /\ l.pc = "read"
    BY <1>2, <1>7, NotHalted DEF Woken
  <2> QED
    BY <1>2, <1>4, <1>6, <1>7, <2>1 DEF Woken, LoopSends, Wakes
<1>8. CASE ~(Going(p) /\ xfer[p].tid = t)
  <2>1. Going(p) => loop'[xfer[p].tid] = loop[xfer[p].tid] /\ low[p] # xfer[p].tid
    BY <1>4, <1>5, <1>8
  <2>2. LoopSends(p, q)' /\ Wakes(p, q)'
    BY <1>2, <1>5, <2>1 DEF Woken, LoopSends, Wakes
  <2> QED
    BY <1>4, <1>6, <2>2 DEF Woken
<1> QED
  BY <1>7, <1>8

-----------------------------------------------------------------------------
(* No sender is stuck *)

LEMMA PeerWakes ==
  ASSUME NEW p, NEW q, Talk(p, q), StreamsHeld', AllOpen', secure = Peer,
         Woken(p, q), Woken(q, p),
         \/ User(p) \/ MessageChain(p) \/ Aborts(p) \/ BufferedAmountLow(p)
         \/ CloseChannel(p) \/ HandshakeDone(p)
  PROVE  Woken(p, q)' /\ Woken(q, p)'
<1>1. CASE User(p)
  BY <1>1, OfferWakes, AcceptWakes, PickerSaveWakes, UserCancelsWakes DEF User
<1>2. CASE MessageChain(p)
  <2>1. p \in secure
    BY DEF Talk
  <2> QED
    BY <1>2, <2>1, HandleFileMetaWakes, HandleReadyWakes, HandleStopWakes,
       HandleChunkHeaderWakes, HandleBinaryChunkWakes, DecryptDoneWakes,
       WriteDoneWakes, WriteErrorWakes, HandleFileEndWakes, CloseDoneWakes,
       FinishChainResetWakes
    DEF MessageChain
<1>3. CASE CloseChannel(p)
  <2>1. ~IsOpen(p)' /\ p \in Peer
    BY <1>3 DEF CloseChannel, IsOpen, Talk, Inv, TypeOK
  <2> QED
    BY <2>1 DEF AllOpen
<1>4. CASE HandshakeDone(p)
  BY <1>4 DEF HandshakeDone, Talk
<1> QED
  BY <1>1, <1>2, <1>3, <1>4, BufferedAmountLowWakes, NoAbort DEF Aborts

LEMMA SendLoopWakes ==
  ASSUME NEW p, NEW q, Talk(p, q), Woken(p, q), Woken(q, p), NEW t \in Tid,
         owner[t] = p, "read-error" \notin Env, SendLoop(t)
  PROVE  Woken(p, q)' /\ Woken(q, p)'
<1>1. IsOpen(p)
  BY DEF Talk
<1> QED
  BY <1>1, ReadDoneWakes, SendChunkWakes, SendLastChunkWakes
  DEF SendLoop, ReadError, SendFails

\* Nobody loses a key.
LEMMA StaysSecure ==
  ASSUME secure = Peer, [Next]_vars
  PROVE  UNCHANGED secure
<1>1. ASSUME NEW p \in Peer, User(p) PROVE UNCHANGED secure
  BY <1>1 DEF User, Offer, Accept, PickerSave, PickerAbort, Reject, Cancel
<1>2. ASSUME NEW p \in Peer, MessageChain(p) PROVE UNCHANGED secure
  BY <1>2
  DEF MessageChain, HandleFileMeta, HandleReady, HandleStop, HandleChunkHeader,
      HandleBinaryChunk, DecryptDone, WriteDone, WriteError, HandleFileEnd,
      CloseDone, FinishChainReset, Dispatch
<1>3. ASSUME NEW p \in Peer,
             Aborts(p) \/ BufferedAmountLow(p) \/ CloseChannel(p) \/ HandshakeDone(p)
      PROVE  UNCHANGED secure
  BY <1>3 DEF Aborts, FinishAbort, BufferedAmountLow, CloseChannel, HandshakeDone
<1>4. ASSUME NEW t \in Tid, SendLoop(t) PROVE UNCHANGED secure
  BY <1>4 DEF SendLoop, ReadDone, ReadError, SendChunk, SendLastChunk, SendFails
<1>5. UNCHANGED vars => UNCHANGED secure
  BY DEF vars
<1> QED
  BY <1>1, <1>2, <1>3, <1>4, <1>5 DEF Next

LEMMA SendersWokenOf ==
  ASSUME secure' = Peer, NEW p \in Peer, NEW q, q = Other(p),
         AllOpen' => Woken(p, q)' /\ Woken(q, p)'
  PROVE  SendersWoken'
<1>1. q \in Peer /\ p = Other(q) /\ \A r \in Peer : r = p \/ r = q
  BY OtherOther
<1>2. ASSUME AllOpen', NEW r \in Peer, NEW o, o = Other(r) PROVE Woken(r, o)'
  <2>1. (r = p /\ o = q) \/ (r = q /\ o = p)
    BY <1>1, <1>2
  <2>2. CASE r = p /\ o = q
    BY <1>2, <2>2
  <2>3. CASE r = q /\ o = p
    BY <1>2, <2>3
  <2> QED
    BY <2>1, <2>2, <2>3
<1>3. ASSUME AllOpen', NEW r \in Peer PROVE Woken(r, Other(r))'
  BY <1>2, <1>3
<1> QED
  BY <1>3 DEF SendersWoken

LEMMA WokenOf ==
  ASSUME SendersWoken, AllOpen, NEW p, NEW q, Talk(p, q)
  PROVE  Woken(p, q) /\ Woken(q, p)
<1>1. p = Other(q)
  BY OtherOther DEF Talk
<1> QED
  BY <1>1 DEF SendersWoken, Talk

LEMMA NextWakes ==
  ASSUME Inv, ChunksHaveOnePlace, StreamsHeld, Agreement, SendersWoken,
         StreamsHeld', "read-error" \notin Env, [Next]_vars
  PROVE  SendersWoken'
<1>1. secure = Peer /\ secure' = Peer
  BY StaysSecure DEF SendersWoken
<1>2. ASSUME NEW p \in Peer,
             \/ User(p) \/ MessageChain(p) \/ Aborts(p) \/ BufferedAmountLow(p)
             \/ CloseChannel(p) \/ HandshakeDone(p)
      PROVE  SendersWoken'
  <2> SUFFICES ASSUME AllOpen', NEW q, q = Other(p)
               PROVE  Woken(p, q)' /\ Woken(q, p)'
    BY <1>1, SendersWokenOf
  <2>1. AllOpen
    BY <1>2, OpenBefore DEF Next
  <2>2. Talk(p, q)
    BY <2>1, TalkOf
  <2>3. Woken(p, q) /\ Woken(q, p)
    BY <2>1, <2>2, WokenOf
  <2> QED
    BY <1>1, <1>2, <2>2, <2>3, PeerWakes
<1>3. ASSUME NEW t \in Tid, SendLoop(t) PROVE SendersWoken'
  <2>1. owner[t] \in Peer
    BY <1>3 DEF SendLoop, ReadDone, ReadError, SendChunk, SendLastChunk, SendFails,
                Inv, FilesHaveOnePlace, OwnLoops
  <2> SUFFICES ASSUME AllOpen', NEW p, p = owner[t], NEW q, q = Other(p)
               PROVE  Woken(p, q)' /\ Woken(q, p)'
    BY <1>1, <2>1, SendersWokenOf
  <2>2. AllOpen
    BY <1>3, OpenBefore DEF Next
  <2>3. Talk(p, q)
    BY <2>1, <2>2, TalkOf
  <2>4. Woken(p, q) /\ Woken(q, p)
    BY <2>2, <2>3, WokenOf
  <2> QED
    BY <1>3, <2>3, <2>4, SendLoopWakes
<1>4. ASSUME UNCHANGED vars PROVE SendersWoken'
  BY <1>4 DEF vars, SendersWoken, AllOpen, IsOpen, Woken, LoopSends, Heard, Wakes,
              Going, Awaits, Receives
<1> QED
  BY <1>2, <1>3, <1>4 DEF Next

\* A sender that waits for its wake-up in the middle of a file gets it, or its
\* transfer will be cancelled: the loop of a cancelled transfer that replaces
\* onbufferedamountlow (fileChunks.js:155) has sent a chunk that makes the
\* receiver cancel.  So no sender stays in the middle of a file once everything
\* sent has been handled, unless a FileReader fails or a browser has no key.
THEOREM NoSenderIsStuck ==
  ASSUME "read-error" \notin Env, "late-handshake" \notin Env
  PROVE  Spec => []NoSenderStuck
<1>1. ASSUME Init, NEW p \in Peer, NEW q, q = Other(p)
      PROVE  secure = Peer /\ Woken(p, q)
  <2>1. secure = Peer /\ xfer[p].state = "idle"
    BY <1>1 DEF Init, InitialTransferState
  <2> QED
    BY <2>1 DEF Woken, LoopSends, Heard, Wakes, Awaits, Going
<1>2. Init => SendersWoken
  BY <1>1 DEF SendersWoken, Init
<1>3. Agreed /\ SendersWoken /\ [Next]_vars => SendersWoken'
  BY NextHolds, NextWakes DEF Agreed
<1>4. ASSUME Agreed, SendersWoken PROVE NoSenderStuck
  <2> SUFFICES ASSUME Quiet, NEW p \in Peer, NEW q, q = Other(p), Sending(p)
               PROVE  FALSE
    BY DEF NoSenderStuck
  <2>1. AllOpen
    BY DEF Quiet, AllOpen
  <2>2. Talk(p, q)
    BY <1>4, <2>1, TalkOf DEF Agreed
  <2>3. Woken(p, q) /\ chan[p] = <<>> /\ chan[q] = <<>>
    BY <1>4, <2>1, <2>2, WokenOf DEF Quiet, Talk
  <2>4. Going(p)
    BY <1>4 DEF Agreed, Sending, Going, StreamsHeld, StreamState
  <2>5. xfer[p].tid \in Tid /\ owner[xfer[p].tid] = p
    BY <2>2, <2>4 DEF Talk, Facts, Going
  <2>6. xfer[p].tid \notin Stops(chan[p]) /\ ~Stray(chan[q], xfer[p].tid)
    BY <2>3, NothingSaid DEF Stops, Stray
  <2> QED
    BY <2>3, <2>4, <2>5, <2>6 DEF Woken, Wakes, Quiet
<1> QED
  BY <1>2, <1>3, <1>4, AlwaysAgreed, PTL DEF Spec
=============================================================================
