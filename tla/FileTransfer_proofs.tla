------------------------ MODULE FileTransfer_proofs ------------------------
(***************************************************************************)
(* Proofs about FileTransfer, for any transfer ids, any file lengths and   *)
(* any choice of what users and the environment may do: its types, and     *)
(* that every file of a transfer has one place in the protocol.  An offer  *)
(* leads to one prompt, a prompt to one save dialog, a dialog to one file, *)
(* and only the browser that opened a file writes, closes or aborts it.    *)
(* FilesHaveOnePlace, with TypeOK, is inductive.  From it follows that a   *)
(* saved file is final in a browser without FileSystemFileHandle.remove(). *)
(*                                                                         *)
(* Most steps leave the offers, prompts, dialogs and files as they are or  *)
(* drop some; that is what the formulas ...Calm say of a step.  The four   *)
(* steps that do more (Offer, HandleFileMeta, Accept, PickerSave) are      *)
(* proved one by one.                                                      *)
(***************************************************************************)
EXTENDS FileTransfer, TLAPS

-----------------------------------------------------------------------------
(* Operators *)

\* The other browser is the other one of the two.
LEMMA OtherIsPeer ==
  ASSUME NEW p \in Peer
  PROVE  Other(p) \in Peer /\ Other(p) # p
<1>1. PICK a, b \in Peer : a # b /\ Peer = {a, b}
  BY PeerAssumption
<1>2. \E q \in Peer : q # p
  BY <1>1
<1> QED
  BY <1>2 DEF Other

\* Sending keeps the channels sequences of messages.
LEMMA SentType ==
  ASSUME NEW p \in Peer, NEW c \in [Peer -> Seq(Message)],
         NEW ms \in Seq(Message)
  PROVE  Sent(c, p, ms) \in [Peer -> Seq(Message)]
BY OtherIsPeer DEF Sent

LEMMA TrySentType ==
  ASSUME NEW p \in Peer, NEW c \in [Peer -> Seq(Message)], NEW m \in Message
  PROVE  TrySent(c, p, m) \in [Peer -> Seq(Message)]
<1>1. <<m>> \in Seq(Message)
  OBVIOUS
<1> QED
  BY <1>1, SentType DEF TrySent

LEMMA MsgType ==
  ASSUME NEW type \in MessageType, NEW t \in TidOrNone
  PROVE  Msg(type, t) \in Message
BY DEF Msg, Message

\* A reset replaces the transfer object by a well-formed one.
LEMMA ReplacedType ==
  ASSUME TypeOK, NEW p \in Peer, NEW lp \in [Tid -> Loop],
         NEW old \in {"halted", "orphan"}, Replaced(p, lp, old)
  PROVE  /\ xfer' \in [Peer -> Transfer]
         /\ cancelled' \in SUBSET Peer
         /\ low' \in [Peer -> TidOrNone]
         /\ loop' \in [Tid -> Loop]
<1>1. InitialTransferState \in Transfer /\ NoTid \in TidOrNone
  BY DEF InitialTransferState, Transfer, TidOrNone
<1>2. xfer' \in [Peer -> Transfer] /\ low' \in [Peer -> TidOrNone]
  BY <1>1 DEF Replaced, TypeOK
<1>3. ASSUME NEW t \in Tid
      PROVE  [lp[t] EXCEPT !.obj = old] \in Loop
  BY DEF Loop
<1>4. loop' \in [Tid -> Loop] /\ cancelled' \in SUBSET Peer
  BY <1>3 DEF Replaced, TypeOK
<1> QED
  BY <1>2, <1>4

LEMMA FreeChainType == FreeChain \in Handler
BY DEF FreeChain, Handler, TidOrNone, Block

LEMMA StaledType ==
  ASSUME TypeOK, NEW p \in Peer
  PROVE  Staled(p) \in [Peer -> Handler]
<1>1. chain[p] \in Handler
  BY DEF TypeOK
<1>2. [chain[p] EXCEPT !.obj = "stale"] \in Handler
  BY <1>1 DEF Handler
<1>3. [chain EXCEPT ![p] = [chain[p] EXCEPT !.obj = "stale"]]
        \in [Peer -> Handler]
  BY <1>2 DEF TypeOK
<1> QED
  BY <1>3 DEF Staled, TypeOK

LEMMA ResetTransferType ==
  ASSUME TypeOK, NEW p \in Peer, NEW lp \in [Tid -> Loop],
         ResetTransfer(p, lp)
  PROVE  /\ xfer' \in [Peer -> Transfer]
         /\ cancelled' \in SUBSET Peer
         /\ low' \in [Peer -> TidOrNone]
         /\ loop' \in [Tid -> Loop]
         /\ chain' \in [Peer -> Handler]
         /\ aborting' \in [Peer -> SUBSET TidOrNone]
<1>1. CASE xfer[p].stream = NoTid
  <2>1. Replaced(p, lp, "halted") /\ chain' = Staled(p) /\ UNCHANGED aborting
    BY <1>1 DEF ResetTransfer
  <2> QED
    BY <2>1, StaledType, ReplacedType DEF TypeOK
<1>2. CASE xfer[p].stream # NoTid
  <2>1. xfer[p].stream \in TidOrNone
    BY DEF TypeOK, Transfer
  <2>2. aborting[p] \cup {xfer[p].stream} \in SUBSET TidOrNone
    BY <2>1 DEF TypeOK
  <2> QED
    BY <1>2, <2>2 DEF ResetTransfer, TypeOK
<1> QED
  BY <1>1, <1>2

LEMMA ResetInChainType ==
  ASSUME TypeOK, NEW p \in Peer, ResetInChain(p)
  PROVE  /\ xfer' \in [Peer -> Transfer]
         /\ cancelled' \in SUBSET Peer
         /\ low' \in [Peer -> TidOrNone]
         /\ loop' \in [Tid -> Loop]
         /\ chain' \in [Peer -> Handler]
<1>1. CASE xfer[p].stream = NoTid
  <2>1. /\ Replaced(p, loop, "halted")
        /\ chain' = [chain EXCEPT ![p] = FreeChain]
    BY <1>1 DEF ResetInChain
  <2> QED
    BY <2>1, ReplacedType, FreeChainType DEF TypeOK
<1>2. CASE xfer[p].stream # NoTid
  <2>1. xfer[p].stream \in TidOrNone
    BY DEF TypeOK, Transfer
  <2>2. [FreeChain EXCEPT !.pc = "reset", !.handle = xfer[p].stream]
          \in Handler
    BY <2>1, FreeChainType DEF Handler
  <2> QED
    BY <1>2, <2>2 DEF ResetInChain, TypeOK
<1> QED
  BY <1>1, <1>2

LEMMA DiscardedType ==
  ASSUME TypeOK, NEW h
  PROVE  Discarded(h) \in [Tid -> File]
<1>1. <<>> \in Seq(Block)
  OBVIOUS
<1> QED
  BY <1>1 DEF Discarded, TypeOK, File

\* A message at the head of a channel.
LEMMA HeadType ==
  ASSUME TypeOK, NEW p \in Peer, chan[p] # <<>>
  PROVE  /\ Head(chan[p]) \in Message
         /\ Head(chan[p]).tid \in TidOrNone
         /\ Head(chan[p]).idx \in Nat
         /\ Rest(p) \in [Peer -> Seq(Message)]
<1>1. chan[p] \in Seq(Message)
  BY DEF TypeOK
<1>2. Head(chan[p]) \in Message /\ Tail(chan[p]) \in Seq(Message)
  BY <1>1
<1>3. Rest(p) \in [Peer -> Seq(Message)]
  BY <1>2 DEF Rest, TypeOK
<1> QED
  BY <1>2, <1>3 DEF Message

LEMMA XferType ==
  ASSUME TypeOK, NEW p \in Peer
  PROVE  /\ xfer[p] \in Transfer
         /\ xfer[p].tid \in TidOrNone
         /\ xfer[p].stream \in TidOrNone
         /\ xfer[p].expected \in Nat
BY DEF TypeOK, Transfer

\* A pending reset of the chain, or the giving up of a handler.
LEMMA GiveUpType ==
  ASSUME TypeOK, NEW p \in Peer, GiveUp(p)
  PROVE  /\ chan' \in [Peer -> Seq(Message)]
         /\ xfer' \in [Peer -> Transfer]
         /\ cancelled' \in SUBSET Peer
         /\ low' \in [Peer -> TidOrNone]
         /\ loop' \in [Tid -> Loop]
         /\ chain' \in [Peer -> Handler]
<1>1. chain[p].aad[1] \in TidOrNone
  BY DEF TypeOK, Handler, Block
<1>2. Msg("cancel-transfer", chain[p].aad[1]) \in Message
  BY <1>1, MsgType DEF MessageType
<1>3. chan \in [Peer -> Seq(Message)]
  BY DEF TypeOK
<1>4. chan' \in [Peer -> Seq(Message)]
  BY <1>2, <1>3, TrySentType DEF GiveUp
<1> QED
  BY <1>4, ResetInChainType DEF GiveUp

-----------------------------------------------------------------------------
(* Type correctness *)

LEMMA InitTypeOK == Init => TypeOK
<1> SUFFICES ASSUME Init PROVE TypeOK
  OBVIOUS
<1>1. InitialTransferState \in Transfer /\ NoTid \in TidOrNone
  BY DEF InitialTransferState, Transfer, TidOrNone
<1>2. xfer \in [Peer -> Transfer] /\ chain \in [Peer -> Handler]
  BY <1>1, FreeChainType DEF Init
<1>3. [status |-> "none", data |-> <<>>] \in File
  <2>1. <<>> \in Seq(Block)
    OBVIOUS
  <2> QED
    BY <2>1 DEF File
<1>4. [pc |-> "off", next |-> 1, obj |-> "none"] \in Loop
  BY DEF Loop
<1>5. disk \in [Tid -> File] /\ loop \in [Tid -> Loop]
  BY <1>3, <1>4 DEF Init
<1>6. chan \in [Peer -> Seq(Message)]
  BY DEF Init
<1> QED
  BY <1>1, <1>2, <1>5, <1>6 DEF Init, TypeOK

\* What the users do.
LEMMA UserTypeOK ==
  ASSUME TypeOK, NEW p \in Peer, User(p)
  PROVE  TypeOK'
<1> USE XferType, TidAssumption
<1>1. chan \in [Peer -> Seq(Message)] /\ loop \in [Tid -> Loop]
  BY DEF TypeOK
<1>2. ASSUME NEW t \in Tid, Offer(p, t)
      PROVE  TypeOK'
  <2>1. t \in TidOrNone /\ Msg("file-meta", t) \in Message
    BY MsgType DEF TidOrNone, MessageType
  <2>2. <<Msg("file-meta", t)>> \in Seq(Message)
    BY <2>1
  <2>3. chan' \in [Peer -> Seq(Message)]
    BY <1>1, <1>2, <2>2, SentType DEF Offer
  <2>4. xfer' \in [Peer -> Transfer]
    <3>1. [xfer[p] EXCEPT !.state = "offering", !.direction = "send",
                          !.tid = t] \in Transfer
      BY <2>1 DEF Transfer
    <3> QED
      BY <1>2, <3>1 DEF Offer, TypeOK
  <2>5. owner' \in [Tid -> Peer \cup {NoPeer}] /\ cancelled' \in SUBSET Peer
    BY <1>2 DEF Offer, TypeOK
  <2> QED
    BY <1>2, <2>3, <2>4, <2>5 DEF Offer, TypeOK
<1>3. ASSUME Accept(p)
      PROVE  TypeOK'
  <2>1. CASE IsOpen(p)
    <3>1. picker' \in [Peer -> TidOrNone]
      BY <1>3, <2>1 DEF Accept, TypeOK
    <3> QED
      BY <1>3, <2>1, <3>1 DEF Accept, TypeOK
  <2>2. CASE ~IsOpen(p)
    BY <1>1, <1>3, <2>2, ResetTransferType DEF Accept, TypeOK
  <2> QED
    BY <2>1, <2>2
<1>4. ASSUME PickerSave(p)
      PROVE  TypeOK'
  <2>1. picker[p] \in Tid
    BY <1>4 DEF PickerSave, TypeOK, TidOrNone
  <2>2. picker[p] \in TidOrNone /\ NoTid \in TidOrNone
    BY <2>1 DEF TidOrNone
  <2>3. Msg("ready", xfer[p].tid) \in Message
    BY MsgType DEF MessageType
  <2>4. chan' \in [Peer -> Seq(Message)]
    BY <1>1, <1>4, <2>3, TrySentType DEF PickerSave
  <2>5. xfer' \in [Peer -> Transfer] /\ picker' \in [Peer -> TidOrNone]
    <3>1. [xfer[p] EXCEPT !.stream = picker[p], !.state = "transferring"]
            \in Transfer
      BY <2>2 DEF Transfer
    <3> QED
      BY <1>4, <2>2, <3>1 DEF PickerSave, TypeOK
  <2>6. disk' \in [Tid -> File]
    BY <1>4, <2>1 DEF PickerSave, TypeOK, File
  <2>7. aborting' \in [Peer -> SUBSET TidOrNone]
    <3>1. aborting[p] \cup {picker[p]} \in SUBSET TidOrNone
      BY <2>2 DEF TypeOK
    <3> QED
      BY <1>4, <3>1 DEF PickerSave, TypeOK
  <2>8. cancelled' \in SUBSET Peer
    BY <1>4 DEF PickerSave, TypeOK
  <2> QED
    BY <1>4, <2>4, <2>5, <2>6, <2>7, <2>8 DEF PickerSave, TypeOK
<1>5. ASSUME NEW type \in MessageType, ResetTransfer(p, loop),
             chan' = TrySent(chan, p, Msg(type, xfer[p].tid)),
             picker' \in [Peer -> TidOrNone],
             UNCHANGED <<disk, owner, sent, dc, secure>>
      PROVE  TypeOK'
  <2>1. Msg(type, xfer[p].tid) \in Message
    BY MsgType
  <2>2. chan' \in [Peer -> Seq(Message)]
    BY <1>1, <1>5, <2>1, TrySentType
  <2> QED
    BY <1>1, <1>5, <2>2, ResetTransferType DEF TypeOK
<1>6. CASE PickerAbort(p)
  <2>1. picker' \in [Peer -> TidOrNone]
    BY <1>6 DEF PickerAbort, TypeOK, TidOrNone
  <2> QED
    BY <1>5, <1>6, <2>1 DEF PickerAbort, MessageType
<1>7. CASE Reject(p)
  BY <1>5, <1>7 DEF Reject, MessageType, TypeOK
<1>8. CASE Cancel(p)
  BY <1>5, <1>8 DEF Cancel, MessageType, TypeOK
<1> QED
  BY <1>2, <1>3, <1>4, <1>6, <1>7, <1>8 DEF User

\* What the handlers of the message chain do.
LEMMA ChainTypeOK ==
  ASSUME TypeOK, NEW p \in Peer, MessageChain(p)
  PROVE  TypeOK'
<1> USE XferType, TidAssumption
<1>1. chan \in [Peer -> Seq(Message)] /\ loop \in [Tid -> Loop]
  BY DEF TypeOK
<1>2. CASE HandleFileMeta(p)
  <2>1. chan[p] # <<>>
    BY <1>2 DEF HandleFileMeta, Dispatch
  <2> DEFINE t == Head(chan[p]).tid
  <2>2. t \in TidOrNone /\ Rest(p) \in [Peer -> Seq(Message)]
    BY <2>1, HeadType
  <2> HIDE DEF t
  <2>3. Msg("reject-transfer", t) \in Message
    BY <2>2, MsgType DEF MessageType
  <2>4. TrySent(Rest(p), p, Msg("reject-transfer", t))
          \in [Peer -> Seq(Message)]
    BY <2>2, <2>3, TrySentType
  <2>5. chan' \in [Peer -> Seq(Message)]
    BY <1>2, <2>2, <2>4 DEF HandleFileMeta, t
  <2>6. [xfer[p] EXCEPT !.state = "prompting", !.direction = "receive",
                        !.tid = t, !.expected = 0] \in Transfer
    BY <2>2 DEF Transfer
  <2>7. xfer' \in [Peer -> Transfer]
    BY <1>2, <2>6 DEF HandleFileMeta, TypeOK, t
  <2>8. cancelled' \in SUBSET Peer
    BY <1>2 DEF HandleFileMeta, TypeOK
  <2> QED
    BY <1>2, <2>5, <2>7, <2>8 DEF HandleFileMeta, Dispatch, TypeOK
<1>3. CASE HandleReady(p)
  <2>1. chan[p] # <<>>
    BY <1>3 DEF HandleReady, Dispatch
  <2> DEFINE t == Head(chan[p]).tid
  <2>2. t \in TidOrNone /\ Rest(p) \in [Peer -> Seq(Message)]
    BY <2>1, HeadType
  <2> HIDE DEF t
  <2>3. chan' \in [Peer -> Seq(Message)]
    BY <1>3, <2>2 DEF HandleReady
  <2>4. CASE ~(IsTransferIdValid(p, t) /\ xfer[p].state = "offering")
    <3>1. UNCHANGED <<xfer, cancelled, chain, aborting, loop, low>>
      BY <1>3, <2>4 DEF HandleReady, t
    <3> QED
      BY <1>3, <2>3, <3>1 DEF HandleReady, Dispatch, TypeOK
  <2>5. CASE /\ IsTransferIdValid(p, t) /\ xfer[p].state = "offering"
             /\ IsOpen(p) /\ p \in secure
    <3>1. t \in Tid
      BY <2>2, <2>5 DEF IsTransferIdValid, TidOrNone
    <3>2. [pc |-> FirstStep(t), next |-> 1, obj |-> "live"] \in Loop
      BY DEF Loop, FirstStep
    <3>3. loop' = [loop EXCEPT ![t] = [pc |-> FirstStep(t), next |-> 1,
                                       obj |-> "live"]]
      BY <1>3, <2>5 DEF HandleReady, t
    <3>4. loop' \in [Tid -> Loop]
      BY <1>1, <3>2, <3>3
    <3>5. xfer' \in [Peer -> Transfer]
      <4>1. [xfer[p] EXCEPT !.state = "transferring"] \in Transfer
        BY DEF Transfer
      <4> QED
        BY <1>3, <2>5, <4>1 DEF HandleReady, TypeOK, t
    <3> QED
      BY <1>3, <2>3, <2>5, <3>4, <3>5 DEF HandleReady, Dispatch, TypeOK, t
  <2>6. CASE /\ IsTransferIdValid(p, t) /\ xfer[p].state = "offering"
             /\ ~(IsOpen(p) /\ p \in secure)
    <3>1. ResetTransfer(p, loop)
      BY <1>3, <2>6 DEF HandleReady, t
    <3> QED
      BY <1>1, <1>3, <2>3, <3>1, ResetTransferType
      DEF HandleReady, Dispatch, TypeOK
  <2> QED
    BY <2>4, <2>5, <2>6
<1>4. ASSUME NEW type \in MessageType, HandleStop(p, type)
      PROVE  TypeOK'
  <2>1. chan' \in [Peer -> Seq(Message)]
    BY <1>4, HeadType DEF HandleStop, Dispatch
  <2> QED
    BY <1>4, <2>1, ResetInChainType DEF HandleStop, Dispatch, TypeOK
<1>5. CASE HandleChunkHeader(p)
  <2>1. Head(chan[p]).idx \in Nat /\ chan' \in [Peer -> Seq(Message)]
    BY <1>5, HeadType DEF HandleChunkHeader, Dispatch
  <2>2. [xfer[p] EXCEPT !.expected = Head(chan[p]).idx] \in Transfer
    BY <2>1 DEF Transfer
  <2>3. xfer' \in [Peer -> Transfer]
    BY <1>5, <2>2 DEF HandleChunkHeader, TypeOK
  <2> QED
    BY <1>5, <2>1, <2>3 DEF HandleChunkHeader, Dispatch, TypeOK
<1>6. CASE HandleBinaryChunk(p)
  <2>1. chan[p] # <<>>
    BY <1>6 DEF HandleBinaryChunk, Dispatch
  <2>2. Rest(p) \in [Peer -> Seq(Message)]
    BY <2>1, HeadType
  <2>3. Msg("cancel-transfer", xfer[p].tid) \in Message
    BY MsgType DEF MessageType
  <2>4. TrySent(Rest(p), p, Msg("cancel-transfer", xfer[p].tid))
          \in [Peer -> Seq(Message)]
    BY <2>2, <2>3, TrySentType
  <2>5. chan' \in [Peer -> Seq(Message)]
    BY <1>6, <2>2, <2>4 DEF HandleBinaryChunk
  <2> DEFINE h == [pc |-> "decrypt",
                   block |-> <<Head(chan[p]).tid, Head(chan[p]).idx>>,
                   aad |-> <<xfer[p].tid, xfer[p].expected>>,
                   obj |-> "live", handle |-> xfer[p].stream]
  <2>6. h \in Handler
    BY <2>1, HeadType DEF Handler, Block
  <2> HIDE DEF h
  <2>7. \/ UNCHANGED <<xfer, cancelled, chain, loop, low>>
        \/ ResetInChain(p)
        \/ /\ chain' = [chain EXCEPT ![p] = h]
           /\ UNCHANGED <<xfer, cancelled, loop, low>>
    BY <1>6 DEF HandleBinaryChunk, h
  <2>8. /\ xfer' \in [Peer -> Transfer] /\ cancelled' \in SUBSET Peer
        /\ low' \in [Peer -> TidOrNone] /\ loop' \in [Tid -> Loop]
        /\ chain' \in [Peer -> Handler]
    <3>1. CASE UNCHANGED <<xfer, cancelled, chain, loop, low>>
      BY <3>1 DEF TypeOK
    <3>2. CASE ResetInChain(p)
      BY <3>2, ResetInChainType
    <3>3. CASE /\ chain' = [chain EXCEPT ![p] = h]
               /\ UNCHANGED <<xfer, cancelled, loop, low>>
      BY <2>6, <3>3 DEF TypeOK
    <3> QED
      BY <2>7, <3>1, <3>2, <3>3
  <2> QED
    BY <1>6, <2>5, <2>8 DEF HandleBinaryChunk, Dispatch, TypeOK
<1>7. CASE DecryptDone(p)
  <2>1. CASE GiveUp(p)
    BY <1>7, <2>1, GiveUpType DEF DecryptDone, TypeOK
  <2>2. CASE ~GiveUp(p)
    <3>1. /\ chain' = [chain EXCEPT ![p].pc = "write"]
          /\ xfer' = xfer \/ xfer' = [xfer EXCEPT ![p].expected = 0]
          /\ UNCHANGED <<cancelled, chan, loop, low>>
      BY <1>7, <2>2 DEF DecryptDone
    <3>2. [chain[p] EXCEPT !.pc = "write"] \in Handler
      <4>1. chain[p] \in Handler
        BY DEF TypeOK
      <4> QED
        BY <4>1 DEF Handler
    <3>3. [xfer[p] EXCEPT !.expected = 0] \in Transfer
      BY DEF Transfer
    <3>4. chain' \in [Peer -> Handler]
      BY <3>1, <3>2 DEF TypeOK
    <3>5. xfer' \in [Peer -> Transfer]
      BY <3>1, <3>3 DEF TypeOK
    <3> QED
      BY <1>7, <3>1, <3>4, <3>5 DEF DecryptDone, TypeOK
  <2> QED
    BY <2>1, <2>2
<1>8. CASE WriteError(p)
  BY <1>8, GiveUpType DEF WriteError, TypeOK
<1>9. CASE HandleFileEnd(p)
  <2>1. chan' \in [Peer -> Seq(Message)]
    BY <1>9, HeadType DEF HandleFileEnd, Dispatch
  <2>2. [xfer[p] EXCEPT !.stream = NoTid, !.state = "idle"] \in Transfer
    BY DEF Transfer, TidOrNone
  <2>3. FileEnded(p) \in [Peer -> Transfer]
    BY <2>2 DEF FileEnded, TypeOK
  <2>4. [xfer[p] EXCEPT !.state = "idle"] \in Transfer
    BY DEF Transfer
  <2>5. xfer' \in [Peer -> Transfer]
    BY <1>9, <2>3, <2>4 DEF HandleFileEnd, TypeOK
  <2>6. [FreeChain EXCEPT !.pc = "close", !.handle = xfer[p].stream]
          \in Handler
    BY FreeChainType DEF Handler
  <2>7. chain' \in [Peer -> Handler]
    BY <1>9, <2>6 DEF HandleFileEnd, TypeOK
  <2> QED
    BY <1>9, <2>1, <2>5, <2>7 DEF HandleFileEnd, Dispatch, TypeOK
<1>10. CASE FinishChainReset(p)
  <2>1. Replaced(p, loop, OldObject(p))
    BY <1>10 DEF FinishChainReset
  <2>2. OldObject(p) \in {"halted", "orphan"}
    BY DEF OldObject
  <2> QED
    BY <1>1, <1>10, <2>1, <2>2, ReplacedType, DiscardedType, FreeChainType
    DEF FinishChainReset, TypeOK
<1>11. CASE WriteDone(p)
  <2> DEFINE h == chain[p].handle
  <2>1. chain[p].block \in Block /\ chain' \in [Peer -> Handler]
    BY <1>11, FreeChainType DEF WriteDone, TypeOK, Handler
  <2>2. ASSUME h \in Tid
        PROVE  [disk[h] EXCEPT !.data = Append(@, chain[p].block)] \in File
    <3>1. disk[h] \in File
      BY <2>2 DEF TypeOK
    <3>2. Append(disk[h].data, chain[p].block) \in Seq(Block)
      BY <2>1, <3>1 DEF File
    <3> QED
      BY <3>1, <3>2 DEF File
  <2>3. disk' \in [Tid -> File]
    BY <1>11, <2>2 DEF WriteDone, TypeOK
  <2> QED
    BY <1>11, <2>1, <2>3 DEF WriteDone, TypeOK
<1>12. ASSUME NEW status \in {"saved", "broken"}, CloseDone(p, status)
       PROVE  TypeOK'
  <2>1. [xfer[p] EXCEPT !.stream = NoTid, !.state = "idle"] \in Transfer
    BY DEF Transfer, TidOrNone
  <2>2. FileEnded(p) \in [Peer -> Transfer]
    BY <2>1 DEF FileEnded, TypeOK
  <2>3. disk' \in [Tid -> File]
    <3> DEFINE h == chain[p].handle
               data == IF status = "saved" THEN disk[h].data ELSE <<>>
    <3>1. ASSUME h \in Tid
          PROVE  [disk[h] EXCEPT !.status = status, !.data = data] \in File
      <4>1. disk[h] \in File /\ <<>> \in Seq(Block)
        BY <3>1 DEF TypeOK
      <4> QED
        BY <4>1 DEF File
    <3>2. disk' = [disk EXCEPT ![h] = [disk[h] EXCEPT !.status = status,
                                                      !.data = data]]
      BY <1>12 DEF CloseDone
    <3> QED
      BY <3>1, <3>2 DEF TypeOK
  <2>4. chain' \in [Peer -> Handler]
    BY <1>12, FreeChainType DEF CloseDone, TypeOK
  <2> QED
    BY <1>12, <2>2, <2>3, <2>4 DEF CloseDone, TypeOK
<1> QED
  BY <1>2, <1>3, <1>4, <1>5, <1>6, <1>7, <1>8, <1>9, <1>10, <1>11, <1>12
  DEF MessageChain

\* What the chunk loop of a transfer does, once the transfer has an owner.
LEMMA LoopTypeOK ==
  ASSUME TypeOK, NEW t \in Tid, owner[t] \in Peer, SendLoop(t)
  PROVE  TypeOK'
<1> DEFINE p == owner[t]
<1> USE XferType
<1>1. /\ chan \in [Peer -> Seq(Message)] /\ loop \in [Tid -> Loop]
      /\ t \in TidOrNone /\ loop[t] \in Loop /\ loop[t].next \in Nat
  BY DEF TypeOK, TidOrNone, Loop
<1>2. ASSUME NEW pc \in {"off", "read", "seal", "wait"}
      PROVE  [loop EXCEPT ![t].pc = pc] \in [Tid -> Loop]
  <2>1. [loop[t] EXCEPT !.pc = pc] \in Loop
    BY <1>1 DEF Loop
  <2> QED
    BY <1>1, <2>1
<1>3. CASE ReadDone(t)
  <2>1. loop' \in [Tid -> Loop]
    BY <1>2, <1>3 DEF ReadDone
  <2> QED
    BY <1>3, <2>1 DEF ReadDone, TypeOK
<1>4. CASE ReadError(t)
  BY <1>2, <1>4, ResetTransferType DEF ReadError, TypeOK
<1>5. /\ ChunkHeader(t, loop[t].next) \in Message
      /\ Binary(t, loop[t].next) \in Message
      /\ Msg("file-end", t) \in Message
  BY <1>1 DEF ChunkHeader, Binary, Msg, Message, MessageType
<1>6. /\ LastMessages(t, loop[t].next) \in Seq(Message)
      /\ <<ChunkHeader(t, loop[t].next), Binary(t, loop[t].next)>>
           \in Seq(Message)
  BY <1>5 DEF LastMessages
<1>7. CASE SendLastChunk(t)
  <2>1. chan' \in [Peer -> Seq(Message)]
    BY <1>1, <1>6, <1>7, SentType DEF SendLastChunk
  <2>2. loop' \in [Tid -> Loop]
    BY <1>2, <1>7 DEF SendLastChunk
  <2>3. [xfer[p] EXCEPT !.state = "idle"] \in Transfer
    BY DEF Transfer
  <2>4. xfer' \in [Peer -> Transfer]
    BY <1>7, <2>3 DEF SendLastChunk, Completed, TypeOK
  <2> QED
    BY <1>7, <2>1, <2>2, <2>4 DEF SendLastChunk, TypeOK
<1>8. CASE SendChunk(t)
  <2>1. chan' \in [Peer -> Seq(Message)]
    BY <1>1, <1>6, <1>8, SentType DEF SendChunk
  <2>2. ASSUME NEW pc \in {"off", "read", "wait"}
        PROVE  [loop EXCEPT ![t].pc = pc, ![t].next = loop[t].next + 1]
                 \in [Tid -> Loop]
    <3>1. loop[t].next + 1 \in Nat
      BY <1>1
    <3>2. [loop[t] EXCEPT !.pc = pc, !.next = loop[t].next + 1] \in Loop
      BY <1>1, <2>2, <3>1 DEF Loop
    <3> QED
      BY <1>1, <3>2
  <2>3. loop' \in [Tid -> Loop]
    BY <1>8, <2>2 DEF SendChunk
  <2>4. low' \in [Peer -> TidOrNone]
    BY <1>1, <1>8 DEF SendChunk, TypeOK
  <2> QED
    BY <1>8, <2>1, <2>3, <2>4 DEF SendChunk, TypeOK
<1>9. CASE SendFails(t)
  <2>1. CASE FileLen[t] = 0
    BY <1>2, <1>9, <2>1 DEF SendFails, TypeOK
  <2>2. CASE FileLen[t] # 0
    BY <1>2, <1>9, <2>2, ResetTransferType DEF SendFails, TypeOK
  <2> QED
    BY <2>1, <2>2
<1> QED
  BY <1>3, <1>4, <1>7, <1>8, <1>9 DEF SendLoop

\* Every step of the specification, from a state where chunk loops belong to
\* somebody.
LEMMA NextTypeOK == TypeOK /\ OwnLoops /\ [Next]_vars => TypeOK'
<1> SUFFICES ASSUME TypeOK, OwnLoops, [Next]_vars PROVE TypeOK'
  OBVIOUS
<1>1. ASSUME NEW p \in Peer, Aborts(p)
      PROVE  TypeOK'
  <2>1. PICK h \in Tid : FinishAbort(p, h)
    BY <1>1 DEF Aborts
  <2>2. Replaced(p, loop, OldObject(p)) /\ loop \in [Tid -> Loop]
    BY <2>1 DEF FinishAbort, TypeOK
  <2>3. OldObject(p) \in {"halted", "orphan"}
    BY DEF OldObject
  <2>4. aborting' \in [Peer -> SUBSET TidOrNone]
    <3>1. aborting[p] \ {h} \in SUBSET TidOrNone
      BY DEF TypeOK
    <3> QED
      BY <2>1, <3>1 DEF FinishAbort, TypeOK
  <2> QED
    BY <2>1, <2>2, <2>3, <2>4, ReplacedType, DiscardedType, StaledType
    DEF FinishAbort, TypeOK
<1>2. ASSUME NEW p \in Peer, BufferedAmountLow(p)
      PROVE  TypeOK'
  <2>1. NoTid \in TidOrNone
    BY DEF TidOrNone
  <2>2. low' \in [Peer -> TidOrNone]
    BY <1>2, <2>1 DEF BufferedAmountLow, TypeOK
  <2>3. ASSUME NEW pc \in {"off", "read"}, low[p] \in Tid
        PROVE  [loop[low[p]] EXCEPT !.pc = pc] \in Loop
    <3>1. loop[low[p]] \in Loop
      BY <2>3 DEF TypeOK
    <3> QED
      BY <3>1 DEF Loop
  <2>4. loop' \in [Tid -> Loop]
    BY <1>2, <2>3 DEF BufferedAmountLow, TypeOK
  <2> QED
    BY <1>2, <2>2, <2>4 DEF BufferedAmountLow, TypeOK
<1>3. ASSUME NEW p \in Peer, CloseChannel(p)
      PROVE  TypeOK'
  <2>1. PICK n \in 0..Len(chan[p]) :
               chan' = [chan EXCEPT ![p] = SubSeq(@, 1, n)]
    BY <1>3 DEF CloseChannel
  <2>2. chan[p] \in Seq(Message)
    BY DEF TypeOK
  <2>3. SubSeq(chan[p], 1, n) \in Seq(Message)
    BY <2>2
  <2>4. chan' \in [Peer -> Seq(Message)]
    BY <2>1, <2>3 DEF TypeOK
  <2>5. dc' \in [Peer -> {"open", "closed"}] /\ loop \in [Tid -> Loop]
    BY <1>3 DEF CloseChannel, TypeOK
  <2>6. CASE xfer[p].state # "idle"
    BY <1>3, <2>4, <2>5, <2>6, ResetTransferType DEF CloseChannel, TypeOK
  <2>7. CASE xfer[p].state = "idle"
    BY <1>3, <2>4, <2>5, <2>7 DEF CloseChannel, TypeOK
  <2> QED
    BY <2>6, <2>7
<1>4. ASSUME NEW p \in Peer, HandshakeDone(p)
      PROVE  TypeOK'
  BY <1>4 DEF HandshakeDone, TypeOK
<1>5. ASSUME NEW t \in Tid, SendLoop(t)
      PROVE  TypeOK'
  <2>1. loop[t].pc # "off"
    BY <1>5 DEF SendLoop, ReadDone, ReadError, SendChunk, SendLastChunk,
                SendFails
  <2> QED
    BY <1>5, <2>1, LoopTypeOK DEF OwnLoops
<1>6. CASE UNCHANGED vars
  BY <1>6 DEF vars, TypeOK
<1> QED
  BY <1>1, <1>2, <1>3, <1>4, <1>5, <1>6, UserTypeOK, ChainTypeOK DEF Next

-----------------------------------------------------------------------------
(* What a step may do *)

XferCalm ==
  \A q \in Peer :
    /\ xfer'[q].state \in {"offering", "prompting"} =>
         xfer'[q].state = xfer[q].state /\ xfer'[q].tid = xfer[q].tid
    /\ xfer'[q].stream \in {NoTid, xfer[q].stream}

LoopCalm ==
  /\ \A t \in Tid : loop'[t].pc # "off" => owner[t] \in Peer
  /\ \A q \in Peer : low'[q] # NoTid => owner[low'[q]] = q

AbortCalm ==
  \A q \in Peer : \A h \in aborting'[q] : h \in aborting[q] \cup {xfer[q].stream}
                                          /\ h # NoTid

ChainCalm ==
  \A q \in Peer : chain'[q].handle \in {NoTid, chain[q].handle, xfer[q].stream}

\* No handler starts to close a file; one that does goes on undisturbed.
CloseCalm ==
  \A q \in Peer : chain'[q].pc = "close" =>
    /\ chain[q].pc = "close"
    /\ chain'[q].handle = chain[q].handle
    /\ disk'[chain[q].handle].status = disk[chain[q].handle].status

\* No offer is sent.
Fewer(c, d) ==
  \A q \in Peer : /\ Metas(d[q]) \subseteq Metas(c[q])
                  /\ NoMetaTwice(c[q]) => NoMetaTwice(d[q])

ChanCalm == Fewer(chan, chan')

\* No file is created.
DiskCalm ==
  \A h \in Tid : disk'[h].status = "none" <=> disk[h].status = "none"

PickerCalm == \A q \in Peer : picker'[q] \in {NoTid, picker[q]}

Calm ==
  /\ XferCalm /\ LoopCalm /\ AbortCalm /\ ChainCalm /\ ChanCalm /\ DiskCalm
  /\ PickerCalm
  /\ UNCHANGED owner

\* A calm step keeps every file in its place.
LEMMA CalmKeeps ==
  ASSUME TypeOK, OpenedOnce, OwnFiles, OwnLoops, Calm
  PROVE  OpenedOnce' /\ OwnFiles' /\ OwnLoops'
<1>1. OpenedOnce'
  <2> SUFFICES ASSUME NEW p \in Peer
               PROVE  /\ NoMetaTwice(chan'[p])
                      /\ \A t \in Metas(chan'[p]) :
                           /\ Unopened(p, t)'
                           /\ picker'[p] # t
                           /\ xfer'[p].state = "prompting" => xfer'[p].tid # t
                      /\ (xfer[p].state = "prompting" =>
                            Unopened(p, xfer[p].tid))'
                      /\ (picker[p] # NoTid => Unopened(p, picker[p]))'
    BY DEF OpenedOnce
  <2>1. NoMetaTwice(chan'[p])
    BY DEF OpenedOnce, Calm, ChanCalm, Fewer
  <2>2. ASSUME NEW t \in Metas(chan'[p])
        PROVE  /\ Unopened(p, t)'
               /\ picker'[p] # t
               /\ xfer'[p].state = "prompting" => xfer'[p].tid # t
    <3>1. t \in Metas(chan[p])
      BY <2>2 DEF Calm, ChanCalm, Fewer
    <3>2. Unopened(p, t) /\ picker[p] # t
      BY <3>1 DEF OpenedOnce
    <3>3. t # NoTid
      BY <3>2, TidAssumption DEF Unopened
    <3>4. picker'[p] # t
      BY <3>2, <3>3 DEF Calm, PickerCalm
    <3>5. xfer'[p].state = "prompting" => xfer'[p].tid # t
      BY <3>1 DEF OpenedOnce, Calm, XferCalm
    <3>6. Unopened(p, t)'
      BY <3>2 DEF Unopened, Calm, DiskCalm
    <3> QED
      BY <3>4, <3>5, <3>6
  <2>3. (xfer[p].state = "prompting" => Unopened(p, xfer[p].tid))'
    <3>1. xfer'[p].state = "prompting" =>
            xfer[p].state = "prompting" /\ xfer'[p].tid = xfer[p].tid
      BY DEF Calm, XferCalm
    <3> QED
      BY <3>1 DEF OpenedOnce, Unopened, Calm, DiskCalm
  <2>4. (picker[p] # NoTid => Unopened(p, picker[p]))'
    <3>1. picker'[p] # NoTid => picker'[p] = picker[p]
      BY DEF Calm, PickerCalm
    <3> QED
      BY <3>1 DEF OpenedOnce, Unopened, Calm, DiskCalm
  <2> QED
    BY <2>1, <2>2, <2>3, <2>4
<1>2. OwnFiles'
  <2>1. ASSUME NEW p \in Peer, NEW h, Opened(p, h)
        PROVE  h \in Tid /\ owner'[h] = Other(p) /\ disk'[h].status # "none"
    BY <2>1 DEF Opened, Calm, DiskCalm
  <2>2. ASSUME NEW p \in Peer
        PROVE  /\ xfer'[p].stream # NoTid => Opened(p, xfer'[p].stream)
               /\ \A h \in aborting'[p] : Opened(p, h)
               /\ chain'[p].handle # NoTid => Opened(p, chain'[p].handle)
    BY DEF OwnFiles, Calm, XferCalm, AbortCalm, ChainCalm
  <2>3. (\A h \in Tid : disk[h].status # "none" => owner[h] \in Peer)'
    BY DEF OwnFiles, Calm, DiskCalm
  <2> QED
    BY <2>1, <2>2, <2>3 DEF OwnFiles, Opened
<1>3. OwnLoops'
  BY DEF OwnLoops, Calm, XferCalm, LoopCalm
<1> QED
  BY <1>1, <1>2, <1>3

-----------------------------------------------------------------------------
(* Offers in channels *)

LEMMA MetasOf ==
  ASSUME NEW s, NEW t
  PROVE  t \in Metas(s) <=>
           \E i \in 1..Len(s) : s[i].type = "file-meta" /\ s[i].tid = t
BY DEF Metas

\* Handling a message takes its offer, if it is one, out of the channel.
LEMMA MetasTail ==
  ASSUME NEW s \in Seq(Message), s # <<>>
  PROVE  /\ Metas(Tail(s)) \subseteq Metas(s)
         /\ NoMetaTwice(s) => NoMetaTwice(Tail(s))
         /\ Head(s).type = "file-meta" =>
              /\ Head(s).tid \in Metas(s)
              /\ NoMetaTwice(s) => Head(s).tid \notin Metas(Tail(s))
<1>1. /\ Len(s) \in Nat /\ Len(s) >= 1 /\ Head(s) = s[1]
      /\ Len(Tail(s)) = Len(s) - 1
      /\ \A i \in 1..Len(Tail(s)) : Tail(s)[i] = s[i + 1]
  OBVIOUS
<1>2. \A i \in 1..Len(Tail(s)) : i + 1 \in 1..Len(s) /\ i + 1 # 1
  BY <1>1
<1>3. Metas(Tail(s)) \subseteq Metas(s)
  <2> SUFFICES ASSUME NEW t \in Metas(Tail(s)) PROVE t \in Metas(s)
    OBVIOUS
  <2>1. PICK i \in 1..Len(Tail(s)) :
               Tail(s)[i].type = "file-meta" /\ Tail(s)[i].tid = t
    BY MetasOf
  <2>2. s[i + 1].type = "file-meta" /\ s[i + 1].tid = t
    BY <1>1, <2>1
  <2> QED
    BY <1>2, <2>2, MetasOf
<1>4. ASSUME NoMetaTwice(s) PROVE NoMetaTwice(Tail(s))
  <2> SUFFICES ASSUME NEW i \in 1..Len(Tail(s)), NEW j \in 1..Len(Tail(s)),
                      Tail(s)[i].type = "file-meta",
                      Tail(s)[j].type = "file-meta",
                      Tail(s)[i].tid = Tail(s)[j].tid
               PROVE  i = j
    BY DEF NoMetaTwice
  <2>1. i + 1 \in 1..Len(s) /\ j + 1 \in 1..Len(s)
    BY <1>2
  <2>2. i + 1 = j + 1
    BY <1>1, <1>4, <2>1 DEF NoMetaTwice
  <2> QED
    BY <1>1, <2>2
<1>5. ASSUME Head(s).type = "file-meta"
      PROVE  Head(s).tid \in Metas(s)
  <2>1. 1 \in 1..Len(s) /\ s[1].type = "file-meta" /\ s[1].tid = Head(s).tid
    BY <1>1, <1>5
  <2> QED
    BY <2>1, MetasOf
<1>6. ASSUME Head(s).type = "file-meta", NoMetaTwice(s),
             Head(s).tid \in Metas(Tail(s))
      PROVE  FALSE
  <2>1. PICK i \in 1..Len(Tail(s)) :
          Tail(s)[i].type = "file-meta" /\ Tail(s)[i].tid = Head(s).tid
    BY <1>6 DEF Metas
  <2>2. /\ s[i + 1].type = "file-meta" /\ s[i + 1].tid = s[1].tid
        /\ s[1].type = "file-meta"
    BY <1>1, <1>6, <2>1
  <2>3. 1 \in 1..Len(s)
    BY <1>1
  <2> QED
    BY <1>2, <1>6, <2>2, <2>3 DEF NoMetaTwice
<1> QED
  BY <1>3, <1>4, <1>5, <1>6

\* Losing the end of a channel loses offers.
LEMMA MetasPrefix ==
  ASSUME NEW s \in Seq(Message), NEW n \in 0..Len(s)
  PROVE  /\ Metas(SubSeq(s, 1, n)) \subseteq Metas(s)
         /\ NoMetaTwice(s) => NoMetaTwice(SubSeq(s, 1, n))
<1>1. /\ Len(SubSeq(s, 1, n)) = n
      /\ \A i \in 1..n : SubSeq(s, 1, n)[i] = s[i] /\ i \in 1..Len(s)
  OBVIOUS
<1>2. Metas(SubSeq(s, 1, n)) \subseteq Metas(s)
  <2> SUFFICES ASSUME NEW t \in Metas(SubSeq(s, 1, n)) PROVE t \in Metas(s)
    OBVIOUS
  <2>1. PICK i \in 1..Len(SubSeq(s, 1, n)) :
          SubSeq(s, 1, n)[i].type = "file-meta" /\ SubSeq(s, 1, n)[i].tid = t
    BY DEF Metas
  <2> QED
    BY <1>1, <2>1, MetasOf
<1> QED
  BY <1>1, <1>2 DEF NoMetaTwice

\* Sending anything but an offer adds none.
LEMMA MetasSent ==
  ASSUME NEW s \in Seq(Message), NEW ms \in Seq(Message),
         \A i \in 1..Len(ms) : ms[i].type # "file-meta"
  PROVE  /\ Metas(s \o ms) \subseteq Metas(s)
         /\ NoMetaTwice(s) => NoMetaTwice(s \o ms)
<1>1. /\ Len(s \o ms) = Len(s) + Len(ms) /\ Len(s) \in Nat /\ Len(ms) \in Nat
      /\ \A i \in 1..Len(s) : (s \o ms)[i] = s[i]
      /\ \A i \in 1..Len(s \o ms) :
           i \notin 1..Len(s) =>
             i - Len(s) \in 1..Len(ms) /\ (s \o ms)[i] = ms[i - Len(s)]
  OBVIOUS
<1>2. \A i \in 1..Len(s \o ms) : (s \o ms)[i].type = "file-meta" =>
        i \in 1..Len(s) /\ (s \o ms)[i] = s[i]
  BY <1>1
<1>3. Metas(s \o ms) \subseteq Metas(s)
  <2> SUFFICES ASSUME NEW t \in Metas(s \o ms) PROVE t \in Metas(s)
    OBVIOUS
  <2>1. PICK i \in 1..Len(s \o ms) :
               (s \o ms)[i].type = "file-meta" /\ (s \o ms)[i].tid = t
    BY MetasOf
  <2> QED
    BY <1>2, <2>1, MetasOf
<1>4. NoMetaTwice(s) => NoMetaTwice(s \o ms)
  BY <1>2 DEF NoMetaTwice
<1> QED
  BY <1>3, <1>4

\* The same for one new offer.
LEMMA MetasOffered ==
  ASSUME NEW s \in Seq(Message), NEW t \in TidOrNone, t \notin Metas(s)
  PROVE  /\ Metas(s \o <<Msg("file-meta", t)>>) \subseteq Metas(s) \cup {t}
         /\ NoMetaTwice(s) => NoMetaTwice(s \o <<Msg("file-meta", t)>>)
<1> DEFINE m == Msg("file-meta", t)
           u == s \o <<m>>
<1>1. /\ m.type = "file-meta" /\ m.tid = t
      /\ m \in Message
  BY MsgType DEF Msg, MessageType
<1> HIDE DEF m
<1>2. /\ Len(u) = Len(s) + 1 /\ Len(s) \in Nat
      /\ \A i \in 1..Len(s) : u[i] = s[i]
      /\ u[Len(s) + 1] = m
  BY <1>1
<1> HIDE DEF u
<1>3. \A i \in 1..Len(u) : i \in 1..Len(s) \/ i = Len(s) + 1
  BY <1>2
<1>4. Metas(u) \subseteq Metas(s) \cup {t}
  <2> SUFFICES ASSUME NEW x \in Metas(u), x # t PROVE x \in Metas(s)
    OBVIOUS
  <2>1. PICK i \in 1..Len(u) : u[i].type = "file-meta" /\ u[i].tid = x
    BY MetasOf
  <2>2. i \in 1..Len(s) /\ u[i] = s[i]
    BY <1>1, <1>2, <1>3, <2>1
  <2> QED
    BY <2>1, <2>2, MetasOf
<1>5. \A i \in 1..Len(s) : s[i].type = "file-meta" => s[i].tid # t
  BY MetasOf
<1>6. NoMetaTwice(s) => NoMetaTwice(u)
  BY <1>1, <1>2, <1>3, <1>5 DEF NoMetaTwice
<1> QED
  BY <1>4, <1>6 DEF u, m

LEMMA SentFewer ==
  ASSUME NEW p \in Peer, NEW c \in [Peer -> Seq(Message)],
         NEW ms \in Seq(Message),
         \A i \in 1..Len(ms) : ms[i].type # "file-meta"
  PROVE  Fewer(c, Sent(c, p, ms))
<1>1. Other(p) \in Peer /\ c[Other(p)] \in Seq(Message)
  BY OtherIsPeer
<1>2. /\ Metas(c[Other(p)] \o ms) \subseteq Metas(c[Other(p)])
      /\ NoMetaTwice(c[Other(p)]) => NoMetaTwice(c[Other(p)] \o ms)
  BY <1>1, MetasSent
<1> QED
  BY <1>1, <1>2 DEF Sent, Fewer

LEMMA TrySentFewer ==
  ASSUME NEW p \in Peer, NEW c \in [Peer -> Seq(Message)],
         NEW type \in MessageType, type # "file-meta", NEW t \in TidOrNone
  PROVE  Fewer(c, TrySent(c, p, Msg(type, t)))
<1>1. Msg(type, t) \in Message /\ Msg(type, t).type = type
  BY MsgType DEF Msg
<1> DEFINE ms == <<Msg(type, t)>>
<1>2. ms \in Seq(Message) /\ \A i \in 1..Len(ms) : ms[i].type # "file-meta"
  BY <1>1
<1>3. Fewer(c, Sent(c, p, ms))
  BY <1>2, SentFewer
<1> QED
  BY <1>3 DEF TrySent, Fewer

LEMMA RestFewer ==
  ASSUME TypeOK, NEW p \in Peer, chan[p] # <<>>
  PROVE  Fewer(chan, Rest(p))
<1>1. chan[p] \in Seq(Message)
  BY DEF TypeOK
<1>2. /\ Metas(Tail(chan[p])) \subseteq Metas(chan[p])
      /\ NoMetaTwice(chan[p]) => NoMetaTwice(Tail(chan[p]))
  BY <1>1, MetasTail
<1> QED
  BY <1>2 DEF Rest, Fewer, TypeOK

LEMMA FewerStill ==
  ASSUME NEW c, NEW d, NEW e, Fewer(c, d), Fewer(d, e)
  PROVE  Fewer(c, e)
BY DEF Fewer

LEMMA SameFewer == \A c : Fewer(c, c)
BY DEF Fewer

-----------------------------------------------------------------------------
(* Resets *)

\* The loops lp are those of transfers somebody offered.
Owned(lp) == \A t \in Tid : lp[t].pc # "off" => owner[t] \in Peer

LEMMA ReplacedCalm ==
  ASSUME TypeOK, OwnLoops, NEW p \in Peer, NEW lp \in [Tid -> Loop], Owned(lp),
         NEW old, Replaced(p, lp, old)
  PROVE  XferCalm /\ LoopCalm
<1>1. XferCalm
  <2>1. InitialTransferState.state = "idle"
        /\ InitialTransferState.stream = NoTid
    BY DEF InitialTransferState
  <2> QED
    BY <2>1 DEF Replaced, XferCalm, TypeOK
<1>2. \A t \in Tid : loop'[t].pc = lp[t].pc
  <2> SUFFICES ASSUME NEW t \in Tid PROVE loop'[t].pc = lp[t].pc
    OBVIOUS
  <2>1. lp[t] \in Loop
    OBVIOUS
  <2>2. [lp[t] EXCEPT !.obj = old].pc = lp[t].pc
    BY <2>1 DEF Loop
  <2> QED
    BY <2>2 DEF Replaced
<1>3. \A q \in Peer : low'[q] # NoTid => owner[low'[q]] = q
  BY DEF Replaced, OwnLoops, TypeOK
<1> QED
  BY <1>1, <1>2, <1>3 DEF LoopCalm, Owned

LEMMA StaledCalm ==
  ASSUME TypeOK, NEW p \in Peer, chain' = Staled(p)
  PROVE  \A q \in Peer : /\ chain'[q].pc = chain[q].pc
                         /\ chain'[q].handle = chain[q].handle
<1>1. chain[p] \in Handler
  BY DEF TypeOK
<1>2. /\ [chain[p] EXCEPT !.obj = "stale"].pc = chain[p].pc
      /\ [chain[p] EXCEPT !.obj = "stale"].handle = chain[p].handle
  BY <1>1 DEF Handler
<1> QED
  BY <1>2 DEF Staled, TypeOK

LEMMA ResetTransferCalm ==
  ASSUME TypeOK, OwnLoops, OwnFiles, NEW p \in Peer,
         NEW lp \in [Tid -> Loop], Owned(lp), ResetTransfer(p, lp)
  PROVE  /\ XferCalm /\ LoopCalm /\ AbortCalm /\ ChainCalm
         /\ disk' = disk => CloseCalm
<1>1. \A q \in Peer : \A h \in aborting[q] : h # NoTid
  BY TidAssumption DEF OwnFiles, Opened
<1>2. CASE xfer[p].stream = NoTid
  <2>1. /\ Replaced(p, lp, "halted") /\ chain' = Staled(p)
        /\ aborting' = aborting
    BY <1>2 DEF ResetTransfer
  <2>2. \A q \in Peer : /\ chain'[q].pc = chain[q].pc
                        /\ chain'[q].handle = chain[q].handle
    BY <2>1, StaledCalm
  <2>3. XferCalm /\ LoopCalm
    BY <2>1, ReplacedCalm
  <2>4. AbortCalm
    BY <1>1, <2>1 DEF AbortCalm
  <2>5. ChainCalm /\ (disk' = disk => CloseCalm)
    BY <2>2 DEF ChainCalm, CloseCalm
  <2> QED
    BY <2>3, <2>4, <2>5
<1>3. CASE xfer[p].stream # NoTid
  <2>1. /\ aborting' = [aborting EXCEPT ![p] = @ \cup {xfer[p].stream}]
        /\ loop' = lp /\ xfer' = xfer /\ chain' = chain /\ low' = low
    BY <1>3 DEF ResetTransfer
  <2>2. AbortCalm
    BY <1>1, <1>3, <2>1 DEF AbortCalm, TypeOK
  <2>3. XferCalm /\ ChainCalm /\ (disk' = disk => CloseCalm)
    BY <2>1 DEF XferCalm, ChainCalm, CloseCalm
  <2>4. LoopCalm
    BY <2>1 DEF LoopCalm, OwnLoops, Owned
  <2> QED
    BY <2>2, <2>3, <2>4
<1> QED
  BY <1>2, <1>3

LEMMA ResetInChainCalm ==
  ASSUME TypeOK, OwnLoops, OwnFiles, NEW p \in Peer, ResetInChain(p)
  PROVE  /\ XferCalm /\ LoopCalm /\ ChainCalm
         /\ disk' = disk => CloseCalm
<1>1. loop \in [Tid -> Loop] /\ Owned(loop)
  BY DEF TypeOK, OwnLoops, Owned
<1>2. FreeChain.handle = NoTid /\ FreeChain.pc = "free"
  BY DEF FreeChain
<1>3. CASE xfer[p].stream = NoTid
  <2>1. /\ Replaced(p, loop, "halted")
        /\ chain' = [chain EXCEPT ![p] = FreeChain]
    BY <1>3 DEF ResetInChain
  <2>2. XferCalm /\ LoopCalm
    BY <1>1, <2>1, ReplacedCalm
  <2>3. ChainCalm /\ (disk' = disk => CloseCalm)
    BY <1>2, <2>1 DEF ChainCalm, CloseCalm, TypeOK
  <2> QED
    BY <2>2, <2>3
<1>4. CASE xfer[p].stream # NoTid
  <2> DEFINE c == [FreeChain EXCEPT !.pc = "reset", !.handle = xfer[p].stream]
  <2>1. c.pc = "reset" /\ c.handle = xfer[p].stream
    BY FreeChainType DEF Handler
  <2>2. /\ chain' = [chain EXCEPT ![p] = c]
        /\ loop' = loop /\ xfer' = xfer /\ low' = low
    BY <1>4 DEF ResetInChain
  <2> HIDE DEF c
  <2>3. XferCalm
    BY <2>2 DEF XferCalm
  <2>4. LoopCalm
    BY <2>2 DEF LoopCalm, OwnLoops
  <2>5. ChainCalm /\ (disk' = disk => CloseCalm)
    BY <2>1, <2>2 DEF ChainCalm, CloseCalm, TypeOK
  <2> QED
    BY <2>3, <2>4, <2>5
<1> QED
  BY <1>3, <1>4

\* An abort changes the status of a file somebody opened, and no other.
LEMMA DiscardedCalm ==
  ASSUME TypeOK, OwnFiles, NEW p \in Peer, NEW h, Opened(p, h),
         disk' = Discarded(h)
  PROVE  /\ DiskCalm
         /\ \A g \in Tid \ {h} : disk'[g] = disk[g]
<1>1. h \in Tid /\ disk[h].status # "none" /\ disk[h] \in File
  BY DEF Opened, TypeOK
<1>2. [disk[h] EXCEPT !.status = "discarded", !.data = <<>>].status
        = "discarded"
  BY <1>1 DEF File
<1> QED
  BY <1>1, <1>2 DEF Discarded, DiskCalm, TypeOK

-----------------------------------------------------------------------------
(* The steps that are calm *)

Inv == TypeOK /\ FilesHaveOnePlace

LEMMA CalmStep ==
  ASSUME Inv, Calm, CloseCalm
  PROVE  FilesHaveOnePlace'
<1>1. ClosingIsOpen'
  BY DEF Inv, FilesHaveOnePlace, ClosingIsOpen, CloseCalm
<1> QED
  BY <1>1, CalmKeeps DEF Inv, FilesHaveOnePlace

LEMMA SameCalm ==
  ASSUME Inv
  PROVE  /\ xfer' = xfer => XferCalm
         /\ loop' = loop /\ low' = low /\ owner' = owner => LoopCalm
         /\ aborting' = aborting => AbortCalm
         /\ chain' = chain => ChainCalm
         /\ chain' = chain /\ disk' = disk => CloseCalm
         /\ chan' = chan => ChanCalm
         /\ disk' = disk => DiskCalm
         /\ picker' = picker => PickerCalm
         /\ loop \in [Tid -> Loop] /\ Owned(loop)
         /\ chan \in [Peer -> Seq(Message)]
<1>1. \A q \in Peer : \A h \in aborting[q] : h # NoTid
  BY TidAssumption DEF Inv, FilesHaveOnePlace, OwnFiles, Opened
<1> QED
  BY <1>1, SameFewer
  DEF Inv, TypeOK, FilesHaveOnePlace, OwnLoops, Owned, XferCalm, LoopCalm,
      AbortCalm, ChainCalm, CloseCalm, ChanCalm, DiskCalm, PickerCalm

\* A reset outside the chain, after telling the other browser or silently.
LEMMA ResetStep ==
  ASSUME Inv, NEW p \in Peer, NEW lp \in [Tid -> Loop], Owned(lp),
         ResetTransfer(p, lp), ChanCalm, PickerCalm, UNCHANGED <<disk, owner>>
  PROVE  FilesHaveOnePlace'
<1>1. /\ XferCalm /\ LoopCalm /\ AbortCalm /\ ChainCalm /\ CloseCalm
  BY ResetTransferCalm DEF Inv, FilesHaveOnePlace
<1> QED
  BY <1>1, SameCalm, CalmStep DEF Calm

LEMMA UserCancels ==
  ASSUME Inv, NEW p \in Peer, PickerAbort(p) \/ Reject(p) \/ Cancel(p)
  PROVE  FilesHaveOnePlace'
<1>1. PICK type \in MessageType :
        type # "file-meta" /\ chan' = TrySent(chan, p, Msg(type, xfer[p].tid))
  BY DEF PickerAbort, Reject, Cancel, MessageType
<1>2. xfer[p].tid \in TidOrNone
  BY XferType DEF Inv
<1>3. ChanCalm
  BY <1>1, <1>2, TrySentFewer, SameCalm DEF ChanCalm
<1>4. ResetTransfer(p, loop) /\ UNCHANGED <<disk, owner>>
  BY DEF PickerAbort, Reject, Cancel
<1>5. PickerCalm
  BY DEF PickerAbort, Reject, Cancel, PickerCalm, Inv, TypeOK
<1> QED
  BY <1>3, <1>4, <1>5, ResetStep, SameCalm

\* The handlers that prompt for nothing and close nothing.
LEMMA HandleReadyStep ==
  ASSUME Inv, NEW p \in Peer, HandleReady(p)
  PROVE  FilesHaveOnePlace'
<1> DEFINE t == Head(chan[p]).tid
<1>1. ChanCalm /\ PickerCalm /\ UNCHANGED <<disk, owner>>
  BY RestFewer, SameCalm DEF HandleReady, Dispatch, ChanCalm, Inv
<1>2. CASE ~(IsTransferIdValid(p, t) /\ xfer[p].state = "offering")
  <2>1. UNCHANGED <<xfer, cancelled, chain, aborting, loop, low>>
    BY <1>2 DEF HandleReady
  <2> QED
    BY <1>1, <2>1, SameCalm, CalmStep DEF Calm
<1>3. CASE /\ IsTransferIdValid(p, t) /\ xfer[p].state = "offering"
           /\ IsOpen(p) /\ p \in secure
  <2>1. /\ xfer' = [xfer EXCEPT ![p].state = "transferring"]
        /\ loop' = [loop EXCEPT ![t] = [pc |-> FirstStep(t), next |-> 1,
                                        obj |-> "live"]]
        /\ UNCHANGED <<chain, aborting, low>>
    BY <1>3 DEF HandleReady
  <2>2. xfer[p].tid = t /\ owner[t] = p /\ t \in Tid
    BY <1>3 DEF IsTransferIdValid, Inv, FilesHaveOnePlace, OwnLoops
  <2> HIDE DEF t
  <2>3. LoopCalm
    BY <2>1, <2>2, SameCalm
    DEF LoopCalm, Owned, Inv, FilesHaveOnePlace, OwnLoops
  <2>4. xfer[p] \in Transfer
    BY XferType DEF Inv
  <2>5. /\ [xfer[p] EXCEPT !.state = "transferring"].state = "transferring"
        /\ [xfer[p] EXCEPT !.state = "transferring"].stream = xfer[p].stream
    BY <2>4 DEF Transfer
  <2>6. XferCalm
    BY <2>1, <2>5 DEF XferCalm, Inv, TypeOK
  <2> QED
    BY <1>1, <2>1, <2>3, <2>6, SameCalm, CalmStep DEF Calm
<1>4. CASE /\ IsTransferIdValid(p, t) /\ xfer[p].state = "offering"
           /\ ~(IsOpen(p) /\ p \in secure)
  <2>1. ResetTransfer(p, loop)
    BY <1>4 DEF HandleReady
  <2> QED
    BY <1>1, <2>1, ResetStep, SameCalm
<1> QED
  BY <1>2, <1>3, <1>4

\* A handler that resets, and possibly tells the other browser.
LEMMA ResetInChainStep ==
  ASSUME Inv, NEW p \in Peer, ResetInChain(p), ChanCalm,
         UNCHANGED <<aborting, picker, disk, owner>>
  PROVE  FilesHaveOnePlace'
<1>1. /\ XferCalm /\ LoopCalm /\ ChainCalm /\ CloseCalm
  BY ResetInChainCalm DEF Inv, FilesHaveOnePlace
<1> QED
  BY <1>1, SameCalm, CalmStep DEF Calm

LEMMA HandleStopStep ==
  ASSUME Inv, NEW p \in Peer, NEW type, HandleStop(p, type)
  PROVE  FilesHaveOnePlace'
<1>1. ChanCalm /\ UNCHANGED <<aborting, picker, disk, owner>>
  BY RestFewer DEF HandleStop, Dispatch, ChanCalm, Inv
<1>2. CASE ResetInChain(p)
  BY <1>1, <1>2, ResetInChainStep
<1>3. CASE UNCHANGED <<xfer, cancelled, chain, loop, low>>
  BY <1>1, <1>3, SameCalm, CalmStep DEF Calm
<1> QED
  BY <1>2, <1>3 DEF HandleStop

LEMMA HandleChunkHeaderStep ==
  ASSUME Inv, NEW p \in Peer, HandleChunkHeader(p)
  PROVE  FilesHaveOnePlace'
<1>1. /\ ChanCalm
      /\ UNCHANGED <<chain, aborting, disk, loop, low, picker, owner>>
  BY RestFewer DEF HandleChunkHeader, Dispatch, ChanCalm, Inv
<1>2. XferCalm
  <2>1. xfer[p] \in Transfer
    BY XferType DEF Inv
  <2> DEFINE x == [xfer[p] EXCEPT !.expected = Head(chan[p]).idx]
  <2>2. x.state = xfer[p].state /\ x.tid = xfer[p].tid
        /\ x.stream = xfer[p].stream
    BY <2>1 DEF Transfer
  <2>3. xfer' = xfer \/ xfer' = [xfer EXCEPT ![p] = x]
    BY DEF HandleChunkHeader
  <2> HIDE DEF x
  <2> QED
    BY <2>2, <2>3 DEF XferCalm, Inv, TypeOK
<1> QED
  BY <1>1, <1>2, SameCalm, CalmStep DEF Calm

LEMMA HandleBinaryChunkStep ==
  ASSUME Inv, NEW p \in Peer, HandleBinaryChunk(p)
  PROVE  FilesHaveOnePlace'
<1>1. /\ chan[p] # <<>>
      /\ UNCHANGED <<aborting, disk, picker, owner>>
  BY DEF HandleBinaryChunk, Dispatch
<1>2. Fewer(chan, Rest(p)) /\ Rest(p) \in [Peer -> Seq(Message)]
  BY <1>1, RestFewer, HeadType DEF Inv
<1>3. xfer[p].tid \in TidOrNone
  BY XferType DEF Inv
<1>4. Fewer(Rest(p), TrySent(Rest(p), p, Msg("cancel-transfer", xfer[p].tid)))
  BY <1>2, <1>3, TrySentFewer DEF MessageType
<1>5. ChanCalm
  BY <1>2, <1>4, FewerStill DEF HandleBinaryChunk, ChanCalm
<1>6. CASE ResetInChain(p)
  BY <1>1, <1>5, <1>6, ResetInChainStep
<1>7. CASE UNCHANGED <<xfer, cancelled, chain, loop, low>>
  BY <1>1, <1>5, <1>7, SameCalm, CalmStep DEF Calm
<1> DEFINE h == [pc |-> "decrypt",
                 block |-> <<Head(chan[p]).tid, Head(chan[p]).idx>>,
                 aad |-> <<xfer[p].tid, xfer[p].expected>>,
                 obj |-> "live", handle |-> xfer[p].stream]
<1>8. h.pc = "decrypt" /\ h.handle = xfer[p].stream
  OBVIOUS
<1> HIDE DEF h
<1>9. CASE /\ chain' = [chain EXCEPT ![p] = h]
           /\ UNCHANGED <<xfer, cancelled, loop, low>>
  <2>1. ChainCalm /\ CloseCalm
    BY <1>1, <1>8, <1>9 DEF ChainCalm, CloseCalm, Inv, TypeOK
  <2> QED
    BY <1>1, <1>5, <1>9, <2>1, SameCalm, CalmStep DEF Calm
<1> QED
  BY <1>6, <1>7, <1>9 DEF HandleBinaryChunk, h

LEMMA GiveUpStep ==
  ASSUME Inv, NEW p \in Peer, GiveUp(p),
         UNCHANGED <<aborting, picker, disk, owner>>
  PROVE  FilesHaveOnePlace'
<1>1. chain[p].aad[1] \in TidOrNone
  BY DEF Inv, TypeOK, Handler, Block
<1>2. ChanCalm
  BY <1>1, TrySentFewer, SameCalm DEF GiveUp, MessageType, ChanCalm
<1> QED
  BY <1>2, ResetInChainStep DEF GiveUp

LEMMA DecryptDoneStep ==
  ASSUME Inv, NEW p \in Peer, DecryptDone(p)
  PROVE  FilesHaveOnePlace'
<1>1. UNCHANGED <<aborting, picker, disk, owner>>
  BY DEF DecryptDone
<1>2. CASE GiveUp(p)
  BY <1>1, <1>2, GiveUpStep
<1>3. CASE ~GiveUp(p)
  <2> DEFINE x == [xfer[p] EXCEPT !.expected = 0]
             c == [chain[p] EXCEPT !.pc = "write"]
  <2>1. /\ chain' = [chain EXCEPT ![p] = c]
        /\ xfer' = xfer \/ xfer' = [xfer EXCEPT ![p] = x]
        /\ UNCHANGED <<chan, loop, low>>
    BY <1>3 DEF DecryptDone
  <2>2. xfer[p] \in Transfer /\ chain[p] \in Handler
    BY DEF Inv, TypeOK
  <2>3. /\ x.state = xfer[p].state /\ x.tid = xfer[p].tid
        /\ x.stream = xfer[p].stream
        /\ c.pc = "write" /\ c.handle = chain[p].handle
    BY <2>2 DEF Transfer, Handler
  <2> HIDE DEF x, c
  <2>4. XferCalm
    BY <2>1, <2>3 DEF XferCalm, Inv, TypeOK
  <2>5. ChainCalm /\ CloseCalm
    BY <1>1, <2>1, <2>3 DEF ChainCalm, CloseCalm, Inv, TypeOK
  <2> QED
    BY <1>1, <2>1, <2>4, <2>5, SameCalm, CalmStep DEF Calm
<1> QED
  BY <1>2, <1>3

\* Two browsers never hold the same file.
LEMMA NotShared ==
  ASSUME NEW p \in Peer, NEW q \in Peer, NEW h,
         Opened(p, h) \/ Unopened(p, h), Opened(q, h) \/ Unopened(q, h)
  PROVE  p = q
<1>1. Other(p) = Other(q)
  BY DEF Opened, Unopened
<1> QED
  BY <1>1, PeerAssumption, OtherIsPeer

LEMMA WriteDoneStep ==
  ASSUME Inv, NEW p \in Peer, WriteDone(p)
  PROVE  FilesHaveOnePlace'
<1> DEFINE h == chain[p].handle
<1>1. /\ disk' = [disk EXCEPT ![h].data = Append(@, chain[p].block)]
      /\ chain' = [chain EXCEPT ![p] = FreeChain]
      /\ UNCHANGED <<xfer, chan, aborting, picker, owner, loop, low>>
  BY DEF WriteDone
<1>2. \A g \in Tid : disk'[g].status = disk[g].status
  <2> SUFFICES ASSUME NEW g \in Tid PROVE disk'[g].status = disk[g].status
    OBVIOUS
  <2>1. disk[g] \in File
    BY DEF Inv, TypeOK
  <2>2. [disk[g] EXCEPT !.data = Append(@, chain[p].block)].status
          = disk[g].status
    BY <2>1 DEF File
  <2> QED
    BY <1>1, <2>2 DEF Inv, TypeOK
<1>3. FreeChain.pc = "free" /\ FreeChain.handle = NoTid
  BY DEF FreeChain
<1>4. DiskCalm /\ ChainCalm
  BY <1>1, <1>2, <1>3 DEF DiskCalm, ChainCalm, Inv, TypeOK
<1>5. CloseCalm
  <2> SUFFICES ASSUME NEW q \in Peer, chain'[q].pc = "close"
               PROVE  /\ chain[q].pc = "close"
                      /\ chain'[q].handle = chain[q].handle
                      /\ disk'[chain[q].handle].status
                           = disk[chain[q].handle].status
    BY DEF CloseCalm
  <2>1. q # p /\ chain'[q] = chain[q]
    BY <1>1, <1>3 DEF Inv, TypeOK
  <2>2. chain[q].handle \in Tid
    BY <2>1 DEF Inv, FilesHaveOnePlace, ClosingIsOpen, OwnFiles, Opened
  <2> QED
    BY <1>2, <2>1, <2>2
<1> QED
  BY <1>1, <1>4, <1>5, SameCalm, CalmStep DEF Calm

LEMMA WriteErrorStep ==
  ASSUME Inv, NEW p \in Peer, WriteError(p)
  PROVE  FilesHaveOnePlace'
BY GiveUpStep DEF WriteError

LEMMA FileEndedCalm ==
  ASSUME Inv, NEW p \in Peer, xfer' = FileEnded(p)
  PROVE  XferCalm
<1>1. xfer[p] \in Transfer
  BY XferType DEF Inv
<1> DEFINE x == [xfer[p] EXCEPT !.stream = NoTid, !.state = "idle"]
<1>2. x.state = "idle" /\ x.stream = NoTid
  BY <1>1 DEF Transfer
<1>3. xfer' = [xfer EXCEPT ![p] = x]
  BY <1>1 DEF FileEnded, Inv, TypeOK
<1> HIDE DEF x
<1> QED
  BY <1>2, <1>3 DEF XferCalm, Inv, TypeOK

\* The status of the file p works on may change: no other browser closes it.
LEMMA OthersClose ==
  ASSUME Inv, NEW p \in Peer, NEW h, Opened(p, h),
         \A g \in Tid \ {h} : disk'[g] = disk[g],
         \A q \in Peer \ {p} : /\ chain'[q].pc = chain[q].pc
                               /\ chain'[q].handle = chain[q].handle,
         chain'[p].pc = "close" =>
           /\ chain[p].pc = "close" /\ chain[p].handle # h
           /\ chain'[p].handle = chain[p].handle
  PROVE  CloseCalm
<1> SUFFICES ASSUME NEW q \in Peer, chain'[q].pc = "close"
             PROVE  /\ chain[q].pc = "close"
                    /\ chain'[q].handle = chain[q].handle
                    /\ disk'[chain[q].handle].status
                         = disk[chain[q].handle].status
  BY DEF CloseCalm
<1>1. chain[q].pc = "close" /\ chain'[q].handle = chain[q].handle
  OBVIOUS
<1>2. Opened(q, chain[q].handle)
  BY <1>1 DEF Inv, FilesHaveOnePlace, ClosingIsOpen, OwnFiles
<1>3. chain[q].handle # h
  BY <1>2, NotShared
<1>4. chain[q].handle \in Tid
  BY <1>2 DEF Opened
<1> QED
  BY <1>1, <1>3, <1>4

LEMMA CloseDoneStep ==
  ASSUME Inv, NEW p \in Peer, NEW status \in {"saved", "broken"},
         CloseDone(p, status)
  PROVE  FilesHaveOnePlace'
<1> DEFINE h == chain[p].handle
           d == IF status = "saved" THEN disk[h].data ELSE <<>>
           f == [disk[h] EXCEPT !.status = status, !.data = d]
<1>1. /\ chain[p].pc = "close"
      /\ disk' = [disk EXCEPT ![h] = f]
      /\ xfer' = FileEnded(p)
      /\ chain' = [chain EXCEPT ![p] = FreeChain]
      /\ UNCHANGED <<picker, chan, aborting, owner, loop, low>>
  <2>1. disk' = [disk EXCEPT ![h].status = status,
                             ![h].data = IF status = "saved" THEN @ ELSE <<>>]
    BY DEF CloseDone
  <2>2. Opened(p, h)
    BY DEF CloseDone, Inv, FilesHaveOnePlace, ClosingIsOpen, OwnFiles
  <2>3. disk[h] \in File /\ h \in Tid
    BY <2>2 DEF Opened, Inv, TypeOK
  <2>4. disk' = [disk EXCEPT ![h] = f]
    BY <2>1, <2>3 DEF File, Inv, TypeOK
  <2> QED
    BY <2>4 DEF CloseDone
<1>2. Opened(p, h)
  BY <1>1 DEF Inv, FilesHaveOnePlace, ClosingIsOpen, OwnFiles
<1>3. h \in Tid /\ disk[h] \in File /\ disk[h].status # "none"
  BY <1>2 DEF Opened, Inv, TypeOK
<1>4. f.status = status
  BY <1>3 DEF File
<1>5. FreeChain.pc = "free" /\ FreeChain.handle = NoTid
  BY DEF FreeChain
<1> HIDE DEF f, d, h
<1>6. XferCalm
  BY <1>1, FileEndedCalm
<1>7. DiskCalm /\ \A g \in Tid \ {h} : disk'[g] = disk[g]
  BY <1>1, <1>3, <1>4 DEF DiskCalm, Inv, TypeOK
<1>8. /\ \A q \in Peer \ {p} : chain'[q] = chain[q]
      /\ chain'[p].pc = "free" /\ chain'[p].handle = NoTid
  BY <1>1, <1>5 DEF Inv, TypeOK
<1>9. CloseCalm
  BY <1>2, <1>7, <1>8, OthersClose
<1>10. ChainCalm
  BY <1>8 DEF ChainCalm
<1> QED
  BY <1>1, <1>6, <1>7, <1>9, <1>10, SameCalm, CalmStep DEF Calm

LEMMA FinishChainResetStep ==
  ASSUME Inv, NEW p \in Peer, FinishChainReset(p)
  PROVE  FilesHaveOnePlace'
<1> DEFINE h == chain[p].handle
<1>1. /\ disk' = Discarded(h)
      /\ Replaced(p, loop, OldObject(p))
      /\ chain' = [chain EXCEPT ![p] = FreeChain]
      /\ UNCHANGED <<picker, chan, aborting, owner>>
  BY DEF FinishChainReset
<1> HIDE DEF h
<1>2. FreeChain.pc = "free" /\ FreeChain.handle = NoTid
  BY DEF FreeChain
<1>3. /\ \A q \in Peer \ {p} : chain'[q] = chain[q]
      /\ chain'[p].pc = "free" /\ chain'[p].handle = NoTid
  BY <1>1, <1>2 DEF Inv, TypeOK
<1>4. ChainCalm
  BY <1>3 DEF ChainCalm
<1>5. XferCalm /\ LoopCalm
  BY <1>1, SameCalm, ReplacedCalm DEF Inv, FilesHaveOnePlace
<1>6. DiskCalm /\ CloseCalm
  <2>1. CASE h = NoTid
    <3>1. disk' = disk
      BY <1>1, <2>1, TidAssumption DEF Discarded, Inv, TypeOK
    <3> QED
      BY <1>3, <3>1, SameCalm DEF CloseCalm
  <2>2. CASE h # NoTid
    <3>1. Opened(p, h)
      BY <2>2 DEF Inv, FilesHaveOnePlace, OwnFiles, h
    <3>2. DiskCalm /\ \A g \in Tid \ {h} : disk'[g] = disk[g]
      BY <1>1, <3>1, DiscardedCalm DEF Inv, FilesHaveOnePlace
    <3> QED
      BY <1>3, <3>1, <3>2, OthersClose
  <2> QED
    BY <2>1, <2>2
<1> QED
  BY <1>1, <1>4, <1>5, <1>6, SameCalm, CalmStep DEF Calm

LEMMA FinishAbortStep ==
  ASSUME Inv, NEW p \in Peer, NEW h, FinishAbort(p, h)
  PROVE  FilesHaveOnePlace'
<1>1. /\ h \in aborting[p]
      /\ ~(chain[p].pc = "close" /\ chain[p].handle = h)
      /\ aborting' = [aborting EXCEPT ![p] = @ \ {h}]
      /\ disk' = Discarded(h)
      /\ Replaced(p, loop, OldObject(p))
      /\ chain' = Staled(p)
      /\ UNCHANGED <<picker, chan, owner>>
  BY DEF FinishAbort
<1>2. Opened(p, h)
  BY <1>1 DEF Inv, FilesHaveOnePlace, OwnFiles
<1>3. XferCalm /\ LoopCalm
  BY <1>1, SameCalm, ReplacedCalm DEF Inv, FilesHaveOnePlace
<1>4. \A q \in Peer : /\ chain'[q].pc = chain[q].pc
                      /\ chain'[q].handle = chain[q].handle
  BY <1>1, StaledCalm DEF Inv
<1>5. DiskCalm /\ \A g \in Tid \ {h} : disk'[g] = disk[g]
  BY <1>1, <1>2, DiscardedCalm DEF Inv, FilesHaveOnePlace
<1>6. CloseCalm
  BY <1>1, <1>2, <1>4, <1>5, OthersClose
<1>7. ChainCalm
  BY <1>4 DEF ChainCalm
<1>8. AbortCalm
  <2>1. \A q \in Peer : \A g \in aborting[q] : g # NoTid
    BY TidAssumption DEF Inv, FilesHaveOnePlace, OwnFiles, Opened
  <2> QED
    BY <1>1, <2>1 DEF AbortCalm, Inv, TypeOK
<1> QED
  BY <1>1, <1>3, <1>5, <1>6, <1>7, <1>8, SameCalm, CalmStep DEF Calm

\* The only handler that starts to close a file closes an open one.
LEMMA HandleFileEndStep ==
  ASSUME Inv, NEW p \in Peer, HandleFileEnd(p)
  PROVE  FilesHaveOnePlace'
<1> DEFINE h == xfer[p].stream
           c == [FreeChain EXCEPT !.pc = "close", !.handle = h]
<1>1. /\ ChanCalm
      /\ UNCHANGED <<picker, owner, aborting, disk, loop, low>>
  BY RestFewer DEF HandleFileEnd, Dispatch, ChanCalm, Inv
<1>2. CASE UNCHANGED <<xfer, chain>>
  BY <1>1, <1>2, SameCalm, CalmStep DEF Calm
<1>3. CASE xfer' = [xfer EXCEPT ![p].state = "idle"] /\ UNCHANGED chain
  <2>1. xfer[p] \in Transfer
    BY XferType DEF Inv
  <2> DEFINE x == [xfer[p] EXCEPT !.state = "idle"]
  <2>2. x.state = "idle" /\ x.stream = xfer[p].stream
    BY <2>1 DEF Transfer
  <2>3. xfer' = [xfer EXCEPT ![p] = x]
    BY <1>3
  <2> HIDE DEF x
  <2>4. XferCalm
    BY <2>2, <2>3 DEF XferCalm, Inv, TypeOK
  <2> QED
    BY <1>1, <1>3, <2>4, SameCalm, CalmStep DEF Calm
<1>4. CASE xfer' = FileEnded(p) /\ UNCHANGED chain
  BY <1>1, <1>4, FileEndedCalm, SameCalm, CalmStep DEF Calm
<1>5. CASE /\ h # NoTid /\ Usable(p, h) /\ UNCHANGED xfer
           /\ chain' = [chain EXCEPT ![p] = c]
  <2>1. c.pc = "close" /\ c.handle = h
    BY FreeChainType DEF Handler
  <2> HIDE DEF c
  <2>2. ChainCalm
    BY <1>5, <2>1 DEF ChainCalm, Inv, TypeOK
  <2>3. Calm
    BY <1>1, <1>5, <2>2, SameCalm DEF Calm
  <2>4. ClosingIsOpen'
    <3> SUFFICES ASSUME NEW q \in Peer, chain'[q].pc = "close"
                 PROVE  /\ chain'[q].handle # NoTid
                        /\ disk'[chain'[q].handle].status = "open"
      BY DEF ClosingIsOpen
    <3>1. CASE q = p
      BY <1>1, <1>5, <2>1, <3>1 DEF Usable, Inv, TypeOK
    <3>2. CASE q # p
      BY <1>1, <1>5, <3>2
      DEF Inv, TypeOK, FilesHaveOnePlace, ClosingIsOpen
    <3> QED
      BY <3>1, <3>2
  <2> QED
    BY <2>3, <2>4, CalmKeeps DEF Inv, FilesHaveOnePlace
<1> QED
  BY <1>2, <1>3, <1>4, <1>5 DEF HandleFileEnd

-----------------------------------------------------------------------------
(* The chunk loops *)

\* A chunk loop that goes on, waits or stops sends no offer and leaves the
\* files alone.
LEMMA LoopStep ==
  ASSUME Inv, LoopCalm, XferCalm, ChanCalm,
         UNCHANGED <<picker, chain, aborting, disk, owner>>
  PROVE  FilesHaveOnePlace'
BY SameCalm, CalmStep DEF Calm

\* The loop of t changes its state, and perhaps its position.
LEMMA LoopSet ==
  ASSUME Inv, NEW t \in Tid, NEW l, loop' = [loop EXCEPT ![t] = l],
         owner[t] \in Peer,
         low' = low \/ low' = [low EXCEPT ![owner[t]] = t]
  PROVE  LoopCalm
BY SameCalm DEF LoopCalm, Owned, Inv, TypeOK, FilesHaveOnePlace, OwnLoops

LEMMA ReadDoneStep ==
  ASSUME Inv, NEW t \in Tid, ReadDone(t)
  PROVE  FilesHaveOnePlace'
<1>1. owner[t] \in Peer
  BY DEF ReadDone, Inv, FilesHaveOnePlace, OwnLoops
<1>2. PICK l : loop' = [loop EXCEPT ![t] = l]
  BY DEF ReadDone
<1>3. LoopCalm
  BY <1>1, <1>2, LoopSet DEF ReadDone
<1> QED
  BY <1>3, LoopStep, SameCalm DEF ReadDone

\* The loop of t, stopped by an error.
LEMMA StoppedOwned ==
  ASSUME Inv, NEW t \in Tid
  PROVE  /\ [loop EXCEPT ![t].pc = "off"] \in [Tid -> Loop]
         /\ Owned([loop EXCEPT ![t].pc = "off"])
<1>1. loop[t] \in Loop
  BY DEF Inv, TypeOK
<1> DEFINE l == [loop[t] EXCEPT !.pc = "off"]
<1>2. l \in Loop /\ l.pc = "off"
  BY <1>1 DEF Loop
<1>3. [loop EXCEPT ![t].pc = "off"] = [loop EXCEPT ![t] = l]
  OBVIOUS
<1> HIDE DEF l
<1> QED
  BY <1>2, <1>3, SameCalm DEF Owned

LEMMA ReadErrorStep ==
  ASSUME Inv, NEW t \in Tid, ReadError(t)
  PROVE  FilesHaveOnePlace'
<1>1. owner[t] \in Peer
  BY DEF ReadError, Inv, FilesHaveOnePlace, OwnLoops
<1> DEFINE lp == [loop EXCEPT ![t].pc = "off"]
<1>2. ResetTransfer(owner[t], lp) /\ UNCHANGED <<picker, chan, disk, owner>>
  BY DEF ReadError
<1>3. lp \in [Tid -> Loop] /\ Owned(lp)
  BY StoppedOwned
<1> HIDE DEF lp
<1> QED
  BY <1>1, <1>2, <1>3, ResetStep, SameCalm

LEMMA SendFailsStep ==
  ASSUME Inv, NEW t \in Tid, SendFails(t)
  PROVE  FilesHaveOnePlace'
<1>1. owner[t] \in Peer
  BY DEF SendFails, Inv, FilesHaveOnePlace, OwnLoops
<1> DEFINE lp == [loop EXCEPT ![t].pc = "off"]
<1>2. UNCHANGED <<picker, chan, disk, owner>>
  BY DEF SendFails
<1>3. lp \in [Tid -> Loop] /\ Owned(lp)
  BY StoppedOwned
<1>4. CASE ResetTransfer(owner[t], lp)
  <2> HIDE DEF lp
  <2> QED
    BY <1>1, <1>2, <1>3, <1>4, ResetStep, SameCalm
<1>5. CASE loop' = lp /\ UNCHANGED <<xfer, cancelled, chain, aborting, low>>
  <2>1. PICK l : loop' = [loop EXCEPT ![t] = l]
    BY <1>5
  <2>2. LoopCalm
    BY <1>1, <1>5, <2>1, LoopSet
  <2> QED
    BY <1>2, <1>5, <2>2, LoopStep, SameCalm
<1> QED
  BY <1>4, <1>5 DEF SendFails

LEMMA SendChunkStep ==
  ASSUME Inv, NEW t \in Tid, SendChunk(t)
  PROVE  FilesHaveOnePlace'
<1>1. owner[t] \in Peer
  BY DEF SendChunk, Inv, FilesHaveOnePlace, OwnLoops
<1>2. PICK l : loop' = [loop EXCEPT ![t] = l]
  BY DEF SendChunk
<1>3. LoopCalm
  BY <1>1, <1>2, LoopSet DEF SendChunk
<1> DEFINE ms == <<ChunkHeader(t, loop[t].next), Binary(t, loop[t].next)>>
<1>4. ms \in Seq(Message) /\ \A i \in 1..Len(ms) : ms[i].type # "file-meta"
  <2>1. loop[t].next \in Nat /\ t \in TidOrNone
    BY DEF Inv, TypeOK, Loop, TidOrNone
  <2> QED
    BY <2>1 DEF ChunkHeader, Binary, Message, MessageType
<1>5. chan' = Sent(chan, owner[t], ms)
  BY DEF SendChunk
<1> HIDE DEF ms
<1>6. ChanCalm
  BY <1>1, <1>4, <1>5, SentFewer, SameCalm DEF ChanCalm
<1> QED
  BY <1>3, <1>6, LoopStep, SameCalm DEF SendChunk

LEMMA SendLastChunkStep ==
  ASSUME Inv, NEW t \in Tid, SendLastChunk(t)
  PROVE  FilesHaveOnePlace'
<1>1. owner[t] \in Peer
  BY DEF SendLastChunk, Inv, FilesHaveOnePlace, OwnLoops
<1>2. PICK l : loop' = [loop EXCEPT ![t] = l]
  BY DEF SendLastChunk
<1>3. LoopCalm
  BY <1>1, <1>2, LoopSet DEF SendLastChunk
<1> DEFINE ms == LastMessages(t, loop[t].next)
<1>4. ms \in Seq(Message) /\ \A i \in 1..Len(ms) : ms[i].type # "file-meta"
  <2>1. loop[t].next \in Nat /\ t \in TidOrNone
    BY DEF Inv, TypeOK, Loop, TidOrNone
  <2> QED
    BY <2>1 DEF LastMessages, ChunkHeader, Binary, Msg, Message, MessageType
<1>5. chan' = Sent(chan, owner[t], ms)
  BY DEF SendLastChunk
<1> HIDE DEF ms
<1>6. ChanCalm
  BY <1>1, <1>4, <1>5, SentFewer, SameCalm DEF ChanCalm
<1>7. XferCalm
  <2>1. xfer[owner[t]] \in Transfer
    BY <1>1, XferType DEF Inv
  <2> DEFINE x == [xfer[owner[t]] EXCEPT !.state = "idle"]
  <2>2. x.state = "idle" /\ x.stream = xfer[owner[t]].stream
    BY <2>1 DEF Transfer
  <2>3. xfer' = xfer \/ xfer' = [xfer EXCEPT ![owner[t]] = x]
    BY DEF SendLastChunk, Completed
  <2> HIDE DEF x
  <2> QED
    BY <1>1, <2>2, <2>3 DEF XferCalm, Inv, TypeOK
<1> QED
  BY <1>3, <1>6, <1>7, LoopStep, SameCalm DEF SendLastChunk

LEMMA SendLoopStep ==
  ASSUME Inv, NEW t \in Tid, SendLoop(t)
  PROVE  FilesHaveOnePlace'
BY ReadDoneStep, ReadErrorStep, SendChunkStep, SendLastChunkStep,
   SendFailsStep DEF SendLoop

LEMMA BufferedAmountLowStep ==
  ASSUME Inv, NEW p \in Peer, BufferedAmountLow(p)
  PROVE  FilesHaveOnePlace'
<1> DEFINE t == low[p]
<1>1. t # NoTid /\ owner[t] = p
  BY DEF BufferedAmountLow, Inv, FilesHaveOnePlace, OwnLoops
<1>2. t \in Tid
  BY <1>1 DEF Inv, TypeOK, TidOrNone
<1>3. PICK l : loop' = [loop EXCEPT ![t] = l]
  BY DEF BufferedAmountLow
<1>4. low' = [low EXCEPT ![p] = NoTid]
  BY DEF BufferedAmountLow
<1> HIDE DEF t
<1>5. LoopCalm
  BY <1>1, <1>2, <1>3, <1>4, SameCalm
  DEF LoopCalm, Owned, Inv, TypeOK, FilesHaveOnePlace, OwnLoops
<1> QED
  BY <1>5, LoopStep, SameCalm DEF BufferedAmountLow

LEMMA CloseChannelStep ==
  ASSUME Inv, NEW p \in Peer, CloseChannel(p)
  PROVE  FilesHaveOnePlace'
<1>1. PICK n \in 0..Len(chan[p]) : chan' = [chan EXCEPT ![p] = SubSeq(@, 1, n)]
  BY DEF CloseChannel
<1>2. chan \in [Peer -> Seq(Message)] /\ chan[p] \in Seq(Message)
  BY DEF Inv, TypeOK
<1>3. /\ Metas(SubSeq(chan[p], 1, n)) \subseteq Metas(chan[p])
      /\ NoMetaTwice(chan[p]) => NoMetaTwice(SubSeq(chan[p], 1, n))
  BY <1>2, MetasPrefix
<1>4. ChanCalm
  BY <1>1, <1>2, <1>3, SameFewer DEF ChanCalm, Fewer
<1>5. PickerCalm /\ UNCHANGED <<picker, disk, owner>>
  BY SameCalm DEF CloseChannel
<1>6. CASE ResetTransfer(p, loop)
  BY <1>4, <1>5, <1>6, ResetStep, SameCalm
<1>7. CASE UNCHANGED <<xfer, cancelled, chain, aborting, loop, low>>
  BY <1>4, <1>5, <1>7, SameCalm, CalmStep DEF Calm
<1> QED
  BY <1>6, <1>7 DEF CloseChannel

LEMMA HandshakeDoneStep ==
  ASSUME Inv, NEW p \in Peer, HandshakeDone(p)
  PROVE  FilesHaveOnePlace'
BY SameCalm, CalmStep DEF HandshakeDone, Calm

LEMMA StutterStep ==
  ASSUME Inv, UNCHANGED vars
  PROVE  FilesHaveOnePlace'
BY SameCalm, CalmStep DEF vars, Calm

-----------------------------------------------------------------------------
(* The steps of an offer: it is sent, prompted for, accepted and opened. *)

LEMMA OfferStep ==
  ASSUME Inv, NEW p \in Peer, NEW t \in Tid, Offer(p, t)
  PROVE  FilesHaveOnePlace'
<1> DEFINE q == Other(p)
           ms == <<Msg("file-meta", t)>>
           x == [xfer[p] EXCEPT !.state = "offering", !.direction = "send",
                                !.tid = t]
<1>1. /\ owner[t] = NoPeer /\ NoPeer \notin Peer
      /\ owner' = [owner EXCEPT ![t] = p]
      /\ chan' = Sent(chan, p, ms)
      /\ UNCHANGED <<picker, chain, aborting, disk, loop, low>>
  BY NoPeerAssumption DEF Offer
<1>2. xfer' = [xfer EXCEPT ![p] = x]
  BY DEF Offer, Inv, TypeOK
<1>3. xfer[p] \in Transfer
  BY XferType DEF Inv
<1>4. x.state = "offering" /\ x.tid = t /\ x.stream = xfer[p].stream
  BY <1>3 DEF Transfer
<1>5. q \in Peer /\ Other(q) = p /\ q # p
  BY PeerAssumption, OtherIsPeer
<1>6. disk[t].status = "none"
  BY <1>1 DEF Inv, FilesHaveOnePlace, OwnFiles
<1>7. \A r \in Peer : Other(r) # NoPeer
  BY <1>1, OtherIsPeer
<1>8. chan[q] \in Seq(Message) /\ t \in TidOrNone
  BY <1>5 DEF Inv, TypeOK, TidOrNone
<1>9. t \notin Metas(chan[q])
  BY <1>1, <1>5, <1>7 DEF Inv, FilesHaveOnePlace, OpenedOnce, Unopened
<1>10. /\ Metas(chan[q] \o ms) \subseteq Metas(chan[q]) \cup {t}
       /\ NoMetaTwice(chan[q]) => NoMetaTwice(chan[q] \o ms)
  BY <1>8, <1>9, MetasOffered
<1>11. /\ \A r \in Peer \ {q} : chan'[r] = chan[r]
       /\ chan'[q] \in {chan[q], chan[q] \o ms}
  BY <1>1, <1>5 DEF Sent, Inv, TypeOK
<1> HIDE DEF q, ms, x
<1>12. \A r \in Peer : /\ xfer'[r].state = "prompting" =>
                            xfer[r].state = "prompting" /\ xfer'[r] = xfer[r]
                       /\ xfer'[r].stream = xfer[r].stream
  BY <1>2, <1>4 DEF Inv, TypeOK
<1>13. \A r \in Peer : \A g : /\ Unopened(r, g) => Unopened(r, g)' /\ g # t
                              /\ Opened(r, g) => Opened(r, g)'
  BY <1>1, <1>7 DEF Unopened, Opened, Inv, TypeOK
<1>14. OpenedOnce'
  <2> SUFFICES ASSUME NEW r \in Peer
               PROVE  /\ NoMetaTwice(chan'[r])
                      /\ \A g \in Metas(chan'[r]) :
                           /\ Unopened(r, g)'
                           /\ picker'[r] # g
                           /\ xfer'[r].state = "prompting" => xfer'[r].tid # g
                      /\ (xfer[r].state = "prompting" =>
                            Unopened(r, xfer[r].tid))'
                      /\ (picker[r] # NoTid => Unopened(r, picker[r]))'
    BY DEF OpenedOnce
  <2>1. /\ NoMetaTwice(chan[r])
        /\ \A g \in Metas(chan[r]) :
             /\ Unopened(r, g) /\ picker[r] # g
             /\ xfer[r].state = "prompting" => xfer[r].tid # g
        /\ xfer[r].state = "prompting" => Unopened(r, xfer[r].tid)
        /\ picker[r] # NoTid => Unopened(r, picker[r])
    BY DEF Inv, FilesHaveOnePlace, OpenedOnce
  <2>2. NoMetaTwice(chan'[r])
    BY <1>10, <1>11, <2>1
  <2>3. ASSUME NEW g \in Metas(chan'[r])
        PROVE  /\ Unopened(r, g)'
               /\ picker'[r] # g
               /\ xfer'[r].state = "prompting" => xfer'[r].tid # g
    <3>1. CASE g \in Metas(chan[r])
      BY <1>1, <1>12, <1>13, <2>1, <3>1
    <3>2. CASE g \notin Metas(chan[r])
      <4>1. r = q /\ g = t
        BY <1>10, <1>11, <2>3, <3>2
      <4>2. Unopened(r, g)'
        BY <1>1, <1>5, <1>6, <4>1 DEF Unopened, Inv, TypeOK
      <4>3. picker[r] # t
        BY <1>13, <2>1, TidAssumption
      <4>4. xfer[r].state = "prompting" => xfer[r].tid # t
        BY <1>13, <2>1
      <4> QED
        BY <1>1, <1>12, <4>1, <4>2, <4>3, <4>4
    <3> QED
      BY <3>1, <3>2
  <2>4. (xfer[r].state = "prompting" => Unopened(r, xfer[r].tid))'
    BY <1>12, <1>13, <2>1 DEF Unopened
  <2>5. (picker[r] # NoTid => Unopened(r, picker[r]))'
    BY <1>1, <1>13, <2>1 DEF Unopened
  <2> QED
    BY <2>2, <2>3, <2>4, <2>5
<1>15. OwnFiles'
  <2>1. \A r \in Peer :
          /\ xfer'[r].stream # NoTid => Opened(r, xfer[r].stream)
          /\ \A h \in aborting'[r] : Opened(r, h)
          /\ chain'[r].handle # NoTid => Opened(r, chain[r].handle)
    BY <1>1, <1>12 DEF Inv, FilesHaveOnePlace, OwnFiles
  <2>2. (\A h \in Tid : disk[h].status # "none" => owner[h] \in Peer)'
    BY <1>1 DEF Inv, TypeOK, FilesHaveOnePlace, OwnFiles
  <2> QED
    BY <1>1, <1>12, <1>13, <2>1, <2>2 DEF OwnFiles, Opened
<1>16. ClosingIsOpen'
  BY <1>1 DEF Inv, FilesHaveOnePlace, ClosingIsOpen
<1>17. OwnLoops'
  <2>1. \A r \in Peer : xfer'[r].state = "offering" =>
          \/ r = p /\ xfer'[r].tid = t
          \/ r # p /\ xfer'[r] = xfer[r]
    BY <1>2, <1>4 DEF Inv, TypeOK
  <2>2. \A g \in Tid : owner[g] \in Peer => owner'[g] = owner[g]
    BY <1>1 DEF Inv, TypeOK
  <2>3. owner'[t] = p
    BY <1>1 DEF Inv, TypeOK
  <2>4. \A r \in Peer : low[r] # NoTid => low[r] \in Tid
    BY DEF Inv, TypeOK, TidOrNone
  <2> QED
    BY <1>1, <2>1, <2>2, <2>3, <2>4
    DEF Inv, FilesHaveOnePlace, OwnLoops
<1> QED
  BY <1>14, <1>15, <1>16, <1>17 DEF FilesHaveOnePlace

LEMMA HandleFileMetaStep ==
  ASSUME Inv, NEW p \in Peer, HandleFileMeta(p)
  PROVE  FilesHaveOnePlace'
<1> DEFINE t == Head(chan[p]).tid
<1>1. /\ chan[p] # <<>> /\ Head(chan[p]).type = "file-meta"
      /\ UNCHANGED <<chain, aborting, disk, loop, low, picker, owner>>
  BY DEF HandleFileMeta, Dispatch
<1>2. /\ Fewer(chan, Rest(p)) /\ Rest(p) \in [Peer -> Seq(Message)]
      /\ t \in TidOrNone
  BY <1>1, RestFewer, HeadType DEF Inv
<1>3. CASE xfer[p].state # "idle"
  <2>1. Fewer(Rest(p), TrySent(Rest(p), p, Msg("reject-transfer", t)))
    BY <1>2, TrySentFewer DEF MessageType
  <2>2. ChanCalm
    BY <1>2, <1>3, <2>1, FewerStill DEF HandleFileMeta, ChanCalm
  <2>3. xfer' = xfer
    BY <1>3 DEF HandleFileMeta
  <2> QED
    BY <1>1, <2>2, <2>3, SameCalm, CalmStep DEF Calm
<1>4. CASE xfer[p].state = "idle"
  <2> DEFINE x == [xfer[p] EXCEPT !.state = "prompting",
                                  !.direction = "receive",
                                  !.tid = t, !.expected = 0]
  <2>1. xfer' = [xfer EXCEPT ![p] = x] /\ chan' = Rest(p)
    BY <1>4 DEF HandleFileMeta, Inv, TypeOK
  <2>2. xfer[p] \in Transfer
    BY XferType DEF Inv
  <2>3. x.state = "prompting" /\ x.tid = t /\ x.stream = xfer[p].stream
    BY <2>2 DEF Transfer
  <2>4. chan[p] \in Seq(Message)
    BY DEF Inv, TypeOK
  <2>5. t \in Metas(chan[p]) /\ t \notin Metas(Tail(chan[p]))
    BY <1>1, <2>4, MetasTail DEF Inv, FilesHaveOnePlace, OpenedOnce
  <2>6. \A r \in Peer : /\ Metas(chan'[r]) \subseteq Metas(chan[r])
                        /\ NoMetaTwice(chan[r]) => NoMetaTwice(chan'[r])
    BY <1>2, <2>1 DEF Fewer
  <2>7. chan'[p] = Tail(chan[p])
    BY <2>1 DEF Rest, Inv, TypeOK
  <2> HIDE DEF x, t
  <2>8. /\ xfer'[p] = x
        /\ \A r \in Peer \ {p} : xfer'[r] = xfer[r]
    BY <2>1 DEF Inv, TypeOK
  <2>9. \A r \in Peer : \A g : /\ Unopened(r, g)' <=> Unopened(r, g)
                               /\ Opened(r, g)' <=> Opened(r, g)
    BY <1>1 DEF Unopened, Opened
  <2>10. OpenedOnce'
    <3> SUFFICES ASSUME NEW r \in Peer
                 PROVE  /\ NoMetaTwice(chan'[r])
                        /\ \A g \in Metas(chan'[r]) :
                             /\ Unopened(r, g)'
                             /\ picker'[r] # g
                             /\ xfer'[r].state = "prompting" =>
                                  xfer'[r].tid # g
                        /\ (xfer[r].state = "prompting" =>
                              Unopened(r, xfer[r].tid))'
                        /\ (picker[r] # NoTid => Unopened(r, picker[r]))'
      BY DEF OpenedOnce
    <3>1. /\ NoMetaTwice(chan[r])
          /\ \A g \in Metas(chan[r]) :
               /\ Unopened(r, g) /\ picker[r] # g
               /\ xfer[r].state = "prompting" => xfer[r].tid # g
          /\ xfer[r].state = "prompting" => Unopened(r, xfer[r].tid)
          /\ picker[r] # NoTid => Unopened(r, picker[r])
      BY DEF Inv, FilesHaveOnePlace, OpenedOnce
    <3>2. NoMetaTwice(chan'[r])
      BY <2>6, <3>1
    <3>3. \A g \in Metas(chan'[r]) : Unopened(r, g)' /\ picker'[r] # g
      BY <1>1, <2>6, <2>9, <3>1
    <3>4. \A g \in Metas(chan'[r]) :
            xfer'[r].state = "prompting" => xfer'[r].tid # g
      BY <2>3, <2>5, <2>6, <2>7, <2>8, <3>1
    <3>5. (xfer[r].state = "prompting" => Unopened(r, xfer[r].tid))'
      <4>1. CASE r = p
        BY <1>1, <2>3, <2>5, <2>8, <3>1, <4>1 DEF Unopened
      <4>2. CASE r # p
        BY <1>1, <2>8, <3>1, <4>2 DEF Unopened
      <4> QED
        BY <4>1, <4>2
    <3>6. (picker[r] # NoTid => Unopened(r, picker[r]))'
      BY <1>1, <3>1 DEF Unopened
    <3> QED
      BY <3>2, <3>3, <3>4, <3>5, <3>6
  <2>11. OwnFiles'
    BY <1>1, <2>3, <2>8 DEF Inv, FilesHaveOnePlace, OwnFiles, Opened
  <2>12. ClosingIsOpen'
    BY <1>1 DEF Inv, FilesHaveOnePlace, ClosingIsOpen
  <2>13. OwnLoops'
    BY <1>1, <2>3, <2>8 DEF Inv, FilesHaveOnePlace, OwnLoops
  <2> QED
    BY <2>10, <2>11, <2>12, <2>13 DEF FilesHaveOnePlace
<1> QED
  BY <1>3, <1>4

LEMMA AcceptStep ==
  ASSUME Inv, NEW p \in Peer, Accept(p)
  PROVE  FilesHaveOnePlace'
<1>1. CASE ~IsOpen(p)
  <2>1. ResetTransfer(p, loop) /\ UNCHANGED <<picker, chan, disk, owner>>
    BY <1>1 DEF Accept
  <2> QED
    BY <2>1, ResetStep, SameCalm
<1>2. CASE IsOpen(p)
  <2>1. /\ xfer[p].state = "prompting"
        /\ picker' = [picker EXCEPT ![p] = xfer[p].tid]
        /\ UNCHANGED <<xfer, cancelled, chain, aborting, loop, low, chan, disk,
                       owner>>
    BY <1>2 DEF Accept, Prompting
  <2>2. \A r \in Peer : picker'[r] = IF r = p THEN xfer[p].tid ELSE picker[r]
    BY <2>1 DEF Inv, TypeOK
  <2>3. OpenedOnce'
    BY <2>1, <2>2 DEF Inv, FilesHaveOnePlace, OpenedOnce, Unopened
  <2>4. OwnFiles' /\ ClosingIsOpen' /\ OwnLoops'
    BY <2>1
    DEF Inv, FilesHaveOnePlace, OwnFiles, Opened, ClosingIsOpen, OwnLoops
  <2> QED
    BY <2>3, <2>4 DEF FilesHaveOnePlace
<1> QED
  BY <1>1, <1>2

LEMMA PickerSaveStep ==
  ASSUME Inv, NEW p \in Peer, PickerSave(p)
  PROVE  FilesHaveOnePlace'
<1> DEFINE h == picker[p]
           f == [disk[h] EXCEPT !.status = "open"]
           x == [xfer[p] EXCEPT !.stream = h, !.state = "transferring"]
<1>1. /\ h # NoTid
      /\ picker' = [picker EXCEPT ![p] = NoTid]
      /\ aborting' = aborting \/ aborting' = [aborting EXCEPT ![p] = @ \cup {h}]
      /\ UNCHANGED <<chain, owner, loop, low>>
  BY DEF PickerSave
<1>2. Unopened(p, h)
  BY <1>1 DEF Inv, FilesHaveOnePlace, OpenedOnce
<1>3. h \in Tid /\ owner[h] = Other(p) /\ disk[h].status = "none"
  BY <1>2 DEF Unopened
<1>4. disk' = [disk EXCEPT ![h] = f] /\ xfer' = [xfer EXCEPT ![p] = x]
  BY DEF PickerSave, Inv, TypeOK
<1>5. f.status = "open" /\ x.stream = h /\ x.state = "transferring"
  BY <1>3, XferType DEF Inv, TypeOK, File, Transfer
<1>6. ChanCalm
  <2>1. xfer[p].tid \in TidOrNone
    BY XferType DEF Inv
  <2> QED
    BY <2>1, TrySentFewer, SameCalm DEF PickerSave, MessageType, ChanCalm
<1>7. \A g \in Metas(chan[p]) : g # h
  BY DEF Inv, FilesHaveOnePlace, OpenedOnce
<1>8. Other(p) \in Peer
  BY OtherIsPeer
<1> HIDE DEF h, f, x
<1>9. /\ \A r \in Peer \ {p} : xfer'[r] = xfer[r] /\ picker'[r] = picker[r]
      /\ xfer'[p] = x /\ picker'[p] = NoTid
      /\ \A g \in Tid \ {h} : disk'[g] = disk[g]
      /\ disk'[h].status = "open"
  BY <1>1, <1>3, <1>4, <1>5 DEF Inv, TypeOK
<1>10. \A r \in Peer : \A g : /\ Unopened(r, g) /\ (r # p \/ g # h) =>
                                   Unopened(r, g)'
                              /\ Opened(r, g) => Opened(r, g)'
  <2> SUFFICES ASSUME NEW r \in Peer, NEW g
               PROVE  /\ Unopened(r, g) /\ (r # p \/ g # h) => Unopened(r, g)'
                      /\ Opened(r, g) => Opened(r, g)'
    OBVIOUS
  <2>1. Unopened(r, g) /\ r # p => g # h
    BY <1>2, NotShared
  <2> QED
    BY <1>1, <1>9, <2>1 DEF Unopened, Opened
<1>11. h \in Tid /\ owner'[h] = Other(p) /\ disk'[h].status # "none"
  BY <1>1, <1>3, <1>9
<1>12. OpenedOnce'
  <2> SUFFICES ASSUME NEW r \in Peer
               PROVE  /\ NoMetaTwice(chan'[r])
                      /\ \A g \in Metas(chan'[r]) :
                           /\ Unopened(r, g)'
                           /\ picker'[r] # g
                           /\ xfer'[r].state = "prompting" => xfer'[r].tid # g
                      /\ (xfer[r].state = "prompting" =>
                            Unopened(r, xfer[r].tid))'
                      /\ (picker[r] # NoTid => Unopened(r, picker[r]))'
    BY DEF OpenedOnce
  <2>1. /\ NoMetaTwice(chan[r])
        /\ \A g \in Metas(chan[r]) :
             /\ Unopened(r, g) /\ picker[r] # g
             /\ xfer[r].state = "prompting" => xfer[r].tid # g
        /\ xfer[r].state = "prompting" => Unopened(r, xfer[r].tid)
        /\ picker[r] # NoTid => Unopened(r, picker[r])
    BY DEF Inv, FilesHaveOnePlace, OpenedOnce
  <2>2. /\ Metas(chan'[r]) \subseteq Metas(chan[r])
        /\ NoMetaTwice(chan'[r])
    BY <1>6, <2>1 DEF ChanCalm, Fewer
  <2>3. ASSUME NEW g \in Metas(chan'[r])
        PROVE  /\ Unopened(r, g)'
               /\ picker'[r] # g
               /\ xfer'[r].state = "prompting" => xfer'[r].tid # g
    <3>1. Unopened(r, g) /\ (r = p => g # h) /\ g # NoTid
      BY <1>7, <2>1, <2>2, TidAssumption DEF Unopened
    <3>2. Unopened(r, g)'
      BY <1>10, <3>1
    <3> QED
      BY <1>5, <1>9, <2>1, <2>2, <3>1, <3>2
  <2>4. (xfer[r].state = "prompting" => Unopened(r, xfer[r].tid))'
    <3>1. xfer'[r].state = "prompting" =>
            r # p /\ xfer'[r] = xfer[r] /\ Unopened(r, xfer[r].tid)
      BY <1>5, <1>9, <2>1
    <3> QED
      BY <1>10, <3>1 DEF Unopened
  <2>5. (picker[r] # NoTid => Unopened(r, picker[r]))'
    <3>1. picker'[r] # NoTid =>
            r # p /\ picker'[r] = picker[r] /\ Unopened(r, picker[r])
      BY <1>9, <2>1
    <3> QED
      BY <1>10, <3>1 DEF Unopened
  <2> QED
    BY <2>2, <2>3, <2>4, <2>5
<1>13. OwnFiles'
  <2>1. \A g \in Tid : disk'[g].status # "none" => owner'[g] \in Peer
    BY <1>1, <1>3, <1>8, <1>9 DEF Inv, FilesHaveOnePlace, OwnFiles
  <2>2. ASSUME NEW r \in Peer
        PROVE  /\ xfer'[r].stream # NoTid =>
                    Opened(r, xfer'[r].stream) \/ (r = p /\ xfer'[r].stream = h)
               /\ \A g \in aborting'[r] : Opened(r, g) \/ (r = p /\ g = h)
               /\ chain'[r].handle # NoTid => Opened(r, chain'[r].handle)
    <3>1. /\ xfer[r].stream # NoTid => Opened(r, xfer[r].stream)
          /\ \A g \in aborting[r] : Opened(r, g)
          /\ chain[r].handle # NoTid => Opened(r, chain[r].handle)
      BY DEF Inv, FilesHaveOnePlace, OwnFiles
    <3>2. /\ xfer'[r].stream = xfer[r].stream \/ (r = p /\ xfer'[r].stream = h)
          /\ \A g \in aborting'[r] : g \in aborting[r] \/ (r = p /\ g = h)
      BY <1>1, <1>5, <1>9 DEF Inv, TypeOK
    <3> QED
      BY <1>1, <3>1, <3>2 DEF Opened
  <2>3. \A r \in Peer : \A g :
          Opened(r, g) \/ (r = p /\ g = h) =>
            g \in Tid /\ owner'[g] = Other(r) /\ disk'[g].status # "none"
    BY <1>10, <1>11 DEF Opened
  <2>4. ASSUME NEW r \in Peer, NEW g, Opened(r, g) \/ (r = p /\ g = h)
        PROVE  Opened(r, g)'
    BY <2>3, <2>4 DEF Opened
  <2> QED
    BY <2>1, <2>2, <2>4 DEF OwnFiles, Opened
<1>14. ClosingIsOpen'
  <2> SUFFICES ASSUME NEW r \in Peer, chain'[r].pc = "close"
               PROVE  /\ chain'[r].handle # NoTid
                      /\ disk'[chain'[r].handle].status = "open"
    BY DEF ClosingIsOpen
  <2>1. /\ chain[r].handle # NoTid /\ disk[chain[r].handle].status = "open"
        /\ Opened(r, chain[r].handle)
    BY <1>1 DEF Inv, FilesHaveOnePlace, ClosingIsOpen, OwnFiles
  <2>2. chain[r].handle \in Tid
    BY <2>1 DEF Opened
  <2> QED
    BY <1>1, <1>9, <2>1, <2>2
<1>15. OwnLoops'
  BY <1>1, <1>5, <1>9 DEF Inv, FilesHaveOnePlace, OwnLoops
<1> QED
  BY <1>12, <1>13, <1>14, <1>15 DEF FilesHaveOnePlace

LEMMA UserStep ==
  ASSUME Inv, NEW p \in Peer, User(p)
  PROVE  FilesHaveOnePlace'
BY OfferStep, AcceptStep, PickerSaveStep, UserCancels DEF User

LEMMA MessageChainStep ==
  ASSUME Inv, NEW p \in Peer, MessageChain(p)
  PROVE  FilesHaveOnePlace'
BY HandleFileMetaStep, HandleReadyStep, HandleStopStep, HandleChunkHeaderStep,
   HandleBinaryChunkStep, DecryptDoneStep, WriteDoneStep, WriteErrorStep,
   HandleFileEndStep, CloseDoneStep, FinishChainResetStep DEF MessageChain

-----------------------------------------------------------------------------
(* The invariant *)

LEMMA InitInv == Init => Inv
<1> SUFFICES ASSUME Init PROVE FilesHaveOnePlace
  BY InitTypeOK DEF Inv
<1>1. /\ \A p \in Peer : /\ chan[p] = <<>> /\ picker[p] = NoTid
                         /\ xfer[p].state = "idle" /\ xfer[p].stream = NoTid
                         /\ aborting[p] = {} /\ low[p] = NoTid
                         /\ chain[p].handle = NoTid /\ chain[p].pc = "free"
      /\ \A t \in Tid : loop[t].pc = "off" /\ disk[t].status = "none"
  BY DEF Init, InitialTransferState, FreeChain
<1>2. \A p \in Peer : Metas(chan[p]) = {} /\ NoMetaTwice(chan[p])
  <2>1. Len(<<>>) = 0 /\ 1..0 = {}
    OBVIOUS
  <2> QED
    BY <1>1, <2>1 DEF Metas, NoMetaTwice
<1> QED
  BY <1>1, <1>2
  DEF FilesHaveOnePlace, OpenedOnce, OwnFiles, ClosingIsOpen, OwnLoops

LEMMA NextInv == Inv /\ [Next]_vars => Inv'
<1> SUFFICES ASSUME Inv, [Next]_vars PROVE Inv'
  OBVIOUS
<1>1. TypeOK'
  BY NextTypeOK DEF Inv, FilesHaveOnePlace
<1>2. FilesHaveOnePlace'
  BY UserStep, MessageChainStep, FinishAbortStep, BufferedAmountLowStep,
     CloseChannelStep, HandshakeDoneStep, SendLoopStep, StutterStep
  DEF Next, Aborts
<1> QED
  BY <1>1, <1>2 DEF Inv

\* In every behaviour the variables have their types.
THEOREM TypeCorrect == Spec => []TypeOK
<1>1. Inv => TypeOK
  BY DEF Inv
<1> QED
  BY <1>1, InitInv, NextInv, PTL DEF Spec

\* Whatever is cancelled, lost or answered late: an offer leads to at most one
\* prompt, save dialog and file, a browser works only on files it opened
\* itself, and the stream handleFileEnd closes stays open until it is closed.
THEOREM FilesCorrect == Spec => []FilesHaveOnePlace
<1>1. Inv => FilesHaveOnePlace
  BY DEF Inv
<1> QED
  BY <1>1, InitInv, NextInv, PTL DEF Spec

-----------------------------------------------------------------------------
(* Saved files *)

\* An abort that comes after the close leaves the file alone.
LEMMA DiscardedSaved ==
  ASSUME TypeOK, ~HasRemove, NEW g, NEW h \in Tid, disk[h].status = "saved",
         disk' = Discarded(g)
  PROVE  disk'[h].status = "saved"
<1>1. CASE g = h
  BY <1>1 DEF Discarded
<1>2. CASE g # h
  BY <1>2 DEF Discarded, TypeOK
<1> QED
  BY <1>1, <1>2

LEMMA SavedStep ==
  ASSUME Inv, [Next]_vars, ~HasRemove, NEW h \in Tid, disk[h].status = "saved"
  PROVE  disk'[h].status = "saved"
<1>1. CASE UNCHANGED disk
  BY <1>1
<1>2. ASSUME NEW p \in Peer, PickerSave(p)
      PROVE  disk'[h].status = "saved"
  <2>1. picker[p] # h
    BY <1>2 DEF PickerSave, Inv, FilesHaveOnePlace, OpenedOnce, Unopened
  <2> QED
    BY <1>2, <2>1 DEF PickerSave, Inv, TypeOK
<1>3. ASSUME NEW p \in Peer, FinishChainReset(p)
      PROVE  disk'[h].status = "saved"
  BY <1>3, DiscardedSaved DEF FinishChainReset, Inv
<1>4. ASSUME NEW p \in Peer, NEW g, FinishAbort(p, g)
      PROVE  disk'[h].status = "saved"
  BY <1>4, DiscardedSaved DEF FinishAbort, Inv
<1>5. ASSUME NEW p \in Peer, WriteDone(p)
      PROVE  disk'[h].status = "saved"
  <2> DEFINE g == chain[p].handle
             f == [disk[g] EXCEPT !.data = Append(@, chain[p].block)]
  <2>1. disk' = [disk EXCEPT ![g] = f]
    BY <1>5 DEF WriteDone
  <2>2. g = h => f.status = "saved"
    BY DEF Inv, TypeOK, File
  <2> HIDE DEF f, g
  <2> QED
    BY <2>1, <2>2 DEF Inv, TypeOK
<1>6. ASSUME NEW p \in Peer, NEW status, CloseDone(p, status)
      PROVE  disk'[h].status = "saved"
  <2>1. chain[p].handle # h
    BY <1>6 DEF CloseDone, Inv, FilesHaveOnePlace, ClosingIsOpen
  <2> QED
    BY <1>6, <2>1 DEF CloseDone, Inv, TypeOK
<1>7. ASSUME NEW p \in Peer, User(p)
      PROVE  UNCHANGED disk \/ PickerSave(p)
  BY <1>7 DEF User, Offer, Accept, PickerAbort, Reject, Cancel
<1>8. ASSUME NEW p \in Peer, MessageChain(p)
      PROVE  \/ UNCHANGED disk
             \/ WriteDone(p) \/ FinishChainReset(p)
             \/ \E status : CloseDone(p, status)
  BY <1>8
  DEF MessageChain, HandleFileMeta, HandleReady, HandleStop, HandleChunkHeader,
      HandleBinaryChunk, DecryptDone, WriteError, HandleFileEnd
<1>9. ASSUME NEW t \in Tid, SendLoop(t)
      PROVE  UNCHANGED disk
  BY <1>9 DEF SendLoop, ReadDone, ReadError, SendChunk, SendLastChunk, SendFails
<1>10. ASSUME NEW p \in Peer,
              BufferedAmountLow(p) \/ CloseChannel(p) \/ HandshakeDone(p)
       PROVE  UNCHANGED disk
  BY <1>10 DEF BufferedAmountLow, CloseChannel, HandshakeDone
<1>11. ASSUME UNCHANGED vars
       PROVE  UNCHANGED disk
  BY <1>11 DEF vars
<1> QED
  BY <1>1, <1>2, <1>3, <1>4, <1>5, <1>6, <1>7, <1>8, <1>9, <1>10, <1>11
  DEF Next, Aborts

\* Where the browser has no FileSystemFileHandle.remove(), a saved file stays
\* saved: the prompt, the dialog, the writes, the close and every late abort
\* of resetTransfer are of other files, or come too late to harm.
THEOREM SavedStaysSaved ==
  ASSUME ~HasRemove
  PROVE  Spec => SavedIsFinal
<1>1. Inv /\ [Next]_vars =>
        [\A h \in Tid : disk[h].status = "saved" =>
                          disk'[h].status = "saved"]_vars
  BY SavedStep
<1> QED
  BY <1>1, InitInv, NextInv, PTL DEF Spec, SavedIsFinal
=============================================================================
