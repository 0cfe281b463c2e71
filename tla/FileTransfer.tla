---------------------------- MODULE FileTransfer ----------------------------
(***************************************************************************)
(* The file transfer of client/js/transfer between two browsers that share *)
(* one WebRTC data channel: offering a file, the receiver's prompt and     *)
(* save dialog, the chunk loop of the sender, the per-peer message chain   *)
(* of the receiver, cancelling, errors, and the loss of the channel.       *)
(*                                                                         *)
(* Each browser keeps ONE transfer record for the other one                *)
(* (peer.transfer), used for both directions.  resetTransfer does not      *)
(* clear that record: it replaces it by a new object after awaiting the    *)
(* abort of the file.  Code that captured the old object goes on using it, *)
(* code that looks the transfer up again finds the new one.  That          *)
(* difference is kept here: a chunk loop and a message handler remember    *)
(* whether the object they captured is still the current one.              *)
(*                                                                         *)
(* A step is a stretch of code that runs without awaiting.  Where the code *)
(* awaits the disk, the crypto, the file reader or the user, other steps   *)
(* can happen.                                                             *)
(***************************************************************************)
EXTENDS Naturals, Sequences

CONSTANTS
  Peer,       \* the two browsers
  Tid,        \* transfer ids; crypto.randomUUID never repeats one
  NoTid,      \* null for a transfer id, a file handle or a stream
  NoPeer,     \* the owner of a transfer id nobody has generated yet
  FileLen,    \* number of chunks of the file offered under a transfer id
  HasRemove,  \* does the browser have FileSystemFileHandle.remove()?
  Env         \* what users and the environment may do, see EnvEvents

EnvEvents == {"cancel", "reject", "backpressure", "read-error", "write-error",
              "close-error", "channel-loss", "late-handshake"}

ASSUME PeerAssumption ==
  \E p, q \in Peer : p # q /\ Peer = {p, q}
ASSUME TidAssumption == NoTid \notin Tid
ASSUME NoPeerAssumption == NoPeer \notin Peer
ASSUME FileLenAssumption == FileLen \in [Tid -> Nat]
ASSUME EnvAssumption == HasRemove \in BOOLEAN /\ Env \subseteq EnvEvents

Other(p) == CHOOSE q \in Peer : q # p

TidOrNone == Tid \cup {NoTid}

\* Every file is sent as at least one chunk: a 0-byte file as one empty chunk.
Chunks(t) == IF FileLen[t] = 0 THEN 1 ELSE FileLen[t]

\* What the receiver's file must hold at the end.
WholeFile(t) == [i \in 1..Chunks(t) |-> <<t, i>>]

-----------------------------------------------------------------------------
VARIABLES
  xfer,      \* xfer[p]: the transfer object p keeps for the other browser
  cancelled, \* the browsers whose transfer object is marked as cancelled
  picker,    \* picker[p]: the prompt for which p's save dialog is open
  chan,      \* chan[p]: messages under way to p or queued on p's chain
  chain,     \* chain[p]: where the handler at the head of p's chain awaits
  aborting,  \* aborting[p]: files being aborted by a reset outside the chain
  disk,      \* disk[h]: the file opened by the save dialog of prompt h
  owner,     \* owner[t]: who offered t
  loop,      \* loop[t]: the chunk loop sending t
  low,       \* low[p]: the loop whose onbufferedamountlow closure is set
  sent,      \* transfer ids for which "File sent successfully" was shown
  dc,        \* dc[p]: readyState of p's end of the data channel
  secure     \* the browsers that have completed the handshake and have a key

vars == <<xfer, cancelled, picker, chan, chain, aborting, disk, owner, loop,
          low, sent, dc, secure>>

-----------------------------------------------------------------------------
(* Types *)

Transfer ==
  [state     : {"idle", "offering", "prompting", "transferring"},
   direction : {"none", "send", "receive"},
   tid       : TidOrNone,
   expected  : Nat,        \* index announced by the last header, 0 for none
   stream    : TidOrNone]  \* the open file, named by the prompt it came from

MessageType == {"file-meta", "ready", "reject-transfer", "file-chunk",
                "binary", "file-end", "cancel-transfer"}

Message == [type : MessageType, tid : TidOrNone, idx : Nat]

Block == TidOrNone \X Nat

\* What an awaiting handler of the chain captured before its await.
Handler ==
  [pc     : {"free", "decrypt", "write", "close", "reset"},
   block  : Block,              \* the chunk it received
   aad    : Block,              \* t.transferId and t.expectedChunkIndex
   obj    : {"none", "live", "stale"},  \* is t still peer.transfer?
   handle : TidOrNone]          \* t.writableStream

File ==
  [status : {"none", "open", "saved", "broken", "discarded"},
   data   : Seq(Block)]

Loop ==
  [pc   : {"off", "read", "seal", "wait"},
   next : Nat,
   obj  : {"none", "live", "halted", "orphan"}]

TypeOK ==
  /\ xfer \in [Peer -> Transfer]
  /\ cancelled \in SUBSET Peer
  /\ picker \in [Peer -> TidOrNone]
  /\ chan \in [Peer -> Seq(Message)]
  /\ chain \in [Peer -> Handler]
  /\ aborting \in [Peer -> SUBSET TidOrNone]
  /\ disk \in [Tid -> File]
  /\ owner \in [Tid -> Peer \cup {NoPeer}]
  /\ loop \in [Tid -> Loop]
  /\ low \in [Peer -> TidOrNone]
  /\ sent \in SUBSET Tid
  /\ dc \in [Peer -> {"open", "closed"}]
  /\ secure \in SUBSET Peer

-----------------------------------------------------------------------------
(* Initial state: the data channel has just opened. *)

InitialTransferState ==
  [state |-> "idle", direction |-> "none", tid |-> NoTid, expected |-> 0,
   stream |-> NoTid]

FreeChain ==
  [pc |-> "free", block |-> <<NoTid, 0>>, aad |-> <<NoTid, 0>>,
   obj |-> "none", handle |-> NoTid]

Init ==
  /\ xfer = [p \in Peer |-> InitialTransferState]
  /\ cancelled = {}
  /\ picker = [p \in Peer |-> NoTid]
  /\ chan = [p \in Peer |-> <<>>]
  /\ chain = [p \in Peer |-> FreeChain]
  /\ aborting = [p \in Peer |-> {}]
  /\ disk = [t \in Tid |-> [status |-> "none", data |-> <<>>]]
  /\ owner = [t \in Tid |-> NoPeer]
  /\ loop = [t \in Tid |-> [pc |-> "off", next |-> 1, obj |-> "none"]]
  /\ low = [p \in Peer |-> NoTid]
  /\ sent = {}
  /\ dc = [p \in Peer |-> "open"]
  /\ secure = IF "late-handshake" \in Env THEN {} ELSE Peer

-----------------------------------------------------------------------------
(* Messages *)

Msg(type, t) == [type |-> type, tid |-> t, idx |-> 0]
ChunkHeader(t, i) == [type |-> "file-chunk", tid |-> t, idx |-> i]
Binary(t, i) == [type |-> "binary", tid |-> t, idx |-> i]

IsOpen(p) == dc[p] = "open"

\* The channels c after p has sent ms: what is sent to a closed end is lost.
Sent(c, p, ms) ==
  IF IsOpen(Other(p)) THEN [c EXCEPT ![Other(p)] = @ \o ms] ELSE c

\* Mutant of TrySent: nothing is sent.
NothingSent(c, p, m) == c

\* p sends m if its own end is open, and ignores a failure to send.
TrySent(c, p, m) == IF IsOpen(p) THEN Sent(c, p, <<m>>) ELSE c

\* The handler of p's chain takes the first message.
Rest(p) == [chan EXCEPT ![p] = Tail(@)]

\* Mutant of IsTransferIdValid: any message is taken to be of the current
\* transfer.
AnyTransferId(p, t) == t # NoTid

IsTransferIdValid(p, t) == t # NoTid /\ xfer[p].tid = t

-----------------------------------------------------------------------------
(* resetTransfer *)

\* peer.transfer = createInitialTransferState(): the new object is not the one
\* the chunk loops lp of p captured, which stays as it was.
Replaced(p, lp, old) ==
  /\ xfer' = [xfer EXCEPT ![p] = InitialTransferState]
  /\ cancelled' = cancelled \ {p}
  /\ low' = [low EXCEPT ![p] = NoTid]
  /\ loop' = [t \in Tid |-> IF owner[t] = p /\ lp[t].obj = "live"
                            THEN [lp[t] EXCEPT !.obj = old] ELSE lp[t]]

\* What becomes of the object a pending reset of p replaces.
OldObject(p) == IF p \in cancelled THEN "halted" ELSE "orphan"

\* A handler that still uses the transfer object of p uses a stale one.
Staled(p) ==
  IF chain[p].obj = "live" THEN [chain EXCEPT ![p].obj = "stale"] ELSE chain

\* A reset outside the message chain: with an open file it awaits the abort.
ResetTransfer(p, lp) ==
  LET h == xfer[p].stream IN
  IF h = NoTid
  THEN /\ Replaced(p, lp, "halted")
       /\ chain' = Staled(p)
       /\ UNCHANGED aborting
  ELSE /\ cancelled' = cancelled \cup {p}
       /\ aborting' = [aborting EXCEPT ![p] = @ \cup {h}]
       /\ loop' = lp
       /\ UNCHANGED <<xfer, chain, low>>

\* A reset awaited by the handler at the head of p's chain.
ResetInChain(p) ==
  LET h == xfer[p].stream IN
  IF h = NoTid
  THEN /\ Replaced(p, loop, "halted")
       /\ chain' = [chain EXCEPT ![p] = FreeChain]
  ELSE /\ cancelled' = cancelled \cup {p}
       /\ chain' = [chain EXCEPT
                      ![p] = [FreeChain EXCEPT !.pc = "reset", !.handle = h]]
       /\ UNCHANGED <<xfer, loop, low>>

\* Mutants of Discarded: the abort is forgotten; it also discards a file that
\* was closed in time.
NotAborted(h) == disk
AlwaysDiscarded(h) ==
  [disk EXCEPT ![h].status = "discarded", ![h].data = <<>>]

\* The file after abort() and, where the browser has it, remove().  A file
\* that was closed before the abort was served is only lost by remove().
Discarded(h) ==
  IF disk[h].status = "saved" /\ ~HasRemove
  THEN disk
  ELSE [disk EXCEPT ![h].status = "discarded", ![h].data = <<>>]

\* A reset of the chain resumes after its abort.
FinishChainReset(p) ==
  /\ chain[p].pc = "reset"
  /\ disk' = Discarded(chain[p].handle)
  /\ Replaced(p, loop, OldObject(p))
  /\ chain' = [chain EXCEPT ![p] = FreeChain]
  /\ UNCHANGED <<picker, chan, aborting, owner, sent, dc, secure>>

\* A reset outside the chain resumes: abort() is served only after a write or
\* a close that was already under way on the same file.
FinishAbort(p, h) ==
  /\ h \in aborting[p]
  /\ ~(chain[p].pc \in {"write", "close"} /\ chain[p].handle = h)
  /\ aborting' = [aborting EXCEPT ![p] = @ \ {h}]
  /\ disk' = Discarded(h)
  /\ Replaced(p, loop, OldObject(p))
  /\ chain' = Staled(p)
  /\ UNCHANGED <<picker, chan, owner, sent, dc, secure>>

-----------------------------------------------------------------------------
(* The users.  A save dialog is modal: its browser takes no other command. *)

\* initiateSendFile
Offer(p, t) ==
  /\ picker[p] = NoTid
  /\ owner[t] = NoPeer
  /\ IsOpen(p)
  /\ xfer[p].state = "idle"
  /\ owner' = [owner EXCEPT ![t] = p]
  /\ xfer' = [xfer EXCEPT ![p].state = "offering", ![p].direction = "send",
                          ![p].tid = t]
  /\ cancelled' = cancelled \ {p}
  /\ chan' = Sent(chan, p, <<Msg("file-meta", t)>>)
  /\ UNCHANGED <<picker, chain, aborting, disk, loop, low, sent, dc, secure>>

\* Mutant of Prompting: the buttons work as long as there is a transfer.
NotIdle(p) == xfer[p].state # "idle"

\* The guard of the Accept and the Reject button
Prompting(p) == xfer[p].state = "prompting"

\* acceptIncomingFile, up to the save dialog
Accept(p) ==
  /\ picker[p] = NoTid
  /\ Prompting(p)
  /\ IF IsOpen(p)
     THEN /\ picker' = [picker EXCEPT ![p] = xfer[p].tid]
          /\ UNCHANGED <<xfer, cancelled, chain, aborting, loop, low>>
     ELSE /\ ResetTransfer(p, loop)
          /\ UNCHANGED picker
  /\ UNCHANGED <<chan, disk, owner, sent, dc, secure>>

\* acceptIncomingFile after the dialog: the stream goes into whatever
\* peer.transfer is by now; send() on a closed channel throws into the catch.
PickerSave(p) ==
  LET h == picker[p] IN
  /\ h # NoTid
  /\ picker' = [picker EXCEPT ![p] = NoTid]
  /\ disk' = [disk EXCEPT ![h].status = "open"]
  /\ xfer' = [xfer EXCEPT ![p].stream = h, ![p].state = "transferring"]
  /\ cancelled' = IF IsOpen(p) THEN cancelled \ {p} ELSE cancelled \cup {p}
  /\ chan' = TrySent(chan, p, Msg("ready", xfer[p].tid))
  /\ aborting' = IF IsOpen(p) THEN aborting
                 ELSE [aborting EXCEPT ![p] = @ \cup {h}]
  /\ UNCHANGED <<chain, owner, loop, low, sent, dc, secure>>

\* acceptIncomingFile after the user dismissed the dialog
PickerAbort(p) ==
  /\ "reject" \in Env
  /\ picker[p] # NoTid
  /\ picker' = [picker EXCEPT ![p] = NoTid]
  /\ chan' = TrySent(chan, p, Msg("reject-transfer", xfer[p].tid))
  /\ ResetTransfer(p, loop)
  /\ UNCHANGED <<disk, owner, sent, dc, secure>>

\* rejectIncomingFile
Reject(p) ==
  /\ "reject" \in Env
  /\ picker[p] = NoTid
  /\ Prompting(p)
  /\ chan' = TrySent(chan, p, Msg("reject-transfer", xfer[p].tid))
  /\ ResetTransfer(p, loop)
  /\ UNCHANGED <<picker, disk, owner, sent, dc, secure>>

\* cancelActiveTransfer: only the sender has a cancel button
Cancel(p) ==
  /\ "cancel" \in Env
  /\ picker[p] = NoTid
  /\ xfer[p].direction = "send"
  /\ xfer[p].state # "idle"
  /\ chan' = TrySent(chan, p, Msg("cancel-transfer", xfer[p].tid))
  /\ ResetTransfer(p, loop)
  /\ UNCHANGED <<picker, disk, owner, sent, dc, secure>>

-----------------------------------------------------------------------------
(* The message chain of p: one handler at a time, in the order of arrival. *)

Dispatch(p, type) ==
  /\ chain[p].pc = "free"
  /\ chan[p] # <<>>
  /\ Head(chan[p]).type = type
  /\ UNCHANGED <<picker, owner, sent, dc, secure>>

HandleFileMeta(p) ==
  LET t == Head(chan[p]).tid IN
  /\ Dispatch(p, "file-meta")
  /\ IF xfer[p].state # "idle"
     THEN /\ chan' = TrySent(Rest(p), p, Msg("reject-transfer", t))
          /\ UNCHANGED <<xfer, cancelled>>
     ELSE /\ chan' = Rest(p)
          /\ xfer' = [xfer EXCEPT
                        ![p].state = "prompting", ![p].direction = "receive",
                        ![p].tid = t, ![p].expected = 0]
          /\ cancelled' = cancelled \ {p}
  /\ UNCHANGED <<chain, aborting, disk, loop, low>>

\* A 0-byte file is not read.
FirstStep(t) == IF FileLen[t] = 0 THEN "seal" ELSE "read"

\* handleReadyMessage and the synchronous part of sendFileChunks
HandleReady(p) ==
  LET t == Head(chan[p]).tid IN
  /\ Dispatch(p, "ready")
  /\ chan' = Rest(p)
  /\ IF ~(IsTransferIdValid(p, t) /\ xfer[p].state = "offering")
     THEN UNCHANGED <<xfer, cancelled, chain, aborting, loop, low>>
     ELSE IF IsOpen(p) /\ p \in secure
     THEN /\ xfer' = [xfer EXCEPT ![p].state = "transferring"]
          /\ loop' = [loop EXCEPT
                        ![t] = [pc |-> FirstStep(t), next |-> 1,
                                obj |-> "live"]]
          /\ UNCHANGED <<cancelled, chain, aborting, low>>
     ELSE ResetTransfer(p, loop)
  /\ UNCHANGED disk

\* handleRejectTransferMessage and handleCancelTransfer
HandleStop(p, type) ==
  /\ type \in {"reject-transfer", "cancel-transfer"}
  /\ Dispatch(p, type)
  /\ chan' = Rest(p)
  /\ IF IsTransferIdValid(p, Head(chan[p]).tid)
     THEN ResetInChain(p)
     ELSE UNCHANGED <<xfer, cancelled, chain, loop, low>>
  /\ UNCHANGED <<aborting, disk>>

HandleChunkHeader(p) ==
  LET m == Head(chan[p]) IN
  /\ Dispatch(p, "file-chunk")
  /\ chan' = Rest(p)
  /\ xfer' = IF IsTransferIdValid(p, m.tid)
             THEN [xfer EXCEPT ![p].expected = m.idx]
             ELSE xfer
  /\ UNCHANGED <<cancelled, chain, aborting, disk, loop, low>>

\* handleBinaryChunk up to the await of the decryption.  The additional data
\* of AES-GCM is transferId:index:hash of the header, so decryption succeeds
\* exactly if the header belongs to this chunk.
HandleBinaryChunk(p) ==
  LET m == Head(chan[p])
      t == xfer[p]
  IN
  /\ Dispatch(p, "binary")
  /\ IF t.state # "transferring" \/ t.stream = NoTid
     THEN chan' = Rest(p) /\ UNCHANGED <<xfer, cancelled, chain, loop, low>>
     ELSE IF p \notin secure
     THEN chan' = Rest(p) /\ ResetInChain(p)
     ELSE IF t.expected = 0
     THEN /\ chan' = IF t.tid = NoTid THEN Rest(p)
                     ELSE TrySent(Rest(p), p, Msg("cancel-transfer", t.tid))
          /\ ResetInChain(p)
     ELSE /\ chan' = Rest(p)
          /\ chain' = [chain EXCEPT
                         ![p] = [pc |-> "decrypt", block |-> <<m.tid, m.idx>>,
                                 aad |-> <<t.tid, t.expected>>,
                                 obj |-> "live", handle |-> t.stream]]
          /\ UNCHANGED <<xfer, cancelled, loop, low>>
  /\ UNCHANGED <<aborting, disk>>

\* The captured stream takes a write or a close unless it is being aborted.
Usable(p, h) == disk[h].status = "open" /\ h \notin aborting[p]

\* Mutant of GiveUp: the sender is not told.
GiveUpSilently(p) == UNCHANGED chan /\ ResetInChain(p)

\* The cancel message of a handler that gives up, for the captured transfer,
\* and its reset, of the current one.
GiveUp(p) ==
  /\ chan' = TrySent(chan, p, Msg("cancel-transfer", chain[p].aad[1]))
  /\ ResetInChain(p)

\* handleBinaryChunk from the decryption to the await of the write
DecryptDone(p) ==
  LET c == chain[p]
      cleared == IF c.obj = "live" THEN [xfer EXCEPT ![p].expected = 0]
                                   ELSE xfer
  IN
  /\ c.pc = "decrypt"
  /\ IF c.block = c.aad /\ Usable(p, c.handle)
     THEN /\ chain' = [chain EXCEPT ![p].pc = "write"]
          /\ xfer' = cleared
          /\ UNCHANGED <<cancelled, chan, loop, low>>
     ELSE GiveUp(p)
  /\ UNCHANGED <<picker, aborting, disk, owner, sent, dc, secure>>

WriteDone(p) ==
  LET h == chain[p].handle IN
  /\ chain[p].pc = "write"
  /\ disk' = [disk EXCEPT ![h].data = Append(@, chain[p].block)]
  /\ chain' = [chain EXCEPT ![p] = FreeChain]
  /\ UNCHANGED <<xfer, cancelled, picker, chan, aborting, owner, loop, low,
                 sent, dc, secure>>

WriteError(p) ==
  /\ "write-error" \in Env
  /\ chain[p].pc = "write"
  /\ GiveUp(p)
  /\ UNCHANGED <<picker, aborting, disk, owner, sent, dc, secure>>

\* Mutant of FileEnded: a state the rest of the code does not know.
EndedAsDone(p) == [xfer EXCEPT ![p].stream = NoTid, ![p].state = "done"]

\* The end of handleFileEnd, on whatever peer.transfer is by now.
FileEnded(p) == [xfer EXCEPT ![p].stream = NoTid, ![p].state = "idle"]

\* handleFileEnd up to the await of close(); close() of a stream that is
\* being aborted fails at once, which the code logs and then ignores.
HandleFileEnd(p) ==
  LET h == xfer[p].stream IN
  /\ Dispatch(p, "file-end")
  /\ chan' = Rest(p)
  /\ IF ~IsTransferIdValid(p, Head(chan[p]).tid)
     THEN UNCHANGED <<xfer, chain>>
     ELSE IF h = NoTid
     THEN xfer' = [xfer EXCEPT ![p].state = "idle"] /\ UNCHANGED chain
     ELSE IF Usable(p, h)
     THEN /\ chain' = [chain EXCEPT ![p] = [FreeChain EXCEPT !.pc = "close",
                                                             !.handle = h]]
          /\ UNCHANGED xfer
     ELSE xfer' = FileEnded(p) /\ UNCHANGED chain
  /\ UNCHANGED <<cancelled, aborting, disk, loop, low>>

\* handleFileEnd after the await: success is reported in either case.
CloseDone(p, status) ==
  LET h == chain[p].handle IN
  /\ chain[p].pc = "close"
  /\ status = "saved" \/ (status = "broken" /\ "close-error" \in Env)
  /\ disk' = [disk EXCEPT ![h].status = status,
                          ![h].data = IF status = "saved" THEN @ ELSE <<>>]
  /\ xfer' = FileEnded(p)
  /\ chain' = [chain EXCEPT ![p] = FreeChain]
  /\ UNCHANGED <<cancelled, picker, chan, aborting, owner, loop, low, sent, dc,
                 secure>>

-----------------------------------------------------------------------------
(* The chunk loop of sendFileChunks *)

\* The captured object is cancelled or reused, or the channel is not open.
Cancelled(t) ==
  \/ loop[t].obj = "halted"
  \/ loop[t].obj = "live" /\ (owner[t] \in cancelled \/ xfer[owner[t]].tid # t)

Halted(t) == Cancelled(t) \/ ~IsOpen(owner[t])

\* reader.onload up to the awaits of the hash and the encryption
ReadDone(t) ==
  /\ loop[t].pc = "read"
  /\ loop' = [loop EXCEPT ![t].pc = IF Halted(t) THEN "off" ELSE "seal"]
  /\ UNCHANGED <<xfer, cancelled, picker, chan, chain, aborting, disk, owner,
                 low, sent, dc, secure>>

\* reader.onerror: resets whatever transfer is current, tells nobody
ReadError(t) ==
  /\ "read-error" \in Env
  /\ loop[t].pc = "read"
  /\ ResetTransfer(owner[t], [loop EXCEPT ![t].pc = "off"])
  /\ UNCHANGED <<picker, chan, disk, owner, sent, dc, secure>>

IsLast(t) == loop[t].next = Chunks(t)

\* Mutant of LastMessages: the file is never ended.
EndForgotten(t, i) == <<ChunkHeader(t, i), Binary(t, i)>>

LastMessages(t, i) == <<ChunkHeader(t, i), Binary(t, i), Msg("file-end", t)>>

\* Mutant of Completed: the sender forgets to become idle.
StaysTransferring(t) == xfer

\* transfer.state = "idle" on the captured object
Completed(t) ==
  IF loop[t].obj = "live" THEN [xfer EXCEPT ![owner[t]].state = "idle"]
                          ELSE xfer

\* reader.onload from the encrypted chunk on, when the chunk is the last one;
\* also the whole of the 0-byte case
SendLastChunk(t) ==
  LET p == owner[t]
      i == loop[t].next
  IN
  /\ loop[t].pc = "seal"
  /\ IsOpen(p)
  /\ IsLast(t)
  /\ chan' = Sent(chan, p, LastMessages(t, i))
  /\ loop' = [loop EXCEPT ![t].pc = "off"]
  /\ xfer' = Completed(t)
  /\ sent' = sent \cup {t}
  /\ UNCHANGED <<cancelled, picker, chain, aborting, disk, owner, low, dc,
                 secure>>

\* The same for any other chunk: read on, or wait for bufferedamountlow
SendChunk(t) ==
  LET p == owner[t]
      i == loop[t].next
      sentOn(pc) == [loop EXCEPT ![t].pc = pc, ![t].next = i + 1]
  IN
  /\ loop[t].pc = "seal"
  /\ IsOpen(p)
  /\ ~IsLast(t)
  /\ chan' = Sent(chan, p, <<ChunkHeader(t, i), Binary(t, i)>>)
  /\ \/ /\ "backpressure" \in Env
        /\ loop' = sentOn("wait")
        /\ low' = [low EXCEPT ![p] = t]
     \/ /\ loop' = sentOn(IF Halted(t) THEN "off" ELSE "read")
        /\ UNCHANGED low
  /\ UNCHANGED <<xfer, cancelled, picker, chain, aborting, disk, owner, sent,
                 dc, secure>>

\* send() throws on a closed channel; in the 0-byte case nobody catches it
SendFails(t) ==
  LET stopped == [loop EXCEPT ![t].pc = "off"] IN
  /\ loop[t].pc = "seal"
  /\ ~IsOpen(owner[t])
  /\ IF FileLen[t] = 0
     THEN /\ loop' = stopped
          /\ UNCHANGED <<xfer, cancelled, chain, aborting, low>>
     ELSE ResetTransfer(owner[t], stopped)
  /\ UNCHANGED <<picker, chan, disk, owner, sent, dc, secure>>

\* dataChannel.onbufferedamountlow
BufferedAmountLow(p) ==
  LET t == low[p] IN
  /\ t # NoTid
  /\ IsOpen(p)
  /\ low' = [low EXCEPT ![p] = NoTid]
  /\ loop' = [loop EXCEPT ![t].pc = IF Halted(t) THEN "off" ELSE "read"]
  /\ UNCHANGED <<xfer, cancelled, picker, chan, chain, aborting, disk, owner,
                 sent, dc, secure>>

-----------------------------------------------------------------------------
(* The channel *)

\* p's end closes: messages not yet queued on the chain are lost, and
\* dataChannel.onclose resets an active transfer, without using the chain.
CloseChannel(p) ==
  /\ "channel-loss" \in Env
  /\ IsOpen(p)
  /\ dc' = [dc EXCEPT ![p] = "closed"]
  /\ \E n \in 0..Len(chan[p]) : chan' = [chan EXCEPT ![p] = SubSeq(@, 1, n)]
  /\ IF xfer[p].state # "idle"
     THEN ResetTransfer(p, loop)
     ELSE UNCHANGED <<xfer, cancelled, chain, aborting, loop, low>>
  /\ UNCHANGED <<picker, disk, owner, sent, secure>>

\* handleKeyExchangeMessage has derived the session key
HandshakeDone(p) ==
  /\ p \notin secure
  /\ secure' = secure \cup {p}
  /\ UNCHANGED <<xfer, cancelled, picker, chan, chain, aborting, disk, owner,
                 loop, low, sent, dc>>

-----------------------------------------------------------------------------
User(p) ==
  \/ \E t \in Tid : Offer(p, t)
  \/ Accept(p)
  \/ PickerSave(p)
  \/ PickerAbort(p)
  \/ Reject(p)
  \/ Cancel(p)

MessageChain(p) ==
  \/ HandleFileMeta(p)
  \/ HandleReady(p)
  \/ \E type \in MessageType : HandleStop(p, type)
  \/ HandleChunkHeader(p)
  \/ HandleBinaryChunk(p)
  \/ DecryptDone(p)
  \/ WriteDone(p)
  \/ WriteError(p)
  \/ HandleFileEnd(p)
  \/ \E status \in {"saved", "broken"} : CloseDone(p, status)
  \/ FinishChainReset(p)

SendLoop(t) ==
  \/ ReadDone(t)
  \/ ReadError(t)
  \/ SendChunk(t)
  \/ SendLastChunk(t)
  \/ SendFails(t)

Aborts(p) == \E h \in Tid : FinishAbort(p, h)

Next ==
  \/ \E p \in Peer : \/ User(p)
                     \/ MessageChain(p)
                     \/ Aborts(p)
                     \/ BufferedAmountLow(p)
                     \/ CloseChannel(p)
                     \/ HandshakeDone(p)
  \/ \E t \in Tid : SendLoop(t)

Spec == Init /\ [][Next]_vars

\* The browser runs timers, disk and crypto jobs and delivers what the channel
\* carries; nothing makes a user answer or a fault happen.
Fairness ==
  /\ \A p \in Peer : /\ WF_vars(MessageChain(p))
                     /\ WF_vars(BufferedAmountLow(p))
                     /\ \A h \in Tid : WF_vars(FinishAbort(p, h))
  /\ \A t \in Tid : WF_vars(SendLoop(t))

FairSpec == Spec /\ Fairness

-----------------------------------------------------------------------------
(* Safety *)

\* The receiver's disk behaves as FileDelivery promises: whatever was
\* cancelled, aborted, lost or accepted through a stale dialog, a file only
\* ever grows by the next chunk of one offered file, handleFileEnd closes it
\* only when it is whole although it checks no size, and a whole file that
\* was closed stays.  (It does not stay in browsers with remove(), see
\* SavedIsFinal.)
Delivery == INSTANCE FileDelivery WITH
  offeredBy <- owner,
  data <- [h \in Tid |-> disk[h].data],
  kept <- {h \in Tid : disk[h].status = "saved"}

DeliversWholeFiles == Delivery!Spec

\* A completely saved file is never touched again: resetTransfer removes
\* only files whose stream it aborted (transferCleanup.js:18-21).
SavedIsFinal == [][\A h \in Tid : disk[h].status = "saved" =>
                                    disk'[h].status = "saved"]_vars

\* Headers and binary chunks travel as separate messages; a binary chunk is
\* nevertheless only ever decrypted with the header that was sent with it, so
\* no transfer between honest browsers dies of "decryption-failed".
HeaderMatchesChunk == \A p \in Peer : 
  chain[p].pc = "decrypt" => chain[p].block = chain[p].aad

\* An open file is never forgotten: peer.transfer has it, a pending reset or the
\* handler at work.  When it is closed is not claimed: the file of a stale dialog may
\* stay open in the next transfer object until the channel ends.
NoOrphanStream ==
  \A h \in Tid : disk[h].status = "open" =>
    \E p \in Peer : \/ xfer[p].stream = h
                    \/ h \in aborting[p]
                    \/ chain[p].handle = h

\* Nothing is under way and nobody is looking at a save dialog.
Quiet ==
  /\ \A p \in Peer : /\ chan[p] = <<>>
                     /\ chain[p].pc = "free"
                     /\ aborting[p] = {}
                     /\ picker[p] = NoTid
                     /\ IsOpen(p)
  /\ \A t \in Tid : \/ loop[t].pc = "off"
                    \/ loop[t].pc = "wait" /\ low[owner[t]] # t

Sending(p) == xfer[p].direction = "send" /\ xfer[p].state = "transferring"

\* Once everything sent has been handled, an offer that waits for an answer
\* has a prompt at the other end and a prompt has an offer, of the same
\* transfer: no busy reject, cancel or late answer of another transfer leaves
\* one end waiting for the other.
EndsAgree ==
  Quiet => \A p \in Peer :
    LET q == Other(p) IN
    /\ xfer[p].state = "offering" <=> xfer[q].state = "prompting"
    /\ xfer[p].state \in {"offering", "prompting"} => xfer[q].tid = xfer[p].tid

\* No sender waits for ever in the middle of a file.  It may lose its wake-up
\* to the loop of a cancelled transfer, which sends one more chunk and puts
\* its closure in onbufferedamountlow (fileChunks.js:155); but then that stray
\* chunk makes the receiver cancel the transfer.  (A receiver without a key
\* drops the transfer silently, and a receiver is not told of a read error:
\* both leave the other end waiting.)
NoSenderStuck == Quiet => \A p \in Peer : ~Sending(p)

\* Cancelling cleans up partial files (readme.md:47): when nothing is under
\* way any more, a file that is still open belongs to a transfer that the
\* sender is still sending.
NoPartialLeft ==
  Quiet => \A h \in Tid : disk[h].status = "open" =>
             \E p \in Peer : Sending(p) /\ xfer[Other(p)].stream = h

-----------------------------------------------------------------------------
(* Who may open, write, close and abort which file *)

\* The offers under way in a sequence of messages.
Metas(s) == {s[i].tid : i \in {j \in 1..Len(s) : s[j].type = "file-meta"}}

NoMetaTwice(s) ==
  \A i, j \in 1..Len(s) :
    s[i].type = "file-meta" /\ s[j].type = "file-meta" /\ s[i].tid = s[j].tid
      => i = j

\* The other browser offered t, and no save dialog has created its file.
Unopened(p, t) == t \in Tid /\ owner[t] = Other(p) /\ disk[t].status = "none"

\* The other browser offered h, and p has created the file.
Opened(p, h) == h \in Tid /\ owner[h] = Other(p) /\ disk[h].status # "none"

\* An offer leads to one prompt, a prompt to one save dialog and a save dialog
\* to one file: no file is opened a second time.
OpenedOnce ==
  \A p \in Peer :
    /\ NoMetaTwice(chan[p])
    /\ \A t \in Metas(chan[p]) :
         /\ Unopened(p, t)
         /\ picker[p] # t
         /\ xfer[p].state = "prompting" => xfer[p].tid # t
    /\ xfer[p].state = "prompting" => Unopened(p, xfer[p].tid)
    /\ picker[p] # NoTid => Unopened(p, picker[p])

\* Only an offered file is created, and whatever works on a file works on one
\* the same browser created.
OwnFiles ==
  /\ \A h \in Tid : disk[h].status # "none" => owner[h] \in Peer
  /\ \A p \in Peer :
       /\ xfer[p].stream # NoTid => Opened(p, xfer[p].stream)
       /\ \A h \in aborting[p] : Opened(p, h)
       /\ chain[p].handle # NoTid => Opened(p, chain[p].handle)

\* A stream that is being closed is neither aborted nor closed meanwhile.
ClosingIsOpen ==
  \A p \in Peer : chain[p].pc = "close" =>
    /\ chain[p].handle # NoTid
    /\ disk[chain[p].handle].status = "open"

\* Only a transfer somebody offered has a chunk loop or a closure.
OwnLoops ==
  /\ \A t \in Tid : loop[t].pc # "off" => owner[t] \in Peer
  /\ \A p \in Peer : xfer[p].state = "offering" =>
       xfer[p].tid \in Tid /\ owner[xfer[p].tid] = p
  /\ \A p \in Peer : low[p] # NoTid => owner[low[p]] = p

\* Every file has one place in the protocol at a time, on one browser.
FilesHaveOnePlace == OpenedOnce /\ OwnFiles /\ ClosingIsOpen /\ OwnLoops

-----------------------------------------------------------------------------
(* Liveness *)

\* A file the sender reported as sent is settled at the receiver: closed, or
\* given up for an error of the disk.  It does not stay open for ever.
SentIsSettled ==
  \A t \in Tid :
    t \in sent ~> disk[t].status \in {"saved", "broken", "discarded"}

\* A receiver does not wait for ever for the next chunk; it has no cancel
\* button, and a new offer is refused until it stops waiting.
ReceiveEnds ==
  \A p \in Peer :
    xfer[p].state = "transferring" ~> xfer[p].state # "transferring"
=============================================================================
