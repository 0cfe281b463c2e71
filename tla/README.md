# A TLA+ model of P2P_Coms

P2P_Coms lets two browsers chat and exchange files over an encrypted WebRTC
data channel. A signaling server (a Node process, or an AWS Lambda function
behind API Gateway) only introduces them to each other. This directory holds
TLA+ modules that model the parts whose correctness depends on the order of
events, the TLC configurations that check them on small instances, and proofs
that TLAPS checks for all values of the constants. Paths are relative to
`src/p2p-basic/`; `client/` stands for `client/js/`.

## 1. Inventory

| Component | State it keeps | Operations | Interacts with |
|---|---|---|---|
| File transfer (`client/transfer/`: sendFile, receiveFile, fileChunks, transferCleanup, transferProtocol) | `peer.transfer`, one record per remote peer, used for both directions; the chunk loop's closures; the stream and handle of the file | offer, prompt, accept (save dialog), reject, chunk loop with backpressure, chunk header and binary chunk, file-end, cancel, reset | the data channel, the file system, Web Crypto, the user |
| Chunk sizing (`client/transfer/chunkSizing.js`) | none | chunk size from `sctp.maxMessageSize` | the chunk loop |
| Data channel (`client/webrtc/dataChannel.js`) | `peer.dataChannel`, the promise chain `messageProcessingChain` | onopen, onclose, dispatch in order of arrival | transfer, chat, key exchange |
| Peer state (`client/core/state.js`) | `peers`, `discoveredPeers`, the active peer | create, delete, mark as connected | everything in the client |
| Node signaling server (`server/server.js`) | the map `peers`; `ws.peerId`, liveness and message count per socket | register, discover, relay, close, heartbeat, shutdown | the clients' sockets |
| AWS signaling (`aws-signaling/app.js`) | two DynamoDB records per peer, `PEER#` and `CONNECTION#` | connect, register, discover, signal, disconnect, cleanup of stale connections | DynamoDB, API Gateway |
| Signaling client (`client/signaling/signaling.js`) | the socket, the reconnect timer, `discoveredPeers` | connect and reconnect, register and discover, peer-list, peer-joined, peer-left, offer/answer/candidate | both servers, negotiation, cleanup |
| WebRTC negotiation (`client/webrtc/peerConnection.js`, the click in `client/app.js`) | `peer.connection`, `peer.networkState`, queued ICE candidates | click, offer, answer, candidates, the events of connections | signaling client, the servers' relay, peer state |
| Key exchange and identity (`client/core/keyExchange.js`, `identity.js`) | key pairs, `peer.crypto` | signed ECDH exchange on every open channel | data channel, chat, transfer |
| Encrypted chat (`client/chat/`) | `localSeq`, `remoteSeq`, messages | send, receive with a replay check | data channel, crypto |
| Crypto primitives, diagnostics, user interface, configuration, deployment, tests | | | |

What is hard in them, and what makes each of them correct:

* **File transfer.** Users, the message chain, file readers, disk and crypto
  jobs and the end of the channel interleave at every `await`.
  `resetTransfer` replaces the transfer object after an await, so that code
  goes on with an object that is no longer the current one. Correct means: a
  file is kept only if it is whole and in order, a kept file stays, a cancelled
  one goes, every chunk meets its own header, the two ends agree in the end,
  and a started transfer ends.
* **Chunk sizing.** Boundaries. Every encrypted chunk fits the channel, the
  chunks cover the file, the loop ends.
* **Node server and signaling client.** Sockets break without notice, are
  replaced by newer ones and closed late; the server restarts; snapshots of
  peers meet joins and leaves. Correct means: one socket speaks for a peer,
  the registry and the lists of peers come to agree with who is there, and
  what is connected is never hidden.
* **AWS signaling.** Lambda invocations run concurrently on a table without
  transactions. Correct means: who can be discovered can be reached, dead
  connections go, and a newer registration is not removed by an older cleanup.
* **Negotiation.** Both sides offer at once; candidates overtake offers; events
  of replaced connections arrive late. Correct means: an answer meets the offer
  it answers, the two records come to name the two ends of one channel, or a
  user can try again.
* **Key exchange and chat.** Sequence numbers are taken before an await and
  checked after another; they survive or do not survive a reconnection. Correct
  means: messages are shown at most once and in order, none is refused without a
  reason, and two pages with an open channel come to have a session.

`PROJECT.json` lists the single hazards with their lines, and for each the
properties that would catch it or the reason why there is none yet.

## 2. Plan

| Order | Modules | Status |
|---|---|---|
| 1 | `FileTransfer`, abstract specification `FileDelivery`, `FileTransfer_proofs`, `FileTransferDelivery_proofs`, `FileTransferAgreement_proofs` | done |
| 2 | `ChunkSizing`, `ChunkSizing_proofs` | done |
| 3 | `AwsPresence`, `AwsPresence_proofs` | done |
| 4 | `SignalServer`, composed with the signaling client in `Discovery`; `Discovery_proofs` | done |
| 5 | `SecureSession`: key exchange and chat over successive channels; abstract specification `ChatDelivery`; `SecureSession_proofs` | done |
| 6 | `Negotiation`: click, offer, answer and candidates over the relay, glare, replaced connections, `cleanupPeer`; `Negotiation_proofs` | done |
| 7 | A running transfer composed with `cleanupPeer` and a second channel | to do |

`Negotiation` and `SecureSession` hold what a single module `System` was planned
for: peer-left with `cleanupPeer`, and a second channel after a lost one. What is
left of item 7 is their effect on a running transfer.

Every safety property and action property that a passing run checks is proved, and
both refinements. What is left is item 7 with its theorems.

A stale `FileReader` error that resets a newer transfer (fileChunks.js:184) leaves
the files that count as received whole (`DeliversWholeFiles`); a property that bounds
what else it may do, in place of `EndsAgree` and `NoOrphanStream`, is still to do.

## 3. The modules and the code

### FileTransfer

Two browsers, one data channel that has just opened. A step is a stretch of
code that runs without awaiting.

| Variable | Code |
|---|---|
| `xfer[p]`, `cancelled` | `peer.transfer` of browser `p` (state.js:51-82): state, direction, id, expected chunk, stream; its flag `cancelled` |
| `picker[p]` | `showSaveFilePicker` and `createWritable` of `p` are awaited (receiveFile.js:44-77) |
| `chan[p]` | messages under way to `p`, and those on its promise chain |
| `chain[p]` | where the handler at the head of the chain awaits, with the chunk, the additional data, the stream and the transfer object it captured |
| `aborting[p]` | streams that a reset outside the chain is aborting |
| `disk[h]` | the file made by the save dialog of offer `h`: status and chunks |
| `loop[t]`, `low[p]` | the chunk loop of transfer `t`; whose closure is `onbufferedamountlow` |
| `sent`, `dc`, `secure`, `owner` | "File sent successfully" shown; readyState of the channel; handshake complete; who generated the id |

`live`, `stale`, `halted` and `orphan` say whether an object captured before an
await is still `peer.transfer`. User actions: `Offer`, `Accept`, `PickerSave`,
`PickerAbort`, `Reject`, `Cancel`. Handlers of the chain: `HandleFileMeta`,
`HandleReady`, `HandleStop`, `HandleChunkHeader`, `HandleBinaryChunk` with
`DecryptDone`, `WriteDone`, `WriteError`, and `HandleFileEnd` with `CloseDone`.
The chunk loop: `ReadDone`, `ReadError`, `SendChunk`, `SendLastChunk`,
`SendFails`, `BufferedAmountLow`. Besides: `CloseChannel`, `HandshakeDone`,
`FinishAbort` (the part of `resetTransfer` after its await).

`FileDelivery` is the abstract specification: a place on the receiver's disk is
filled with the chunks of one offered file in order, is kept only when whole,
and then for good. `DeliversWholeFiles` says that `FileTransfer` implements it;
the mapping takes `owner` for the offers, the chunks of `disk` for the data and
the files with status `saved` for the kept ones.

Abstractions: chunks are pairs of transfer and index, decryption succeeds
exactly when the additional data is that of the encryption; decryption and hash
are one await, as are picker and `createWritable`, and abort and `remove()`;
several resets of one file outside the chain are one; the refusals of an
over-large file-meta and of an unusable message size act like the refusal of an
insecure session; a save dialog is modal; ids never repeat. Progress, speed and
the texts shown are left out. The model covers one life of the channel.

### ChunkSizing

`chunkSizing.js` as operators with the code's names and constants, and the
offsets of `sendFileChunks` as a one-action machine. Sizes are in bytes and are
the real ones.

### AwsPresence

`binding` and `presence` are the `CONNECTION#` and `PEER#` records, `link` the
WebSocket, `register` and `cleanup` the program counters and local variables of
the invocations. Every access to the table is one action. `TakeSnapshot` reads
the list of peers, which `SendPeerList` posts after the new peer is published;
`Announce` and `NotifyLeft` are the two uses of `notify`. `told[c]` records of
which registrations the connection `c` was told, by the list it got or by
peer-joined, for as long as it is up. It is not what the page lists in the end, which a late peer-left or
the list of a discover may change (section 7). A posted message to a dead connection
starts a cleanup (`Gone`), which in the model runs beside its caller; the code
awaits it, so that the model has more orders. The query and the messages of
`notify` are one step. Single records are read with ConsistentRead, but the peers
online come from the index `OnlinePeers` (app.js:68), which follows the table with
a delay. `older[p]` are the former contents of the record of `p`; a query gives, for
each peer on its own, the present or a former content (`IndexViews`), without a
bound on the delay. `missed[c]` records which connections in the directory the
query withheld when `c` was announced; `OneIsTold` allows for these and for nothing else.
`Pages[c]` bounds which pages may open a connection.
Failures of DynamoDB, the TTL of two hours and the
contents of the messages are not modelled; a record that only `touch` wrote
counts as missing, as it does for every reader.

### SignalServer and Discovery

`SignalServer` has the map `peers` (`registry`), `ws.peerId`, `ws.readyState`,
and per socket the messages each way. Node runs one handler at a time, so that
`HandleRegister`, `HandleDiscover` and `HandleClose` (with `removePeer`) are one
action each; `Terminate` is the heartbeat, `RateLimit` the 60 messages a
minute, `Restart` the shutdown or crash, `Lose` a network that breaks silently.
`Discovery` extends it by the pages: `socket`, `discovered` (`discoveredPeers`),
`channel` (readyState of the data channel), `cleaning` (`cleanupPeer` awaits
`resetTransfer`). `Connect` covers the timer of `scheduleReconnect` and
`onopen`; `Receive` the peer-list, peer-joined and peer-left messages; `OnClose`
the end of a socket. `met` is a history variable. The pages' channels open
(`Negotiate`, `OpenChannel`) without the offers and answers behind them, which
`Negotiation` models.
A client registers once per socket and with the id of its page, so that the
server's error "Peer ID cannot change" does not arise. The backoff delay and the
count of the rate limit are abstracted to "at any time".

### SecureSession and ChatDelivery

Two pages that connect several times, each with its record of the other.

| Variable | Code |
|---|---|
| `dc[p]`, `inbox[p]` | the data channel in the record of `p`; messages under way to it or on its promise chain |
| `rec[p]` | `peer.crypto` of the current record: session, `sentKeyExchange`, `localSeq`, `remoteSeq` |
| `old[p]`, `deleted` | `peer.crypto` of the record that `cleanupPeer` deleted while its message chain goes on |
| `chain[p]` | where `handleKeyExchangeMessage` or `handleIncomingChatMessage` awaits, and whether it captured the old record |
| `opening[p]`, `out[p]` | calls of `initiateKeyExchange` and `sendChatMessage` that await |
| `announced`, `handed`, `shown`, `refused` | history: who sent its key exchange on this channel, the messages sent, shown and rejected |

`Connect`, `Open`, `OnClose` and `Forget` (`cleanupPeer`) are the life of the
channel; `SendKeyExchange`, `HandleKeyExchange`, `DeriveDone` and `RespondDone` the
key exchange; `Number` and `HandOver` the two halves of `sendChatMessage`;
`HandleChat` and `OpenDone` those of the receiver. A page keeps its keys for as
long as it is open, so that every exchange of two pages gives the same session
key and id; they are reduced to whether a record has them, and signatures and
decryption succeed. `isNewSession` (keyExchange.js:104) is computed after the
assignment it compares with and is always false: `Established` leaves the
numbers as they are, as the code does. The await for the signature of a chat
message is merged with the numbering that follows it. The chain of a deleted
record has only local cryptography to await and is taken to end before the pages
have negotiated a new connection; a channel closes only after it opened.

`ChatDelivery` is the abstract specification: messages may be lost, but are shown
at most once and in the order they were sent. `DeliversInOrder` says that
`SecureSession` implements it, over all channels, although numbers restart when
a record is deleted; the mapping takes `handed` and `shown` as they are.

### Negotiation

Two pages, the relay of the signaling server, and all connections they make.

| Variable | Code |
|---|---|
| `pcs` | every `RTCPeerConnection` ever made: its page, whether it offers or answers, what its handler awaits (`task`), signaling state, whose description it has (`remote`), connection state |
| `connection[p]`, `dataChannel[p]`, `networkState[p]`, `pending[p]` | `peer.connection`, `peer.dataChannel`, `peer.networkState`, `peer.pendingIceCandidates` |
| `discovered`, `cleaning` | the list of peers; `cleanupPeer` awaits the reset of a transfer |
| `online`, `noticed`, `mail[p]` | the server's registry, the peer-left messages sent, the messages under way to `p` |
| `lost` | history: an offer or an answer was lost or not answered |

`Click`, `SendOffer`, `HandleOffer`, `ApplyOffer`, `SendAnswer`, `HandleAnswer`,
`Gather` and `HandleCandidate` follow the awaits of `connectToPeer` and of the
offer, answer and candidate messages. A record names one connection; a click or
an offer replaces it without closing it, and its events (`Connected`, `Failed`)
still change the record. `Flush` is `flushQueuedIceCandidates`, which may throw at a
candidate of another connection. `HandlePeerLeft` and `FinishCleanup` are
`cleanupPeer`. The WebRTC part, external to the repository, is: a connection comes
up if and only if it and its remote have each other's description; otherwise it
fails. It gives up after tens of seconds, by which time messages and handlers
under way have come to their end (`Settled`). `Rejoin` sends the list to the page
that comes back and peer-joined to the other; one page at a time is offline.
`RecordsMeet` is about every state: two working connections that the records name are
the ends of one. The other properties are about states at rest. `ChannelsPair` says
that a page whose record names a connection that works has an open channel, unless
the other page closed its end, and that the records name both ends of a channel
that is open; it is about pages that have not offered twice (`OfferedAgain`), `Recoverable` and `NoneStuck`
are about histories in which no offer or answer was `lost`, and `Recoverable` allows
for a late old connection (`Overtaken`): section 7 has the histories behind these
limits.

## 4. The runs

| Run | Instance | Shows |
|---|---|---|
| `delivery` | 2 browsers, 2 transfers (2 chunks, 1 chunk), every user action and fault, no `remove()` | `DeliversWholeFiles`, `SavedIsFinal`, `HeaderMatchesChunk`, `FilesHaveOnePlace`, `TypeOK` |
| `agreement` | 2 browsers, 3 transfers of 2 chunks; no read errors, no channel loss, both have a key | `EndsAgree`, `NoOrphanStream`, `NoSenderStuck` |
| `transfer_liveness` | 2 transfers of 2 chunks, no cancel, read error or channel loss | `SentIsSettled`, `ReceiveEnds` |
| `chunk_sizing` | files and message sizes one byte around every boundary | `ChunksFit`, `Coverage`, `LoopEnds`, `TypeOK` |
| `aws_presence` | 2 connections, of one page that reconnects or of two pages | `OnlineIsReachable`, `OneIsTold`, `NoGhosts`, `TypeOK` |
| `discovery` | 2 pages, 3 sockets, any 2 faults | `OneSocketPerPeer`, `ConnectedIsListed`, `RegistryIsCurrent`, `ViewsConverge`, `TypeOK` |
| `session` | 2 channels, 1 deleted record, 2 messages of one page | `DeliversInOrder`, `RefusedForAReason`, `KeyExchangeFirst`, `HandshakeCompletes`, `TypeOK` |
| `negotiation` | 4 connections, 1 loss of the signaling server, 1 failure of a matched connection | `RecordsMeet`, `NoneStuck`, `Recoverable`, `ChannelsPair`, `AnswerMeetsItsOffer`, `TypeOK` |
| `saved_file_removed` | as `delivery`, with `remove()` | violates `SavedIsFinal` |
| `stale_dialog` | one transfer that is cancelled | violates `NoPartialLeft` |
| `read_error` | one transfer with a read error | violates `ReceiveEnds` |
| `aws_newer_wins` | 1 peer, 2 connections | violates `NewerRegistrationWins` |

The bounds, and why they are enough for the question:

* Two transfers overlap in every way that a first and a next transfer can: two
  offers at once, an offer during the end of the other, in either direction.
  Two chunks give a first chunk that is not the last and a header between two
  chunks. Three transfers (`agreement`, 1,244,192 states up to the symmetry of the
  browsers) let a late message of the first meet the third, and give a sender
  three things at once: the loop of a cancelled transfer that sends one more chunk,
  the current loop whose closure it overwrites, and late messages of a third. For
  this every file has two chunks. Read errors are left out because of the
  stale-error hazard above, channel loss because a lost channel ends all agreement.
  A late handshake is left out because of `NoSenderStuck`: a receiver without a
  key drops a transfer without telling the sender (receiveFile.js:161), and a
  sender of two long files may then wait for ever. The other two properties are
  proved with late handshakes and with lost channels.
* A peer's two connections are the reconnection during which registrations and
  cleanups overlap, and two peers with one connection each are the simultaneous
  arrival during which each misses the other in its snapshot. One page is fixed
  for the first connection, since the pages are interchangeable. The run has 298,647
  states. The safety properties are proved without bounds.
* Two channels, one deleted record and two messages (`session`, 431,659 states):
  the second channel meets a record that remembers the first, or one that does
  not, and one message overtakes the other, on one channel or over both. One page
  sends; the pages act alike, and the numbers of the two directions are
  independent. The safety properties are proved without bounds.
* Four connections (`negotiation`, 1,312,786 states up to the symmetry of the
  pages) are two clicks that cross, with the connection each makes for the other's
  offer, or a click, its answer and a retry with its own. One loss of the server
  drops messages, has the other page clean up and offer again. All five
  properties are proved without bounds.
* Two pages and three sockets allow one reconnection at either page, `MaxFaults`
  = 2 that one page goes while the other reconnects. `MAX_PEERS` is the code's 4,
  so that no snapshot is cut.
* `CHECK_DEADLOCK FALSE` everywhere: the systems stop when ids, connections or
  sockets are used up, when the file has been sent, or when the users have gone.

The four violations are disagreements between the code and what its comments and
documentation say; `PROJECT.json` quotes the lines. In short: (1) closing the
channel while a finished file is being closed lets the abort come late and
`remove()` delete the saved file, against the comment at transferCleanup.js:20;
(2) a cancel while the save dialog is open leaves an open partial file, against
readme.md:47; (3) a read error at the sender leaves the receiver waiting for
ever, against the advice at sendFile.js:27; (4) a cleanup deletes a newer
registration, against the comment at app.js:88.

## 5. Fairness

* `FileTransfer`: weak fairness of `MessageChain`, `BufferedAmountLow`,
  `FinishAbort` and `SendLoop`. Browsers run their task queues, and disk, reader
  and crypto jobs end. Users, faults and the save dialog have no fairness; in
  particular nobody has to accept an offer.
* `AwsPresence`: weak fairness of the steps of an invocation and of the
  `$disconnect` event, since Lambda runs invocations to their end and API
  Gateway reports the end of a connection. Connecting, disconnecting and the
  messages of the browsers have none.
* `SecureSession`: weak fairness of the message chain of a page and of its key
  exchange once begun (`SendKeyExchange`): an open channel delivers and
  cryptographic calls end. Opening, closing and chatting have none, so that
  `HandshakeCompletes` speaks of channels that stay open.
* `ChunkSizing`: weak fairness of its one action.
* `Discovery` and `Negotiation` have only safety properties; those named for
  convergence or recovery speak of the states in which nothing is under way
  (`AtRest`).

## 6. What is proved

TLAPS checks the proofs for every value of the constants that meets the named
assumptions in the modules: two browsers, any set of transfer ids, files of any
length, any subset of faults (`FileTransfer`); any files and message sizes
(`ChunkSizing`); any peers, sockets and number of faults (`Discovery`); any
peers and connections (`AwsPresence`); two pages and any number of channels,
deleted records and messages (`SecureSession`), or of connections, losses of the
server and failures (`Negotiation`). The only other assumptions are
that null values are not ids, and the hypotheses named below for single theorems.

* `FileTransfer_proofs`: `TypeCorrect`, `FilesCorrect`, `SavedStaysSaved`.
  The types are not inductive alone: a chunk loop could belong to nobody, which
  is the part `OwnLoops` of `FilesHaveOnePlace`. `TypeOK /\ FilesHaveOnePlace`
  is inductive. Its parts need each other: that the save dialog creates no file
  twice (`OpenedOnce`) rests on one offer message per id and one prompt per
  offer; that a file being closed is not touched (`ClosingIsOpen`) rests on
  `OwnFiles`. Most actions only drop offers, prompts and streams: the formulas
  `...Calm` say so and one lemma shows that calm steps keep the invariant. The
  four steps that are not calm, `Offer`, `HandleFileMeta`, `Accept` and
  `PickerSave`, are proved singly. `SavedStaysSaved` then goes through the steps
  that write to `disk`. It assumes a browser without
  `FileSystemFileHandle.remove()`; with it the property is false, as the run
  `saved_file_removed` shows.
* `FileTransferDelivery_proofs`: `ChunksCorrect`, `HeadersMatch` and the refinement
  `Implements`. The invariant `ChunksHaveOnePlace`, itself `ChunksCorrect`, says
  where every chunk is. `LoopMessages`: each binary chunk follows its header, and
  nothing of a file follows its end. `StartedOnce`: an offer is accepted once, so
  that a loop starts once. `LoopCounts`: the loop knows which chunk is next.
  `InOrder` joins these: of the chunks of the current transfer, those written, the
  one at work, those under way and those to be sent follow one another without gap or
  repetition (`PlaceOfTransfer`, `PlaceOfChunk`), so that a file being closed is
  whole (`ClosesWhole`). The hard part is a cancel between two awaits: the
  handler may go on with a transfer object that is no longer the current one.
  `ObjectStates` says what it can find then: the object it captured, or none or an
  offer of its own (`Vacant`), never another incoming transfer, since the chain
  is busy. `HeaderThenChunk` says the same of the header that is remembered, and
  gives `HeaderMatchesChunk`. TLC checked the invariant before the proof
  (4,037,709 states). In the refinement `Offer` is `Offer`, `WriteDone` is `Receive`,
  `CloseDone` is `Keep`, and a step that discards or breaks a file is `Drop`; every
  other step stutters. `Implements` assumes a browser without `remove()`, for the
  reason of `SavedStaysSaved`; `HeadersMatch` assumes nothing.
* `FileTransferAgreement_proofs`: `NoStreamIsOrphan`, `EndsDoAgree` and
  `NoSenderIsStuck`, from three more invariants. `StreamsHeld`: an open file is the
  current transfer's, or that of a pending reset or of the handler at work. That it is
  closed soon is not claimed: the file of a stale dialog stays open in the next
  transfer object, at the latest until the channel ends.
  `Agreement`, while the channel is open: an offer is under way, prompted for,
  answered or stopped (`OfferHeard`), and an offer under way or a prompt is for what
  the other end offers, or the other end has stopped it (`PromptMeant`). It needs
  that a stop message names a transfer that is over where it was sent, and that
  none is overtaken by its offer (`StopsEnd`), and that only a reset in the chain
  makes a handler lose its file (`Steady`). `SendersWoken`, while the channel is open:
  what a browser sends the other receives, or has stopped (`Heard`), from a loop
  that uses the current transfer object (`LoopSends`); and that loop goes on, has the
  closure in `onbufferedamountlow`, or a stop message or a chunk of another transfer
  is on the way, upon which the receiver will cancel (`Wakes`). The last disjunct
  is why the wake-up lost at fileChunks.js:155 does no harm. TLC checked `Agreement`
  (3,917,763 states) and `SendersWoken` (2,674,360 states) before the proofs.
  The theorems assume that no `FileReader` fails: a late error of an old loop
  resets the current transfer, whose file the reset in the chain then
  loses (fileChunks.js:184), and TLC finds `NoOrphanStream` violated.
  `NoSenderIsStuck` also assumes that both browsers have a key, without which a
  receiver drops a transfer silently (receiveFile.js:161).
* `ChunkSizing_proofs`: `TypeCorrect`, `ChunksAlwaysFit` and `FileCovered`. The
  chunk size is positive whenever the message size is not refused, and the offset is the
  number of chunks times the chunk size, cut at the size of the file.
* `Discovery_proofs`: `TypeCorrect`, `RegistryConsistent`, `RegistryCurrent`,
  `ConnectedStaysListed`, `ListsConverge`. Neither registry property is inductive. The invariant
  adds `RegistersFirst` (a register message is the first of its socket and finds
  it unregistered, without which a socket could change its peer and leave a
  stale entry), `OwnSocket` (the socket of a page is registered for it, will be,
  or is on its way out) and `Attached` (a living socket has a page, or its end
  is on the way or was lost). At rest these leave exactly the registrations of
  the pages' sockets. `ConnectedIsListed` is inductive given the types.
  `ListsConverge` has its own invariant `Talk` (TLC: 525,684 states). Its part `Views`:
  once a page was answered, what it lists and the messages on the way to it come to
  exactly the other registered pages, except that a page it was connected to may
  stay. It rests on `Fresh` (a page starts a socket with nothing under way),
  `ThenAsks` (a page asks for the list right after it registers), `NotItself` (a list
  never holds its reader) and `OpenIsMet` (who is connected was met). It assumes
  finitely many peers, and the property speaks of rooms within `MAX_PEERS`.

* `SecureSession_proofs`: `TypeCorrect`, `KeyExchangeGoesFirst`,
  `RefusalsHaveReasons` and the refinement `Implements`. The invariant has five
  parts besides the two properties. `Bounded`: the counters stay within the
  bounds of the types. `Numbered`: a message has an id of its own, and in the life
  of a record a number of its own. `InOrder`: what a page shows, what it is
  decrypting and what is in its inbox were sent in that order. `Noted`: a number a
  record remembers is that of a message shown. `KeyComes`: a page that was sent a
  key exchange has a session, or will before it handles the messages sent after
  it. In the refinement `HandOver` is `Hand`, as no other message has the id of the
  call (`FreshCall`); `OpenDone` is `Show`, as everything shown precedes what is
  being decrypted (`Precedes`). Every other step stutters.
* `AwsPresence_proofs`: `TypeCorrect`, `OnlineReachable` and `OneOfTwoTold`.
  Invocations meet in the table only, so the invariant says what each has read and may still do.
  `OneClaim`: all that is stored or remembered of a connection is about one peer.
  `Order`: a connection is published before others find it, and bound before a
  cleanup finds its peer. `Withdrawn`: a cleanup that leaves the record of the
  peer alone leaves none that names its connection. `Mended`: if a record names a
  connection that is not bound (`Bound`) or dead (`Reported`), an invocation is
  under way that will mend it. With no invocation left, this is the property.
  `Told`: of two living connections in the directory that were announced, one was
  told of the other, or missed it because the index withheld it. It holds because
  `Announce` tells all that are in the directory but those the index withholds, so
  that the later of two announcements reaches or misses the earlier; with no
  invocation left all living connections in the directory have been announced.
  Without the exception the property is false: TLC finds two peers that register
  together and both ask an index that knows neither.
* `Negotiation_proofs`: `TypeCorrect`, `AnswersMeetOffers`, `RecordsDoMeet`,
  `NobodyIsStuck`, `AlwaysRecoverable` and `ChannelsDoPair`. An answer is applied
  to the connection the record names when it arrives. `OneOffer` says that this is
  the one that offered: while an offer is being made, in the mail or being answered
  (`Live`), its page makes only connections that answer, since a click needs a
  record with no connection or a failed one, and a connection fails only after
  everything about it has arrived. `Roles` says that what a connection is told
  comes from one of the other page with the other role. `OneOffer` needs `Undisturbed`:
  no page has lost the server, so that no record was deleted.

  The other four hold although records are deleted. Their invariant `CallInv` has
  three more parts. `Order`: a record names the newest connection of its page, an
  answer is newer than its offer, and once an offer has its answer, whatever its page
  makes next is newer than that answer (`AnswerFirst`). If two connections work and
  are named but are not a pair, each is newer than the other's remote and so than
  the other: this gives `RecordsMeet`. `Rest`: what a record waits for is under way
  unless something was lost (`Answering`), and a handler that is through has set its
  descriptions (`Phases`) and a page that does not list the other is about to hear that
  it joined (`Listed`). At rest these give `NoneStuck` and `Recoverable`. `Crossing`, of
  pages that have not offered twice: an offer is the last that its page sent, so
  that a connection that answers it stays in its record (`AnswersNamed`), of a page's
  connections only one can be paired (`CoupledOnce`), and its channel is in the record
  (`CoupledChannel`, `AnswersChannel`). `ChannelsDoPair` is a statement about connections
  that work and channels that are open. That there is one is not claimed: two offers
  that cross may both fail, and `AlwaysRecoverable` then has the click that makes a
  new one. A page that has not offered twice now had not
  before (`AgainStays`). TLC checked the invariant before the proof, on the run's
  instance (1,312,786 states) and on parts of the states of larger ones. A step is
  looked at once, for which of three kinds it is (`StepKinds`): it neither creates nor
  closes a connection (`Stays`), it deletes a record (`Leaves`), or it creates a
  connection (`Adds`); most parts are then proved of the three kinds.

Only model-checked: the liveness properties `SentIsSettled`, `ReceiveEnds`, `LoopEnds`,
`NoGhosts` and `HandshakeCompletes`, since liveness under fairness, ENABLED and
induction over data are out of the prover's reach. The four violations are counterexamples of TLC.

## 7. What is not modelled

* The conversation on the screen, the active peer and a page with more than one
  peer in the chat. `appendChatMessage` (receiveMessage.js:85) shows a message in
  whichever conversation is open; `ChatDelivery` is about the messages recorded
  per peer.
* The HTTP health check of the Node server and its checks of origins and message
  formats, which no page of this client fails. The heartbeat message of the AWS
  backend.
* The crypto primitives, wrappers of Web Crypto, which are taken for what they
  do; refusals of forged or malformed messages, which no page sends.
* Rendering. What the user interface allows the user to do in which state is in
  the guards of the user's actions.
* Transfer diagnostics, which nothing reads, and deployment files.
* Failures of DynamoDB and the TTL. A table access that fails
  half-way leaves a record that only the TTL repairs (app.js:123).
* The effect of `cleanupPeer` and of a second data channel on a running transfer.
  A property of its own for the stale error at fileChunks.js:184, whose step
  `ReadError` the model has.

Some of what the models show is neither a property nor at odds with any text of
the repository, and is noted here:

* If an offer or an answer is lost, or the flush of a foreign candidate throws at
  peerConnection.js:96 so that an offer is not answered, both pages are stuck: the
  header says "Discovered — click to connect" (app.js:89), but a click does
  nothing, as the record has a connection that never fails (app.js:30). This is
  why `Recoverable` and `NoneStuck` exclude `lost`.
* A connection that was replaced is not closed and may come up after the one that
  replaced it. If its page answered on it, `ondatachannel` (peerConnection.js:73)
  puts its channel into the record, where it stays although the newer connection
  works. If the old channel then ends, or was closed by the other page's
  `cleanupPeer`, the page can neither send nor, as its connection works, retry. TLC
  finds it with six connections, no loss of the server and one failure: the offers
  cross, one pair fails, the retry comes up, then the late old pair, which breaks.
  The header asks the user to "select peer to retry" (app.js:78), and the click does
  nothing. Hence `NoneStuck` takes a connection that works for enough.
* When a crossing offer fails and its page clicks again, the first pair of
  connections goes on working. If the new pair breaks, or `cleanupPeer` closes the
  new connection, one page's record names the old channel and the other's none.
* After crossing offers and a peer-left, one page may have a record that cannot
  connect while the other can; a click there repairs both.
* On AWS, peer-left is posted after an awaited query (app.js:91) and names only the
  peer. If the peer has registered again in between, it may arrive after the
  peer-joined and make the others drop a peer that is online. The list of a
  discover that was queried before a registration can do the same. Two pages may
  so come not to list each other, until one of them registers again.
* On AWS, two pages that register together may also miss each other because the index
  lags (app.js:68): neither the first list nor peer-joined then tells either of the
  other; the list of a discover may, if the index has caught up. This is the
  exception in `OneIsTold`.
* A replaced connection is never closed, and its events still set `networkState`.
