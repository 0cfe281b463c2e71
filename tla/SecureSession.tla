--------------------------- MODULE SecureSession ---------------------------
(***************************************************************************)
(* The encrypted session of two browsers over the data channels they have  *)
(* one after the other: the key exchange (core/keyExchange.js) and the     *)
(* chat (chat/sendMessage.js, chat/receiveMessage.js).                     *)
(*                                                                         *)
(* A browser keeps a record of the other one, with the state of the        *)
(* session and the sequence numbers.  The record outlives the channel; it  *)
(* is deleted when the signaling server reports that the other browser     *)
(* left (cleanupPeer), which one browser may hear and the other not.       *)
(*                                                                         *)
(* The keys are made once, when the page is loaded, so the session key and *)
(* the session id of two pages are the same after every key exchange: they *)
(* are reduced to whether the record has them.  A signature verifies and a *)
(* message decrypts, as both pages are the ones that hold the keys.        *)
(*                                                                         *)
(* A step is a stretch of code that runs without awaiting.                 *)
(***************************************************************************)
EXTENDS Naturals, SequencesExt

CONSTANTS
  Peer,         \* the two pages
  MaxChannels,  \* how often they connect
  MaxCleanups,  \* how often they delete a record
  MaxChats      \* MaxChats[p]: how many messages the user of p types

ASSUME PeerAssumption == \E p, q \in Peer : p # q /\ Peer = {p, q}
ASSUME BoundsAssumption ==
  MaxChannels \in Nat /\ MaxCleanups \in Nat /\ MaxChats \in [Peer -> Nat]

Other(p) == CHOOSE q \in Peer : q # p

VARIABLES
  channels,   \* how many data channels there have been
  cleanups,   \* how many records were deleted
  typed,      \* typed[p]: how many messages the user of p has sent
  dc,         \* dc[p]: readyState of the data channel in the record of p
  rec,        \* rec[p]: peer.crypto of the record p has of the other page
  old,        \* old[p]: peer.crypto of the record p deleted
  deleted,    \* the pages whose message chain belongs to the deleted record
  inbox,      \* inbox[p]: messages under way to p or queued on p's chain
  chain,      \* chain[p]: where the handler at the head of the chain awaits
  opening,    \* opening[p]: key exchanges begun by onopen, not yet signed
  out,        \* out[p]: the sendChatMessage calls of p that await
  announced,  \* the pages that sent their key exchange on this channel
  handed,     \* handed[p]: the chat messages p gave to a channel
  shown,      \* shown[p]: the chat messages p showed
  refused     \* refused[p]: the chat messages p rejected, and why

sending == <<typed, out, handed>>
history == <<shown, refused>>
vars == <<channels, cleanups, typed, dc, rec, old, deleted, inbox, chain,
          opening, out, announced, handed, shown, refused>>

-----------------------------------------------------------------------------
Crypto ==
  [secure    : BOOLEAN,  \* handshakeComplete, with key and session id
   sentKx    : BOOLEAN,  \* sentKeyExchange
   localSeq  : Nat,
   remoteSeq : Nat,
   life      : 1 .. MaxCleanups + 1]  \* the how manieth record this is

\* life and kx are not in the message.  They tell which record numbered it, and
\* whether its page had sent its key exchange on the channel before.
ChatOf(p) ==
  [type : {"chat"}, id : {p} \X (1 .. MaxChats[p]), seq : 1 .. MaxChats[p],
   life : 1 .. MaxCleanups + 1, kx : BOOLEAN]

Chat == UNION {ChatOf(p) : p \in Peer}

KeyExchange == [type |-> "key-exchange"]
Message == Chat \cup {KeyExchange}

\* on: is the record that the handler captured still the current one?
Handler ==
  [pc : {"free", "derive", "respond"}, on : {"rec", "old"}]
    \cup [pc : {"open"}, on : {"rec", "old"}, chat : Chat]

\* A call of sendChatMessage that has taken its number and is encrypting
Call(p) == [id : {p} \X (1 .. MaxChats[p]), seq : 1 .. MaxChats[p]]

TypeOK ==
  /\ channels \in 0 .. MaxChannels
  /\ cleanups \in 0 .. MaxCleanups
  /\ typed \in [Peer -> Nat]
  /\ dc \in [Peer -> {"none", "connecting", "open", "closed"}]
  /\ rec \in [Peer -> Crypto]
  /\ old \in [Peer -> Crypto]
  /\ deleted \in SUBSET Peer
  /\ inbox \in [Peer -> Seq(Message)]
  /\ chain \in [Peer -> Handler]
  /\ opening \in [Peer -> 0 .. MaxChannels]
  /\ out \in [Peer -> SUBSET UNION {Call(p) : p \in Peer}]
  /\ \A p \in Peer : out[p] \subseteq Call(p)
  /\ announced \in SUBSET Peer
  /\ handed \in [Peer -> Seq(Chat)]
  /\ shown \in [Peer -> Seq(Chat)]
  /\ refused \in
       [Peer -> SUBSET [chat : Chat, why : {"session", "replay"},
                        on : {"rec", "old"}]]

\* Mutant of createInitialCryptoState: the numbers start with 1.
StartsAtOne(life) ==
  [secure |-> FALSE, sentKx |-> FALSE, localSeq |-> 1, remoteSeq |-> 1,
   life |-> life]

createInitialCryptoState(life) ==
  [secure |-> FALSE, sentKx |-> FALSE, localSeq |-> 0, remoteSeq |-> 0,
   life |-> life]

Free == [pc |-> "free", on |-> "rec"]

Init ==
  /\ channels = 0
  /\ cleanups = 0
  /\ typed = [p \in Peer |-> 0]
  /\ dc = [p \in Peer |-> "none"]
  /\ rec = [p \in Peer |-> createInitialCryptoState(1)]
  /\ old = [p \in Peer |-> createInitialCryptoState(1)]
  /\ deleted = {}
  /\ inbox = [p \in Peer |-> <<>>]
  /\ chain = [p \in Peer |-> Free]
  /\ opening = [p \in Peer |-> 0]
  /\ out = [p \in Peer |-> {}]
  /\ announced = {}
  /\ handed = [p \in Peer |-> <<>>]
  /\ shown = [p \in Peer |-> <<>>]
  /\ refused = [p \in Peer |-> {}]

-----------------------------------------------------------------------------
(* The channel *)

\* A message that p sends: it gets lost when the other end is closed.
Sent(p, m) ==
  IF dc[Other(p)] \in {"connecting", "open"}
  THEN [inbox EXCEPT ![Other(p)] = Append(@, m)]
  ELSE inbox

\* Of the messages under way only the first few have arrived when p closes its
\* end: they are still handled, the others are lost.
Cut(p) == \E n \in 0 .. Len(inbox[p]) : inbox' = [inbox EXCEPT ![p] = SubSeq(@, 1, n)]

\* A new data channel replaces the old one in both records, which stay.  The
\* chain of a deleted record has only local cryptography left to await, and has
\* ended before the pages have negotiated a new connection.
Connect ==
  /\ channels < MaxChannels
  /\ \A p \in Peer : dc[p] \in {"none", "closed"}
  /\ deleted = {}
  /\ channels' = channels + 1
  /\ dc' = [p \in Peer |-> "connecting"]
  /\ UNCHANGED <<cleanups, rec, old, deleted, inbox, chain, opening, announced,
                 sending, history>>

\* Mutant of OnOpen: a key exchange that was sent once is not sent again.
OnlyFirstOpen(p) ==
  IF rec[p].sentKx THEN opening ELSE [opening EXCEPT ![p] = @ + 1]

\* onopen always begins a key exchange, and signs it.
OnOpen(p) == [opening EXCEPT ![p] = @ + 1]

Open(p) ==
  /\ dc[p] = "connecting"
  /\ dc' = [dc EXCEPT ![p] = "open"]
  /\ opening' = OnOpen(p)
  /\ UNCHANGED <<channels, cleanups, rec, old, deleted, inbox, chain,
                 announced, sending, history>>

\* Each end notices by itself that the channel is gone.
OnClose(p) ==
  /\ dc[p] = "open"
  /\ dc' = [dc EXCEPT ![p] = "closed"]
  /\ Cut(p)
  /\ announced' = announced \ {p}
  /\ UNCHANGED <<channels, cleanups, rec, old, deleted, chain, opening, sending,
                 history>>

\* peer-left: the channel is closed and the record deleted.  What awaits goes
\* on with the deleted record, which has lost its keys and its channel, so that
\* every message that was about to be sent fails.
Forget(p) ==
  /\ cleanups < MaxCleanups
  /\ p \notin deleted
  /\ dc[p] # "none"
  /\ cleanups' = cleanups + 1
  /\ dc' = [dc EXCEPT ![p] = "none"]
  /\ Cut(p)
  /\ announced' = announced \ {p}
  /\ rec' = [rec EXCEPT ![p] = createInitialCryptoState(@.life + 1)]
  /\ old' = [old EXCEPT ![p] = createInitialCryptoState(1)]
  /\ deleted' = deleted \cup {p}
  /\ chain' = [chain EXCEPT ![p].on = "old"]
  /\ opening' = [opening EXCEPT ![p] = 0]
  /\ out' = [out EXCEPT ![p] = {}]
  /\ UNCHANGED <<channels, typed, handed, history>>

\* The chain of the deleted record has ended.
ChainEnds(p) ==
  /\ p \in deleted
  /\ chain[p].pc = "free"
  /\ inbox[p] = <<>>
  /\ deleted' = deleted \ {p}
  /\ chain' = [chain EXCEPT ![p] = Free]
  /\ old' = [old EXCEPT ![p] = createInitialCryptoState(1)]
  /\ UNCHANGED <<channels, cleanups, dc, rec, inbox, opening, announced,
                 sending, history>>

-----------------------------------------------------------------------------
(* Key exchange *)

\* initiateKeyExchange, when the payload is signed: sentKeyExchange is set even
\* if the channel closed in the meantime and send() throws.
Announce(p) ==
  /\ rec' = [rec EXCEPT ![p].sentKx = TRUE]
  /\ IF dc[p] = "open"
     THEN inbox' = Sent(p, KeyExchange) /\ announced' = announced \cup {p}
     ELSE UNCHANGED <<inbox, announced>>

SendKeyExchange(p) ==
  /\ opening[p] > 0
  /\ opening' = [opening EXCEPT ![p] = @ - 1]
  /\ Announce(p)
  /\ UNCHANGED <<channels, cleanups, dc, old, deleted, chain, sending,
                 history>>

\* Mutant of Due: each message is handled when it arrives.
AllDue(p) ==
  {i \in DOMAIN inbox[p] : chain[p].pc = "free" /\ dc[p] # "connecting"}

\* The messages are handled one after the other, those of a channel after it
\* has opened.
Due(p) ==
  {i \in DOMAIN inbox[p] : chain[p].pc = "free" /\ dc[p] # "connecting" /\ i = 1}

\* The handler of message i of the inbox has run up to its first await of
\* cryptography, or to its end.
Takes(p, i, handler) ==
  /\ i \in Due(p)
  /\ inbox' = [inbox EXCEPT ![p] = RemoveAt(@, i)]
  /\ chain' = [chain EXCEPT ![p] = handler]
  /\ UNCHANGED <<channels, cleanups, dc, rec, old, deleted, opening,
                 announced, sending>>

\* handleKeyExchangeMessage looks the record up: it finds the current one, even
\* if the message belongs to a channel of the deleted one.
HandleKeyExchange(p, i) ==
  /\ Takes(p, i, [pc |-> "derive", on |-> "rec"])
  /\ inbox[p][i] = KeyExchange
  /\ UNCHANGED history

\* Mutant of Established: a repeated key exchange restarts the numbers of the
\* messages sent, but not those of the messages received.
Renumbered(crypto) == [crypto EXCEPT !.secure = TRUE, !.localSeq = 0]

\* isNewSession compares the session id with itself, so that the numbers stay.
Established(crypto) == [crypto EXCEPT !.secure = TRUE]

\* The session key is there; the page answers if it has not yet sent its own
\* key exchange and the channel of its current record is open.
DeriveDone(p) ==
  LET on == chain[p].on
      answers == dc[p] = "open" /\ ~ (IF on = "rec" THEN rec ELSE old)[p].sentKx
  IN
  /\ chain[p].pc = "derive"
  /\ rec' = IF on = "rec" THEN [rec EXCEPT ![p] = Established(@)] ELSE rec
  /\ old' = IF on = "old" THEN [old EXCEPT ![p] = Established(@)] ELSE old
  /\ chain' = [chain EXCEPT
       ![p] = IF answers THEN [@ EXCEPT !.pc = "respond"] ELSE Free]
  /\ UNCHANGED <<channels, cleanups, dc, deleted, inbox, opening,
                 announced, sending, history>>

\* A record deleted in the meantime has no channel to send the answer on.
RespondDone(p) ==
  /\ chain[p].pc = "respond"
  /\ chain' = [chain EXCEPT ![p] = Free]
  /\ IF chain[p].on = "rec" THEN Announce(p) ELSE UNCHANGED <<rec, inbox, announced>>
  /\ UNCHANGED <<channels, cleanups, dc, old, deleted, opening, sending,
                 history>>

-----------------------------------------------------------------------------
(* Sending a chat message *)

\* The message is signed and gets its number.  What happens during the signing
\* changes no more than which of two messages is numbered first, or that none
\* is, so that the user's click and the number are one step.
Number(p) ==
  /\ dc[p] = "open"
  /\ rec[p].secure
  /\ typed[p] < MaxChats[p]
  /\ typed' = [typed EXCEPT ![p] = @ + 1]
  /\ rec' = [rec EXCEPT ![p].localSeq = @ + 1]
  /\ out' = [out EXCEPT
       ![p] = @ \cup {[id |-> <<p, typed[p] + 1>>, seq |-> rec[p].localSeq + 1]}]
  /\ UNCHANGED <<channels, cleanups, dc, old, deleted, inbox, chain, opening,
                 announced, handed, history>>

Envelope(p, call) ==
  [type |-> "chat", id |-> call.id, seq |-> call.seq, life |-> rec[p].life,
   kx |-> p \in announced]

\* The message is encrypted and sent on the channel that the record has now.
\* send() throws if it is not open.
HandOver(p, call) ==
  /\ call \in out[p]
  /\ out' = [out EXCEPT ![p] = @ \ {call}]
  /\ IF dc[p] = "open"
     THEN /\ inbox' = Sent(p, Envelope(p, call))
          /\ handed' = [handed EXCEPT ![p] = Append(@, Envelope(p, call))]
     ELSE UNCHANGED <<inbox, handed>>
  /\ UNCHANGED <<channels, cleanups, typed, dc, rec, old, deleted, chain,
                 opening, announced, history>>

-----------------------------------------------------------------------------
(* Receiving a chat message: the record is the one of the channel. *)

Owner(p) == IF p \in deleted THEN "old" ELSE "rec"
Record(p) == IF p \in deleted THEN old[p] ELSE rec[p]

Replayed(p, chat) == chat.seq <= Record(p).remoteSeq

Refuse(p, i, why) ==
  /\ Takes(p, i, Free)
  /\ refused' = [refused EXCEPT
       ![p] = @ \cup {[chat |-> inbox[p][i], why |-> why, on |-> Owner(p)]}]
  /\ UNCHANGED shown

\* handleIncomingChatMessage, up to the decryption
HandleChat(p, i) ==
  LET chat == inbox[p][i] IN
  /\ i \in Due(p)
  /\ chat # KeyExchange
  /\ IF ~ Record(p).secure THEN Refuse(p, i, "session")
     ELSE IF Replayed(p, chat) THEN Refuse(p, i, "replay")
     ELSE /\ Takes(p, i, [pc |-> "open", on |-> Owner(p), chat |-> chat])
          /\ UNCHANGED history

\* Decrypted and verified: the number is noted and the message shown.
OpenDone(p) ==
  LET seq == chain[p].chat.seq IN
  /\ chain[p].pc = "open"
  /\ rec' = IF chain[p].on = "rec" THEN [rec EXCEPT ![p].remoteSeq = seq] ELSE rec
  /\ old' = IF chain[p].on = "old" THEN [old EXCEPT ![p].remoteSeq = seq] ELSE old
  /\ shown' = [shown EXCEPT ![p] = Append(@, chain[p].chat)]
  /\ chain' = [chain EXCEPT ![p] = Free]
  /\ UNCHANGED <<channels, cleanups, dc, deleted, inbox, opening,
                 announced, sending, refused>>

-----------------------------------------------------------------------------
MessageChain(p) ==
  \/ \E i \in Due(p) : HandleKeyExchange(p, i) \/ HandleChat(p, i)
  \/ DeriveDone(p)
  \/ RespondDone(p)
  \/ OpenDone(p)
  \/ ChainEnds(p)

Next ==
  \/ Connect
  \/ \E p \in Peer :
       \/ Open(p)
       \/ OnClose(p)
       \/ Forget(p)
       \/ SendKeyExchange(p)
       \/ MessageChain(p)
       \/ Number(p)
       \/ \E call \in out[p] : HandOver(p, call)

Spec == Init /\ [][Next]_vars

\* An open channel delivers, and no cryptographic call awaits for ever.
Fairness ==
  \A p \in Peer : /\ WF_vars(SendKeyExchange(p))
                  /\ WF_vars(MessageChain(p))

FairSpec == Spec /\ Fairness

-----------------------------------------------------------------------------
(* Properties *)

\* keyExchange.js and dataChannel.js: a chat message that follows the key
\* exchange of its page on the channel finds the session established, because
\* the chain handles it only when the key is derived.  Of these, only the
\* messages of a record that was deleted meanwhile are refused for want of one.
KeyExchangeFirst ==
  \A p \in Peer : \A r \in refused[p] :
    r.why = "session" /\ r.chat.kx => r.on = "old"

\* Positions of p's messages that were sent before chat
Before(p, chat) ==
  {i \in DOMAIN handed[p] :
     \E j \in DOMAIN handed[p] : i < j /\ handed[p][j] = chat}

\* receiveMessage.js:40 takes a message for a replay only if a message with a
\* higher number overtook it while both were encrypted, or its sender has
\* started numbering again since, as it deleted its record of the receiver and
\* the receiver did not.
RefusedForAReason ==
  \A p \in Peer : \A r \in refused[p] :
    r.why = "replay" =>
      \E i \in Before(Other(p), r.chat) :
        LET earlier == handed[Other(p)][i] IN
        \/ earlier.life = r.chat.life /\ earlier.seq > r.chat.seq
        \/ earlier.life < r.chat.life

\* The chat delivers messages at most once and in the order they were sent, over
\* all channels of two pages, although the numbers restart.
Delivery == INSTANCE ChatDelivery
DeliversInOrder == Delivery!Spec

\* Both pages of a channel that stays open come to have the session, although
\* one of them may remember an earlier one and the other not.
HandshakeCompletes ==
  \A p \in Peer :
    (\A q \in Peer : dc[q] = "open")
      ~> (rec[p].secure \/ \E q \in Peer : dc[q] # "open")
=============================================================================
