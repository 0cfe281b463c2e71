----------------------- MODULE SecureSession_proofs -----------------------
(***************************************************************************)
(* What the encrypted session promises for any number of channels, deleted *)
(* records and messages: its types, that a key exchange is in effect before*)
(* the chat messages that follow it, which messages are refused as replays,*)
(* and that it implements ChatDelivery.                                    *)
(*                                                                         *)
(* The invariant has five parts.  Bounded: the counters stay within the    *)
(* bounds of the types.  Numbered: a message has a name of its own, and in *)
(* the life of a record a number of its own.  InOrder: what is shown, what *)
(* is being decrypted and what is in the inbox were handed over in that    *)
(* order.  Noted: a number that a record remembers is that of a message    *)
(* shown.  KeyComes: a page that was sent a key exchange has a session, or *)
(* will have before it handles the messages sent after it.                 *)
(***************************************************************************)
EXTENDS SecureSession, SequenceTheorems, TLAPS

BoundedAt(p) ==
  /\ typed[p] <= MaxChats[p]
  /\ rec[p].localSeq <= typed[p]
  /\ rec[p].life <= cleanups + 1
  /\ opening[p] <= channels
  /\ dc[p] = "connecting" => opening[p] < channels
  /\ p \in deleted => dc[p] = "none"
  /\ p \in announced => dc[p] = "open"

Bounded == \A p \in Peer : BoundedAt(p)

Types == TypeOK /\ Bounded

\* No other call or message has the name of the call, and none of this life of
\* the record its number.
FreshCall(p, call) ==
  /\ call.id[2] <= typed[p]
  /\ call.seq <= rec[p].localSeq
  /\ \A other \in out[p] : other.id = call.id \/ other.seq = call.seq => other = call
  /\ \A i \in DOMAIN handed[p] :
       /\ handed[p][i].id # call.id
       /\ handed[p][i].life = rec[p].life => handed[p][i].seq # call.seq

\* The message was numbered by an earlier call of this page.
NumberedChat(p, x) ==
  /\ x \in ChatOf(p)
  /\ x.id[2] <= typed[p]
  /\ x.life <= rec[p].life
  /\ x.life = rec[p].life => x.seq <= rec[p].localSeq

Distinct(x, y) ==
  /\ x.id # y.id
  /\ x.life <= y.life
  /\ x.life = y.life => x.seq # y.seq

NumberedAt(p) ==
  /\ \A call \in out[p] : FreshCall(p, call)
  /\ \A j \in DOMAIN handed[p] :
       /\ NumberedChat(p, handed[p][j])
       /\ \A i \in DOMAIN handed[p] : i < j => Distinct(handed[p][i], handed[p][j])

Numbered == \A p \in Peer : NumberedAt(p)

\* Of the messages h
OneOf(h, x) == \E m \in DOMAIN h : h[m] = x

Precedes(h, x, y) == \E m, n \in DOMAIN h : m < n /\ h[m] = x /\ h[n] = y

InOrderAt(p) ==
  LET h == handed[Other(p)] IN
  /\ \A i \in DOMAIN inbox[p] : inbox[p][i] # KeyExchange =>
       /\ OneOf(h, inbox[p][i])
       /\ \A j \in DOMAIN inbox[p] : i < j /\ inbox[p][j] # KeyExchange =>
            Precedes(h, inbox[p][i], inbox[p][j])
       /\ chain[p].pc = "open" => Precedes(h, chain[p].chat, inbox[p][i])
       /\ \A k \in DOMAIN shown[p] : Precedes(h, shown[p][k], inbox[p][i])
  /\ chain[p].pc = "open" => OneOf(h, chain[p].chat)
  /\ \A k \in DOMAIN shown[p] :
       /\ OneOf(h, shown[p][k])
       /\ chain[p].pc = "open" => Precedes(h, shown[p][k], chain[p].chat)

InOrder == \A p \in Peer : InOrderAt(p)

Remembers(p, crypto) ==
  crypto.remoteSeq = 0 \/ \E k \in DOMAIN shown[p] : shown[p][k].seq = crypto.remoteSeq

NotedAt(p) == Remembers(p, rec[p]) /\ Remembers(p, old[p])

Noted == \A p \in Peer : NotedAt(p)

Ready(p) == rec[p].secure \/ (chain[p].pc = "derive" /\ chain[p].on = "rec")

KeyComesAt(p) ==
  /\ Other(p) \in announced =>
       \/ dc[p] \in {"none", "closed"}
       \/ Ready(p)
       \/ \E j \in DOMAIN inbox[p] : inbox[p][j] = KeyExchange
  /\ \A i \in DOMAIN inbox[p] : inbox[p][i] # KeyExchange /\ inbox[p][i].kx =>
       \/ p \in deleted
       \/ Ready(p)
       \/ \E j \in DOMAIN inbox[p] : j < i /\ inbox[p][j] = KeyExchange

KeyComes == \A p \in Peer : KeyComesAt(p)

Inv ==
  /\ Types
  /\ Numbered
  /\ InOrder
  /\ Noted
  /\ KeyComes
  /\ RefusedForAReason
  /\ KeyExchangeFirst

-----------------------------------------------------------------------------
(* Sequences *)

\* The other page is the other one of the two.
LEMMA OtherIsPeer ==
  ASSUME NEW p \in Peer
  PROVE  /\ Other(p) \in Peer
         /\ Other(p) # p
         /\ Other(Other(p)) = p
         /\ \A q \in Peer : q = p \/ q = Other(p)
<1>1. PICK a, b \in Peer : a # b /\ Peer = {a, b}
  BY PeerAssumption
<1>2. \A q \in Peer : Other(q) \in Peer /\ Other(q) # q
  BY <1>1 DEF Other
<1> QED
  BY <1>1, <1>2

\* What is left when the first message is taken
LEMMA WithoutFirst ==
  ASSUME NEW S, NEW q \in Seq(S), q # <<>>
  PROVE  /\ RemoveAt(q, 1) \in Seq(S)
         /\ Len(RemoveAt(q, 1)) = Len(q) - 1
         /\ \A i \in 1 .. Len(q) - 1 : RemoveAt(q, 1)[i] = q[i + 1]
<1>1. RemoveAt(q, 1) = SubSeq(q, 1, 0) \o SubSeq(q, 2, Len(q))
  BY DEF RemoveAt
<1>2. SubSeq(q, 1, 0) = <<>>
  OBVIOUS
<1>3. SubSeq(q, 2, Len(q)) = Tail(q)
  BY HeadTailProperties, TailIsSubSeq
<1>4. RemoveAt(q, 1) = Tail(q)
  BY <1>1, <1>2, <1>3, HeadTailProperties, ConcatEmptySeq
<1> QED
  BY <1>4

LEMMA AppendOf ==
  ASSUME NEW S, NEW q \in Seq(S), NEW m \in S
  PROVE  /\ Append(q, m) \in Seq(S)
         /\ Len(q) \in Nat
         /\ Len(Append(q, m)) = Len(q) + 1
         /\ \A i \in 1 .. Len(q) : Append(q, m)[i] = q[i]
         /\ Append(q, m)[Len(q) + 1] = m
OBVIOUS

\* What has arrived when the channel is closed
LEMMA PrefixOf ==
  ASSUME NEW S, NEW q \in Seq(S), NEW n \in 0 .. Len(q)
  PROVE  /\ SubSeq(q, 1, n) \in Seq(S)
         /\ Len(SubSeq(q, 1, n)) = n
         /\ \A i \in 1 .. n : SubSeq(q, 1, n)[i] = q[i]
OBVIOUS

-----------------------------------------------------------------------------
(* How a step changes an inbox: messages are taken away, at most one of them *)
(* from the front, or one is added.                                        *)

Shifted(p, shift) ==
  /\ Len(inbox'[p]) + shift <= Len(inbox[p])
  /\ \A i \in 1 .. Len(inbox'[p]) : inbox'[p][i] = inbox[p][i + shift]

Added(p, m) ==
  /\ Len(inbox'[p]) = Len(inbox[p]) + 1
  /\ \A i \in 1 .. Len(inbox[p]) : inbox'[p][i] = inbox[p][i]
  /\ inbox'[p][Len(inbox[p]) + 1] = m

InboxType == inbox \in [Peer -> Seq(Message)]

LEMMA SameInbox ==
  ASSUME InboxType, NEW p \in Peer, inbox'[p] = inbox[p]
  PROVE  Shifted(p, 0)
BY DEF InboxType, Shifted

LEMMA SentInbox ==
  ASSUME InboxType, NEW p \in Peer, NEW m \in Message, inbox' = Sent(p, m)
  PROVE  /\ InboxType'
         /\ Shifted(p, 0)
         /\ dc[Other(p)] \in {"connecting", "open"} => Added(Other(p), m)
         /\ dc[Other(p)] \notin {"connecting", "open"} => Shifted(Other(p), 0)
<1>1. Other(p) \in Peer /\ Other(p) # p
  BY OtherIsPeer
<1>2. inbox[Other(p)] \in Seq(Message)
  BY <1>1 DEF InboxType
<1>3. Append(inbox[Other(p)], m) \in Seq(Message)
  BY <1>2, AppendOf
<1>4. InboxType'
  BY <1>1, <1>3 DEF InboxType, Sent
<1>5. inbox'[p] = inbox[p]
  BY <1>1 DEF InboxType, Sent
<1>6. CASE dc[Other(p)] \in {"connecting", "open"}
  <2>1. inbox'[Other(p)] = Append(inbox[Other(p)], m)
    BY <1>1, <1>6 DEF InboxType, Sent
  <2> QED
    BY <1>2, <1>4, <1>5, <1>6, <2>1, AppendOf, SameInbox DEF Added
<1>7. CASE dc[Other(p)] \notin {"connecting", "open"}
  BY <1>1, <1>4, <1>7, SameInbox DEF Sent
<1> QED
  BY <1>6, <1>7

LEMMA CutInbox ==
  ASSUME InboxType, NEW p \in Peer, Cut(p)
  PROVE  InboxType' /\ \A q \in Peer : Shifted(q, 0)
<1>1. PICK n \in 0 .. Len(inbox[p]) : inbox' = [inbox EXCEPT ![p] = SubSeq(@, 1, n)]
  BY DEF Cut
<1>2. inbox[p] \in Seq(Message)
  BY DEF InboxType
<1>3. SubSeq(inbox[p], 1, n) \in Seq(Message)
  BY <1>2, PrefixOf
<1>4. InboxType'
  BY <1>1, <1>3 DEF InboxType
<1>5. Shifted(p, 0)
  <2>1. inbox'[p] = SubSeq(inbox[p], 1, n)
    BY <1>1 DEF InboxType
  <2> QED
    BY <1>2, <2>1, PrefixOf DEF Shifted
<1>6. ASSUME NEW q \in Peer, q # p
      PROVE  Shifted(q, 0)
  BY <1>1, <1>6, SameInbox DEF InboxType
<1> QED
  BY <1>4, <1>5, <1>6

LEMMA TakenInbox ==
  ASSUME InboxType, NEW p \in Peer, NEW i \in Due(p), NEW h, Takes(p, i, h)
  PROVE  /\ InboxType'
         /\ i = 1 /\ chain[p].pc = "free" /\ dc[p] # "connecting"
         /\ inbox[p] \in Seq(Message) /\ Len(inbox[p]) >= 1
         /\ Len(inbox'[p]) = Len(inbox[p]) - 1
         /\ Shifted(p, 1)
         /\ \A q \in Peer : q # p => Shifted(q, 0)
<1>1. i = 1 /\ 1 \in DOMAIN inbox[p] /\ chain[p].pc = "free" /\ dc[p] # "connecting"
  BY DEF Due
<1>2. inbox[p] \in Seq(Message)
  BY DEF InboxType
<1>3. inbox[p] # <<>> /\ Len(inbox[p]) >= 1
  BY <1>1, <1>2
<1>4. inbox' = [inbox EXCEPT ![p] = RemoveAt(inbox[p], 1)]
  BY <1>1 DEF Takes
<1>5. InboxType' /\ inbox'[p] = RemoveAt(inbox[p], 1)
  BY <1>2, <1>3, <1>4, WithoutFirst DEF InboxType
<1>6. Len(inbox'[p]) = Len(inbox[p]) - 1 /\ Shifted(p, 1)
  <2>1. Len(inbox[p]) \in Nat
    BY <1>2
  <2>2. /\ Len(inbox'[p]) = Len(inbox[p]) - 1
        /\ \A k \in 1 .. Len(inbox[p]) - 1 : inbox'[p][k] = inbox[p][k + 1]
    BY <1>2, <1>3, <1>5, WithoutFirst
  <2> QED
    BY <2>1, <2>2 DEF Shifted
<1>7. ASSUME NEW q \in Peer, q # p
      PROVE  Shifted(q, 0)
  BY <1>4, <1>7, SameInbox DEF InboxType
<1> QED
  BY <1>1, <1>2, <1>3, <1>5, <1>6, <1>7

-----------------------------------------------------------------------------
(* Types *)

LEMMA InitialType ==
  ASSUME NEW n \in 1 .. MaxCleanups + 1
  PROVE  /\ createInitialCryptoState(n) \in Crypto
         /\ createInitialCryptoState(n).life = n
         /\ createInitialCryptoState(n).localSeq = 0
BY BoundsAssumption DEF createInitialCryptoState, Crypto

LEMMA FirstRecord == createInitialCryptoState(1) \in Crypto
<1>1. 1 \in 1 .. MaxCleanups + 1
  BY BoundsAssumption
<1> QED
  BY <1>1, InitialType

LEMMA FreeType == Free \in Handler
BY DEF Free, Handler

LEMMA KeyExchangeType == KeyExchange \in Message
BY DEF Message

LEMMA EnvelopeType ==
  ASSUME Types, NEW p \in Peer, NEW call \in Call(p)
  PROVE  Envelope(p, call) \in ChatOf(p) /\ Envelope(p, call) \in Chat
         /\ Envelope(p, call) \in Message
<1>1. rec[p].life \in 1 .. MaxCleanups + 1
  BY DEF Types, TypeOK, Crypto
<1>2. Envelope(p, call) \in ChatOf(p)
  BY <1>1 DEF Envelope, Call, ChatOf
<1> QED
  BY <1>2 DEF Chat, Message

LEMMA Numbers ==
  ASSUME TypeOK, NEW p \in Peer
  PROVE  /\ channels \in Nat /\ channels <= MaxChannels /\ MaxChannels \in Nat
         /\ cleanups \in Nat /\ cleanups <= MaxCleanups /\ MaxCleanups \in Nat
         /\ typed[p] \in Nat /\ MaxChats[p] \in Nat /\ opening[p] \in Nat
         /\ rec[p] \in Crypto /\ old[p] \in Crypto
         /\ rec[p].localSeq \in Nat /\ rec[p].remoteSeq \in Nat
         /\ rec[p].life \in Nat /\ rec[p].life >= 1
BY BoundsAssumption DEF TypeOK, Crypto

\* Changes of other variables keep the bounds.
LEMMA BoundedKept ==
  ASSUME NEW p \in Peer, BoundedAt(p), channels' = channels, cleanups' = cleanups,
         typed'[p] = typed[p], rec'[p].localSeq = rec[p].localSeq,
         rec'[p].life = rec[p].life, opening'[p] = opening[p], dc'[p] = dc[p],
         p \in deleted' => p \in deleted,
         p \in announced' => p \in announced \/ dc[p] = "open"
  PROVE  BoundedAt(p)'
BY DEF BoundedAt

LEMMA InitTypes == Init => Types
<1> SUFFICES ASSUME Init PROVE Types
  OBVIOUS
<1>1. createInitialCryptoState(1) \in Crypto
  BY FirstRecord
<1>2. TypeOK
  BY <1>1, FreeType, BoundsAssumption DEF Init, TypeOK
<1>3. Bounded
  BY <1>1, InitialType, BoundsAssumption DEF Init, Bounded, BoundedAt
<1> QED
  BY <1>2, <1>3 DEF Types

LEMMA ConnectTypes ==
  ASSUME Types, Connect
  PROVE  Types'
<1> USE DEF Types, TypeOK, Connect, sending, history
<1>1. TypeOK'
  BY BoundsAssumption
<1>2. ASSUME NEW q \in Peer
      PROVE  BoundedAt(q)'
  <2>1. /\ dc'[q] = "connecting" /\ dc[q] # "open" /\ q \notin deleted'
        /\ opening'[q] <= channels /\ opening[q] \in Nat /\ channels \in Nat
    BY Numbers DEF Bounded, BoundedAt
  <2>2. /\ typed'[q] = typed[q] /\ rec'[q] = rec[q] /\ cleanups' = cleanups
        /\ q \notin announced' /\ channels' = channels + 1
    BY <2>1 DEF Bounded, BoundedAt
  <2>3. opening'[q] <= channels' /\ opening'[q] < channels'
    BY <2>1, <2>2
  <2> QED
    BY <2>1, <2>2, <2>3 DEF Bounded, BoundedAt
<1> QED
  BY <1>1, <1>2 DEF Bounded

LEMMA OpenTypes ==
  ASSUME Types, NEW p \in Peer, Open(p)
  PROVE  Types'
<1> USE DEF Types, TypeOK, Open, OnOpen, sending, history
<1>1. opening[p] + 1 \in 0 .. MaxChannels /\ opening[p] + 1 <= channels
  BY Numbers DEF Bounded, BoundedAt
<1>2. TypeOK'
  BY <1>1
<1>3. BoundedAt(p)'
  BY <1>1, Numbers DEF Bounded, BoundedAt
<1>4. ASSUME NEW q \in Peer, q # p
      PROVE  BoundedAt(q)'
  <2>1. dc'[q] = dc[q] /\ opening'[q] = opening[q]
    BY <1>4
  <2> QED
    BY <2>1, BoundedKept DEF Bounded
<1> QED
  BY <1>2, <1>3, <1>4 DEF Bounded

LEMMA OnCloseTypes ==
  ASSUME Types, NEW p \in Peer, OnClose(p)
  PROVE  Types'
<1> USE DEF Types, TypeOK, OnClose, sending, history
<1>1. inbox' \in [Peer -> Seq(Message)]
  BY CutInbox DEF InboxType
<1>2. TypeOK'
  BY <1>1
<1>3. ASSUME NEW q \in Peer
      PROVE  BoundedAt(q)'
  BY Numbers DEF Bounded, BoundedAt
<1> QED
  BY <1>2, <1>3 DEF Bounded

LEMMA ForgetTypes ==
  ASSUME Types, NEW p \in Peer, Forget(p)
  PROVE  Types'
<1> USE DEF Types, TypeOK, Forget, history
<1>1. inbox' \in [Peer -> Seq(Message)]
  BY CutInbox DEF InboxType
<1>2. rec[p].life + 1 \in 1 .. MaxCleanups + 1 /\ 1 \in 1 .. MaxCleanups + 1
  <2>1. rec[p].life <= cleanups + 1
    BY DEF Bounded, BoundedAt
  <2>2. cleanups < MaxCleanups
    OBVIOUS
  <2> QED
    BY <2>1, <2>2, Numbers
<1>3. /\ createInitialCryptoState(rec[p].life + 1) \in Crypto
      /\ createInitialCryptoState(1) \in Crypto
  BY <1>2, InitialType
<1>4. [chain EXCEPT ![p].on = "old"] \in [Peer -> Handler]
  <2>1. chain[p] \in Handler
    OBVIOUS
  <2>2. [chain[p] EXCEPT !.on = "old"] \in Handler
    BY <2>1 DEF Handler
  <2> QED
    BY <2>2
<1>5. rec' \in [Peer -> Crypto] /\ old' \in [Peer -> Crypto]
  BY <1>3
<1>6. cleanups' \in 0 .. MaxCleanups
  BY Numbers
<1>7. \A q \in Peer : out'[q] \subseteq Call(q)
  BY DEF Call
<1>8. TypeOK'
  BY <1>1, <1>4, <1>5, <1>6, <1>7, BoundsAssumption
<1>9. BoundedAt(p)'
  <2>1. rec'[p] = createInitialCryptoState(rec[p].life + 1)
    OBVIOUS
  <2>2. rec'[p].life = rec[p].life + 1 /\ rec'[p].localSeq = 0
    BY <1>2, <2>1, InitialType
  <2> QED
    BY <2>2, Numbers DEF Bounded, BoundedAt
<1>10. ASSUME NEW q \in Peer, q # p
       PROVE  BoundedAt(q)'
  <2>1. /\ dc'[q] = dc[q] /\ opening'[q] = opening[q] /\ rec'[q] = rec[q]
        /\ (q \in deleted' => q \in deleted) /\ (q \in announced' => q \in announced)
    BY <1>10
  <2>2. rec[q].life \in Nat /\ cleanups \in Nat /\ cleanups' = cleanups + 1
    BY Numbers
  <2>3. rec[q].life <= cleanups + 1 => rec[q].life <= cleanups' + 1
    BY <2>2
  <2> QED
    BY <2>1, <2>3 DEF Bounded, BoundedAt
<1> QED
  BY <1>8, <1>9, <1>10 DEF Bounded

LEMMA ChainEndsTypes ==
  ASSUME Types, NEW p \in Peer, ChainEnds(p)
  PROVE  Types'
<1> USE DEF Types, TypeOK, ChainEnds, sending, history
<1>1. createInitialCryptoState(1) \in Crypto
  BY FirstRecord
<1>2. TypeOK'
  BY <1>1, FreeType
<1>3. ASSUME NEW q \in Peer
      PROVE  BoundedAt(q)'
  <2>1. BoundedAt(q) /\ (q \in deleted' => q \in deleted)
    BY DEF Bounded
  <2> QED
    BY <2>1, BoundedKept
<1> QED
  BY <1>2, <1>3 DEF Bounded

LEMMA AnnounceTypes ==
  ASSUME Types, NEW p \in Peer, Announce(p)
  PROVE  /\ rec' \in [Peer -> Crypto]
         /\ \A q \in Peer : /\ rec'[q].localSeq = rec[q].localSeq
                            /\ rec'[q].remoteSeq = rec[q].remoteSeq
                            /\ rec'[q].secure = rec[q].secure
                            /\ rec'[q].life = rec[q].life
         /\ InboxType /\ InboxType'
         /\ announced' \in SUBSET Peer
         /\ \A q \in announced' : q \in announced \/ (q = p /\ dc[p] = "open")
<1> USE DEF Types, TypeOK
<1>1. rec' = [rec EXCEPT ![p].sentKx = TRUE] /\ rec[p] \in Crypto
  BY DEF Announce
<1>2. rec' \in [Peer -> Crypto]
  BY <1>1 DEF Crypto
<1>3. InboxType
  BY DEF InboxType
<1>4. InboxType'
  <2>1. CASE dc[p] = "open"
    BY <1>3, <2>1, SentInbox, KeyExchangeType DEF Announce
  <2>2. CASE dc[p] # "open"
    BY <1>3, <2>2 DEF Announce, InboxType
  <2> QED
    BY <2>1, <2>2
<1>5. /\ announced' \in SUBSET Peer
      /\ \A q \in announced' : q \in announced \/ (q = p /\ dc[p] = "open")
  BY DEF Announce
<1>6. \A q \in Peer : /\ rec'[q].localSeq = rec[q].localSeq
                      /\ rec'[q].remoteSeq = rec[q].remoteSeq
                      /\ rec'[q].secure = rec[q].secure
                      /\ rec'[q].life = rec[q].life
  BY <1>1 DEF Crypto
<1> QED
  BY <1>2, <1>3, <1>4, <1>5, <1>6

LEMMA SendKeyExchangeTypes ==
  ASSUME Types, NEW p \in Peer, SendKeyExchange(p)
  PROVE  Types'
<1> USE DEF Types, TypeOK, SendKeyExchange, sending, history
<1>1. /\ rec' \in [Peer -> Crypto]
      /\ inbox' \in [Peer -> Seq(Message)]
      /\ announced' \in SUBSET Peer
  BY AnnounceTypes DEF InboxType
<1>2. opening' \in [Peer -> 0 .. MaxChannels]
  BY BoundsAssumption
<1>3. TypeOK'
  BY <1>1, <1>2
<1>4. ASSUME NEW q \in Peer
      PROVE  BoundedAt(q)'
  <2>1. /\ rec'[q].localSeq = rec[q].localSeq /\ rec'[q].life = rec[q].life
        /\ q \in announced' => q \in announced \/ dc[q] = "open"
    BY AnnounceTypes
  <2>2. opening'[q] <= opening[q] /\ opening'[q] \in Nat /\ opening[q] \in Nat
        /\ channels \in Nat
    BY Numbers
  <2>3. opening'[q] <= channels /\ (opening[q] < channels => opening'[q] < channels)
    BY <2>2 DEF Bounded, BoundedAt
  <2> QED
    BY <2>1, <2>3 DEF Bounded, BoundedAt
<1> QED
  BY <1>3, <1>4 DEF Bounded

LEMMA HandleKeyExchangeTypes ==
  ASSUME Types, NEW p \in Peer, NEW i \in Due(p), HandleKeyExchange(p, i)
  PROVE  Types'
<1> USE DEF Types, TypeOK, HandleKeyExchange, sending, history
<1>1. InboxType'
  BY TakenInbox DEF InboxType
<1>2. chain' \in [Peer -> Handler]
  BY DEF Takes, Handler
<1>3. TypeOK'
  BY <1>1, <1>2 DEF InboxType, Takes
<1>4. Bounded'
  BY DEF Bounded, BoundedAt, Takes
<1> QED
  BY <1>3, <1>4

LEMMA EstablishedType ==
  ASSUME NEW crypto \in Crypto
  PROVE  /\ Established(crypto) \in Crypto
         /\ Established(crypto).secure
         /\ Established(crypto).localSeq = crypto.localSeq
         /\ Established(crypto).remoteSeq = crypto.remoteSeq
         /\ Established(crypto).life = crypto.life
BY DEF Established, Crypto

LEMMA DeriveDoneTypes ==
  ASSUME Types, NEW p \in Peer, DeriveDone(p)
  PROVE  Types'
<1> USE DEF Types, TypeOK, DeriveDone, sending, history
<1>1. rec' \in [Peer -> Crypto] /\ old' \in [Peer -> Crypto]
  BY EstablishedType
<1>2. [chain[p] EXCEPT !.pc = "respond"] \in Handler
  BY DEF Handler
<1>3. TypeOK'
  BY <1>1, <1>2, FreeType
<1>4. ASSUME NEW q \in Peer
      PROVE  rec'[q].localSeq = rec[q].localSeq /\ rec'[q].life = rec[q].life
  BY EstablishedType
<1>5. ASSUME NEW q \in Peer
      PROVE  BoundedAt(q)'
  <2>1. BoundedAt(q)
    BY DEF Bounded
  <2> QED
    BY <1>4, <2>1, BoundedKept
<1> QED
  BY <1>3, <1>5 DEF Bounded

LEMMA RespondDoneTypes ==
  ASSUME Types, NEW p \in Peer, RespondDone(p)
  PROVE  Types'
<1> USE DEF Types, TypeOK, RespondDone, sending, history
<1>1. CASE Announce(p)
  <2>1. /\ rec' \in [Peer -> Crypto]
        /\ inbox' \in [Peer -> Seq(Message)]
        /\ announced' \in SUBSET Peer
    BY <1>1, AnnounceTypes DEF InboxType
  <2>2. TypeOK'
    BY <2>1, FreeType
  <2>3. ASSUME NEW q \in Peer
        PROVE  BoundedAt(q)'
    BY <1>1, AnnounceTypes, Numbers DEF Bounded, BoundedAt
  <2> QED
    BY <2>2, <2>3 DEF Bounded
<1>2. CASE UNCHANGED <<rec, inbox, announced>>
  <2>1. TypeOK'
    BY <1>2, FreeType
  <2>2. Bounded'
    BY <1>2 DEF Bounded, BoundedAt
  <2> QED
    BY <2>1, <2>2
<1> QED
  BY <1>1, <1>2

LEMMA CountedType ==
  ASSUME NEW crypto \in Crypto
  PROVE  [crypto EXCEPT !.localSeq = crypto.localSeq + 1] \in Crypto
<1>1. crypto.localSeq + 1 \in Nat
  BY DEF Crypto
<1> QED
  BY <1>1 DEF Crypto

LEMMA NumberTypes ==
  ASSUME Types, NEW p \in Peer, Number(p)
  PROVE  Types'
<1> USE DEF Types, TypeOK, Number, history
<1>1. /\ rec[p].localSeq <= typed[p] /\ typed[p] < MaxChats[p]
      /\ typed[p] <= MaxChats[p]
  BY DEF Bounded, BoundedAt
<1>2. /\ typed[p] + 1 \in 1 .. MaxChats[p] /\ rec[p].localSeq + 1 \in 1 .. MaxChats[p]
      /\ rec[p].localSeq \in Nat /\ rec[p].life \in Nat /\ typed[p] \in Nat
  <2>1. /\ typed[p] \in Nat /\ MaxChats[p] \in Nat /\ rec[p].localSeq \in Nat
        /\ rec[p].life \in Nat
    BY Numbers
  <2> QED
    BY <1>1, <2>1
<1>3. [id |-> <<p, typed[p] + 1>>, seq |-> rec[p].localSeq + 1] \in Call(p)
  BY <1>2 DEF Call
<1>4. rec' \in [Peer -> Crypto]
  <2>1. [rec[p] EXCEPT !.localSeq = rec[p].localSeq + 1] \in Crypto
    BY CountedType
  <2> QED
    BY <2>1
<1>5. \A q \in Peer : out'[q] \subseteq Call(q)
  BY <1>3
<1>6. typed' \in [Peer -> Nat]
  BY <1>2
<1>7. TypeOK'
  BY <1>4, <1>5, <1>6
<1>8. BoundedAt(p)'
  <2>1. /\ rec'[p].localSeq = rec[p].localSeq + 1 /\ rec'[p].life = rec[p].life
        /\ typed'[p] = typed[p] + 1
    BY DEF Crypto
  <2>2. rec'[p].localSeq <= typed'[p] /\ typed'[p] <= MaxChats[p]
    BY <1>1, <1>2, <2>1, Numbers
  <2> QED
    BY <2>1, <2>2 DEF Bounded, BoundedAt
<1>9. ASSUME NEW q \in Peer, q # p
      PROVE  BoundedAt(q)'
  <2>1. BoundedAt(q) /\ rec'[q] = rec[q] /\ typed'[q] = typed[q]
    BY <1>9 DEF Bounded
  <2> QED
    BY <2>1, BoundedKept
<1> QED
  BY <1>7, <1>8, <1>9 DEF Bounded

LEMMA HandOverTypes ==
  ASSUME Types, NEW p \in Peer, NEW call \in out[p], HandOver(p, call)
  PROVE  Types'
<1> USE DEF Types, TypeOK, HandOver, history
<1>1. call \in Call(p) /\ InboxType
  BY DEF InboxType
<1>2. Envelope(p, call) \in Chat /\ Envelope(p, call) \in Message
  BY <1>1, EnvelopeType
<1>3. InboxType' /\ handed' \in [Peer -> Seq(Chat)]
  <2>1. CASE dc[p] = "open"
    <3>1. InboxType'
      BY <1>1, <1>2, <2>1, SentInbox
    <3>2. Append(handed[p], Envelope(p, call)) \in Seq(Chat)
      BY <1>2, AppendOf
    <3> QED
      BY <2>1, <3>1, <3>2
  <2>2. CASE dc[p] # "open"
    BY <1>1, <2>2 DEF InboxType
  <2> QED
    BY <2>1, <2>2
<1>4. \A q \in Peer : out'[q] \subseteq Call(q)
  OBVIOUS
<1>5. TypeOK'
  BY <1>3, <1>4 DEF InboxType
<1>6. Bounded'
  BY DEF Bounded, BoundedAt
<1> QED
  BY <1>5, <1>6

LEMMA HandleChatTypes ==
  ASSUME Types, NEW p \in Peer, NEW i \in Due(p), HandleChat(p, i)
  PROVE  Types'
<1> USE DEF Types, TypeOK, sending, history
<1>1. inbox[p][i] \in Chat
  BY DEF Due, HandleChat, Message
<1>2. Owner(p) \in {"rec", "old"}
  BY DEF Owner
<1>3. ASSUME NEW why \in {"session", "replay"}, Refuse(p, i, why)
      PROVE  Types'
  <2>1. InboxType'
    BY <1>3, TakenInbox DEF Refuse, InboxType
  <2>2. [chat |-> inbox[p][i], why |-> why, on |-> Owner(p)] \in
          [chat : Chat, why : {"session", "replay"}, on : {"rec", "old"}]
    BY <1>1, <1>2
  <2>3. chain' \in [Peer -> Handler]
    BY <1>3, FreeType DEF Refuse, Takes
  <2>4. refused' \in [Peer -> SUBSET [chat : Chat, why : {"session", "replay"},
                                      on : {"rec", "old"}]]
    BY <1>3, <2>2 DEF Refuse
  <2>5. TypeOK'
    BY <1>3, <2>1, <2>3, <2>4 DEF InboxType, Refuse, Takes
  <2>6. Bounded'
    BY <1>3 DEF Bounded, BoundedAt, Refuse, Takes
  <2> QED
    BY <2>5, <2>6
<1>4. ASSUME Takes(p, i, [pc |-> "open", on |-> Owner(p), chat |-> inbox[p][i]]),
             UNCHANGED history
      PROVE  Types'
  <2>1. InboxType'
    BY <1>4, TakenInbox DEF InboxType
  <2>2. [pc |-> "open", on |-> Owner(p), chat |-> inbox[p][i]] \in Handler
    BY <1>1, <1>2 DEF Handler
  <2>3. TypeOK'
    BY <1>4, <2>1, <2>2 DEF InboxType, Takes
  <2>4. Bounded'
    BY <1>4 DEF Bounded, BoundedAt, Takes
  <2> QED
    BY <2>3, <2>4
<1> QED
  BY <1>3, <1>4 DEF HandleChat

LEMMA OpenDoneTypes ==
  ASSUME Types, NEW p \in Peer, OpenDone(p)
  PROVE  Types'
<1> USE DEF Types, TypeOK, OpenDone, sending, history
<1>1. chain[p].chat \in Chat
  BY DEF Handler
<1>2. chain[p].chat.seq \in Nat
  BY <1>1, BoundsAssumption DEF Chat, ChatOf
<1>3. ASSUME NEW crypto \in Crypto
      PROVE  /\ [crypto EXCEPT !.remoteSeq = chain[p].chat.seq] \in Crypto
             /\ [crypto EXCEPT !.remoteSeq = chain[p].chat.seq].localSeq = crypto.localSeq
             /\ [crypto EXCEPT !.remoteSeq = chain[p].chat.seq].life = crypto.life
  BY <1>2 DEF Crypto
<1>4. rec' \in [Peer -> Crypto] /\ old' \in [Peer -> Crypto]
  BY <1>3
<1>5. Append(shown[p], chain[p].chat) \in Seq(Chat)
  BY <1>1, AppendOf
<1>6. TypeOK'
  BY <1>4, <1>5, FreeType
<1>7. ASSUME NEW q \in Peer
      PROVE  rec'[q].localSeq = rec[q].localSeq /\ rec'[q].life = rec[q].life
  BY <1>3
<1>8. ASSUME NEW q \in Peer
      PROVE  BoundedAt(q)'
  <2>1. BoundedAt(q)
    BY DEF Bounded
  <2> QED
    BY <1>7, <2>1, BoundedKept
<1> QED
  BY <1>6, <1>8 DEF Bounded

LEMMA NextTypes ==
  ASSUME Types, [Next]_vars
  PROVE  Types'
<1>1. CASE Next
  BY <1>1, ConnectTypes, OpenTypes, OnCloseTypes, ForgetTypes, ChainEndsTypes,
     SendKeyExchangeTypes, HandleKeyExchangeTypes, DeriveDoneTypes,
     RespondDoneTypes, NumberTypes, HandOverTypes, HandleChatTypes, OpenDoneTypes
     DEF Next, MessageChain
<1>2. CASE UNCHANGED vars
  BY <1>2 DEF vars, sending, history, Types, TypeOK, Bounded, BoundedAt, Call
<1> QED
  BY <1>1, <1>2

-----------------------------------------------------------------------------
(* Numbered *)

\* What most steps leave as it is
LEMMA NumberedKept ==
  ASSUME NEW p \in Peer, NumberedAt(p),
         out'[p] = out[p], handed'[p] = handed[p], typed'[p] = typed[p],
         rec'[p].localSeq = rec[p].localSeq, rec'[p].life = rec[p].life
  PROVE  NumberedAt(p)'
BY DEF NumberedAt, FreshCall, NumberedChat

\* The records after a step that neither renews nor numbers
LEMMA DeriveDoneRecords ==
  ASSUME Types, NEW p \in Peer, DeriveDone(p), NEW q \in Peer
  PROVE  /\ rec'[q].localSeq = rec[q].localSeq /\ rec'[q].life = rec[q].life
         /\ rec'[q].remoteSeq = rec[q].remoteSeq
         /\ old'[q].remoteSeq = old[q].remoteSeq
         /\ rec[q].secure => rec'[q].secure
         /\ q = p /\ chain[p].on = "rec" => rec'[q].secure
BY EstablishedType DEF DeriveDone, Types, TypeOK

LEMMA RememberedType ==
  ASSUME NEW crypto \in Crypto, NEW seq
  PROVE  /\ [crypto EXCEPT !.remoteSeq = seq].localSeq = crypto.localSeq
         /\ [crypto EXCEPT !.remoteSeq = seq].life = crypto.life
         /\ [crypto EXCEPT !.remoteSeq = seq].secure = crypto.secure
         /\ [crypto EXCEPT !.remoteSeq = seq].remoteSeq = seq
BY DEF Crypto

LEMMA OpenDoneRecords ==
  ASSUME Types, NEW p \in Peer, OpenDone(p), NEW q \in Peer
  PROVE  /\ rec'[q].localSeq = rec[q].localSeq /\ rec'[q].life = rec[q].life
         /\ rec'[q].secure = rec[q].secure
         /\ \/ rec'[q].remoteSeq = rec[q].remoteSeq
            \/ q = p /\ rec'[q].remoteSeq = chain[p].chat.seq
         /\ \/ old'[q].remoteSeq = old[q].remoteSeq
            \/ q = p /\ old'[q].remoteSeq = chain[p].chat.seq
BY RememberedType DEF OpenDone, Types, TypeOK

LEMMA RespondDoneRecords ==
  ASSUME Types, NEW p \in Peer, RespondDone(p), NEW q \in Peer
  PROVE  /\ rec'[q].localSeq = rec[q].localSeq /\ rec'[q].life = rec[q].life
         /\ rec'[q].secure = rec[q].secure
         /\ rec'[q].remoteSeq = rec[q].remoteSeq
BY AnnounceTypes DEF RespondDone

LEMMA ForgetRecords ==
  ASSUME Types, NEW p \in Peer, Forget(p)
  PROVE  /\ rec'[p].life = rec[p].life + 1 /\ rec'[p].localSeq = 0
         /\ rec'[p].remoteSeq = 0 /\ old'[p].remoteSeq = 0
         /\ \A q \in Peer : q # p => rec'[q] = rec[q] /\ old'[q] = old[q]
BY DEF Forget, Types, TypeOK, createInitialCryptoState

LEMMA NumberRecords ==
  ASSUME Types, NEW p \in Peer, Number(p)
  PROVE  /\ rec'[p].localSeq = rec[p].localSeq + 1
         /\ rec'[p].life = rec[p].life
         /\ rec'[p].remoteSeq = rec[p].remoteSeq
         /\ rec'[p].secure = rec[p].secure
         /\ \A q \in Peer : q # p => rec'[q] = rec[q]
BY DEF Number, Types, TypeOK, Crypto

LEMMA ChatTypes ==
  ASSUME Types, NEW p \in Peer, NEW x \in ChatOf(p)
  PROVE  /\ x.life \in Nat /\ x.seq \in Nat /\ x.seq >= 1 /\ x.id[2] \in Nat
         /\ x.kx \in BOOLEAN /\ x # KeyExchange /\ x.id[1] = p
BY BoundsAssumption DEF ChatOf, KeyExchange

LEMMA ForgetNumbered ==
  ASSUME Types, NEW p \in Peer, Forget(p), NumberedAt(p)
  PROVE  NumberedAt(p)'
<1>1. /\ out'[p] = {} /\ handed' = handed /\ typed' = typed
      /\ rec'[p].life = rec[p].life + 1 /\ rec'[p].localSeq = 0
  BY ForgetRecords DEF Forget, Types, TypeOK
<1>2. ASSUME NEW j \in DOMAIN handed[p]
      PROVE  NumberedChat(p, handed[p][j])'
  <2>1. NumberedChat(p, handed[p][j])
    BY DEF NumberedAt
  <2>2. handed[p][j].life \in Nat /\ rec[p].life \in Nat
    BY <2>1, ChatTypes, Numbers DEF NumberedChat, Types
  <2>3. handed[p][j].life < rec[p].life + 1
    BY <2>1, <2>2 DEF NumberedChat
  <2> QED
    BY <1>1, <2>1, <2>2, <2>3 DEF NumberedChat
<1> QED
  BY <1>1, <1>2 DEF NumberedAt

LEMMA NumberNumbered ==
  ASSUME Types, NEW p \in Peer, Number(p), NumberedAt(p)
  PROVE  NumberedAt(p)'
<1>0. PICK new : new = [id |-> <<p, typed[p] + 1>>, seq |-> rec[p].localSeq + 1]
  OBVIOUS
<1>1. /\ out'[p] = out[p] \cup {new} /\ handed' = handed
      /\ typed'[p] = typed[p] + 1
      /\ rec'[p].life = rec[p].life /\ rec'[p].localSeq = rec[p].localSeq + 1
  BY <1>0, NumberRecords DEF Number, Types, TypeOK
<1>2. /\ typed[p] \in Nat /\ rec[p].localSeq \in Nat
      /\ new.id[2] = typed[p] + 1 /\ new.seq = rec[p].localSeq + 1
  BY <1>0, Numbers DEF Types
<1>3. ASSUME NEW j \in DOMAIN handed[p]
      PROVE  /\ NumberedChat(p, handed[p][j])'
             /\ handed[p][j].id # new.id
             /\ handed[p][j].life = rec[p].life => handed[p][j].seq # new.seq
  <2>1. NumberedChat(p, handed[p][j])
    BY DEF NumberedAt
  <2>2. handed[p][j].id[2] \in Nat /\ handed[p][j].seq \in Nat
    BY <2>1, ChatTypes DEF NumberedChat
  <2> QED
    BY <1>1, <1>2, <2>1, <2>2 DEF NumberedChat
<1>4. ASSUME NEW call \in out[p]
      PROVE  FreshCall(p, call)' /\ call.id # new.id /\ call.seq # new.seq
  <2>1. FreshCall(p, call)
    BY DEF NumberedAt
  <2>2. call.id[2] \in Nat /\ call.seq \in Nat
    BY BoundsAssumption DEF Types, TypeOK, Call
  <2>3. call.id # new.id /\ call.seq # new.seq
    BY <1>2, <2>1, <2>2 DEF FreshCall
  <2> QED
    BY <1>1, <1>2, <2>1, <2>2, <2>3 DEF FreshCall
<1>5. FreshCall(p, new)'
  BY <1>1, <1>2, <1>3, <1>4 DEF FreshCall
<1> QED
  BY <1>1, <1>3, <1>4, <1>5 DEF NumberedAt

LEMMA HandOverNumbered ==
  ASSUME Types, NEW p \in Peer, NEW call \in out[p], HandOver(p, call),
         NumberedAt(p)
  PROVE  NumberedAt(p)'
<1> DEFINE x == Envelope(p, call)
<1>1. /\ out'[p] = out[p] \ {call} /\ typed' = typed /\ rec' = rec
      /\ call \in Call(p)
  BY DEF HandOver, Types, TypeOK
<1>2. CASE dc[p] # "open"
  <2>1. handed' = handed
    BY <1>2 DEF HandOver
  <2> QED
    BY <1>1, <2>1 DEF NumberedAt, FreshCall, NumberedChat
<1>3. CASE dc[p] = "open"
  <2>1. handed[p] \in Seq(Chat) /\ x \in Chat /\ x \in ChatOf(p)
    BY <1>1, EnvelopeType DEF Types, TypeOK
  <2>2. handed'[p] = Append(handed[p], x)
    BY <1>3 DEF HandOver, Types, TypeOK
  <2>3. /\ Len(handed[p]) \in Nat
        /\ DOMAIN handed[p] = 1 .. Len(handed[p])
        /\ DOMAIN handed'[p] = 1 .. Len(handed[p]) + 1
        /\ \A i \in 1 .. Len(handed[p]) : handed'[p][i] = handed[p][i]
        /\ handed'[p][Len(handed[p]) + 1] = x
    BY <2>1, <2>2, AppendOf
  <2>4. /\ x.id = call.id /\ x.seq = call.seq /\ x.life = rec[p].life
        /\ FreshCall(p, call)
    BY DEF Envelope, NumberedAt
  <2>5. ASSUME NEW c \in out'[p]
        PROVE  FreshCall(p, c)'
    <3>1. c \in out[p] /\ c # call /\ FreshCall(p, c)
      BY <1>1 DEF NumberedAt
    <3>2. c.id # call.id /\ c.seq # call.seq
      BY <2>4, <3>1 DEF FreshCall
    <3> QED
      BY <1>1, <2>3, <2>4, <3>1, <3>2 DEF FreshCall
  <2>6. NumberedChat(p, x)
    BY <2>1, <2>4, Numbers DEF NumberedChat, FreshCall, Types
  <2>7. ASSUME NEW i \in DOMAIN handed[p]
        PROVE  Distinct(handed[p][i], x)
    BY <2>4 DEF Distinct, NumberedAt, NumberedChat, FreshCall
  <2>8. ASSUME NEW j \in DOMAIN handed'[p]
        PROVE  /\ NumberedChat(p, handed[p][j])'
               /\ \A i \in DOMAIN handed'[p] :
                    i < j => Distinct(handed'[p][i], handed'[p][j])
    <3>1. CASE j \in DOMAIN handed[p]
      BY <1>1, <2>3, <3>1 DEF NumberedAt, NumberedChat
    <3>2. CASE j = Len(handed[p]) + 1
      <4>1. \A i \in DOMAIN handed'[p] : i < j => i \in DOMAIN handed[p]
        BY <2>3, <3>2
      <4> QED
        BY <1>1, <2>3, <2>6, <2>7, <3>2, <4>1 DEF NumberedChat
    <3> QED
      BY <2>3, <3>1, <3>2
  <2> QED
    BY <2>5, <2>8 DEF NumberedAt
<1> QED
  BY <1>2, <1>3

LEMMA NextNumbered ==
  ASSUME Types, Numbered, [Next]_vars
  PROVE  Numbered'
<1> SUFFICES ASSUME NEW q \in Peer PROVE NumberedAt(q)'
  BY DEF Numbered
<1> USE DEF sending, history
<1>0. NumberedAt(q)
  BY DEF Numbered
<1>1. CASE Connect
  BY <1>0, <1>1, NumberedKept DEF Connect
<1>2. ASSUME NEW p \in Peer, Open(p) \/ OnClose(p) \/ ChainEnds(p)
      PROVE  NumberedAt(q)'
  BY <1>0, <1>2, NumberedKept DEF Open, OnClose, ChainEnds
<1>3. ASSUME NEW p \in Peer, Forget(p)
      PROVE  NumberedAt(q)'
  <2>1. CASE p = q
    BY <1>0, <1>3, <2>1, ForgetNumbered
  <2>2. CASE p # q
    <3>1. out'[q] = out[q] /\ handed' = handed /\ typed' = typed /\ rec'[q] = rec[q]
      BY <1>3, <2>2 DEF Forget, Types, TypeOK
    <3> QED
      BY <1>0, <3>1, NumberedKept
  <2> QED
    BY <2>1, <2>2
<1>4. ASSUME NEW p \in Peer, SendKeyExchange(p)
      PROVE  NumberedAt(q)'
  BY <1>0, <1>4, NumberedKept, AnnounceTypes DEF SendKeyExchange
<1>5. ASSUME NEW p \in Peer, NEW i \in Due(p), HandleKeyExchange(p, i)
      PROVE  NumberedAt(q)'
  BY <1>0, <1>5, NumberedKept DEF HandleKeyExchange, Takes
<1>6. ASSUME NEW p \in Peer, DeriveDone(p)
      PROVE  NumberedAt(q)'
  BY <1>0, <1>6, NumberedKept, DeriveDoneRecords DEF DeriveDone
<1>7. ASSUME NEW p \in Peer, RespondDone(p)
      PROVE  NumberedAt(q)'
  BY <1>0, <1>7, NumberedKept, RespondDoneRecords DEF RespondDone
<1>8. ASSUME NEW p \in Peer, Number(p)
      PROVE  NumberedAt(q)'
  <2>1. CASE p = q
    BY <1>0, <1>8, <2>1, NumberNumbered
  <2>2. CASE p # q
    <3>1. out'[q] = out[q] /\ handed' = handed /\ typed'[q] = typed[q] /\ rec'[q] = rec[q]
      BY <1>8, <2>2, NumberRecords DEF Number, Types, TypeOK
    <3> QED
      BY <1>0, <3>1, NumberedKept
  <2> QED
    BY <2>1, <2>2
<1>9. ASSUME NEW p \in Peer, NEW call \in out[p], HandOver(p, call)
      PROVE  NumberedAt(q)'
  <2>1. CASE p = q
    BY <1>0, <1>9, <2>1, HandOverNumbered
  <2>2. CASE p # q
    <3>1. out'[q] = out[q] /\ handed'[q] = handed[q] /\ typed' = typed /\ rec' = rec
      BY <1>9, <2>2 DEF HandOver, Types, TypeOK
    <3> QED
      BY <1>0, <3>1, NumberedKept
  <2> QED
    BY <2>1, <2>2
<1>10. ASSUME NEW p \in Peer, NEW i \in Due(p), HandleChat(p, i)
       PROVE  NumberedAt(q)'
  BY <1>0, <1>10, NumberedKept DEF HandleChat, Refuse, Takes
<1>11. ASSUME NEW p \in Peer, OpenDone(p)
       PROVE  NumberedAt(q)'
  BY <1>0, <1>11, NumberedKept, OpenDoneRecords DEF OpenDone
<1>12. CASE UNCHANGED vars
  BY <1>0, <1>12, NumberedKept DEF vars
<1> QED
  BY <1>1, <1>2, <1>3, <1>4, <1>5, <1>6, <1>7, <1>8, <1>9, <1>10, <1>11, <1>12
     DEF Next, MessageChain

-----------------------------------------------------------------------------
(* InOrder *)

Grows(h, k) == DOMAIN h \subseteq DOMAIN k /\ \A i \in DOMAIN h : k[i] = h[i]

LEMMA StillPrecedes ==
  ASSUME NEW h, NEW k, Grows(h, k)
  PROVE  /\ \A x : OneOf(h, x) => OneOf(k, x)
         /\ \A x, y : Precedes(h, x, y) => Precedes(k, x, y)
BY DEF Grows, OneOf, Precedes

LEMMA LastIsPreceded ==
  ASSUME NEW h \in Seq(Chat), NEW y \in Chat
  PROVE  /\ Grows(h, Append(h, y))
         /\ OneOf(Append(h, y), y)
         /\ \A x : OneOf(h, x) => Precedes(Append(h, y), x, y)
<1>1. /\ Len(h) \in Nat /\ DOMAIN h = 1 .. Len(h)
      /\ DOMAIN Append(h, y) = 1 .. Len(h) + 1
      /\ \A i \in 1 .. Len(h) : Append(h, y)[i] = h[i]
      /\ Append(h, y)[Len(h) + 1] = y
  BY AppendOf
<1>2. Len(h) + 1 \in DOMAIN Append(h, y) /\ \A i \in DOMAIN h : i < Len(h) + 1
  BY <1>1
<1> QED
  BY <1>1, <1>2 DEF Grows, OneOf, Precedes

\* A step hands over at most one message.
LEMMA HandedGrows ==
  ASSUME Types, [Next]_vars, NEW q \in Peer
  PROVE  Grows(handed[q], handed'[q])
<1>1. ASSUME NEW p \in Peer, NEW call \in out[p], HandOver(p, call)
      PROVE  Grows(handed[q], handed'[q])
  <2>1. CASE dc[p] = "open" /\ q = p
    <3>1. /\ Envelope(p, call) \in Chat /\ handed[p] \in Seq(Chat)
          /\ handed'[p] = Append(handed[p], Envelope(p, call))
      BY <1>1, <2>1, EnvelopeType DEF Types, TypeOK, HandOver
    <3> QED
      BY <2>1, <3>1, LastIsPreceded
  <2>2. CASE ~ (dc[p] = "open" /\ q = p)
    BY <1>1, <2>2 DEF Types, TypeOK, HandOver, Grows
  <2> QED
    BY <2>1, <2>2
<1>2. CASE handed' = handed
  BY <1>2 DEF Grows
<1> QED
  BY <1>1, <1>2 DEF Next, MessageChain, Connect, Open, OnClose, Forget,
     ChainEnds, SendKeyExchange, HandleKeyExchange, DeriveDone, RespondDone, Number,
     HandleChat, Refuse, Takes, OpenDone, sending, history, vars

\* What most steps do to the messages of a page
LEMMA InOrderKept ==
  ASSUME NEW p \in Peer, InOrderAt(p), InboxType, InboxType',
         NEW shift \in {0, 1}, Shifted(p, shift),
         Grows(handed[Other(p)], handed'[Other(p)]), shown'[p] = shown[p],
         chain'[p].pc = "open" => chain[p].pc = "open" /\ chain'[p].chat = chain[p].chat
  PROVE  InOrderAt(p)'
<1>1. ASSUME NEW i \in DOMAIN inbox'[p]
      PROVE  i + shift \in DOMAIN inbox[p] /\ inbox'[p][i] = inbox[p][i + shift]
             /\ i \in Nat
  BY DEF InboxType, Shifted
<1>2. \A i, j \in DOMAIN inbox'[p] : i < j => i + shift < j + shift
  BY <1>1
<1> QED
  BY <1>1, <1>2, StillPrecedes DEF InOrderAt

\* The message at the head of the inbox is decrypted.
LEMMA InOrderHead ==
  ASSUME NEW p \in Peer, InOrderAt(p), InboxType, InboxType', Shifted(p, 1),
         inbox[p] # <<>>, inbox[p][1] # KeyExchange,
         handed' = handed, shown' = shown, chain'[p].pc = "open",
         chain'[p].chat = inbox[p][1]
  PROVE  InOrderAt(p)'
<1>1. ASSUME NEW i \in DOMAIN inbox'[p]
      PROVE  i + 1 \in DOMAIN inbox[p] /\ inbox'[p][i] = inbox[p][i + 1]
             /\ 1 < i + 1 /\ i \in Nat
  BY DEF InboxType, Shifted
<1>2. \A i, j \in DOMAIN inbox'[p] : i < j => i + 1 < j + 1
  BY <1>1
<1>3. 1 \in DOMAIN inbox[p]
  BY DEF InboxType
<1> QED
  BY <1>1, <1>2, <1>3 DEF InOrderAt

\* The message that was decrypted is shown.
LEMMA InOrderShown ==
  ASSUME NEW p \in Peer, InOrderAt(p), inbox' = inbox, handed' = handed,
         shown[p] \in Seq(Chat), chain[p].pc = "open", chain[p].chat \in Chat,
         shown'[p] = Append(shown[p], chain[p].chat), chain'[p].pc # "open"
  PROVE  InOrderAt(p)'
<1>1. ASSUME NEW k \in DOMAIN shown'[p]
      PROVE  \/ k \in DOMAIN shown[p] /\ shown'[p][k] = shown[p][k]
             \/ shown'[p][k] = chain[p].chat
  BY AppendOf
<1> QED
  BY <1>1 DEF InOrderAt

\* A message is added to the inbox, and a chat message to those handed over.
LEMMA InOrderAdded ==
  ASSUME NEW p \in Peer, InOrderAt(p), InboxType, InboxType', NEW m, Added(p, m),
         shown'[p] = shown[p], chain'[p] = chain[p],
         \/ m = KeyExchange /\ handed' = handed
         \/ /\ m \in Chat /\ handed[Other(p)] \in Seq(Chat)
            /\ handed'[Other(p)] = Append(handed[Other(p)], m)
  PROVE  InOrderAt(p)'
<1> DEFINE h == handed[Other(p)]
           k == handed'[Other(p)]
<1>1. /\ Grows(h, k)
      /\ m # KeyExchange => OneOf(k, m) /\ \A x : OneOf(h, x) => Precedes(k, x, m)
  BY LastIsPreceded DEF Grows
<1>2. ASSUME NEW i \in DOMAIN inbox'[p]
      PROVE  /\ i \in Nat /\ i <= Len(inbox[p]) + 1 /\ Len(inbox[p]) \in Nat
             /\ \/ i \in DOMAIN inbox[p] /\ inbox'[p][i] = inbox[p][i]
                \/ i = Len(inbox[p]) + 1 /\ inbox'[p][i] = m
  BY DEF InboxType, Added
<1>3. /\ \A x : OneOf(h, x) => OneOf(k, x)
      /\ \A x, y : Precedes(h, x, y) => Precedes(k, x, y)
  BY <1>1, StillPrecedes
<1>4. ASSUME NEW i \in DOMAIN inbox'[p], NEW j \in DOMAIN inbox'[p], i < j
      PROVE  i \in DOMAIN inbox[p] /\ inbox'[p][i] = inbox[p][i]
  BY <1>2, <1>4
<1>5. ASSUME NEW i \in DOMAIN inbox'[p], inbox'[p][i] # KeyExchange
      PROVE  /\ OneOf(k, inbox'[p][i])
             /\ chain'[p].pc = "open" => Precedes(k, chain'[p].chat, inbox'[p][i])
             /\ \A l \in DOMAIN shown'[p] : Precedes(k, shown'[p][l], inbox'[p][i])
  BY <1>1, <1>2, <1>3, <1>5 DEF InOrderAt
<1>6. ASSUME NEW i \in DOMAIN inbox'[p], NEW j \in DOMAIN inbox'[p], i < j,
             inbox'[p][i] # KeyExchange, inbox'[p][j] # KeyExchange
      PROVE  Precedes(k, inbox'[p][i], inbox'[p][j])
  BY <1>1, <1>2, <1>3, <1>4, <1>6 DEF InOrderAt
<1>7. /\ chain'[p].pc = "open" => OneOf(k, chain'[p].chat)
      /\ \A l \in DOMAIN shown'[p] :
           /\ OneOf(k, shown'[p][l])
           /\ chain'[p].pc = "open" => Precedes(k, shown'[p][l], chain'[p].chat)
  BY <1>3 DEF InOrderAt
<1> QED
  BY <1>5, <1>6, <1>7 DEF InOrderAt

LEMMA NextInOrder ==
  ASSUME Types, InOrder, [Next]_vars
  PROVE  InOrder'
<1> SUFFICES ASSUME NEW q \in Peer PROVE InOrderAt(q)'
  BY DEF InOrder
<1> USE DEF sending, history
<1>0. /\ InOrderAt(q) /\ InboxType /\ InboxType'
      /\ Other(q) \in Peer /\ \A p \in Peer : p = q \/ p = Other(q)
      /\ Grows(handed[Other(q)], handed'[Other(q)])
      /\ inbox'[q] = inbox[q] => Shifted(q, 0)
  BY NextTypes, HandedGrows, OtherIsPeer, SameInbox DEF InOrder, Types, TypeOK, InboxType
<1>1. CASE Connect
  BY <1>0, <1>1, InOrderKept DEF Connect
<1>2. ASSUME NEW p \in Peer, Open(p)
      PROVE  InOrderAt(q)'
  BY <1>0, <1>2, InOrderKept DEF Open
<1>3. ASSUME NEW p \in Peer, OnClose(p)
      PROVE  InOrderAt(q)'
  BY <1>0, <1>3, InOrderKept, CutInbox DEF OnClose
<1>4. ASSUME NEW p \in Peer, Forget(p)
      PROVE  InOrderAt(q)'
  <2>1. chain'[q].pc = chain[q].pc /\ (chain[q].pc = "open" => chain'[q].chat = chain[q].chat)
    BY <1>4 DEF Forget, Types, TypeOK, Handler
  <2> QED
    BY <1>0, <1>4, <2>1, InOrderKept, CutInbox DEF Forget
<1>5. ASSUME NEW p \in Peer, ChainEnds(p)
      PROVE  InOrderAt(q)'
  <2>1. chain'[q] = chain[q] \/ chain'[q].pc = "free"
    BY <1>5 DEF ChainEnds, Free, Types, TypeOK
  <2> QED
    BY <1>0, <1>5, <2>1, InOrderKept DEF ChainEnds
<1>6. ASSUME NEW p \in Peer, Announce(p), UNCHANGED <<handed, shown>>,
             chain'[q] = chain[q] \/ (q = p /\ chain'[q].pc = "free")
      PROVE  InOrderAt(q)'
  <2>1. Shifted(q, 0) \/ (Added(q, KeyExchange) /\ q = Other(p) /\ dc[p] = "open")
    BY <1>0, <1>6, SentInbox, KeyExchangeType, OtherIsPeer DEF Announce
  <2>2. CASE Shifted(q, 0)
    BY <1>0, <1>6, <2>2, InOrderKept
  <2>3. CASE Added(q, KeyExchange) /\ q = Other(p)
    BY <1>0, <1>6, <2>3, InOrderAdded, OtherIsPeer
  <2> QED
    BY <2>1, <2>2, <2>3
<1>7. ASSUME NEW p \in Peer, SendKeyExchange(p)
      PROVE  InOrderAt(q)'
  BY <1>6, <1>7 DEF SendKeyExchange
<1>8. ASSUME NEW p \in Peer, RespondDone(p)
      PROVE  InOrderAt(q)'
  <2>1. chain'[q] = chain[q] \/ (q = p /\ chain'[q].pc = "free")
    BY <1>8 DEF RespondDone, Free, Types, TypeOK
  <2>2. CASE Announce(p)
    BY <1>6, <1>8, <2>1, <2>2 DEF RespondDone
  <2>3. CASE UNCHANGED <<rec, inbox, announced>>
    BY <1>0, <1>8, <2>1, <2>3, InOrderKept DEF RespondDone
  <2> QED
    BY <1>8, <2>2, <2>3 DEF RespondDone
<1>9. ASSUME NEW p \in Peer, DeriveDone(p)
      PROVE  InOrderAt(q)'
  <2>1. chain'[q] = chain[q] \/ chain'[q].pc \in {"respond", "free"}
    BY <1>9 DEF DeriveDone, Free, Types, TypeOK, Handler
  <2> QED
    BY <1>0, <1>9, <2>1, InOrderKept DEF DeriveDone
<1>10. ASSUME NEW p \in Peer, Number(p)
       PROVE  InOrderAt(q)'
  BY <1>0, <1>10, InOrderKept DEF Number
<1>11. ASSUME NEW p \in Peer, NEW i \in Due(p), NEW h, Takes(p, i, h),
              h.pc # "open", UNCHANGED shown
       PROVE  InOrderAt(q)'
  <2>1. \E shift \in {0, 1} : Shifted(q, shift)
    BY <1>0, <1>11, TakenInbox
  <2>2. chain'[q] = chain[q] \/ chain'[q].pc # "open"
    BY <1>11 DEF Takes, Types, TypeOK
  <2> QED
    BY <1>0, <1>11, <2>1, <2>2, InOrderKept
<1>12. ASSUME NEW p \in Peer, NEW i \in Due(p), HandleKeyExchange(p, i)
       PROVE  InOrderAt(q)'
  BY <1>11, <1>12 DEF HandleKeyExchange
<1>13. ASSUME NEW p \in Peer, NEW i \in Due(p), HandleChat(p, i)
       PROVE  InOrderAt(q)'
  <2>1. ASSUME NEW why, Refuse(p, i, why)
        PROVE  InOrderAt(q)'
    BY <1>11, <2>1 DEF Refuse, Free
  <2>2. ASSUME Takes(p, i, [pc |-> "open", on |-> Owner(p), chat |-> inbox[p][i]]),
               UNCHANGED history
        PROVE  InOrderAt(q)'
    <3>1. CASE q = p
      <4>1. PICK h : h = [pc |-> "open", on |-> Owner(p), chat |-> inbox[p][i]]
        OBVIOUS
      <4>2. i = 1 /\ Len(inbox[p]) >= 1 /\ Shifted(p, 1)
        BY <1>0, <2>2, <4>1, TakenInbox
      <4>3. inbox[p] # <<>>
        BY <4>2, EmptySeq
      <4>4. inbox[p][1] # KeyExchange
        BY <1>13, <4>2 DEF HandleChat
      <4>5. chain'[p] = [pc |-> "open", on |-> Owner(p), chat |-> inbox[p][1]]
        BY <2>2, <4>2 DEF Takes, Types, TypeOK
      <4> QED
        BY <1>0, <2>2, <3>1, <4>2, <4>3, <4>4, <4>5, InOrderHead DEF Takes
    <3>2. CASE q # p
      <4>1. Shifted(q, 0) /\ chain'[q] = chain[q]
        BY <1>0, <2>2, <3>2, TakenInbox DEF Takes, Types, TypeOK
      <4> QED
        BY <1>0, <2>2, <4>1, InOrderKept
    <3> QED
      BY <3>1, <3>2
  <2> QED
    BY <1>13, <2>1, <2>2 DEF HandleChat
<1>14. ASSUME NEW p \in Peer, NEW call \in out[p], HandOver(p, call)
       PROVE  InOrderAt(q)'
  <2>1. /\ Envelope(p, call) \in Chat /\ Envelope(p, call) \in Message
        /\ handed[p] \in Seq(Chat)
    BY EnvelopeType DEF Types, TypeOK
  <2>2. CASE dc[p] = "open" /\ q = Other(p) /\ Added(q, Envelope(p, call))
    <3>1. Other(q) = p /\ handed'[p] = Append(handed[p], Envelope(p, call))
      BY <1>14, <2>2, OtherIsPeer DEF HandOver, Types, TypeOK
    <3> QED
      BY <1>0, <1>14, <2>1, <2>2, <3>1, InOrderAdded DEF HandOver
  <2>3. CASE Shifted(q, 0)
    BY <1>0, <1>14, <2>3, InOrderKept DEF HandOver
  <2>4. CASE dc[p] # "open"
    BY <1>0, <1>14, <2>3, <2>4 DEF HandOver
  <2> QED
    BY <1>0, <1>14, <2>1, <2>2, <2>3, <2>4, SentInbox, OtherIsPeer DEF HandOver
<1>15. ASSUME NEW p \in Peer, OpenDone(p)
       PROVE  InOrderAt(q)'
  <2>1. CASE q = p
    <3>1. /\ chain[p].pc = "open" /\ chain[p].chat \in Chat /\ shown[p] \in Seq(Chat)
          /\ shown'[p] = Append(shown[p], chain[p].chat) /\ chain'[p].pc = "free"
      BY <1>15 DEF OpenDone, Free, Types, TypeOK, Handler
    <3> QED
      BY <1>0, <1>15, <2>1, <3>1, InOrderShown DEF OpenDone
  <2>2. CASE q # p
    <3>1. shown'[q] = shown[q] /\ chain'[q] = chain[q]
      BY <1>15, <2>2 DEF OpenDone, Types, TypeOK
    <3> QED
      BY <1>0, <1>15, <3>1, InOrderKept DEF OpenDone
  <2> QED
    BY <2>1, <2>2
<1>16. CASE UNCHANGED vars
  BY <1>0, <1>16, InOrderKept DEF vars
<1> QED
  BY <1>1, <1>2, <1>3, <1>4, <1>5, <1>7, <1>8, <1>9, <1>10, <1>12, <1>13, <1>14,
     <1>15, <1>16 DEF Next, MessageChain

-----------------------------------------------------------------------------
(* Noted *)

LEMMA NextNoted ==
  ASSUME Types, Noted, [Next]_vars
  PROVE  Noted'
<1> SUFFICES ASSUME NEW q \in Peer PROVE NotedAt(q)'
  BY DEF Noted
<1> USE DEF sending, history
<1>0. NotedAt(q)
  BY DEF Noted
<1>1. ASSUME shown' = shown, rec'[q].remoteSeq \in {0, rec[q].remoteSeq},
             old'[q].remoteSeq \in {0, old[q].remoteSeq}
      PROVE  NotedAt(q)'
  BY <1>0, <1>1 DEF NotedAt, Remembers
<1>2. CASE Connect
  BY <1>1, <1>2 DEF Connect
<1>3. ASSUME NEW p \in Peer, Open(p) \/ OnClose(p)
      PROVE  NotedAt(q)'
  BY <1>1, <1>3 DEF Open, OnClose
<1>4. ASSUME NEW p \in Peer, ChainEnds(p)
      PROVE  NotedAt(q)'
  <2>1. old'[q].remoteSeq \in {0, old[q].remoteSeq}
    BY <1>4 DEF ChainEnds, createInitialCryptoState, Types, TypeOK
  <2> QED
    BY <1>1, <1>4, <2>1 DEF ChainEnds
<1>5. ASSUME NEW p \in Peer, Forget(p)
      PROVE  NotedAt(q)'
  BY <1>1, <1>5, ForgetRecords DEF Forget
<1>6. ASSUME NEW p \in Peer, SendKeyExchange(p)
      PROVE  NotedAt(q)'
  BY <1>1, <1>6, AnnounceTypes DEF SendKeyExchange
<1>7. ASSUME NEW p \in Peer, DeriveDone(p)
      PROVE  NotedAt(q)'
  BY <1>1, <1>7, DeriveDoneRecords DEF DeriveDone
<1>8. ASSUME NEW p \in Peer, RespondDone(p)
      PROVE  NotedAt(q)'
  BY <1>1, <1>8, RespondDoneRecords DEF RespondDone
<1>9. ASSUME NEW p \in Peer, Number(p)
      PROVE  NotedAt(q)'
  BY <1>1, <1>9, NumberRecords DEF Number
<1>10. ASSUME NEW p \in Peer, NEW call \in out[p], HandOver(p, call)
       PROVE  NotedAt(q)'
  BY <1>1, <1>10 DEF HandOver
<1>11. ASSUME NEW p \in Peer, NEW i \in Due(p), HandleKeyExchange(p, i) \/ HandleChat(p, i)
       PROVE  NotedAt(q)'
  BY <1>1, <1>11 DEF HandleKeyExchange, HandleChat, Refuse, Takes
<1>12. ASSUME NEW p \in Peer, OpenDone(p)
       PROVE  NotedAt(q)'
  <2>1. CASE q = p
    <3>1. /\ chain[p].chat \in Chat /\ shown[p] \in Seq(Chat)
          /\ shown'[p] = Append(shown[p], chain[p].chat)
      BY <1>12 DEF OpenDone, Types, TypeOK, Handler
    <3>2. /\ \E k \in DOMAIN shown'[p] : shown'[p][k].seq = chain[p].chat.seq
          /\ \A k \in DOMAIN shown[p] :
               k \in DOMAIN shown'[p] /\ shown'[p][k] = shown[p][k]
      BY <3>1, AppendOf
    <3> QED
      BY <1>0, <1>12, <2>1, <3>2, OpenDoneRecords DEF NotedAt, Remembers
  <2>2. CASE q # p
    BY <1>0, <1>12, <2>2, OpenDoneRecords DEF OpenDone, NotedAt, Remembers, Types, TypeOK
  <2> QED
    BY <2>1, <2>2
<1>13. CASE UNCHANGED vars
  BY <1>1, <1>13 DEF vars
<1> QED
  BY <1>2, <1>3, <1>4, <1>5, <1>6, <1>7, <1>8, <1>9, <1>10, <1>11, <1>12, <1>13
     DEF Next, MessageChain

-----------------------------------------------------------------------------
(* KeyComes *)

\* A step that adds no message and takes none but a chat message
LEMMA KeyComesKept ==
  ASSUME NEW p \in Peer, KeyComesAt(p), InboxType, InboxType',
         NEW shift \in {0, 1}, Shifted(p, shift),
         shift = 1 => inbox[p][1] # KeyExchange,
         Ready(p) => Ready(p)' \/ p \in deleted',
         p \in deleted => p \in deleted',
         p \in deleted' => dc'[p] = "none",
         Other(p) \in announced' =>
           \/ dc'[p] \in {"none", "closed"}
           \/ /\ Other(p) \in announced
              /\ dc[p] \notin {"none", "closed"}
              /\ Len(inbox'[p]) + shift = Len(inbox[p])
  PROVE  KeyComesAt(p)'
<1>1. ASSUME NEW i \in DOMAIN inbox'[p]
      PROVE  i + shift \in DOMAIN inbox[p] /\ inbox'[p][i] = inbox[p][i + shift]
             /\ i \in Nat
  BY DEF InboxType, Shifted
<1>2. ASSUME NEW j \in DOMAIN inbox[p], inbox[p][j] = KeyExchange,
             j <= Len(inbox'[p]) + shift
      PROVE  j - shift \in DOMAIN inbox'[p] /\ inbox'[p][j - shift] = KeyExchange
  <2>1. j \in Nat /\ j >= 1 /\ Len(inbox'[p]) \in Nat
        /\ DOMAIN inbox'[p] = 1 .. Len(inbox'[p])
    BY DEF InboxType
  <2>2. j - shift >= 1
    BY <1>2, <2>1
  <2>3. j - shift \in DOMAIN inbox'[p] /\ (j - shift) + shift = j
    BY <1>2, <2>1, <2>2
  <2> QED
    BY <1>1, <1>2, <2>3
<1>3. ASSUME Other(p) \in announced'
      PROVE  \/ dc'[p] \in {"none", "closed"}
             \/ Ready(p)'
             \/ \E j \in DOMAIN inbox'[p] : inbox'[p][j] = KeyExchange
  <2>1. CASE \E j \in DOMAIN inbox[p] : inbox[p][j] = KeyExchange
    <3>1. PICK j \in DOMAIN inbox[p] : inbox[p][j] = KeyExchange
      BY <2>1
    <3>2. CASE Len(inbox'[p]) + shift = Len(inbox[p])
      <4>1. j <= Len(inbox'[p]) + shift
        BY <3>2 DEF InboxType
      <4> QED
        BY <1>2, <3>1, <4>1
    <3> QED
      BY <1>3, <3>2
  <2> QED
    BY <1>3, <2>1 DEF KeyComesAt
<1>4. ASSUME NEW i \in DOMAIN inbox'[p], inbox'[p][i] # KeyExchange, inbox'[p][i].kx
      PROVE  \/ p \in deleted'
             \/ Ready(p)'
             \/ \E j \in DOMAIN inbox'[p] : j < i /\ inbox'[p][j] = KeyExchange
  <2>1. CASE \E j \in DOMAIN inbox[p] : j < i + shift /\ inbox[p][j] = KeyExchange
    <3>1. PICK j \in DOMAIN inbox[p] : j < i + shift /\ inbox[p][j] = KeyExchange
      BY <2>1
    <3>2. j \in Nat /\ i \in Nat /\ i <= Len(inbox'[p]) /\ Len(inbox'[p]) \in Nat
      BY DEF InboxType
    <3>3. j <= Len(inbox'[p]) + shift /\ j - shift < i
      BY <3>1, <3>2
    <3> QED
      BY <1>2, <3>1, <3>3
  <2> QED
    BY <1>1, <1>4, <2>1 DEF KeyComesAt
<1> QED
  BY <1>3, <1>4 DEF KeyComesAt

\* A message is added: the key exchange, or a chat message, which knows whether
\* its page has sent the key exchange.
LEMMA KeyComesAdded ==
  ASSUME NEW p \in Peer, KeyComesAt(p), InboxType, InboxType', NEW m, Added(p, m),
         rec'[p].secure = rec[p].secure, chain'[p] = chain[p], deleted' = deleted,
         dc[p] \in {"connecting", "open"},
         m # KeyExchange => announced' = announced /\ (m.kx => Other(p) \in announced)
  PROVE  KeyComesAt(p)'
<1>1. /\ Len(inbox[p]) \in Nat /\ DOMAIN inbox[p] = 1 .. Len(inbox[p])
      /\ DOMAIN inbox'[p] = 1 .. Len(inbox[p]) + 1
      /\ \A i \in 1 .. Len(inbox[p]) : inbox'[p][i] = inbox[p][i]
      /\ inbox'[p][Len(inbox[p]) + 1] = m
  BY DEF InboxType, Added
<1>2. Ready(p) => Ready(p)'
  BY DEF Ready
<1>3. m = KeyExchange => \E j \in DOMAIN inbox'[p] : inbox'[p][j] = KeyExchange
  BY <1>1
<1>4. ASSUME m # KeyExchange, Other(p) \in announced
      PROVE  Ready(p) \/ \E j \in DOMAIN inbox[p] : inbox[p][j] = KeyExchange
  BY <1>4 DEF KeyComesAt
<1>5. ASSUME Other(p) \in announced', ~ Ready(p)'
      PROVE  \E j \in DOMAIN inbox'[p] : inbox'[p][j] = KeyExchange
  <2>1. CASE m # KeyExchange
    BY <1>1, <1>2, <1>4, <1>5, <2>1
  <2> QED
    BY <1>3, <2>1
<1>6. ASSUME NEW i \in DOMAIN inbox'[p], inbox'[p][i] # KeyExchange, inbox'[p][i].kx,
             p \notin deleted', ~ Ready(p)'
      PROVE  \E j \in DOMAIN inbox'[p] : j < i /\ inbox'[p][j] = KeyExchange
  <2>1. CASE i \in DOMAIN inbox[p]
    <3>1. \E j \in DOMAIN inbox[p] : j < i /\ inbox[p][j] = KeyExchange
      BY <1>1, <1>2, <1>6, <2>1 DEF KeyComesAt
    <3> QED
      BY <1>1, <3>1
  <2>2. CASE i = Len(inbox[p]) + 1
    <3>1. PICK j \in DOMAIN inbox[p] : inbox[p][j] = KeyExchange
      BY <1>1, <1>2, <1>4, <1>6, <2>2
    <3>2. j \in DOMAIN inbox'[p] /\ j < i /\ inbox'[p][j] = KeyExchange
      BY <1>1, <2>2, <3>1
    <3> QED
      BY <3>2
  <2> QED
    BY <1>1, <2>1, <2>2
<1> QED
  BY <1>5, <1>6 DEF KeyComesAt

LEMMA NextKeyComes ==
  ASSUME Types, KeyComes, [Next]_vars
  PROVE  KeyComes'
<1> SUFFICES ASSUME NEW q \in Peer PROVE KeyComesAt(q)'
  BY DEF KeyComes
<1> USE DEF sending, history
<1>0. /\ KeyComesAt(q) /\ InboxType /\ InboxType'
      /\ Other(q) \in Peer /\ \A p \in Peer : p = q \/ p = Other(q)
      /\ inbox'[q] = inbox[q] => Shifted(q, 0)
      /\ q \in deleted => dc[q] = "none"
      /\ q \in deleted' => dc'[q] = "none"
      /\ Other(q) \in announced => dc[Other(q)] = "open"
      /\ inbox[q] \in Seq(Message) /\ Len(inbox[q]) \in Nat
  <2>1. Types'
    BY NextTypes
  <2>2. InboxType /\ InboxType'
    BY <2>1 DEF Types, TypeOK, InboxType
  <2>3. Other(q) \in Peer
    BY OtherIsPeer
  <2>4. inbox[q] \in Seq(Message) /\ Len(inbox[q]) \in Nat
    BY <2>2 DEF InboxType
  <2>5. BoundedAt(q) /\ BoundedAt(q)' /\ BoundedAt(Other(q))
    BY <2>1, <2>3 DEF Types, Bounded
  <2> QED
    BY <2>2, <2>3, <2>4, <2>5, OtherIsPeer, SameInbox DEF KeyComes, BoundedAt
<1>1. ASSUME inbox'[q] = inbox[q],
             Ready(q) => Ready(q)' \/ q \in deleted', q \in deleted => q \in deleted',
             Other(q) \in announced' =>
               \/ dc'[q] \in {"none", "closed"}
               \/ Other(q) \in announced /\ dc[q] \notin {"none", "closed"}
      PROVE  KeyComesAt(q)'
  <2>1. Shifted(q, 0) /\ Len(inbox'[q]) + 0 = Len(inbox[q])
    BY <1>0, <1>1
  <2> QED
    BY <1>0, <1>1, <2>1, KeyComesKept
<1>2. ASSUME UNCHANGED <<inbox, dc, announced>>, rec'[q].secure = rec[q].secure,
             q \in deleted => q \in deleted',
             \/ chain'[q] = chain[q]
             \/ chain[q].pc # "derive"
      PROVE  KeyComesAt(q)'
  BY <1>1, <1>2 DEF Ready, KeyComesAt
<1>3. CASE Connect
  <2>1. Other(q) \notin announced
    BY <1>0, <1>3 DEF Connect
  <2> QED
    BY <1>1, <1>3, <2>1 DEF Connect, Ready
<1>4. ASSUME NEW p \in Peer, Open(p)
      PROVE  KeyComesAt(q)'
  <2>1. dc'[q] = dc[q] \/ (dc[q] = "connecting" /\ dc'[q] = "open")
    BY <1>4 DEF Open, Types, TypeOK
  <2> QED
    BY <1>1, <1>4, <2>1 DEF Open, Ready
<1>5. ASSUME NEW p \in Peer, OnClose(p)
      PROVE  KeyComesAt(q)'
  <2>1. CASE q = p
    <3>1. Shifted(q, 0) /\ dc'[q] = "closed"
      BY <1>0, <1>5, <2>1, CutInbox DEF OnClose, Types, TypeOK
    <3>2. Ready(q) => Ready(q)'
      BY <1>5 DEF OnClose, Ready
    <3> QED
      BY <1>0, <1>5, <3>1, <3>2, KeyComesKept DEF OnClose
  <2>2. CASE q # p
    <3>1. inbox'[q] = inbox[q] /\ dc'[q] = dc[q]
      BY <1>5, <2>2 DEF OnClose, Cut, Types, TypeOK
    <3>2. Ready(q) => Ready(q)'
      BY <1>5 DEF OnClose, Ready
    <3> QED
      BY <1>1, <1>5, <3>1, <3>2 DEF OnClose
  <2> QED
    BY <2>1, <2>2
<1>6. ASSUME NEW p \in Peer, Forget(p)
      PROVE  KeyComesAt(q)'
  <2>1. CASE q = p
    <3>1. Shifted(q, 0) /\ dc'[q] = "none" /\ q \in deleted'
      BY <1>0, <1>6, <2>1, CutInbox DEF Forget, Types, TypeOK
    <3> QED
      BY <1>0, <3>1, KeyComesKept
  <2>2. CASE q # p
    <3>1. inbox'[q] = inbox[q] /\ dc'[q] = dc[q] /\ rec'[q] = rec[q]
          /\ chain'[q] = chain[q]
      BY <1>6, <2>2 DEF Forget, Cut, Types, TypeOK
    <3>2. Ready(q) => Ready(q)'
      BY <3>1 DEF Ready
    <3> QED
      BY <1>1, <1>6, <3>1, <3>2 DEF Forget
  <2> QED
    BY <2>1, <2>2
<1>7. ASSUME NEW p \in Peer, ChainEnds(p)
      PROVE  KeyComesAt(q)'
  <2>1. CASE q = p
    <3>1. inbox'[q] = <<>> /\ dc'[q] = "none"
      BY <1>0, <1>7, <2>1 DEF ChainEnds
    <3> QED
      BY <3>1 DEF KeyComesAt
  <2>2. CASE q # p
    <3>1. chain'[q] = chain[q] /\ (q \in deleted => q \in deleted')
      BY <1>7, <2>2 DEF ChainEnds, Types, TypeOK
    <3> QED
      BY <1>2, <1>7, <3>1 DEF ChainEnds
  <2> QED
    BY <2>1, <2>2
<1>8. ASSUME NEW p \in Peer, Announce(p), UNCHANGED <<dc, deleted>>,
             chain'[q] = chain[q] \/ (q = p /\ chain[q].pc # "derive")
      PROVE  KeyComesAt(q)'
  <2>1. rec'[q].secure = rec[q].secure /\ (Ready(q) => Ready(q)')
    BY <1>8, AnnounceTypes DEF Ready
  <2>2. CASE q = p
    <3>1. inbox'[q] = inbox[q]
      BY <1>8, <2>2, OtherIsPeer DEF Announce, Sent, Types, TypeOK
    <3>2. Other(q) \in announced' => Other(q) \in announced
      BY <2>2, <1>8, OtherIsPeer DEF Announce
    <3> QED
      BY <1>1, <1>8, <2>1, <3>1, <3>2 DEF KeyComesAt
  <2>3. CASE q # p /\ dc[q] \in {"connecting", "open"} /\ dc[p] = "open"
    <3>1. Other(p) = q /\ chain'[q] = chain[q]
      BY <1>8, <2>3, OtherIsPeer
    <3>2. Added(q, KeyExchange)
      BY <1>0, <1>8, <2>3, <3>1, SentInbox, KeyExchangeType DEF Announce
    <3> QED
      BY <1>0, <1>8, <2>1, <2>3, <3>1, <3>2, KeyComesAdded
  <2>4. CASE q # p /\ dc[p] # "open"
    BY <1>2, <1>8, <2>1, <2>4 DEF Announce
  <2>5. CASE q # p /\ dc[q] \notin {"connecting", "open"} /\ dc[p] = "open"
    <3>1. inbox'[q] = inbox[q] /\ dc'[q] \in {"none", "closed"}
      BY <1>8, <2>5, OtherIsPeer DEF Announce, Sent, Types, TypeOK
    <3> QED
      BY <1>1, <1>8, <2>1, <3>1
  <2> QED
    BY <2>2, <2>3, <2>4, <2>5
<1>9. ASSUME NEW p \in Peer, SendKeyExchange(p)
      PROVE  KeyComesAt(q)'
  BY <1>8, <1>9 DEF SendKeyExchange
<1>10. ASSUME NEW p \in Peer, RespondDone(p)
       PROVE  KeyComesAt(q)'
  <2>1. chain'[q] = chain[q] \/ (q = p /\ chain[q].pc = "respond")
    BY <1>10 DEF RespondDone, Types, TypeOK
  <2>2. CASE Announce(p)
    BY <1>8, <1>10, <2>1, <2>2 DEF RespondDone
  <2>3. CASE UNCHANGED <<rec, inbox, announced>>
    BY <1>2, <1>10, <2>1, <2>3 DEF RespondDone
  <2> QED
    BY <1>10, <2>2, <2>3 DEF RespondDone
<1>11. ASSUME NEW p \in Peer, DeriveDone(p)
       PROVE  KeyComesAt(q)'
  <2>1. rec[q].secure => rec'[q].secure
    BY <1>11, DeriveDoneRecords
  <2>2. chain'[q] = chain[q] \/ (q = p /\ (chain[q].on = "rec" => rec'[q].secure))
    BY <1>11, DeriveDoneRecords DEF DeriveDone, Types, TypeOK
  <2>3. Ready(q) => Ready(q)'
    BY <2>1, <2>2 DEF Ready
  <2> QED
    BY <1>1, <1>11, <2>3 DEF DeriveDone, KeyComesAt
<1>12. ASSUME NEW p \in Peer, Number(p)
       PROVE  KeyComesAt(q)'
  <2>1. rec'[q].secure = rec[q].secure
    BY <1>12, NumberRecords
  <2> QED
    BY <1>2, <1>12, <2>1 DEF Number
<1>13. ASSUME NEW p \in Peer, OpenDone(p)
       PROVE  KeyComesAt(q)'
  <2>1. rec'[q].secure = rec[q].secure
    BY <1>13, OpenDoneRecords
  <2>2. chain'[q] = chain[q] \/ chain[q].pc # "derive"
    BY <1>13 DEF OpenDone, Types, TypeOK
  <2> QED
    BY <1>2, <1>13, <2>1, <2>2 DEF OpenDone
<1>14. ASSUME NEW p \in Peer, NEW i \in Due(p), NEW h, Takes(p, i, h), q # p
       PROVE  KeyComesAt(q)'
  <2>1. inbox'[q] = inbox[q] /\ chain'[q] = chain[q]
    BY <1>14 DEF Takes, Types, TypeOK
  <2>2. Ready(q) => Ready(q)'
    BY <1>14, <2>1 DEF Takes, Ready
  <2> QED
    BY <1>1, <1>14, <2>1, <2>2 DEF Takes, KeyComesAt
<1>15. ASSUME NEW p \in Peer, NEW i \in Due(p), HandleKeyExchange(p, i)
       PROVE  KeyComesAt(q)'
  <2>1. CASE q = p
    <3>1. Ready(q)'
      BY <1>15, <2>1 DEF HandleKeyExchange, Takes, Ready, Types, TypeOK
    <3> QED
      BY <3>1 DEF KeyComesAt
  <2> QED
    BY <1>14, <1>15, <2>1 DEF HandleKeyExchange
<1>16. ASSUME NEW p \in Peer, NEW i \in Due(p), NEW h, Takes(p, i, h), q = p,
              inbox[p][i] # KeyExchange
       PROVE  KeyComesAt(q)'
  <2>1. /\ i = 1 /\ chain[q].pc = "free" /\ Shifted(q, 1)
        /\ Len(inbox'[q]) = Len(inbox[q]) - 1
    BY <1>0, <1>16, TakenInbox
  <2>2. Len(inbox'[q]) + 1 = Len(inbox[q])
    BY <1>0, <2>1
  <2>3. Ready(q) => Ready(q)'
    BY <1>16, <2>1 DEF Takes, Ready
  <2>4. UNCHANGED <<dc, announced, deleted>>
    BY <1>16 DEF Takes
  <2>5. CASE Other(q) \in announced /\ dc[q] \in {"none", "closed"}
    BY <1>0, <1>16, <2>1, <2>2, <2>3, <2>4, <2>5, KeyComesKept
  <2> QED
    BY <1>0, <1>16, <2>1, <2>2, <2>3, <2>4, <2>5, KeyComesKept
<1>17. ASSUME NEW p \in Peer, NEW i \in Due(p), HandleChat(p, i)
       PROVE  KeyComesAt(q)'
  BY <1>14, <1>16, <1>17 DEF HandleChat, Refuse
<1>18. ASSUME NEW p \in Peer, NEW call \in out[p], HandOver(p, call)
       PROVE  KeyComesAt(q)'
  <2>1. CASE dc[p] # "open"
    BY <1>2, <1>18, <2>1 DEF HandOver
  <2>2. CASE dc[p] = "open" /\ q = p
    <3>1. inbox'[q] = inbox[q]
      BY <1>18, <2>2, OtherIsPeer DEF HandOver, Sent, Types, TypeOK
    <3> QED
      BY <1>1, <1>18, <3>1 DEF HandOver, Ready, KeyComesAt
  <2>3. CASE dc[p] = "open" /\ q # p /\ dc[q] \in {"connecting", "open"}
    <3>1. Other(p) = q /\ Other(q) = p
      BY <2>3, OtherIsPeer
    <3>2. Envelope(p, call) \in Message
      BY EnvelopeType DEF Types, TypeOK
    <3>3. Added(q, Envelope(p, call))
      BY <1>0, <1>18, <2>3, <3>1, <3>2, SentInbox DEF HandOver
    <3>4. Envelope(p, call).kx => p \in announced
      BY DEF Envelope
    <3> QED
      BY <1>0, <1>18, <2>3, <3>1, <3>3, <3>4, KeyComesAdded DEF HandOver
  <2>4. CASE dc[p] = "open" /\ q # p /\ dc[q] \notin {"connecting", "open"}
    <3>1. inbox'[q] = inbox[q] /\ dc'[q] \in {"none", "closed"}
      BY <1>18, <2>4, OtherIsPeer DEF HandOver, Sent, Types, TypeOK
    <3> QED
      BY <1>1, <1>18, <3>1 DEF HandOver, Ready
  <2> QED
    BY <2>1, <2>2, <2>3, <2>4
<1>19. CASE UNCHANGED vars
  BY <1>2, <1>19 DEF vars
<1> QED
  BY <1>3, <1>4, <1>5, <1>6, <1>7, <1>9, <1>10, <1>11, <1>12, <1>13, <1>15, <1>17,
     <1>18, <1>19 DEF Next, MessageChain

-----------------------------------------------------------------------------
(* The refusals *)

\* The one refusal that a step adds
LEMMA NewRefusal ==
  ASSUME Types, NEW p \in Peer, NEW i \in Due(p), NEW why, Refuse(p, i, why),
         NEW q \in Peer, NEW r \in refused'[q], r \notin refused[q]
  PROVE  p = q /\ r.chat = inbox[p][i] /\ r.why = why /\ r.on = Owner(p)
<1>1. refused' = [refused EXCEPT
        ![p] = @ \cup {[chat |-> inbox[p][i], why |-> why, on |-> Owner(p)]}]
  BY DEF Refuse
<1>2. DOMAIN refused = Peer
  BY DEF Types, TypeOK
<1>3. p = q
  BY <1>1, <1>2
<1>4. r = [chat |-> inbox[p][i], why |-> why, on |-> Owner(p)]
  BY <1>1, <1>2, <1>3
<1> QED
  BY <1>3, <1>4

\* What was refused before keeps its reason.
LEMMA StillBefore ==
  ASSUME NEW p \in Peer, NEW chat, Grows(handed[p], handed'[p])
  PROVE  \A i \in Before(p, chat) :
           i \in Before(p, chat)' /\ handed'[p][i] = handed[p][i]
BY DEF Before, Grows

\* A message taken for a replay is not of the life of the message whose number
\* the record remembers, or has a smaller number.
LEMMA ReplayHasReason ==
  ASSUME Types, Numbered, InOrder, Noted, NEW p \in Peer, 1 \in DOMAIN inbox[p],
         inbox[p][1] # KeyExchange, Replayed(p, inbox[p][1])
  PROVE  \E i \in Before(Other(p), inbox[p][1]) :
           LET earlier == handed[Other(p)][i] IN
           \/ earlier.life = inbox[p][1].life /\ earlier.seq > inbox[p][1].seq
           \/ earlier.life < inbox[p][1].life
<1> DEFINE h == handed[Other(p)]
           chat == inbox[p][1]
<1>1. Other(p) \in Peer /\ InOrderAt(p) /\ NumberedAt(Other(p)) /\ NotedAt(p)
  BY OtherIsPeer DEF InOrder, Numbered, Noted
<1>2. PICK c \in DOMAIN h : h[c] = chat
  BY <1>1 DEF InOrderAt, OneOf
<1>3. /\ chat.seq \in Nat /\ chat.seq >= 1 /\ chat.life \in Nat
  BY <1>1, <1>2, ChatTypes DEF NumberedAt, NumberedChat
<1>4. Record(p).remoteSeq \in Nat /\ chat.seq <= Record(p).remoteSeq
  BY DEF Replayed, Record, Types, TypeOK, Crypto
<1>5. Record(p).remoteSeq # 0
  BY <1>3, <1>4
<1>6. PICK k \in DOMAIN shown[p] : shown[p][k].seq = Record(p).remoteSeq
  BY <1>1, <1>5 DEF NotedAt, Remembers, Record
<1>7. Precedes(h, shown[p][k], chat)
  BY <1>1 DEF InOrderAt
<1>8. PICK m, n \in DOMAIN h : m < n /\ h[m] = shown[p][k] /\ h[n] = chat
  BY <1>7 DEF Precedes
<1>9. h[m].life <= chat.life /\ (h[m].life = chat.life => h[m].seq # chat.seq)
  BY <1>1, <1>8 DEF NumberedAt, Distinct
<1>10. h[m].life \in Nat /\ h[m].seq \in Nat
  BY <1>1, ChatTypes DEF NumberedAt, NumberedChat
<1>11. \/ h[m].life = chat.life /\ h[m].seq > chat.seq
       \/ h[m].life < chat.life
  BY <1>3, <1>4, <1>6, <1>8, <1>9, <1>10
<1>12. m \in Before(Other(p), chat)
  BY <1>8 DEF Before
<1> QED
  BY <1>11, <1>12

LEMMA NextRefused ==
  ASSUME Types, Numbered, InOrder, Noted, RefusedForAReason, [Next]_vars
  PROVE  RefusedForAReason'
<1> SUFFICES ASSUME NEW q \in Peer, NEW r \in refused'[q], r.why = "replay"
             PROVE  \E i \in Before(Other(q), r.chat)' :
                      LET earlier == handed'[Other(q)][i] IN
                      \/ earlier.life = r.chat.life /\ earlier.seq > r.chat.seq
                      \/ earlier.life < r.chat.life
  BY DEF RefusedForAReason
<1> USE DEF sending, history
<1>0. Other(q) \in Peer /\ Grows(handed[Other(q)], handed'[Other(q)])
  BY OtherIsPeer, HandedGrows
<1>1. SUFFICES \E i \in Before(Other(q), r.chat) :
                 LET earlier == handed[Other(q)][i] IN
                 \/ earlier.life = r.chat.life /\ earlier.seq > r.chat.seq
                 \/ earlier.life < r.chat.life
  BY <1>0, StillBefore
<1>2. CASE r \in refused[q]
  BY <1>2 DEF RefusedForAReason
<1>3. CASE refused' = refused
  BY <1>2, <1>3
<1>4. ASSUME NEW p \in Peer, NEW i \in Due(p), HandleChat(p, i), r \notin refused[q]
      PROVE  /\ p = q /\ i = 1 /\ 1 \in DOMAIN inbox[p] /\ inbox[p][1] # KeyExchange
             /\ r.chat = inbox[p][1] /\ Replayed(p, inbox[p][1])
  <2>1. i = 1 /\ i \in DOMAIN inbox[p] /\ inbox[p][i] # KeyExchange
    BY <1>4 DEF Due, HandleChat
  <2>2. refused' # refused
    BY <1>4
  <2>3. \/ Refuse(p, i, "session")
        \/ Refuse(p, i, "replay") /\ Replayed(p, inbox[p][i])
    BY <1>4, <2>2 DEF HandleChat
  <2>4. p = q /\ r.chat = inbox[p][i]
    BY <1>4, <2>3, NewRefusal
  <2>5. Replayed(p, inbox[p][i])
    <3>1. CASE Refuse(p, i, "session")
      BY <1>4, <3>1, NewRefusal
    <3> QED
      BY <2>3, <3>1
  <2> QED
    BY <2>1, <2>4, <2>5
<1>5. ASSUME NEW p \in Peer, NEW i \in Due(p), HandleChat(p, i)
      PROVE  \E n \in Before(Other(q), r.chat) :
                 LET earlier == handed[Other(q)][n] IN
                 \/ earlier.life = r.chat.life /\ earlier.seq > r.chat.seq
                 \/ earlier.life < r.chat.life
  BY <1>2, <1>4, <1>5, ReplayHasReason
<1> QED
  BY <1>3, <1>5 DEF Next, MessageChain, Connect, Open, OnClose, Forget, ChainEnds,
     SendKeyExchange, HandleKeyExchange, DeriveDone, RespondDone, Number, HandOver,
     Takes, OpenDone, vars

LEMMA NextKeyExchangeFirst ==
  ASSUME Types, InOrder, KeyComes, KeyExchangeFirst, [Next]_vars
  PROVE  KeyExchangeFirst'
<1> SUFFICES ASSUME NEW q \in Peer, NEW r \in refused'[q], r.why = "session", r.chat.kx
             PROVE  r.on = "old"
  BY DEF KeyExchangeFirst
<1> USE DEF sending, history
<1>1. CASE r \in refused[q]
  BY <1>1 DEF KeyExchangeFirst
<1>2. CASE refused' = refused
  BY <1>1, <1>2
<1>3. ASSUME NEW p \in Peer, NEW i \in Due(p), HandleChat(p, i), r \notin refused[q]
      PROVE  r.on = "old"
  <2>1. i = 1 /\ i \in DOMAIN inbox[p] /\ inbox[p][i] # KeyExchange /\ chain[p].pc = "free"
    BY <1>3 DEF Due, HandleChat
  <2>2. \/ Refuse(p, i, "session") /\ ~ Record(p).secure
        \/ Refuse(p, i, "replay")
    BY <1>3 DEF HandleChat
  <2>3. /\ p = q /\ r.chat = inbox[p][i] /\ r.on = Owner(p)
        /\ ~ Record(p).secure
    BY <1>3, <2>2, NewRefusal
  <2>4. KeyComesAt(p)
    BY DEF KeyComes
  <2>5. ~ \E j \in DOMAIN inbox[p] : j < 1 /\ inbox[p][j] = KeyExchange
    BY DEF Types, TypeOK
  <2>6. p \in deleted \/ rec[p].secure
    BY <2>1, <2>3, <2>4, <2>5 DEF KeyComesAt, Ready
  <2> QED
    BY <2>3, <2>6 DEF Owner, Record
<1> QED
  BY <1>1, <1>2, <1>3 DEF Next, MessageChain, Connect, Open, OnClose, Forget, ChainEnds,
     SendKeyExchange, HandleKeyExchange, DeriveDone, RespondDone, Number, HandOver,
     Takes, OpenDone, vars

-----------------------------------------------------------------------------
(* The invariant *)

LEMMA InitInv == Init => Inv
<1> SUFFICES ASSUME Init PROVE Inv
  OBVIOUS
<1>1. Types
  BY InitTypes
<1>2. \A p \in Peer :
        /\ out[p] = {} /\ handed[p] = <<>> /\ inbox[p] = <<>> /\ shown[p] = <<>>
        /\ refused[p] = {} /\ chain[p].pc = "free"
        /\ rec[p].remoteSeq = 0 /\ old[p].remoteSeq = 0
  BY DEF Init, Free, createInitialCryptoState
<1>3. announced = {}
  BY DEF Init
<1>4. Numbered
  BY <1>2 DEF Numbered, NumberedAt
<1>5. InOrder
  BY <1>2 DEF InOrder, InOrderAt
<1>6. Noted
  BY <1>2 DEF Noted, NotedAt, Remembers
<1>7. KeyComes
  BY <1>2, <1>3 DEF KeyComes, KeyComesAt
<1>8. RefusedForAReason /\ KeyExchangeFirst
  BY <1>2 DEF RefusedForAReason, KeyExchangeFirst
<1> QED
  BY <1>1, <1>4, <1>5, <1>6, <1>7, <1>8 DEF Inv

LEMMA NextInv == Inv /\ [Next]_vars => Inv'
BY NextTypes, NextNumbered, NextInOrder, NextNoted, NextKeyComes, NextRefused,
   NextKeyExchangeFirst DEF Inv

LEMMA Invariance == Spec => []Inv
BY InitInv, NextInv, PTL DEF Spec

\* sendMessage.js: a message never gets a number above the count of messages its
\* user may type, in whatever order channels open and close and records are
\* deleted.
THEOREM TypeCorrect == Spec => []TypeOK
<1>1. Inv => TypeOK
  BY DEF Inv, Types
<1> QED
  BY <1>1, Invariance, PTL

\* keyExchange.js, dataChannel.js: a chat message that its page sent after its own
\* key exchange on that channel finds the session established, unless it belongs
\* to a record that was deleted.  Of other messages nothing is said.
THEOREM KeyExchangeGoesFirst == Spec => []KeyExchangeFirst
<1>1. Inv => KeyExchangeFirst
  BY DEF Inv
<1> QED
  BY <1>1, Invariance, PTL

\* receiveMessage.js: only an overtaken message, or one of a sender that numbers
\* from the beginning again, is taken for a replay.
THEOREM RefusalsHaveReasons == Spec => []RefusedForAReason
<1>1. Inv => RefusedForAReason
  BY DEF Inv
<1> QED
  BY <1>1, Invariance, PTL

-----------------------------------------------------------------------------
(* The refinement *)

\* A message is handed over under a name of its own.
LEMMA HandOverDelivers ==
  ASSUME Inv, NEW p \in Peer, NEW call \in out[p], HandOver(p, call)
  PROVE  Delivery!Next \/ UNCHANGED Delivery!vars
<1>1. CASE dc[p] # "open"
  BY <1>1 DEF HandOver, history, Delivery!vars
<1>2. CASE dc[p] = "open"
  <2>1. Envelope(p, call) \in Chat /\ FreshCall(p, call)
    BY EnvelopeType DEF Inv, Types, TypeOK, Numbered, NumberedAt
  <2>2. \A i \in DOMAIN handed[p] : handed[p][i] # Envelope(p, call)
    BY <2>1 DEF FreshCall, Envelope
  <2>3. Delivery!Hand(p, Envelope(p, call))
    BY <1>2, <2>2 DEF HandOver, history, Delivery!Hand
  <2> QED
    BY <2>1, <2>3 DEF Delivery!Next
<1> QED
  BY <1>1, <1>2

\* A message that was decrypted comes after all that are shown.
LEMMA OpenDoneDelivers ==
  ASSUME Inv, NEW p \in Peer, OpenDone(p)
  PROVE  Delivery!Next
<1> DEFINE h == handed[Other(p)]
<1>1. Other(p) \in Peer /\ InOrderAt(p) /\ NumberedAt(Other(p)) /\ chain[p].pc = "open"
  BY OtherIsPeer DEF Inv, InOrder, Numbered, OpenDone
<1>2. h \in Seq(Chat)
  BY <1>1 DEF Inv, Types, TypeOK
<1>3. PICK i \in DOMAIN h : h[i] = chain[p].chat
  BY <1>1 DEF InOrderAt, OneOf
<1>4. ASSUME NEW m \in DOMAIN h, NEW n \in DOMAIN h, h[m] = h[n]
      PROVE  m = n
  <2>1. m < n \/ n < m \/ m = n
    BY <1>2
  <2> QED
    BY <1>1, <1>4, <2>1 DEF NumberedAt, Distinct
<1>5. ASSUME NEW j \in i .. Len(h), NEW k \in DOMAIN shown[p]
      PROVE  shown[p][k] # h[j]
  <2>1. PICK m, n \in DOMAIN h : m < n /\ h[m] = shown[p][k] /\ h[n] = chain[p].chat
    BY <1>1 DEF InOrderAt, Precedes
  <2>2. n = i /\ j \in DOMAIN h /\ m < j
    BY <1>2, <1>3, <1>4, <2>1
  <2> QED
    BY <1>4, <2>1, <2>2
<1>6. i \in Delivery!Later(p)
  BY <1>2, <1>5 DEF Delivery!Later
<1>7. Delivery!Show(p, i)
  BY <1>3, <1>6 DEF Delivery!Show, OpenDone, sending
<1> QED
  BY <1>3, <1>7 DEF Delivery!Next

LEMMA StepDelivers ==
  ASSUME Inv, [Next]_vars
  PROVE  [Delivery!Next]_Delivery!vars
<1>1. CASE UNCHANGED <<handed, shown>>
  BY <1>1 DEF Delivery!vars
<1> QED
  BY <1>1, HandOverDelivers, OpenDoneDelivers DEF Next, MessageChain, Connect, Open,
     OnClose, Forget, ChainEnds, SendKeyExchange, HandleKeyExchange, DeriveDone,
     RespondDone, Number, HandleChat, Refuse, Takes, vars, sending, history

\* The session implements ChatDelivery: over all channels, with numbers that
\* restart and messages that get lost, a chat message is shown at most once and
\* in the order in which the other page handed the messages over.
THEOREM Implements == Spec => DeliversInOrder
<1>1. Init => Delivery!Init
  BY DEF Init, Delivery!Init
<1>2. Inv /\ [Next]_vars => [Delivery!Next]_Delivery!vars
  BY StepDelivers
<1> QED
  BY <1>1, <1>2, Invariance, PTL DEF Spec, DeliversInOrder, Delivery!Spec
=============================================================================
