---------------------------- MODULE Negotiation ----------------------------
(***************************************************************************)
(* How two pages come to a WebRTC connection: the click on a peer (app.js),*)
(* webrtc/peerConnection.js, the offers, answers and candidates of         *)
(* signaling/signaling.js and their relay by server/server.js.             *)
(*                                                                         *)
(* Each page keeps a record of the other one, which names ONE connection   *)
(* and ONE data channel.  A click and an offer each create a connection    *)
(* and put it into the record.  The connection that was there before is    *)
(* not closed: its code goes on, and its events still change the record.   *)
(* An answer or a candidate is applied to the connection the record names  *)
(* when it arrives, whichever one it is meant for.                         *)
(*                                                                         *)
(* A step is a stretch of code that runs without awaiting.                 *)
(***************************************************************************)
EXTENDS Naturals, Sequences

CONSTANTS
  Peer,           \* the two pages
  MaxConnections, \* how many connections they make
  MaxDrops,       \* how often a page loses the signaling server
  MaxBreaks       \* how often two matching connections fail all the same

ASSUME PeerAssumption == \E p, q \in Peer : p # q /\ Peer = {p, q}
ASSUME BoundsAssumption ==
  MaxConnections \in Nat /\ MaxDrops \in Nat /\ MaxBreaks \in Nat

Other(p) == CHOOSE q \in Peer : q # p

VARIABLES
  pcs,         \* the connections, in the order they were created
  connection,  \* connection[p]: the connection in the record of p, or 0
  dataChannel, \* dataChannel[p]: the connection of the channel there, or 0
  networkState,\* networkState[p]: what the record says of the connection
  pending,     \* pending[p]: queued candidates, named by their connection
  discovered,  \* the pages that list the other one
  cleaning,    \* the pages whose cleanupPeer awaits the reset of a transfer
  online,      \* the pages whose socket the signaling server serves
  noticed,     \* the pages that are offline and reported to have left
  mail,        \* mail[p]: messages from the server under way to p
  lost,        \* was an offer or an answer lost, or not answered?
  drops,
  breaks

record == <<connection, dataChannel, networkState>>
server == <<online, noticed, drops>>
vars == <<pcs, connection, dataChannel, networkState, pending, discovered,
          cleaning, online, noticed, mail, lost, drops, breaks>>

-----------------------------------------------------------------------------
Id == 1 .. MaxConnections
IdOrNone == 0 .. MaxConnections

\* A connection that offers has a channel of its own, one that answers gets the
\* channel of the other.  remote: the connection whose description it was given.
Connection ==
  [owner : Peer,
   role : {"offer", "answer"},
   task : {"create", "apply", "none"},  \* what its handler awaits
   signaling : {"stable", "have-local-offer", "have-remote-offer", "closed"},
   remote : IdOrNone,
   gathered : BOOLEAN,    \* was a candidate sent?
   state : {"new", "connected", "failed"},
   shut : BOOLEAN]        \* is its end of the channel closed?

Message ==
  [type : {"offer", "answer", "candidate"}, from : Id]
    \cup [type : {"peer-left", "peer-joined"}]

TypeOK ==
  /\ pcs \in Seq(Connection)
  /\ Len(pcs) <= MaxConnections
  /\ connection \in [Peer -> IdOrNone]
  /\ dataChannel \in [Peer -> IdOrNone]
  /\ networkState \in
       [Peer -> {"discovered", "connecting", "connected", "failed"}]
  /\ pending \in [Peer -> SUBSET Id]
  /\ discovered \in SUBSET Peer
  /\ cleaning \in SUBSET Peer
  /\ online \in SUBSET Peer
  /\ noticed \in SUBSET Peer
  /\ mail \in [Peer -> Seq(Message)]
  /\ lost \in BOOLEAN
  /\ drops \in 0 .. MaxDrops
  /\ breaks \in 0 .. MaxBreaks

Init ==
  /\ pcs = <<>>
  /\ connection = [p \in Peer |-> 0]
  /\ dataChannel = [p \in Peer |-> 0]
  /\ networkState = [p \in Peer |-> "discovered"]
  /\ pending = [p \in Peer |-> {}]
  /\ discovered = Peer
  /\ cleaning = {}
  /\ online = Peer
  /\ noticed = {}
  /\ mail = [p \in Peer |-> <<>>]
  /\ lost = FALSE
  /\ drops = 0
  /\ breaks = 0

Closed(i) == pcs[i].signaling = "closed"

\* Does connection i have a remote description?
Described(i) == pcs[i].remote # 0 /\ pcs[i].task # "apply"

\* Both descriptions of i are set.
Negotiated(i) == pcs[i].signaling = "stable" /\ pcs[i].task = "none"

-----------------------------------------------------------------------------
(* Signaling *)

\* sendSignaling and the relay of the server: nothing is sent or relayed unless
\* both pages are online.
Relay(p, m) ==
  /\ mail' = IF online = Peer THEN [mail EXCEPT ![Other(p)] = Append(@, m)] ELSE mail
  /\ lost' = (lost \/ (online # Peer /\ m.type # "candidate"))

\* p loses its socket, and what was under way to it (one page at a time).
Drop(p) ==
  /\ drops < MaxDrops
  /\ online = Peer
  /\ drops' = drops + 1
  /\ online' = online \ {p}
  /\ mail' = [mail EXCEPT ![p] = <<>>]
  /\ lost' = (lost \/ \E k \in DOMAIN mail[p] : mail[p][k].type \in {"offer", "answer"})
  /\ UNCHANGED <<pcs, record, pending, discovered, cleaning, noticed, breaks>>

\* The server notices, and tells the other page.
Notice(p) ==
  /\ p \notin online \cup noticed
  /\ Other(p) \in online
  /\ noticed' = noticed \cup {p}
  /\ mail' = [mail EXCEPT ![Other(p)] = Append(@, [type |-> "peer-left"])]
  /\ UNCHANGED <<pcs, record, pending, discovered, cleaning, online, lost, drops,
                 breaks>>

\* p connects again and registers, if need be in place of its old socket.  It gets
\* a list with the other page, which hears that p joined; to both it is the same.
Rejoin(p) ==
  /\ p \notin online
  /\ Other(p) \in online
  /\ online' = online \cup {p}
  /\ noticed' = noticed \ {p}
  /\ mail' = [q \in Peer |-> Append(mail[q], [type |-> "peer-joined"])]
  /\ UNCHANGED <<pcs, record, pending, discovered, cleaning, lost, drops, breaks>>

\* The next message of p is of the type.
Receives(p, type) ==
  /\ mail[p] # <<>>
  /\ Head(mail[p]).type = type

Taken(p) == [mail EXCEPT ![p] = Tail(@)]

-----------------------------------------------------------------------------
(* Offering *)

New(p, role, remote) ==
  [owner |-> p, role |-> role, task |-> IF role = "offer" THEN "create" ELSE "apply",
   signaling |-> "stable", remote |-> remote, gathered |-> FALSE, state |-> "new",
   shut |-> FALSE]

\* Mutant of createPeerConnection: a record that names a connection keeps it.
KeepsConnection(p, role, remote) ==
  /\ Len(pcs) < MaxConnections
  /\ pcs' = Append(pcs, New(p, role, remote))
  /\ connection' = IF connection[p] = 0 THEN [connection EXCEPT ![p] = Len(pcs) + 1]
                                        ELSE connection
  /\ networkState' = [networkState EXCEPT ![p] = "connecting"]

createPeerConnection(p, role, remote) ==
  /\ Len(pcs) < MaxConnections
  /\ pcs' = Append(pcs, New(p, role, remote))
  /\ connection' = [connection EXCEPT ![p] = Len(pcs) + 1]
  /\ networkState' = [networkState EXCEPT ![p] = "connecting"]

\* Mutant of MayConnect: only the first click connects.
OnlyOnce(p) == connection[p] = 0

\* handlePeerClick connects if there is no connection or it is of no use.
MayConnect(p) == connection[p] # 0 => pcs[connection[p]].state = "failed"

Clickable(p) == p \in discovered /\ MayConnect(p)

\* connectToPeer up to its first await
Click(p) ==
  /\ Clickable(p)
  /\ createPeerConnection(p, "offer", 0)
  /\ dataChannel' = [dataChannel EXCEPT ![p] = Len(pcs) + 1]
  /\ UNCHANGED <<pending, discovered, cleaning, server, mail, lost, breaks>>

\* The local description is set and the offer sent, even if another connection
\* has taken the place in the record.  A closed connection throws.
SendOffer(i) ==
  /\ pcs[i].role = "offer"
  /\ pcs[i].task = "create"
  /\ IF Closed(i)
     THEN pcs' = [pcs EXCEPT ![i].task = "none"] /\ UNCHANGED <<mail, lost>>
     ELSE /\ pcs' = [pcs EXCEPT ![i].task = "none", ![i].signaling = "have-local-offer"]
          /\ Relay(pcs[i].owner, [type |-> "offer", from |-> i])
  /\ UNCHANGED <<record, pending, discovered, cleaning, server, breaks>>

-----------------------------------------------------------------------------
(* Answering *)

HandleOffer(p) ==
  /\ Receives(p, "offer")
  /\ createPeerConnection(p, "answer", Head(mail[p]).from)
  /\ mail' = Taken(p)
  /\ UNCHANGED <<dataChannel, pending, discovered, cleaning, server, lost, breaks>>

\* flushQueuedIceCandidates: the candidates go to the connection the record names
\* now, if it has a remote description (d: the connections that have one then).
\* One that is not of its remote connection may be rejected, and then the flush
\* throws.
Flush(p, remote, described, throws) ==
  /\ throws => described /\ pending[p] \ {remote} # {}
  /\ pending' = IF described THEN [pending EXCEPT ![p] = {}] ELSE pending

\* The offer is applied and the queued candidates flushed.  If that throws, the
\* offer is not answered.
ApplyOffer(i, throws) ==
  LET p == pcs[i].owner
      c == connection[p]
      aborts == Closed(i) \/ throws
  IN
  /\ pcs[i].task = "apply"
  /\ IF Closed(i)
     THEN ~ throws /\ UNCHANGED pending
     ELSE Flush(p, IF c = 0 THEN 0 ELSE pcs[c].remote,
                c # 0 /\ (c = i \/ Described(c)), throws)
  /\ pcs' = [pcs EXCEPT
       ![i].task = IF aborts THEN "none" ELSE "create",
       ![i].signaling = IF Closed(i) THEN @ ELSE "have-remote-offer"]
  /\ lost' = (lost \/ aborts)
  /\ UNCHANGED <<record, discovered, cleaning, server, mail, breaks>>

SendAnswer(i) ==
  /\ pcs[i].role = "answer"
  /\ pcs[i].task = "create"
  /\ IF Closed(i)
     THEN /\ pcs' = [pcs EXCEPT ![i].task = "none"]
          /\ lost' = TRUE
          /\ UNCHANGED mail
     ELSE /\ pcs' = [pcs EXCEPT ![i].task = "none", ![i].signaling = "stable"]
          /\ Relay(pcs[i].owner, [type |-> "answer", from |-> i])
  /\ UNCHANGED <<record, pending, discovered, cleaning, server, breaks>>

\* Mutant of Awaits: an answer is applied to any connection.
AnyState(c) == c # 0 /\ ~ Closed(c)

\* setRemoteDescription of an answer throws unless the connection has offered.
Awaits(c) == c # 0 /\ pcs[c].signaling = "have-local-offer"

\* The answer is applied to the connection in the record, and the candidates
\* flushed; nothing is done after the flush that a throw could keep from it.
HandleAnswer(p) ==
  LET c == connection[p]
      from == Head(mail[p]).from
  IN
  /\ Receives(p, "answer")
  /\ IF Awaits(c)
     THEN /\ pcs' = [pcs EXCEPT ![c].remote = from, ![c].signaling = "stable"]
          /\ Flush(p, from, TRUE, FALSE)
     ELSE UNCHANGED <<pcs, pending>>
  /\ mail' = Taken(p)
  /\ UNCHANGED <<record, discovered, cleaning, server, lost, breaks>>

-----------------------------------------------------------------------------
(* Candidates *)

\* A candidate of i, which is gathered once i has its local description
Gather(i) ==
  /\ ~ pcs[i].gathered
  /\ pcs[i].signaling = "have-local-offer" \/ Negotiated(i)
  /\ pcs' = [pcs EXCEPT ![i].gathered = TRUE]
  /\ Relay(pcs[i].owner, [type |-> "candidate", from |-> i])
  /\ UNCHANGED <<record, pending, discovered, cleaning, server, breaks>>

\* addOrQueueIceCandidate: a candidate that is added changes nothing here.
HandleCandidate(p) ==
  LET c == connection[p] IN
  /\ Receives(p, "candidate")
  /\ pending' = IF c = 0 \/ ~ Described(c)
                THEN [pending EXCEPT ![p] = @ \cup {Head(mail[p]).from}]
                ELSE pending
  /\ mail' = Taken(p)
  /\ UNCHANGED <<pcs, record, discovered, cleaning, server, lost, breaks>>

-----------------------------------------------------------------------------
(* The connections *)

\* i and its remote connection have each other's description.
Matched(i) ==
  LET j == pcs[i].remote IN
  Negotiated(i) /\ Negotiated(j) /\ pcs[j].remote = i

Works(i) == Matched(i) /\ pcs[pcs[i].remote].state # "failed"

\* Mutant of Adopted: a record that has a channel keeps it.
KeptFirst(i) ==
  IF pcs[i].role = "answer" /\ dataChannel[pcs[i].owner] = 0
  THEN [dataChannel EXCEPT ![pcs[i].owner] = i]
  ELSE dataChannel

\* ondatachannel: one that answers hands over the channel of the other.
Adopted(i) ==
  IF pcs[i].role = "answer" THEN [dataChannel EXCEPT ![pcs[i].owner] = i]
                            ELSE dataChannel

\* Mutant of Noted: the record is given the state of the signaling.
SignalingNoted(i, state) == [networkState EXCEPT ![pcs[i].owner] = pcs[i].signaling]

\* The events of a connection change the record, whichever connection it names.
Noted(i, state) == [networkState EXCEPT ![pcs[i].owner] = state]

Connected(i) ==
  /\ pcs[i].state = "new"
  /\ Negotiated(i)
  /\ Works(i)
  /\ pcs' = [pcs EXCEPT ![i].state = "connected"]
  /\ networkState' = Noted(i, "connected")
  /\ dataChannel' = Adopted(i)
  /\ UNCHANGED <<connection, pending, discovered, cleaning, server, mail, lost, breaks>>

\* A connection gives up after tens of seconds, by which time the messages and
\* handlers under way have come to their end.
Settled ==
  /\ \A p \in Peer : mail[p] = <<>>
  /\ cleaning = {}
  /\ \A i \in DOMAIN pcs : pcs[i].task = "none"

Failed(i) ==
  /\ Settled
  /\ pcs[i].state # "failed"
  /\ Negotiated(i)
  /\ IF Works(i) THEN breaks < MaxBreaks /\ breaks' = breaks + 1 ELSE UNCHANGED breaks
  /\ pcs' = [pcs EXCEPT ![i].state = "failed"]
  /\ networkState' = Noted(i, "failed")
  /\ UNCHANGED <<connection, dataChannel, pending, discovered, cleaning, server,
                 mail, lost>>

-----------------------------------------------------------------------------
(* The other page leaves *)

\* The channel and the connection the record names are closed and the record is
\* deleted.
CloseAndDelete(p) ==
  /\ pcs' = [i \in DOMAIN pcs |->
       [pcs[i] EXCEPT !.signaling = IF i = connection[p] THEN "closed" ELSE @,
                      !.shut = @ \/ i = dataChannel[p]]]
  /\ connection' = [connection EXCEPT ![p] = 0]
  /\ dataChannel' = [dataChannel EXCEPT ![p] = 0]
  /\ networkState' = [networkState EXCEPT ![p] = "discovered"]
  /\ pending' = [pending EXCEPT ![p] = {}]

\* cleanupPeer: with a transfer going on it awaits its reset first.
HandlePeerLeft(p) ==
  /\ Receives(p, "peer-left")
  /\ mail' = Taken(p)
  /\ discovered' = discovered \ {p}
  /\ \/ CloseAndDelete(p) /\ UNCHANGED cleaning
     \/ /\ dataChannel[p] # 0
        /\ cleaning' = cleaning \cup {p}
        /\ UNCHANGED <<pcs, record, pending>>
  /\ UNCHANGED <<server, lost, breaks>>

\* What it closes then may be a connection made in the meantime.
FinishCleanup(p) ==
  /\ p \in cleaning
  /\ cleaning' = cleaning \ {p}
  /\ CloseAndDelete(p)
  /\ UNCHANGED <<discovered, server, mail, lost, breaks>>

HandlePeerJoined(p) ==
  /\ Receives(p, "peer-joined")
  /\ mail' = Taken(p)
  /\ discovered' = discovered \cup {p}
  /\ UNCHANGED <<pcs, record, pending, cleaning, server, lost, breaks>>

-----------------------------------------------------------------------------
Next ==
  \/ \E p \in Peer :
       \/ Drop(p)
       \/ Notice(p)
       \/ Rejoin(p)
       \/ Click(p)
       \/ HandleOffer(p)
       \/ HandleAnswer(p)
       \/ HandleCandidate(p)
       \/ HandlePeerLeft(p)
       \/ FinishCleanup(p)
       \/ HandlePeerJoined(p)
  \/ \E i \in DOMAIN pcs :
       \/ SendOffer(i)
       \/ \E throws \in BOOLEAN : ApplyOffer(i, throws)
       \/ SendAnswer(i)
       \/ Gather(i)
       \/ Connected(i)
       \/ Failed(i)

Spec == Init /\ [][Next]_vars

-----------------------------------------------------------------------------
(* Properties *)

\* Both pages are online, nothing is under way, and every connection that can
\* come up is up, every other one has failed.
AtRest ==
  /\ online = Peer
  /\ Settled
  /\ \A i \in DOMAIN pcs :
       Negotiated(i) => pcs[i].state = IF Works(i) THEN "connected" ELSE "failed"

\* The channel in the record of p is open at both ends.
HasChannel(p) ==
  LET c == dataChannel[p] IN
  /\ c # 0
  /\ Works(c)
  /\ pcs[c].state = "connected"
  /\ ~ pcs[c].shut /\ ~ pcs[pcs[c].remote].shut

\* A page has made a further offer without having closed the connection that it
\* offered before.
OfferedAgain ==
  \E i, k \in DOMAIN pcs :
    /\ i < k
    /\ pcs[i].owner = pcs[k].owner
    /\ pcs[i].role = "offer" /\ pcs[k].role = "offer"
    /\ ~ Closed(i)

\* peerConnection.js:54,73: however the offers of the two pages crossed, a page whose
\* record names a connection that works has an open channel, unless the other page has
\* closed its end; and if a page has one, the record of the other names its other end.
\* (That a connection works is not promised: two offers that cross may both fail.  After
\* a retry an old channel may be open besides the new one.)
ChannelsPair ==
  AtRest /\ ~ OfferedAgain => \A p \in Peer :
    LET c == connection[p] IN
    /\ c # 0 /\ Works(c) => HasChannel(p) \/ pcs[pcs[c].remote].shut
    /\ HasChannel(p) => dataChannel[Other(p)] = pcs[dataChannel[p]].remote

\* The record of p names a connection that works, and the channel of another one,
\* which came up after it.
Overtaken(p) ==
  LET c == connection[p] IN
  c # 0 /\ Works(c) /\ dataChannel[p] # c

\* signaling.js:86: unless an offer or an answer was lost, both pages have the
\* channel or one of them can make a new one by a click, even if their offers
\* crossed, or one of them cleaned up what the other was connecting to; or else
\* an old connection came up so late that it took the place of a new one.
Recoverable ==
  AtRest /\ ~ lost =>
    \/ \A p \in Peer : HasChannel(p)
    \/ \E p \in Peer : Clickable(p)
    \/ \E p \in Peer : Overtaken(p)

\* app.js:30: unless an offer or an answer was lost, a click that does nothing is
\* on a page whose record names a connection that works: no page is left with one
\* that waits for an answer, or for a remote that has dropped it, and never fails.
NoneStuck ==
  AtRest /\ ~ lost => \A p \in Peer : MayConnect(p) \/ Works(connection[p])

\* state.js:84, peerConnection.js:78: each page has one record of the other.  If the
\* connections that the two records name both work, they are the two ends of one,
\* at any time: however offers cross, answers come late to another connection than
\* the one that offered, or a page cleans up and connects again.
RecordsMeet ==
  \A p \in Peer :
    LET c == connection[p]
        d == connection[Other(p)]
    IN
    c # 0 /\ d # 0 /\ Works(c) /\ Works(d) => pcs[c].remote = d

\* signaling.js:96: as long as nobody left, the answer that is applied to a
\* connection is the answer to its offer, although it is applied to the connection
\* the record names by then, and a connection that answers stays with the offer.
AnswerMeetsItsOffer ==
  drops = 0 => \A i \in DOMAIN pcs :
    LET j == pcs[i].remote IN
    j # 0 => /\ pcs[i].role # pcs[j].role
             /\ pcs[i].role = "offer" => pcs[j].remote = i
=============================================================================
