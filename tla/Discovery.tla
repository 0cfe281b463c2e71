------------------------------ MODULE Discovery ------------------------------
(***************************************************************************)
(* Who sees whom: the browsers' signaling client (signaling/signaling.js)  *)
(* with its list of discovered peers, composed with the Node server.       *)
(*                                                                         *)
(* A page has one socket at a time, reconnects when it is closed, and      *)
(* registers and asks for the list of peers whenever one opens.  The data  *)
(* channels of a page outlive its sockets; how they are negotiated is not  *)
(* modelled, only that they open and close, since the list of peers        *)
(* depends on them.  A page generates its identity when it is loaded, so   *)
(* that a reloaded page is another peer.                                   *)
(***************************************************************************)
EXTENDS SignalServer

CONSTANT MAX_PEERS  \* CONFIG.MAX_PEERS, the length a list of peers is cut to

ASSUME MaxPeersAssumption == MAX_PEERS \in Nat

VARIABLES
  page,        \* page[p]: TRUE as long as the page of p is open
  socket,      \* socket[p]: the socket of the page
  discovered,  \* discovered[p]: discoveredPeers
  channel,     \* channel[p][q]: readyState of the data channel of p to q
  met,         \* met[p]: the peers p ever had an open channel to (history)
  cleaning     \* cleaning[p][q]: cleanupPeer awaits the reset of a transfer

clientVars == <<page, socket, discovered, channel, met, cleaning>>
vars == <<serverVars, clientVars>>

TypeOK ==
  /\ ServerTypeOK
  /\ page \in [Peer -> BOOLEAN]
  /\ socket \in [Peer -> Socket \cup {NoSocket}]
  /\ discovered \in [Peer -> SUBSET Peer]
  /\ channel \in [Peer -> [Peer -> {"none", "connecting", "open", "closed"}]]
  /\ met \in [Peer -> SUBSET Peer]
  /\ cleaning \in [Peer -> [Peer -> BOOLEAN]]

NoChannels == [q \in Peer |-> "none"]
NotCleaning == [q \in Peer |-> FALSE]

Init ==
  /\ ServerInit
  /\ page = [p \in Peer |-> TRUE]
  /\ socket = [p \in Peer |-> NoSocket]
  /\ discovered = [p \in Peer |-> {}]
  /\ channel = [p \in Peer |-> NoChannels]
  /\ met = [p \in Peer |-> {}]
  /\ cleaning = [p \in Peer |-> NotCleaning]

-----------------------------------------------------------------------------
\* What a page sends when its socket opens
Hello(p) == <<Register(p), Discover>>

\* The first connection, or the timer of scheduleReconnect: it is pending as
\* long as the page has no socket.
Connect(p, s) ==
  /\ page[p] /\ socket[p] = NoSocket
  /\ readyState[s] = "new"
  /\ socket' = [socket EXCEPT ![p] = s]
  /\ readyState' = [readyState EXCEPT ![s] = "open"]
  /\ up' = [up EXCEPT ![s] = Hello(p)]
  /\ UNCHANGED <<registry, peerId, faults, lost, down, page, discovered, channel, met, cleaning>>

\* Mutant of Reconciled: the snapshot is taken as it is.
SnapshotOnly(p, snapshot) == snapshot

\* The peers of the snapshot are added, and those that are neither in it nor
\* connected are removed.
Reconciled(p, snapshot) ==
  snapshot \cup {q \in discovered[p] : channel[p][q] = "open"}

\* The list is cut to its first MAX_PEERS entries, whichever these are.
ReceiveList(p, m) ==
  /\ m.type = "peer-list"
  /\ \E snapshot \in kSubset(Min({MAX_PEERS, Cardinality(m.peers)}), m.peers) :
       discovered' = [discovered EXCEPT ![p] = Reconciled(p, snapshot \ {p})]
  /\ UNCHANGED <<channel, cleaning>>

ReceiveJoined(p, m) ==
  /\ m.type = "peer-joined"
  /\ discovered' = [discovered EXCEPT ![p] = @ \cup (m.peers \ {p})]
  /\ UNCHANGED <<channel, cleaning>>

\* cleanupPeer: the peer leaves the list at once, its record and data channel
\* go once a running transfer has been reset.
ReceiveLeft(p, m) ==
  \E q \in Peer :
    /\ m = PeerLeft(q)
    /\ discovered' = [discovered EXCEPT ![p] = @ \ {q}]
    /\ \/ /\ channel' = [channel EXCEPT ![p][q] = "none"]
          /\ UNCHANGED cleaning
       \/ /\ channel[p][q] = "open"
          /\ cleaning' = [cleaning EXCEPT ![p][q] = TRUE]
          /\ UNCHANGED channel

Receive(p) ==
  LET s == socket[p] IN
  /\ s # NoSocket
  /\ down[s] # <<>>
  /\ \/ ReceiveList(p, Head(down[s]))
     \/ ReceiveJoined(p, Head(down[s]))
     \/ ReceiveLeft(p, Head(down[s]))
  /\ down' = [down EXCEPT ![s] = Tail(@)]
  /\ UNCHANGED <<registry, peerId, readyState, faults, lost, up, page, socket, met>>

\* The end of the socket s of a page: what was to be received is gone, and the
\* server is told unless the network is broken.
Closed(p, s) ==
  /\ socket' = [socket EXCEPT ![p] = NoSocket]
  /\ down' = [down EXCEPT ![s] = <<>>]
  /\ up' = IF lost[s] THEN up ELSE [up EXCEPT ![s] = Append(@, Close)]
  /\ UNCHANGED <<registry, peerId, readyState, lost>>

\* socket.onclose: the server closed the socket, or the network is broken.
OnClose(p) ==
  LET s == socket[p] IN
  /\ s # NoSocket
  /\ lost[s] \/ (down[s] # <<>> /\ Head(down[s]).type = "close")
  /\ Closed(p, s)
  /\ UNCHANGED <<faults, page, discovered, channel, met, cleaning>>

\* The user closes the page.
ClosePage(p) ==
  /\ Fault
  /\ page[p]
  /\ page' = [page EXCEPT ![p] = FALSE]
  /\ discovered' = [discovered EXCEPT ![p] = {}]
  /\ channel' = [channel EXCEPT ![p] = NoChannels]
  /\ met' = [met EXCEPT ![p] = {}]
  /\ cleaning' = [cleaning EXCEPT ![p] = NotCleaning]
  /\ IF socket[p] = NoSocket
     THEN UNCHANGED <<registry, peerId, readyState, lost, up, down, socket>>
     ELSE Closed(p, socket[p])

-----------------------------------------------------------------------------
\* markPeerConnected
Listed(p, q) == discovered[p] \cup {q}

\* The user of p selects q; offer and answer, which the server relays, give
\* each page a new connection and a new data channel.
Negotiate(p, q) ==
  /\ p # q
  /\ page[p] /\ page[q]
  /\ q \in discovered[p] /\ channel[p][q] # "open"
  /\ {p, q} \subseteq Registered
  /\ channel' = [channel EXCEPT ![p][q] = "connecting", ![q][p] = "connecting"]
  /\ UNCHANGED <<serverVars, page, socket, discovered, met, cleaning>>

\* Each end opens in its own time.
OpenChannel(p, q) ==
  /\ channel[p][q] = "connecting"
  /\ channel' = [channel EXCEPT ![p][q] = "open"]
  /\ discovered' = [discovered EXCEPT ![p] = Listed(p, q)]
  /\ met' = [met EXCEPT ![p] = @ \cup {q}]
  /\ UNCHANGED <<serverVars, page, socket, cleaning>>

\* The other end has gone, or the connection between the pages has failed.
LoseChannel(p, q) ==
  /\ channel[p][q] = "open"
  /\ channel' = [channel EXCEPT ![p][q] = "closed"]
  /\ UNCHANGED <<serverVars, page, socket, discovered, met, cleaning>>

\* cleanupPeer after its await: whatever record of q there is now is deleted.
FinishCleanup(p, q) ==
  /\ cleaning[p][q]
  /\ cleaning' = [cleaning EXCEPT ![p][q] = FALSE]
  /\ channel' = [channel EXCEPT ![p][q] = "none"]
  /\ UNCHANGED <<serverVars, page, socket, discovered, met>>

Client(p) ==
  \/ \E s \in Socket : Connect(p, s)
  \/ Receive(p)
  \/ OnClose(p)
  \/ ClosePage(p)
  \/ \E q \in Peer : \/ Negotiate(p, q) \/ OpenChannel(p, q)
                   \/ LoseChannel(p, q) \/ FinishCleanup(p, q)

Next ==
  \/ Server /\ UNCHANGED clientVars
  \/ \E p \in Peer : Client(p)

Spec == Init /\ [][Next]_vars

-----------------------------------------------------------------------------
\* A peer is registered on one socket, which is alive and knows the peer as its
\* own, and no other living socket does: from = ws.peerId (server.js:153) names
\* one sender, and the close of a replaced socket removes nobody.
OneSocketPerPeer ==
  \A p \in Peer, s \in Socket :
    registry[p] = s <=> peerId[s] = p /\ readyState[s] \in {"open", "closing"}

\* "A delayed snapshot must not hide an already-open DataChannel"
\* (signaling.js:66), nor may any other message: who is connected is listed,
\* unless a cleanup is about to close the channel.
ConnectedIsListed ==
  \A p, q \in Peer :
    channel[p][q] = "open" => q \in discovered[p] \/ cleaning[p][q]

\* Everything sent has been handled, and every broken connection was noticed.
AtRest ==
  /\ \A s \in Socket :
       /\ readyState[s] \in {"new", "open", "closed"}
       /\ readyState[s] = "open" => ~lost[s] /\ up[s] = <<>> /\ down[s] = <<>>
  /\ \A p \in Peer : socket[p] # NoSocket => readyState[socket[p]] = "open"

\* At rest the registry names the socket each page has now, and no other: a page
\* that was closed is gone from it, and one that reconnected before the server
\* noticed is not removed with its older socket.  This although the register
\* message of the older socket may be handled last.
RegistryIsCurrent == AtRest => registry = socket

\* At rest, and as long as the list is not cut, a page that is online lists
\* every registered peer, and of the others only those it had a data channel
\* with: whatever snapshots, joins, leaves, replaced sockets, reconnections and
\* restarts of the server came before.
ViewsConverge ==
  AtRest /\ Cardinality(Peer) <= MAX_PEERS + 1 =>
    \A p \in Peer : socket[p] # NoSocket =>
      /\ Registered \ {p} \subseteq discovered[p]
      /\ \A q \in discovered[p] \ Registered : q \in met[p]

=============================================================================
