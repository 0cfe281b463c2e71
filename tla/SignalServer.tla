---------------------------- MODULE SignalServer ----------------------------
(***************************************************************************)
(* The Node signaling server, server/server.js: which peer is registered   *)
(* on which WebSocket, and who is told of it.                              *)
(*                                                                         *)
(* Node runs one event handler at a time, so that a handler is one action. *)
(* A socket carries one sequence of messages to the server and one to the  *)
(* browser.  A broken network loses any end of both: what has arrived may  *)
(* still be handled, what follows is gone when the end of the connection   *)
(* is noticed.                                                             *)
(***************************************************************************)
EXTENDS FiniteSetsExt, Sequences, Integers

CONSTANTS
  Peer,      \* peer ids
  Socket,    \* WebSocket connections; none is used twice
  NoPeer,    \* ws.peerId of a socket that is not registered
  NoSocket,
  MaxFaults  \* bound: broken connections, closed pages, restarts of the server
             \* and sockets closed by its rate limit, together

ASSUME NoneAssumption == NoPeer \notin Peer /\ NoSocket \notin Socket
ASSUME MaxFaultsAssumption == MaxFaults \in Nat

VARIABLES
  registry,    \* registry[p]: the socket of p in the map peers
  peerId,      \* peerId[s]: ws.peerId
  readyState,  \* readyState[s]: ws.readyState at the server
  faults,      \* number of faults so far, bounded by MaxFaults
  lost,        \* lost[s]: the network under s is broken
  up,          \* up[s]: messages of the browser, not yet handled
  down         \* down[s]: messages to the browser, not yet handled

serverVars == <<registry, peerId, readyState, faults, lost, up, down>>

-----------------------------------------------------------------------------
Register(p) == [type |-> "register", peer |-> p]
Discover == [type |-> "discover", peer |-> NoPeer]
Close == [type |-> "close", peer |-> NoPeer]
ToServer == [type : {"register", "discover", "close"}, peer : Peer \cup {NoPeer}]

PeerList(ps) == [type |-> "peer-list", peers |-> ps]
PeerJoined(p) == [type |-> "peer-joined", peers |-> {p}]
PeerLeft(p) == [type |-> "peer-left", peers |-> {p}]
CloseFrame == [type |-> "close", peers |-> {}]
ToBrowser ==
  [type : {"peer-list", "peer-joined", "peer-left", "close"}, peers : SUBSET Peer]

ServerTypeOK ==
  /\ registry \in [Peer -> Socket \cup {NoSocket}]
  /\ peerId \in [Socket -> Peer \cup {NoPeer}]
  /\ readyState \in [Socket -> {"new", "open", "closing", "closed"}]
  /\ faults \in 0 .. MaxFaults
  /\ lost \in [Socket -> BOOLEAN]
  /\ up \in [Socket -> Seq(ToServer)]
  /\ down \in [Socket -> Seq(ToBrowser)]

ServerInit ==
  /\ registry = [p \in Peer |-> NoSocket]
  /\ peerId = [s \in Socket |-> NoPeer]
  /\ readyState = [s \in Socket |-> "new"]
  /\ faults = 0
  /\ lost = [s \in Socket |-> FALSE]
  /\ up = [s \in Socket |-> <<>>]
  /\ down = [s \in Socket |-> <<>>]

Registered == {p \in Peer : registry[p] # NoSocket}

\* send: the messages to the sockets ss, those that are not open left out
Send(ss, m) ==
  [s \in Socket |-> IF s \in ss /\ readyState[s] = "open"
                    THEN Append(down[s], m) ELSE down[s]]

-----------------------------------------------------------------------------
\* Mutant of Replaced: the older socket keeps its peer id.
StillRegistered(s, p) == [peerId EXCEPT ![s] = p]

\* ws.peerId when p registers on s: the socket p had before loses it.
Replaced(s, p) ==
  [t \in Socket |-> IF t = s THEN p
                    ELSE IF t = registry[p] THEN NoPeer ELSE peerId[t]]

\* broadcastPeerJoined
Joined(s, p) == Send({registry[q] : q \in Peer \ {p}} \ {NoSocket}, PeerJoined(p))

\* A newer registration replaces the older socket of the peer, which is closed.
\* Browsers send one register message per socket, with the id of the page, so
\* that the error "Peer ID cannot change" does not arise.
HandleRegister(s) ==
  LET p == Head(up[s]).peer
      old == registry[p] IN
  /\ up[s] # <<>> /\ Head(up[s]).type = "register"
  /\ up' = [up EXCEPT ![s] = Tail(@)]
  /\ peerId' = Replaced(s, p)
  /\ registry' = [registry EXCEPT ![p] = s]
  /\ readyState' = [t \in Socket |->
       IF t = old /\ t # s /\ readyState[t] = "open" THEN "closing" ELSE readyState[t]]
  /\ down' = [t \in Socket |->
       IF t = old /\ t # s /\ readyState[t] = "open"
       THEN Append(down[t], CloseFrame) ELSE Joined(s, p)[t]]
  /\ UNCHANGED <<faults, lost>>

\* Mutant of Others: what all open sockets are registered as.
OfAllSockets(s) == {peerId[t] : t \in {t \in Socket : readyState[t] = "open"}} \ {peerId[s]}

\* The registered peers but the one that asks
Others(s) == Registered \ {peerId[s]}

HandleDiscover(s) ==
  /\ up[s] # <<>> /\ Head(up[s]).type = "discover"
  /\ up' = [up EXCEPT ![s] = Tail(@)]
  /\ down' = IF peerId[s] = NoPeer
             THEN down
             ELSE Send({s}, PeerList(Others(s)))
  /\ UNCHANGED <<registry, peerId, readyState, faults, lost>>

\* Mutants of RemovePeer: the entry of the map stays; the others are not told.
NeverDeleted(s) ==
  /\ UNCHANGED registry
  /\ down' = IF peerId[s] # NoPeer /\ registry[peerId[s]] = s
             THEN Send({registry[q] : q \in Peer} \ {NoSocket, s}, PeerLeft(peerId[s]))
             ELSE down

LeftSilently(s) ==
  IF peerId[s] # NoPeer /\ registry[peerId[s]] = s
  THEN registry' = [registry EXCEPT ![peerId[s]] = NoSocket] /\ UNCHANGED down
  ELSE UNCHANGED <<registry, down>>

\* removePeer, of the close event of s
RemovePeer(s) ==
  IF peerId[s] # NoPeer /\ registry[peerId[s]] = s
  THEN /\ registry' = [registry EXCEPT ![peerId[s]] = NoSocket]
       /\ down' = Send({registry[q] : q \in Peer} \ {NoSocket, s}, PeerLeft(peerId[s]))
  ELSE UNCHANGED <<registry, down>>

\* The browser closed its end, or answered the server's close frame.
HandleClose(s) ==
  /\ up[s] # <<>> /\ Head(up[s]).type = "close"
  /\ RemovePeer(s)
  /\ readyState' = [readyState EXCEPT ![s] = "closed"]
  /\ up' = [up EXCEPT ![s] = <<>>]
  /\ UNCHANGED <<peerId, faults, lost>>

HandleMessage(s) == HandleRegister(s) \/ HandleDiscover(s) \/ HandleClose(s)

\* The heartbeat finds that a socket did not answer since the last one.
Terminate(s) ==
  /\ readyState[s] \in {"open", "closing"}
  /\ lost[s]
  /\ RemovePeer(s)
  /\ readyState' = [readyState EXCEPT ![s] = "closed"]
  /\ up' = [up EXCEPT ![s] = <<>>]
  /\ UNCHANGED <<peerId, faults, lost>>

Fault == faults < MaxFaults /\ faults' = faults + 1

\* A registered browser sends more than 60 messages in a minute, candidates
\* most of all: its socket is closed.
RateLimit(s) ==
  /\ Fault
  /\ readyState[s] = "open"
  /\ peerId[s] # NoPeer
  /\ readyState' = [readyState EXCEPT ![s] = "closing"]
  /\ down' = Send({s}, CloseFrame)
  /\ UNCHANGED <<registry, peerId, lost, up>>

\* The server shuts down or crashes, and is started again: nothing of its state
\* is kept, and the browsers lose their sockets.
Restart ==
  /\ Fault
  /\ \E s \in Socket : readyState[s] \in {"open", "closing"}
  /\ registry' = [p \in Peer |-> NoSocket]
  /\ peerId' = [s \in Socket |-> NoPeer]
  /\ readyState' = [s \in Socket |-> IF readyState[s] = "new" THEN "new" ELSE "closed"]
  /\ lost' = [s \in Socket |-> lost[s] \/ readyState[s] \in {"open", "closing"}]
  /\ up' = [s \in Socket |-> <<>>]
  /\ UNCHANGED down

\* The network breaks; neither end knows yet.
Lose(s) ==
  /\ Fault
  /\ readyState[s] \in {"open", "closing"}
  /\ ~lost[s]
  /\ lost' = [lost EXCEPT ![s] = TRUE]
  /\ UNCHANGED <<registry, peerId, readyState, up, down>>

Server ==
  \/ \E s \in Socket : HandleMessage(s) \/ Terminate(s) \/ RateLimit(s) \/ Lose(s)
  \/ Restart
=============================================================================
