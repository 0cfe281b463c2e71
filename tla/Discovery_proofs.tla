-------------------------- MODULE Discovery_proofs --------------------------
(***************************************************************************)
(* What the registry of the Node server and the lists of the pages promise *)
(* for any number of peers, sockets and faults.                            *)
(*                                                                         *)
(* The invariant has four parts besides the types.  RegistersFirst: a      *)
(* register message is the first of its socket, and comes when the socket  *)
(* is not registered.  OwnSocket: the socket of a page is registered for   *)
(* that page, will be, or is on its way out.  Attached: a living socket    *)
(* has a page, unless one end knows better.  OneSocketPerPeer: the map     *)
(* peers and the field ws.peerId are inverse to one another.               *)
(*                                                                         *)
(* That the lists of the pages converge needs more: what a page is still   *)
(* going to be told.  Views says that once the server has answered it, the *)
(* last message about a peer that is under way to it agrees with the       *)
(* registry.                                                               *)
(***************************************************************************)
EXTENDS Discovery, TLAPS, FiniteSetTheorems

Living(s) == readyState[s] \in {"open", "closing"}

RegistersFirst ==
  \A s \in Socket :
    /\ readyState[s] = "new" => peerId[s] = NoPeer
    /\ ~Living(s) => up[s] = <<>>
    /\ \A i \in 1 .. Len(up[s]) :
         up[s][i].type = "register" =>
           i = 1 /\ peerId[s] = NoPeer /\ up[s][i].peer \in Peer

\* The page p and its socket s
OwnedBy(p, s) ==
  /\ readyState[s] # "new"
  /\ readyState[s] = "closed" => lost[s]
  /\ peerId[s] \in {p, NoPeer}
  /\ \A i \in 1 .. Len(up[s]) : /\ up[s][i].type # "close"
                                /\ up[s][i].type = "register" => up[s][i].peer = p
  /\ \/ lost[s]
     \/ peerId[s] = p
     \/ readyState[s] = "closing"
     \/ up[s] # <<>> /\ up[s][1].type = "register"

OwnSocket ==
  \A p \in Peer : socket[p] # NoSocket =>
    /\ OwnedBy(p, socket[p])
    /\ \A q \in Peer : socket[q] = socket[p] => q = p

Attached ==
  \A s \in Socket :
    \/ ~Living(s)
    \/ lost[s]
    \/ \E i \in 1 .. Len(up[s]) : up[s][i].type = "close"
    \/ \E p \in Peer : socket[p] = s

Inv ==
  /\ TypeOK
  /\ RegistersFirst
  /\ OwnSocket
  /\ Attached
  /\ OneSocketPerPeer

-----------------------------------------------------------------------------
(* Sequences *)

\* What is left when the first message is taken
LEMMA TailOf ==
  ASSUME NEW S, NEW q \in Seq(S), q # <<>>
  PROVE  /\ Head(q) = q[1] /\ Head(q) \in S
         /\ Tail(q) \in Seq(S)
         /\ Len(q) \in Nat \ {0}
         /\ Len(Tail(q)) = Len(q) - 1
         /\ \A i \in 1 .. Len(Tail(q)) : i + 1 \in 1 .. Len(q) /\ Tail(q)[i] = q[i + 1]
OBVIOUS

\* What there is when a message is added
LEMMA AppendOf ==
  ASSUME NEW S, NEW q \in Seq(S), NEW m \in S
  PROVE  /\ Append(q, m) \in Seq(S)
         /\ Len(q) \in Nat
         /\ Len(Append(q, m)) = Len(q) + 1
         /\ \A i \in 1 .. Len(q) : Append(q, m)[i] = q[i]
         /\ Append(q, m)[Len(q) + 1] = m
OBVIOUS

-----------------------------------------------------------------------------
(* Types *)

LEMMA MessageTypes ==
  /\ \A p \in Peer : Register(p) \in ToServer
                     /\ PeerJoined(p) \in ToBrowser /\ PeerLeft(p) \in ToBrowser
  /\ \A ps \in SUBSET Peer : PeerList(ps) \in ToBrowser
  /\ Discover \in ToServer /\ Close \in ToServer /\ CloseFrame \in ToBrowser
BY DEF Register, Discover, Close, ToServer, PeerList, PeerJoined, PeerLeft,
       CloseFrame, ToBrowser

LEMMA SendType ==
  ASSUME ServerTypeOK, NEW ss, NEW m \in ToBrowser
  PROVE  Send(ss, m) \in [Socket -> Seq(ToBrowser)]
<1>1. \A s \in Socket : Append(down[s], m) \in Seq(ToBrowser) /\ down[s] \in Seq(ToBrowser)
  BY AppendOf DEF ServerTypeOK
<1> QED
  BY <1>1 DEF Send

LEMMA RemovePeerType ==
  ASSUME TypeOK, NEW s \in Socket, RemovePeer(s)
  PROVE  /\ registry' \in [Peer -> Socket \cup {NoSocket}]
         /\ down' \in [Socket -> Seq(ToBrowser)]
<1>1. CASE peerId[s] # NoPeer /\ registry[peerId[s]] = s
  <2>1. peerId[s] \in Peer
    BY <1>1 DEF TypeOK, ServerTypeOK
  <2>2. PeerLeft(peerId[s]) \in ToBrowser
    BY <2>1, MessageTypes
  <2>3. down' \in [Socket -> Seq(ToBrowser)]
    BY <1>1, <2>2, SendType DEF TypeOK, RemovePeer
  <2> QED
    BY <1>1, <2>3 DEF RemovePeer, TypeOK, ServerTypeOK
<1>2. CASE ~(peerId[s] # NoPeer /\ registry[peerId[s]] = s)
  BY <1>2 DEF RemovePeer, TypeOK, ServerTypeOK
<1> QED
  BY <1>1, <1>2

LEMMA ServerType ==
  ASSUME TypeOK, RegistersFirst, Server, UNCHANGED clientVars
  PROVE  TypeOK'
<1> USE DEF TypeOK, ServerTypeOK, clientVars
<1>1. ASSUME NEW s \in Socket, HandleRegister(s)
      PROVE  TypeOK'
  <2> DEFINE p == Head(up[s]).peer
  <2>1. up[s] # <<>>
    BY <1>1 DEF HandleRegister
  <2>2. Tail(up[s]) \in Seq(ToServer) /\ p \in Peer
    <3>1. up[s] \in Seq(ToServer)
      OBVIOUS
    <3>2. Head(up[s]) = up[s][1] /\ Len(up[s]) \in Nat \ {0}
      BY <2>1, <3>1, TailOf
    <3> QED
      BY <1>1, <2>1, <3>1, <3>2, TailOf DEF HandleRegister, RegistersFirst
  <2>3. PeerJoined(p) \in ToBrowser /\ CloseFrame \in ToBrowser
    BY <2>2, MessageTypes
  <2>4. Joined(s, p) \in [Socket -> Seq(ToBrowser)]
    BY <2>3, SendType DEF Joined
  <2>5. \A t \in Socket : Append(down[t], CloseFrame) \in Seq(ToBrowser)
    BY <2>3, AppendOf
  <2>6. down' \in [Socket -> Seq(ToBrowser)]
    BY <1>1, <2>4, <2>5 DEF HandleRegister
  <2>7. peerId' \in [Socket -> Peer \cup {NoPeer}]
    BY <1>1, <2>2 DEF HandleRegister, Replaced
  <2> QED
    BY <1>1, <2>2, <2>6, <2>7 DEF HandleRegister
<1>2. ASSUME NEW s \in Socket, HandleDiscover(s)
      PROVE  TypeOK'
  <2>1. Tail(up[s]) \in Seq(ToServer)
    BY <1>2, TailOf DEF HandleDiscover
  <2>2. PeerList(Others(s)) \in ToBrowser
    BY MessageTypes DEF Others, Registered
  <2>3. down' \in [Socket -> Seq(ToBrowser)]
    BY <1>2, <2>2, SendType DEF HandleDiscover
  <2> QED
    BY <1>2, <2>1, <2>3 DEF HandleDiscover
<1>3. ASSUME NEW s \in Socket, HandleClose(s) \/ Terminate(s)
      PROVE  TypeOK'
  <2>1. RemovePeer(s)
    BY <1>3 DEF HandleClose, Terminate
  <2>2. /\ registry' \in [Peer -> Socket \cup {NoSocket}]
        /\ down' \in [Socket -> Seq(ToBrowser)]
    BY <2>1, RemovePeerType
  <2>3. up' \in [Socket -> Seq(ToServer)]
    <3>1. up' = [up EXCEPT ![s] = <<>>] /\ up \in [Socket -> Seq(ToServer)]
      BY <1>3 DEF HandleClose, Terminate
    <3>2. <<>> \in Seq(ToServer)
      OBVIOUS
    <3> QED
      BY <3>1, <3>2
  <2> QED
    BY <1>3, <2>2, <2>3 DEF HandleClose, Terminate
<1>4. ASSUME NEW s \in Socket, RateLimit(s)
      PROVE  TypeOK'
  <2>1. down' \in [Socket -> Seq(ToBrowser)]
    <3>1. CloseFrame \in ToBrowser
      BY MessageTypes
    <3> QED
      BY <1>4, <3>1, SendType DEF RateLimit
  <2>2. faults' \in 0 .. MaxFaults
    BY <1>4, MaxFaultsAssumption DEF RateLimit, Fault
  <2> QED
    BY <1>4, <2>1, <2>2 DEF RateLimit
<1>5. ASSUME NEW s \in Socket, Lose(s)
      PROVE  TypeOK'
  BY <1>5, MaxFaultsAssumption DEF Lose, Fault
<1>6. CASE Restart
  BY <1>6, MaxFaultsAssumption DEF Restart, Fault
<1> QED
  BY <1>1, <1>2, <1>3, <1>4, <1>5, <1>6 DEF Server, HandleMessage

\* A page that loses or closes its socket
LEMMA ClosedType ==
  ASSUME TypeOK, NEW p \in Peer, socket[p] # NoSocket, Closed(p, socket[p])
  PROVE  /\ socket' \in [Peer -> Socket \cup {NoSocket}]
         /\ up' \in [Socket -> Seq(ToServer)]
         /\ down' \in [Socket -> Seq(ToBrowser)]
<1> DEFINE s == socket[p]
<1>1. s \in Socket
  BY DEF TypeOK
<1>2. Append(up[s], Close) \in Seq(ToServer) /\ up \in [Socket -> Seq(ToServer)]
  BY <1>1, MessageTypes, AppendOf DEF TypeOK, ServerTypeOK
<1>3. up' \in [Socket -> Seq(ToServer)]
  BY <1>1, <1>2 DEF Closed
<1>4. <<>> \in Seq(ToBrowser) /\ down \in [Socket -> Seq(ToBrowser)]
  BY DEF TypeOK, ServerTypeOK
<1> QED
  BY <1>3, <1>4 DEF Closed, TypeOK

LEMMA ReceiveType ==
  ASSUME TypeOK, NEW p \in Peer, Receive(p)
  PROVE  TypeOK'
<1> DEFINE s == socket[p]
           m == Head(down[s])
<1>1. s \in Socket /\ down[s] # <<>> /\ down[s] \in Seq(ToBrowser)
  BY DEF Receive, TypeOK, ServerTypeOK
<1>2. m \in ToBrowser /\ Tail(down[s]) \in Seq(ToBrowser)
  BY <1>1, TailOf
<1>3. m.peers \in SUBSET Peer
  BY <1>2 DEF ToBrowser
<1>4. /\ discovered' \in [Peer -> SUBSET Peer]
      /\ channel' \in [Peer -> [Peer -> {"none", "connecting", "open", "closed"}]]
      /\ cleaning' \in [Peer -> [Peer -> BOOLEAN]]
  <2>1. CASE ReceiveList(p, m)
    <3>1. PICK snapshot \in SUBSET m.peers :
            discovered' = [discovered EXCEPT ![p] = Reconciled(p, snapshot \ {p})]
      BY <2>1 DEF ReceiveList, kSubset
    <3>2. Reconciled(p, snapshot \ {p}) \in SUBSET Peer
      BY <1>3, <3>1 DEF Reconciled, TypeOK
    <3> QED
      BY <2>1, <3>1, <3>2 DEF ReceiveList, TypeOK
  <2>2. CASE ReceiveJoined(p, m)
    BY <1>3, <2>2 DEF ReceiveJoined, TypeOK
  <2>3. CASE ReceiveLeft(p, m)
    <3>1. discovered' \in [Peer -> SUBSET Peer]
      BY <1>3, <2>3 DEF ReceiveLeft, TypeOK
    <3>2. PICK q \in Peer :
            \/ channel' = [channel EXCEPT ![p][q] = "none"] /\ cleaning' = cleaning
            \/ cleaning' = [cleaning EXCEPT ![p][q] = TRUE] /\ channel' = channel
      BY <1>3, <2>3 DEF ReceiveLeft
    <3>3. [channel EXCEPT ![p][q] = "none"]
            \in [Peer -> [Peer -> {"none", "connecting", "open", "closed"}]]
      BY DEF TypeOK
    <3>4. [cleaning EXCEPT ![p][q] = TRUE] \in [Peer -> [Peer -> BOOLEAN]]
      BY DEF TypeOK
    <3>5. /\ channel \in [Peer -> [Peer -> {"none", "connecting", "open", "closed"}]]
          /\ cleaning \in [Peer -> [Peer -> BOOLEAN]]
      BY DEF TypeOK
    <3> HIDE DEF m
    <3>6. /\ channel' \in [Peer -> [Peer -> {"none", "connecting", "open", "closed"}]]
          /\ cleaning' \in [Peer -> [Peer -> BOOLEAN]]
      BY <3>2, <3>3, <3>4, <3>5, Zenon
    <3> QED
      BY <3>1, <3>6
  <2>4. ReceiveList(p, m) \/ ReceiveJoined(p, m) \/ ReceiveLeft(p, m)
    BY DEF Receive
  <2> QED
    BY <2>1, <2>2, <2>3, <2>4
<1>5. down' \in [Socket -> Seq(ToBrowser)]
  <2>1. down' = [down EXCEPT ![s] = Tail(down[s])] /\ down \in [Socket -> Seq(ToBrowser)]
    BY DEF Receive, TypeOK, ServerTypeOK
  <2> QED
    BY <1>2, <2>1
<1> QED
  BY <1>4, <1>5 DEF Receive, TypeOK, ServerTypeOK

LEMMA ClientType ==
  ASSUME TypeOK, NEW p \in Peer, Client(p)
  PROVE  TypeOK'
<1>1. ASSUME NEW s \in Socket, Connect(p, s)
      PROVE  TypeOK'
  <2>1. Hello(p) \in Seq(ToServer)
    BY MessageTypes DEF Hello
  <2>2. up' \in [Socket -> Seq(ToServer)]
    BY <1>1, <2>1 DEF Connect, TypeOK, ServerTypeOK
  <2> QED
    BY <1>1, <2>2 DEF Connect, TypeOK, ServerTypeOK
<1>2. CASE Receive(p)
  BY <1>2, ReceiveType
<1>3. CASE OnClose(p)
  BY <1>3, ClosedType DEF OnClose, Closed, TypeOK, ServerTypeOK
<1>4. CASE ClosePage(p)
  <2>1. /\ socket' \in [Peer -> Socket \cup {NoSocket}]
        /\ up' \in [Socket -> Seq(ToServer)]
        /\ down' \in [Socket -> Seq(ToBrowser)]
        /\ UNCHANGED <<registry, peerId, readyState, lost>>
    BY <1>4, ClosedType DEF ClosePage, Closed, TypeOK, ServerTypeOK
  <2>2. faults' \in 0 .. MaxFaults
    BY <1>4, MaxFaultsAssumption DEF ClosePage, Fault, TypeOK, ServerTypeOK
  <2> QED
    BY <1>4, <2>1, <2>2
    DEF ClosePage, TypeOK, ServerTypeOK, NoChannels, NotCleaning
<1>5. ASSUME NEW q \in Peer,
             \/ Negotiate(p, q) \/ OpenChannel(p, q)
             \/ LoseChannel(p, q) \/ FinishCleanup(p, q)
      PROVE  TypeOK'
  <2>1. UNCHANGED serverVars /\ UNCHANGED <<page, socket>>
    BY <1>5 DEF Negotiate, OpenChannel, LoseChannel, FinishCleanup
  <2>2. CASE Negotiate(p, q)
    BY <2>1, <2>2 DEF Negotiate, TypeOK, ServerTypeOK, serverVars
  <2>3. CASE OpenChannel(p, q)
    BY <2>1, <2>3 DEF OpenChannel, Listed, TypeOK, ServerTypeOK, serverVars
  <2>4. CASE LoseChannel(p, q)
    BY <2>1, <2>4 DEF LoseChannel, TypeOK, ServerTypeOK, serverVars
  <2>5. CASE FinishCleanup(p, q)
    BY <2>1, <2>5 DEF FinishCleanup, TypeOK, ServerTypeOK, serverVars
  <2> QED
    BY <1>5, <2>2, <2>3, <2>4, <2>5
<1> QED
  BY <1>1, <1>2, <1>3, <1>4, <1>5 DEF Client

-----------------------------------------------------------------------------
(* Sockets and registrations *)

Sockets ==
  /\ RegistersFirst
  /\ OwnSocket
  /\ Attached
  /\ OneSocketPerPeer

LEMMA SocketTypes ==
  ASSUME TypeOK
  PROVE  /\ registry \in [Peer -> Socket \cup {NoSocket}]
         /\ peerId \in [Socket -> Peer \cup {NoPeer}]
         /\ readyState \in [Socket -> {"new", "open", "closing", "closed"}]
         /\ lost \in [Socket -> BOOLEAN]
         /\ up \in [Socket -> Seq(ToServer)]
         /\ socket \in [Peer -> Socket \cup {NoSocket}]
         /\ NoPeer \notin Peer /\ NoSocket \notin Socket
BY NoneAssumption DEF TypeOK, ServerTypeOK

\* The page registers on s: nothing else was registered there.
LEMMA HandleRegisterSockets ==
  ASSUME Inv, NEW s \in Socket, HandleRegister(s), UNCHANGED clientVars
  PROVE  Sockets'
<1> DEFINE p == Head(up[s]).peer
<1>1. up[s] \in Seq(ToServer) /\ up[s] # <<>>
  BY DEF Inv, TypeOK, ServerTypeOK, HandleRegister
<1>2. /\ p \in Peer /\ Living(s) /\ peerId[s] = NoPeer
      /\ up[s][1].type = "register" /\ up[s][1].peer = p
  <2>1. Head(up[s]) = up[s][1] /\ 1 \in 1 .. Len(up[s])
    BY <1>1, TailOf
  <2> QED
    BY <1>1, <2>1 DEF Inv, RegistersFirst, HandleRegister
<1>3. /\ up' = [up EXCEPT ![s] = Tail(up[s])]
      /\ peerId' = Replaced(s, p)
      /\ registry' = [registry EXCEPT ![p] = s]
      /\ readyState' = [t \in Socket |->
           IF t = registry[p] /\ t # s /\ readyState[t] = "open"
           THEN "closing" ELSE readyState[t]]
      /\ UNCHANGED <<lost, socket>>
  BY DEF HandleRegister, clientVars
<1>4. /\ \A i \in 1 .. Len(up'[s]) :
           i + 1 \in 1 .. Len(up[s]) /\ up'[s][i] = up[s][i + 1] /\ i + 1 # 1
      /\ \A t \in Socket \ {s} : up'[t] = up[t]
  <2>1. up'[s] = Tail(up[s])
    BY <1>3, SocketTypes DEF Inv
  <2>2. Len(up[s]) \in Nat \ {0} /\ Len(Tail(up[s])) = Len(up[s]) - 1
    BY <1>1, TailOf
  <2> QED
    BY <1>1, <1>3, <2>1, <2>2, TailOf, SocketTypes DEF Inv
<1>5. \A t \in Socket : Living(t)' <=> Living(t)
  BY <1>3, SocketTypes DEF Inv, Living
<1>6. registry[p] # s
  BY <1>2, SocketTypes DEF Inv, OneSocketPerPeer
<1>7. /\ peerId'[s] = p
      /\ \A t \in Socket \ {s} :
           peerId'[t] = IF t = registry[p] THEN NoPeer ELSE peerId[t]
  BY <1>3 DEF Replaced
<1> HIDE DEF p
<1>8. RegistersFirst'
  <2>1. \A t \in Socket : readyState'[t] = "new" => t # s /\ readyState[t] = "new"
    BY <1>2, <1>3, SocketTypes DEF Inv, Living
  <2>2. \A t \in Socket : ~Living(t)' => up'[t] = <<>>
    BY <1>2, <1>4, <1>5 DEF Inv, RegistersFirst
  <2>3. \A i \in 1 .. Len(up'[s]) : up'[s][i].type # "register"
    BY <1>4 DEF Inv, RegistersFirst
  <2>4. \A t \in Socket \ {s} : \A i \in 1 .. Len(up'[t]) :
          up'[t][i].type = "register" =>
            i = 1 /\ peerId'[t] = NoPeer /\ up'[t][i].peer \in Peer
    BY <1>4, <1>7 DEF Inv, RegistersFirst
  <2> QED
    BY <2>1, <2>2, <2>3, <2>4, <1>7 DEF Inv, RegistersFirst
<1>9. OwnSocket'
  <2> SUFFICES ASSUME NEW q \in Peer, socket[q] # NoSocket
               PROVE  OwnedBy(q, socket[q])'
    BY <1>3 DEF Inv, OwnSocket
  <2> DEFINE t == socket[q]
  <2>1. t \in Socket /\ OwnedBy(q, t) /\ t' = t
    BY <1>3, SocketTypes DEF Inv, OwnSocket
  <2>2. CASE t = s
    <3>1. q = p
      BY <1>1, <1>2, <2>1, <2>2, TailOf DEF OwnedBy
    <3>2. \A i \in 1 .. Len(up'[s]) : /\ up'[s][i].type # "close"
                                      /\ up'[s][i].type = "register" => up'[s][i].peer = q
      BY <1>4, <2>1, <2>2 DEF OwnedBy
    <3>3. readyState'[s] = readyState[s] /\ lost'[s] = lost[s]
      BY <1>3, <1>6
    <3> QED
      BY <1>7, <2>1, <2>2, <3>1, <3>2, <3>3 DEF OwnedBy
  <2>3. CASE t # s /\ t = registry[p]
    <3>1. readyState'[t] = "closing"
      BY <1>2, <1>3, <2>1, <2>3 DEF Inv, OneSocketPerPeer
    <3> QED
      BY <1>3, <1>4, <1>7, <2>1, <2>3, <3>1 DEF OwnedBy
  <2>4. CASE t # s /\ t # registry[p]
    BY <1>3, <1>4, <1>7, <2>1, <2>4 DEF OwnedBy
  <2> QED
    BY <2>2, <2>3, <2>4
<1>10. Attached'
  <2> SUFFICES ASSUME NEW t \in Socket, Living(t), ~lost[t],
                      \A i \in 1 .. Len(up'[t]) : up'[t][i].type # "close"
               PROVE  \E q \in Peer : socket[q] = t
    BY <1>3, <1>5 DEF Attached
  <2>1. \A i \in 1 .. Len(up[t]) : up[t][i].type # "close"
    <3>1. CASE t = s
      <4>1. ASSUME NEW i \in 1 .. Len(up[s]), i # 1
            PROVE  i - 1 \in 1 .. Len(up'[s]) /\ up'[s][i - 1] = up[s][i]
        <5>1. up'[s] = Tail(up[s])
          BY <1>3, SocketTypes DEF Inv
        <5>2. Len(up[s]) \in Nat \ {0} /\ Len(up'[s]) = Len(up[s]) - 1
          BY <1>1, <5>1, TailOf
        <5>3. i - 1 \in 1 .. Len(up'[s])
          BY <4>1, <5>2
        <5> QED
          BY <1>4, <5>3
      <4> QED
        BY <1>2, <3>1, <4>1
    <3>2. CASE t # s
      BY <1>4, <3>2
    <3> QED
      BY <3>1, <3>2
  <2> QED
    BY <2>1 DEF Inv, Attached
<1>11. OneSocketPerPeer'
  <2>1. \A q \in Peer, t \in Socket : registry[q] = t <=> peerId[t] = q /\ Living(t)
    BY DEF Inv, OneSocketPerPeer, Living
  <2>2. registry'[p] = s /\ \A q \in Peer \ {p} : registry'[q] = registry[q]
    BY <1>2, <1>3, SocketTypes DEF Inv
  <2>3. ASSUME NEW q \in Peer, NEW t \in Socket
        PROVE  registry'[q] = t <=> peerId'[t] = q /\ Living(t)'
    <3>1. CASE q = p
      BY <1>2, <1>5, <1>7, <2>1, <2>2, <3>1, SocketTypes DEF Inv
    <3>2. CASE q # p /\ t = s
      BY <1>2, <1>7, <2>1, <2>2, <3>2, SocketTypes DEF Inv
    <3>3. CASE q # p /\ t # s /\ t = registry[p]
      <4>1. peerId[t] = p /\ peerId'[t] = NoPeer
        BY <1>2, <1>7, <2>1, <3>3
      <4> QED
        BY <2>1, <2>2, <3>3, <4>1, SocketTypes DEF Inv
    <3>4. CASE q # p /\ t # s /\ t # registry[p]
      BY <1>5, <1>7, <2>1, <2>2, <3>4
    <3> QED
      BY <3>1, <3>2, <3>3, <3>4
  <2> QED
    BY <2>3 DEF OneSocketPerPeer, Living
<1> QED
  BY <1>8, <1>9, <1>10, <1>11 DEF Sockets

LEMMA HandleDiscoverSockets ==
  ASSUME Inv, NEW s \in Socket, HandleDiscover(s), UNCHANGED clientVars
  PROVE  Sockets'
<1>1. up[s] \in Seq(ToServer) /\ up[s] # <<>> /\ up[s][1].type = "discover"
  <2>1. up[s] \in Seq(ToServer) /\ up[s] # <<>> /\ Head(up[s]).type = "discover"
    BY DEF Inv, TypeOK, ServerTypeOK, HandleDiscover
  <2> QED
    BY <2>1, TailOf
<1>2. /\ up' = [up EXCEPT ![s] = Tail(up[s])]
      /\ UNCHANGED <<registry, peerId, readyState, lost, socket>>
  BY DEF HandleDiscover, clientVars
<1>3. /\ Len(up[s]) \in Nat \ {0} /\ Len(up'[s]) = Len(up[s]) - 1
      /\ \A i \in 1 .. Len(up'[s]) : up'[s][i] = up[s][i + 1]
      /\ \A t \in Socket \ {s} : up'[t] = up[t]
      /\ up[s] # <<>> => 1 \in 1 .. Len(up[s])
  <2>1. up'[s] = Tail(up[s]) /\ \A t \in Socket \ {s} : up'[t] = up[t]
    BY <1>2, SocketTypes DEF Inv
  <2> QED
    BY <1>1, <2>1, TailOf
<1>4. \A i \in 1 .. Len(up'[s]) : i + 1 \in 1 .. Len(up[s]) /\ i + 1 # 1
  BY <1>3
<1>5. \A i \in 1 .. Len(up'[s]) : up'[s][i].type # "register"
  BY <1>3, <1>4 DEF Inv, RegistersFirst
<1>6. RegistersFirst'
  <2>1. Living(s)
    BY <1>1 DEF Inv, RegistersFirst
  <2>2. \A t \in Socket : Living(t)' <=> Living(t)
    BY <1>2 DEF Living
  <2> QED
    BY <1>2, <1>3, <1>5, <2>1, <2>2 DEF Inv, RegistersFirst
<1>7. OwnSocket'
  <2> SUFFICES ASSUME NEW q \in Peer, socket[q] # NoSocket
               PROVE  OwnedBy(q, socket[q])'
    BY <1>2 DEF Inv, OwnSocket
  <2>1. socket[q] \in Socket /\ OwnedBy(q, socket[q]) /\ socket'[q] = socket[q]
    BY <1>2, SocketTypes DEF Inv, OwnSocket
  <2>2. CASE socket[q] = s
    BY <1>1, <1>2, <1>3, <1>4, <2>1, <2>2 DEF OwnedBy
  <2>3. CASE socket[q] # s
    BY <1>2, <1>3, <2>1, <2>3 DEF OwnedBy
  <2> QED
    BY <2>2, <2>3
<1>8. Attached'
  <2> SUFFICES ASSUME NEW t \in Socket, Living(t), ~lost[t],
                      \A i \in 1 .. Len(up'[t]) : up'[t][i].type # "close"
               PROVE  \E q \in Peer : socket[q] = t
    BY <1>2 DEF Attached, Living
  <2>1. ASSUME NEW i \in 1 .. Len(up[s]), i # 1
        PROVE  i - 1 \in 1 .. Len(up'[s]) /\ up'[s][i - 1] = up[s][i]
    <3>1. i - 1 \in 1 .. Len(up'[s])
      BY <1>3, <2>1
    <3> QED
      BY <1>3, <3>1
  <2>2. \A i \in 1 .. Len(up[t]) : up[t][i].type # "close"
    <3>1. CASE t = s
      BY <1>1, <2>1, <3>1
    <3>2. CASE t # s
      BY <1>3, <3>2
    <3> QED
      BY <3>1, <3>2
  <2> QED
    BY <2>2 DEF Inv, Attached
<1>9. OneSocketPerPeer'
  BY <1>2 DEF Inv, OneSocketPerPeer
<1> QED
  BY <1>6, <1>7, <1>8, <1>9 DEF Sockets

\* A page's socket is closed at the server only when the network is broken, or
\* after the page closed it.
LEMMA EndSockets ==
  ASSUME Inv, NEW s \in Socket, HandleClose(s) \/ Terminate(s), UNCHANGED clientVars
  PROVE  Sockets'
<1>1. /\ RemovePeer(s)
      /\ readyState' = [readyState EXCEPT ![s] = "closed"]
      /\ up' = [up EXCEPT ![s] = <<>>]
      /\ UNCHANGED <<peerId, lost, socket>>
  BY DEF HandleClose, Terminate, clientVars
<1>2. /\ readyState'[s] = "closed" /\ up'[s] = <<>>
      /\ \A t \in Socket \ {s} : readyState'[t] = readyState[t] /\ up'[t] = up[t]
  BY <1>1, SocketTypes DEF Inv
<1>3. Living(s)
  <2>1. CASE HandleClose(s)
    BY <2>1 DEF HandleClose, Inv, RegistersFirst
  <2>2. CASE Terminate(s)
    BY <2>2 DEF Terminate, Living
  <2> QED
    BY <2>1, <2>2
<1>4. \A q \in Peer : socket[q] = s => lost[s]
  <2>1. CASE HandleClose(s)
    <3>1. up[s] \in Seq(ToServer) /\ up[s] # <<>> /\ Head(up[s]).type = "close"
      BY <2>1, SocketTypes DEF HandleClose, Inv
    <3>2. 1 \in 1 .. Len(up[s]) /\ up[s][1].type = "close"
      BY <3>1, TailOf
    <3> QED
      BY <3>2, SocketTypes DEF Inv, OwnSocket, OwnedBy
  <2>2. CASE Terminate(s)
    BY <2>2 DEF Terminate
  <2> QED
    BY <2>1, <2>2
<1>5. RegistersFirst'
  BY <1>1, <1>2 DEF Inv, RegistersFirst, Living
<1>6. OwnSocket'
  <2> SUFFICES ASSUME NEW q \in Peer, socket[q] # NoSocket
               PROVE  OwnedBy(q, socket[q])'
    BY <1>1 DEF Inv, OwnSocket
  <2>1. socket[q] \in Socket /\ OwnedBy(q, socket[q]) /\ socket'[q] = socket[q]
    BY <1>1, SocketTypes DEF Inv, OwnSocket
  <2>2. CASE socket[q] = s
    BY <1>1, <1>2, <1>4, <2>1, <2>2 DEF OwnedBy
  <2>3. CASE socket[q] # s
    BY <1>1, <1>2, <2>1, <2>3 DEF OwnedBy
  <2> QED
    BY <2>2, <2>3
<1>7. Attached'
  BY <1>1, <1>2 DEF Inv, Attached, Living
<1>8. OneSocketPerPeer'
  <2>1. \A q \in Peer, t \in Socket : registry[q] = t <=> peerId[t] = q /\ Living(t)
    BY DEF Inv, OneSocketPerPeer, Living
  <2>2. ~Living(s)' /\ \A t \in Socket \ {s} : Living(t)' <=> Living(t)
    BY <1>2 DEF Living
  <2>3. ASSUME NEW q \in Peer
        PROVE  registry'[q] = IF registry[q] = s THEN NoSocket ELSE registry[q]
    <3>1. peerId[s] \in Peer \cup {NoPeer}
      BY SocketTypes DEF Inv
    <3> QED
      BY <1>1, <1>3, <2>1, <3>1, SocketTypes DEF RemovePeer, Inv
  <2>4. ASSUME NEW q \in Peer, NEW t \in Socket
        PROVE  registry'[q] = t <=> peerId'[t] = q /\ Living(t)'
    BY <1>1, <2>1, <2>2, <2>3, SocketTypes DEF Inv
  <2> QED
    BY <2>4 DEF OneSocketPerPeer, Living
<1> QED
  BY <1>5, <1>6, <1>7, <1>8 DEF Sockets

LEMMA FaultSockets ==
  ASSUME Inv, UNCHANGED clientVars,
         (\E s \in Socket : RateLimit(s) \/ Lose(s)) \/ Restart
  PROVE  Sockets'
<1>1. ASSUME NEW s \in Socket, RateLimit(s)
      PROVE  Sockets'
  <2>1. /\ readyState[s] = "open"
        /\ readyState' = [readyState EXCEPT ![s] = "closing"]
        /\ UNCHANGED <<registry, peerId, lost, up, socket>>
    BY <1>1 DEF RateLimit, clientVars
  <2>2. /\ readyState'[s] = "closing"
        /\ \A t \in Socket \ {s} : readyState'[t] = readyState[t]
        /\ \A t \in Socket : Living(t)' <=> Living(t)
    BY <2>1, SocketTypes DEF Inv, Living
  <2>3. RegistersFirst' /\ Attached'
    BY <2>1, <2>2 DEF Inv, RegistersFirst, Attached
  <2>4. OwnSocket'
    BY <2>1, <2>2, SocketTypes DEF Inv, OwnSocket, OwnedBy
  <2>5. OneSocketPerPeer'
    BY <2>1, <2>2 DEF Inv, OneSocketPerPeer, Living
  <2> QED
    BY <2>3, <2>4, <2>5 DEF Sockets
<1>2. ASSUME NEW s \in Socket, Lose(s)
      PROVE  Sockets'
  <2>1. /\ lost' = [lost EXCEPT ![s] = TRUE]
        /\ UNCHANGED <<registry, peerId, readyState, up, socket>>
    BY <1>2 DEF Lose, clientVars
  <2>2. \A t \in Socket : lost[t] => lost'[t]
    BY <2>1, SocketTypes DEF Inv
  <2>3. RegistersFirst' /\ Attached' /\ OneSocketPerPeer'
    BY <2>1, <2>2 DEF Inv, RegistersFirst, Attached, OneSocketPerPeer, Living
  <2>4. OwnSocket'
    BY <2>1, <2>2, SocketTypes DEF Inv, OwnSocket, OwnedBy
  <2> QED
    BY <2>3, <2>4 DEF Sockets
<1>3. CASE Restart
  <2>1. /\ UNCHANGED socket
        /\ \A q \in Peer : registry'[q] = NoSocket
        /\ \A t \in Socket :
             /\ peerId'[t] = NoPeer /\ up'[t] = <<>> /\ ~Living(t)'
             /\ readyState'[t] = "new" => readyState[t] = "new"
             /\ lost'[t] <=> lost[t] \/ Living(t)
    BY <1>3 DEF Restart, clientVars, Living
  <2>2. RegistersFirst' /\ Attached'
    BY <2>1 DEF RegistersFirst, Attached
  <2>3. OneSocketPerPeer'
    BY <2>1, SocketTypes DEF Inv, OneSocketPerPeer, Living
  <2>4. \A q \in Peer : socket[q] # NoSocket => lost'[socket[q]]
    BY <2>1, SocketTypes DEF Inv, OwnSocket, OwnedBy, Living
  <2>5. OwnSocket'
    BY <2>1, <2>4, SocketTypes DEF Inv, OwnSocket, OwnedBy
  <2> QED
    BY <2>2, <2>3, <2>5 DEF Sockets
<1> QED
  BY <1>1, <1>2, <1>3

LEMMA ConnectSockets ==
  ASSUME Inv, NEW p \in Peer, NEW s \in Socket, Connect(p, s)
  PROVE  Sockets'
<1>1. /\ socket[p] = NoSocket /\ readyState[s] = "new"
      /\ socket' = [socket EXCEPT ![p] = s]
      /\ readyState' = [readyState EXCEPT ![s] = "open"]
      /\ up' = [up EXCEPT ![s] = Hello(p)]
      /\ UNCHANGED <<registry, peerId, lost>>
  BY DEF Connect
<1>2. /\ socket'[p] = s /\ readyState'[s] = "open" /\ up'[s] = Hello(p)
      /\ \A q \in Peer \ {p} : socket'[q] = socket[q]
      /\ \A t \in Socket \ {s} : readyState'[t] = readyState[t] /\ up'[t] = up[t]
  BY <1>1, SocketTypes DEF Inv
<1>3. /\ Len(Hello(p)) = 2 /\ Hello(p) # <<>>
      /\ Hello(p)[1].type = "register" /\ Hello(p)[1].peer = p
      /\ Hello(p)[2].type = "discover"
  BY DEF Hello, Register, Discover
<1>4. peerId[s] = NoPeer /\ \A q \in Peer : registry[q] # s
  BY <1>1, SocketTypes DEF Inv, RegistersFirst, OneSocketPerPeer
<1>5. \A q \in Peer : socket[q] # s
  BY <1>1, SocketTypes DEF Inv, OwnSocket, OwnedBy
<1>6. \A i \in 1 .. Len(up'[s]) : \/ i = 1 /\ up'[s][i].type = "register" /\ up'[s][i].peer = p
                                  \/ up'[s][i].type = "discover"
  BY <1>2, <1>3
<1>7. RegistersFirst'
  BY <1>1, <1>2, <1>4, <1>6 DEF Inv, RegistersFirst, Living
<1>8. OwnSocket'
  <2>1. OwnedBy(p, s)'
    BY <1>1, <1>2, <1>3, <1>4, <1>6 DEF OwnedBy
  <2>2. ASSUME NEW q \in Peer \ {p}, socket[q] # NoSocket
        PROVE  OwnedBy(q, socket[q])' /\ socket[q] # s
    <3>1. socket[q] \in Socket \ {s} /\ OwnedBy(q, socket[q])
      BY <1>5, <2>2, SocketTypes DEF Inv, OwnSocket
    <3> QED
      BY <1>1, <1>2, <3>1 DEF OwnedBy
  <2> QED
    BY <1>2, <2>1, <2>2 DEF Inv, OwnSocket
<1>9. Attached'
  <2> SUFFICES ASSUME NEW t \in Socket, Living(t)', ~lost'[t],
                      \A i \in 1 .. Len(up'[t]) : up'[t][i].type # "close"
               PROVE  \E q \in Peer : socket'[q] = t
    BY DEF Attached
  <2>1. CASE t = s
    BY <1>2, <2>1
  <2>2. CASE t # s
    <3>1. PICK q \in Peer : socket[q] = t
      BY <1>1, <1>2, <2>2 DEF Inv, Attached, Living
    <3> QED
      BY <1>1, <1>2, <3>1, SocketTypes DEF Inv
  <2> QED
    BY <2>1, <2>2
<1>10. OneSocketPerPeer'
  BY <1>1, <1>2, <1>4, SocketTypes DEF Inv, OneSocketPerPeer
<1> QED
  BY <1>7, <1>8, <1>9, <1>10 DEF Sockets

LEMMA ClosedSockets ==
  ASSUME Inv, NEW p \in Peer, socket[p] # NoSocket, Closed(p, socket[p])
  PROVE  Sockets'
<1> DEFINE s == socket[p]
<1>1. s \in Socket /\ OwnedBy(p, s) /\ \A q \in Peer : socket[q] = s => q = p
  BY SocketTypes DEF Inv, OwnSocket
<1>2. /\ socket'[p] = NoSocket /\ \A q \in Peer \ {p} : socket'[q] = socket[q]
      /\ UNCHANGED <<registry, peerId, readyState, lost>>
      /\ \A t \in Socket \ {s} : up'[t] = up[t]
      /\ up'[s] = IF lost[s] THEN up[s] ELSE Append(up[s], Close)
  BY <1>1, SocketTypes DEF Inv, Closed
<1>3. /\ Len(up[s]) \in Nat
      /\ Len(Append(up[s], Close)) = Len(up[s]) + 1
      /\ \A i \in 1 .. Len(up[s]) : Append(up[s], Close)[i] = up[s][i]
      /\ Append(up[s], Close)[Len(up[s]) + 1] = Close
      /\ Close.type = "close"
  <2>1. up[s] \in Seq(ToServer) /\ Close \in ToServer /\ Close.type = "close"
    BY <1>1, MessageTypes, SocketTypes DEF Inv, Close
  <2> QED
    BY <2>1, AppendOf
<1> HIDE DEF s
<1>4. \A i \in 1 .. Len(up'[s]) : \/ i \in 1 .. Len(up[s]) /\ up'[s][i] = up[s][i]
                                  \/ up'[s][i].type = "close"
  BY <1>2, <1>3
<1>5. ~lost[s] => Living(s)
  BY <1>1, SocketTypes DEF Inv, OwnedBy, Living
<1>6. RegistersFirst'
  <2>1. \A t \in Socket : Living(t)' <=> Living(t)
    BY <1>2 DEF Living
  <2>2. \A i \in 1 .. Len(up'[s]) :
          up'[s][i].type = "register" =>
            i = 1 /\ peerId[s] = NoPeer /\ up'[s][i].peer \in Peer
    BY <1>1, <1>4 DEF Inv, RegistersFirst
  <2>3. ~Living(s) => up'[s] = <<>>
    BY <1>1, <1>2, <1>5 DEF Inv, RegistersFirst
  <2> QED
    BY <1>2, <2>1, <2>2, <2>3 DEF Inv, RegistersFirst
<1>7. OwnSocket'
  <2> SUFFICES ASSUME NEW q \in Peer, socket'[q] # NoSocket
               PROVE  OwnedBy(q, socket[q])' /\ \A r \in Peer : socket'[r] = socket'[q] => r = q
    BY DEF OwnSocket
  <2>1. q # p /\ socket'[q] = socket[q] /\ socket[q] # s
    BY <1>1, <1>2
  <2>2. socket[q] \in Socket /\ OwnedBy(q, socket[q])
    BY <2>1, SocketTypes DEF Inv, OwnSocket
  <2>3. OwnedBy(q, socket[q])'
    BY <1>2, <2>1, <2>2 DEF OwnedBy
  <2> QED
    BY <1>2, <2>1, <2>3 DEF Inv, OwnSocket
<1>8. Attached'
  <2> SUFFICES ASSUME NEW t \in Socket, Living(t), ~lost[t],
                      \A i \in 1 .. Len(up'[t]) : up'[t][i].type # "close"
               PROVE  \E q \in Peer : socket'[q] = t
    BY <1>2 DEF Attached, Living
  <2>1. ASSUME t = s PROVE FALSE
    <3>1. /\ Len(up'[s]) = Len(up[s]) + 1
          /\ up'[s][Len(up[s]) + 1].type = "close"
      BY <1>2, <1>3, <2>1
    <3>2. Len(up[s]) + 1 \in 1 .. Len(up'[s])
      BY <1>3, <3>1
    <3> QED
      BY <2>1, <3>1, <3>2
  <2>2. PICK q \in Peer : socket[q] = t
    BY <1>2, <2>1 DEF Inv, Attached
  <2>3. q # p
    BY <2>1, <2>2 DEF s
  <2> QED
    BY <1>2, <2>2, <2>3
<1>9. OneSocketPerPeer'
  BY <1>2 DEF Inv, OneSocketPerPeer
<1> QED
  BY <1>6, <1>7, <1>8, <1>9 DEF Sockets

\* Messages to the pages and data channels change no registration.
LEMMA CalmSockets ==
  ASSUME Inv, UNCHANGED <<registry, peerId, readyState, lost, up, socket>>
  PROVE  Sockets'
<1>1. RegistersFirst' /\ OneSocketPerPeer'
  BY DEF Inv, RegistersFirst, OneSocketPerPeer, Living
<1>2. OwnSocket' /\ Attached'
  BY DEF Inv, OwnSocket, OwnedBy, Attached, Living
<1> QED
  BY <1>1, <1>2 DEF Sockets

LEMMA InitInv == Init => Inv
<1> SUFFICES ASSUME Init PROVE Inv
  OBVIOUS
<1> USE DEF Init, ServerInit
<1>1. TypeOK
  BY MaxFaultsAssumption DEF TypeOK, ServerTypeOK, NoChannels, NotCleaning
<1>2. RegistersFirst
  BY DEF RegistersFirst, Living
<1>3. OwnSocket /\ Attached
  BY DEF OwnSocket, Attached, Living
<1>4. OneSocketPerPeer
  BY NoneAssumption DEF OneSocketPerPeer
<1> QED
  BY <1>1, <1>2, <1>3, <1>4 DEF Inv

LEMMA NextInv == Inv /\ [Next]_vars => Inv'
<1> SUFFICES ASSUME Inv, [Next]_vars PROVE Inv'
  OBVIOUS
<1>1. CASE Server /\ UNCHANGED clientVars
  <2>1. TypeOK'
    BY <1>1, ServerType DEF Inv
  <2>2. Sockets'
    BY <1>1, HandleRegisterSockets, HandleDiscoverSockets, EndSockets, FaultSockets
    DEF Server, HandleMessage
  <2> QED
    BY <2>1, <2>2 DEF Inv, Sockets
<1>2. ASSUME NEW p \in Peer, Client(p)
      PROVE  Inv'
  <2>1. TypeOK'
    BY <1>2, ClientType DEF Inv
  <2>2. CASE \E s \in Socket : Connect(p, s)
    BY <2>1, <2>2, ConnectSockets DEF Inv, Sockets
  <2>3. CASE OnClose(p) \/ ClosePage(p)
    <3>1. CASE socket[p] # NoSocket /\ Closed(p, socket[p])
      BY <2>1, <3>1, ClosedSockets DEF Inv, Sockets
    <3>2. CASE UNCHANGED <<registry, peerId, readyState, lost, up, socket>>
      BY <2>1, <3>2, CalmSockets DEF Inv, Sockets
    <3> QED
      BY <2>3, <3>1, <3>2 DEF OnClose, ClosePage
  <2>4. CASE \/ Receive(p)
             \/ \E q \in Peer : \/ Negotiate(p, q) \/ OpenChannel(p, q)
                               \/ LoseChannel(p, q) \/ FinishCleanup(p, q)
    <3>1. UNCHANGED <<registry, peerId, readyState, lost, up, socket>>
      BY <2>4 DEF Receive, Negotiate, OpenChannel, LoseChannel, FinishCleanup, serverVars
    <3> QED
      BY <2>1, <3>1, CalmSockets DEF Inv, Sockets
  <2> QED
    BY <1>2, <2>2, <2>3, <2>4 DEF Client
<1>3. CASE UNCHANGED vars
  <2>1. UNCHANGED <<registry, peerId, readyState, lost, up, socket>>
    BY <1>3 DEF vars, serverVars, clientVars
  <2>2. Sockets'
    BY <2>1, CalmSockets
  <2>3. TypeOK'
    BY <1>3 DEF vars, serverVars, clientVars, Inv, TypeOK, ServerTypeOK
  <2> QED
    BY <2>2, <2>3 DEF Inv, Sockets
<1> QED
  BY <1>1, <1>2, <1>3 DEF Next

LEMMA Invariance == Spec => []Inv
BY InitInv, NextInv, PTL DEF Spec

-----------------------------------------------------------------------------
\* The variables keep their types.
THEOREM TypeCorrect == Spec => []TypeOK
<1>1. Inv => TypeOK
  BY DEF Inv
<1> QED
  BY <1>1, Invariance, PTL

\* The map peers and ws.peerId (server.js:136-138, 38-44) always agree: a
\* peer is registered on one living socket and no other socket speaks for it.
THEOREM RegistryConsistent == Spec => []OneSocketPerPeer
<1>1. Inv => OneSocketPerPeer
  BY DEF Inv
<1> QED
  BY <1>1, Invariance, PTL

LEMMA CurrentAtRest == Inv => RegistryIsCurrent
<1> SUFFICES ASSUME Inv, AtRest, NEW p \in Peer
             PROVE  registry[p] = socket[p]
  BY SocketTypes DEF Inv, RegistryIsCurrent
<1>1. ASSUME socket[p] # NoSocket
      PROVE  registry[p] = socket[p]
  <2>1. socket[p] \in Socket /\ OwnedBy(p, socket[p])
    BY <1>1, SocketTypes DEF Inv, OwnSocket
  <2>2. readyState[socket[p]] = "open" /\ ~lost[socket[p]] /\ up[socket[p]] = <<>>
    BY <1>1, <2>1 DEF AtRest
  <2> QED
    BY <2>1, <2>2 DEF OwnedBy, Inv, OneSocketPerPeer
<1>2. ASSUME registry[p] # NoSocket
      PROVE  registry[p] = socket[p]
  <2> DEFINE s == registry[p]
  <2>1. s \in Socket /\ peerId[s] = p /\ Living(s)
    BY <1>2, SocketTypes DEF Inv, OneSocketPerPeer, Living
  <2>2. readyState[s] = "open" /\ ~lost[s] /\ up[s] = <<>>
    BY <2>1, SocketTypes DEF Living, AtRest, Inv
  <2>3. Len(up[s]) = 0
    BY <2>2
  <2>4. PICK q \in Peer : socket[q] = s
    BY <2>1, <2>2, <2>3 DEF Inv, Attached
  <2>5. peerId[s] \in {q, NoPeer}
    BY <2>1, <2>4, SocketTypes DEF Inv, OwnSocket, OwnedBy
  <2> QED
    BY <2>1, <2>4, <2>5, SocketTypes DEF Inv
<1> QED
  BY <1>1, <1>2

\* Whenever everything sent has been handled and every broken connection was
\* noticed, the registry names exactly the sockets the pages have now.
THEOREM RegistryCurrent == Spec => []RegistryIsCurrent
BY CurrentAtRest, Invariance, PTL

-----------------------------------------------------------------------------
LEMMA ConnectedListedStep ==
  ASSUME TypeOK, ConnectedIsListed, [Next]_vars
  PROVE  ConnectedIsListed'
<1>1. CASE UNCHANGED clientVars
  BY <1>1 DEF clientVars, ConnectedIsListed
<1>2. ASSUME NEW p \in Peer, Client(p)
      PROVE  ConnectedIsListed'
  <2>1. CASE \E s \in Socket : Connect(p, s)
    BY <2>1 DEF Connect, ConnectedIsListed
  <2>2. CASE OnClose(p)
    BY <2>2 DEF OnClose, ConnectedIsListed
  <2>3. CASE ClosePage(p)
    BY <2>3 DEF ClosePage, ConnectedIsListed, TypeOK, NoChannels
  <2>4. CASE Receive(p)
    <3> DEFINE m == Head(down[socket[p]])
    <3>1. CASE ReceiveList(p, m)
      BY <3>1 DEF ReceiveList, Reconciled, ConnectedIsListed, TypeOK
    <3>2. CASE ReceiveJoined(p, m)
      BY <3>2 DEF ReceiveJoined, ConnectedIsListed, TypeOK
    <3>3. CASE ReceiveLeft(p, m)
      BY <3>3 DEF ReceiveLeft, ConnectedIsListed, TypeOK
    <3> QED
      BY <2>4, <3>1, <3>2, <3>3 DEF Receive
  <2>5. ASSUME NEW q \in Peer, Negotiate(p, q)
        PROVE  ConnectedIsListed'
    BY <2>5 DEF Negotiate, ConnectedIsListed, TypeOK
  <2>6. ASSUME NEW q \in Peer, OpenChannel(p, q)
        PROVE  ConnectedIsListed'
    BY <2>6 DEF OpenChannel, Listed, ConnectedIsListed, TypeOK
  <2>7. ASSUME NEW q \in Peer, LoseChannel(p, q)
        PROVE  ConnectedIsListed'
    BY <2>7 DEF LoseChannel, ConnectedIsListed, TypeOK
  <2>8. ASSUME NEW q \in Peer, FinishCleanup(p, q)
        PROVE  ConnectedIsListed'
    BY <2>8 DEF FinishCleanup, ConnectedIsListed, TypeOK
  <2> QED
    BY <1>2, <2>1, <2>2, <2>3, <2>4, <2>5, <2>6, <2>7, <2>8 DEF Client
<1> QED
  BY <1>1, <1>2 DEF Next, vars, clientVars

\* A page lists everybody it has an open data channel to, whatever snapshots,
\* joins and leaves arrive (signaling.js:62-82), unless it is about to close it.
THEOREM ConnectedStaysListed == Spec => []ConnectedIsListed
<1>1. Init => ConnectedIsListed
  BY DEF Init, NoChannels, ConnectedIsListed
<1>2. TypeOK /\ ConnectedIsListed /\ [Next]_vars => ConnectedIsListed'
  BY ConnectedListedStep
<1> QED
  BY <1>1, <1>2, TypeCorrect, PTL DEF Spec

-----------------------------------------------------------------------------
(* What the messages under way to a page make of its list *)

\* Handling the message m puts q on the list, or takes q off it unless the page
\* is connected to q.
Lists(m, q) == m.type \in {"peer-list", "peer-joined"} /\ q \in m.peers
Drops(m, q) ==
  \/ m.type = "peer-list" /\ q \notin m.peers
  \/ m.type = "peer-left" /\ q \in m.peers

\* After the messages ms, q will be on a list that is known now, or off it.
WillList(q, known, ms) ==
  \/ q \in known /\ \A i \in 1 .. Len(ms) : ~Drops(ms[i], q)
  \/ \E i \in 1 .. Len(ms) :
       Lists(ms[i], q) /\ \A j \in 1 .. Len(ms) : j > i => ~Drops(ms[j], q)
WillDrop(q, known, ms) ==
  \/ q \notin known /\ \A i \in 1 .. Len(ms) : ~Lists(ms[i], q)
  \/ \E i \in 1 .. Len(ms) :
       Drops(ms[i], q) /\ \A j \in 1 .. Len(ms) : j > i => ~Lists(ms[j], q)

Asks(s) == \E i \in 1 .. Len(up[s]) : up[s][i].type = "discover"

\* The server has answered the page p, and sends it all news.
Informed(p) ==
  /\ socket[p] # NoSocket
  /\ readyState[socket[p]] = "open"
  /\ registry[p] = socket[p]
  /\ ~Asks(socket[p])

\* The list of p will be right about every other peer.
View(p) ==
  \A q \in Peer \ {p} :
    /\ q \in Registered => WillList(q, discovered[p], down[socket[p]])
    /\ q \notin Registered => q \in met[p] \/ WillDrop(q, discovered[p], down[socket[p]])

\* ... of every page that was answered, as long as no list is cut.
Views ==
  Cardinality(Peer) <= MAX_PEERS + 1 => \A p \in Peer : Informed(p) => View(p)

\* A page asks for the list right after it registers.
ThenAsks ==
  \A s \in Socket : \A i \in 1 .. Len(up[s]) :
    up[s][i].type = "register" => 2 \in 1 .. Len(up[s]) /\ up[s][2].type = "discover"

\* No snapshot a page is sent holds the page itself.
NotItself ==
  \A p \in Peer : socket[p] # NoSocket =>
    \A i \in 1 .. Len(down[socket[p]]) :
      down[socket[p]][i].type = "peer-list" => p \notin down[socket[p]][i].peers

\* Only who was met can be connected to.
OpenIsMet == \A p, q \in Peer : channel[p][q] = "open" => q \in met[p]

LEMMA ListsOrDrops ==
  ASSUME NEW m, NEW q
  PROVE  ~(Lists(m, q) /\ Drops(m, q))
BY DEF Lists, Drops

\* What a further message changes
LEMMA AppendLists ==
  ASSUME NEW ms \in Seq(ToBrowser), NEW m \in ToBrowser, NEW q, NEW known
  PROVE  /\ Lists(m, q) => WillList(q, known, Append(ms, m))
         /\ WillList(q, known, ms) /\ ~Drops(m, q) => WillList(q, known, Append(ms, m))
<1> DEFINE t == Append(ms, m)
<1>1. /\ Len(ms) \in Nat /\ Len(t) = Len(ms) + 1 /\ t[Len(ms) + 1] = m
      /\ \A i \in 1 .. Len(ms) : t[i] = ms[i]
  BY AppendOf
<1> HIDE DEF t
<1>2. ASSUME Lists(m, q) PROVE WillList(q, known, t)
  BY <1>1, <1>2 DEF WillList
<1>3. ASSUME WillList(q, known, ms), ~Drops(m, q) PROVE WillList(q, known, t)
  <2>1. \A j \in 1 .. Len(t) : j \in 1 .. Len(ms) \/ j = Len(ms) + 1
    BY <1>1
  <2>2. CASE q \in known /\ \A i \in 1 .. Len(ms) : ~Drops(ms[i], q)
    BY <1>1, <1>3, <2>1, <2>2 DEF WillList
  <2>3. ASSUME NEW i \in 1 .. Len(ms), Lists(ms[i], q),
               \A j \in 1 .. Len(ms) : j > i => ~Drops(ms[j], q)
        PROVE  WillList(q, known, t)
    <3>1. i \in 1 .. Len(t) /\ Lists(t[i], q)
      BY <1>1, <2>3
    <3>2. \A j \in 1 .. Len(t) : j > i => ~Drops(t[j], q)
      BY <1>1, <1>3, <2>1, <2>3
    <3> QED
      BY <3>1, <3>2 DEF WillList
  <2> QED
    BY <1>3, <2>2, <2>3 DEF WillList
<1> QED
  BY <1>2, <1>3 DEF t

LEMMA AppendDrops ==
  ASSUME NEW ms \in Seq(ToBrowser), NEW m \in ToBrowser, NEW q, NEW known
  PROVE  /\ Drops(m, q) => WillDrop(q, known, Append(ms, m))
         /\ WillDrop(q, known, ms) /\ ~Lists(m, q) => WillDrop(q, known, Append(ms, m))
<1> DEFINE t == Append(ms, m)
<1>1. /\ Len(ms) \in Nat /\ Len(t) = Len(ms) + 1 /\ t[Len(ms) + 1] = m
      /\ \A i \in 1 .. Len(ms) : t[i] = ms[i]
  BY AppendOf
<1> HIDE DEF t
<1>2. ASSUME Drops(m, q) PROVE WillDrop(q, known, t)
  BY <1>1, <1>2 DEF WillDrop
<1>3. ASSUME WillDrop(q, known, ms), ~Lists(m, q) PROVE WillDrop(q, known, t)
  <2>1. \A j \in 1 .. Len(t) : j \in 1 .. Len(ms) \/ j = Len(ms) + 1
    BY <1>1
  <2>2. CASE q \notin known /\ \A i \in 1 .. Len(ms) : ~Lists(ms[i], q)
    BY <1>1, <1>3, <2>1, <2>2 DEF WillDrop
  <2>3. ASSUME NEW i \in 1 .. Len(ms), Drops(ms[i], q),
               \A j \in 1 .. Len(ms) : j > i => ~Lists(ms[j], q)
        PROVE  WillDrop(q, known, t)
    <3>1. i \in 1 .. Len(t) /\ Drops(t[i], q)
      BY <1>1, <2>3
    <3>2. \A j \in 1 .. Len(t) : j > i => ~Lists(t[j], q)
      BY <1>1, <1>3, <2>1, <2>3
    <3> QED
      BY <3>1, <3>2 DEF WillDrop
  <2> QED
    BY <1>3, <2>2, <2>3 DEF WillDrop
<1> QED
  BY <1>2, <1>3 DEF t

\* What handling the first message changes
LEMMA TailLists ==
  ASSUME NEW ms \in Seq(ToBrowser), ms # <<>>, NEW q, NEW known, NEW after,
         WillList(q, known, ms),
         Lists(Head(ms), q) => q \in after,
         q \in known /\ ~Drops(Head(ms), q) => q \in after
  PROVE  WillList(q, after, Tail(ms))
<1> DEFINE t == Tail(ms)
<1>1. /\ Head(ms) = ms[1] /\ Len(ms) \in Nat \ {0} /\ Len(t) = Len(ms) - 1
      /\ \A i \in 1 .. Len(t) : i + 1 \in 1 .. Len(ms) /\ t[i] = ms[i + 1]
  BY TailOf
<1> HIDE DEF t
<1>2. CASE q \in known /\ \A i \in 1 .. Len(ms) : ~Drops(ms[i], q)
  <2>1. q \in after
    BY <1>1, <1>2
  <2> QED
    BY <1>1, <1>2, <2>1 DEF WillList, t
<1>3. ASSUME NEW i \in 1 .. Len(ms), Lists(ms[i], q),
             \A j \in 1 .. Len(ms) : j > i => ~Drops(ms[j], q)
      PROVE  WillList(q, after, t)
  <2>1. CASE i = 1
    <3>1. \A j \in 1 .. Len(t) : ~Drops(t[j], q)
      BY <1>1, <1>3, <2>1
    <3> QED
      BY <1>1, <1>3, <2>1, <3>1 DEF WillList
  <2>2. CASE i # 1
    <3>1. PICK k \in 1 .. Len(t) : i = k + 1
      <4>1. i - 1 \in 1 .. Len(t) /\ i = (i - 1) + 1
        BY <1>1, <2>2
      <4> QED
        BY <4>1
    <3>2. Lists(t[k], q)
      BY <1>1, <1>3, <3>1
    <3>3. \A j \in 1 .. Len(t) : j > k => ~Drops(t[j], q)
      BY <1>1, <1>3, <3>1
    <3> QED
      BY <3>2, <3>3 DEF WillList
  <2> QED
    BY <2>1, <2>2
<1> QED
  BY <1>2, <1>3 DEF WillList, t

LEMMA TailDrops ==
  ASSUME NEW ms \in Seq(ToBrowser), ms # <<>>, NEW q, NEW known, NEW after,
         WillDrop(q, known, ms),
         Drops(Head(ms), q) => q \notin after,
         q \notin known /\ ~Lists(Head(ms), q) => q \notin after
  PROVE  WillDrop(q, after, Tail(ms))
<1> DEFINE t == Tail(ms)
<1>1. /\ Head(ms) = ms[1] /\ Len(ms) \in Nat \ {0} /\ Len(t) = Len(ms) - 1
      /\ \A i \in 1 .. Len(t) : i + 1 \in 1 .. Len(ms) /\ t[i] = ms[i + 1]
  BY TailOf
<1> HIDE DEF t
<1>2. CASE q \notin known /\ \A i \in 1 .. Len(ms) : ~Lists(ms[i], q)
  <2>1. q \notin after
    BY <1>1, <1>2
  <2> QED
    BY <1>1, <1>2, <2>1 DEF WillDrop, t
<1>3. ASSUME NEW i \in 1 .. Len(ms), Drops(ms[i], q),
             \A j \in 1 .. Len(ms) : j > i => ~Lists(ms[j], q)
      PROVE  WillDrop(q, after, t)
  <2>1. CASE i = 1
    <3>1. \A j \in 1 .. Len(t) : ~Lists(t[j], q)
      BY <1>1, <1>3, <2>1
    <3> QED
      BY <1>1, <1>3, <2>1, <3>1 DEF WillDrop
  <2>2. CASE i # 1
    <3>1. PICK k \in 1 .. Len(t) : i = k + 1
      <4>1. i - 1 \in 1 .. Len(t) /\ i = (i - 1) + 1
        BY <1>1, <2>2
      <4> QED
        BY <4>1
    <3>2. Drops(t[k], q)
      BY <1>1, <1>3, <3>1
    <3>3. \A j \in 1 .. Len(t) : j > k => ~Lists(t[j], q)
      BY <1>1, <1>3, <3>1
    <3> QED
      BY <3>2, <3>3 DEF WillDrop
  <2> QED
    BY <2>1, <2>2
<1> QED
  BY <1>2, <1>3 DEF WillDrop, t

\* A list of all peers but the page itself is not cut.
LEMMA NotCut ==
  ASSUME IsFiniteSet(Peer), Cardinality(Peer) <= MAX_PEERS + 1,
         NEW p \in Peer, NEW ps \in SUBSET (Peer \ {p}),
         NEW snapshot \in kSubset(Min({MAX_PEERS, Cardinality(ps)}), ps)
  PROVE  snapshot = ps
<1>1. IsFiniteSet(ps) /\ Cardinality(ps) \in Nat /\ Cardinality(ps) <= MAX_PEERS
  <2>1. IsFiniteSet(Peer \ {p}) /\ Cardinality(Peer \ {p}) = Cardinality(Peer) - 1
    BY FS_RemoveElement
  <2>2. IsFiniteSet(ps) /\ Cardinality(ps) <= Cardinality(Peer \ {p})
    BY <2>1, FS_Subset
  <2>3. Cardinality(ps) \in Nat /\ Cardinality(Peer) \in Nat
    BY <2>2, FS_CardinalityType
  <2> QED
    BY <2>1, <2>2, <2>3, MaxPeersAssumption
<1>2. Min({MAX_PEERS, Cardinality(ps)}) = Cardinality(ps)
  BY <1>1, MaxPeersAssumption DEF Min
<1>3. snapshot \subseteq ps /\ Cardinality(snapshot) = Cardinality(ps)
  BY <1>2 DEF kSubset
<1> QED
  BY <1>1, <1>3, FS_Subset
-----------------------------------------------------------------------------
(* The invariant of the lists *)

Talk ==
  /\ ThenAsks
  /\ NotItself
  /\ OpenIsMet
  /\ Views

\* A page that knows no less and is told the same
LEMMA SameView ==
  ASSUME NEW p \in Peer, View(p),
         UNCHANGED <<registry, discovered[p], met[p], socket[p], down[socket[p]]>>
  PROVE  View(p)'
BY DEF View, Registered

\* An informed page is registered on its own open socket.
LEMMA InformedPage ==
  ASSUME Inv, NEW p \in Peer, Informed(p)
  PROVE  /\ socket[p] \in Socket
         /\ readyState[socket[p]] = "open"
         /\ registry[p] = socket[p]
         /\ peerId[socket[p]] = p
         /\ down[socket[p]] \in Seq(ToBrowser)
<1>1. socket[p] \in Socket
  BY SocketTypes DEF Inv, Informed
<1> QED
  BY <1>1 DEF Inv, OneSocketPerPeer, Informed, TypeOK, ServerTypeOK

\* The server takes the first message of a socket.
LEMMA RegisterThenAsks ==
  ASSUME Inv, ThenAsks, NEW s \in Socket, up[s] # <<>>,
         up' = [up EXCEPT ![s] = Tail(@)]
  PROVE  ThenAsks'
<1>1. up[s] \in Seq(ToServer) /\ up'[s] = Tail(up[s])
  BY DEF Inv, TypeOK, ServerTypeOK
<1>2. \A i \in 1 .. Len(up'[s]) : up'[s][i].type # "register"
  <2>1. \A i \in 1 .. Len(up'[s]) : i + 1 \in 1 .. Len(up[s]) /\ up'[s][i] = up[s][i + 1]
                                    /\ i + 1 # 1
    <3>1. Len(up[s]) \in Nat \ {0} /\ Len(up'[s]) = Len(up[s]) - 1
      BY <1>1, TailOf
    <3> QED
      BY <1>1, <3>1, TailOf
  <2> QED
    BY <2>1 DEF Inv, RegistersFirst
<1>3. \A t \in Socket \ {s} : up'[t] = up[t]
  BY DEF Inv, TypeOK, ServerTypeOK
<1> QED
  BY <1>2, <1>3 DEF ThenAsks

\* Registered pages are told of the new one; the page that registers has not
\* been answered yet.
LEMMA HandleRegisterTalk ==
  ASSUME Inv, Talk, NEW s \in Socket, HandleRegister(s), UNCHANGED clientVars
  PROVE  Talk'
<1> DEFINE p == Head(up[s]).peer
<1>1. up[s] \in Seq(ToServer) /\ up[s] # <<>>
  BY DEF Inv, TypeOK, ServerTypeOK, HandleRegister
<1>2. /\ p \in Peer /\ Living(s) /\ peerId[s] = NoPeer
      /\ up[s][1].type = "register" /\ 1 \in 1 .. Len(up[s])
  <2>1. Head(up[s]) = up[s][1] /\ 1 \in 1 .. Len(up[s])
    BY <1>1, TailOf
  <2> QED
    BY <1>1, <2>1 DEF Inv, RegistersFirst, HandleRegister
<1>3. /\ up' = [up EXCEPT ![s] = Tail(up[s])]
      /\ registry' = [registry EXCEPT ![p] = s]
      /\ readyState' = [t \in Socket |->
           IF t = registry[p] /\ t # s /\ readyState[t] = "open"
           THEN "closing" ELSE readyState[t]]
      /\ down' = [t \in Socket |->
           IF t = registry[p] /\ t # s /\ readyState[t] = "open"
           THEN Append(down[t], CloseFrame) ELSE Joined(s, p)[t]]
      /\ UNCHANGED <<socket, discovered, channel, met>>
  BY DEF HandleRegister, clientVars
<1> HIDE DEF p
<1>4. ThenAsks'
  BY <1>1, <1>3, RegisterThenAsks DEF Talk
<1>5. \A t \in Socket : \/ down'[t] = down[t]
                        \/ down'[t] = Append(down[t], CloseFrame)
                        \/ down'[t] = Append(down[t], PeerJoined(p))
  BY <1>3 DEF Joined, Send
<1>6. NotItself'
  <2> SUFFICES ASSUME NEW q \in Peer, socket[q] # NoSocket,
                      NEW i \in 1 .. Len(down'[socket[q]]),
                      down'[socket[q]][i].type = "peer-list"
               PROVE  q \notin down'[socket[q]][i].peers
    BY <1>3 DEF NotItself
  <2>1. socket[q] \in Socket /\ down[socket[q]] \in Seq(ToBrowser)
    BY SocketTypes DEF Inv, TypeOK, ServerTypeOK
  <2>2. i \in 1 .. Len(down[socket[q]]) /\ down'[socket[q]][i] = down[socket[q]][i]
    <3>1. CASE down'[socket[q]] = down[socket[q]]
      BY <3>1
    <3>2. ASSUME NEW m \in {CloseFrame, PeerJoined(p)},
                 down'[socket[q]] = Append(down[socket[q]], m)
          PROVE  i \in 1 .. Len(down[socket[q]]) /\ down'[socket[q]][i] = down[socket[q]][i]
      <4>1. m \in ToBrowser /\ m.type # "peer-list"
        <5>1. m \in ToBrowser
          BY <1>2, <3>2, MessageTypes
        <5>2. m.type # "peer-list"
          BY <3>2 DEF CloseFrame, PeerJoined
        <5> QED
          BY <5>1, <5>2
      <4>2. /\ Len(down[socket[q]]) \in Nat
            /\ Len(down'[socket[q]]) = Len(down[socket[q]]) + 1
            /\ \A j \in 1 .. Len(down[socket[q]]) : down'[socket[q]][j] = down[socket[q]][j]
            /\ down'[socket[q]][Len(down[socket[q]]) + 1] = m
        BY <2>1, <3>2, <4>1, AppendOf
      <4> QED
        BY <4>1, <4>2
    <3> QED
      BY <1>5, <2>1, <3>1, <3>2
  <2> QED
    BY <2>2 DEF Talk, NotItself
<1>7. OpenIsMet'
  BY <1>3 DEF Talk, OpenIsMet
<1>8. ASSUME Cardinality(Peer) <= MAX_PEERS + 1, NEW q \in Peer, Informed(q)'
      PROVE  View(q)'
  <2> DEFINE t == socket[q]
  <2>1. t \in Socket /\ t' = t /\ t # NoSocket
    BY <1>3, <1>8, SocketTypes DEF Informed, Inv
  <2>2. up'[s] = Tail(up[s]) /\ 2 \in 1 .. Len(up[s]) /\ up[s][2].type = "discover"
    BY <1>2, <1>3, SocketTypes DEF Inv, Talk, ThenAsks
  <2>3. 1 \in 1 .. Len(up'[s]) /\ up'[s][1].type = "discover"
    <3>1. Len(up[s]) \in Nat /\ Len(up'[s]) = Len(up[s]) - 1
      BY <1>1, <2>2, TailOf
    <3>2. 1 \in 1 .. Len(up'[s])
      BY <2>2, <3>1
    <3>3. up'[s][1] = up[s][1 + 1]
      BY <1>1, <2>2, <3>2, TailOf
    <3> QED
      BY <2>2, <3>2, <3>3
  <2>4. t # s
    BY <1>8, <2>1, <2>3 DEF Informed, Asks
  <2>5. q # p
    BY <1>2, <1>3, <1>8, <2>1, <2>4, SocketTypes DEF Informed, Inv
  <2>6. registry[q] = t /\ readyState[t] = "open" /\ up'[t] = up[t]
    BY <1>3, <1>8, <2>1, <2>4, <2>5, SocketTypes DEF Informed, Inv
  <2>7. Informed(q)
    BY <1>8, <2>1, <2>6 DEF Informed, Asks
  <2>8. peerId[t] = q /\ down[t] \in Seq(ToBrowser)
    BY <2>7, InformedPage
  <2>9. t # registry[p]
    BY <1>2, <2>1, <2>5, <2>8 DEF Inv, OneSocketPerPeer
  <2>10. down'[t] = Append(down[t], PeerJoined(p))
    <3>1. t \in {registry[r] : r \in Peer \ {p}} \ {NoSocket}
      BY <2>1, <2>5, <2>6
    <3>2. Joined(s, p)[t] = Append(down[t], PeerJoined(p))
      BY <2>1, <2>6, <3>1 DEF Joined, Send
    <3> QED
      BY <1>3, <2>1, <2>9, <3>2
  <2>11. PeerJoined(p) \in ToBrowser
    BY <1>2, MessageTypes
  <2> HIDE DEF t
  <2>12. View(q)
    BY <1>8, <2>7 DEF Talk, Views
  <2> SUFFICES ASSUME NEW r \in Peer \ {q}
               PROVE  /\ r \in Registered' => WillList(r, discovered[q], down'[t])
                      /\ r \notin Registered' => r \in met[q]
                                                 \/ WillDrop(r, discovered[q], down'[t])
    BY <1>3, <2>1 DEF View, t
  <2>13. CASE r = p
    <3>1. Lists(PeerJoined(p), r)
      BY <2>13 DEF Lists, PeerJoined
    <3>2. r \in Registered'
      BY <1>2, <1>3, <2>13, SocketTypes DEF Registered, Inv
    <3> QED
      BY <2>8, <2>10, <2>11, <3>1, <3>2, AppendLists
  <2>14. CASE r # p
    <3>1. ~Lists(PeerJoined(p), r) /\ ~Drops(PeerJoined(p), r)
      BY <2>14 DEF Lists, Drops, PeerJoined
    <3>2. r \in Registered' <=> r \in Registered
      BY <1>3, <2>14, SocketTypes DEF Registered, Inv
    <3>3. /\ r \in Registered => WillList(r, discovered[q], down[t])
          /\ r \notin Registered => r \in met[q] \/ WillDrop(r, discovered[q], down[t])
      BY <2>12 DEF View, t
    <3> QED
      BY <2>8, <2>10, <2>11, <3>1, <3>2, <3>3, AppendLists, AppendDrops
  <2> QED
    BY <2>13, <2>14
<1> QED
  BY <1>4, <1>6, <1>7, <1>8 DEF Talk, Views

\* The answer says of every peer whether it is registered now.
LEMMA HandleDiscoverTalk ==
  ASSUME Inv, Talk, NEW s \in Socket, HandleDiscover(s), UNCHANGED clientVars
  PROVE  Talk'
<1>1. /\ up[s] # <<>> /\ up' = [up EXCEPT ![s] = Tail(@)]
      /\ UNCHANGED <<registry, peerId, readyState, socket, discovered, channel, met>>
  BY DEF HandleDiscover, clientVars
<1>2. ThenAsks'
  BY <1>1, RegisterThenAsks DEF Talk
<1> DEFINE m == PeerList(Others(s))
<1>3. m \in ToBrowser
  BY MessageTypes DEF Others, Registered
<1>4. \A t \in Socket : \/ down'[t] = down[t]
                        \/ t = s /\ peerId[s] # NoPeer /\ down'[t] = Append(down[t], m)
  BY DEF HandleDiscover, Send
<1>5. NotItself'
  <2> SUFFICES ASSUME NEW q \in Peer, socket[q] # NoSocket,
                      NEW i \in 1 .. Len(down'[socket[q]]),
                      down'[socket[q]][i].type = "peer-list"
               PROVE  q \notin down'[socket[q]][i].peers
    BY <1>1 DEF NotItself
  <2>1. socket[q] \in Socket /\ down[socket[q]] \in Seq(ToBrowser)
    BY SocketTypes DEF Inv, TypeOK, ServerTypeOK
  <2>2. CASE down'[socket[q]] = down[socket[q]]
    BY <2>2 DEF Talk, NotItself
  <2>3. CASE socket[q] = s /\ peerId[s] # NoPeer /\ down'[s] = Append(down[s], m)
    <3>1. peerId[s] = q
      BY <2>3 DEF Inv, OwnSocket, OwnedBy
    <3>2. q \notin m.peers
      BY <3>1 DEF PeerList, Others
    <3>3. /\ Len(down[s]) \in Nat
          /\ Len(down'[s]) = Len(down[s]) + 1
          /\ \A j \in 1 .. Len(down[s]) : down'[s][j] = down[s][j]
          /\ down'[s][Len(down[s]) + 1] = m
      BY <1>3, <2>1, <2>3, AppendOf
    <3>4. CASE i \in 1 .. Len(down[s])
      BY <2>3, <3>3, <3>4 DEF Talk, NotItself
    <3>5. CASE i = Len(down[s]) + 1
      BY <2>3, <3>2, <3>3, <3>5
    <3> QED
      BY <2>3, <3>3, <3>4, <3>5
  <2> QED
    BY <1>4, <2>1, <2>2, <2>3
<1>6. OpenIsMet'
  BY <1>1 DEF Talk, OpenIsMet
<1>7. ASSUME Cardinality(Peer) <= MAX_PEERS + 1, NEW q \in Peer, Informed(q)'
      PROVE  View(q)'
  <2> DEFINE t == socket[q]
  <2>1. t \in Socket /\ t' = t /\ registry[q] = t /\ readyState[t] = "open"
    BY <1>1, <1>7, SocketTypes DEF Informed, Inv
  <2>2. peerId[t] = q /\ down[t] \in Seq(ToBrowser)
    BY <2>1 DEF Inv, OneSocketPerPeer, TypeOK, ServerTypeOK
  <2>3. CASE t = s
    <3>1. down'[t] = Append(down[t], m) /\ Others(s) = Registered \ {q}
      BY <2>1, <2>2, <2>3, NoneAssumption DEF HandleDiscover, Send, Others
    <3> HIDE DEF t, m
    <3> SUFFICES ASSUME NEW r \in Peer \ {q}
                 PROVE  /\ r \in Registered => WillList(r, discovered[q], down'[t])
                        /\ r \notin Registered => WillDrop(r, discovered[q], down'[t])
      BY <1>1, <2>1 DEF View, t, Registered
    <3>2. /\ r \in Registered => Lists(m, r)
          /\ r \notin Registered => Drops(m, r)
      BY <3>1 DEF m, PeerList, Lists, Drops
    <3> QED
      BY <1>3, <2>2, <3>1, <3>2, AppendLists, AppendDrops
  <2>4. CASE t # s
    <3>1. up'[t] = up[t] /\ down'[t] = down[t]
      BY <1>1, <1>4, <2>1, <2>4, SocketTypes DEF Inv
    <3>2. Informed(q)
      BY <1>1, <1>7, <2>1, <3>1 DEF Informed, Asks
    <3>3. View(q)
      BY <1>7, <3>2 DEF Talk, Views
    <3> QED
      BY <1>1, <2>1, <3>1, <3>3, SameView
  <2> QED
    BY <2>3, <2>4
<1> QED
  BY <1>2, <1>5, <1>6, <1>7 DEF Talk, Views

\* A peer is removed: the registered pages are told, except those whose sockets
\* have ended.
LEMMA EndTalk ==
  ASSUME Inv, Talk, NEW s \in Socket, RemovePeer(s),
         readyState' = [readyState EXCEPT ![s] = "closed"],
         up' = [up EXCEPT ![s] = <<>>],
         UNCHANGED clientVars
  PROVE  Talk'
<1> DEFINE p == peerId[s]
           m == PeerLeft(p)
<1>1. UNCHANGED <<socket, discovered, channel, met>>
  BY DEF clientVars
<1>2. ThenAsks'
  <2>1. up'[s] = <<>> /\ \A t \in Socket \ {s} : up'[t] = up[t]
    BY SocketTypes DEF Inv
  <2> QED
    BY <2>1 DEF Talk, ThenAsks
<1>3. \/ UNCHANGED <<registry, down>>
      \/ /\ p \in Peer /\ registry[p] = s
         /\ registry' = [registry EXCEPT ![p] = NoSocket]
         /\ down' = Send({registry[q] : q \in Peer} \ {NoSocket, s}, m)
  BY SocketTypes DEF RemovePeer, Inv
<1>4. \A t \in Socket : \/ down'[t] = down[t]
                        \/ p \in Peer /\ down'[t] = Append(down[t], m)
  BY <1>3 DEF Send
<1>5. p \in Peer => m \in ToBrowser /\ m.type = "peer-left"
  BY MessageTypes DEF PeerLeft
<1>6. NotItself'
  <2> SUFFICES ASSUME NEW q \in Peer, socket[q] # NoSocket,
                      NEW i \in 1 .. Len(down'[socket[q]]),
                      down'[socket[q]][i].type = "peer-list"
               PROVE  q \notin down'[socket[q]][i].peers
    BY <1>1 DEF NotItself
  <2>1. socket[q] \in Socket /\ down[socket[q]] \in Seq(ToBrowser)
    BY SocketTypes DEF Inv, TypeOK, ServerTypeOK
  <2>2. CASE down'[socket[q]] = down[socket[q]]
    BY <2>2 DEF Talk, NotItself
  <2>3. CASE p \in Peer /\ down'[socket[q]] = Append(down[socket[q]], m)
    <3> HIDE DEF m, p
    <3>1. /\ Len(down[socket[q]]) \in Nat
          /\ Len(down'[socket[q]]) = Len(down[socket[q]]) + 1
          /\ \A j \in 1 .. Len(down[socket[q]]) : down'[socket[q]][j] = down[socket[q]][j]
          /\ down'[socket[q]][Len(down[socket[q]]) + 1] = m
      BY <1>5, <2>1, <2>3, AppendOf
    <3>2. i \in 1 .. Len(down[socket[q]])
      BY <1>5, <2>3, <3>1
    <3> QED
      BY <3>1, <3>2 DEF Talk, NotItself
  <2> QED
    BY <1>4, <2>1, <2>2, <2>3
<1>7. OpenIsMet'
  BY <1>1 DEF Talk, OpenIsMet
<1>8. ASSUME Cardinality(Peer) <= MAX_PEERS + 1, NEW q \in Peer, Informed(q)'
      PROVE  View(q)'
  <2> DEFINE t == socket[q]
  <2>1. t \in Socket /\ t' = t /\ t # NoSocket
    BY <1>1, <1>8, SocketTypes DEF Informed, Inv
  <2>2. t # s
    BY <1>8, <2>1, SocketTypes DEF Informed, Inv
  <2>3. readyState[t] = "open" /\ up'[t] = up[t] /\ registry[q] = t
    BY <1>3, <1>8, <2>1, <2>2, SocketTypes DEF Informed, Inv
  <2>4. Informed(q)
    BY <1>8, <2>1, <2>3 DEF Informed, Asks
  <2>5. View(q)
    BY <1>8, <2>4 DEF Talk, Views
  <2>6. CASE UNCHANGED <<registry, down>>
    BY <1>1, <2>5, <2>6, SameView
  <2>7. CASE /\ p \in Peer /\ registry[p] = s
             /\ registry' = [registry EXCEPT ![p] = NoSocket]
             /\ down' = Send({registry[r] : r \in Peer} \ {NoSocket, s}, m)
    <3>1. down'[t] = Append(down[t], m) /\ down[t] \in Seq(ToBrowser)
      BY <2>1, <2>2, <2>3, <2>4, <2>7, InformedPage DEF Send
    <3>2. m \in ToBrowser
      BY <1>5, <2>7
    <3> HIDE DEF t
    <3> SUFFICES ASSUME NEW r \in Peer \ {q}
                 PROVE  /\ r \in Registered' => WillList(r, discovered[q], down'[t])
                        /\ r \notin Registered' => r \in met[q]
                                                   \/ WillDrop(r, discovered[q], down'[t])
      BY <1>1, <2>1 DEF View, t
    <3>3. CASE r = p
      <4>1. Drops(m, r)
        BY <3>3 DEF Drops, PeerLeft
      <4>2. r \notin Registered'
        BY <2>7, <3>3, SocketTypes DEF Registered, Inv
      <4> QED
        BY <3>1, <3>2, <4>1, <4>2, AppendDrops
    <3>4. CASE r # p
      <4>1. ~Lists(m, r) /\ ~Drops(m, r)
        BY <3>4 DEF Lists, Drops, PeerLeft
      <4>2. r \in Registered' <=> r \in Registered
        BY <2>7, <3>4, SocketTypes DEF Registered, Inv
      <4>3. /\ r \in Registered => WillList(r, discovered[q], down[t])
            /\ r \notin Registered => r \in met[q] \/ WillDrop(r, discovered[q], down[t])
        BY <2>5 DEF View, t
      <4> HIDE DEF m
      <4> QED
        BY <3>1, <3>2, <4>1, <4>2, <4>3, AppendLists, AppendDrops
    <3> QED
      BY <3>3, <3>4
  <2> QED
    BY <1>3, <2>6, <2>7
<1> QED
  BY <1>2, <1>6, <1>7, <1>8 DEF Talk, Views

\* A closing socket may be told anything that is no list; all else is as it was.
LEMMA FaultTalk ==
  ASSUME Inv, Talk, UNCHANGED clientVars,
         (\E s \in Socket : RateLimit(s) \/ Lose(s)) \/ Restart
  PROVE  Talk'
<1>1. UNCHANGED <<socket, discovered, channel, met>>
  BY DEF clientVars
<1>2. OpenIsMet'
  BY <1>1 DEF Talk, OpenIsMet
<1>3. ASSUME NEW s \in Socket, RateLimit(s)
      PROVE  Talk'
  <2>1. /\ UNCHANGED <<registry, up>>
        /\ \A t \in Socket \ {s} : down'[t] = down[t] /\ readyState'[t] = readyState[t]
        /\ readyState'[s] = "closing" /\ down'[s] = Append(down[s], CloseFrame)
    BY <1>3, SocketTypes DEF RateLimit, Send, Inv
  <2>2. ThenAsks'
    BY <2>1 DEF Talk, ThenAsks
  <2>3. NotItself'
    <3> SUFFICES ASSUME NEW q \in Peer, socket[q] # NoSocket,
                        NEW i \in 1 .. Len(down'[socket[q]]),
                        down'[socket[q]][i].type = "peer-list"
                 PROVE  q \notin down'[socket[q]][i].peers
      BY <1>1 DEF NotItself
    <3>1. socket[q] \in Socket
      BY SocketTypes DEF Inv
    <3>2. CASE socket[q] # s
      BY <2>1, <3>1, <3>2 DEF Talk, NotItself
    <3>3. CASE socket[q] = s
      <4>1. /\ Len(down[s]) \in Nat
            /\ Len(down'[s]) = Len(down[s]) + 1
            /\ \A j \in 1 .. Len(down[s]) : down'[s][j] = down[s][j]
            /\ down'[s][Len(down[s]) + 1] = CloseFrame
        <5>1. down[s] \in Seq(ToBrowser)
          BY DEF Inv, TypeOK, ServerTypeOK
        <5> QED
          BY <2>1, <5>1, MessageTypes, AppendOf
      <4>2. i \in 1 .. Len(down[s])
        <5>1. CloseFrame.type # "peer-list"
          BY DEF CloseFrame
        <5> QED
          BY <3>3, <4>1, <5>1
      <4> QED
        BY <3>3, <4>1, <4>2 DEF Talk, NotItself
    <3> QED
      BY <3>2, <3>3
  <2>4. ASSUME Cardinality(Peer) <= MAX_PEERS + 1, NEW q \in Peer, Informed(q)'
        PROVE  View(q)'
    <3>1. socket[q] \in Socket \ {s}
      BY <1>1, <2>1, <2>4, SocketTypes DEF Informed, Inv
    <3>2. Informed(q)
      BY <1>1, <2>1, <2>4, <3>1 DEF Informed, Asks
    <3>3. View(q)
      BY <2>4, <3>2 DEF Talk, Views
    <3> QED
      BY <1>1, <2>1, <3>1, <3>3, SameView
  <2> QED
    BY <1>2, <2>2, <2>3, <2>4 DEF Talk, Views
<1>4. ASSUME NEW s \in Socket, Lose(s)
      PROVE  Talk'
  <2>1. UNCHANGED <<registry, readyState, up, down>>
    BY <1>4 DEF Lose
  <2>2. ThenAsks' /\ NotItself'
    BY <1>1, <2>1 DEF Talk, ThenAsks, NotItself
  <2>3. \A q \in Peer : Informed(q)' => Informed(q)
    BY <1>1, <2>1 DEF Informed, Asks
  <2>4. \A q \in Peer : View(q) => View(q)'
    BY <1>1, <2>1, SameView
  <2> QED
    BY <1>2, <2>2, <2>3, <2>4 DEF Talk, Views
<1>5. CASE Restart
  <2>1. UNCHANGED down /\ \A s \in Socket : up'[s] = <<>> /\ readyState'[s] # "open"
    BY <1>5 DEF Restart
  <2>2. ThenAsks' /\ NotItself'
    BY <1>1, <2>1 DEF Talk, ThenAsks, NotItself
  <2>3. \A q \in Peer : ~Informed(q)'
    BY <1>1, <2>1, SocketTypes DEF Informed, Inv
  <2> QED
    BY <1>2, <2>2, <2>3 DEF Talk, Views
<1> QED
  BY <1>3, <1>4, <1>5

\* Nothing is sent on a socket before it opens.
Fresh == \A s \in Socket : readyState[s] = "new" => down[s] = <<>>

LEMMA FreshStep ==
  ASSUME Inv, Fresh, [Next]_vars
  PROVE  Fresh'
<1> SUFFICES ASSUME NEW t \in Socket, readyState'[t] = "new"
             PROVE  readyState[t] = "new" /\ down'[t] \in {down[t], <<>>}
  BY DEF Fresh
<1>1. ASSUME NEW s \in Socket, HandleRegister(s)
      PROVE  readyState[t] = "new" /\ down'[t] = down[t]
  <2>1. readyState[t] = "new"
    BY <1>1, SocketTypes DEF HandleRegister, Inv
  <2> QED
    BY <1>1, <2>1 DEF HandleRegister, Joined, Send
<1>2. ASSUME NEW s \in Socket, HandleDiscover(s)
      PROVE  readyState[t] = "new" /\ down'[t] = down[t]
  BY <1>2 DEF HandleDiscover, Send
<1>3. ASSUME NEW s \in Socket, HandleClose(s) \/ Terminate(s)
      PROVE  readyState[t] = "new" /\ down'[t] = down[t]
  <2>1. readyState[t] = "new"
    BY <1>3, SocketTypes DEF HandleClose, Terminate, Inv
  <2> QED
    BY <1>3, <2>1 DEF HandleClose, Terminate, RemovePeer, Send
<1>4. ASSUME NEW s \in Socket, RateLimit(s) \/ Lose(s)
      PROVE  readyState[t] = "new" /\ down'[t] = down[t]
  <2>1. readyState[t] = "new"
    BY <1>4, SocketTypes DEF RateLimit, Lose, Inv
  <2> QED
    BY <1>4, <2>1 DEF RateLimit, Lose, Send
<1>5. CASE Restart
  BY <1>5 DEF Restart
<1>6. ASSUME NEW p \in Peer, Client(p)
      PROVE  readyState[t] = "new" /\ down'[t] \in {down[t], <<>>}
  <2>1. CASE \E s \in Socket : Connect(p, s)
    BY <2>1, SocketTypes DEF Connect, Inv
  <2>2. CASE Receive(p)
    <3>1. socket[p] # t
      BY <2>2 DEF Receive, Inv, OwnSocket, OwnedBy
    <3> QED
      BY <2>2, <3>1 DEF Receive, Inv, TypeOK, ServerTypeOK
  <2>3. CASE OnClose(p) \/ ClosePage(p)
    BY <2>3 DEF OnClose, ClosePage, Closed, Inv, TypeOK, ServerTypeOK
  <2>4. CASE \E q \in Peer : \/ Negotiate(p, q) \/ OpenChannel(p, q)
                             \/ LoseChannel(p, q) \/ FinishCleanup(p, q)
    BY <2>4 DEF Negotiate, OpenChannel, LoseChannel, FinishCleanup, serverVars
  <2> QED
    BY <1>6, <2>1, <2>2, <2>3, <2>4 DEF Client
<1>7. CASE UNCHANGED vars
  BY <1>7 DEF vars, serverVars
<1> QED
  BY <1>1, <1>2, <1>3, <1>4, <1>5, <1>6, <1>7 DEF Next, Server, HandleMessage

\* A new socket asks before anything else is under way on it.
LEMMA ConnectTalk ==
  ASSUME Inv, Fresh, Talk, NEW p \in Peer, NEW s \in Socket, Connect(p, s)
  PROVE  Talk'
<1>1. /\ socket' = [socket EXCEPT ![p] = s]
      /\ readyState[s] = "new" /\ readyState' = [readyState EXCEPT ![s] = "open"]
      /\ up' = [up EXCEPT ![s] = Hello(p)]
      /\ UNCHANGED <<registry, down, discovered, channel, met>>
  BY DEF Connect
<1>2. up'[s] = <<Register(p), Discover>> /\ \A t \in Socket \ {s} : up'[t] = up[t]
  BY <1>1, SocketTypes DEF Inv, Hello
<1>3. Len(up'[s]) = 2 /\ up'[s][2].type = "discover" /\ 2 \in 1 .. Len(up'[s])
  BY <1>2 DEF Discover
<1>4. ThenAsks'
  BY <1>2, <1>3 DEF Talk, ThenAsks
<1>5. OpenIsMet'
  BY <1>1 DEF Talk, OpenIsMet
<1>6. NotItself'
  <2>1. down[s] = <<>> /\ Len(down[s]) = 0
    BY <1>1 DEF Fresh
  <2> QED
    BY <1>1, <2>1, SocketTypes DEF Inv, Talk, NotItself
<1>7. ASSUME Cardinality(Peer) <= MAX_PEERS + 1, NEW q \in Peer, Informed(q)'
      PROVE  View(q)'
  <2>1. socket'[q] \in Socket /\ registry[q] = socket'[q]
    BY <1>1, <1>7, SocketTypes DEF Informed, Inv
  <2>2. socket'[q] # s
    BY <1>1, <2>1 DEF Inv, OneSocketPerPeer
  <2>3. socket'[q] = socket[q]
    BY <1>1, <2>2, SocketTypes DEF Inv
  <2>4. Informed(q)
    BY <1>1, <1>2, <1>7, <2>1, <2>2, <2>3, SocketTypes DEF Informed, Asks, Inv
  <2>5. View(q)
    BY <1>7, <2>4 DEF Talk, Views
  <2> QED
    BY <1>1, <2>3, <2>5, SameView
<1> QED
  BY <1>4, <1>5, <1>6, <1>7 DEF Talk, Views

\* The page p has no socket any more; the others keep theirs.
LEMMA ClosedTalk ==
  ASSUME Inv, Talk, NEW p \in Peer, socket[p] # NoSocket, Closed(p, socket[p]),
         OpenIsMet',
         \A q \in Peer \ {p} : discovered'[q] = discovered[q] /\ met'[q] = met[q]
  PROVE  Talk'
<1> DEFINE s == socket[p]
<1>1. /\ s \in Socket /\ socket' = [socket EXCEPT ![p] = NoSocket]
      /\ down' = [down EXCEPT ![s] = <<>>]
      /\ up' = IF lost[s] THEN up ELSE [up EXCEPT ![s] = Append(@, Close)]
      /\ UNCHANGED <<registry, readyState>>
  BY SocketTypes DEF Closed, Inv
<1>2. \A q \in Peer \ {p} : socket'[q] = socket[q] /\ socket[q] # s
  BY <1>1, SocketTypes DEF Inv, OwnSocket
<1>3. socket'[p] = NoSocket
  BY <1>1, SocketTypes DEF Inv
<1>4. \A t \in Socket \ {s} : up'[t] = up[t] /\ down'[t] = down[t]
  BY <1>1 DEF Inv, TypeOK, ServerTypeOK
<1>5. ThenAsks'
  <2>1. CASE lost[s]
    BY <1>1, <2>1 DEF Talk, ThenAsks
  <2>2. CASE ~lost[s]
    <3>1. up'[s] = Append(up[s], Close) /\ up[s] \in Seq(ToServer)
      BY <1>1, <2>2 DEF Inv, TypeOK, ServerTypeOK
    <3>2. /\ Len(up[s]) \in Nat /\ Len(up'[s]) = Len(up[s]) + 1
          /\ \A i \in 1 .. Len(up[s]) : up'[s][i] = up[s][i]
          /\ up'[s][Len(up[s]) + 1] = Close
      BY <3>1, MessageTypes, AppendOf
    <3>3. ASSUME NEW i \in 1 .. Len(up'[s]), up'[s][i].type = "register"
          PROVE  2 \in 1 .. Len(up'[s]) /\ up'[s][2].type = "discover"
      <4>1. i \in 1 .. Len(up[s])
        BY <3>2, <3>3 DEF Close
      <4>2. 2 \in 1 .. Len(up[s]) /\ up[s][2].type = "discover"
        BY <1>1, <3>2, <3>3, <4>1 DEF Talk, ThenAsks
      <4> QED
        BY <3>2, <4>2
    <3> QED
      BY <1>4, <3>3 DEF Talk, ThenAsks
  <2> QED
    BY <2>1, <2>2
<1>6. NotItself'
  <2> SUFFICES ASSUME NEW q \in Peer \ {p}, socket[q] # NoSocket
               PROVE  \A i \in 1 .. Len(down'[socket[q]]) :
                        down'[socket[q]][i].type = "peer-list"
                          => q \notin down'[socket[q]][i].peers
    BY <1>2, <1>3 DEF NotItself
  <2>1. down'[socket[q]] = down[socket[q]]
    BY <1>2, <1>4, SocketTypes DEF Inv
  <2> QED
    BY <2>1 DEF Talk, NotItself
<1>7. ASSUME Cardinality(Peer) <= MAX_PEERS + 1, NEW q \in Peer, Informed(q)'
      PROVE  View(q)'
  <2>1. q # p
    BY <1>3, <1>7 DEF Informed
  <2>2. socket[q] \in Socket \ {s} /\ socket'[q] = socket[q]
    BY <1>2, <1>7, <2>1, SocketTypes DEF Informed, Inv
  <2>3. up'[socket[q]] = up[socket[q]] /\ down'[socket[q]] = down[socket[q]]
    BY <1>4, <2>2
  <2>4. Informed(q)
    BY <1>1, <1>7, <2>2, <2>3 DEF Informed, Asks
  <2>5. View(q)
    BY <1>7, <2>4 DEF Talk, Views
  <2> QED
    BY <1>1, <2>1, <2>2, <2>3, <2>5, SameView
<1> QED
  BY <1>5, <1>6, <1>7 DEF Talk, Views

\* A message of the server takes effect: what is left will do the rest.
LEMMA ReceiveTalk ==
  ASSUME IsFiniteSet(Peer), Inv, Talk, NEW p \in Peer, Receive(p)
  PROVE  Talk'
<1> DEFINE s == socket[p]
           m == Head(down[s])
<1>1. /\ s \in Socket /\ down[s] \in Seq(ToBrowser) /\ down[s] # <<>>
      /\ m = down[s][1] /\ m \in ToBrowser /\ 1 \in 1 .. Len(down[s])
  <2>1. s \in Socket /\ down[s] \in Seq(ToBrowser) /\ down[s] # <<>>
    BY SocketTypes DEF Receive, Inv, TypeOK, ServerTypeOK
  <2> QED
    BY <2>1, TailOf
<1>2. /\ down' = [down EXCEPT ![s] = Tail(@)]
      /\ UNCHANGED <<registry, readyState, up, socket, met>>
  BY DEF Receive
<1>3. down'[s] = Tail(down[s]) /\ \A t \in Socket \ {s} : down'[t] = down[t]
  BY <1>1, <1>2 DEF Inv, TypeOK, ServerTypeOK
<1>4. ReceiveList(p, m) \/ ReceiveJoined(p, m) \/ ReceiveLeft(p, m)
  BY DEF Receive
<1>5. \A q \in Peer \ {p} : discovered'[q] = discovered[q]
  BY <1>4 DEF ReceiveList, ReceiveJoined, ReceiveLeft, Inv, TypeOK
<1>6. ThenAsks'
  BY <1>2 DEF Talk, ThenAsks
<1>7. NotItself'
  <2> SUFFICES ASSUME NEW q \in Peer, socket[q] # NoSocket,
                      NEW i \in 1 .. Len(down'[socket[q]]),
                      down'[socket[q]][i].type = "peer-list"
               PROVE  q \notin down'[socket[q]][i].peers
    BY <1>2 DEF NotItself
  <2>1. socket[q] \in Socket
    BY SocketTypes DEF Inv
  <2>2. CASE socket[q] # s
    BY <1>3, <2>1, <2>2 DEF Talk, NotItself
  <2>3. CASE socket[q] = s
    <3>1. i + 1 \in 1 .. Len(down[s]) /\ down'[s][i] = down[s][i + 1]
      <4>1. down'[s] = Tail(down[s]) /\ i \in 1 .. Len(Tail(down[s]))
        BY <1>3, <2>3
      <4> QED
        BY <1>1, <4>1, TailOf
    <3> QED
      BY <2>3, <3>1 DEF Talk, NotItself
  <2> QED
    BY <2>2, <2>3
<1>8. OpenIsMet'
  <2> SUFFICES ASSUME NEW q \in Peer, NEW r \in Peer, channel'[q][r] = "open"
               PROVE  channel[q][r] = "open"
    BY <1>2 DEF Talk, OpenIsMet
  <2> HIDE DEF m
  <2>1. CASE ReceiveList(p, m) \/ ReceiveJoined(p, m)
    BY <2>1 DEF ReceiveList, ReceiveJoined
  <2>2. CASE ReceiveLeft(p, m)
    BY <2>2 DEF ReceiveLeft, Inv, TypeOK
  <2> QED
    BY <1>4, <2>1, <2>2
<1>9. ASSUME Cardinality(Peer) <= MAX_PEERS + 1, NEW q \in Peer, Informed(q)'
      PROVE  View(q)'
  <2>1. Informed(q)
    BY <1>2, <1>9 DEF Informed, Asks
  <2>2. View(q)
    BY <1>9, <2>1 DEF Talk, Views
  <2>3. CASE q # p
    <3>1. socket[q] \in Socket \ {s}
      BY <1>1, <2>1, <2>3, SocketTypes DEF Informed, Inv, OwnSocket
    <3> QED
      BY <1>2, <1>3, <1>5, <2>2, <2>3, <3>1, SameView
  <2>4. CASE q = p
    <3> SUFFICES ASSUME NEW r \in Peer \ {p}
                 PROVE  /\ r \in Registered => WillList(r, discovered'[p], Tail(down[s]))
                        /\ r \notin Registered =>
                             r \in met[p] \/ WillDrop(r, discovered'[p], Tail(down[s]))
      BY <1>2, <1>3, <2>4 DEF View, Registered
    <3>1. /\ r \in Registered => WillList(r, discovered[p], down[s])
          /\ r \notin Registered => r \in met[p] \/ WillDrop(r, discovered[p], down[s])
      BY <2>2, <2>4 DEF View
    <3>2. /\ Lists(m, r) => r \in discovered'[p]
          /\ r \in discovered[p] /\ ~Drops(m, r) => r \in discovered'[p]
          /\ r \notin met[p] /\ Drops(m, r) => r \notin discovered'[p]
          /\ r \notin discovered[p] /\ ~Lists(m, r) => r \notin discovered'[p]
      <4>1. CASE ReceiveList(p, m)
        <5>1. m.type = "peer-list" /\ m.peers \in SUBSET (Peer \ {p})
          <6>1. m.type = "peer-list" /\ m.peers \in SUBSET Peer
            BY <1>1, <4>1 DEF ReceiveList, ToBrowser
          <6>2. p \notin m.peers
            BY <1>1, <2>1, <2>4, <6>1 DEF Talk, NotItself, Informed
          <6> QED
            BY <6>1, <6>2
        <5>2. discovered'[p] = Reconciled(p, m.peers \ {p})
          <6>1. PICK snapshot \in kSubset(Min({MAX_PEERS, Cardinality(m.peers)}), m.peers) :
                  discovered' = [discovered EXCEPT ![p] = Reconciled(p, snapshot \ {p})]
            BY <4>1 DEF ReceiveList
          <6>2. snapshot = m.peers
            BY <1>9, <5>1, <6>1, NotCut
          <6> QED
            BY <6>1, <6>2 DEF Inv, TypeOK
        <5>3. r \notin met[p] => channel[p][r] # "open"
          BY DEF Talk, OpenIsMet
        <5> QED
          BY <5>1, <5>2, <5>3 DEF Lists, Drops, Reconciled
      <4>2. CASE ReceiveJoined(p, m)
        BY <4>2 DEF ReceiveJoined, Lists, Drops, Inv, TypeOK
      <4>3. CASE ReceiveLeft(p, m)
        BY <4>3 DEF ReceiveLeft, PeerLeft, Lists, Drops, Inv, TypeOK
      <4> QED
        BY <1>4, <4>1, <4>2, <4>3
    <3> HIDE DEF s
    <3>3. ASSUME r \in Registered
          PROVE  WillList(r, discovered'[p], Tail(down[s]))
      BY <1>1, <3>1, <3>2, <3>3, TailLists
    <3>4. ASSUME r \notin Registered, r \notin met[p]
          PROVE  WillDrop(r, discovered'[p], Tail(down[s]))
      BY <1>1, <3>1, <3>2, <3>4, TailDrops
    <3> QED
      BY <3>3, <3>4
  <2> QED
    BY <2>3, <2>4
<1> QED
  BY <1>6, <1>7, <1>8, <1>9 DEF Talk, Views

\* A channel opens, closes or is cleaned up; the sockets and what is on them stay.
LEMMA ChannelTalk ==
  ASSUME Inv, Talk, NEW p \in Peer, NEW q \in Peer,
         \/ Negotiate(p, q) \/ OpenChannel(p, q)
         \/ LoseChannel(p, q) \/ FinishCleanup(p, q)
  PROVE  Talk'
<1>1. UNCHANGED <<registry, readyState, up, down, socket>>
  BY DEF Negotiate, OpenChannel, LoseChannel, FinishCleanup, serverVars
<1>2. \/ UNCHANGED <<discovered, met>>
      \/ /\ discovered' = [discovered EXCEPT ![p] = discovered[p] \cup {q}]
         /\ met' = [met EXCEPT ![p] = met[p] \cup {q}]
  BY DEF Negotiate, OpenChannel, LoseChannel, FinishCleanup, Listed
<1>3. ThenAsks' /\ NotItself'
  BY <1>1 DEF Talk, ThenAsks, NotItself
<1>4. OpenIsMet'
  <2> USE DEF Talk, OpenIsMet, Inv, TypeOK
  <2>1. CASE Negotiate(p, q)
    BY <2>1 DEF Negotiate
  <2>2. CASE OpenChannel(p, q)
    BY <2>2 DEF OpenChannel
  <2>3. CASE LoseChannel(p, q)
    BY <2>3 DEF LoseChannel
  <2>4. CASE FinishCleanup(p, q)
    BY <2>4 DEF FinishCleanup
  <2> QED
    BY <2>1, <2>2, <2>3, <2>4
<1>5. ASSUME Cardinality(Peer) <= MAX_PEERS + 1, NEW r \in Peer, Informed(r)'
      PROVE  View(r)'
  <2>1. View(r)
    BY <1>1, <1>5 DEF Informed, Asks, Talk, Views
  <2>2. CASE UNCHANGED <<discovered, met>>
    BY <1>1, <2>1, <2>2, SameView
  <2>3. CASE /\ discovered' = [discovered EXCEPT ![p] = discovered[p] \cup {q}]
             /\ met' = [met EXCEPT ![p] = met[p] \cup {q}]
    <3>1. CASE r # p
      BY <1>1, <2>1, <2>3, <3>1, SameView DEF Inv, TypeOK
    <3>2. CASE r = p
      <4>1. discovered'[p] = discovered[p] \cup {q} /\ met'[p] = met[p] \cup {q}
        BY <2>3 DEF Inv, TypeOK
      <4>2. ASSUME NEW o \in Peer \ {p}
            PROVE  /\ WillList(o, discovered[p], down[socket[p]])
                        => WillList(o, discovered'[p], down[socket[p]])
                   /\ WillDrop(o, discovered[p], down[socket[p]])
                        => o \in met'[p] \/ WillDrop(o, discovered'[p], down[socket[p]])
        BY <4>1 DEF WillList, WillDrop
      <4> QED
        BY <1>1, <2>1, <3>2, <4>1, <4>2 DEF View, Registered
    <3> QED
      BY <3>1, <3>2
  <2> QED
    BY <1>2, <2>2, <2>3
<1> QED
  BY <1>3, <1>4, <1>5 DEF Talk, Views

LEMMA InitTalk == Init => Inv /\ Fresh /\ Talk
<1> SUFFICES ASSUME Init PROVE Fresh /\ Talk
  BY InitInv
<1>1. Fresh /\ ThenAsks /\ NotItself
  BY DEF Init, ServerInit, Fresh, ThenAsks, NotItself
<1>2. OpenIsMet
  BY DEF Init, NoChannels, OpenIsMet
<1>3. Views
  BY DEF Init, Views, Informed
<1> QED
  BY <1>1, <1>2, <1>3 DEF Talk

LEMMA NextTalk ==
  ASSUME IsFiniteSet(Peer), Inv, Fresh, Talk, [Next]_vars
  PROVE  Inv' /\ Fresh' /\ Talk'
<1>1. Inv' /\ Fresh'
  BY NextInv, FreshStep
<1>2. ASSUME Server, UNCHANGED clientVars
      PROVE  Talk'
  <2>1. CASE \E s \in Socket : HandleRegister(s)
    BY <1>2, <2>1, HandleRegisterTalk
  <2>2. CASE \E s \in Socket : HandleDiscover(s)
    BY <1>2, <2>2, HandleDiscoverTalk
  <2>3. CASE \E s \in Socket : HandleClose(s) \/ Terminate(s)
    BY <1>2, <2>3, EndTalk DEF HandleClose, Terminate
  <2>4. CASE (\E s \in Socket : RateLimit(s) \/ Lose(s)) \/ Restart
    BY <1>2, <2>4, FaultTalk
  <2> QED
    BY <1>2, <2>1, <2>2, <2>3, <2>4 DEF Server, HandleMessage
<1>3. ASSUME NEW p \in Peer, Client(p)
      PROVE  Talk'
  <2>1. CASE \E s \in Socket : Connect(p, s)
    BY <2>1, ConnectTalk
  <2>2. CASE Receive(p)
    BY <2>2, ReceiveTalk
  <2>3. CASE OnClose(p)
    <3>1. OpenIsMet' /\ UNCHANGED <<discovered, met>>
      BY <2>3 DEF OnClose, Talk, OpenIsMet
    <3> QED
      BY <2>3, <3>1, ClosedTalk DEF OnClose
  <2>4. CASE ClosePage(p)
    <3>1. \A q \in Peer \ {p} : /\ discovered'[q] = discovered[q] /\ met'[q] = met[q]
                                /\ channel'[q] = channel[q]
      BY <2>4 DEF ClosePage, Inv, TypeOK
    <3>2. channel'[p] = NoChannels
      BY <2>4 DEF ClosePage, Inv, TypeOK
    <3>3. OpenIsMet'
      BY <3>1, <3>2 DEF NoChannels, Talk, OpenIsMet
    <3>4. CASE socket[p] # NoSocket
      BY <2>4, <3>1, <3>3, <3>4, ClosedTalk DEF ClosePage
    <3>5. CASE socket[p] = NoSocket
      <4>1. UNCHANGED <<registry, readyState, up, down, socket>>
        BY <2>4, <3>5 DEF ClosePage
      <4>2. ThenAsks' /\ NotItself'
        BY <4>1 DEF Talk, ThenAsks, NotItself
      <4>3. ASSUME Cardinality(Peer) <= MAX_PEERS + 1, NEW q \in Peer, Informed(q)'
            PROVE  View(q)'
        <5>1. q # p /\ Informed(q)
          BY <3>5, <4>1, <4>3 DEF Informed, Asks
        <5>2. View(q)
          BY <4>3, <5>1 DEF Talk, Views
        <5> QED
          BY <3>1, <4>1, <5>1, <5>2, SameView
      <4> QED
        BY <3>3, <4>2, <4>3 DEF Talk, Views
    <3> QED
      BY <3>4, <3>5
  <2>5. CASE \E q \in Peer : \/ Negotiate(p, q) \/ OpenChannel(p, q)
                             \/ LoseChannel(p, q) \/ FinishCleanup(p, q)
    BY <2>5, ChannelTalk
  <2> QED
    BY <1>3, <2>1, <2>2, <2>3, <2>4, <2>5 DEF Client
<1>4. ASSUME UNCHANGED vars
      PROVE  Talk'
  <2>1. UNCHANGED <<registry, readyState, up, down, socket, discovered, met, channel>>
    BY <1>4 DEF vars, serverVars, clientVars
  <2>2. ThenAsks' /\ NotItself' /\ OpenIsMet'
    BY <2>1 DEF Talk, ThenAsks, NotItself, OpenIsMet
  <2>3. \A q \in Peer : (Informed(q)' => Informed(q)) /\ (View(q) => View(q)')
    BY <2>1, SameView DEF Informed, Asks
  <2> QED
    BY <2>2, <2>3 DEF Talk, Views
<1> QED
  BY <1>1, <1>2, <1>3, <1>4 DEF Next

LEMMA ConvergedAtRest == Inv /\ Talk => ViewsConverge
<1> SUFFICES ASSUME Inv, Talk, AtRest, Cardinality(Peer) <= MAX_PEERS + 1,
                    NEW p \in Peer, socket[p] # NoSocket, NEW q \in Peer \ {p}
             PROVE  /\ q \in Registered => q \in discovered[p]
                    /\ q \in discovered[p] \ Registered => q \in met[p]
  <2>1. ASSUME AtRest, NEW p \in Peer, socket[p] # NoSocket, Inv
        PROVE  p \in Registered /\ discovered[p] \subseteq Peer
    <3>1. registry[p] = socket[p]
      BY <2>1, CurrentAtRest DEF RegistryIsCurrent
    <3> QED
      BY <2>1, <3>1 DEF Registered, Inv, TypeOK
  <2> QED
    BY <2>1 DEF ViewsConverge, Registered
<1>1. /\ socket[p] \in Socket /\ readyState[socket[p]] = "open"
      /\ up[socket[p]] = <<>> /\ down[socket[p]] = <<>>
  BY SocketTypes DEF Inv, AtRest
<1>2. registry[p] = socket[p]
  BY CurrentAtRest DEF RegistryIsCurrent
<1>3. Len(up[socket[p]]) = 0 /\ Len(down[socket[p]]) = 0
  BY <1>1
<1>4. View(p)
  BY <1>1, <1>2, <1>3 DEF Informed, Asks, Talk, Views
<1> QED
  BY <1>3, <1>4 DEF View, WillList, WillDrop

\* With any finite number of pages, no more than the list holds: once everything
\* sent has been handled and every broken connection noticed, a page that is
\* online lists every registered peer, and of the others only those it had a
\* data channel to (signaling.js:62-82, server.js:38-44, 136-150).
THEOREM ListsConverge ==
  ASSUME IsFiniteSet(Peer)
  PROVE  Spec => []ViewsConverge
<1>1. Inv /\ Fresh /\ Talk /\ [Next]_vars => (Inv /\ Fresh /\ Talk)'
  BY NextTalk
<1> QED
  BY <1>1, InitTalk, ConvergedAtRest, PTL DEF Spec

=============================================================================
