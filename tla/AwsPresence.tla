----------------------------- MODULE AwsPresence -----------------------------
(***************************************************************************)
(* Presence in the serverless signaling service, aws-signaling/app.js.     *)
(*                                                                         *)
(* API Gateway invokes one Lambda function per event: a message of a       *)
(* connection or its end.  Invocations run concurrently and share only a   *)
(* DynamoDB table with two records per registered peer, CONNECTION#<conn>  *)
(* (who registered on the connection) and PEER#<peer> (where the peer is). *)
(* Each access to the table and each message posted to a connection is     *)
(* awaited, and is a step here; between two of them other invocations may  *)
(* do theirs.                                                              *)
(*                                                                         *)
(* A post to a dead connection answers 410 Gone, upon which send() cleans  *)
(* up after that connection.  The code awaits this cleanup, the model lets *)
(* the caller go on at the same time, which allows more orders, not fewer. *)
(* The posts of one notify and the query before them are one step.         *)
(*                                                                         *)
(* Single records are read consistently.  The peers online are read from   *)
(* the index OnlinePeers, which follows the table with a delay of any      *)
(* length: a query may give for each peer what its record was before.      *)
(***************************************************************************)

CONSTANTS
  Peer,    \* peer ids
  Conn,    \* connections; API Gateway never uses an id twice
  Pages,   \* Pages[c]: the peers whose page may open the connection c
  NoPeer,  \* no peer id
  NoConn   \* no connection

ASSUME PagesAssumption == Pages \in [Conn -> SUBSET Peer]
ASSUME NoneAssumption == NoPeer \notin Peer /\ NoConn \notin Conn

\* What makes the function clean up after a connection
Reason == {"disconnect", "stale_connection"}

VARIABLES
  link,      \* link[c]: the WebSocket connection c
  binding,   \* binding[c]: peerId of the record CONNECTION#c
  presence,  \* presence[p]: connectionId of the record PEER#p
  older,     \* older[p]: what the record of p was, and the index may still give
  register,  \* register[c]: the invocation for the register message of c
  cleanup,   \* cleanup[r][c]: the cleanup after c for the reason r
  told,      \* told[c]: of which registrations c was told, until either ends
  missed     \* missed[c]: of which connections in the directory the index did not
             \* know when it was asked whom to tell of c, until either ends

vars == <<link, binding, presence, older, register, cleanup, told, missed>>

-----------------------------------------------------------------------------
Registration ==
  [pc : {"none", "lookup", "snapshot", "unbind", "warn", "publish", "bind",
         "list", "announce", "confirm", "done"},
   peer : Peer \cup {NoPeer},
   existing : Conn \cup {NoConn},   \* connectionId of the record it found
   snapshot : SUBSET Conn]          \* the other peers online before it

Cleanup ==
  [pc : {"none", "binding", "peer", "unbind", "remove", "notify", "done"},
   peer : Peer \cup {NoPeer},       \* peerId of the binding it found
   found : Conn \cup {NoConn}]      \* connectionId of the record it found

TypeOK ==
  /\ link \in [Conn -> {"up", "down"}]
  /\ binding \in [Conn -> Peer \cup {NoPeer}]
  /\ presence \in [Peer -> Conn \cup {NoConn}]
  /\ register \in [Conn -> Registration]
  /\ cleanup \in [Reason -> [Conn -> Cleanup]]
  /\ older \in [Peer -> SUBSET (Conn \cup {NoConn})]
  /\ told \in [Conn -> SUBSET Conn]
  /\ missed \in [Conn -> SUBSET Conn]

NotRegistered ==
  [pc |-> "none", peer |-> NoPeer, existing |-> NoConn, snapshot |-> {}]
NoCleanup == [pc |-> "none", peer |-> NoPeer, found |-> NoConn]

\* A disconnect is handled once, a dead connection may be found again.
CleanedUp(r) == [NoCleanup EXCEPT !.pc = IF r = "disconnect" THEN "done" ELSE "none"]

Init ==
  /\ link = [c \in Conn |-> "up"]
  /\ binding = [c \in Conn |-> NoPeer]
  /\ presence = [p \in Peer |-> NoConn]
  /\ register = [c \in Conn |-> NotRegistered]
  /\ cleanup = [r \in Reason |-> [c \in Conn |-> NoCleanup]]
  /\ older = [p \in Peer |-> {}]
  /\ told = [c \in Conn |-> {}]
  /\ missed = [c \in Conn |-> {}]

-----------------------------------------------------------------------------
(* Connections.  The $connect route writes nothing, so that a connection   *)
(* is taken to be up from the start.                                       *)

\* What is noted of the connection c, and at c, is forgotten.
Without(noted, c) == [d \in Conn |-> IF d = c THEN {} ELSE noted[d] \ {c}]

Disconnect(c) ==
  /\ link[c] = "up"
  /\ link' = [link EXCEPT ![c] = "down"]
  /\ told' = Without(told, c)
  /\ missed' = Without(missed, c)
  /\ UNCHANGED <<binding, presence, older, register, cleanup>>

\* Mutant of Gone: a post to a dead connection is only logged.
Ignored(targets) == cleanup

\* Messages are posted to the connections targets: dead ones are cleaned up.
Gone(targets) ==
  [cleanup EXCEPT !["stale_connection"] =
     [c \in Conn |->
        IF c \in targets /\ link[c] = "down" /\ @[c].pc = "none"
        THEN [NoCleanup EXCEPT !.pc = "binding"]
        ELSE @[c]]]

\* peersOnline: what a query of the index may give, of each peer
IndexViews ==
  {view \in [Peer -> Conn \cup {NoConn}] :
     \A p \in Peer : view[p] \in older[p] \cup {presence[p]}}

\* The record of p is written, and the index follows some time.
Superseded(p) == [older EXCEPT ![p] = @ \cup {presence[p]}]

\* notify: the connections of all peers that the query gave, but c
Online(c, view) == {view[p] : p \in Peer} \ {c, NoConn}

-----------------------------------------------------------------------------
(* The register route *)

\* A browser sends one register message when its socket opens.
Register(c, p) ==
  /\ link[c] = "up"
  /\ register[c].pc = "none"
  /\ register' = [register EXCEPT ![c].pc = "lookup", ![c].peer = p]
  /\ UNCHANGED <<link, binding, presence, older, cleanup, told, missed>>

LookUp(c) ==
  LET found == presence[register[c].peer] IN
  /\ register[c].pc = "lookup"
  /\ register' = [register EXCEPT
                    ![c].existing = found, ![c].pc = "snapshot"]
  /\ UNCHANGED <<link, binding, presence, older, cleanup, told, missed>>

\* peersOnline, before the peer itself is published
TakeSnapshot(c) ==
  LET p == register[c].peer IN
  /\ register[c].pc = "snapshot"
  /\ \E view \in IndexViews : register' = [register EXCEPT
       ![c].snapshot = {view[q] : q \in Peer \ {p}} \ {NoConn},
       ![c].pc = IF register[c].existing \in {NoConn, c} THEN "publish" ELSE "unbind"]
  /\ UNCHANGED <<link, binding, presence, older, cleanup, told, missed>>

\* The older connection loses its binding,
Unbind(c) ==
  /\ register[c].pc = "unbind"
  /\ binding' = [binding EXCEPT ![register[c].existing] = NoPeer]
  /\ register' = [register EXCEPT ![c].pc = "warn"]
  /\ UNCHANGED <<link, presence, older, cleanup, told, missed>>

\* and is told that it is replaced.
Warn(c) ==
  /\ register[c].pc = "warn"
  /\ register' = [register EXCEPT ![c].pc = "publish"]
  /\ cleanup' = Gone({register[c].existing})
  /\ UNCHANGED <<link, binding, presence, older, told, missed>>

\* Mutant of Published: the peer id is stored for the connection id.
PeerPublished(c) == [presence EXCEPT ![register[c].peer] = register[c].peer]

Published(c) == [presence EXCEPT ![register[c].peer] = c]

Publish(c) ==
  /\ register[c].pc = "publish"
  /\ presence' = Published(c)
  /\ older' = Superseded(register[c].peer)
  /\ register' = [register EXCEPT ![c].pc = "bind", ![c].existing = NoConn]
  /\ UNCHANGED <<link, binding, cleanup, told, missed>>

Bind(c) ==
  /\ register[c].pc = "bind"
  /\ binding' = [binding EXCEPT ![c] = register[c].peer]
  /\ register' = [register EXCEPT ![c].pc = "list"]
  /\ UNCHANGED <<link, presence, older, cleanup, told, missed>>

\* A message is posted to the connection c.
Post(c, pc, next) ==
  /\ register[c].pc = pc
  /\ register' = [register EXCEPT ![c] = next]
  /\ cleanup' = Gone({c})
  /\ UNCHANGED <<link, binding, presence, older, missed>>

\* The new connection gets the list of peers,
SendPeerList(c) ==
  LET p == register[c].peer IN
  /\ Post(c, "list", [NotRegistered EXCEPT !.pc = "announce", !.peer = p])
  /\ told' = IF link[c] = "up" THEN [told EXCEPT ![c] = @ \cup register[c].snapshot]
                               ELSE told

\* Mutant of Hearing: only the list tells of other peers.
NobodyHears(c, view) == {}

\* the living connections of the others hear that its peer joined,
Hearing(c, view) == {d \in Online(c, view) : link[d] = "up"}

Announce(c) ==
  /\ register[c].pc = "announce"
  /\ register' = [register EXCEPT ![c] = [NotRegistered EXCEPT !.pc = "confirm"]]
  /\ \E view \in IndexViews :
       /\ cleanup' = Gone(Online(c, view))
       /\ IF link[c] = "up"
          THEN /\ told' = [d \in Conn |->
                    IF d \in Hearing(c, view) THEN told[d] \cup {c} ELSE told[d]]
               /\ missed' = [missed EXCEPT ![c] = Online(c, presence) \ Online(c, view)]
          ELSE UNCHANGED <<told, missed>>
  /\ UNCHANGED <<link, binding, presence, older>>

\* and the new connection is told that it is registered.
Confirm(c) ==
  /\ Post(c, "confirm", [NotRegistered EXCEPT !.pc = "done"])
  /\ UNCHANGED told

RegisterRoute(c) ==
  \/ LookUp(c)
  \/ TakeSnapshot(c)
  \/ Unbind(c)
  \/ Warn(c)
  \/ Publish(c)
  \/ Bind(c)
  \/ SendPeerList(c)
  \/ Announce(c)
  \/ Confirm(c)

-----------------------------------------------------------------------------
(* Cleaning up after a connection *)

\* API Gateway reports the end of a connection once.
DisconnectRoute(c) ==
  /\ link[c] = "down"
  /\ cleanup["disconnect"][c].pc = "none"
  /\ cleanup' = [cleanup EXCEPT !["disconnect"][c].pc = "binding"]
  /\ UNCHANGED <<link, binding, presence, older, register, told, missed>>

ReadBinding(r, c) ==
  /\ cleanup[r][c].pc = "binding"
  /\ cleanup' = [cleanup EXCEPT
       ![r][c] = IF binding[c] = NoPeer
                 THEN CleanedUp(r)
                 ELSE [@ EXCEPT !.pc = "peer", !.peer = binding[c]]]
  /\ UNCHANGED <<link, binding, presence, older, register, told, missed>>

ReadPeer(r, c) ==
  /\ cleanup[r][c].pc = "peer"
  /\ cleanup' = [cleanup EXCEPT
       ![r][c].pc = "unbind", ![r][c].found = presence[cleanup[r][c].peer]]
  /\ UNCHANGED <<link, binding, presence, older, register, told, missed>>

\* The peer's record is to go only if it named c when it was read.
DeleteBinding(r, c) ==
  /\ cleanup[r][c].pc = "unbind"
  /\ binding' = [binding EXCEPT ![c] = NoPeer]
  /\ cleanup' = [cleanup EXCEPT
       ![r][c] = IF @.found = c THEN [@ EXCEPT !.pc = "remove"] ELSE CleanedUp(r)]
  /\ UNCHANGED <<link, presence, older, register, told, missed>>

\* Unconditionally,
DeletePeer(r, c) ==
  /\ cleanup[r][c].pc = "remove"
  /\ presence' = [presence EXCEPT ![cleanup[r][c].peer] = NoConn]
  /\ older' = Superseded(cleanup[r][c].peer)
  /\ cleanup' = [cleanup EXCEPT ![r][c].pc = "notify"]
  /\ UNCHANGED <<link, binding, register, told, missed>>

\* and then the other peers are told.  The message names the peer and may come
\* after the peer has registered again.
NotifyLeft(r, c) ==
  /\ cleanup[r][c].pc = "notify"
  /\ \E view \in IndexViews :
       cleanup' = [Gone(Online(c, view)) EXCEPT ![r][c] = CleanedUp(r)]
  /\ UNCHANGED <<link, binding, presence, older, register, told, missed>>

CleanUp(r, c) ==
  \/ ReadBinding(r, c)
  \/ ReadPeer(r, c)
  \/ DeleteBinding(r, c)
  \/ DeletePeer(r, c)
  \/ NotifyLeft(r, c)

-----------------------------------------------------------------------------
\* The signal route, and with p the sender itself the discover route: a message
\* is posted to the connection of p.
Signal(c, p) ==
  /\ link[c] = "up"
  /\ binding[c] # NoPeer
  /\ presence[p] # NoConn
  /\ cleanup' = Gone({presence[p]})
  /\ UNCHANGED <<link, binding, presence, older, register, told, missed>>

Next ==
  \/ \E c \in Conn : \/ Disconnect(c)
                     \/ \E p \in Pages[c] : Register(c, p)
                     \/ \E p \in Peer : Signal(c, p)
                     \/ RegisterRoute(c)
                     \/ DisconnectRoute(c)
                     \/ \E r \in Reason : CleanUp(r, c)

Spec == Init /\ [][Next]_vars

\* Lambda runs every invocation to its end, and API Gateway reports the end of
\* every connection.
Fairness ==
  \A c \in Conn :
    /\ WF_vars(RegisterRoute(c))
    /\ WF_vars(DisconnectRoute(c) \/ CleanUp("disconnect", c))
    /\ WF_vars(CleanUp("stale_connection", c))

FairSpec == Spec /\ Fairness

-----------------------------------------------------------------------------
\* No invocation is running and every end of a connection has been reported.
Quiet ==
  \A c \in Conn :
    /\ register[c].pc \in {"none", "done"}
    /\ link[c] = "down" => cleanup["disconnect"][c].pc = "done"
    /\ \A r \in Reason : cleanup[r][c].pc \in {"none", "done"}

\* When the invocations have ended, every peer that others can discover is
\* reachable: its connection is alive and is allowed to answer for it.  This
\* although registering and cleaning up overlap, and although the end of a
\* connection may be reported before its register message is handled.
OnlineIsReachable ==
  Quiet => \A p \in Peer :
    presence[p] # NoConn =>
      link[presence[p]] = "up" /\ binding[presence[p]] = p

\* app.js:119, app.js:68: of two peers that are online, the connection of one was
\* told of the registration of the other, by the list it got or by a message that
\* the other joined, although each took its list before it was published itself;
\* or else the index lagged: the other's record was in the table when one told its
\* peers that it joined, and the query did not give it.  Then neither may know the
\* other.  No order in which the invocations wait for the table does that.
\* (What a connection was told may be undone: by the list of a discover that was
\* queried before, or by a late message that the peer left.)
OneIsTold ==
  Quiet => \A p, q \in Peer :
    LET c == presence[p]
        d == presence[q]
    IN
    p # q /\ c # NoConn /\ d # NoConn =>
      \/ d \in told[c] \/ c \in told[d]
      \/ d \in missed[c] \/ c \in missed[d]

\* A dead connection does not stay in the directory for ever.
NoGhosts ==
  \A c \in Conn :
    (link[c] = "down" /\ \E p \in Peer : presence[p] = c)
      ~> (\A p \in Peer : presence[p] # c)

\* "A newer duplicate registration wins; never remove its peer record."
\* (app.js:88): what a cleanup after c removes is the record of c.
NewerRegistrationWins ==
  [][\A r \in Reason, c \in Conn :
       cleanup[r][c].pc = "remove" /\ cleanup'[r][c].pc = "notify" =>
         presence[cleanup[r][c].peer] \in {c, NoConn}]_vars
=============================================================================
