------------------------- MODULE AwsPresence_proofs -------------------------
(***************************************************************************)
(* For any number of peers and connections: the types of AwsPresence, and  *)
(* that everyone who is online when no invocation runs can be reached.     *)
(*                                                                         *)
(* Invocations on the same connection meet in the table only, so that the  *)
(* invariant speaks of what each of them has read and may still do.  It    *)
(* has these parts.  OneClaim: all that is stored or remembered of a       *)
(* connection is about one peer.  Order: a connection is published before  *)
(* others find it and bound before a cleanup finds its peer, and that only *)
(* once.  Withdrawn: a cleanup that will not remove the record of the peer,*)
(* or has, leaves none that names its connection.  Bound and Reported: if  *)
(* a record names a connection that is not bound, or dead, an invocation   *)
(* is under way that will mend it.  Told: of two living connections that   *)
(* were announced, one was told of the other, or the index withheld one    *)
(* when the other was announced.                                           *)
(***************************************************************************)
EXTENDS AwsPresence, TLAPS

BeforePublished == {"none", "lookup", "snapshot", "unbind", "warn", "publish"}
BeforeBound == BeforePublished \cup {"bind"}
Registering == {"lookup", "snapshot", "unbind", "warn", "publish", "bind", "list", "announce"}
Finding == {"snapshot", "unbind", "warn", "publish"}
Idle == {"none", "binding", "done"}

\* c belongs to p, as far as anything stored or remembered says.
Claims(p, c) ==
  \/ presence[p] = c
  \/ binding[c] = p
  \/ register[c].peer = p
  \/ \E r \in Reason : cleanup[r][c].peer = p
  \/ \E d \in Conn : register[d].existing = c /\ register[d].peer = p

OneClaim == \A c \in Conn : \A p, q \in Peer : Claims(p, c) /\ Claims(q, c) => p = q

OrderAt(c) ==
  /\ register[c].pc \in BeforePublished =>
       /\ \A p \in Peer : presence[p] # c
       /\ \A d \in Conn : register[d].existing # c
  /\ register[c].pc \in BeforeBound =>
       /\ binding[c] = NoPeer
       /\ \A r \in Reason : cleanup[r][c].pc \in Idle
  /\ register[c].peer # NoPeer <=> register[c].pc \in Registering
  /\ register[c].existing # NoConn => register[c].pc \in Finding
  /\ \A r \in Reason : cleanup[r][c].peer # NoPeer <=> cleanup[r][c].pc \notin Idle
  /\ cleanup["stale_connection"][c].pc # "done"
  /\ link[c] = "up" => cleanup["disconnect"][c].pc = "none"

Order == \A c \in Conn : OrderAt(c)

Types == TypeOK /\ Order

WithdrawnAt(r, c) ==
  cleanup[r][c].pc = "notify" \/ (cleanup[r][c].pc = "unbind" /\ cleanup[r][c].found # c)
    => presence[cleanup[r][c].peer] # c

Withdrawn == \A c \in Conn : \A r \in Reason : WithdrawnAt(r, c)

\* A newer registration of p is about to take the place of c.
Replaced(p, c) ==
  \E d \in Conn : /\ register[d].pc \in {"warn", "publish"}
                  /\ register[d].existing = c
                  /\ register[d].peer = p

Bound(p, c) ==
  \/ binding[c] = p
  \/ register[c].pc = "bind"
  \/ \E r \in Reason : cleanup[r][c].pc = "remove"
  \/ Replaced(p, c)

\* The cleanup removes the record of the peer, or finds that c is not bound.
Removes(r, c) ==
  \/ cleanup[r][c].pc \in {"binding", "peer", "remove"}
  \/ cleanup[r][c].pc = "unbind" /\ cleanup[r][c].found = c

Reported(p, c) ==
  \/ link[c] = "up"
  \/ register[c].pc \in {"bind", "list"}
  \/ cleanup["disconnect"][c].pc = "none"
  \/ \E r \in Reason : Removes(r, c)
  \/ Replaced(p, c)

Mended == \A p \in Peer, c \in Conn : presence[p] = c => Bound(p, c) /\ Reported(p, c)

Announced(c) == register[c].pc \in {"confirm", "done"}

\* c or d was told of the other, or the index withheld one when it was asked whom to
\* tell of the other.
Noted(c, d) ==
  \/ d \in told[c] \/ c \in told[d]
  \/ d \in missed[c] \/ c \in missed[d]

\* Of two living connections in the directory that have told the others of their
\* peers, one was told of the other, but for the index.
ToldAt(p, q) ==
  \A c, d \in Conn :
    /\ p # q
    /\ presence[p] = c /\ presence[q] = d
    /\ link[c] = "up" /\ link[d] = "up"
    /\ Announced(c) /\ Announced(d)
    => Noted(c, d)

Told == \A p, q \in Peer : ToldAt(p, q)

Inv ==
  /\ Types
  /\ OneClaim
  /\ Withdrawn
  /\ Mended
  /\ Told

-----------------------------------------------------------------------------
(* Types, and what the steps change *)

\* A cleanup that a post started, or none
Started(r, c) ==
  /\ cleanup[r][c].pc = "none"
  /\ cleanup'[r][c].pc = "binding"
  /\ cleanup'[r][c].peer \in {NoPeer, cleanup[r][c].peer}

KeptOrStarted(r, c) == cleanup'[r][c] = cleanup[r][c] \/ Started(r, c)

CleanupType == [Reason -> [Conn -> Cleanup]]

LEMMA NoCleanupType ==
  /\ [NoCleanup EXCEPT !.pc = "binding"] \in Cleanup
  /\ [NoCleanup EXCEPT !.pc = "binding"].pc = "binding"
  /\ [NoCleanup EXCEPT !.pc = "binding"].peer = NoPeer
  /\ \A r \in Reason : /\ CleanedUp(r) \in Cleanup
                       /\ CleanedUp(r).pc \in {"none", "done"}
                       /\ r = "disconnect" => CleanedUp(r).pc = "done"
                       /\ r = "stale_connection" => CleanedUp(r).pc = "none"
                       /\ CleanedUp(r).peer = NoPeer
BY DEF NoCleanup, CleanedUp, Cleanup, Reason

LEMMA NotRegisteredType ==
  ASSUME NEW pc \in {"announce", "confirm", "done"}, NEW p \in Peer \cup {NoPeer}
  PROVE  /\ NotRegistered \in Registration
         /\ NotRegistered.pc = "none" /\ NotRegistered.peer = NoPeer
         /\ NotRegistered.existing = NoConn
         /\ [NotRegistered EXCEPT !.pc = pc, !.peer = p] \in Registration
         /\ [NotRegistered EXCEPT !.pc = pc, !.peer = p].pc = pc
         /\ [NotRegistered EXCEPT !.pc = pc, !.peer = p].peer = p
         /\ [NotRegistered EXCEPT !.pc = pc, !.peer = p].existing = NoConn
         /\ [NotRegistered EXCEPT !.pc = pc] \in Registration
         /\ [NotRegistered EXCEPT !.pc = pc].pc = pc
         /\ [NotRegistered EXCEPT !.pc = pc].peer = NoPeer
         /\ [NotRegistered EXCEPT !.pc = pc].existing = NoConn
BY DEF NotRegistered, Registration

LEMMA GoneCells ==
  ASSUME TypeOK, NEW targets
  PROVE  /\ Gone(targets) \in CleanupType
         /\ \A c \in Conn : Gone(targets)["disconnect"][c] = cleanup["disconnect"][c]
         /\ \A c \in Conn : Gone(targets)["stale_connection"][c] =
              IF c \in targets /\ link[c] = "down" /\ cleanup["stale_connection"][c].pc = "none"
              THEN [NoCleanup EXCEPT !.pc = "binding"]
              ELSE cleanup["stale_connection"][c]
<1>1. cleanup \in CleanupType /\ "stale_connection" \in Reason /\ "disconnect" \in Reason
  BY DEF TypeOK, CleanupType, Reason
<1>2. [c \in Conn |->
        IF c \in targets /\ link[c] = "down" /\ cleanup["stale_connection"][c].pc = "none"
        THEN [NoCleanup EXCEPT !.pc = "binding"]
        ELSE cleanup["stale_connection"][c]] \in [Conn -> Cleanup]
  BY <1>1, NoCleanupType DEF CleanupType
<1> QED
  BY <1>1, <1>2 DEF Gone, CleanupType

\* A post starts cleanups of dead targets and does nothing else to cleanups.
LEMMA Posted ==
  ASSUME TypeOK, NEW targets, cleanup' = Gone(targets)
  PROVE  /\ cleanup' \in CleanupType
         /\ \A r \in Reason, c \in Conn : KeptOrStarted(r, c)
         /\ \A c \in Conn : cleanup'["disconnect"][c] = cleanup["disconnect"][c]
         /\ \A c \in Conn : c \in targets /\ link[c] = "down" =>
              cleanup'["stale_connection"][c].pc # "none"
<1>1. cleanup' \in CleanupType
  BY GoneCells
<1>2. \A c \in Conn : cleanup'["disconnect"][c] = cleanup["disconnect"][c]
  BY GoneCells
<1>3. ASSUME NEW c \in Conn
      PROVE  /\ \/ cleanup'["stale_connection"][c] = cleanup["stale_connection"][c]
                \/ /\ cleanup["stale_connection"][c].pc = "none"
                   /\ cleanup'["stale_connection"][c] = [NoCleanup EXCEPT !.pc = "binding"]
             /\ c \in targets /\ link[c] = "down" =>
                  cleanup'["stale_connection"][c].pc # "none"
  <2>1. cleanup'["stale_connection"][c] =
              IF c \in targets /\ link[c] = "down" /\ cleanup["stale_connection"][c].pc = "none"
              THEN [NoCleanup EXCEPT !.pc = "binding"]
              ELSE cleanup["stale_connection"][c]
    BY GoneCells
  <2> QED
    BY <2>1, NoCleanupType
<1>4. ASSUME NEW r \in Reason, NEW c \in Conn
      PROVE  KeptOrStarted(r, c)
  BY <1>2, <1>3, NoCleanupType DEF KeptOrStarted, Started, Reason
<1> QED
  BY <1>1, <1>2, <1>3, <1>4

\* The records of a cleanup under way
LEMMA CleanupCell ==
  ASSUME Types, NEW r \in Reason, NEW c \in Conn
  PROVE  /\ cleanup[r][c] \in Cleanup /\ cleanup \in CleanupType
         /\ cleanup[r][c].pc \notin Idle => cleanup[r][c].peer \in Peer
         /\ binding[c] \in Peer \cup {NoPeer}
         /\ \A p \in Peer : presence[p] \in Conn \cup {NoConn}
BY DEF Types, TypeOK, Order, OrderAt, CleanupType, Cleanup

\* What the steps of the cleanup (r, c) make of its record
LEMMA CleanUpCell ==
  ASSUME Types, NEW r \in Reason, NEW c \in Conn
  PROVE  /\ r = "disconnect" /\ DisconnectRoute(c) =>
              cleanup' = [cleanup EXCEPT ![r][c] = [cleanup[r][c] EXCEPT !.pc = "binding"]]
         /\ ReadBinding(r, c) => cleanup' = [cleanup EXCEPT ![r][c] =
              IF binding[c] = NoPeer THEN CleanedUp(r)
              ELSE [cleanup[r][c] EXCEPT !.pc = "peer", !.peer = binding[c]]]
         /\ ReadPeer(r, c) => cleanup' = [cleanup EXCEPT ![r][c] =
              [cleanup[r][c] EXCEPT !.pc = "unbind", !.found = presence[cleanup[r][c].peer]]]
         /\ DeleteBinding(r, c) => cleanup' = [cleanup EXCEPT ![r][c] =
              IF cleanup[r][c].found = c THEN [cleanup[r][c] EXCEPT !.pc = "remove"]
              ELSE CleanedUp(r)]
         /\ DeletePeer(r, c) => cleanup' = [cleanup EXCEPT ![r][c] =
              [cleanup[r][c] EXCEPT !.pc = "notify"]]
         /\ NotifyLeft(r, c) => \E targets :
              cleanup' = [Gone(targets) EXCEPT ![r][c] = CleanedUp(r)]
<1>1. cleanup[r][c] \in Cleanup /\ cleanup \in CleanupType
  BY CleanupCell
<1> QED
  BY <1>1 DEF DisconnectRoute, ReadBinding, ReadPeer, DeleteBinding, DeletePeer,
     NotifyLeft, CleanupType

\* Apart from its own record, a cleanup step at most starts cleanups.
Others(r, c) ==
  /\ cleanup' \in CleanupType
  /\ \A s \in Reason, d \in Conn : s # r \/ d # c =>
       KeptOrStarted(s, d) /\ (s = "disconnect" => cleanup'[s][d] = cleanup[s][d])

Cleaned(r, c) ==
  /\ cleanup'[r][c].pc = (IF r = "disconnect" THEN "done" ELSE "none")
  /\ cleanup'[r][c].peer = NoPeer

LEMMA CellSet ==
  ASSUME Types, NEW r \in Reason, NEW c \in Conn, NEW cell \in Cleanup,
         cleanup' = [cleanup EXCEPT ![r][c] = cell]
  PROVE  Others(r, c) /\ cleanup'[r][c] = cell
BY CleanupCell DEF Others, KeptOrStarted, CleanupType

LEMMA DisconnectRouteCell ==
  ASSUME Types, NEW c \in Conn, DisconnectRoute(c)
  PROVE  /\ Others("disconnect", c)
         /\ cleanup'["disconnect"][c].pc = "binding"
         /\ cleanup'["disconnect"][c].peer = cleanup["disconnect"][c].peer
<1>1. "disconnect" \in Reason
  BY DEF Reason
<1>2. PICK cell : cell = [cleanup["disconnect"][c] EXCEPT !.pc = "binding"]
  OBVIOUS
<1>3. /\ cell \in Cleanup /\ cell.pc = "binding"
      /\ cell.peer = cleanup["disconnect"][c].peer
  BY <1>1, <1>2, CleanupCell DEF Cleanup
<1>4. cleanup' = [cleanup EXCEPT !["disconnect"][c] = cell]
  BY <1>1, <1>2, CleanUpCell
<1> QED
  BY <1>1, <1>3, <1>4, CellSet

LEMMA ReadBindingCell ==
  ASSUME Types, NEW r \in Reason, NEW c \in Conn, ReadBinding(r, c)
  PROVE  /\ Others(r, c)
         /\ \/ binding[c] = NoPeer /\ Cleaned(r, c)
            \/ /\ binding[c] \in Peer
               /\ cleanup'[r][c].pc = "peer" /\ cleanup'[r][c].peer = binding[c]
<1>0. cleanup[r][c] \in Cleanup /\ binding[c] \in Peer \cup {NoPeer}
  BY CleanupCell
<1>1. CASE binding[c] = NoPeer
  <2>0. cleanup' = [cleanup EXCEPT ![r][c] = CleanedUp(r)]
    BY <1>1, CleanUpCell
  <2>1. Others(r, c) /\ cleanup'[r][c] = CleanedUp(r)
    BY <2>0, CellSet, NoCleanupType
  <2> QED
    BY <1>1, <2>1, NoCleanupType DEF Cleaned, Reason
<1>2. CASE binding[c] # NoPeer
  <2>1. PICK cell : cell = [cleanup[r][c] EXCEPT !.pc = "peer", !.peer = binding[c]]
    OBVIOUS
  <2>2. cell \in Cleanup /\ cell.pc = "peer" /\ cell.peer = binding[c]
    BY <1>0, <2>1 DEF Cleanup
  <2>3. cleanup' = [cleanup EXCEPT ![r][c] = cell]
    BY <1>2, <2>1, CleanUpCell
  <2> QED
    BY <1>0, <1>2, <2>2, <2>3, CellSet
<1> QED
  BY <1>1, <1>2

LEMMA ReadPeerCell ==
  ASSUME Types, NEW r \in Reason, NEW c \in Conn, ReadPeer(r, c)
  PROVE  /\ Others(r, c)
         /\ cleanup[r][c].peer \in Peer
         /\ cleanup'[r][c].pc = "unbind"
         /\ cleanup'[r][c].peer = cleanup[r][c].peer
         /\ cleanup'[r][c].found = presence[cleanup[r][c].peer]
<1>0. cleanup[r][c] \in Cleanup /\ cleanup[r][c].peer \in Peer
  BY CleanupCell DEF ReadPeer, Idle
<1>1. PICK found \in Conn \cup {NoConn} : found = presence[cleanup[r][c].peer]
  BY <1>0, CleanupCell
<1>2. PICK cell : cell = [cleanup[r][c] EXCEPT !.pc = "unbind", !.found = found]
  OBVIOUS
<1>3. /\ cell \in Cleanup /\ cell.pc = "unbind" /\ cell.found = found
      /\ cell.peer = cleanup[r][c].peer
  BY <1>0, <1>2 DEF Cleanup
<1>4. cleanup' = [cleanup EXCEPT ![r][c] = cell]
  BY <1>1, <1>2, CleanUpCell
<1> QED
  BY <1>0, <1>1, <1>3, <1>4, CellSet

LEMMA DeleteBindingCell ==
  ASSUME Types, NEW r \in Reason, NEW c \in Conn, DeleteBinding(r, c)
  PROVE  /\ Others(r, c)
         /\ cleanup[r][c].peer \in Peer
         /\ \/ /\ cleanup[r][c].found = c
               /\ cleanup'[r][c].pc = "remove"
               /\ cleanup'[r][c].peer = cleanup[r][c].peer
            \/ cleanup[r][c].found # c /\ Cleaned(r, c)
<1>0. cleanup[r][c] \in Cleanup /\ cleanup[r][c].peer \in Peer
  BY CleanupCell DEF DeleteBinding, Idle
<1>1. CASE cleanup[r][c].found # c
  <2>0. cleanup' = [cleanup EXCEPT ![r][c] = CleanedUp(r)]
    BY <1>1, CleanUpCell
  <2>1. Others(r, c) /\ cleanup'[r][c] = CleanedUp(r)
    BY <2>0, CellSet, NoCleanupType
  <2> QED
    BY <1>0, <1>1, <2>1, NoCleanupType DEF Cleaned, Reason
<1>2. CASE cleanup[r][c].found = c
  <2>1. PICK cell : cell = [cleanup[r][c] EXCEPT !.pc = "remove"]
    OBVIOUS
  <2>2. cell \in Cleanup /\ cell.pc = "remove" /\ cell.peer = cleanup[r][c].peer
    BY <1>0, <2>1 DEF Cleanup
  <2>3. cleanup' = [cleanup EXCEPT ![r][c] = cell]
    BY <1>2, <2>1, CleanUpCell
  <2> QED
    BY <1>0, <1>2, <2>2, <2>3, CellSet
<1> QED
  BY <1>1, <1>2

LEMMA DeletePeerCell ==
  ASSUME Types, NEW r \in Reason, NEW c \in Conn, DeletePeer(r, c)
  PROVE  /\ Others(r, c)
         /\ cleanup[r][c].peer \in Peer
         /\ cleanup'[r][c].pc = "notify"
         /\ cleanup'[r][c].peer = cleanup[r][c].peer
         /\ presence' \in [Peer -> Conn \cup {NoConn}]
         /\ presence'[cleanup[r][c].peer] = NoConn
         /\ \A p \in Peer : p # cleanup[r][c].peer => presence'[p] = presence[p]
<1>0. cleanup[r][c] \in Cleanup /\ cleanup[r][c].peer \in Peer
  BY CleanupCell DEF DeletePeer, Idle
<1>1. PICK cell : cell = [cleanup[r][c] EXCEPT !.pc = "notify"]
  OBVIOUS
<1>2. cell \in Cleanup /\ cell.pc = "notify" /\ cell.peer = cleanup[r][c].peer
  BY <1>0, <1>1 DEF Cleanup
<1>3. presence' = [presence EXCEPT ![cleanup[r][c].peer] = NoConn]
  BY DEF DeletePeer
<1>4. cleanup' = [cleanup EXCEPT ![r][c] = cell]
  BY <1>1, CleanUpCell
<1>5. /\ presence' \in [Peer -> Conn \cup {NoConn}]
      /\ presence'[cleanup[r][c].peer] = NoConn
      /\ \A p \in Peer : p # cleanup[r][c].peer => presence'[p] = presence[p]
  BY <1>0, <1>3 DEF Types, TypeOK
<1> QED
  BY <1>0, <1>2, <1>4, <1>5, CellSet

LEMMA NotifyLeftCell ==
  ASSUME Types, NEW r \in Reason, NEW c \in Conn, NotifyLeft(r, c)
  PROVE  Others(r, c) /\ Cleaned(r, c)
<1>0. PICK targets : cleanup' = [Gone(targets) EXCEPT ![r][c] = CleanedUp(r)]
  BY CleanUpCell
<1>1. PICK gone : gone = Gone(targets)
  OBVIOUS
<1>2. /\ gone \in CleanupType
      /\ \A d \in Conn : gone["disconnect"][d] = cleanup["disconnect"][d]
      /\ \A d \in Conn :
           \/ gone["stale_connection"][d] = cleanup["stale_connection"][d]
           \/ /\ cleanup["stale_connection"][d].pc = "none"
              /\ gone["stale_connection"][d] = [NoCleanup EXCEPT !.pc = "binding"]
  BY <1>1, GoneCells DEF Types
<1>3. cleanup' = [gone EXCEPT ![r][c] = CleanedUp(r)]
  BY <1>0, <1>1
<1>4. /\ cleanup' \in CleanupType /\ cleanup'[r][c] = CleanedUp(r)
      /\ \A s \in Reason, d \in Conn : s # r \/ d # c => cleanup'[s][d] = gone[s][d]
  BY <1>2, <1>3, NoCleanupType DEF CleanupType
<1>5. ASSUME NEW s \in Reason, NEW d \in Conn, s # r \/ d # c
      PROVE  KeptOrStarted(s, d) /\ (s = "disconnect" => cleanup'[s][d] = cleanup[s][d])
  <2>1. s = "disconnect" \/ s = "stale_connection"
    BY DEF Reason
  <2>2. cleanup'[s][d] = gone[s][d]
    BY <1>4, <1>5
  <2>3. CASE s = "disconnect"
    BY <1>2, <2>2, <2>3 DEF KeptOrStarted
  <2>4. CASE s = "stale_connection" /\ cleanup'[s][d] # cleanup[s][d]
    <3>1. /\ cleanup[s][d].pc = "none"
          /\ cleanup'[s][d] = [NoCleanup EXCEPT !.pc = "binding"]
      BY <1>2, <2>2, <2>4
    <3> QED
      BY <2>4, <3>1, NoCleanupType DEF KeptOrStarted, Started
  <2> QED
    BY <2>1, <2>3, <2>4 DEF KeptOrStarted
<1>6. Cleaned(r, c)
  BY <1>4, NoCleanupType DEF Cleaned, Reason
<1> QED
  BY <1>4, <1>5, <1>6 DEF Others

-----------------------------------------------------------------------------
(* The steps of a registration: what becomes of its record *)

Elsewhere(c) ==
  /\ register' \in [Conn -> Registration]
  /\ \A d \in Conn : d # c => register'[d] = register[d]

LEMMA RegistrationCell ==
  ASSUME Types, NEW c \in Conn
  PROVE  /\ register[c] \in Registration /\ register \in [Conn -> Registration]
         /\ register[c].pc \in Registering => register[c].peer \in Peer
BY DEF Types, TypeOK, Order, OrderAt, Registration

LEMMA RegisterCell ==
  ASSUME Types, NEW c \in Conn, NEW p \in Peer, Register(c, p)
  PROVE  /\ Elsewhere(c)
         /\ register'[c].pc = "lookup" /\ register'[c].peer = p
         /\ register'[c].existing = register[c].existing
<1>0. register[c] \in Registration /\ register \in [Conn -> Registration]
  BY RegistrationCell
<1>1. PICK cell : cell = [register[c] EXCEPT !.pc = "lookup", !.peer = p]
  OBVIOUS
<1>2. /\ cell \in Registration /\ cell.pc = "lookup" /\ cell.peer = p
      /\ cell.existing = register[c].existing
  BY <1>0, <1>1 DEF Registration
<1>3. register' = [register EXCEPT ![c] = cell]
  BY <1>0, <1>1 DEF Register
<1> QED
  BY <1>0, <1>2, <1>3 DEF Elsewhere

LEMMA LookUpCell ==
  ASSUME Types, NEW c \in Conn, LookUp(c)
  PROVE  /\ Elsewhere(c)
         /\ register[c].peer \in Peer
         /\ register'[c].pc = "snapshot" /\ register'[c].peer = register[c].peer
         /\ register'[c].existing = presence[register[c].peer]
<1>0. /\ register[c] \in Registration /\ register \in [Conn -> Registration]
      /\ register[c].peer \in Peer
  BY RegistrationCell DEF LookUp, Registering
<1>1. PICK found \in Conn \cup {NoConn} : found = presence[register[c].peer]
  BY <1>0, CleanupCell DEF Types, TypeOK
<1>2. PICK cell : cell = [register[c] EXCEPT !.existing = found, !.pc = "snapshot"]
  OBVIOUS
<1>3. /\ cell \in Registration /\ cell.pc = "snapshot" /\ cell.peer = register[c].peer
      /\ cell.existing = found
  BY <1>0, <1>2 DEF Registration
<1>4. register' = [register EXCEPT ![c] = cell]
  BY <1>0, <1>1, <1>2 DEF LookUp
<1> QED
  BY <1>0, <1>1, <1>3, <1>4 DEF Elsewhere

LEMMA TakeSnapshotCell ==
  ASSUME Types, NEW c \in Conn, TakeSnapshot(c)
  PROVE  /\ Elsewhere(c)
         /\ register'[c].pc \in {"publish", "unbind"}
         /\ register'[c].peer = register[c].peer
         /\ register'[c].existing = register[c].existing
<1>0. register[c] \in Registration /\ register \in [Conn -> Registration]
  BY RegistrationCell
<1>1. PICK seen \in SUBSET Conn : \E view \in IndexViews :
        /\ seen = {view[q] : q \in Peer \ {register[c].peer}} \ {NoConn}
        /\ register' = [register EXCEPT
             ![c].snapshot = seen,
             ![c].pc = IF register[c].existing \in {NoConn, c} THEN "publish" ELSE "unbind"]
  <2>1. \A view \in IndexViews :
          {view[q] : q \in Peer \ {register[c].peer}} \ {NoConn} \in SUBSET Conn
    BY DEF IndexViews
  <2> QED
    BY <2>1 DEF TakeSnapshot
<1>2. PICK pc \in {"publish", "unbind"} :
        pc = IF register[c].existing \in {NoConn, c} THEN "publish" ELSE "unbind"
  OBVIOUS
<1>3. PICK cell : cell = [register[c] EXCEPT !.snapshot = seen, !.pc = pc]
  OBVIOUS
<1>4. /\ cell \in Registration /\ cell.pc = pc /\ cell.peer = register[c].peer
      /\ cell.existing = register[c].existing
  BY <1>0, <1>3 DEF Registration
<1>5. register' = [register EXCEPT ![c] = cell]
  BY <1>0, <1>1, <1>2, <1>3
<1> QED
  BY <1>0, <1>2, <1>4, <1>5 DEF Elsewhere

\* Steps that only go on to the next place
LEMMA GoesOn ==
  ASSUME Types, NEW c \in Conn,
         NEW pc \in {"warn", "publish", "list"}, register' = [register EXCEPT ![c].pc = pc]
  PROVE  /\ Elsewhere(c)
         /\ register'[c].pc = pc /\ register'[c].peer = register[c].peer
         /\ register'[c].existing = register[c].existing
<1>0. register[c] \in Registration /\ register \in [Conn -> Registration]
  BY RegistrationCell
<1>1. PICK cell : cell = [register[c] EXCEPT !.pc = pc]
  OBVIOUS
<1>2. /\ cell \in Registration /\ cell.pc = pc /\ cell.peer = register[c].peer
      /\ cell.existing = register[c].existing
  BY <1>0, <1>1 DEF Registration
<1>3. register' = [register EXCEPT ![c] = cell]
  BY <1>0, <1>1
<1> QED
  BY <1>0, <1>2, <1>3 DEF Elsewhere

LEMMA PublishCell ==
  ASSUME Types, NEW c \in Conn, Publish(c)
  PROVE  /\ Elsewhere(c)
         /\ register[c].peer \in Peer
         /\ register'[c].pc = "bind" /\ register'[c].peer = register[c].peer
         /\ register'[c].existing = NoConn
         /\ presence' \in [Peer -> Conn \cup {NoConn}]
         /\ presence'[register[c].peer] = c
         /\ \A p \in Peer : p # register[c].peer => presence'[p] = presence[p]
<1>0. /\ register[c] \in Registration /\ register \in [Conn -> Registration]
      /\ register[c].peer \in Peer
  BY RegistrationCell DEF Publish, Registering
<1>1. PICK cell : cell = [register[c] EXCEPT !.pc = "bind", !.existing = NoConn]
  OBVIOUS
<1>2. /\ cell \in Registration /\ cell.pc = "bind" /\ cell.peer = register[c].peer
      /\ cell.existing = NoConn
  BY <1>0, <1>1 DEF Registration
<1>3. register' = [register EXCEPT ![c] = cell]
  BY <1>0, <1>1 DEF Publish
<1>4. presence' = [presence EXCEPT ![register[c].peer] = c]
  BY DEF Publish, Published
<1> QED
  BY <1>0, <1>2, <1>3, <1>4 DEF Elsewhere, Types, TypeOK

LEMMA PostCell ==
  ASSUME Types, NEW c \in Conn, NEW next \in Registration,
         register' = [register EXCEPT ![c] = next]
  PROVE  Elsewhere(c) /\ register'[c] = next
BY RegistrationCell DEF Elsewhere

-----------------------------------------------------------------------------
(* Types and Order *)

\* What a post leaves of the cleanups
Calm ==
  /\ cleanup' \in CleanupType
  /\ \A s \in Reason, d \in Conn :
       KeptOrStarted(s, d) /\ (s = "disconnect" => cleanup'[s][d] = cleanup[s][d])

LEMMA CalmSteps ==
  ASSUME Types
  PROVE  /\ cleanup' = cleanup => Calm
         /\ \A targets : cleanup' = Gone(targets) => Calm
<1>1. ASSUME cleanup' = cleanup
      PROVE  Calm
  BY <1>1 DEF Types, TypeOK, Calm, KeptOrStarted, CleanupType
<1>2. ASSUME NEW targets, cleanup' = Gone(targets)
      PROVE  Calm
  BY <1>2, Posted DEF Calm, Types
<1> QED
  BY <1>1, <1>2

\* The cleanups keep their order.
CleanupOrder(c) ==
  /\ \A r \in Reason : cleanup[r][c].peer # NoPeer <=> cleanup[r][c].pc \notin Idle
  /\ cleanup["stale_connection"][c].pc # "done"

LEMMA StartedOrder ==
  ASSUME Types, NEW r \in Reason, NEW c \in Conn, KeptOrStarted(r, c)
  PROVE  /\ cleanup'[r][c].peer # NoPeer <=> cleanup'[r][c].pc \notin Idle
         /\ cleanup[r][c].pc # "done" => cleanup'[r][c].pc # "done"
         /\ cleanup[r][c].pc \in Idle => cleanup'[r][c].pc \in Idle
         /\ cleanup'[r][c].peer # NoPeer => cleanup'[r][c] = cleanup[r][c]
BY DEF KeptOrStarted, Started, Types, Order, OrderAt, Idle

LEMMA CalmOrder ==
  ASSUME Types, Calm, NEW c \in Conn
  PROVE  /\ CleanupOrder(c)'
         /\ \A r \in Reason : cleanup[r][c].pc \in Idle => cleanup'[r][c].pc \in Idle
         /\ cleanup'["disconnect"][c] = cleanup["disconnect"][c]
<1>1. "disconnect" \in Reason /\ "stale_connection" \in Reason
  BY DEF Reason
<1>2. cleanup["stale_connection"][c].pc # "done"
  BY DEF Types, Order, OrderAt
<1> QED
  BY <1>1, <1>2, StartedOrder DEF Calm, CleanupOrder

LEMMA InitTypes == Init => Types
<1> SUFFICES ASSUME Init PROVE Types
  OBVIOUS
<1>1. TypeOK
  BY DEF Init, TypeOK, NotRegistered, Registration, NoCleanup, Cleanup
<1>2. Order
  BY NoneAssumption DEF Init, Order, OrderAt, NotRegistered, NoCleanup, Registering,
     Finding, Idle, BeforeBound, BeforePublished, Reason
<1> QED
  BY <1>1, <1>2 DEF Types

\* A step of the registration of c keeps the order if it does so at c.
LEMMA RegistrationOrder ==
  ASSUME Types, NEW c \in Conn, Elsewhere(c), Calm, link' = link,
         \A d \in Conn : d # c => binding'[d] \in {binding[d], NoPeer},
         \A d \in Conn : (\E p \in Peer : presence'[p] = d) =>
                           d = c \/ \E p \in Peer : presence[p] = d,
         register'[c].existing \in Conn =>
           \/ register'[c].existing = register[c].existing
           \/ \E p \in Peer : presence[p] = register'[c].existing,
         OrderAt(c)'
  PROVE  Order'
<1> SUFFICES ASSUME NEW d \in Conn, d # c PROVE OrderAt(d)'
  BY DEF Order
<1>1. register'[d] = register[d] /\ OrderAt(d)
  BY DEF Elsewhere, Types, Order
<1>2. register[d].pc \in BeforePublished =>
        /\ \A p \in Peer : presence'[p] # d
        /\ \A e \in Conn : register'[e].existing # d
  BY <1>1 DEF OrderAt, Elsewhere
<1>3. /\ CleanupOrder(d)'
      /\ \A r \in Reason : cleanup[r][d].pc \in Idle => cleanup'[r][d].pc \in Idle
      /\ cleanup'["disconnect"][d] = cleanup["disconnect"][d]
  BY CalmOrder
<1> QED
  BY <1>1, <1>2, <1>3 DEF OrderAt, CleanupOrder

LEMMA SupersededType ==
  ASSUME Types, NEW p
  PROVE  Superseded(p) \in [Peer -> SUBSET (Conn \cup {NoConn})]
BY DEF Superseded, Types, TypeOK

LEMMA RegisterTypes ==
  ASSUME Types, NEW c \in Conn, NEW p \in Peer, Register(c, p)
  PROVE  Types'
<1>1. /\ Elsewhere(c) /\ register'[c].pc = "lookup" /\ register'[c].peer = p
      /\ register'[c].existing = register[c].existing
  BY RegisterCell
<1>2. /\ UNCHANGED <<link, binding, presence, older, cleanup, told, missed>> /\ Calm
      /\ register[c].pc = "none"
  BY CalmSteps DEF Register
<1>3. TypeOK'
  BY <1>1, <1>2 DEF Types, TypeOK, Elsewhere
<1>4. OrderAt(c)
  BY DEF Types, Order
<1>5. register'[c].existing = NoConn
  BY <1>1, <1>2, <1>4 DEF OrderAt, Finding, Types, TypeOK
<1>6. /\ CleanupOrder(c)'
      /\ \A r \in Reason : cleanup[r][c].pc \in Idle => cleanup'[r][c].pc \in Idle
      /\ cleanup'["disconnect"][c] = cleanup["disconnect"][c]
  BY <1>2, CalmOrder
<1>7. /\ \A q \in Peer : presence'[q] # c
      /\ \A d \in Conn : register'[d].existing # c
  BY <1>1, <1>2, <1>4, <1>5, NoneAssumption DEF OrderAt, Elsewhere, BeforePublished
<1>8. OrderAt(c)'
  BY <1>1, <1>2, <1>4, <1>5, <1>6, <1>7, NoneAssumption
     DEF OrderAt, CleanupOrder, BeforePublished, BeforeBound, Registering
<1> QED
  BY <1>1, <1>2, <1>3, <1>8, RegistrationOrder DEF Types
\* The order at c itself
LEMMA OwnOrder ==
  ASSUME Types, NEW c \in Conn, Elsewhere(c), Calm, link' = link,
         register'[c].peer # NoPeer <=> register'[c].pc \in Registering,
         register'[c].existing # NoConn => register'[c].pc \in Finding,
         register'[c].pc \in BeforePublished =>
           /\ register[c].pc \in BeforePublished
           /\ presence' = presence
           /\ register'[c].existing # c,
         register'[c].pc \in BeforeBound =>
           register[c].pc \in BeforeBound /\ binding'[c] \in {binding[c], NoPeer}
  PROVE  OrderAt(c)'
<1>1. OrderAt(c)
  BY DEF Types, Order
<1>2. /\ CleanupOrder(c)'
      /\ \A r \in Reason : cleanup[r][c].pc \in Idle => cleanup'[r][c].pc \in Idle
      /\ cleanup'["disconnect"][c] = cleanup["disconnect"][c]
  BY CalmOrder
<1>3. register'[c].pc \in BeforePublished =>
        /\ \A q \in Peer : presence'[q] # c
        /\ \A d \in Conn : register'[d].existing # c
  BY <1>1 DEF OrderAt, Elsewhere
<1>4. register'[c].pc \in BeforeBound =>
        /\ binding'[c] = NoPeer
        /\ \A r \in Reason : cleanup'[r][c].pc \in Idle
  BY <1>1, <1>2 DEF OrderAt
<1> QED
  BY <1>1, <1>2, <1>3, <1>4 DEF OrderAt, CleanupOrder

\* What is known of c before a step of its registration
LEMMA Before ==
  ASSUME Types, NEW c \in Conn
  PROVE  /\ register[c].pc \in Registering <=> register[c].peer # NoPeer
         /\ register[c].existing # NoConn => register[c].pc \in Finding
         /\ register[c].pc \in BeforePublished => register[c].existing # c
         /\ register[c].pc \in BeforePublished => \A p \in Peer : presence[p] # c
         /\ register[c].existing \in Conn \cup {NoConn}
         /\ NoPeer \notin Peer /\ NoConn \notin Conn
BY NoneAssumption, RegistrationCell DEF Types, Order, OrderAt, Registration

LEMMA LookUpTypes ==
  ASSUME Types, NEW c \in Conn, LookUp(c)
  PROVE  Types'
<1>1. /\ Elsewhere(c) /\ register[c].peer \in Peer
      /\ register'[c].pc = "snapshot" /\ register'[c].peer = register[c].peer
      /\ register'[c].existing = presence[register[c].peer]
  BY LookUpCell
<1>2. /\ UNCHANGED <<link, binding, presence, older, cleanup, told, missed>> /\ Calm
      /\ register[c].pc = "lookup"
  BY CalmSteps DEF LookUp
<1>3. TypeOK'
  BY <1>1, <1>2 DEF Types, TypeOK, Elsewhere
<1>4. register'[c].existing # c
  BY <1>1, <1>2, Before DEF BeforePublished
<1>5. OrderAt(c)'
  BY <1>1, <1>2, <1>4, OwnOrder, Before
     DEF BeforePublished, BeforeBound, Registering, Finding
<1> QED
  BY <1>1, <1>2, <1>3, <1>5, RegistrationOrder DEF Types

LEMMA TakeSnapshotTypes ==
  ASSUME Types, NEW c \in Conn, TakeSnapshot(c)
  PROVE  Types'
<1>1. /\ Elsewhere(c) /\ register'[c].pc \in {"publish", "unbind"}
      /\ register'[c].peer = register[c].peer
      /\ register'[c].existing = register[c].existing
  BY TakeSnapshotCell
<1>2. /\ UNCHANGED <<link, binding, presence, older, cleanup, told, missed>> /\ Calm
      /\ register[c].pc = "snapshot"
  BY CalmSteps DEF TakeSnapshot
<1>3. TypeOK'
  BY <1>1, <1>2 DEF Types, TypeOK, Elsewhere
<1>4. OrderAt(c)'
  BY <1>1, <1>2, OwnOrder, Before
     DEF BeforePublished, BeforeBound, Registering, Finding
<1> QED
  BY <1>1, <1>2, <1>3, <1>4, RegistrationOrder DEF Types

LEMMA UnbindTypes ==
  ASSUME Types, NEW c \in Conn, Unbind(c)
  PROVE  Types'
<1>1. /\ Elsewhere(c) /\ register'[c].pc = "warn"
      /\ register'[c].peer = register[c].peer
      /\ register'[c].existing = register[c].existing
  BY GoesOn DEF Unbind
<1>2. /\ UNCHANGED <<link, presence, older, cleanup, told, missed>> /\ Calm
      /\ register[c].pc = "unbind"
  BY CalmSteps DEF Unbind
<1>3. /\ binding' \in [Conn -> Peer \cup {NoPeer}]
      /\ \A d \in Conn : binding'[d] \in {binding[d], NoPeer}
  BY DEF Unbind, Types, TypeOK
<1>4. TypeOK'
  BY <1>1, <1>2, <1>3 DEF Types, TypeOK, Elsewhere
<1>5. OrderAt(c)'
  BY <1>1, <1>2, <1>3, OwnOrder, Before
     DEF BeforePublished, BeforeBound, Registering, Finding
<1> QED
  BY <1>1, <1>2, <1>3, <1>4, <1>5, RegistrationOrder DEF Types

LEMMA WarnTypes ==
  ASSUME Types, NEW c \in Conn, Warn(c)
  PROVE  Types'
<1>1. /\ Elsewhere(c) /\ register'[c].pc = "publish"
      /\ register'[c].peer = register[c].peer
      /\ register'[c].existing = register[c].existing
  BY GoesOn DEF Warn
<1>2. /\ UNCHANGED <<link, binding, presence, older, told, missed>> /\ Calm
      /\ register[c].pc = "warn"
  BY CalmSteps DEF Warn
<1>3. TypeOK'
  BY <1>1, <1>2 DEF Types, TypeOK, Elsewhere, Calm, CleanupType
<1>4. OrderAt(c)'
  BY <1>1, <1>2, OwnOrder, Before
     DEF BeforePublished, BeforeBound, Registering, Finding
<1> QED
  BY <1>1, <1>2, <1>3, <1>4, RegistrationOrder DEF Types

LEMMA PublishTypes ==
  ASSUME Types, NEW c \in Conn, Publish(c)
  PROVE  Types'
<1>1. /\ Elsewhere(c) /\ register[c].peer \in Peer
      /\ register'[c].pc = "bind" /\ register'[c].peer = register[c].peer
      /\ register'[c].existing = NoConn
      /\ presence' \in [Peer -> Conn \cup {NoConn}]
      /\ presence'[register[c].peer] = c
      /\ \A p \in Peer : p # register[c].peer => presence'[p] = presence[p]
  BY PublishCell
<1>2. /\ UNCHANGED <<link, binding, cleanup, told, missed>> /\ Calm
      /\ register[c].pc = "publish"
      /\ older' \in [Peer -> SUBSET (Conn \cup {NoConn})]
  BY CalmSteps, SupersededType DEF Publish
<1>3. TypeOK'
  BY <1>1, <1>2 DEF Types, TypeOK, Elsewhere
<1>4. OrderAt(c)'
  BY <1>1, <1>2, OwnOrder, Before
     DEF BeforePublished, BeforeBound, Registering, Finding
<1>5. /\ \A d \in Conn : (\E p \in Peer : presence'[p] = d) =>
                           d = c \/ \E p \in Peer : presence[p] = d
      /\ register'[c].existing \notin Conn
  BY <1>1, NoneAssumption
<1> QED
  BY <1>1, <1>2, <1>3, <1>4, <1>5, RegistrationOrder DEF Types

LEMMA BindTypes ==
  ASSUME Types, NEW c \in Conn, Bind(c)
  PROVE  Types'
<1>1. /\ Elsewhere(c) /\ register'[c].pc = "list"
      /\ register'[c].peer = register[c].peer
      /\ register'[c].existing = register[c].existing
  BY GoesOn DEF Bind
<1>2. /\ UNCHANGED <<link, presence, older, cleanup, told, missed>> /\ Calm
      /\ register[c].pc = "bind" /\ register[c].peer \in Peer
  BY CalmSteps, RegistrationCell DEF Bind, Registering
<1>3. /\ binding' \in [Conn -> Peer \cup {NoPeer}]
      /\ binding'[c] = register[c].peer
      /\ \A d \in Conn : d # c => binding'[d] = binding[d]
  BY <1>2 DEF Bind, Types, TypeOK
<1>4. TypeOK'
  BY <1>1, <1>2, <1>3 DEF Types, TypeOK, Elsewhere
<1>5. OrderAt(c)'
  BY <1>1, <1>2, <1>3, OwnOrder, Before
     DEF BeforePublished, BeforeBound, Registering, Finding
<1> QED
  BY <1>1, <1>2, <1>3, <1>4, <1>5, RegistrationOrder DEF Types

\* The messages after the binding
LEMMA PostTypes ==
  ASSUME Types, NEW c \in Conn, Elsewhere(c), Calm,
         UNCHANGED <<link, binding, presence, older>>,
         told' \in [Conn -> SUBSET Conn], missed' \in [Conn -> SUBSET Conn],
         register'[c].pc \in {"announce", "confirm", "done"},
         register'[c].peer # NoPeer <=> register'[c].pc = "announce",
         register'[c].existing = NoConn
  PROVE  Types'
<1>1. TypeOK'
  BY DEF Types, TypeOK, Elsewhere, Calm, CleanupType
<1>2. OrderAt(c)'
  BY OwnOrder DEF BeforePublished, BeforeBound, Registering, Finding
<1> QED
  BY <1>1, <1>2, NoneAssumption, RegistrationOrder DEF Types

LEMMA SendPeerListCell ==
  ASSUME Types, NEW c \in Conn, SendPeerList(c)
  PROVE  /\ Elsewhere(c) /\ Calm /\ UNCHANGED <<link, binding, presence, older>>
         /\ register[c].pc = "list" /\ register[c].peer \in Peer
         /\ register'[c].pc = "announce" /\ register'[c].peer = register[c].peer
         /\ register'[c].existing = NoConn
         /\ cleanup' = Gone({c})
         /\ told' \in [Conn -> SUBSET Conn] /\ missed' \in [Conn -> SUBSET Conn]
<1>1. PICK p : p = register[c].peer
  OBVIOUS
<1>2. register[c].pc = "list" /\ p \in Peer
  <2>1. register[c].pc = "list"
    BY DEF SendPeerList, Post
  <2> QED
    BY <1>1, <2>1, RegistrationCell DEF Registering
<1>3. PICK next : next = [NotRegistered EXCEPT !.pc = "announce", !.peer = p]
  OBVIOUS
<1>4. /\ next \in Registration /\ next.pc = "announce" /\ next.peer = p
      /\ next.existing = NoConn
  BY <1>2, <1>3, NotRegisteredType
<1>5. Post(c, "list", next)
  BY <1>1, <1>3 DEF SendPeerList
<1>6. Elsewhere(c) /\ register'[c] = next
  BY <1>4, <1>5, PostCell DEF Post
<1>7. cleanup' = Gone({c}) /\ UNCHANGED <<link, binding, presence, older>> /\ Calm
  BY <1>5, CalmSteps DEF Post
<1>8. register[c].snapshot \in SUBSET Conn
  BY RegistrationCell DEF Registration
<1>9. told' \in [Conn -> SUBSET Conn] /\ missed' \in [Conn -> SUBSET Conn]
  BY <1>1, <1>2, <1>8 DEF SendPeerList, Post, Types, TypeOK
<1> QED
  BY <1>1, <1>2, <1>4, <1>6, <1>7, <1>9

LEMMA AnnounceCell ==
  ASSUME Types, NEW c \in Conn, Announce(c)
  PROVE  /\ Elsewhere(c) /\ Calm /\ UNCHANGED <<link, binding, presence, older>>
         /\ register[c].pc = "announce" /\ register[c].peer \in Peer
         /\ register'[c].pc = "confirm" /\ register'[c].peer = NoPeer
         /\ register'[c].existing = NoConn
         /\ told' \in [Conn -> SUBSET Conn] /\ missed' \in [Conn -> SUBSET Conn]
<1>1. PICK p : p = register[c].peer
  OBVIOUS
<1>2. register[c].pc = "announce" /\ p \in Peer
  <2>1. register[c].pc = "announce"
    BY DEF Announce
  <2> QED
    BY <1>1, <2>1, RegistrationCell DEF Registering
<1>3. PICK next : next = [NotRegistered EXCEPT !.pc = "confirm"]
  OBVIOUS
<1>4. /\ next \in Registration /\ next.pc = "confirm" /\ next.peer = NoPeer
      /\ next.existing = NoConn
  BY <1>3, NotRegisteredType
<1>5. register' = [register EXCEPT ![c] = next]
  BY <1>3 DEF Announce
<1>6. Elsewhere(c) /\ register'[c] = next
  BY <1>4, <1>5, PostCell
<1>7. UNCHANGED <<link, binding, presence, older>> /\ Calm
  BY CalmSteps DEF Announce
<1>8. told' \in [Conn -> SUBSET Conn] /\ missed' \in [Conn -> SUBSET Conn]
  <2>1. ASSUME NEW view \in IndexViews, NEW withheld,
               withheld = Online(c, presence) \ Online(c, view),
               told' = [d \in Conn |->
                        IF d \in Hearing(c, view) THEN told[d] \cup {c} ELSE told[d]],
               missed' = [missed EXCEPT ![c] = withheld]
        PROVE  told' \in [Conn -> SUBSET Conn] /\ missed' \in [Conn -> SUBSET Conn]
    <3>1. withheld \in SUBSET Conn
      BY <2>1 DEF Online, Types, TypeOK
    <3>2. /\ told \in [Conn -> SUBSET Conn] /\ missed \in [Conn -> SUBSET Conn]
          /\ \A d \in Conn : told[d] \cup {c} \in SUBSET Conn /\ told[d] \in SUBSET Conn
      BY DEF Types, TypeOK
    <3>3. told' \in [Conn -> SUBSET Conn]
      BY <2>1, <3>2
    <3>4. missed' \in [Conn -> SUBSET Conn]
      BY <2>1, <3>1, <3>2
    <3> QED
      BY <3>3, <3>4
  <2>2. CASE link[c] = "up"
    BY <2>1, <2>2 DEF Announce
  <2>3. CASE link[c] # "up"
    BY <2>3 DEF Announce, Types, TypeOK
  <2> QED
    BY <2>2, <2>3
<1> QED
  BY <1>1, <1>2, <1>4, <1>6, <1>7, <1>8

LEMMA ConfirmCell ==
  ASSUME Types, NEW c \in Conn, Confirm(c)
  PROVE  /\ Elsewhere(c) /\ Calm /\ UNCHANGED <<link, binding, presence, older>>
         /\ register[c].pc = "confirm"
         /\ register'[c].pc = "done" /\ register'[c].peer = NoPeer
         /\ register'[c].existing = NoConn
         /\ told' \in [Conn -> SUBSET Conn] /\ missed' \in [Conn -> SUBSET Conn]
<1>1. PICK next : next = [NotRegistered EXCEPT !.pc = "done"]
  OBVIOUS
<1>2. /\ next \in Registration /\ next.pc = "done" /\ next.peer = NoPeer
      /\ next.existing = NoConn
  BY <1>1, NotRegisteredType
<1>3. Post(c, "confirm", next) /\ told' = told
  BY <1>1 DEF Confirm
<1>4. Elsewhere(c) /\ register'[c] = next
  BY <1>2, <1>3, PostCell DEF Post
<1>5. UNCHANGED <<link, binding, presence, older>> /\ Calm /\ register[c].pc = "confirm"
  BY <1>3, CalmSteps DEF Post
<1>6. missed' = missed
  BY <1>3 DEF Post
<1> QED
  BY <1>2, <1>3, <1>4, <1>5, <1>6 DEF Types, TypeOK

LEMMA RegisterRouteTypes ==
  ASSUME Types, NEW c \in Conn, RegisterRoute(c)
  PROVE  Types'
<1>1. CASE SendPeerList(c)
  <2>1. register'[c].peer # NoPeer
    BY <1>1, SendPeerListCell, NoneAssumption
  <2> QED
    BY <1>1, <2>1, SendPeerListCell, PostTypes
<1>2. CASE Announce(c)
  BY <1>2, AnnounceCell, PostTypes
<1>3. CASE Confirm(c)
  BY <1>3, ConfirmCell, PostTypes
<1> QED
  BY <1>1, <1>2, <1>3, LookUpTypes, TakeSnapshotTypes, UnbindTypes, WarnTypes,
     PublishTypes, BindTypes DEF RegisterRoute

\* A step of the cleanup (r, c) keeps the order if it does so in its record.
LEMMA CleanUpOrder ==
  ASSUME Types, NEW r \in Reason, NEW c \in Conn, Others(r, c),
         UNCHANGED <<link, register>>,
         \A d \in Conn : binding'[d] \in {binding[d], NoPeer},
         \A p \in Peer : presence'[p] \in {presence[p], NoConn},
         cleanup'[r][c].peer # NoPeer <=> cleanup'[r][c].pc \notin Idle,
         cleanup'[r][c].pc \notin Idle => register[c].pc \notin BeforeBound,
         r = "disconnect" => link[c] = "down",
         r = "stale_connection" => cleanup'[r][c].pc # "done"
  PROVE  Order'
<1> SUFFICES ASSUME NEW d \in Conn PROVE OrderAt(d)'
  BY DEF Order
<1>0. OrderAt(d) /\ "disconnect" \in Reason /\ "stale_connection" \in Reason
  BY DEF Types, Order, Reason
<1>1. register[d].pc \in BeforePublished =>
        /\ \A p \in Peer : presence'[p] # d
        /\ \A e \in Conn : register'[e].existing # d
  BY <1>0, NoneAssumption DEF OrderAt
<1>2. ASSUME NEW s \in Reason
      PROVE  /\ cleanup'[s][d].peer # NoPeer <=> cleanup'[s][d].pc \notin Idle
             /\ register[d].pc \in BeforeBound => cleanup'[s][d].pc \in Idle
             /\ s = "stale_connection" => cleanup'[s][d].pc # "done"
             /\ s = "disconnect" /\ link[d] = "up" => cleanup'[s][d].pc = "none"
  <2>1. CASE s = r /\ d = c
    BY <2>1
  <2>2. CASE s # r \/ d # c
    <3>1. KeptOrStarted(s, d) /\ (s = "disconnect" => cleanup'[s][d] = cleanup[s][d])
      BY <2>2 DEF Others
    <3> QED
      BY <1>0, <3>1, StartedOrder DEF OrderAt
  <2> QED
    BY <2>1, <2>2
<1>3. register[d].pc \in BeforeBound => binding'[d] = NoPeer
  BY <1>0 DEF OrderAt
<1> QED
  BY <1>0, <1>1, <1>2, <1>3 DEF OrderAt

\* What is known of a cleanup under way
LEMMA UnderWay ==
  ASSUME Types, NEW r \in Reason, NEW c \in Conn
  PROVE  /\ cleanup[r][c].pc \notin Idle => register[c].pc \notin BeforeBound
         /\ binding[c] # NoPeer => register[c].pc \notin BeforeBound
         /\ r = "disconnect" /\ cleanup[r][c].pc # "none" => link[c] = "down"
BY DEF Types, TypeOK, Order, OrderAt

LEMMA CleanUpTypes ==
  ASSUME Types, NEW r \in Reason, NEW c \in Conn, CleanUp(r, c)
  PROVE  Types'
<1> USE NoneAssumption DEF Idle
<1>1. CASE ReadBinding(r, c)
  <2>1. UNCHANGED <<link, register, binding, presence, older, told, missed>> /\ cleanup[r][c].pc = "binding"
    BY <1>1 DEF ReadBinding
  <2>2. /\ cleanup' \in CleanupType
        /\ cleanup'[r][c].peer # NoPeer <=> cleanup'[r][c].pc \notin Idle
        /\ cleanup'[r][c].pc \notin Idle => binding[c] # NoPeer
        /\ r = "stale_connection" => cleanup'[r][c].pc # "done"
    BY <1>1, ReadBindingCell DEF Cleaned, Others
  <2>3. TypeOK'
    BY <2>1, <2>2 DEF Types, TypeOK, CleanupType
  <2> QED
    BY <1>1, <2>1, <2>2, <2>3, ReadBindingCell, UnderWay, CleanUpOrder DEF Types
<1>2. CASE ReadPeer(r, c)
  <2>1. UNCHANGED <<link, register, binding, presence, older, told, missed>> /\ cleanup[r][c].pc = "peer"
    BY <1>2 DEF ReadPeer
  <2>2. /\ cleanup' \in CleanupType /\ cleanup'[r][c].peer # NoPeer
        /\ cleanup'[r][c].pc = "unbind"
    BY <1>2, ReadPeerCell DEF Others
  <2>3. TypeOK'
    BY <2>1, <2>2 DEF Types, TypeOK, CleanupType
  <2> QED
    BY <1>2, <2>1, <2>2, <2>3, ReadPeerCell, UnderWay, CleanUpOrder DEF Types
<1>3. CASE DeleteBinding(r, c)
  <2>1. /\ UNCHANGED <<link, register, presence, older, told, missed>> /\ cleanup[r][c].pc = "unbind"
        /\ binding' \in [Conn -> Peer \cup {NoPeer}]
        /\ \A d \in Conn : binding'[d] \in {binding[d], NoPeer}
    BY <1>3 DEF DeleteBinding, Types, TypeOK
  <2>2. /\ cleanup' \in CleanupType
        /\ cleanup'[r][c].peer # NoPeer <=> cleanup'[r][c].pc \notin Idle
        /\ r = "stale_connection" => cleanup'[r][c].pc # "done"
    BY <1>3, DeleteBindingCell DEF Cleaned, Others
  <2>3. TypeOK'
    BY <2>1, <2>2 DEF Types, TypeOK, CleanupType
  <2> QED
    BY <1>3, <2>1, <2>2, <2>3, DeleteBindingCell, UnderWay, CleanUpOrder DEF Types
<1>4. CASE DeletePeer(r, c)
  <2>1. /\ UNCHANGED <<link, register, binding, told, missed>> /\ cleanup[r][c].pc = "remove"
        /\ older' \in [Peer -> SUBSET (Conn \cup {NoConn})]
    BY <1>4, SupersededType DEF DeletePeer
  <2>2. /\ cleanup' \in CleanupType /\ cleanup'[r][c].peer # NoPeer
        /\ cleanup'[r][c].pc = "notify"
        /\ presence' \in [Peer -> Conn \cup {NoConn}]
        /\ \A p \in Peer : presence'[p] \in {presence[p], NoConn}
    BY <1>4, DeletePeerCell DEF Others
  <2>3. TypeOK'
    BY <2>1, <2>2 DEF Types, TypeOK, CleanupType
  <2> QED
    BY <1>4, <2>1, <2>2, <2>3, DeletePeerCell, UnderWay, CleanUpOrder DEF Types
<1>5. CASE NotifyLeft(r, c)
  <2>1. UNCHANGED <<link, register, binding, presence, older>> /\ cleanup[r][c].pc = "notify"
    BY <1>5 DEF NotifyLeft
  <2>2. /\ cleanup' \in CleanupType
        /\ cleanup'[r][c].peer # NoPeer <=> cleanup'[r][c].pc \notin Idle
        /\ cleanup'[r][c].pc \in Idle
        /\ r = "stale_connection" => cleanup'[r][c].pc # "done"
    BY <1>5, NotifyLeftCell DEF Cleaned, Others
  <2>3. told' \in [Conn -> SUBSET Conn] /\ missed' \in [Conn -> SUBSET Conn]
    BY <1>5 DEF NotifyLeft, Types, TypeOK
  <2>4. TypeOK'
    BY <2>1, <2>2, <2>3 DEF Types, TypeOK, CleanupType
  <2> QED
    BY <1>5, <2>1, <2>2, <2>4, NotifyLeftCell, UnderWay, CleanUpOrder DEF Types
<1> QED
  BY <1>1, <1>2, <1>3, <1>4, <1>5 DEF CleanUp

LEMMA DisconnectRouteTypes ==
  ASSUME Types, NEW c \in Conn, DisconnectRoute(c)
  PROVE  Types'
<1>0. "disconnect" \in Reason
  BY DEF Reason
<1>1. /\ UNCHANGED <<link, register, binding, presence, older, told, missed>> /\ link[c] = "down"
      /\ cleanup["disconnect"][c].pc = "none"
  BY DEF DisconnectRoute
<1>2. /\ Others("disconnect", c) /\ cleanup' \in CleanupType
      /\ cleanup'["disconnect"][c].pc = "binding"
      /\ cleanup'["disconnect"][c].peer = NoPeer
  BY <1>0, <1>1, DisconnectRouteCell DEF Others, Types, Order, OrderAt, Idle
<1>3. TypeOK'
  BY <1>1, <1>2 DEF Types, TypeOK, CleanupType
<1> QED
  BY <1>0, <1>1, <1>2, <1>3, CleanUpOrder DEF Types, Idle

LEMMA OtherTypes ==
  ASSUME Types,
         \/ \E c \in Conn : Disconnect(c) \/ \E p \in Peer : Signal(c, p)
         \/ UNCHANGED vars
  PROVE  Types'
<1>1. ASSUME NEW c \in Conn, Disconnect(c)
      PROVE  Types'
  <2>1. TypeOK'
    BY <1>1 DEF Disconnect, Without, Types, TypeOK
  <2>2. \A d \in Conn : link'[d] = "up" => link[d] = "up"
    BY <1>1 DEF Disconnect, Types, TypeOK
  <2>3. Order'
    BY <1>1, <2>2 DEF Disconnect, Types, Order, OrderAt
  <2> QED
    BY <2>1, <2>3 DEF Types
<1>2. ASSUME NEW c \in Conn, NEW p \in Peer, Signal(c, p)
      PROVE  Types'
  <2>1. UNCHANGED <<link, binding, presence, older, register, told, missed>> /\ Calm
    BY <1>2, CalmSteps DEF Signal
  <2>2. TypeOK'
    BY <2>1 DEF Types, TypeOK, Calm, CleanupType
  <2>3. ASSUME NEW d \in Conn
        PROVE  OrderAt(d)'
    BY <2>1, CalmOrder DEF Types, Order, OrderAt, CleanupOrder
  <2> QED
    BY <2>2, <2>3 DEF Types, Order
<1>3. CASE UNCHANGED vars
  BY <1>3 DEF vars, Types, TypeOK, Order, OrderAt
<1> QED
  BY <1>1, <1>2, <1>3

LEMMA NextTypes ==
  ASSUME Types, [Next]_vars
  PROVE  Types'
BY RegisterTypes, RegisterRouteTypes, CleanUpTypes, DisconnectRouteTypes, OtherTypes,
   PagesAssumption DEF Next

-----------------------------------------------------------------------------
(* OneClaim *)

NoNewClaims == \A p \in Peer, c \in Conn : Claims(p, c)' => Claims(p, c)

LEMMA KeptClaims ==
  ASSUME OneClaim, NoNewClaims
  PROVE  OneClaim'
BY DEF OneClaim, NoNewClaims

LEMMA RegistrationClaims ==
  ASSUME Types, NEW c \in Conn, Elsewhere(c), Calm,
         register'[c].peer \in {register[c].peer, NoPeer},
         register'[c].existing \in Conn =>
           \/ register'[c].existing = register[c].existing
           \/ presence[register[c].peer] = register'[c].existing,
         \A d \in Conn : \/ binding'[d] \in {binding[d], NoPeer}
                         \/ d = c /\ binding'[d] = register[c].peer,
         \A p \in Peer : \/ presence'[p] = presence[p]
                         \/ p = register[c].peer /\ presence'[p] = c
  PROVE  NoNewClaims
<1> SUFFICES ASSUME NEW p \in Peer, NEW d \in Conn, Claims(p, d)'
             PROVE  Claims(p, d)
  BY DEF NoNewClaims
<1>0. p # NoPeer
  BY NoneAssumption
<1>1. CASE presence'[p] = d
  BY <1>1 DEF Claims
<1>2. CASE binding'[d] = p
  BY <1>0, <1>2 DEF Claims
<1>3. CASE register'[d].peer = p
  BY <1>0, <1>3 DEF Claims, Elsewhere
<1>4. ASSUME NEW r \in Reason, cleanup'[r][d].peer = p
      PROVE  Claims(p, d)
  BY <1>0, <1>4, StartedOrder DEF Claims, Calm
<1>5. ASSUME NEW e \in Conn, register'[e].existing = d, register'[e].peer = p
      PROVE  Claims(p, d)
  <2>1. CASE e = c
    BY <1>0, <1>5, <2>1 DEF Claims
  <2>2. CASE e # c
    BY <1>5, <2>2 DEF Claims, Elsewhere
  <2> QED
    BY <2>1, <2>2
<1> QED
  BY <1>1, <1>2, <1>3, <1>4, <1>5 DEF Claims

LEMMA CleanUpClaims ==
  ASSUME Types, NEW r \in Reason, NEW c \in Conn, Others(r, c), register' = register,
         cleanup'[r][c].peer \in {NoPeer, cleanup[r][c].peer, binding[c]},
         \A d \in Conn : binding'[d] \in {binding[d], NoPeer},
         \A p \in Peer : presence'[p] \in {presence[p], NoConn}
  PROVE  NoNewClaims
<1> SUFFICES ASSUME NEW p \in Peer, NEW d \in Conn, Claims(p, d)'
             PROVE  Claims(p, d)
  BY DEF NoNewClaims
<1>0. p # NoPeer /\ d # NoConn
  BY NoneAssumption
<1>1. CASE presence'[p] = d
  BY <1>0, <1>1 DEF Claims
<1>2. CASE binding'[d] = p
  BY <1>0, <1>2 DEF Claims
<1>3. ASSUME NEW s \in Reason, cleanup'[s][d].peer = p
      PROVE  Claims(p, d)
  <2>1. CASE s = r /\ d = c
    BY <1>0, <1>3, <2>1 DEF Claims
  <2>2. CASE s # r \/ d # c
    BY <1>0, <1>3, <2>2, StartedOrder DEF Claims, Others
  <2> QED
    BY <2>1, <2>2
<1> QED
  BY <1>1, <1>2, <1>3 DEF Claims

\* A connection that has not registered belongs to nobody.
LEMMA RegisterClaims ==
  ASSUME Types, OneClaim, NEW c \in Conn, NEW p \in Peer, Register(c, p)
  PROVE  OneClaim'
<1>1. /\ Elsewhere(c) /\ register'[c].peer = p
      /\ register'[c].existing = register[c].existing
  BY RegisterCell
<1>2. UNCHANGED <<binding, presence, cleanup>> /\ register[c].pc = "none"
  BY DEF Register
<1>3. /\ \A q \in Peer : presence[q] # c
      /\ \A d \in Conn : register[d].existing # c
      /\ binding[c] = NoPeer
      /\ \A r \in Reason : cleanup[r][c].peer = NoPeer
      /\ register[c].existing = NoConn
  BY <1>2 DEF Types, Order, OrderAt, BeforePublished, BeforeBound, Finding, Idle
<1>4. \A q \in Peer : Claims(q, c)' => q = p
  BY <1>1, <1>2, <1>3, NoneAssumption DEF Claims, Elsewhere
<1>5. ASSUME NEW q \in Peer, NEW d \in Conn, d # c, Claims(q, d)'
      PROVE  Claims(q, d)
  <2>1. register'[d] = register[d]
    BY <1>1, <1>5 DEF Elsewhere
  <2>2. \A e \in Conn : register'[e].existing = d /\ register'[e].peer = q =>
                          register[e].existing = d /\ register[e].peer = q
    BY <1>1, <1>3, NoneAssumption DEF Elsewhere
  <2> QED
    BY <1>2, <1>5, <2>1, <2>2 DEF Claims
<1> QED
  BY <1>4, <1>5 DEF OneClaim

LEMMA NextClaims ==
  ASSUME Types, OneClaim, [Next]_vars
  PROVE  OneClaim'
<1>1. ASSUME NEW c \in Conn, NEW p \in Peer, Register(c, p)
      PROVE  OneClaim'
  BY <1>1, RegisterClaims
<1>2. ASSUME NEW c \in Conn, RegisterRoute(c)
      PROVE  NoNewClaims
  <2>1. CASE LookUp(c)
    <3>1. UNCHANGED <<binding, presence>> /\ Calm
      BY <2>1, CalmSteps DEF LookUp
    <3> QED
      BY <2>1, <3>1, LookUpCell, RegistrationClaims
  <2>2. CASE TakeSnapshot(c)
    <3>1. UNCHANGED <<binding, presence>> /\ Calm
      BY <2>2, CalmSteps DEF TakeSnapshot
    <3> QED
      BY <2>2, <3>1, TakeSnapshotCell, RegistrationClaims
  <2>3. CASE Unbind(c)
    <3>1. UNCHANGED presence /\ Calm /\ \A d \in Conn : binding'[d] \in {binding[d], NoPeer}
      BY <2>3, CalmSteps DEF Unbind, Types, TypeOK
    <3>2. register' = [register EXCEPT ![c].pc = "warn"]
      BY <2>3 DEF Unbind
    <3> QED
      BY <3>1, <3>2, GoesOn, RegistrationClaims
  <2>4. CASE Warn(c)
    <3>1. UNCHANGED <<binding, presence>> /\ Calm
      BY <2>4, CalmSteps DEF Warn
    <3>2. register' = [register EXCEPT ![c].pc = "publish"]
      BY <2>4 DEF Warn
    <3> QED
      BY <3>1, <3>2, GoesOn, RegistrationClaims
  <2>5. CASE Publish(c)
    <3>1. UNCHANGED binding /\ Calm
      BY <2>5, CalmSteps DEF Publish
    <3> QED
      BY <2>5, <3>1, PublishCell, RegistrationClaims, NoneAssumption
  <2>6. CASE Bind(c)
    <3>1. /\ UNCHANGED presence /\ Calm
          /\ \A d \in Conn : binding'[d] = binding[d] \/ (d = c /\ binding'[d] = register[c].peer)
      BY <2>6, CalmSteps DEF Bind, Types, TypeOK
    <3>2. register' = [register EXCEPT ![c].pc = "list"]
      BY <2>6 DEF Bind
    <3> QED
      BY <3>1, <3>2, GoesOn, RegistrationClaims
  <2>7. CASE SendPeerList(c)
    <3>1. /\ Elsewhere(c) /\ Calm /\ UNCHANGED <<binding, presence>>
          /\ register'[c].peer = register[c].peer /\ register'[c].existing \notin Conn
      BY <2>7, SendPeerListCell, NoneAssumption
    <3> QED
      BY <3>1, RegistrationClaims
  <2>8. CASE Announce(c)
    BY <2>8, AnnounceCell, RegistrationClaims, NoneAssumption
  <2>9. CASE Confirm(c)
    BY <2>9, ConfirmCell, RegistrationClaims, NoneAssumption
  <2> QED
    BY <1>2, <2>1, <2>2, <2>3, <2>4, <2>5, <2>6, <2>7, <2>8, <2>9 DEF RegisterRoute
<1>3. ASSUME NEW c \in Conn, NEW r \in Reason, CleanUp(r, c)
      PROVE  NoNewClaims
  <2>1. CASE ReadBinding(r, c)
    <3>1. UNCHANGED <<binding, presence, register>>
      BY <2>1 DEF ReadBinding
    <3> QED
      BY <2>1, <3>1, ReadBindingCell, CleanUpClaims DEF Cleaned
  <2>2. CASE ReadPeer(r, c)
    <3>1. UNCHANGED <<binding, presence, register>>
      BY <2>2 DEF ReadPeer
    <3> QED
      BY <2>2, <3>1, ReadPeerCell, CleanUpClaims
  <2>3. CASE DeleteBinding(r, c)
    <3>1. /\ UNCHANGED <<presence, register>>
          /\ \A d \in Conn : binding'[d] \in {binding[d], NoPeer}
      BY <2>3 DEF DeleteBinding, Types, TypeOK
    <3> QED
      BY <2>3, <3>1, DeleteBindingCell, CleanUpClaims DEF Cleaned
  <2>4. CASE DeletePeer(r, c)
    <3>1. UNCHANGED <<binding, register>>
      BY <2>4 DEF DeletePeer
    <3> QED
      BY <2>4, <3>1, DeletePeerCell, CleanUpClaims
  <2>5. CASE NotifyLeft(r, c)
    <3>1. UNCHANGED <<binding, presence, register>>
      BY <2>5 DEF NotifyLeft
    <3> QED
      BY <2>5, <3>1, NotifyLeftCell, CleanUpClaims DEF Cleaned
  <2> QED
    BY <1>3, <2>1, <2>2, <2>3, <2>4, <2>5 DEF CleanUp
<1>4. ASSUME NEW c \in Conn, DisconnectRoute(c)
      PROVE  NoNewClaims
  <2>1. UNCHANGED <<binding, presence, register>> /\ "disconnect" \in Reason
    BY <1>4 DEF DisconnectRoute, Reason
  <2> QED
    BY <1>4, <2>1, DisconnectRouteCell, CleanUpClaims
<1>5. ASSUME NEW c \in Conn, NEW p \in Peer, Signal(c, p)
      PROVE  NoNewClaims
  <2>1. UNCHANGED <<binding, presence, register>> /\ Calm
    BY <1>5, CalmSteps DEF Signal
  <2> QED
    BY <2>1, StartedOrder, NoneAssumption DEF NoNewClaims, Claims, Calm
<1>6. ASSUME (\E c \in Conn : Disconnect(c)) \/ UNCHANGED vars
      PROVE  NoNewClaims
  <2>1. UNCHANGED <<binding, presence, register, cleanup>>
    BY <1>6 DEF Disconnect, vars
  <2>2. ASSUME NEW p \in Peer, NEW c \in Conn
        PROVE  Claims(p, c)' => Claims(p, c)
    BY <2>1 DEF Claims
  <2> QED
    BY <2>2 DEF NoNewClaims
<1> QED
  BY <1>1, <1>2, <1>3, <1>4, <1>5, <1>6, KeptClaims, PagesAssumption DEF Next

-----------------------------------------------------------------------------
(* Withdrawn *)

LEMMA WithdrawnKept ==
  ASSUME Types, NEW r \in Reason, NEW c \in Conn, WithdrawnAt(r, c),
         cleanup'[r][c] = cleanup[r][c] \/ cleanup'[r][c].pc \notin {"unbind", "notify"},
         \A p \in Peer : presence'[p] = c => presence[p] = c
  PROVE  WithdrawnAt(r, c)'
<1>1. cleanup[r][c].pc \in {"unbind", "notify"} => cleanup[r][c].peer \in Peer
  BY CleanupCell DEF Idle
<1> QED
  BY <1>1 DEF WithdrawnAt

LEMMA NextWithdrawn ==
  ASSUME Types, Withdrawn, [Next]_vars
  PROVE  Withdrawn'
<1> SUFFICES ASSUME NEW s \in Reason, NEW d \in Conn PROVE WithdrawnAt(s, d)'
  BY DEF Withdrawn
<1>0. WithdrawnAt(s, d)
  BY DEF Withdrawn
<1>1. ASSUME KeptOrStarted(s, d), presence' = presence
      PROVE  WithdrawnAt(s, d)'
  BY <1>0, <1>1, WithdrawnKept DEF KeptOrStarted, Started
<1>2. ASSUME NEW c \in Conn, Publish(c)
      PROVE  WithdrawnAt(s, d)'
  <2>1. cleanup' = cleanup /\ register[c].pc = "publish"
    BY <1>2 DEF Publish
  <2>2. CASE d = c
    <3>1. cleanup[s][d].pc \in Idle
      BY <2>1, <2>2, UnderWay DEF BeforeBound, BeforePublished
    <3> QED
      BY <2>1, <3>1 DEF WithdrawnAt, Idle
  <2>3. CASE d # c
    <3>1. \A p \in Peer : presence'[p] = d => presence[p] = d
      BY <1>2, <2>3, PublishCell
    <3> QED
      BY <1>0, <2>1, <3>1, WithdrawnKept
  <2> QED
    BY <2>2, <2>3
<1>3. ASSUME NEW c \in Conn, RegisterRoute(c), ~ Publish(c)
      PROVE  WithdrawnAt(s, d)'
  BY <1>1, <1>3, CalmSteps DEF RegisterRoute, LookUp, TakeSnapshot, Unbind, Warn, Bind,
     SendPeerList, Announce, Confirm, Post, Calm
<1>4. ASSUME NEW c \in Conn, NEW r \in Reason, Others(r, c), presence' = presence,
             cleanup'[r][c].pc \notin {"unbind", "notify"}
      PROVE  WithdrawnAt(s, d)'
  <2>1. CASE s = r /\ d = c
    BY <1>0, <1>4, <2>1, WithdrawnKept
  <2>2. CASE s # r \/ d # c
    BY <1>1, <1>4, <2>2 DEF Others
  <2> QED
    BY <2>1, <2>2
<1>5. ASSUME NEW c \in Conn, NEW r \in Reason, CleanUp(r, c)
      PROVE  WithdrawnAt(s, d)'
  <2>1. CASE ReadBinding(r, c)
    <3>1. Others(r, c) /\ cleanup'[r][c].pc \in {"none", "done", "peer", "remove"}
      BY <2>1, ReadBindingCell DEF Cleaned
    <3>2. presence' = presence
      BY <2>1 DEF ReadBinding
    <3> QED
      BY <1>4, <3>1, <3>2
  <2>2. CASE ReadPeer(r, c)
    <3>1. UNCHANGED presence
      BY <2>2 DEF ReadPeer
    <3>2. CASE s = r /\ d = c
      BY <2>2, <3>1, <3>2, ReadPeerCell DEF WithdrawnAt
    <3>3. CASE s # r \/ d # c
      BY <1>1, <2>2, <3>1, <3>3, ReadPeerCell DEF Others
    <3> QED
      BY <3>2, <3>3
  <2>3. CASE DeleteBinding(r, c)
    <3>1. Others(r, c) /\ cleanup'[r][c].pc \in {"none", "done", "peer", "remove"}
      BY <2>3, DeleteBindingCell DEF Cleaned
    <3>2. presence' = presence
      BY <2>3 DEF DeleteBinding
    <3> QED
      BY <1>4, <3>1, <3>2
  <2>4. CASE DeletePeer(r, c)
    <3>1. CASE s = r /\ d = c
      BY <2>4, <3>1, DeletePeerCell, NoneAssumption DEF WithdrawnAt
    <3>2. CASE s # r \/ d # c
      <4>1. KeptOrStarted(s, d)
        BY <2>4, <3>2, DeletePeerCell DEF Others
      <4>2. \A p \in Peer : presence'[p] = d => presence[p] = d
        BY <2>4, DeletePeerCell, NoneAssumption
      <4> QED
        BY <1>0, <4>1, <4>2, WithdrawnKept DEF KeptOrStarted, Started
    <3> QED
      BY <3>1, <3>2
  <2>5. CASE NotifyLeft(r, c)
    <3>1. Others(r, c) /\ cleanup'[r][c].pc \in {"none", "done", "peer", "remove"}
      BY <2>5, NotifyLeftCell DEF Cleaned
    <3>2. presence' = presence
      BY <2>5 DEF NotifyLeft
    <3> QED
      BY <1>4, <3>1, <3>2
  <2> QED
    BY <1>5, <2>1, <2>2, <2>3, <2>4, <2>5 DEF CleanUp
<1>6. ASSUME NEW c \in Conn, DisconnectRoute(c)
      PROVE  WithdrawnAt(s, d)'
  <2>1. UNCHANGED presence /\ "disconnect" \in Reason
    BY <1>6 DEF DisconnectRoute, Reason
  <2> QED
    BY <1>4, <1>6, <2>1, DisconnectRouteCell
<1>7. ASSUME NEW c \in Conn, NEW p \in Peer, Signal(c, p)
      PROVE  WithdrawnAt(s, d)'
  BY <1>1, <1>7, CalmSteps DEF Signal, Calm
<1>8. CASE \/ \E c \in Conn : Disconnect(c) \/ \E p \in Pages[c] : Register(c, p)
           \/ UNCHANGED vars
  BY <1>1, <1>8 DEF Disconnect, Register, vars, KeptOrStarted
<1> QED
  BY <1>2, <1>3, <1>5, <1>6, <1>7, <1>8 DEF Next

-----------------------------------------------------------------------------
(* Mended *)

MendedAt(p, c) == presence[p] = c => Bound(p, c) /\ Reported(p, c)

LEMMA MendedKept ==
  ASSUME NEW p \in Peer, NEW c \in Conn, MendedAt(p, c), presence'[p] = presence[p],
         UNCHANGED <<link, binding>>, Calm,
         register[c].pc \in {"bind", "list"} => register'[c] = register[c],
         \A d \in Conn : register[d].pc \in {"warn", "publish"} =>
           /\ register'[d].pc \in {"warn", "publish"}
           /\ register'[d].existing = register[d].existing
           /\ register'[d].peer = register[d].peer
  PROVE  MendedAt(p, c)'
<1>0. "disconnect" \in Reason
  BY DEF Reason
<1>1. Replaced(p, c) => Replaced(p, c)'
  BY DEF Replaced
<1>2. ASSUME NEW r \in Reason
      PROVE  /\ cleanup[r][c].pc = "remove" => cleanup'[r][c].pc = "remove"
             /\ Removes(r, c) => Removes(r, c)'
  BY DEF Calm, KeptOrStarted, Started, Removes
<1>3. cleanup'["disconnect"][c] = cleanup["disconnect"][c]
  BY <1>0 DEF Calm
<1>4. Bound(p, c) => Bound(p, c)'
  BY <1>1, <1>2 DEF Bound
<1>5. Reported(p, c) => Reported(p, c)'
  BY <1>1, <1>2, <1>3 DEF Reported
<1> QED
  BY <1>4, <1>5 DEF MendedAt

\* A step of the registration of c that does not touch the table
LEMMA RegistrationMended ==
  ASSUME NEW c \in Conn, Elsewhere(c), Calm, UNCHANGED <<link, binding, presence>>,
         register[c].pc \notin {"bind", "list"},
         register[c].pc \in {"warn", "publish"} =>
           /\ register'[c].pc \in {"warn", "publish"}
           /\ register'[c].existing = register[c].existing
           /\ register'[c].peer = register[c].peer,
         NEW p \in Peer, NEW d \in Conn, MendedAt(p, d)
  PROVE  MendedAt(p, d)'
<1>1. register[d].pc \in {"bind", "list"} => register'[d] = register[d]
  BY DEF Elsewhere
<1>2. \A e \in Conn : register[e].pc \in {"warn", "publish"} =>
           /\ register'[e].pc \in {"warn", "publish"}
           /\ register'[e].existing = register[e].existing
           /\ register'[e].peer = register[e].peer
  BY DEF Elsewhere
<1> QED
  BY <1>1, <1>2, MendedKept

\* The newer registration takes the binding away and will replace the record.
LEMMA UnbindMended ==
  ASSUME Types, OneClaim, NEW c \in Conn, Unbind(c), NEW p \in Peer, NEW d \in Conn,
         MendedAt(p, d)
  PROVE  MendedAt(p, d)'
<1>1. register' = [register EXCEPT ![c].pc = "warn"]
  BY DEF Unbind
<1>2. /\ Elsewhere(c) /\ register'[c].pc = "warn" /\ register'[c].peer = register[c].peer
      /\ register'[c].existing = register[c].existing
  BY <1>1, GoesOn
<1>3. /\ UNCHANGED <<link, presence, cleanup>> /\ register[c].pc = "unbind"
      /\ register[c].peer \in Peer
  BY RegistrationCell DEF Unbind, Registering
<1>4. CASE register[c].existing = d /\ presence[p] = d
  <2>1. register[c].peer = p
    BY <1>3, <1>4 DEF OneClaim, Claims
  <2>2. Replaced(p, d)'
    BY <1>2, <1>4, <2>1 DEF Replaced
  <2> QED
    BY <2>2 DEF MendedAt, Bound, Reported
<1>5. CASE register[c].existing # d
  <2>1. binding'[d] = binding[d]
    BY <1>5 DEF Unbind, Types, TypeOK
  <2>2. Replaced(p, d) => Replaced(p, d)'
    BY <1>2, <1>3 DEF Replaced, Elsewhere
  <2>3. register[d].pc \in {"bind", "list"} => register'[d] = register[d]
    BY <1>2, <1>3 DEF Elsewhere
  <2>4. \A r \in Reason : Removes(r, d) => Removes(r, d)'
    BY <1>3 DEF Removes
  <2>5. Bound(p, d) => Bound(p, d)'
    BY <1>3, <2>1, <2>2, <2>3 DEF Bound
  <2>6. Reported(p, d) => Reported(p, d)'
    BY <1>3, <2>2, <2>3, <2>4 DEF Reported
  <2> QED
    BY <1>3, <2>5, <2>6 DEF MendedAt
<1> QED
  BY <1>3, <1>4, <1>5 DEF MendedAt

\* What is published will be bound.
LEMMA PublishMended ==
  ASSUME Types, NEW c \in Conn, Publish(c), NEW p \in Peer, NEW d \in Conn,
         MendedAt(p, d)
  PROVE  MendedAt(p, d)'
<1>1. /\ Elsewhere(c) /\ register[c].peer \in Peer /\ register'[c].pc = "bind"
      /\ presence'[register[c].peer] = c
      /\ \A q \in Peer : q # register[c].peer => presence'[q] = presence[q]
  BY PublishCell
<1>2. UNCHANGED <<link, binding, cleanup>> /\ register[c].pc = "publish"
  BY DEF Publish
<1>3. CASE d = c
  BY <1>1, <1>3 DEF MendedAt, Bound, Reported
<1>4. CASE p = register[c].peer /\ d # c
  BY <1>1, <1>4 DEF MendedAt
<1>5. CASE p # register[c].peer /\ d # c
  <2>1. register'[d] = register[d] /\ presence'[p] = presence[p]
    BY <1>1, <1>5 DEF Elsewhere
  <2>2. Replaced(p, d) => Replaced(p, d)'
    BY <1>1, <1>5 DEF Replaced, Elsewhere
  <2>3. \A r \in Reason : Removes(r, d) => Removes(r, d)'
    BY <1>2 DEF Removes
  <2>4. Bound(p, d) => Bound(p, d)'
    BY <1>2, <2>1, <2>2 DEF Bound
  <2>5. Reported(p, d) => Reported(p, d)'
    BY <1>2, <2>1, <2>2, <2>3 DEF Reported
  <2> QED
    BY <2>1, <2>4, <2>5 DEF MendedAt
<1> QED
  BY <1>3, <1>4, <1>5

LEMMA BindMended ==
  ASSUME Types, OneClaim, NEW c \in Conn, Bind(c), NEW p \in Peer, NEW d \in Conn,
         MendedAt(p, d)
  PROVE  MendedAt(p, d)'
<1>1. register' = [register EXCEPT ![c].pc = "list"]
  BY DEF Bind
<1>2. /\ Elsewhere(c) /\ register'[c].pc = "list"
  BY <1>1, GoesOn
<1>3. /\ UNCHANGED <<link, presence, cleanup>> /\ register[c].pc = "bind"
      /\ register[c].peer \in Peer
      /\ binding'[c] = register[c].peer
      /\ \A e \in Conn : e # c => binding'[e] = binding[e]
  BY RegistrationCell DEF Bind, Registering, Types, TypeOK
<1>4. CASE d = c
  <2>1. presence[p] = c => register[c].peer = p
    BY <1>3 DEF OneClaim, Claims
  <2> QED
    BY <1>2, <1>3, <1>4, <2>1 DEF MendedAt, Bound, Reported
<1>5. CASE d # c
  <2>1. register'[d] = register[d] /\ binding'[d] = binding[d]
    BY <1>2, <1>3, <1>5 DEF Elsewhere
  <2>2. Replaced(p, d) => Replaced(p, d)'
    BY <1>2, <1>3 DEF Replaced, Elsewhere
  <2>3. \A r \in Reason : Removes(r, d) => Removes(r, d)'
    BY <1>3 DEF Removes
  <2>4. Bound(p, d) => Bound(p, d)'
    BY <1>3, <2>1, <2>2 DEF Bound
  <2>5. Reported(p, d) => Reported(p, d)'
    BY <1>3, <2>1, <2>2, <2>3 DEF Reported
  <2> QED
    BY <1>3, <2>4, <2>5 DEF MendedAt
<1> QED
  BY <1>4, <1>5

\* A cleanup of c that has read its peer and does not remove the record of it
\* leaves no record that names c.
LEMMA NothingLeft ==
  ASSUME Types, OneClaim, Withdrawn, NEW r \in Reason, NEW c \in Conn, NEW p \in Peer,
         presence[p] = c, cleanup[r][c].pc \notin Idle
  PROVE  cleanup[r][c].peer = p /\ Removes(r, c)
<1>1. cleanup[r][c].peer \in Peer /\ cleanup[r][c] \in Cleanup
  BY CleanupCell
<1>2. cleanup[r][c].peer = p
  BY <1>1 DEF OneClaim, Claims
<1>3. WithdrawnAt(r, c)
  BY DEF Withdrawn
<1> QED
  BY <1>1, <1>2, <1>3 DEF WithdrawnAt, Removes, Idle, Cleanup

\* The list of peers is posted to c: if c is dead, it is cleaned up.
LEMMA SendPeerListMended ==
  ASSUME Types, OneClaim, Withdrawn, NEW c \in Conn, SendPeerList(c), NEW p \in Peer,
         NEW d \in Conn, MendedAt(p, d)
  PROVE  MendedAt(p, d)'
<1>0. "stale_connection" \in Reason
  BY DEF Reason
<1>1. /\ Elsewhere(c) /\ Calm /\ UNCHANGED <<link, binding, presence>>
      /\ register[c].pc = "list" /\ register'[c].pc = "announce"
      /\ cleanup' = Gone({c})
  BY SendPeerListCell
<1>2. /\ \A e \in Conn : register[e].pc \in {"warn", "publish"} => register'[e] = register[e]
      /\ d # c => register'[d] = register[d]
  BY <1>1 DEF Elsewhere
<1>3. CASE d # c
  BY <1>1, <1>2, <1>3, MendedKept
<1>4. CASE d = c /\ presence[p] = c
  <2>1. \A r \in Reason : /\ cleanup[r][c].pc = "remove" => cleanup'[r][c].pc = "remove"
                          /\ Removes(r, c) => Removes(r, c)'
    BY <1>1 DEF Calm, KeptOrStarted, Started, Removes
  <2>2. Replaced(p, c) => Replaced(p, c)'
    BY <1>2 DEF Replaced
  <2>3. Bound(p, c)'
    BY <1>1, <1>4, <2>1, <2>2 DEF MendedAt, Bound
  <2>4. ASSUME link[c] = "down"
        PROVE  Reported(p, c)'
    <3>1. cleanup'["stale_connection"][c].pc # "none"
      BY <1>1, <2>4, Posted DEF Types
    <3>2. CASE cleanup["stale_connection"][c].pc \in Idle
      <4>1. cleanup["stale_connection"][c].pc # "done"
        BY DEF Types, Order, OrderAt
      <4>2. cleanup'["stale_connection"][c].pc = "binding"
        BY <1>0, <1>1, <3>1, <3>2, <4>1 DEF Calm, KeptOrStarted, Started, Idle
      <4> QED
        BY <1>0, <4>2 DEF Reported, Removes
    <3>3. CASE cleanup["stale_connection"][c].pc \notin Idle
      <4>1. Removes("stale_connection", c)
        BY <1>0, <1>4, <3>3, NothingLeft
      <4> QED
        BY <1>0, <2>1, <4>1 DEF Reported
    <3> QED
      BY <3>2, <3>3
  <2>5. link[c] # "down" => Reported(p, c)'
    BY <1>1 DEF Reported, Types, TypeOK
  <2> QED
    BY <1>4, <2>3, <2>4, <2>5 DEF MendedAt
<1> QED
  BY <1>1, <1>3, <1>4 DEF MendedAt

LEMMA RegisterRouteMended ==
  ASSUME Types, OneClaim, Withdrawn, NEW c \in Conn, RegisterRoute(c), NEW p \in Peer,
         NEW d \in Conn, MendedAt(p, d)
  PROVE  MendedAt(p, d)'
<1>1. CASE LookUp(c)
  <2>1. UNCHANGED <<link, binding, presence>> /\ Calm /\ register[c].pc = "lookup"
    BY <1>1, CalmSteps DEF LookUp
  <2> QED
    BY <1>1, <2>1, LookUpCell, RegistrationMended
<1>2. CASE TakeSnapshot(c)
  <2>1. UNCHANGED <<link, binding, presence>> /\ Calm /\ register[c].pc = "snapshot"
    BY <1>2, CalmSteps DEF TakeSnapshot
  <2> QED
    BY <1>2, <2>1, TakeSnapshotCell, RegistrationMended
<1>3. CASE Warn(c)
  <2>1. /\ UNCHANGED <<link, binding, presence>> /\ Calm /\ register[c].pc = "warn"
        /\ register' = [register EXCEPT ![c].pc = "publish"]
    BY <1>3, CalmSteps DEF Warn
  <2>2. /\ Elsewhere(c) /\ register'[c].pc = "publish"
        /\ register'[c].existing = register[c].existing
        /\ register'[c].peer = register[c].peer
    BY <2>1, GoesOn
  <2> QED
    BY <2>1, <2>2, RegistrationMended
<1>4. CASE Announce(c)
  BY <1>4, AnnounceCell, RegistrationMended
<1>5. CASE Confirm(c)
  BY <1>5, ConfirmCell, RegistrationMended
<1> QED
  BY <1>1, <1>2, <1>3, <1>4, <1>5, UnbindMended, PublishMended, BindMended,
     SendPeerListMended DEF RegisterRoute

\* The records of the other cleanups in a step of the cleanup (r, c)
LEMMA OthersMended ==
  ASSUME NEW r \in Reason, NEW c \in Conn, Others(r, c), UNCHANGED <<link, register>>,
         NEW p \in Peer, NEW d \in Conn, MendedAt(p, d), presence'[p] \in {presence[p], NoConn},
         binding'[d] = binding[d] \/ (d = c /\ (presence[p] = c => Bound(p, c)')),
         d = c /\ presence[p] = c =>
           /\ cleanup[r][c].pc = "remove" => presence'[p] = NoConn
           /\ Removes(r, c) => Reported(p, c)'
           /\ cleanup[r][c].pc = "none" => Reported(p, c)'
  PROVE  MendedAt(p, d)'
<1> SUFFICES ASSUME presence[p] = d, presence'[p] = d
             PROVE  Bound(p, d)' /\ Reported(p, d)'
  BY NoneAssumption DEF MendedAt
<1>0. d # NoConn /\ "disconnect" \in Reason
  BY NoneAssumption DEF Reason
<1>1. Bound(p, d) /\ Reported(p, d)
  BY DEF MendedAt
<1>2. Replaced(p, d) => Replaced(p, d)'
  BY DEF Replaced
<1>3. ASSUME NEW s \in Reason, s # r \/ d # c
      PROVE  /\ cleanup[s][d].pc = "remove" => cleanup'[s][d].pc = "remove"
             /\ Removes(s, d) => Removes(s, d)'
             /\ s = "disconnect" => cleanup'[s][d] = cleanup[s][d]
  BY <1>3 DEF Others, KeptOrStarted, Started, Removes
<1>4. Bound(p, d)'
  <2>1. CASE binding'[d] # binding[d]
    BY <2>1
  <2>2. CASE binding'[d] = binding[d] /\ binding[d] = p
    BY <2>2 DEF Bound
  <2>3. CASE register[d].pc = "bind"
    BY <2>3 DEF Bound
  <2>4. ASSUME NEW s \in Reason, cleanup[s][d].pc = "remove"
        PROVE  cleanup'[s][d].pc = "remove"
    BY <1>0, <1>3, <2>4
  <2>5. CASE Replaced(p, d)
    BY <1>2, <2>5 DEF Bound
  <2>6. CASE \E s \in Reason : cleanup[s][d].pc = "remove"
    BY <2>4, <2>6 DEF Bound
  <2> QED
    BY <1>1, <2>1, <2>2, <2>3, <2>5, <2>6 DEF Bound
<1>5. ASSUME d = c /\ (Removes(r, c) \/ cleanup[r][c].pc = "none")
      PROVE  Reported(p, d)'
  BY <1>5
<1>6. ASSUME ~ (d = c /\ (Removes(r, c) \/ cleanup[r][c].pc = "none"))
      PROVE  Reported(p, d)'
  <2>1. CASE link[d] = "up" \/ register[d].pc \in {"bind", "list"}
    BY <2>1 DEF Reported
  <2>2. CASE cleanup["disconnect"][d].pc = "none"
    <3>1. cleanup'["disconnect"][d].pc = "none"
      BY <1>0, <1>3, <1>6, <2>2
    <3> QED
      BY <3>1 DEF Reported
  <2>3. ASSUME NEW s \in Reason, Removes(s, d)
        PROVE  Removes(s, d)'
    BY <1>3, <1>6, <2>3
  <2>4. CASE Replaced(p, d)
    BY <1>2, <2>4 DEF Reported
  <2>5. CASE \E s \in Reason : Removes(s, d)
    BY <2>3, <2>5 DEF Reported
  <2> QED
    BY <1>1, <2>1, <2>2, <2>4, <2>5 DEF Reported
<1> QED
  BY <1>4, <1>5, <1>6

LEMMA CleanUpMended ==
  ASSUME Types, OneClaim, Withdrawn, NEW r \in Reason, NEW c \in Conn, CleanUp(r, c),
         NEW p \in Peer, NEW d \in Conn, MendedAt(p, d)
  PROVE  MendedAt(p, d)'
<1>1. CASE ReadBinding(r, c)
  <2>1. UNCHANGED <<link, register, binding, presence>> /\ cleanup[r][c].pc = "binding"
    BY <1>1 DEF ReadBinding
  <2>2. Others(r, c)
    BY <1>1, ReadBindingCell
  <2>3. ASSUME d = c, presence[p] = c
        PROVE  Reported(p, c)'
    <3>1. CASE cleanup'[r][c].pc = "peer"
      BY <3>1 DEF Reported, Removes
    <3>2. CASE binding[c] = NoPeer
      <4>1. Bound(p, c)
        BY <2>3 DEF MendedAt
      <4>2. CASE register[c].pc = "bind"
        BY <2>1, <4>2 DEF Reported
      <4>3. ASSUME NEW s \in Reason, cleanup[s][c].pc = "remove"
            PROVE  Reported(p, c)'
        <5>1. KeptOrStarted(s, c)
          BY <2>1, <2>2, <4>3 DEF Others
        <5>2. Removes(s, c)'
          BY <4>3, <5>1 DEF KeptOrStarted, Started, Removes
        <5> QED
          BY <5>2 DEF Reported
      <4>4. CASE Replaced(p, c)
        <5>1. Replaced(p, c)'
          BY <2>1, <4>4 DEF Replaced
        <5> QED
          BY <5>1 DEF Reported
      <4> QED
        BY <3>2, <4>1, <4>2, <4>3, <4>4, NoneAssumption DEF Bound
    <3> QED
      BY <1>1, <3>1, <3>2, ReadBindingCell
  <2> QED
    BY <2>1, <2>2, <2>3, OthersMended
<1>2. CASE ReadPeer(r, c)
  <2>1. UNCHANGED <<link, register, binding, presence>> /\ cleanup[r][c].pc = "peer"
    BY <1>2 DEF ReadPeer
  <2>2. Others(r, c)
    BY <1>2, ReadPeerCell
  <2>3. ASSUME d = c, presence[p] = c
        PROVE  Reported(p, c)'
    <3>1. cleanup[r][c].peer = p
      BY <2>1, <2>3, NothingLeft DEF Idle
    <3>2. cleanup'[r][c].pc = "unbind" /\ cleanup'[r][c].found = c
      BY <1>2, <2>3, <3>1, ReadPeerCell
    <3> QED
      BY <3>2 DEF Reported, Removes
  <2> QED
    BY <2>1, <2>2, <2>3, OthersMended
<1>3. CASE DeleteBinding(r, c)
  <2>1. UNCHANGED <<link, register, presence>> /\ cleanup[r][c].pc = "unbind"
        /\ (d # c => binding'[d] = binding[d])
    BY <1>3 DEF DeleteBinding, Types, TypeOK
  <2>2. Others(r, c)
    BY <1>3, DeleteBindingCell
  <2>3. ASSUME d = c, presence[p] = c
        PROVE  Bound(p, c)' /\ Reported(p, c)'
    <3>1. cleanup[r][c].found = c
      BY <2>1, <2>3, NothingLeft DEF Idle, Removes
    <3>2. cleanup'[r][c].pc = "remove"
      BY <1>3, <3>1, DeleteBindingCell
    <3> QED
      BY <3>2 DEF Bound, Reported, Removes
  <2> QED
    BY <2>1, <2>2, <2>3, OthersMended
<1>4. CASE DeletePeer(r, c)
  <2>1. UNCHANGED <<link, register, binding>> /\ cleanup[r][c].pc = "remove"
    BY <1>4 DEF DeletePeer
  <2>2. Others(r, c) /\ presence'[p] \in {presence[p], NoConn}
    BY <1>4, DeletePeerCell
  <2>3. ASSUME d = c, presence[p] = c
        PROVE  presence'[p] = NoConn
    <3>1. cleanup[r][c].peer = p
      BY <2>1, <2>3, NothingLeft DEF Idle
    <3> QED
      BY <1>4, <3>1, DeletePeerCell
  <2>4. CASE presence'[p] = d
    <3>1. ~ (d = c /\ presence[p] = c)
      BY <2>3, <2>4, NoneAssumption
    <3> QED
      BY <2>1, <2>2, <3>1, OthersMended
  <2> QED
    BY <2>4 DEF MendedAt
<1>5. CASE NotifyLeft(r, c)
  <2>1. UNCHANGED <<link, register, binding, presence>> /\ cleanup[r][c].pc = "notify"
    BY <1>5 DEF NotifyLeft
  <2>2. Others(r, c) /\ ~ Removes(r, c)
    BY <1>5, <2>1, NotifyLeftCell DEF Removes
  <2> QED
    BY <2>1, <2>2, OthersMended
<1> QED
  BY <1>1, <1>2, <1>3, <1>4, <1>5 DEF CleanUp

LEMMA NextMended ==
  ASSUME Types, OneClaim, Withdrawn, Mended, [Next]_vars
  PROVE  Mended'
<1> SUFFICES ASSUME NEW p \in Peer, NEW d \in Conn PROVE MendedAt(p, d)'
  BY DEF Mended, MendedAt
<1>0. MendedAt(p, d) /\ "disconnect" \in Reason
  BY DEF Mended, MendedAt, Reason
<1>1. ASSUME NEW c \in Conn, NEW q \in Peer, Register(c, q)
      PROVE  MendedAt(p, d)'
  <2>1. /\ UNCHANGED <<link, binding, presence>> /\ Calm /\ register[c].pc = "none"
    BY <1>1, CalmSteps DEF Register
  <2> QED
    BY <1>0, <1>1, <2>1, RegisterCell, RegistrationMended
<1>2. ASSUME NEW c \in Conn, DisconnectRoute(c)
      PROVE  MendedAt(p, d)'
  <2>1. /\ UNCHANGED <<link, register, binding, presence>>
        /\ cleanup["disconnect"][c].pc = "none"
    BY <1>2 DEF DisconnectRoute
  <2>2. Others("disconnect", c) /\ Reported(p, c)'
    BY <1>0, <1>2, DisconnectRouteCell DEF Reported, Removes
  <2> QED
    BY <1>0, <2>1, <2>2, OthersMended
<1>3. ASSUME NEW c \in Conn, Disconnect(c)
      PROVE  MendedAt(p, d)'
  <2>1. UNCHANGED <<binding, presence, register, cleanup>>
    BY <1>3 DEF Disconnect
  <2>2. link[d] = "up" => cleanup'["disconnect"][d].pc = "none"
    BY <2>1 DEF Types, Order, OrderAt
  <2>3. Bound(p, d) => Bound(p, d)'
    BY <2>1 DEF Bound, Replaced
  <2>4. Reported(p, d) => Reported(p, d)'
    BY <2>1, <2>2 DEF Reported, Replaced, Removes
  <2> QED
    BY <1>0, <2>1, <2>3, <2>4 DEF MendedAt
<1>4. ASSUME NEW c \in Conn, NEW q \in Peer, Signal(c, q)
      PROVE  MendedAt(p, d)'
  <2>1. UNCHANGED <<link, binding, presence, register>> /\ Calm
    BY <1>4, CalmSteps DEF Signal
  <2> QED
    BY <1>0, <2>1, MendedKept
<1>5. CASE UNCHANGED vars
  <2>1. UNCHANGED <<link, binding, presence, register>> /\ Calm
    BY <1>5, CalmSteps DEF vars
  <2> QED
    BY <1>0, <2>1, MendedKept
<1> QED
  BY <1>0, <1>1, <1>2, <1>3, <1>4, <1>5, RegisterRouteMended, CleanUpMended,
     PagesAssumption DEF Next

-----------------------------------------------------------------------------
(* Who is told of whom *)

\* No connection is announced or published that was not before.
ToldKept(c) ==
  /\ \A p \in Peer : presence'[p] \in {presence[p], NoConn, c}
  /\ \A d \in Conn : link'[d] = "up" => link[d] = "up"
  /\ \A d \in Conn : d # c /\ Announced(d)' => Announced(d)
  /\ \A p \in Peer : presence'[p] = c /\ Announced(c)' => presence[p] = c /\ Announced(c)
  /\ \A d, e \in Conn :
       link'[d] = "up" /\ link'[e] = "up" /\ Noted(d, e) => Noted(d, e)'

LEMMA KeepsTold ==
  ASSUME Told, NEW c \in Conn, ToldKept(c)
  PROVE  Told'
<1> SUFFICES ASSUME NEW p \in Peer, NEW q \in Peer, NEW d \in Conn, NEW e \in Conn, p # q,
                    presence'[p] = d, presence'[q] = e, link'[d] = "up", link'[e] = "up",
                    Announced(d)', Announced(e)'
             PROVE  Noted(d, e)'
  BY DEF Told, ToldAt
<1>1. presence[p] = d /\ Announced(d)
  BY NoneAssumption DEF ToldKept
<1>2. presence[q] = e /\ Announced(e)
  BY NoneAssumption DEF ToldKept
<1>3. link[d] = "up" /\ link[e] = "up"
  BY DEF ToldKept
<1>4. Noted(d, e)
  BY <1>1, <1>2, <1>3 DEF Told, ToldAt
<1> QED
  BY <1>4 DEF ToldKept

\* Nothing that was noted is forgotten.
LEMMA MoreNoted ==
  ASSUME \A d \in Conn : told[d] \subseteq told'[d] /\ missed[d] \subseteq missed'[d],
         NEW d \in Conn, NEW e \in Conn, Noted(d, e)
  PROVE  Noted(d, e)'
BY DEF Noted

\* The connection that is announced tells all in the directory that the index gives.
LEMMA AnnounceReaches ==
  ASSUME Types, NEW c \in Conn, Announce(c), link[c] = "up",
         NEW p \in Peer, NEW d \in Conn, presence[p] = d, d # c, link[d] = "up"
  PROVE  Noted(c, d)' /\ Noted(d, c)'
<1>1. PICK view \in IndexViews :
        /\ told' = [e \in Conn |->
                     IF e \in Hearing(c, view) THEN told[e] \cup {c} ELSE told[e]]
        /\ missed' = [missed EXCEPT ![c] = Online(c, presence) \ Online(c, view)]
  BY DEF Announce
<1>2. d \in Online(c, presence)
  BY NoneAssumption DEF Online
<1>3. CASE d \in Online(c, view)
  <2>1. c \in told'[d]
    BY <1>1, <1>3 DEF Hearing
  <2> QED
    BY <2>1 DEF Noted
<1>4. CASE d \notin Online(c, view)
  <2>1. missed'[c] = Online(c, presence) \ Online(c, view)
    BY <1>1 DEF Types, TypeOK
  <2> QED
    BY <1>2, <1>4, <2>1 DEF Noted
<1> QED
  BY <1>3, <1>4

LEMMA AnnounceKeepsNoted ==
  ASSUME Types, NEW c \in Conn, Announce(c),
         NEW d \in Conn, NEW e \in Conn, d # c, e # c, Noted(d, e)
  PROVE  Noted(d, e)'
<1>1. /\ \A f \in Conn : told[f] \subseteq told'[f]
      /\ \A f \in Conn : f # c => missed'[f] = missed[f]
  BY DEF Announce, Types, TypeOK
<1> QED
  BY <1>1 DEF Noted

LEMMA AnnounceTells ==
  ASSUME Types, OneClaim, Told, NEW c \in Conn, Announce(c)
  PROVE  Told'
<1>1. Elsewhere(c) /\ UNCHANGED <<link, binding, presence>>
  BY AnnounceCell
<1> SUFFICES ASSUME NEW p \in Peer, NEW q \in Peer, NEW d \in Conn, NEW e \in Conn, p # q,
                    presence[p] = d, presence[q] = e, link[d] = "up", link[e] = "up",
                    Announced(d)', Announced(e)'
             PROVE  Noted(d, e)'
  BY <1>1 DEF Told, ToldAt
<1>2. d # e
  BY DEF OneClaim, Claims
<1>3. CASE d = c
  BY <1>2, <1>3, AnnounceReaches
<1>4. CASE e = c
  BY <1>2, <1>4, AnnounceReaches
<1>5. CASE d # c /\ e # c
  <2>1. Announced(d) /\ Announced(e)
    BY <1>1, <1>5 DEF Elsewhere, Announced
  <2>2. Noted(d, e)
    BY <2>1 DEF Told, ToldAt
  <2> QED
    BY <1>5, <2>2, AnnounceKeepsNoted
<1> QED
  BY <1>3, <1>4, <1>5

LEMMA RegisterRouteTold ==
  ASSUME Types, OneClaim, Told, NEW c \in Conn, RegisterRoute(c)
  PROVE  Told'
<1>1. CASE Announce(c)
  BY <1>1, AnnounceTells
<1>2. CASE Publish(c)
  <2>1. UNCHANGED <<link, told, missed>> /\ Elsewhere(c) /\ register'[c].pc = "bind"
        /\ \A p \in Peer : presence'[p] \in {presence[p], c}
    BY <1>2, PublishCell DEF Publish
  <2> QED
    BY <2>1, KeepsTold DEF ToldKept, Noted, Announced, Elsewhere
<1>3. CASE SendPeerList(c)
  <2>1. UNCHANGED <<link, presence>> /\ Elsewhere(c) /\ register'[c].pc = "announce"
    BY <1>3, SendPeerListCell
  <2>2. \A d \in Conn : told[d] \subseteq told'[d] /\ missed'[d] = missed[d]
    BY <1>3 DEF SendPeerList, Post, Types, TypeOK
  <2> QED
    BY <2>1, <2>2, MoreNoted, KeepsTold DEF ToldKept, Announced, Elsewhere
<1>4. CASE Confirm(c)
  <2>1. UNCHANGED <<link, presence, told, missed>> /\ Elsewhere(c) /\ register[c].pc = "confirm"
    BY <1>4, ConfirmCell DEF Confirm, Post
  <2> QED
    BY <2>1, KeepsTold DEF ToldKept, Noted, Announced, Elsewhere
<1>5. CASE LookUp(c)
  <2>1. UNCHANGED <<link, presence, told, missed>> /\ Elsewhere(c) /\ register'[c].pc = "snapshot"
    BY <1>5, LookUpCell DEF LookUp
  <2> QED
    BY <2>1, KeepsTold DEF ToldKept, Noted, Announced, Elsewhere
<1>6. CASE TakeSnapshot(c)
  <2>1. /\ UNCHANGED <<link, presence, told, missed>> /\ Elsewhere(c)
        /\ register'[c].pc \in {"publish", "unbind"}
    BY <1>6, TakeSnapshotCell DEF TakeSnapshot
  <2> QED
    BY <2>1, KeepsTold DEF ToldKept, Noted, Announced, Elsewhere
<1>7. CASE Unbind(c) \/ Warn(c) \/ Bind(c)
  <2>1. /\ UNCHANGED <<link, presence, told, missed>> /\ Elsewhere(c)
        /\ register'[c].pc \in {"warn", "publish", "list"}
    BY <1>7, GoesOn DEF Unbind, Warn, Bind
  <2> QED
    BY <2>1, KeepsTold DEF ToldKept, Noted, Announced, Elsewhere
<1> QED
  BY <1>1, <1>2, <1>3, <1>4, <1>5, <1>6, <1>7 DEF RegisterRoute

LEMMA NextTold ==
  ASSUME Types, OneClaim, Told, [Next]_vars
  PROVE  Told'
<1>1. ASSUME NEW c \in Conn, RegisterRoute(c)
      PROVE  Told'
  BY <1>1, RegisterRouteTold
<1>2. ASSUME NEW c \in Conn, NEW p \in Peer, Register(c, p)
      PROVE  Told'
  <2>1. UNCHANGED <<link, presence, told, missed>> /\ Elsewhere(c) /\ register'[c].pc = "lookup"
    BY <1>2, RegisterCell DEF Register
  <2> QED
    BY <2>1, KeepsTold DEF ToldKept, Noted, Announced, Elsewhere
<1>3. ASSUME NEW c \in Conn, Disconnect(c)
      PROVE  Told'
  <2>1. /\ UNCHANGED <<presence, register>>
        /\ \A d \in Conn : link'[d] = "up" => link[d] = "up" /\ d # c
        /\ \A d \in Conn : d # c => told'[d] = told[d] \ {c} /\ missed'[d] = missed[d] \ {c}
    BY <1>3 DEF Disconnect, Without, Types, TypeOK
  <2> QED
    BY <1>3, <2>1, KeepsTold DEF ToldKept, Noted, Announced
<1>4. ASSUME NEW r \in Reason, NEW c \in Conn, CleanUp(r, c)
      PROVE  Told'
  <2>1. /\ UNCHANGED <<link, register, told, missed>>
        /\ \A p \in Peer : presence'[p] \in {presence[p], NoConn}
    BY <1>4, DeletePeerCell
       DEF CleanUp, ReadBinding, ReadPeer, DeleteBinding, DeletePeer, NotifyLeft
  <2> QED
    BY <1>4, <2>1, KeepsTold, NoneAssumption DEF ToldKept, Noted, Announced
<1>5. ASSUME UNCHANGED <<link, presence, register, told, missed>>
      PROVE  Told'
  BY <1>5 DEF Told, ToldAt, Announced, Noted
<1>6. ASSUME NEW c \in Conn, DisconnectRoute(c)
      PROVE  Told'
  BY <1>5, <1>6 DEF DisconnectRoute
<1>7. ASSUME NEW c \in Conn, NEW p \in Peer, Signal(c, p)
      PROVE  Told'
  BY <1>5, <1>7 DEF Signal
<1>8. UNCHANGED vars => Told'
  BY <1>5 DEF vars
<1> QED
  BY <1>1, <1>2, <1>3, <1>4, <1>6, <1>7, <1>8, PagesAssumption DEF Next

-----------------------------------------------------------------------------
LEMMA InvReachable == Inv => OnlineIsReachable
<1> SUFFICES ASSUME Inv, Quiet, NEW p \in Peer, presence[p] # NoConn
             PROVE  link[presence[p]] = "up" /\ binding[presence[p]] = p
  BY DEF OnlineIsReachable
<1>1. PICK c \in Conn : presence[p] = c
  BY DEF Inv, Types, TypeOK
<1>2. Bound(p, c) /\ Reported(p, c)
  BY <1>1 DEF Inv, Mended
<1>3. /\ register[c].pc \in {"none", "done"}
      /\ \A d \in Conn : register[d].pc \in {"none", "done"}
      /\ \A r \in Reason : cleanup[r][c].pc \in {"none", "done"}
      /\ link[c] = "down" => cleanup["disconnect"][c].pc = "done"
      /\ link[c] \in {"up", "down"}
  BY DEF Quiet, Inv, Types, TypeOK
<1> QED
  BY <1>1, <1>2, <1>3 DEF Bound, Reported, Removes, Replaced

LEMMA InvTold == Inv => OneIsTold
<1> SUFFICES ASSUME Inv, Quiet, NEW p \in Peer, NEW q \in Peer, p # q,
                    presence[p] # NoConn, presence[q] # NoConn
             PROVE  Noted(presence[p], presence[q])
  BY DEF OneIsTold, Noted
<1>1. PICK c \in Conn : presence[p] = c
  BY DEF Inv, Types, TypeOK
<1>2. PICK d \in Conn : presence[q] = d
  BY DEF Inv, Types, TypeOK
<1>3. link[c] = "up" /\ link[d] = "up"
  BY <1>1, <1>2, InvReachable DEF OnlineIsReachable
<1>4. Announced(c) /\ Announced(d)
  BY <1>1, <1>2 DEF Inv, Types, Order, OrderAt, BeforePublished, Quiet, Announced
<1> QED
  BY <1>1, <1>2, <1>3, <1>4 DEF Inv, Told, ToldAt

LEMMA InitInv == Init => Inv
<1> SUFFICES ASSUME Init PROVE Inv
  OBVIOUS
<1>1. Types
  BY InitTypes
<1>2. /\ \A p \in Peer : presence[p] = NoConn
      /\ \A c \in Conn : /\ binding[c] = NoPeer /\ register[c].peer = NoPeer
                         /\ \A r \in Reason : cleanup[r][c].pc = "none" /\ cleanup[r][c].peer = NoPeer
                         /\ register[c].existing = NoConn
  BY DEF Init, NotRegistered, NoCleanup
<1>3. OneClaim /\ Withdrawn /\ Mended /\ Told
  BY <1>2, NoneAssumption DEF OneClaim, Claims, Withdrawn, WithdrawnAt, Mended, Told, ToldAt
<1> QED
  BY <1>1, <1>3 DEF Inv

LEMMA Invariance == Spec => []Inv
<1>1. Inv /\ [Next]_vars => Inv'
  BY NextTypes, NextClaims, NextWithdrawn, NextMended, NextTold DEF Inv
<1> QED
  BY <1>1, InitInv, PTL DEF Spec

\* app.js: the records and the variables of the invocations have their types.
THEOREM TypeCorrect == Spec => []TypeOK
<1>1. Inv => TypeOK
  BY DEF Inv, Types
<1> QED
  BY <1>1, Invariance, PTL

\* app.js: when no invocation runs, a peer that can be discovered has a living
\* connection that may answer for it, for any number of peers, of connections and
\* of registrations, disconnects and cleanups that overlapped.
THEOREM OnlineReachable == Spec => []OnlineIsReachable
BY Invariance, InvReachable, PTL

\* app.js:119, app.js:68: when no invocation runs, of two peers that can be discovered
\* the connection of one was told of the registration of the other, or the index had
\* not followed when one of them was announced: the record of the other was in the
\* table, and the query did not give it.  For any number of peers and connections,
\* however their registrations overlapped and however long the index lags.
THEOREM OneOfTwoTold == Spec => []OneIsTold
BY Invariance, InvTold, PTL
=============================================================================
