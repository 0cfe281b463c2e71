------------------------- MODULE Negotiation_proofs -------------------------
(***************************************************************************)
(* For any number of connections, losses and failures: the invariants of   *)
(* Negotiation.                                                            *)
(*                                                                         *)
(* The page applies an answer to the connection that its record names when *)
(* the answer arrives.  That is the right one because a page makes no      *)
(* further offer while an earlier one is Live: being made, in the mail, or *)
(* being answered (OneOffer): a click needs a record with no connection or *)
(* a failed one, and a connection fails long after the messages about it   *)
(* have arrived (Settled).  Roles keeps offers and answers between the two *)
(* pages apart.  Nothing is promised once a page has left, as what is in   *)
(* the mail then outlives the records.                                     *)
(*                                                                         *)
(* The other properties hold of pages that leave, too.  Their invariant is *)
(* CallInv: Order says which connections are older and gives RecordsMeet,  *)
(* Rest says what is under way and gives NoneStuck and Recoverable, and    *)
(* Crossing, of pages that have not offered twice, gives ChannelsPair.     *)
(* That they stay is proved once per kind of step: one that neither creates *)
(* a connection nor closes one (Stays), one that closes what a record names *)
(* (Leaves), one that creates a connection (Adds).                         *)
(***************************************************************************)
EXTENDS Negotiation, SequenceTheorems, TLAPS

\* The message m is under way to p.
In(p, m) == \E k \in DOMAIN mail[p] : mail[p][k] = m

\* A record names a connection of its own page, if any.
Named ==
  \A p \in Peer : connection[p] # 0 =>
    connection[p] \in DOMAIN pcs /\ pcs[connection[p]].owner = p

Types == TypeOK /\ Named

Asks(i) ==
  /\ pcs[i].task # "apply"
  /\ pcs[i].remote # 0 =>
       pcs[i].remote \in DOMAIN pcs /\ pcs[pcs[i].remote].role = "answer"

Answers(j) ==
  /\ pcs[j].signaling # "have-local-offer"
  /\ pcs[j].remote \in DOMAIN pcs
  /\ pcs[pcs[j].remote].role = "offer"
  /\ pcs[pcs[j].remote].owner = Other(pcs[j].owner)

\* What connections are told, and what is in the mail, comes from one of the
\* other page that has the other role.
Roles ==
  /\ \A i \in DOMAIN pcs : IF pcs[i].role = "offer" THEN Asks(i) ELSE Answers(i)
  /\ \A p \in Peer, m \in Message : In(p, m) /\ m.type \in {"offer", "answer"} =>
       /\ m.from \in DOMAIN pcs
       /\ pcs[m.from].owner = Other(p)
       /\ pcs[m.from].role = m.type

\* Nobody has left so far.
Undisturbed ==
  /\ online = Peer
  /\ cleaning = {}
  /\ \A p \in Peer, m \in Message : In(p, m) => m.type \notin {"peer-left", "peer-joined"}
  /\ \A i \in DOMAIN pcs : ~ Closed(i)
  /\ \A i \in DOMAIN pcs : i <= connection[pcs[i].owner]

\* The connection i offers, and its offer has not yet met the answer.
Live(i) ==
  /\ pcs[i].role = "offer"
  /\ \/ pcs[i].task # "none"
     \/ In(Other(pcs[i].owner), [type |-> "offer", from |-> i])
     \/ \E j \in DOMAIN pcs :
          /\ pcs[j].role = "answer"
          /\ pcs[j].remote = i
          /\ \/ pcs[j].task # "none"
             \/ In(pcs[i].owner, [type |-> "answer", from |-> j])

\* Until then its page makes no further offer.
OneOffer ==
  \A i \in DOMAIN pcs : Live(i) =>
    /\ \A k \in DOMAIN pcs : pcs[k].owner = pcs[i].owner /\ k > i => pcs[k].role = "answer"
    /\ pcs[connection[pcs[i].owner]].state # "failed"

Met ==
  \A i \in DOMAIN pcs :
    pcs[i].role = "offer" /\ pcs[i].remote # 0 => pcs[pcs[i].remote].remote = i

Inv ==
  /\ Types
  /\ Roles
  /\ drops = 0 => Undisturbed /\ OneOffer /\ Met

-----------------------------------------------------------------------------
(* Peers, messages and connections *)

LEMMA OtherIsPeer ==
  ASSUME NEW p \in Peer
  PROVE  /\ Other(p) \in Peer
         /\ Other(p) # p
         /\ Other(Other(p)) = p
         /\ \A q \in Peer : q = p \/ q = Other(p)
<1>1. PICK a, b \in Peer : a # b /\ Peer = {a, b}
  BY PeerAssumption
<1>2. \A q \in Peer : Other(q) \in Peer /\ Other(q) # q
  BY <1>1 DEF Other
<1> QED
  BY <1>1, <1>2

LEMMA Ids ==
  ASSUME TypeOK, NEW i \in DOMAIN pcs
  PROVE  /\ i \in Id /\ i \in Nat \ {0} /\ i <= Len(pcs)
         /\ pcs[i] \in Connection
         /\ pcs[i].owner \in Peer
         /\ pcs[i].remote \in IdOrNone
<1>1. pcs \in Seq(Connection) /\ Len(pcs) \in Nat /\ Len(pcs) <= MaxConnections
  BY DEF TypeOK
<1>2. i \in 1 .. Len(pcs) /\ pcs[i] \in Connection
  BY <1>1
<1>3. i \in Nat \ {0} /\ i <= Len(pcs) /\ i <= MaxConnections
  BY <1>1, <1>2, BoundsAssumption
<1>4. pcs[i].owner \in Peer /\ pcs[i].remote \in IdOrNone
  BY <1>2 DEF Connection
<1> QED
  BY <1>2, <1>3, <1>4, BoundsAssumption DEF Id

\* The first message of p
LEMMA HeadIn ==
  ASSUME TypeOK, NEW p \in Peer, mail[p] # <<>>
  PROVE  Head(mail[p]) \in Message /\ In(p, Head(mail[p]))
<1>1. mail[p] \in Seq(Message)
  BY DEF TypeOK
<1>2. 1 \in DOMAIN mail[p] /\ Head(mail[p]) = mail[p][1]
  BY <1>1
<1> QED
  BY <1>1, <1>2 DEF In

LEMMA TailIn ==
  ASSUME TypeOK, NEW p \in Peer, mail[p] # <<>>, mail' = Taken(p)
  PROVE  /\ mail' \in [Peer -> Seq(Message)]
         /\ \A q \in Peer, m \in Message : In(q, m)' => In(q, m)
<1>1. mail[p] \in Seq(Message)
  BY DEF TypeOK
<1>2. Tail(mail[p]) \in Seq(Message)
  BY <1>1
<1>3. mail' = [mail EXCEPT ![p] = Tail(mail[p])]
  BY DEF Taken
<1>4. mail' \in [Peer -> Seq(Message)]
  BY <1>2, <1>3 DEF TypeOK
<1>5. ASSUME NEW q \in Peer, NEW m \in Message, NEW k \in DOMAIN mail'[q], mail'[q][k] = m
      PROVE  In(q, m)
  <2>1. CASE q = p
    <3>1. mail'[q] = Tail(mail[p])
      BY <1>3, <2>1 DEF TypeOK
    <3>2. k + 1 \in DOMAIN mail[p] /\ mail[p][k + 1] = m
      BY <1>1, <1>5, <3>1
    <3> QED
      BY <2>1, <3>2 DEF In
  <2>2. CASE q # p
    BY <1>3, <1>5, <2>2 DEF In, TypeOK
  <2> QED
    BY <2>1, <2>2
<1> QED
  BY <1>4, <1>5 DEF In

LEMMA PostIn ==
  ASSUME TypeOK, NEW p \in Peer, NEW n \in Message,
         mail' = mail \/ mail' = [mail EXCEPT ![p] = Append(@, n)]
  PROVE  /\ mail' \in [Peer -> Seq(Message)]
         /\ \A q \in Peer, m \in Message : In(q, m)' => In(q, m) \/ (q = p /\ m = n)
<1>1. CASE mail' = mail
  BY <1>1 DEF In, TypeOK
<1>2. CASE mail' = [mail EXCEPT ![p] = Append(@, n)]
  <2>0. mail[p] \in Seq(Message) /\ Append(mail[p], n) \in Seq(Message)
    BY DEF TypeOK
  <2>1. mail' \in [Peer -> Seq(Message)]
    BY <1>2, <2>0 DEF TypeOK
  <2>2. ASSUME NEW q \in Peer, NEW m \in Message, NEW k \in DOMAIN mail'[q], mail'[q][k] = m
        PROVE  In(q, m) \/ (q = p /\ m = n)
    <3>1. CASE q = p
      <4>1. mail'[q] = Append(mail[p], n)
        BY <1>2, <3>1 DEF TypeOK
      <4>2. (k \in DOMAIN mail[p] /\ mail[p][k] = m) \/ m = n
        BY <2>0, <2>2, <4>1
      <4> QED
        BY <3>1, <4>2 DEF In
    <3>2. CASE q # p
      BY <1>2, <2>2, <3>2 DEF In, TypeOK
    <3> QED
      BY <3>1, <3>2
  <2> QED
    BY <2>1, <2>2 DEF In
<1> QED
  BY <1>1, <1>2

LEMMA PostToAllIn ==
  ASSUME TypeOK, NEW n \in Message,
         mail' = [q \in Peer |-> Append(mail[q], n)]
  PROVE  /\ mail' \in [Peer -> Seq(Message)]
         /\ \A q \in Peer, m \in Message : In(q, m)' => In(q, m) \/ m = n
<1>1. ASSUME NEW q \in Peer
      PROVE  /\ mail[q] \in Seq(Message) /\ mail'[q] = Append(mail[q], n)
             /\ Append(mail[q], n) \in Seq(Message)
  BY <1>1 DEF TypeOK
<1>2. mail' \in [Peer -> Seq(Message)]
  BY <1>1
<1>3. ASSUME NEW q \in Peer, NEW m \in Message, NEW k \in DOMAIN mail'[q], mail'[q][k] = m
      PROVE  In(q, m) \/ m = n
  <2>1. (k \in DOMAIN mail[q] /\ mail[q][k] = m) \/ m = n
    BY <1>1, <1>3
  <2> QED
    BY <2>1 DEF In
<1> QED
  BY <1>2, <1>3 DEF In

\* Connection i has become cell.
Becomes(i, cell) ==
  /\ pcs' \in Seq(Connection)
  /\ Len(pcs') = Len(pcs)
  /\ DOMAIN pcs' = DOMAIN pcs
  /\ pcs'[i] = cell
  /\ \A k \in DOMAIN pcs : k # i => pcs'[k] = pcs[k]

LEMMA CellSet ==
  ASSUME TypeOK, NEW i \in DOMAIN pcs, NEW cell \in Connection,
         pcs' = [pcs EXCEPT ![i] = cell]
  PROVE  Becomes(i, cell)
BY DEF TypeOK, Becomes

LEMMA ConnectionAdded ==
  ASSUME TypeOK, NEW new \in Connection, pcs' = Append(pcs, new)
  PROVE  /\ pcs' \in Seq(Connection)
         /\ Len(pcs') = Len(pcs) + 1
         /\ DOMAIN pcs' = DOMAIN pcs \cup {Len(pcs) + 1}
         /\ pcs'[Len(pcs) + 1] = new
         /\ Len(pcs) + 1 \notin DOMAIN pcs
         /\ \A k \in DOMAIN pcs : k <= Len(pcs) /\ pcs'[k] = pcs[k]
BY DEF TypeOK

-----------------------------------------------------------------------------
(* What a step does to a connection *)

\* Connection i changes, and its task comes no closer to its beginning.
Proceeds(i, cell) ==
  /\ cell \in Connection
  /\ cell.owner = pcs[i].owner
  /\ cell.role = pcs[i].role
  /\ cell.task # "none" => pcs[i].task # "none"
  /\ cell.task = "apply" => pcs[i].task = "apply"

LEMMA SendOfferCell ==
  ASSUME TypeOK, NEW i \in DOMAIN pcs, SendOffer(i)
  PROVE  \E cell : /\ Becomes(i, cell) /\ Proceeds(i, cell)
                   /\ cell.remote = pcs[i].remote /\ cell.state = pcs[i].state
                   /\ cell.signaling = "closed" => Closed(i)
<1>1. CASE Closed(i)
  <2>1. PICK cell \in Connection : cell = [pcs[i] EXCEPT !.task = "none"]
    BY Ids DEF Connection
  <2>2. pcs' = [pcs EXCEPT ![i] = cell]
    BY <1>1, <2>1 DEF SendOffer
  <2> QED
    BY <1>1, <2>1, <2>2, CellSet, Ids DEF Proceeds, Connection
<1>2. CASE ~ Closed(i)
  <2>1. PICK cell \in Connection :
          cell = [pcs[i] EXCEPT !.task = "none", !.signaling = "have-local-offer"]
    BY Ids DEF Connection
  <2>2. pcs' = [pcs EXCEPT ![i] = cell]
    BY <1>2, <2>1 DEF SendOffer
  <2> QED
    BY <2>1, <2>2, CellSet, Ids DEF Proceeds, Connection
<1> QED
  BY <1>1, <1>2

LEMMA ApplyOfferCell ==
  ASSUME TypeOK, NEW i \in DOMAIN pcs, NEW throws \in BOOLEAN, ApplyOffer(i, throws)
  PROVE  \E cell : /\ Becomes(i, cell) /\ Proceeds(i, cell)
                   /\ cell.remote = pcs[i].remote /\ cell.state = pcs[i].state
                   /\ cell.signaling = "closed" => Closed(i)
                   /\ cell.signaling # "have-local-offer"
<1>1. PICK task \in {"none", "create"}, signaling \in {"closed", "have-remote-offer"} :
        /\ pcs' = [pcs EXCEPT ![i].task = task, ![i].signaling = signaling]
        /\ signaling = "closed" => Closed(i)
  BY DEF ApplyOffer, Closed
<1>2. PICK cell \in Connection :
        cell = [pcs[i] EXCEPT !.task = task, !.signaling = signaling]
  BY Ids DEF Connection
<1>3. pcs' = [pcs EXCEPT ![i] = cell]
  BY <1>1, <1>2
<1>4. pcs[i].task = "apply"
  BY DEF ApplyOffer
<1>5. /\ cell.owner = pcs[i].owner /\ cell.role = pcs[i].role /\ cell.task = task
      /\ cell.signaling = signaling /\ cell.remote = pcs[i].remote
      /\ cell.state = pcs[i].state
  BY <1>2, Ids DEF Connection
<1>6. Proceeds(i, cell)
  BY <1>4, <1>5 DEF Proceeds
<1>7. Becomes(i, cell)
  BY <1>3, CellSet
<1> QED
  BY <1>1, <1>5, <1>6, <1>7

LEMMA SendAnswerCell ==
  ASSUME TypeOK, NEW i \in DOMAIN pcs, SendAnswer(i)
  PROVE  \E cell : /\ Becomes(i, cell) /\ Proceeds(i, cell)
                   /\ cell.remote = pcs[i].remote /\ cell.state = pcs[i].state
                   /\ cell.signaling = "closed" => Closed(i)
                   /\ cell.signaling # "have-local-offer" \/ cell.signaling = pcs[i].signaling
<1>1. CASE Closed(i)
  <2>1. PICK cell \in Connection : cell = [pcs[i] EXCEPT !.task = "none"]
    BY Ids DEF Connection
  <2>2. pcs' = [pcs EXCEPT ![i] = cell]
    BY <1>1, <2>1 DEF SendAnswer
  <2> QED
    BY <1>1, <2>1, <2>2, CellSet, Ids DEF Proceeds, Connection
<1>2. CASE ~ Closed(i)
  <2>1. PICK cell \in Connection :
          cell = [pcs[i] EXCEPT !.task = "none", !.signaling = "stable"]
    BY Ids DEF Connection
  <2>2. pcs' = [pcs EXCEPT ![i] = cell]
    BY <1>2, <2>1 DEF SendAnswer
  <2> QED
    BY <2>1, <2>2, CellSet, Ids DEF Proceeds, Connection
<1> QED
  BY <1>1, <1>2

LEMMA GatherCell ==
  ASSUME TypeOK, NEW i \in DOMAIN pcs, Gather(i)
  PROVE  \E cell : /\ Becomes(i, cell) /\ Proceeds(i, cell)
                   /\ cell.remote = pcs[i].remote /\ cell.state = pcs[i].state
                   /\ cell.signaling = pcs[i].signaling
<1>1. PICK cell \in Connection : cell = [pcs[i] EXCEPT !.gathered = TRUE]
  BY Ids DEF Connection
<1>2. pcs' = [pcs EXCEPT ![i] = cell]
  BY <1>1 DEF Gather
<1> QED
  BY <1>1, <1>2, CellSet, Ids DEF Proceeds, Connection

LEMMA StateCell ==
  ASSUME TypeOK, NEW i \in DOMAIN pcs, NEW state \in {"connected", "failed"},
         pcs' = [pcs EXCEPT ![i].state = state]
  PROVE  \E cell : /\ Becomes(i, cell) /\ Proceeds(i, cell)
                   /\ cell.remote = pcs[i].remote /\ cell.state = state
                   /\ cell.signaling = pcs[i].signaling
<1>1. PICK cell \in Connection : cell = [pcs[i] EXCEPT !.state = state]
  BY Ids DEF Connection
<1>2. pcs' = [pcs EXCEPT ![i] = cell]
  BY <1>1
<1> QED
  BY <1>1, <1>2, CellSet, Ids DEF Proceeds, Connection

LEMMA AnswerCell ==
  ASSUME TypeOK, NEW c \in DOMAIN pcs, NEW from \in Id,
         pcs' = [pcs EXCEPT ![c].remote = from, ![c].signaling = "stable"]
  PROVE  \E cell : /\ Becomes(c, cell) /\ Proceeds(c, cell)
                   /\ cell.remote = from /\ cell.state = pcs[c].state
                   /\ cell.signaling = "stable"
<1>0. from \in IdOrNone
  BY BoundsAssumption DEF Id, IdOrNone
<1>1. PICK cell \in Connection : cell = [pcs[c] EXCEPT !.remote = from, !.signaling = "stable"]
  BY <1>0, Ids DEF Connection
<1>2. pcs' = [pcs EXCEPT ![c] = cell]
  BY <1>1
<1>3. /\ cell.owner = pcs[c].owner /\ cell.role = pcs[c].role /\ cell.task = pcs[c].task
      /\ cell.signaling = "stable" /\ cell.remote = from /\ cell.state = pcs[c].state
  BY <1>1, Ids DEF Connection
<1>4. Becomes(c, cell)
  BY <1>2, CellSet
<1> QED
  BY <1>3, <1>4 DEF Proceeds

\* The channel and the connection of p are closed.
LEMMA AllClosed ==
  ASSUME TypeOK, NEW p \in Peer, CloseAndDelete(p)
  PROVE  /\ pcs' \in Seq(Connection)
         /\ Len(pcs') = Len(pcs)
         /\ DOMAIN pcs' = DOMAIN pcs
         /\ \A k \in DOMAIN pcs :
              /\ pcs'[k].owner = pcs[k].owner /\ pcs'[k].role = pcs[k].role
              /\ pcs'[k].task = pcs[k].task /\ pcs'[k].remote = pcs[k].remote
              /\ pcs'[k].state = pcs[k].state
              /\ pcs'[k].signaling \in {pcs[k].signaling, "closed"}
<1>1. ASSUME NEW k \in DOMAIN pcs
      PROVE  /\ pcs'[k].owner = pcs[k].owner /\ pcs'[k].role = pcs[k].role
             /\ pcs'[k].task = pcs[k].task /\ pcs'[k].remote = pcs[k].remote
             /\ pcs'[k].state = pcs[k].state
             /\ pcs'[k].signaling \in {pcs[k].signaling, "closed"}
             /\ pcs'[k] \in Connection
  <2>1. PICK signaling \in {pcs[k].signaling, "closed"}, shut \in BOOLEAN :
          pcs'[k] = [pcs[k] EXCEPT !.signaling = signaling, !.shut = shut]
    BY Ids DEF CloseAndDelete, Connection
  <2> QED
    BY <2>1, Ids DEF Connection
<1>0. pcs \in Seq(Connection)
  BY DEF TypeOK
<1>2. DOMAIN pcs' = DOMAIN pcs /\ DOMAIN pcs = 1 .. Len(pcs)
  <2>1. DOMAIN pcs' = DOMAIN pcs
    BY Zenon DEF CloseAndDelete
  <2> QED
    BY <1>0, <2>1
<1>3. pcs' = [k \in 1 .. Len(pcs) |-> pcs'[k]]
  BY <1>2 DEF CloseAndDelete
<1>4. pcs' \in Seq(Connection) /\ Len(pcs') = Len(pcs)
  <2>1. Len(pcs) \in Nat
    BY DEF TypeOK
  <2>2. \A k \in 1 .. Len(pcs) : pcs'[k] \in Connection
    BY <1>1, <1>2
  <2> QED
    BY <1>3, <2>1, <2>2
<1> QED
  BY <1>1, <1>2, <1>4

LEMMA NewCell ==
  ASSUME NEW p \in Peer, NEW role \in {"offer", "answer"}, NEW remote \in IdOrNone
  PROVE  /\ New(p, role, remote) \in Connection
         /\ New(p, role, remote).owner = p
         /\ New(p, role, remote).role = role
         /\ New(p, role, remote).remote = remote
         /\ New(p, role, remote).state = "new"
         /\ New(p, role, remote).signaling = "stable"
         /\ New(p, role, remote).task = IF role = "offer" THEN "create" ELSE "apply"
BY DEF New, Connection

-----------------------------------------------------------------------------
(* Types *)

OfferType == [type : {"offer", "answer", "candidate"}, from : Id]

LEMMA MessageTypes ==
  /\ \A i \in Id : /\ [type |-> "offer", from |-> i] \in Message
                   /\ [type |-> "answer", from |-> i] \in Message
                   /\ [type |-> "candidate", from |-> i] \in Message
  /\ [type |-> "peer-left"] \in Message
  /\ [type |-> "peer-joined"] \in Message
  /\ \A m \in Message : m.type \in {"offer", "answer", "candidate"} =>
       m \in OfferType /\ m = [type |-> m.type, from |-> m.from] /\ m.from \in Id
  /\ \A m \in Message : m.type \in {"offer", "answer", "candidate", "peer-left", "peer-joined"}
BY DEF Message, OfferType

\* The record of a page names the connections it named, or none.
LEMMA NamedKept ==
  ASSUME Types, DOMAIN pcs' = DOMAIN pcs,
         \A k \in DOMAIN pcs : pcs'[k].owner = pcs[k].owner,
         \A p \in Peer : connection'[p] \in {connection[p], 0}
  PROVE  Named'
BY DEF Types, Named

\* What is new in the mail is a message of the connection i to the other page.
RelayIn(i, type) ==
  \A q \in Peer, m \in Message : In(q, m)' =>
    In(q, m) \/ (m.type = type /\ m.from = i /\ Other(q) = pcs[i].owner)

LEMMA RelayTypes ==
  ASSUME TypeOK, NEW i \in DOMAIN pcs, NEW type \in {"offer", "answer", "candidate"},
         Relay(pcs[i].owner, [type |-> type, from |-> i])
  PROVE  /\ mail' \in [Peer -> Seq(Message)]
         /\ lost' \in BOOLEAN
         /\ RelayIn(i, type)
<1>1. PICK m \in Message : m = [type |-> type, from |-> i]
  BY Ids, MessageTypes
<1>2. pcs[i].owner \in Peer /\ Other(pcs[i].owner) \in Peer
      /\ Other(Other(pcs[i].owner)) = pcs[i].owner
  BY Ids, OtherIsPeer
<1>3. mail' = mail \/ mail' = [mail EXCEPT ![Other(pcs[i].owner)] = Append(@, m)]
  BY <1>1 DEF Relay
<1>4. lost' \in BOOLEAN
  BY DEF Relay, TypeOK
<1>5. /\ mail' \in [Peer -> Seq(Message)]
      /\ \A q \in Peer, n \in Message :
           In(q, n)' => In(q, n) \/ (q = Other(pcs[i].owner) /\ n = m)
  BY <1>2, <1>3, PostIn
<1> QED
  BY <1>1, <1>2, <1>4, <1>5 DEF RelayIn

\* One of the steps of the connection i
LEMMA ConnectionTypes ==
  ASSUME Types, NEW i \in DOMAIN pcs, NEW throws \in BOOLEAN,
         \/ SendOffer(i) \/ ApplyOffer(i, throws) \/ SendAnswer(i)
         \/ Gather(i) \/ Connected(i) \/ Failed(i)
  PROVE  Types'
<1>0. TypeOK /\ i \in Id /\ i \in IdOrNone /\ pcs[i].owner \in Peer
  BY Ids, BoundsAssumption DEF Types, Id, IdOrNone
<1>1. PICK cell : Becomes(i, cell) /\ Proceeds(i, cell)
  <2>1. CASE Connected(i)
    BY <1>0, <2>1, StateCell DEF Connected
  <2>2. CASE Failed(i)
    BY <1>0, <2>2, StateCell DEF Failed
  <2> QED
    BY <1>0, <2>1, <2>2, SendOfferCell, ApplyOfferCell, SendAnswerCell, GatherCell
<1>2. /\ pcs' \in Seq(Connection) /\ Len(pcs') <= MaxConnections
      /\ DOMAIN pcs' = DOMAIN pcs
      /\ \A k \in DOMAIN pcs : pcs'[k].owner = pcs[k].owner
  BY <1>0, <1>1 DEF Becomes, Proceeds, TypeOK
<1>3. /\ connection' = connection /\ UNCHANGED <<discovered, cleaning, server>>
  BY DEF SendOffer, ApplyOffer, SendAnswer, Gather, Connected, Failed, record
<1>4. dataChannel' \in [Peer -> IdOrNone]
  <2>1. CASE Connected(i)
    BY <1>0, <2>1 DEF Connected, Adopted, TypeOK
  <2>2. CASE ~ Connected(i)
    BY <1>0, <2>2 DEF SendOffer, ApplyOffer, SendAnswer, Gather, Failed, record, TypeOK
  <2> QED
    BY <2>1, <2>2
<1>5. networkState' \in [Peer -> {"discovered", "connecting", "connected", "failed"}]
  BY <1>0 DEF SendOffer, ApplyOffer, SendAnswer, Gather, Connected, Failed, record,
              Noted, TypeOK
<1>6. pending' \in [Peer -> SUBSET Id]
  <2>1. CASE ApplyOffer(i, throws)
    BY <1>0, <2>1 DEF ApplyOffer, Flush, TypeOK
  <2>2. CASE ~ ApplyOffer(i, throws)
    BY <1>0, <2>2 DEF SendOffer, SendAnswer, Gather, Connected, Failed, TypeOK
  <2> QED
    BY <2>1, <2>2
<1>7. mail' \in [Peer -> Seq(Message)] /\ lost' \in BOOLEAN
  <2>1. CASE SendOffer(i)
    BY <1>0, <2>1, RelayTypes DEF SendOffer, TypeOK
  <2>2. CASE SendAnswer(i)
    BY <1>0, <2>2, RelayTypes DEF SendAnswer, TypeOK
  <2>3. CASE Gather(i)
    BY <1>0, <2>3, RelayTypes DEF Gather
  <2>4. CASE ApplyOffer(i, throws) \/ Connected(i) \/ Failed(i)
    BY <1>0, <2>4 DEF ApplyOffer, Connected, Failed, TypeOK
  <2> QED
    BY <2>1, <2>2, <2>3, <2>4
<1>8. breaks' \in 0 .. MaxBreaks
  <2>1. CASE Failed(i)
    BY <1>0, <2>1, BoundsAssumption DEF Failed, TypeOK
  <2>2. CASE ~ Failed(i)
    BY <1>0, <2>2 DEF SendOffer, ApplyOffer, SendAnswer, Gather, Connected, TypeOK
  <2> QED
    BY <2>1, <2>2
<1>9. TypeOK'
  BY <1>0, <1>2, <1>3, <1>4, <1>5, <1>6, <1>7, <1>8 DEF TypeOK, server
<1>10. Named'
  BY <1>2, <1>3, NamedKept
<1> QED
  BY <1>9, <1>10 DEF Types

\* A connection is created by a click or an offer.
LEMMA CreateTypes ==
  ASSUME TypeOK, NEW p \in Peer, NEW role \in {"offer", "answer"}, NEW remote \in IdOrNone,
         createPeerConnection(p, role, remote)
  PROVE  /\ pcs' \in Seq(Connection) /\ Len(pcs') <= MaxConnections
         /\ connection' = [connection EXCEPT ![p] = Len(pcs) + 1]
         /\ Len(pcs) + 1 \in IdOrNone
         /\ connection' \in [Peer -> IdOrNone]
         /\ networkState' \in [Peer -> {"discovered", "connecting", "connected", "failed"}]
         /\ pcs' = Append(pcs, New(p, role, remote))
<1>1. Len(pcs) \in Nat /\ Len(pcs) < MaxConnections
  BY DEF createPeerConnection, TypeOK
<1>2. Len(pcs) + 1 \in IdOrNone
  BY <1>1, BoundsAssumption DEF IdOrNone
<1>3. pcs' \in Seq(Connection) /\ Len(pcs') = Len(pcs) + 1
  BY NewCell, ConnectionAdded DEF createPeerConnection
<1> QED
  BY <1>1, <1>2, <1>3, BoundsAssumption DEF createPeerConnection, TypeOK

LEMMA NamedAdded ==
  ASSUME Types, NEW p \in Peer, NEW new \in Connection, new.owner = p,
         pcs' = Append(pcs, new), connection' = [connection EXCEPT ![p] = Len(pcs) + 1]
  PROVE  Named'
<1>1. /\ DOMAIN pcs' = DOMAIN pcs \cup {Len(pcs) + 1}
      /\ pcs'[Len(pcs) + 1] = new
      /\ \A k \in DOMAIN pcs : pcs'[k] = pcs[k]
  BY ConnectionAdded DEF Types
<1>2. \A q \in Peer : connection'[q] = IF q = p THEN Len(pcs) + 1 ELSE connection[q]
  BY DEF Types, TypeOK
<1> QED
  BY <1>1, <1>2 DEF Types, Named

LEMMA ClickTypes ==
  ASSUME Types, NEW p \in Peer, Click(p)
  PROVE  Types'
<1>1. createPeerConnection(p, "offer", 0) /\ 0 \in IdOrNone /\ TypeOK
  BY BoundsAssumption DEF Click, IdOrNone, Types
<1>2. /\ pcs' \in Seq(Connection) /\ Len(pcs') <= MaxConnections
      /\ connection' \in [Peer -> IdOrNone]
      /\ networkState' \in [Peer -> {"discovered", "connecting", "connected", "failed"}]
      /\ Len(pcs) + 1 \in IdOrNone
  BY <1>1, CreateTypes
<1>3. dataChannel' \in [Peer -> IdOrNone]
  BY <1>1, <1>2 DEF Click, TypeOK
<1>4. TypeOK'
  BY <1>1, <1>2, <1>3 DEF Click, TypeOK, server
<1>5. Named'
  BY <1>1, CreateTypes, NamedAdded, NewCell
<1> QED
  BY <1>4, <1>5 DEF Types

LEMMA HandleOfferTypes ==
  ASSUME Types, NEW p \in Peer, HandleOffer(p)
  PROVE  Types'
<1>1. /\ TypeOK /\ mail[p] # <<>> /\ Head(mail[p]).type = "offer"
      /\ mail' = Taken(p)
      /\ createPeerConnection(p, "answer", Head(mail[p]).from)
  BY DEF HandleOffer, Receives, Types
<1>2. Head(mail[p]).from \in IdOrNone
  BY <1>1, HeadIn, MessageTypes, BoundsAssumption DEF Id, IdOrNone
<1>3. /\ pcs' \in Seq(Connection) /\ Len(pcs') <= MaxConnections
      /\ connection' \in [Peer -> IdOrNone]
      /\ networkState' \in [Peer -> {"discovered", "connecting", "connected", "failed"}]
  BY <1>1, <1>2, CreateTypes
<1>4. mail' \in [Peer -> Seq(Message)]
  BY <1>1, TailIn
<1>5. TypeOK'
  BY <1>1, <1>3, <1>4 DEF HandleOffer, TypeOK, server
<1>6. Named'
  BY <1>1, <1>2, CreateTypes, NamedAdded, NewCell
<1> QED
  BY <1>5, <1>6 DEF Types

LEMMA HandleAnswerTypes ==
  ASSUME Types, NEW p \in Peer, HandleAnswer(p)
  PROVE  Types'
<1>1. TypeOK /\ mail[p] # <<>> /\ Head(mail[p]).type = "answer" /\ mail' = Taken(p)
  BY DEF HandleAnswer, Receives, Types
<1>2. Head(mail[p]).from \in Id
  BY <1>1, HeadIn, MessageTypes
<1>3. mail' \in [Peer -> Seq(Message)]
  BY <1>1, TailIn
<1>4. /\ pcs' \in Seq(Connection) /\ Len(pcs') <= MaxConnections
      /\ DOMAIN pcs' = DOMAIN pcs
      /\ \A k \in DOMAIN pcs : pcs'[k].owner = pcs[k].owner
      /\ pending' \in [Peer -> SUBSET Id]
  <2>1. CASE Awaits(connection[p])
    <3>1. connection[p] \in DOMAIN pcs
      BY <2>1 DEF Awaits, Types, Named
    <3>2. PICK cell : Becomes(connection[p], cell) /\ Proceeds(connection[p], cell)
      BY <1>1, <1>2, <2>1, <3>1, AnswerCell DEF HandleAnswer
    <3>3. pending' \in [Peer -> SUBSET Id]
      BY <1>1, <2>1 DEF HandleAnswer, Flush, TypeOK
    <3> QED
      BY <1>1, <3>1, <3>2, <3>3 DEF Becomes, Proceeds, TypeOK
  <2>2. CASE ~ Awaits(connection[p])
    BY <1>1, <2>2 DEF HandleAnswer, TypeOK
  <2> QED
    BY <2>1, <2>2
<1>5. TypeOK'
  BY <1>1, <1>3, <1>4 DEF HandleAnswer, TypeOK, server, record
<1>6. Named'
  BY <1>4, NamedKept DEF HandleAnswer, record
<1> QED
  BY <1>5, <1>6 DEF Types

LEMMA CloseTypes ==
  ASSUME Types, NEW p \in Peer, CloseAndDelete(p)
  PROVE  /\ pcs' \in Seq(Connection) /\ Len(pcs') <= MaxConnections
         /\ connection' \in [Peer -> IdOrNone]
         /\ dataChannel' \in [Peer -> IdOrNone]
         /\ networkState' \in [Peer -> {"discovered", "connecting", "connected", "failed"}]
         /\ pending' \in [Peer -> SUBSET Id]
         /\ Named'
<1>1. /\ pcs' \in Seq(Connection) /\ Len(pcs') = Len(pcs) /\ DOMAIN pcs' = DOMAIN pcs
      /\ \A k \in DOMAIN pcs : pcs'[k].owner = pcs[k].owner
  BY AllClosed DEF Types
<1>2. 0 \in IdOrNone
  BY BoundsAssumption DEF IdOrNone
<1>3. \A q \in Peer : connection'[q] \in {connection[q], 0}
  BY DEF CloseAndDelete, Types, TypeOK
<1>4. Named'
  BY <1>1, <1>3, NamedKept
<1> QED
  BY <1>1, <1>2, <1>4 DEF CloseAndDelete, Types, TypeOK

LEMMA ServerTypes ==
  ASSUME Types, NEW p \in Peer, Drop(p) \/ Notice(p) \/ Rejoin(p)
  PROVE  Types'
<1>1. TypeOK /\ Other(p) \in Peer
  BY OtherIsPeer DEF Types
<1>2. UNCHANGED <<pcs, record, pending, discovered, cleaning, breaks>>
  BY DEF Drop, Notice, Rejoin
<1>3. mail' \in [Peer -> Seq(Message)]
  <2>1. CASE Drop(p)
    BY <1>1, <2>1 DEF Drop, TypeOK
  <2>2. CASE Notice(p)
    BY <1>1, <2>2, PostIn, MessageTypes DEF Notice
  <2>3. CASE Rejoin(p)
    BY <1>1, <2>3, PostToAllIn, MessageTypes DEF Rejoin
  <2> QED
    BY <2>1, <2>2, <2>3
<1>4. drops' \in 0 .. MaxDrops /\ lost' \in BOOLEAN
  <2>1. drops' = drops \/ (drops < MaxDrops /\ drops' = drops + 1)
    BY DEF Drop, Notice, Rejoin
  <2>2. drops' \in 0 .. MaxDrops
    BY <1>1, <2>1, BoundsAssumption DEF TypeOK
  <2>3. lost' \in BOOLEAN
    BY <1>1 DEF Drop, Notice, Rejoin, TypeOK
  <2> QED
    BY <2>2, <2>3
<1>5. online' \in SUBSET Peer /\ noticed' \in SUBSET Peer
  BY <1>1 DEF Drop, Notice, Rejoin, TypeOK
<1>6. TypeOK'
  BY <1>1, <1>2, <1>3, <1>4, <1>5 DEF TypeOK, record
<1>7. Named'
  BY <1>2 DEF Types, Named, record
<1> QED
  BY <1>6, <1>7 DEF Types

LEMMA MessageTaken ==
  ASSUME Types, NEW p \in Peer,
         HandleCandidate(p) \/ HandlePeerLeft(p) \/ HandlePeerJoined(p)
  PROVE  /\ mail[p] # <<>>
         /\ Head(mail[p]) \in Message
         /\ mail' = Taken(p)
         /\ mail' \in [Peer -> Seq(Message)]
         /\ UNCHANGED <<server, lost, breaks>>
<1>1. mail[p] # <<>> /\ mail' = Taken(p) /\ UNCHANGED <<server, lost, breaks>>
  BY DEF HandleCandidate, HandlePeerLeft, HandlePeerJoined, Receives
<1> QED
  BY <1>1, HeadIn, TailIn DEF Types

LEMMA MessageTakenTypes ==
  ASSUME Types, NEW p \in Peer,
         HandleCandidate(p) \/ HandlePeerLeft(p) \/ HandlePeerJoined(p)
  PROVE  Types'
<1>0. /\ TypeOK /\ mail' \in [Peer -> Seq(Message)] /\ UNCHANGED <<server, lost, breaks>>
      /\ Head(mail[p]) \in Message
  BY MessageTaken DEF Types
<1>1. CASE HandleCandidate(p)
  <2>1. Head(mail[p]).from \in Id
    BY <1>0, <1>1, MessageTypes DEF HandleCandidate, Receives
  <2>2. pending' \in [Peer -> SUBSET Id]
    BY <1>0, <1>1, <2>1 DEF HandleCandidate, TypeOK
  <2> QED
    BY <1>0, <1>1, <2>2 DEF HandleCandidate, Types, TypeOK, Named, server, record
<1>2. CASE HandlePeerJoined(p)
  BY <1>0, <1>2 DEF HandlePeerJoined, Types, TypeOK, Named, server, record
<1>3. CASE HandlePeerLeft(p)
  <2>1. discovered' \in SUBSET Peer /\ cleaning' \in SUBSET Peer
    BY <1>0, <1>3 DEF HandlePeerLeft, TypeOK
  <2>2. CASE CloseAndDelete(p)
    BY <1>0, <2>1, <2>2, CloseTypes DEF Types, TypeOK, server
  <2>3. CASE UNCHANGED <<pcs, record, pending>>
    BY <1>0, <2>1, <2>3 DEF Types, TypeOK, Named, server, record
  <2> QED
    BY <1>3, <2>2, <2>3 DEF HandlePeerLeft
<1> QED
  BY <1>1, <1>2, <1>3

LEMMA FinishCleanupTypes ==
  ASSUME Types, NEW p \in Peer, FinishCleanup(p)
  PROVE  Types'
<1>1. CloseAndDelete(p) /\ cleaning' = cleaning \ {p}
      /\ UNCHANGED <<discovered, server, mail, lost, breaks>>
  BY DEF FinishCleanup
<1> QED
  BY <1>1, CloseTypes DEF Types, TypeOK, server

LEMMA NextTypes == Types /\ [Next]_vars => Types'
<1> SUFFICES ASSUME Types, [Next]_vars PROVE Types'
  OBVIOUS
<1>1. CASE UNCHANGED vars
  BY <1>1 DEF vars, record, server, Types, TypeOK, Named
<1>2. ASSUME NEW i \in DOMAIN pcs, SendOffer(i) \/ SendAnswer(i) \/ Gather(i)
                                     \/ Connected(i) \/ Failed(i)
      PROVE  Types'
  <2>1. TRUE \in BOOLEAN
    OBVIOUS
  <2> QED
    BY <1>2, <2>1, ConnectionTypes
<1> QED
  BY <1>1, <1>2, ConnectionTypes, ClickTypes, HandleOfferTypes, HandleAnswerTypes,
     ServerTypes, MessageTakenTypes, FinishCleanupTypes DEF Next

-----------------------------------------------------------------------------
(* Steps that create no connection *)

\* The message m is sent by a connection whose handler ends.
Finished(q, m) ==
  /\ m.from \in DOMAIN pcs
  /\ pcs[m.from].owner = Other(q)
  /\ pcs[m.from].role = m.type
  /\ pcs[m.from].task # "none"

\* Connection k is given the answer to its offer.
Answered(k) ==
  /\ pcs[k].role = "offer"
  /\ pcs'[k].remote \in DOMAIN pcs
  /\ pcs[pcs'[k].remote].role = "answer"
  /\ drops = 0 => pcs[pcs'[k].remote].remote = k

Mailed ==
  \A q \in Peer, m \in Message :
    In(q, m)' => In(q, m) \/ m.type \notin {"offer", "answer"} \/ Finished(q, m)

GoesOn ==
  /\ DOMAIN pcs' = DOMAIN pcs
  /\ \A k \in DOMAIN pcs :
       /\ pcs'[k].owner = pcs[k].owner /\ pcs'[k].role = pcs[k].role
       /\ pcs'[k].task # "none" => pcs[k].task # "none"
       /\ pcs'[k].task = "apply" => pcs[k].task = "apply"
       /\ pcs'[k].signaling = "have-local-offer" => pcs[k].role = "offer"
       /\ pcs'[k].remote = pcs[k].remote \/ Answered(k)
  /\ Mailed

\* Nobody leaves, and no connection fails while something is under way.
Peaceful ==
  /\ UNCHANGED <<online, cleaning, connection>>
  /\ \A q \in Peer, m \in Message :
       In(q, m)' => In(q, m) \/ m.type \notin {"peer-left", "peer-joined"}
  /\ \A k \in DOMAIN pcs :
       /\ pcs'[k].signaling = "closed" => Closed(k)
       /\ pcs'[k].state = "failed" => pcs[k].state = "failed" \/ Settled

LEMMA RolesKept ==
  ASSUME Types, Types', Roles, GoesOn
  PROVE  Roles'
<1>1. \A k \in DOMAIN pcs : pcs[k].role \in {"offer", "answer"}
  BY Ids DEF Types, Connection
<1>2. ASSUME NEW k \in DOMAIN pcs, pcs[k].role = "offer"
      PROVE  Asks(k)'
  BY <1>2 DEF Roles, GoesOn, Asks, Answered
<1>3. ASSUME NEW k \in DOMAIN pcs, pcs[k].role = "answer"
      PROVE  Answers(k)'
  BY <1>3 DEF Roles, GoesOn, Answers, Answered
<1>4. ASSUME NEW q \in Peer, NEW m \in Message, In(q, m)', m.type \in {"offer", "answer"}
      PROVE  /\ m.from \in DOMAIN pcs
             /\ pcs[m.from].owner = Other(q)
             /\ pcs[m.from].role = m.type
  BY <1>4 DEF Roles, GoesOn, Mailed, Finished
<1>5. \A k \in DOMAIN pcs' : IF pcs'[k].role = "offer" THEN Asks(k)' ELSE Answers(k)'
  BY <1>1, <1>2, <1>3 DEF GoesOn
<1>6. \A q \in Peer, m \in Message : In(q, m)' /\ m.type \in {"offer", "answer"} =>
        /\ m.from \in DOMAIN pcs'
        /\ pcs'[m.from].owner = Other(q)
        /\ pcs'[m.from].role = m.type
  BY <1>4 DEF GoesOn
<1> QED
  BY <1>5, <1>6 DEF Roles

LEMMA MetKept ==
  ASSUME Types, Roles, GoesOn, Met, drops = 0
  PROVE  Met'
<1> SUFFICES ASSUME NEW k \in DOMAIN pcs, pcs[k].role = "offer", pcs'[k].remote # 0
             PROVE  pcs'[pcs'[k].remote].remote = k
  BY DEF Met, GoesOn
<1>1. /\ pcs'[k].remote \in DOMAIN pcs
      /\ pcs[pcs'[k].remote].role = "answer"
      /\ pcs[pcs'[k].remote].remote = k
  BY DEF GoesOn, Answered, Roles, Asks, Met
<1> QED
  BY <1>1 DEF GoesOn, Answered

LEMMA LiveKept ==
  ASSUME Types, Roles, GoesOn, NEW i \in DOMAIN pcs, Live(i)'
  PROVE  Live(i)
<1>0. i \in Id /\ pcs[i].owner \in Peer /\ Other(pcs[i].owner) \in Peer
      /\ Other(Other(pcs[i].owner)) = pcs[i].owner
  BY Ids, OtherIsPeer DEF Types
<1>1. pcs[i].role = "offer" /\ pcs'[i].owner = pcs[i].owner
  BY DEF GoesOn, Live
<1>2. CASE pcs'[i].task # "none"
  BY <1>1, <1>2 DEF GoesOn, Live
<1>3. CASE In(Other(pcs[i].owner), [type |-> "offer", from |-> i])'
  <2>1. PICK m \in Message : m = [type |-> "offer", from |-> i]
    BY <1>0, MessageTypes
  <2>2. In(Other(pcs[i].owner), m) \/ Finished(Other(pcs[i].owner), m)
    BY <1>0, <1>3, <2>1 DEF GoesOn, Mailed
  <2> QED
    BY <1>1, <2>1, <2>2 DEF Live, Finished
<1>4. ASSUME NEW j \in DOMAIN pcs, pcs'[j].role = "answer", pcs'[j].remote = i,
             pcs'[j].task # "none" \/ In(pcs[i].owner, [type |-> "answer", from |-> j])'
      PROVE  Live(i)
  <2>1. pcs[j].role = "answer" /\ pcs[j].remote = i
    BY <1>4 DEF GoesOn, Answered
  <2>2. CASE pcs'[j].task # "none"
    BY <1>1, <2>1, <2>2 DEF GoesOn, Live
  <2>3. CASE In(pcs[i].owner, [type |-> "answer", from |-> j])'
    <3>1. PICK m \in Message : m = [type |-> "answer", from |-> j]
      BY Ids, MessageTypes DEF Types
    <3>2. In(pcs[i].owner, m) \/ Finished(pcs[i].owner, m)
      BY <1>0, <2>3, <3>1 DEF GoesOn, Mailed
    <3> QED
      BY <1>1, <2>1, <3>1, <3>2 DEF Live, Finished
  <2> QED
    BY <1>4, <2>2, <2>3
<1> QED
  BY <1>1, <1>2, <1>3, <1>4 DEF Live, GoesOn

\* Nothing is live when nothing is under way.
LEMMA SettledLive ==
  ASSUME Types, Settled, NEW i \in DOMAIN pcs
  PROVE  ~ Live(i)
<1>1. pcs[i].owner \in Peer /\ Other(pcs[i].owner) \in Peer
  BY Ids, OtherIsPeer DEF Types
<1>2. \A p \in Peer : \A m : ~ In(p, m)
  BY DEF Settled, In
<1> QED
  BY <1>1, <1>2 DEF Live, Settled

LEMMA OneOfferKept ==
  ASSUME Types, Roles, Undisturbed, OneOffer, GoesOn, Peaceful
  PROVE  OneOffer'
<1> SUFFICES ASSUME NEW i \in DOMAIN pcs, Live(i)'
             PROVE  /\ \A k \in DOMAIN pcs : pcs[k].owner = pcs[i].owner /\ k > i =>
                         pcs[k].role = "answer"
                    /\ pcs'[connection[pcs[i].owner]].state # "failed"
  BY DEF OneOffer, GoesOn, Peaceful
<1>1. Live(i) /\ ~ Settled
  BY LiveKept, SettledLive
<1>2. connection[pcs[i].owner] \in DOMAIN pcs
  BY Ids DEF Undisturbed, Types, Named
<1> QED
  BY <1>1, <1>2 DEF OneOffer, Peaceful

LEMMA UndisturbedKept ==
  ASSUME Types, Undisturbed, GoesOn, Peaceful
  PROVE  Undisturbed'
<1>1. \A k \in DOMAIN pcs' : ~ Closed(k)' /\ k <= connection'[pcs'[k].owner]
  BY DEF Undisturbed, GoesOn, Peaceful, Closed
<1>2. online' = Peer /\ cleaning' = {}
  BY DEF Undisturbed, Peaceful
<1>3. \A p \in Peer, m \in Message : In(p, m)' => m.type \notin {"peer-left", "peer-joined"}
  BY DEF Undisturbed, Peaceful
<1> QED
  BY <1>1, <1>2, <1>3 DEF Undisturbed

LEMMA InvKept ==
  ASSUME Inv, Types', GoesOn, drops' = 0 => drops = 0 /\ Peaceful
  PROVE  Inv'
BY RolesKept, MetKept, OneOfferKept, UndisturbedKept DEF Inv

-----------------------------------------------------------------------------
(* The steps *)

\* Connection i goes on, and what it was told of stays.
LEMMA CellGoesOn ==
  ASSUME Types, Roles, NEW i \in DOMAIN pcs, NEW cell, Becomes(i, cell), Proceeds(i, cell),
         cell.remote = pcs[i].remote,
         cell.signaling = "have-local-offer" =>
           pcs[i].role = "offer" \/ pcs[i].signaling = "have-local-offer",
         Mailed
  PROVE  GoesOn
<1>1. \A k \in DOMAIN pcs : pcs[k].role \in {"offer", "answer"}
  BY Ids DEF Types, Connection
<1>2. \A k \in DOMAIN pcs : pcs[k].signaling = "have-local-offer" => pcs[k].role = "offer"
  BY <1>1 DEF Roles, Answers
<1> QED
  BY <1>2 DEF GoesOn, Becomes, Proceeds

LEMMA CellPeaceful ==
  ASSUME UNCHANGED <<online, cleaning, connection>>,
         NEW i \in DOMAIN pcs, NEW cell, Becomes(i, cell),
         cell.signaling = "closed" => Closed(i),
         cell.state = "failed" => pcs[i].state = "failed" \/ Settled,
         \A q \in Peer, m \in Message :
           In(q, m)' => In(q, m) \/ m.type \notin {"peer-left", "peer-joined"}
  PROVE  Peaceful
BY DEF Peaceful, Becomes, Closed

LEMMA NoMail ==
  ASSUME mail' = mail
  PROVE  /\ Mailed
         /\ \A q \in Peer, m \in Message :
              In(q, m)' => In(q, m) \/ m.type \notin {"peer-left", "peer-joined"}
BY DEF Mailed, In

\* What a connection sends.
LEMMA RelayMailed ==
  ASSUME Types, NEW i \in DOMAIN pcs, NEW type \in {"offer", "answer", "candidate"},
         Relay(pcs[i].owner, [type |-> type, from |-> i]),
         type # "candidate" => pcs[i].role = type /\ pcs[i].task # "none"
  PROVE  /\ Mailed
         /\ \A q \in Peer, m \in Message :
              In(q, m)' => In(q, m) \/ m.type \notin {"peer-left", "peer-joined"}
<1>0. TypeOK
  BY DEF Types
<1>1. RelayIn(i, type)
  BY <1>0, RelayTypes
<1> QED
  BY <1>1 DEF RelayIn, Mailed, Finished

LEMMA ConnectionSteps ==
  ASSUME Inv, NEW i \in DOMAIN pcs, NEW throws \in BOOLEAN,
         \/ SendOffer(i) \/ ApplyOffer(i, throws) \/ SendAnswer(i)
         \/ Gather(i) \/ Connected(i) \/ Failed(i)
  PROVE  GoesOn /\ Peaceful /\ drops' = drops
<1>0. Types /\ TypeOK /\ Roles
  BY DEF Inv, Types
<1>1. UNCHANGED <<online, cleaning, connection, drops>>
  BY DEF SendOffer, ApplyOffer, SendAnswer, Gather, Connected, Failed, record, server
<1>2. /\ Mailed
      /\ \A q \in Peer, m \in Message :
           In(q, m)' => In(q, m) \/ m.type \notin {"peer-left", "peer-joined"}
  <2>1. CASE mail' = mail
    BY <2>1, NoMail
  <2>2. CASE SendOffer(i)
    BY <1>0, <2>1, <2>2, RelayMailed DEF SendOffer
  <2>3. CASE SendAnswer(i)
    BY <1>0, <2>1, <2>3, RelayMailed DEF SendAnswer
  <2>4. CASE Gather(i)
    BY <1>0, <2>4, RelayMailed DEF Gather
  <2> QED
    BY <2>1, <2>2, <2>3, <2>4 DEF ApplyOffer, Connected, Failed
<1>3. PICK cell :
        /\ Becomes(i, cell) /\ Proceeds(i, cell)
        /\ cell.remote = pcs[i].remote
        /\ cell.signaling = "have-local-offer" =>
             pcs[i].role = "offer" \/ pcs[i].signaling = "have-local-offer"
        /\ cell.signaling = "closed" => Closed(i)
        /\ cell.state = "failed" => pcs[i].state = "failed" \/ Settled
  <2>1. CASE SendOffer(i)
    <3>1. pcs[i].role = "offer"
      BY <2>1 DEF SendOffer
    <3> QED
      BY <1>0, <2>1, <3>1, SendOfferCell
  <2>2. CASE ApplyOffer(i, throws)
    BY <1>0, <2>2, ApplyOfferCell
  <2>3. CASE SendAnswer(i)
    BY <1>0, <2>3, SendAnswerCell
  <2>4. CASE Gather(i)
    BY <1>0, <2>4, GatherCell DEF Closed
  <2>5. CASE Connected(i)
    <3>1. pcs' = [pcs EXCEPT ![i].state = "connected"]
      BY <2>5 DEF Connected
    <3> QED
      BY <1>0, <3>1, StateCell DEF Closed
  <2>6. CASE Failed(i)
    <3>1. pcs' = [pcs EXCEPT ![i].state = "failed"] /\ Settled
      BY <2>6 DEF Failed
    <3> QED
      BY <1>0, <3>1, StateCell DEF Closed
  <2> QED
    BY <2>1, <2>2, <2>3, <2>4, <2>5, <2>6
<1>4. GoesOn
  BY <1>0, <1>2, <1>3, CellGoesOn
<1>5. Peaceful
  BY <1>1, <1>2, <1>3, CellPeaceful
<1> QED
  BY <1>1, <1>4, <1>5

\* The connections do not change, but for being closed.
LEMMA NoCell ==
  ASSUME Types, Roles, pcs' = pcs
  PROVE  /\ Mailed => GoesOn
         /\ \A k \in DOMAIN pcs : /\ pcs'[k].signaling = "closed" => Closed(k)
                                  /\ pcs'[k].state = "failed" => pcs[k].state = "failed"
<1>1. \A k \in DOMAIN pcs : pcs[k].role \in {"offer", "answer"}
  BY Ids DEF Types, Connection
<1>2. \A k \in DOMAIN pcs : pcs[k].signaling = "have-local-offer" => pcs[k].role = "offer"
  BY <1>1 DEF Roles, Answers
<1> QED
  BY <1>2 DEF GoesOn, Closed

LEMMA ClosedGoesOn ==
  ASSUME Types, Roles, NEW p \in Peer, CloseAndDelete(p), Mailed
  PROVE  GoesOn
<1>1. \A k \in DOMAIN pcs : pcs[k].role \in {"offer", "answer"}
  BY Ids DEF Types, Connection
<1>2. \A k \in DOMAIN pcs : pcs[k].signaling = "have-local-offer" => pcs[k].role = "offer"
  BY <1>1 DEF Roles, Answers
<1>3. /\ DOMAIN pcs' = DOMAIN pcs
      /\ \A k \in DOMAIN pcs :
           /\ pcs'[k].owner = pcs[k].owner /\ pcs'[k].role = pcs[k].role
           /\ pcs'[k].task = pcs[k].task /\ pcs'[k].remote = pcs[k].remote
           /\ pcs'[k].signaling \in {pcs[k].signaling, "closed"}
  BY AllClosed DEF Types
<1> QED
  BY <1>2, <1>3 DEF GoesOn

LEMMA TakenMailed ==
  ASSUME Types, NEW p \in Peer, mail[p] # <<>>, mail' = Taken(p)
  PROVE  /\ Mailed
         /\ \A q \in Peer, m \in Message :
              In(q, m)' => In(q, m) \/ m.type \notin {"peer-left", "peer-joined"}
BY TailIn DEF Types, Mailed

LEMMA ServerSteps ==
  ASSUME Inv, NEW p \in Peer, Drop(p) \/ Notice(p) \/ Rejoin(p)
  PROVE  GoesOn /\ drops' # 0
<1>0. Types /\ Roles /\ TypeOK /\ Other(p) \in Peer
  BY OtherIsPeer DEF Inv, Types
<1>1. pcs' = pcs
  BY DEF Drop, Notice, Rejoin
<1>2. Mailed
  <2>1. CASE Drop(p)
    BY <1>0, <2>1 DEF Drop, Mailed, In, TypeOK
  <2>2. CASE Notice(p)
    BY <1>0, <2>2, PostIn, MessageTypes DEF Notice, Mailed
  <2>3. CASE Rejoin(p)
    BY <1>0, <2>3, PostToAllIn, MessageTypes DEF Rejoin, Mailed
  <2> QED
    BY <2>1, <2>2, <2>3
<1>3. drops' # 0
  BY <1>0, BoundsAssumption DEF Drop, Notice, Rejoin, Inv, Undisturbed, TypeOK
<1> QED
  BY <1>0, <1>1, <1>2, <1>3, NoCell

LEMMA MessageSteps ==
  ASSUME Inv, NEW p \in Peer,
         HandleCandidate(p) \/ HandlePeerLeft(p) \/ HandlePeerJoined(p)
  PROVE  GoesOn /\ (drops' = 0 => drops = 0 /\ Peaceful)
<1>0. Types /\ Roles /\ TypeOK
  BY DEF Inv, Types
<1>1. /\ mail[p] # <<>> /\ mail' = Taken(p) /\ UNCHANGED <<server, lost, breaks>>
      /\ Head(mail[p]) \in Message
  BY <1>0, MessageTaken
<1>2. /\ Mailed
      /\ \A q \in Peer, m \in Message :
           In(q, m)' => In(q, m) \/ m.type \notin {"peer-left", "peer-joined"}
  BY <1>0, <1>1, TakenMailed
<1>3. GoesOn
  <2>1. CASE pcs' = pcs
    BY <1>0, <1>2, <2>1, NoCell
  <2>2. CASE CloseAndDelete(p)
    BY <1>0, <1>2, <2>2, ClosedGoesOn
  <2> QED
    BY <2>1, <2>2 DEF HandleCandidate, HandlePeerLeft, HandlePeerJoined
<1>4. CASE HandlePeerLeft(p)
  <2>1. In(p, Head(mail[p])) /\ Head(mail[p]).type = "peer-left"
    BY <1>0, <1>1, <1>4, HeadIn DEF HandlePeerLeft, Receives
  <2>2. drops # 0
    BY <1>1, <2>1 DEF Inv, Undisturbed
  <2> QED
    BY <1>1, <1>3, <2>2 DEF server
<1>5. CASE HandleCandidate(p) \/ HandlePeerJoined(p)
  <2>1. UNCHANGED <<pcs, connection, cleaning>>
    BY <1>5 DEF HandleCandidate, HandlePeerJoined, record
  <2> QED
    BY <1>0, <1>1, <1>2, <1>3, <2>1, NoCell DEF Peaceful, server
<1> QED
  BY <1>4, <1>5

LEMMA FinishCleanupStep ==
  ASSUME Inv, NEW p \in Peer, FinishCleanup(p)
  PROVE  GoesOn /\ drops' # 0
<1>1. Types /\ Roles /\ CloseAndDelete(p) /\ mail' = mail /\ drops' = drops /\ p \in cleaning
  BY DEF FinishCleanup, Inv, server
<1>2. drops # 0
  BY <1>1 DEF Inv, Undisturbed
<1> QED
  BY <1>1, <1>2, NoMail, ClosedGoesOn

\* An answer that is applied is applied to the offer it answers: its page has
\* made no other offer since.
LEMMA HandleAnswerStep ==
  ASSUME Inv, NEW p \in Peer, HandleAnswer(p)
  PROVE  GoesOn /\ Peaceful /\ drops' = drops
<1>0. Types /\ Roles /\ TypeOK
  BY DEF Inv, Types
<1>1. /\ mail[p] # <<>> /\ mail' = Taken(p) /\ UNCHANGED <<online, cleaning, connection, drops>>
      /\ Head(mail[p]).type = "answer"
  BY DEF HandleAnswer, Receives, record, server
<1>2. /\ Mailed
      /\ \A q \in Peer, m \in Message :
           In(q, m)' => In(q, m) \/ m.type \notin {"peer-left", "peer-joined"}
  BY <1>0, <1>1, TakenMailed
<1>3. CASE ~ Awaits(connection[p])
  <2>1. pcs' = pcs
    BY <1>3 DEF HandleAnswer
  <2> QED
    BY <1>0, <1>1, <1>2, <2>1, NoCell DEF Peaceful
<1>4. CASE Awaits(connection[p])
  <2>1. PICK c \in DOMAIN pcs : c = connection[p] /\ pcs[c].owner = p
                                /\ pcs[c].signaling = "have-local-offer"
    BY <1>0, <1>4 DEF Awaits, Types, Named
  <2>2. PICK m \in Message : m = Head(mail[p]) /\ In(p, m) /\ m.type = "answer"
    BY <1>0, <1>1, HeadIn
  <2>3. /\ m.from \in DOMAIN pcs /\ m.from \in Id
        /\ pcs[m.from].role = "answer" /\ pcs[m.from].owner = Other(p)
    BY <1>0, <2>2, MessageTypes DEF Roles
  <2>4. pcs[c].role = "offer"
    BY <1>0, <2>1, Ids DEF Roles, Answers, Connection
  <2>5. PICK cell : /\ Becomes(c, cell) /\ Proceeds(c, cell)
                    /\ cell.remote = m.from /\ cell.state = pcs[c].state
                    /\ cell.signaling = "stable"
    <3>1. pcs' = [pcs EXCEPT ![c].remote = m.from, ![c].signaling = "stable"]
      BY <1>4, <2>1, <2>2 DEF HandleAnswer
    <3> QED
      BY <1>0, <2>3, <3>1, AnswerCell
  <2>6. drops = 0 => pcs[m.from].remote = c
    <3> SUFFICES ASSUME drops = 0 PROVE pcs[m.from].remote = c
      OBVIOUS
    <3>1. PICK i \in DOMAIN pcs : i = pcs[m.from].remote /\ pcs[i].role = "offer"
                                  /\ pcs[i].owner = p
      BY <1>0, <2>3, OtherIsPeer DEF Roles, Answers
    <3>2. m = [type |-> "answer", from |-> m.from]
      BY <2>2, MessageTypes
    <3>3. Live(i)
      BY <2>2, <2>3, <3>1, <3>2 DEF Live
    <3>4. i <= c
      BY <2>1, <3>1 DEF Inv, Undisturbed
    <3>5. ~ (c > i)
      BY <2>1, <2>4, <3>1, <3>3 DEF Inv, OneOffer
    <3>6. i \in Nat /\ c \in Nat
      BY <1>0, <2>1, <3>1, Ids
    <3> QED
      BY <3>1, <3>4, <3>5, <3>6
  <2>7. Answered(c)
    BY <2>3, <2>4, <2>5, <2>6 DEF Answered, Becomes
  <2>8. \A k \in DOMAIN pcs : pcs[k].signaling = "have-local-offer" => pcs[k].role = "offer"
    BY <1>0, Ids DEF Roles, Answers, Types, Connection
  <2>9. GoesOn
    BY <1>2, <2>1, <2>5, <2>7, <2>8 DEF GoesOn, Becomes, Proceeds
  <2>10. Peaceful
    BY <1>1, <1>2, <2>5, CellPeaceful
  <2> QED
    BY <1>1, <2>9, <2>10
<1> QED
  BY <1>3, <1>4

-----------------------------------------------------------------------------
(* Creating a connection *)

\* The next connection is new, of page p, with the role and the remote.
Creates(p, new) ==
  /\ new \in Connection
  /\ new.owner = p
  /\ new.signaling = "stable"
  /\ new.state = "new"
  /\ DOMAIN pcs' = DOMAIN pcs \cup {Len(pcs) + 1}
  /\ pcs'[Len(pcs) + 1] = new
  /\ Len(pcs) + 1 \notin DOMAIN pcs
  /\ Len(pcs) + 1 \in Nat \ {0}
  /\ \A k \in DOMAIN pcs : k < Len(pcs) + 1 /\ pcs'[k] = pcs[k]
  /\ \A q \in Peer : connection'[q] = IF q = p THEN Len(pcs) + 1 ELSE connection[q]
  /\ UNCHANGED <<online, cleaning, drops>>
  /\ \A q \in Peer, m \in Message : In(q, m)' => In(q, m)

\* The new connection is not yet known to any other.
LEMMA RolesAdded ==
  ASSUME Types, Roles, NEW p \in Peer, NEW new, Creates(p, new),
         IF new.role = "offer"
         THEN new.task # "apply" /\ new.remote = 0
         ELSE /\ new.remote \in DOMAIN pcs
              /\ pcs[new.remote].role = "offer"
              /\ pcs[new.remote].owner = Other(p)
  PROVE  Roles'
<1>1. ASSUME NEW k \in DOMAIN pcs, pcs[k].role = "offer"
      PROVE  Asks(k)'
  BY <1>1 DEF Roles, Creates, Asks
<1>2. ASSUME NEW k \in DOMAIN pcs, pcs[k].role # "offer"
      PROVE  Answers(k)'
  BY <1>2 DEF Roles, Creates, Answers
<1>0. PICK n : n = Len(pcs) + 1
  OBVIOUS
<1>3. IF new.role = "offer" THEN Asks(n)' ELSE Answers(n)'
  <2>1. CASE new.role = "offer"
    BY <1>0, <2>1 DEF Creates, Asks
  <2>2. CASE new.role # "offer"
    BY <1>0, <2>2 DEF Creates, Answers
  <2> QED
    BY <2>1, <2>2
<1>4. \A q \in Peer, m \in Message : In(q, m)' /\ m.type \in {"offer", "answer"} =>
        /\ m.from \in DOMAIN pcs'
        /\ pcs'[m.from].owner = Other(q)
        /\ pcs'[m.from].role = m.type
  BY DEF Roles, Creates
<1>5. \A k \in DOMAIN pcs' : IF pcs'[k].role = "offer" THEN Asks(k)' ELSE Answers(k)'
  BY <1>0, <1>1, <1>2, <1>3 DEF Creates
<1> QED
  BY <1>4, <1>5 DEF Roles

LEMMA MetAdded ==
  ASSUME Types, Roles, Met, NEW p \in Peer, NEW new, Creates(p, new),
         new.role = "offer" => new.remote = 0
  PROVE  Met'
<1> SUFFICES ASSUME NEW k \in DOMAIN pcs', pcs'[k].role = "offer", pcs'[k].remote # 0
             PROVE  pcs'[pcs'[k].remote].remote = k
  BY DEF Met
<1>1. k \in DOMAIN pcs /\ pcs'[k] = pcs[k]
  BY DEF Creates
<1>2. pcs[k].remote \in DOMAIN pcs /\ pcs[pcs[k].remote].remote = k
  BY <1>1 DEF Roles, Asks, Met
<1> QED
  BY <1>1, <1>2 DEF Creates

LEMMA UndisturbedAdded ==
  ASSUME Types, Undisturbed, NEW p \in Peer, NEW new, Creates(p, new)
  PROVE  Undisturbed'
<1>1. ASSUME NEW k \in DOMAIN pcs
      PROVE  ~ Closed(k)' /\ k <= connection'[pcs'[k].owner]
  <2>1. pcs'[k] = pcs[k] /\ k < Len(pcs) + 1 /\ pcs[k].owner \in Peer
    BY Ids DEF Creates, Types
  <2>2. k \in Nat /\ Len(pcs) \in Nat
    BY Ids DEF Types, TypeOK
  <2> QED
    BY <2>1, <2>2 DEF Undisturbed, Creates, Closed
<1>0. PICK n : n = Len(pcs) + 1
  OBVIOUS
<1>2. ~ Closed(n)' /\ n <= connection'[pcs'[n].owner]
  BY <1>0 DEF Creates, Closed
<1>3. \A k \in DOMAIN pcs' : ~ Closed(k)' /\ k <= connection'[pcs'[k].owner]
  BY <1>0, <1>1, <1>2 DEF Creates
<1>4. /\ online' = Peer /\ cleaning' = {}
      /\ \A q \in Peer, m \in Message : In(q, m)' => m.type \notin {"peer-left", "peer-joined"}
  BY DEF Undisturbed, Creates
<1> QED
  BY <1>3, <1>4 DEF Undisturbed

\* An offer is live afterwards if it was before, or is the new one, or the new
\* connection answers it.
LEMMA LiveAdded ==
  ASSUME Types, NEW p \in Peer, NEW new, Creates(p, new),
         NEW i \in DOMAIN pcs, Live(i)', new.role = "answer" => new.remote # i
  PROVE  Live(i)
<1>1. pcs'[i] = pcs[i] /\ i \in Id /\ pcs[i].owner \in Peer /\ Other(pcs[i].owner) \in Peer
  BY Ids, OtherIsPeer DEF Creates, Types
<1>2. In(Other(pcs[i].owner), [type |-> "offer", from |-> i])'
        => In(Other(pcs[i].owner), [type |-> "offer", from |-> i])
  BY <1>1, MessageTypes DEF Creates
<1>3. ASSUME NEW j \in DOMAIN pcs', pcs'[j].role = "answer", pcs'[j].remote = i,
             pcs'[j].task # "none" \/ In(pcs[i].owner, [type |-> "answer", from |-> j])'
      PROVE  \E l \in DOMAIN pcs :
               /\ pcs[l].role = "answer"
               /\ pcs[l].remote = i
               /\ \/ pcs[l].task # "none"
                  \/ In(pcs[i].owner, [type |-> "answer", from |-> l])
  <2>1. j \in DOMAIN pcs /\ pcs'[j] = pcs[j]
    BY <1>3 DEF Creates
  <2>2. j \in Id
    BY <2>1, Ids DEF Types
  <2>3. In(pcs[i].owner, [type |-> "answer", from |-> j])'
          => In(pcs[i].owner, [type |-> "answer", from |-> j])
    BY <1>1, <2>2, MessageTypes DEF Creates
  <2> QED
    BY <1>3, <2>1, <2>3
<1> QED
  BY <1>1, <1>2, <1>3 DEF Live

LEMMA OneOfferAdded ==
  ASSUME Types, Undisturbed, OneOffer, NEW p \in Peer, NEW new, Creates(p, new),
         new.role = "offer" =>
           \A i \in DOMAIN pcs : Live(i) => pcs[i].owner # p,
         new.role = "answer" => new.remote \in DOMAIN pcs /\ Live(new.remote)
  PROVE  OneOffer'
<1>0. Len(pcs) \in Nat /\ new.role \in {"offer", "answer"}
  BY DEF Types, TypeOK, Creates, Connection
<1>1. ASSUME NEW i \in DOMAIN pcs, Live(i)'
      PROVE  /\ \A k \in DOMAIN pcs' : pcs'[k].owner = pcs'[i].owner /\ k > i =>
                  pcs'[k].role = "answer"
             /\ pcs'[connection'[pcs'[i].owner]].state # "failed"
  <2>1. Live(i) /\ pcs'[i] = pcs[i] /\ pcs[i].owner \in Peer
    <3>1. CASE new.role = "answer" /\ new.remote = i
      BY <3>1, Ids DEF Creates, Types
    <3>2. CASE ~ (new.role = "answer" /\ new.remote = i)
      BY <1>1, <3>2, LiveAdded, Ids DEF Creates, Types
    <3> QED
      BY <3>1, <3>2
  <2>2. \A k \in DOMAIN pcs : pcs[k].owner = pcs[i].owner /\ k > i => pcs[k].role = "answer"
    BY <2>1 DEF OneOffer
  <2>3. pcs[i].owner = p => new.role = "answer"
    BY <1>0, <2>1
  <2>4. \A k \in DOMAIN pcs' : pcs'[k].owner = pcs'[i].owner /\ k > i =>
          pcs'[k].role = "answer"
    BY <2>1, <2>2, <2>3 DEF Creates
  <2>5. CASE pcs[i].owner = p
    BY <2>1, <2>4, <2>5 DEF Creates
  <2>6. CASE pcs[i].owner # p
    <3>1. connection[pcs[i].owner] \in DOMAIN pcs
      BY <2>1, Ids DEF Undisturbed, Types, Named
    <3>2. pcs[connection[pcs[i].owner]].state # "failed"
      BY <2>1 DEF OneOffer
    <3> QED
      BY <2>1, <2>4, <2>6, <3>1, <3>2 DEF Creates
  <2> QED
    BY <2>5, <2>6
<1>2. /\ \A k \in DOMAIN pcs' : k <= Len(pcs) + 1
      /\ pcs'[connection'[pcs'[Len(pcs) + 1].owner]].state # "failed"
  BY <1>0, Ids DEF Creates, Types
<1>3. \A k \in DOMAIN pcs' : ~ (k > Len(pcs) + 1)
  BY <1>0, Ids DEF Creates, Types
<1> QED
  BY <1>1, <1>2, <1>3 DEF OneOffer, Creates

LEMMA CreateSteps ==
  ASSUME Types, NEW p \in Peer, NEW role \in {"offer", "answer"}, NEW remote \in IdOrNone,
         createPeerConnection(p, role, remote), UNCHANGED <<online, cleaning, drops>>,
         \A q \in Peer, m \in Message : In(q, m)' => In(q, m)
  PROVE  Creates(p, New(p, role, remote))
<1>0. TypeOK /\ Len(pcs) \in Nat
  BY DEF Types, TypeOK
<1>1. /\ pcs' = Append(pcs, New(p, role, remote))
      /\ connection' = [connection EXCEPT ![p] = Len(pcs) + 1]
  BY DEF createPeerConnection
<1>2. \A q \in Peer : connection'[q] = IF q = p THEN Len(pcs) + 1 ELSE connection[q]
  BY <1>0, <1>1 DEF TypeOK
<1>3. /\ DOMAIN pcs' = DOMAIN pcs \cup {Len(pcs) + 1}
      /\ pcs'[Len(pcs) + 1] = New(p, role, remote)
      /\ Len(pcs) + 1 \notin DOMAIN pcs
      /\ \A k \in DOMAIN pcs : k <= Len(pcs) /\ pcs'[k] = pcs[k]
  BY <1>0, <1>1, NewCell, ConnectionAdded
<1>4. \A k \in DOMAIN pcs : k < Len(pcs) + 1
  BY <1>0, <1>3, Ids
<1> QED
  BY <1>0, <1>2, <1>3, <1>4, NewCell DEF Creates

LEMMA ClickStep ==
  ASSUME Inv, NEW p \in Peer, Click(p)
  PROVE  Inv'
<1>0. Types /\ Roles /\ 0 \in IdOrNone
  BY BoundsAssumption DEF Inv, IdOrNone
<1>1. PICK new : /\ Creates(p, new) /\ new.role = "offer" /\ new.remote = 0
                 /\ new.task = "create"
  <2>1. createPeerConnection(p, "offer", 0) /\ UNCHANGED <<online, cleaning, drops, mail>>
    BY DEF Click, server
  <2>2. \A q \in Peer, m \in Message : In(q, m)' => In(q, m)
    BY <2>1 DEF In
  <2> QED
    BY <1>0, <2>1, <2>2, CreateSteps, NewCell
<1>2. Types' /\ Roles'
  BY <1>0, <1>1, ClickTypes, RolesAdded
<1>3. ASSUME drops' = 0
      PROVE  (Undisturbed /\ OneOffer /\ Met)'
  <2>1. drops = 0 /\ Undisturbed /\ OneOffer /\ Met
    BY <1>1, <1>3 DEF Creates, Inv
  <2>2. ASSUME NEW i \in DOMAIN pcs, Live(i), pcs[i].owner = p
        PROVE  FALSE
    <3>1. i <= connection[p] /\ i \in Nat \ {0}
      BY <1>0, <2>1, <2>2, Ids DEF Undisturbed, Types
    <3>2. connection[p] # 0
      BY <3>1
    <3>3. pcs[connection[p]].state = "failed"
      BY <3>2 DEF Click, Clickable, MayConnect
    <3> QED
      BY <2>1, <2>2, <3>3 DEF OneOffer
  <2> QED
    BY <1>0, <1>1, <2>1, <2>2, UndisturbedAdded, OneOfferAdded, MetAdded
<1> QED
  BY <1>2, <1>3 DEF Inv

LEMMA HandleOfferStep ==
  ASSUME Inv, NEW p \in Peer, HandleOffer(p)
  PROVE  Inv'
<1>0. Types /\ TypeOK /\ Roles
  BY DEF Inv, Types
<1>1. /\ mail[p] # <<>> /\ Head(mail[p]).type = "offer" /\ mail' = Taken(p)
      /\ createPeerConnection(p, "answer", Head(mail[p]).from)
      /\ UNCHANGED <<online, cleaning, drops>>
  BY DEF HandleOffer, Receives, server
<1>2. PICK m \in Message : m = Head(mail[p]) /\ In(p, m) /\ m.type = "offer"
                           /\ m.from \in Id /\ m = [type |-> "offer", from |-> m.from]
  BY <1>0, <1>1, HeadIn, MessageTypes
<1>3. /\ m.from \in DOMAIN pcs /\ m.from \in IdOrNone
      /\ pcs[m.from].role = "offer" /\ pcs[m.from].owner = Other(p)
  BY <1>0, <1>2, BoundsAssumption DEF Roles, Id, IdOrNone
<1>4. Live(m.from)
  BY <1>2, <1>3, OtherIsPeer DEF Live
<1>5. PICK new : Creates(p, new) /\ new.role = "answer" /\ new.remote = m.from
  <2>1. \A q \in Peer, n \in Message : In(q, n)' => In(q, n)
    BY <1>0, <1>1, TailIn
  <2> QED
    BY <1>0, <1>1, <1>2, <1>3, <2>1, CreateSteps, NewCell
<1>6. Types' /\ Roles'
  BY <1>0, <1>3, <1>5, HandleOfferTypes, RolesAdded
<1>7. ASSUME drops' = 0
      PROVE  (Undisturbed /\ OneOffer /\ Met)'
  <2>1. Undisturbed /\ OneOffer /\ Met
    BY <1>5, <1>7 DEF Creates, Inv
  <2> QED
    BY <1>0, <1>3, <1>4, <1>5, <2>1, UndisturbedAdded, OneOfferAdded, MetAdded
<1> QED
  BY <1>6, <1>7 DEF Inv

-----------------------------------------------------------------------------
LEMMA InitInv == Init => Inv
<1> SUFFICES ASSUME Init PROVE Inv
  OBVIOUS
<1>1. pcs = <<>> /\ DOMAIN pcs = {} /\ pcs \in Seq(Connection) /\ Len(pcs) = 0
  BY DEF Init
<1>2. mail \in [Peer -> Seq(Message)] /\ \A p \in Peer : DOMAIN mail[p] = {}
  BY DEF Init
<1>3. 0 \in IdOrNone
  BY BoundsAssumption DEF IdOrNone
<1>4. Types
  <2>1. pcs \in Seq(Connection) /\ Len(pcs) <= MaxConnections
    BY <1>1, BoundsAssumption
  <2>2. /\ connection \in [Peer -> IdOrNone] /\ dataChannel \in [Peer -> IdOrNone]
        /\ networkState \in [Peer -> {"discovered", "connecting", "connected", "failed"}]
        /\ pending \in [Peer -> SUBSET Id]
    BY <1>3 DEF Init
  <2>3. drops \in 0 .. MaxDrops /\ breaks \in 0 .. MaxBreaks
    BY BoundsAssumption DEF Init
  <2>4. /\ discovered \in SUBSET Peer /\ cleaning \in SUBSET Peer /\ online \in SUBSET Peer
        /\ noticed \in SUBSET Peer /\ lost \in BOOLEAN
    BY DEF Init
  <2>5. Named
    BY DEF Init, Named
  <2> QED
    BY <1>2, <2>1, <2>2, <2>3, <2>4, <2>5 DEF Types, TypeOK
<1>5. \A p \in Peer, m \in Message : ~ In(p, m)
  BY <1>2 DEF In
<1>6. Roles /\ Undisturbed /\ OneOffer /\ Met
  BY <1>1, <1>5 DEF Init, Roles, Undisturbed, OneOffer, Met
<1> QED
  BY <1>4, <1>6 DEF Inv

LEMMA NextInv == Inv /\ [Next]_vars => Inv'
<1> SUFFICES ASSUME Inv, [Next]_vars PROVE Inv'
  OBVIOUS
<1>0. Types /\ Roles /\ Types'
  BY NextTypes DEF Inv
<1>1. CASE UNCHANGED vars
  <2>1. UNCHANGED <<pcs, online, cleaning, connection, mail, drops>>
    BY <1>1 DEF vars, record, server
  <2>2. GoesOn /\ Peaceful
    BY <1>0, <2>1, NoCell, NoMail DEF Peaceful
  <2> QED
    BY <1>0, <2>1, <2>2, InvKept
<1>2. ASSUME NEW i \in DOMAIN pcs, NEW throws \in BOOLEAN,
             \/ SendOffer(i) \/ ApplyOffer(i, throws) \/ SendAnswer(i)
             \/ Gather(i) \/ Connected(i) \/ Failed(i)
      PROVE  Inv'
  BY <1>0, <1>2, ConnectionSteps, InvKept
<1>3. ASSUME NEW p \in Peer, \/ Drop(p) \/ Notice(p) \/ Rejoin(p)
                             \/ HandleCandidate(p) \/ HandlePeerLeft(p) \/ HandlePeerJoined(p)
                             \/ FinishCleanup(p) \/ HandleAnswer(p)
      PROVE  Inv'
  BY <1>0, <1>3, ServerSteps, MessageSteps, FinishCleanupStep, HandleAnswerStep, InvKept
<1>4. \A i \in DOMAIN pcs : SendOffer(i) \/ SendAnswer(i) \/ Gather(i) \/ Connected(i)
                              \/ Failed(i) => Inv'
  <2>1. TRUE \in BOOLEAN
    OBVIOUS
  <2> QED
    BY <1>2, <2>1
<1> QED
  BY <1>1, <1>2, <1>3, <1>4, ClickStep, HandleOfferStep DEF Next

LEMMA Invariance == Spec => []Inv
BY InitInv, NextInv, PTL DEF Spec

LEMMA InvAnswers == Inv => AnswerMeetsItsOffer
<1> SUFFICES ASSUME Inv, drops = 0, NEW i \in DOMAIN pcs, pcs[i].remote # 0
             PROVE  /\ pcs[i].role # pcs[pcs[i].remote].role
                    /\ pcs[i].role = "offer" => pcs[pcs[i].remote].remote = i
  BY DEF AnswerMeetsItsOffer
<1>1. pcs[i].role \in {"offer", "answer"}
  BY Ids DEF Inv, Types, Connection
<1> QED
  BY <1>1 DEF Inv, Roles, Asks, Answers, Met

\* peerConnection.js, signaling.js, state.js: the connections, the records of the
\* pages and the messages between them have their types.
THEOREM TypeCorrect == Spec => []TypeOK
<1>1. Inv => TypeOK
  BY DEF Inv, Types
<1> QED
  BY <1>1, Invariance, PTL

\* signaling.js:96: an answer is applied to whichever connection the record names
\* when it arrives.  For any number of connections, that is the one whose offer it
\* answers, as long as no page lost the signaling server.
THEOREM AnswersMeetOffers == Spec => []AnswerMeetsItsOffer
BY Invariance, InvAnswers, PTL

-----------------------------------------------------------------------------
(* The other properties: what a step does, field by field *)

\* Connection k is given an answer while its record names it.
IsTold(k) ==
  /\ connection[pcs[k].owner] = k
  /\ pcs[k].role = "offer"
  /\ ~ Closed(k)
  /\ pcs'[k].remote \in DOMAIN pcs
  /\ pcs[pcs'[k].remote].role = "answer"

ComesUp(k) ==
  /\ pcs[k].state = "new"
  /\ Works(k)
  /\ pcs[k].role = "answer" => dataChannel'[pcs[k].owner] = k

\* A step that neither creates a connection nor closes one.
Stays ==
  /\ DOMAIN pcs' = DOMAIN pcs
  /\ connection' = connection
  /\ \A k \in DOMAIN pcs :
       /\ pcs'[k].owner = pcs[k].owner /\ pcs'[k].role = pcs[k].role
       /\ pcs'[k].shut = pcs[k].shut
       /\ pcs'[k].signaling = "closed" <=> Closed(k)
       /\ pcs'[k].task # "none" => pcs[k].task # "none"
       /\ pcs'[k].remote = pcs[k].remote \/ IsTold(k)
       /\ pcs'[k].state # "failed" => pcs[k].state # "failed"
       /\ pcs'[k].state \in {pcs[k].state, "failed"} \/ ComesUp(k)
       /\ pcs[k].role = "offer" /\ Negotiated(k)' => Negotiated(k) \/ pcs'[k].remote # 0
  /\ \A p \in Peer : dataChannel'[p] # dataChannel[p] =>
       /\ dataChannel'[p] \in DOMAIN pcs
       /\ pcs[dataChannel'[p]].owner = p
       /\ pcs[dataChannel'[p]].role = "answer"
       /\ ComesUp(dataChannel'[p])

\* Of the connections none but i changes, and i keeps its page and its channel end.
Alters(i) ==
  /\ DOMAIN pcs' = DOMAIN pcs
  /\ \A k \in DOMAIN pcs : k # i => pcs'[k] = pcs[k]
  /\ pcs'[i].owner = pcs[i].owner /\ pcs'[i].role = pcs[i].role
  /\ pcs'[i].shut = pcs[i].shut

LEMMA SendOfferAlters ==
  ASSUME TypeOK, NEW i \in DOMAIN pcs, SendOffer(i)
  PROVE  /\ Alters(i)
         /\ pcs'[i].task = "none"
         /\ pcs'[i].signaling = IF Closed(i) THEN "closed" ELSE "have-local-offer"
         /\ pcs'[i].remote = pcs[i].remote /\ pcs'[i].state = pcs[i].state
<1>1. CASE Closed(i)
  <2>1. PICK cell \in Connection : cell = [pcs[i] EXCEPT !.task = "none"]
    BY Ids DEF Connection
  <2>2. pcs' = [pcs EXCEPT ![i] = cell]
    BY <1>1, <2>1 DEF SendOffer
  <2> QED
    BY <1>1, <2>1, <2>2, CellSet, Ids DEF Becomes, Alters, Connection, Closed
<1>2. CASE ~ Closed(i)
  <2>1. PICK cell \in Connection :
          cell = [pcs[i] EXCEPT !.task = "none", !.signaling = "have-local-offer"]
    BY Ids DEF Connection
  <2>2. pcs' = [pcs EXCEPT ![i] = cell]
    BY <1>2, <2>1 DEF SendOffer
  <2> QED
    BY <1>2, <2>1, <2>2, CellSet, Ids DEF Becomes, Alters, Connection
<1> QED
  BY <1>1, <1>2

LEMMA ApplyOfferAlters ==
  ASSUME TypeOK, NEW i \in DOMAIN pcs, NEW throws \in BOOLEAN, ApplyOffer(i, throws)
  PROVE  /\ Alters(i)
         /\ pcs'[i].task = IF Closed(i) \/ throws THEN "none" ELSE "create"
         /\ pcs'[i].signaling = IF Closed(i) THEN "closed" ELSE "have-remote-offer"
         /\ pcs'[i].remote = pcs[i].remote /\ pcs'[i].state = pcs[i].state
<1>1. PICK task \in {"none", "create"}, signaling \in {"closed", "have-remote-offer"} :
        /\ task = IF Closed(i) \/ throws THEN "none" ELSE "create"
        /\ signaling = IF Closed(i) THEN "closed" ELSE "have-remote-offer"
  OBVIOUS
<1>2. pcs' = [pcs EXCEPT ![i].task = task, ![i].signaling = signaling]
  BY <1>1 DEF ApplyOffer, Closed
<1>3. PICK cell \in Connection :
        cell = [pcs[i] EXCEPT !.task = task, !.signaling = signaling]
  BY Ids DEF Connection
<1>4. pcs' = [pcs EXCEPT ![i] = cell]
  BY <1>2, <1>3
<1>5. /\ cell.owner = pcs[i].owner /\ cell.role = pcs[i].role /\ cell.task = task
      /\ cell.signaling = signaling /\ cell.remote = pcs[i].remote
      /\ cell.state = pcs[i].state /\ cell.shut = pcs[i].shut
  BY <1>3, Ids DEF Connection
<1>6. Alters(i) /\ pcs'[i] = cell
  BY <1>4, <1>5, CellSet DEF Becomes, Alters
<1> QED
  BY <1>1, <1>5, <1>6

LEMMA SendAnswerAlters ==
  ASSUME TypeOK, NEW i \in DOMAIN pcs, SendAnswer(i)
  PROVE  /\ Alters(i)
         /\ pcs'[i].task = "none"
         /\ pcs'[i].signaling = IF Closed(i) THEN "closed" ELSE "stable"
         /\ pcs'[i].remote = pcs[i].remote /\ pcs'[i].state = pcs[i].state
<1>1. CASE Closed(i)
  <2>1. PICK cell \in Connection : cell = [pcs[i] EXCEPT !.task = "none"]
    BY Ids DEF Connection
  <2>2. pcs' = [pcs EXCEPT ![i] = cell]
    BY <1>1, <2>1 DEF SendAnswer
  <2> QED
    BY <1>1, <2>1, <2>2, CellSet, Ids DEF Becomes, Alters, Connection, Closed
<1>2. CASE ~ Closed(i)
  <2>1. PICK cell \in Connection :
          cell = [pcs[i] EXCEPT !.task = "none", !.signaling = "stable"]
    BY Ids DEF Connection
  <2>2. pcs' = [pcs EXCEPT ![i] = cell]
    BY <1>2, <2>1 DEF SendAnswer
  <2> QED
    BY <1>2, <2>1, <2>2, CellSet, Ids DEF Becomes, Alters, Connection
<1> QED
  BY <1>1, <1>2

LEMMA GatherAlters ==
  ASSUME TypeOK, NEW i \in DOMAIN pcs, Gather(i)
  PROVE  /\ Alters(i)
         /\ pcs'[i].task = pcs[i].task /\ pcs'[i].signaling = pcs[i].signaling
         /\ pcs'[i].remote = pcs[i].remote /\ pcs'[i].state = pcs[i].state
<1>1. PICK cell \in Connection : cell = [pcs[i] EXCEPT !.gathered = TRUE]
  BY Ids DEF Connection
<1>2. pcs' = [pcs EXCEPT ![i] = cell]
  BY <1>1 DEF Gather
<1> QED
  BY <1>1, <1>2, CellSet, Ids DEF Becomes, Alters, Connection

LEMMA StateAlters ==
  ASSUME TypeOK, NEW i \in DOMAIN pcs, NEW state \in {"connected", "failed"},
         pcs' = [pcs EXCEPT ![i].state = state]
  PROVE  /\ Alters(i)
         /\ pcs'[i].task = pcs[i].task /\ pcs'[i].signaling = pcs[i].signaling
         /\ pcs'[i].remote = pcs[i].remote /\ pcs'[i].state = state
<1>1. PICK cell \in Connection : cell = [pcs[i] EXCEPT !.state = state]
  BY Ids DEF Connection
<1>2. pcs' = [pcs EXCEPT ![i] = cell]
  BY <1>1
<1>3. /\ cell.owner = pcs[i].owner /\ cell.role = pcs[i].role /\ cell.task = pcs[i].task
      /\ cell.signaling = pcs[i].signaling /\ cell.remote = pcs[i].remote
      /\ cell.state = state /\ cell.shut = pcs[i].shut
  BY <1>1, Ids DEF Connection
<1>4. Alters(i) /\ pcs'[i] = cell
  BY <1>2, <1>3, CellSet DEF Becomes, Alters
<1> QED
  BY <1>3, <1>4

\* The answer of r reaches page p.
LEMMA HandleAnswerAlters ==
  ASSUME Types, Roles, NEW p \in Peer, HandleAnswer(p), Awaits(connection[p])
  PROVE  LET c == connection[p]
             r == Head(mail[p]).from
         IN
         /\ c \in DOMAIN pcs /\ pcs[c].owner = p /\ pcs[c].role = "offer"
         /\ pcs[c].signaling = "have-local-offer"
         /\ r \in DOMAIN pcs /\ pcs[r].owner = Other(p) /\ pcs[r].role = "answer"
         /\ r \in Nat \ {0}
         /\ Alters(c)
         /\ pcs'[c].task = pcs[c].task /\ pcs'[c].signaling = "stable"
         /\ pcs'[c].remote = r /\ pcs'[c].state = pcs[c].state
<1>0. TypeOK
  BY DEF Types
<1>1. PICK c \in DOMAIN pcs : c = connection[p] /\ pcs[c].owner = p
                              /\ pcs[c].signaling = "have-local-offer"
  BY DEF Awaits, Types, Named
<1>2. PICK m \in Message : m = Head(mail[p]) /\ In(p, m) /\ m.type = "answer"
  BY <1>0, HeadIn DEF HandleAnswer, Receives
<1>3. /\ m.from \in DOMAIN pcs /\ m.from \in Id
      /\ pcs[m.from].role = "answer" /\ pcs[m.from].owner = Other(p)
  BY <1>2, MessageTypes DEF Roles
<1>4. pcs[c].role = "offer"
  BY <1>0, <1>1, Ids DEF Roles, Answers, Connection
<1>5. m.from \in IdOrNone /\ m.from \in Nat \ {0}
  BY <1>3, BoundsAssumption DEF Id, IdOrNone
<1>6. PICK cell \in Connection : cell = [pcs[c] EXCEPT !.remote = m.from, !.signaling = "stable"]
  BY <1>0, <1>5, Ids DEF Connection
<1>7. pcs' = [pcs EXCEPT ![c] = cell]
  BY <1>1, <1>2, <1>6 DEF HandleAnswer
<1>8. Alters(c) /\ pcs'[c].task = pcs[c].task /\ pcs'[c].signaling = "stable"
      /\ pcs'[c].remote = m.from /\ pcs'[c].state = pcs[c].state
  BY <1>0, <1>6, <1>7, CellSet, Ids DEF Becomes, Alters, Connection
<1> QED
  BY <1>1, <1>2, <1>3, <1>4, <1>5, <1>8

\* Page p closes what its record names.
Leaves(p) ==
  /\ DOMAIN pcs' = DOMAIN pcs
  /\ \A k \in DOMAIN pcs :
       /\ pcs'[k].owner = pcs[k].owner /\ pcs'[k].role = pcs[k].role
       /\ pcs'[k].task = pcs[k].task /\ pcs'[k].remote = pcs[k].remote
       /\ pcs'[k].state = pcs[k].state
       /\ pcs'[k].signaling = IF k = connection[p] THEN "closed" ELSE pcs[k].signaling
       /\ pcs'[k].shut = (pcs[k].shut \/ k = dataChannel[p])
  /\ \A q \in Peer : connection'[q] = IF q = p THEN 0 ELSE connection[q]
  /\ \A q \in Peer : dataChannel'[q] = IF q = p THEN 0 ELSE dataChannel[q]

LEMMA CloseLeaves ==
  ASSUME TypeOK, NEW p \in Peer, CloseAndDelete(p)
  PROVE  Leaves(p)
<1>1. ASSUME NEW k \in DOMAIN pcs
      PROVE  /\ pcs'[k].owner = pcs[k].owner /\ pcs'[k].role = pcs[k].role
             /\ pcs'[k].task = pcs[k].task /\ pcs'[k].remote = pcs[k].remote
             /\ pcs'[k].state = pcs[k].state
             /\ pcs'[k].signaling = IF k = connection[p] THEN "closed" ELSE pcs[k].signaling
             /\ pcs'[k].shut = (pcs[k].shut \/ k = dataChannel[p])
  <2>1. PICK signaling, shut :
          /\ signaling = IF k = connection[p] THEN "closed" ELSE pcs[k].signaling
          /\ shut = (pcs[k].shut \/ k = dataChannel[p])
    OBVIOUS
  <2>2. pcs'[k] = [pcs[k] EXCEPT !.signaling = signaling, !.shut = shut]
    BY <2>1 DEF CloseAndDelete
  <2> QED
    BY <2>1, <2>2, Ids DEF Connection
<1>2. DOMAIN pcs' = DOMAIN pcs
  BY Zenon DEF CloseAndDelete
<1>3. \A q \in Peer : /\ connection'[q] = IF q = p THEN 0 ELSE connection[q]
                      /\ dataChannel'[q] = IF q = p THEN 0 ELSE dataChannel[q]
  BY DEF CloseAndDelete, TypeOK
<1> QED
  BY <1>1, <1>2, <1>3 DEF Leaves

\* Page p adds a connection: it offers, or it answers the first of its messages.
Adds(p, new) ==
  /\ Creates(p, new)
  /\ ~ new.shut
  /\ lost' = lost
  /\ IF new.role = "offer"
     THEN /\ MayConnect(p)
          /\ new.task = "create" /\ new.remote = 0
          /\ mail' = mail
          /\ \A q \in Peer : dataChannel'[q] = IF q = p THEN Len(pcs) + 1 ELSE dataChannel[q]
     ELSE /\ new.task = "apply"
          /\ new.remote \in DOMAIN pcs
          /\ pcs[new.remote].role = "offer"
          /\ pcs[new.remote].owner = Other(p)
          /\ mail[p] # <<>>
          /\ Head(mail[p]) = [type |-> "offer", from |-> new.remote]
          /\ mail' = Taken(p)
          /\ dataChannel' = dataChannel

LEMMA ClickAdds ==
  ASSUME Types, NEW p \in Peer, Click(p)
  PROVE  \E new : Adds(p, new)
<1>0. TypeOK /\ 0 \in IdOrNone
  BY BoundsAssumption DEF Types, IdOrNone
<1>1. /\ createPeerConnection(p, "offer", 0) /\ UNCHANGED <<online, cleaning, drops, mail, lost>>
      /\ MayConnect(p)
  BY DEF Click, Clickable, server
<1>2. \A q \in Peer, m \in Message : In(q, m)' => In(q, m)
  BY <1>1 DEF In
<1>3. PICK new : new = New(p, "offer", 0)
  OBVIOUS
<1>4. Creates(p, new)
  BY <1>0, <1>1, <1>2, <1>3, CreateSteps
<1>5. ~ new.shut
  BY <1>3 DEF New
<1>6. new.role = "offer" /\ new.task = "create" /\ new.remote = 0
  BY <1>0, <1>3, NewCell
<1>7. \A q \in Peer : dataChannel'[q] = IF q = p THEN Len(pcs) + 1 ELSE dataChannel[q]
  BY <1>0 DEF Click, TypeOK
<1> QED
  BY <1>1, <1>4, <1>5, <1>6, <1>7 DEF Adds

LEMMA HandleOfferAdds ==
  ASSUME Types, Roles, NEW p \in Peer, HandleOffer(p)
  PROVE  \E new : Adds(p, new)
<1>0. TypeOK
  BY DEF Types
<1>1. /\ mail[p] # <<>> /\ Head(mail[p]).type = "offer" /\ mail' = Taken(p)
      /\ createPeerConnection(p, "answer", Head(mail[p]).from)
      /\ UNCHANGED <<online, cleaning, drops, lost, dataChannel>>
  BY DEF HandleOffer, Receives, server
<1>2. PICK m \in Message : m = Head(mail[p]) /\ In(p, m) /\ m.type = "offer"
                           /\ m.from \in Id /\ m = [type |-> "offer", from |-> m.from]
  BY <1>0, <1>1, HeadIn, MessageTypes
<1>3. /\ m.from \in DOMAIN pcs /\ m.from \in IdOrNone
      /\ pcs[m.from].role = "offer" /\ pcs[m.from].owner = Other(p)
  BY <1>2, BoundsAssumption DEF Roles, Id, IdOrNone
<1>4. \A q \in Peer, n \in Message : In(q, n)' => In(q, n)
  BY <1>0, <1>1, TailIn
<1>5. PICK new : new = New(p, "answer", m.from)
  OBVIOUS
<1>6. Creates(p, new)
  BY <1>1, <1>2, <1>3, <1>4, <1>5, CreateSteps
<1>7. ~ new.shut
  BY <1>5 DEF New
<1>8. new.role = "answer" /\ new.task = "apply" /\ new.remote = m.from
  BY <1>3, <1>5, NewCell
<1> QED
  BY <1>1, <1>2, <1>3, <1>6, <1>7, <1>8 DEF Adds

LEMMA SameStays ==
  ASSUME UNCHANGED <<pcs, connection, dataChannel>>
  PROVE  Stays
BY DEF Stays, Closed, Negotiated

\* An alteration of one connection that is not told and does not come up.
LEMMA AltersStays ==
  ASSUME NEW i \in DOMAIN pcs, Alters(i), UNCHANGED <<connection, dataChannel>>,
         pcs'[i].signaling = "closed" <=> Closed(i),
         pcs'[i].task # "none" => pcs[i].task # "none",
         pcs'[i].remote = pcs[i].remote,
         pcs'[i].state \in {pcs[i].state, "failed"},
         pcs[i].role = "offer" /\ Negotiated(i)' => Negotiated(i)
  PROVE  Stays
BY DEF Stays, Alters, Closed, Negotiated

LEMMA ConnectionStays ==
  ASSUME Types, Roles, NEW i \in DOMAIN pcs, NEW throws \in BOOLEAN,
         \/ SendOffer(i) \/ ApplyOffer(i, throws) \/ SendAnswer(i)
         \/ Gather(i) \/ Failed(i)
  PROVE  Stays
<1>0. TypeOK /\ UNCHANGED <<connection, dataChannel>>
  BY DEF Types, SendOffer, ApplyOffer, SendAnswer, Gather, Failed, record
<1>1. CASE SendOffer(i)
  <2>1. /\ Alters(i) /\ pcs[i].task = "create" /\ pcs'[i].task = "none"
        /\ pcs'[i].signaling = IF Closed(i) THEN "closed" ELSE "have-local-offer"
        /\ pcs'[i].remote = pcs[i].remote /\ pcs'[i].state = pcs[i].state
    BY <1>0, <1>1, SendOfferAlters DEF SendOffer
  <2>2. (pcs'[i].signaling = "closed" <=> Closed(i)) /\ ~ Negotiated(i)'
    BY <2>1 DEF Negotiated
  <2> QED
    BY <1>0, <2>1, <2>2, AltersStays
<1>2. CASE ApplyOffer(i, throws)
  <2>1. /\ Alters(i) /\ pcs'[i].signaling = IF Closed(i) THEN "closed" ELSE "have-remote-offer"
        /\ pcs'[i].remote = pcs[i].remote /\ pcs'[i].state = pcs[i].state
    BY <1>0, <1>2, ApplyOfferAlters
  <2>2. pcs[i].task = "apply"
    BY <1>2 DEF ApplyOffer
  <2>3. (pcs'[i].signaling = "closed" <=> Closed(i)) /\ ~ Negotiated(i)'
    BY <2>1 DEF Negotiated
  <2> QED
    BY <1>0, <2>1, <2>2, <2>3, AltersStays
<1>3. CASE SendAnswer(i)
  <2>1. /\ Alters(i) /\ pcs'[i].signaling = IF Closed(i) THEN "closed" ELSE "stable"
        /\ pcs'[i].task = "none"
        /\ pcs'[i].remote = pcs[i].remote /\ pcs'[i].state = pcs[i].state
    BY <1>0, <1>3, SendAnswerAlters
  <2>2. pcs[i].role # "offer"
    BY <1>3 DEF SendAnswer
  <2>3. pcs'[i].signaling = "closed" <=> Closed(i)
    BY <2>1
  <2> QED
    BY <1>0, <2>1, <2>2, <2>3, AltersStays
<1>4. CASE Gather(i)
  <2>1. /\ Alters(i) /\ pcs'[i].task = pcs[i].task
        /\ pcs'[i].signaling = pcs[i].signaling
        /\ pcs'[i].remote = pcs[i].remote /\ pcs'[i].state = pcs[i].state
    BY <1>0, <1>4, GatherAlters
  <2>2. (pcs'[i].signaling = "closed" <=> Closed(i)) /\ (Negotiated(i)' => Negotiated(i))
    BY <2>1 DEF Negotiated, Closed
  <2> QED
    BY <1>0, <2>1, <2>2, AltersStays
<1>5. CASE Failed(i)
  <2>1. pcs' = [pcs EXCEPT ![i].state = "failed"]
    BY <1>5 DEF Failed
  <2>2. /\ Alters(i) /\ pcs'[i].task = pcs[i].task
        /\ pcs'[i].signaling = pcs[i].signaling
        /\ pcs'[i].remote = pcs[i].remote /\ pcs'[i].state = "failed"
    BY <1>0, <2>1, StateAlters
  <2>3. (pcs'[i].signaling = "closed" <=> Closed(i)) /\ (Negotiated(i)' => Negotiated(i))
    BY <2>2 DEF Negotiated, Closed
  <2> QED
    BY <1>0, <2>2, <2>3, AltersStays
<1> QED
  BY <1>1, <1>2, <1>3, <1>4, <1>5

LEMMA ConnectedStays ==
  ASSUME Types, Roles, NEW i \in DOMAIN pcs, Connected(i)
  PROVE  Stays
<1>0. TypeOK /\ connection' = connection /\ pcs[i].owner \in Peer
  BY Ids DEF Types, Connected
<1>1. /\ Alters(i) /\ pcs'[i].task = pcs[i].task /\ pcs'[i].signaling = pcs[i].signaling
      /\ pcs'[i].remote = pcs[i].remote /\ pcs'[i].state = "connected"
  <2>1. pcs' = [pcs EXCEPT ![i].state = "connected"]
    BY DEF Connected
  <2> QED
    BY <1>0, <2>1, StateAlters
<1>2. \A p \in Peer : dataChannel'[p] =
        IF pcs[i].role = "answer" /\ p = pcs[i].owner THEN i ELSE dataChannel[p]
  BY <1>0 DEF Connected, Adopted, TypeOK
<1>3. pcs[i].state = "new" /\ Works(i)
  BY DEF Connected
<1>4. ComesUp(i)
  BY <1>0, <1>2, <1>3 DEF ComesUp
<1>5. \A p \in Peer : dataChannel'[p] # dataChannel[p] =>
        dataChannel'[p] = i /\ pcs[i].owner = p /\ pcs[i].role = "answer"
  BY <1>2
<1>6. \A k \in DOMAIN pcs :
       /\ pcs'[k].owner = pcs[k].owner /\ pcs'[k].role = pcs[k].role
       /\ pcs'[k].shut = pcs[k].shut
       /\ pcs'[k].signaling = "closed" <=> Closed(k)
       /\ pcs'[k].task # "none" => pcs[k].task # "none"
       /\ pcs'[k].remote = pcs[k].remote
       /\ pcs'[k].state # "failed" => pcs[k].state # "failed"
       /\ pcs'[k].state = pcs[k].state \/ k = i
       /\ Negotiated(k)' => Negotiated(k)
  BY <1>1, <1>3 DEF Alters, Closed, Negotiated
<1> QED
  BY <1>0, <1>1, <1>4, <1>5, <1>6 DEF Stays, Alters

LEMMA HandleAnswerStays ==
  ASSUME Types, Roles, NEW p \in Peer, HandleAnswer(p)
  PROVE  Stays
<1>0. UNCHANGED <<connection, dataChannel>>
  BY DEF HandleAnswer, record
<1>1. CASE ~ Awaits(connection[p])
  BY <1>0, <1>1, SameStays DEF HandleAnswer
<1>2. CASE Awaits(connection[p])
  <2>1. PICK c \in DOMAIN pcs, r \in DOMAIN pcs :
         /\ c = connection[p] /\ pcs[c].owner = p /\ pcs[c].role = "offer"
         /\ pcs[c].signaling = "have-local-offer"
         /\ pcs[r].role = "answer"
         /\ r \in Nat \ {0}
         /\ Alters(c)
         /\ pcs'[c].task = pcs[c].task /\ pcs'[c].signaling = "stable"
         /\ pcs'[c].remote = r /\ pcs'[c].state = pcs[c].state
    BY <1>2, HandleAnswerAlters
  <2>2. IsTold(c)
    BY <2>1 DEF IsTold, Closed
  <2>3. \A k \in DOMAIN pcs : k # c => pcs'[k] = pcs[k]
    BY <2>1 DEF Alters
  <2>4. ~ Closed(c)
    BY <2>1 DEF Closed
  <2> QED
    BY <1>0, <2>1, <2>2, <2>3, <2>4 DEF Stays, Alters, Closed, Negotiated
<1> QED
  BY <1>1, <1>2

\* What a step does to the connections and to the records.
LEMMA StepKinds ==
  ASSUME Types, Roles, [Next]_vars
  PROVE  Stays \/ (\E p \in Peer : Leaves(p)) \/ (\E p \in Peer : \E new : Adds(p, new))
<1>0. TypeOK
  BY DEF Types
<1>1. CASE UNCHANGED vars
  BY <1>1, SameStays DEF vars, record
<1>2. ASSUME NEW i \in DOMAIN pcs, NEW throws \in BOOLEAN,
             \/ SendOffer(i) \/ ApplyOffer(i, throws) \/ SendAnswer(i)
             \/ Gather(i) \/ Connected(i) \/ Failed(i)
      PROVE  Stays
  BY <1>2, ConnectionStays, ConnectedStays
<1>3. ASSUME NEW p \in Peer, Drop(p) \/ Notice(p) \/ Rejoin(p) \/ HandleCandidate(p)
                             \/ HandlePeerJoined(p)
      PROVE  Stays
  BY <1>3, SameStays DEF Drop, Notice, Rejoin, HandleCandidate, HandlePeerJoined, record
<1>4. ASSUME NEW p \in Peer, HandlePeerLeft(p) \/ FinishCleanup(p)
      PROVE  Stays \/ Leaves(p)
  BY <1>0, <1>4, SameStays, CloseLeaves DEF HandlePeerLeft, FinishCleanup, record
<1>5. \A i \in DOMAIN pcs : SendOffer(i) \/ SendAnswer(i) \/ Gather(i) \/ Connected(i)
                              \/ Failed(i) => Stays
  <2>1. TRUE \in BOOLEAN
    OBVIOUS
  <2> QED
    BY <1>2, <2>1
<1> QED
  BY <1>1, <1>2, <1>3, <1>4, <1>5, ClickAdds, HandleOfferAdds, HandleAnswerStays DEF Next

-----------------------------------------------------------------------------
(* Order: which connections are older *)

\* The record names the latest connection of its page, or none.
Newest ==
  \A i \in DOMAIN pcs :
    connection[pcs[i].owner] # 0 => i <= connection[pcs[i].owner]

ChannelNamed ==
  \A p \in Peer : dataChannel[p] # 0 =>
    dataChannel[p] \in DOMAIN pcs /\ pcs[dataChannel[p]].owner = p

\* Only what the record names is closed, and then the record names it no more.
Intact ==
  \A p \in Peer : connection[p] # 0 =>
    ~ Closed(connection[p]) /\ ~ pcs[connection[p]].shut

\* When an offer has been given an answer, its page makes no connection that is
\* older than the one that answered.
AnswerFirst ==
  \A i, k \in DOMAIN pcs :
    /\ pcs[i].role = "offer" /\ pcs[i].remote # 0
    /\ pcs[k].owner = pcs[i].owner /\ k > i
    => k > pcs[i].remote

OfferFirst ==
  \A r \in DOMAIN pcs : pcs[r].role = "answer" => pcs[r].remote < r

\* A negotiated offer was given an answer.
OfferTold ==
  \A i \in DOMAIN pcs : pcs[i].role = "offer" /\ Negotiated(i) => pcs[i].remote # 0

\* A page's record names its newest connection, and an answer is newer than its offer.
Order ==
  Newest /\ ChannelNamed /\ Intact /\ AnswerFirst /\ OfferFirst /\ OfferTold

LEMMA Numbers ==
  ASSUME Types, Roles
  PROVE  /\ \A i \in DOMAIN pcs : /\ i \in Nat \ {0} /\ pcs[i].owner \in Peer
                                  /\ pcs[i].remote \in Nat
                                  /\ pcs[i].role \in {"offer", "answer"}
                                  /\ pcs[i].remote # 0 => pcs[i].remote \in DOMAIN pcs
                                  /\ pcs[i].shut \in BOOLEAN
                                  /\ pcs[i].state \in {"new", "connected", "failed"}
         /\ \A p \in Peer : connection[p] \in Nat
<1>1. \A i \in DOMAIN pcs :
        i \in Nat \ {0} /\ pcs[i] \in Connection /\ pcs[i].owner \in Peer /\ pcs[i].remote \in IdOrNone
  BY Ids DEF Types
<1>2. IdOrNone \subseteq Nat
  BY BoundsAssumption DEF IdOrNone
<1>3. \A i \in DOMAIN pcs : pcs[i].role \in {"offer", "answer"} /\ pcs[i].shut \in BOOLEAN
                            /\ pcs[i].state \in {"new", "connected", "failed"}
  BY <1>1 DEF Connection
<1>4. \A i \in DOMAIN pcs : pcs[i].remote # 0 => pcs[i].remote \in DOMAIN pcs
  BY <1>3 DEF Roles, Asks, Answers
<1>5. \A p \in Peer : connection[p] \in Nat
  BY <1>2 DEF Types, TypeOK
<1> QED
  BY <1>1, <1>2, <1>3, <1>4, <1>5

LEMMA OrderStays ==
  ASSUME Types, Roles, Order, Stays
  PROVE  Order'
<1>0. \A i \in DOMAIN pcs : i \in Nat \ {0} /\ pcs[i].owner \in Peer
  BY Numbers
<1>1. Newest'
  BY DEF Order, Newest, Stays
<1>2. ChannelNamed'
  BY DEF Order, ChannelNamed, Stays
<1>3. Intact'
  BY DEF Order, Intact, Stays, Types, Named, Closed
<1>4. AnswerFirst'
  <2> SUFFICES ASSUME NEW i \in DOMAIN pcs, NEW k \in DOMAIN pcs,
                      pcs[i].role = "offer", pcs'[i].remote # 0,
                      pcs[k].owner = pcs[i].owner, k > i
               PROVE  k > pcs'[i].remote
    BY DEF AnswerFirst, Stays
  <2>1. ~ IsTold(i)
    <3> SUFFICES ASSUME IsTold(i) PROVE FALSE
      OBVIOUS
    <3>1. connection[pcs[k].owner] = i
      BY DEF IsTold
    <3> QED
      BY <1>0, <3>1 DEF Order, Newest
  <2>2. pcs'[i].remote = pcs[i].remote
    BY <2>1 DEF Stays
  <2> QED
    BY <2>2 DEF Order, AnswerFirst
<1>5. OfferFirst'
  BY DEF Order, OfferFirst, Stays, IsTold
<1>6. OfferTold'
  <2> SUFFICES ASSUME NEW i \in DOMAIN pcs, pcs[i].role = "offer", Negotiated(i)'
               PROVE  pcs'[i].remote # 0
    BY DEF OfferTold, Stays
  <2>1. Negotiated(i) => pcs[i].remote # 0
    BY DEF Order, OfferTold
  <2>2. pcs'[i].remote = pcs[i].remote \/ IsTold(i)
    BY DEF Stays
  <2>3. IsTold(i) => pcs'[i].remote # 0
    BY <1>0 DEF IsTold
  <2>4. Negotiated(i) \/ pcs'[i].remote # 0
    BY DEF Stays
  <2> QED
    BY <2>1, <2>2, <2>3, <2>4
<1> QED
  BY <1>1, <1>2, <1>3, <1>4, <1>5, <1>6 DEF Order

LEMMA OrderLeaves ==
  ASSUME Types, Roles, Order, NEW p \in Peer, Leaves(p)
  PROVE  Order'
<1>0. \A i \in DOMAIN pcs : i \in Nat \ {0} /\ pcs[i].owner \in Peer
  BY Numbers
<1>1. Newest'
  BY <1>0 DEF Order, Newest, Leaves
<1>2. ChannelNamed'
  BY DEF Order, ChannelNamed, Leaves
<1>3. Intact'
  <2> SUFFICES ASSUME NEW q \in Peer, connection'[q] # 0
               PROVE  /\ pcs'[connection'[q]].signaling # "closed"
                      /\ ~ pcs'[connection'[q]].shut
    BY DEF Intact, Closed
  <2>1. q # p /\ connection'[q] = connection[q]
    BY DEF Leaves
  <2>2. PICK c \in DOMAIN pcs : c = connection[q] /\ pcs[c].owner = q
    BY <2>1 DEF Types, Named
  <2>3. c # connection[p] /\ c # dataChannel[p]
    BY <1>0, <2>1, <2>2 DEF Order, ChannelNamed, Types, Named
  <2>4. ~ pcs[c].shut /\ pcs[c].signaling # "closed"
    BY <2>1, <2>2 DEF Order, Intact, Closed
  <2>5. pcs'[c].signaling = pcs[c].signaling
    BY <2>3 DEF Leaves
  <2>6. pcs'[c].shut = (pcs[c].shut \/ c = dataChannel[p])
    BY DEF Leaves
  <2>7. ~ pcs'[c].shut
    BY <2>3, <2>4, <2>6
  <2> QED
    BY <2>1, <2>2, <2>4, <2>5, <2>7
<1>4. AnswerFirst' /\ OfferFirst'
  BY DEF Order, AnswerFirst, OfferFirst, Leaves
<1>5. OfferTold'
  BY DEF Order, OfferTold, Leaves, Negotiated
<1> QED
  BY <1>1, <1>2, <1>3, <1>4, <1>5 DEF Order

LEMMA OrderAdds ==
  ASSUME Types, Roles, Order, NEW p \in Peer, NEW new, Adds(p, new)
  PROVE  Order'
<1> DEFINE n == Len(pcs) + 1
<1>0. \A i \in DOMAIN pcs : /\ i \in Nat \ {0} /\ pcs[i].owner \in Peer /\ pcs[i].remote \in Nat
                            /\ pcs[i].remote # 0 => pcs[i].remote \in DOMAIN pcs
  BY Numbers
<1>1. /\ new.owner = p /\ new.signaling = "stable" /\ ~ new.shut
      /\ new.role \in {"offer", "answer"} /\ new.task # "none"
      /\ new.role = "offer" => new.remote = 0
      /\ new.role = "answer" => new.remote \in DOMAIN pcs
      /\ DOMAIN pcs' = DOMAIN pcs \cup {n}
      /\ pcs'[n] = new /\ n \notin DOMAIN pcs /\ n \in Nat \ {0}
      /\ \A k \in DOMAIN pcs : k < n /\ pcs'[k] = pcs[k]
      /\ \A q \in Peer : connection'[q] = IF q = p THEN n ELSE connection[q]
      /\ \A q \in Peer : dataChannel'[q] = dataChannel[q] \/ (q = p /\ dataChannel'[q] = n)
  BY DEF Adds, Creates, Connection
<1> HIDE DEF n
<1>2. Newest'
  BY <1>0, <1>1 DEF Order, Newest
<1>3. ChannelNamed'
  BY <1>1 DEF Order, ChannelNamed
<1>4. Intact'
  BY <1>1 DEF Order, Intact, Types, Named, Closed
<1>5. AnswerFirst'
  <2> SUFFICES ASSUME NEW i \in DOMAIN pcs', NEW k \in DOMAIN pcs',
                      pcs'[i].role = "offer", pcs'[i].remote # 0,
                      pcs'[k].owner = pcs'[i].owner, k > i
               PROVE  k > pcs'[i].remote
    BY DEF AnswerFirst
  <2>1. i # n
    BY <1>1
  <2>2. i \in DOMAIN pcs /\ pcs'[i] = pcs[i]
    BY <1>1, <2>1
  <2>3. CASE k = n
    BY <1>0, <1>1, <2>2, <2>3
  <2>4. CASE k # n
    BY <1>1, <2>2, <2>4 DEF Order, AnswerFirst
  <2> QED
    BY <2>3, <2>4
<1>6. OfferFirst'
  BY <1>1 DEF Order, OfferFirst
<1>7. OfferTold'
  BY <1>1 DEF Order, OfferTold, Negotiated
<1> QED
  BY <1>2, <1>3, <1>4, <1>5, <1>6, <1>7 DEF Order

\* Two pages whose records name connections that work know of each other.
LEMMA OrderMeets ==
  ASSUME Types, Roles, Order
  PROVE  RecordsMeet
<1> SUFFICES ASSUME NEW p \in Peer, NEW c, NEW d,
                    c = connection[p], d = connection[Other(p)],
                    c # 0, d # 0, Works(c), Works(d)
             PROVE  pcs[c].remote = d
  BY DEF RecordsMeet
<1>0. /\ Other(p) \in Peer /\ Other(p) # p /\ Other(Other(p)) = p
      /\ \A q \in Peer : q = p \/ q = Other(p)
  BY OtherIsPeer
<1>1. \A i \in DOMAIN pcs : /\ i \in Nat \ {0} /\ pcs[i].owner \in Peer /\ pcs[i].remote \in Nat
                            /\ pcs[i].role \in {"offer", "answer"}
                            /\ pcs[i].remote # 0 => pcs[i].remote \in DOMAIN pcs
  BY Numbers
<1>2. c \in DOMAIN pcs /\ pcs[c].owner = p /\ d \in DOMAIN pcs /\ pcs[d].owner = Other(p)
  BY <1>0 DEF Types, Named
\* What a connection that works knows of: the other end, not older than its record.
<1>3. ASSUME NEW i \in DOMAIN pcs, Works(i), i = connection[pcs[i].owner],
             NEW k, k = connection[Other(pcs[i].owner)], k # 0
      PROVE  /\ pcs[i].remote \in DOMAIN pcs
             /\ pcs[pcs[i].remote].owner = Other(pcs[i].owner)
             /\ pcs[pcs[i].remote].role # pcs[i].role
             /\ pcs[pcs[i].remote].remote = i
             /\ pcs[i].remote <= k
  <2>1. PICK j : j = pcs[i].remote
    OBVIOUS
  <2>2. Negotiated(i) /\ Negotiated(j) /\ pcs[j].remote = i
    BY <1>3, <2>1 DEF Works, Matched
  <2>3. j \in DOMAIN pcs
    <3>1. CASE pcs[i].role = "offer"
      BY <1>1, <2>1, <2>2, <3>1 DEF Order, OfferTold
    <3>2. CASE pcs[i].role = "answer"
      BY <2>1, <3>2 DEF Roles, Answers
    <3> QED
      BY <1>1, <3>1, <3>2
  <2>4. pcs[j].role # pcs[i].role /\ pcs[j].owner = Other(pcs[i].owner)
    <3>1. CASE pcs[i].role = "offer"
      <4>1. pcs[j].role = "answer"
        BY <1>1, <2>1, <2>3, <3>1 DEF Roles, Asks
      <4>2. pcs[i].owner = Other(pcs[j].owner)
        BY <2>2, <2>3, <4>1 DEF Roles, Answers
      <4> QED
        BY <1>1, <2>3, <3>1, <4>1, <4>2, OtherIsPeer
    <3>2. CASE pcs[i].role = "answer"
      BY <2>1, <3>2 DEF Roles, Answers
    <3> QED
      BY <1>1, <3>1, <3>2
  <2>5. j <= k
    BY <1>3, <2>3, <2>4 DEF Order, Newest
  <2> QED
    BY <2>1, <2>2, <2>3, <2>4, <2>5
<1>4. PICK r \in DOMAIN pcs : r = pcs[c].remote /\ pcs[r].owner = Other(p) /\ pcs[r].remote = c
                              /\ pcs[r].role # pcs[c].role /\ r <= d
  BY <1>2, <1>3
<1>5. PICK u \in DOMAIN pcs : u = pcs[d].remote /\ pcs[u].owner = p /\ pcs[u].remote = d
                              /\ pcs[u].role # pcs[d].role /\ u <= c
  BY <1>0, <1>2, <1>3
<1>6. SUFFICES ASSUME r < d, u < c PROVE FALSE
  BY <1>1, <1>2, <1>4, <1>5
<1>7. /\ pcs[c].role = "offer" => c < r
      /\ pcs[d].role = "offer" => d < u
  BY <1>1, <1>2, <1>4, <1>5 DEF Order, OfferFirst
<1>8. /\ pcs[r].role = "offer" => d > c
      /\ pcs[u].role = "offer" => c > d
  <2>1. r \in Nat \ {0} /\ u \in Nat \ {0} /\ c \in Nat \ {0} /\ d \in Nat \ {0}
    BY <1>1, <1>2
  <2>2. d > r /\ c > u
    BY <1>6, <2>1
  <2> QED
    BY <1>2, <1>4, <1>5, <2>1, <2>2 DEF Order, AnswerFirst
<1>9. /\ c \in Nat /\ d \in Nat /\ r \in Nat /\ u \in Nat
      /\ pcs[c].role = "offer" \/ pcs[r].role = "offer"
      /\ pcs[d].role = "offer" \/ pcs[u].role = "offer"
  BY <1>1, <1>2, <1>4, <1>5
<1> QED
  BY <1>6, <1>7, <1>8, <1>9

-----------------------------------------------------------------------------
(* What is under way *)

\* A connection whose task is done has set its descriptions, but for an offer that
\* is not answered yet, and an answer whose handler threw.
Phases ==
  \A i \in DOMAIN pcs : ~ Closed(i) =>
    IF pcs[i].role = "offer"
    THEN pcs[i].signaling # "have-remote-offer"
    ELSE ~ lost /\ pcs[i].task = "none" => pcs[i].signaling = "stable"

\* If nothing was lost, what a record waits for is under way.
Answering == ~ lost => \A p \in Peer : Awaits(connection[p]) => Live(connection[p])

\* The offers and answers under way stay so, and a handler that ends has sent its
\* message, if nothing is lost and the connection is not closed.
Forwards ==
  /\ DOMAIN pcs' = DOMAIN pcs
  /\ connection' = connection
  /\ \A k \in DOMAIN pcs :
       /\ pcs'[k].owner = pcs[k].owner /\ pcs'[k].role = pcs[k].role
       /\ pcs[k].role = "answer" => pcs'[k].remote = pcs[k].remote
       /\ pcs[k].task # "none" =>
            \/ pcs'[k].task # "none"
            \/ pcs[k].role = "offer" /\ Closed(k)
            \/ In(Other(pcs[k].owner), [type |-> pcs[k].role, from |-> k])'
  /\ \A q \in Peer, m \in Message :
       m.type \in {"offer", "answer"} /\ In(q, m) => In(q, m)'

LEMMA LiveForwards ==
  ASSUME Types, Roles, Forwards, NEW i \in DOMAIN pcs, ~ Closed(i), Live(i)
  PROVE  Live(i)'
<1>0. /\ i \in Id /\ pcs[i].owner \in Peer /\ Other(pcs[i].owner) \in Peer
      /\ pcs[i].role = "offer" /\ pcs'[i].role = "offer" /\ pcs'[i].owner = pcs[i].owner
  BY Ids, OtherIsPeer DEF Types, Live, Forwards
<1>1. CASE pcs[i].task # "none"
  BY <1>0, <1>1 DEF Forwards, Live
<1>2. CASE In(Other(pcs[i].owner), [type |-> "offer", from |-> i])
  <2>1. PICK m \in Message : m = [type |-> "offer", from |-> i]
    BY <1>0, MessageTypes
  <2>2. In(Other(pcs[i].owner), m)'
    BY <1>0, <1>2, <2>1 DEF Forwards
  <2> QED
    BY <1>0, <2>1, <2>2 DEF Live
<1>3. ASSUME NEW j \in DOMAIN pcs, pcs[j].role = "answer", pcs[j].remote = i,
             pcs[j].task # "none" \/ In(pcs[i].owner, [type |-> "answer", from |-> j])
      PROVE  Live(i)'
  <2>1. /\ pcs'[j].role = "answer" /\ pcs'[j].remote = i /\ j \in DOMAIN pcs'
        /\ j \in Id /\ Other(pcs[j].owner) = pcs[i].owner
    BY <1>3, Ids DEF Forwards, Types, Roles, Answers
  <2>2. PICK m \in Message : m = [type |-> "answer", from |-> j]
    BY <2>1, MessageTypes
  <2>3. In(pcs[i].owner, m) => In(pcs[i].owner, m)'
    BY <1>0, <2>2 DEF Forwards
  <2>4. pcs'[j].task # "none" \/ In(pcs[i].owner, m)'
    BY <1>3, <2>1, <2>2, <2>3 DEF Forwards
  <2> QED
    BY <1>0, <2>1, <2>2, <2>4 DEF Live
<1> QED
  BY <1>1, <1>2, <1>3 DEF Live

LEMMA AnsweringForwards ==
  ASSUME Types, Roles, Answering,
         ~ lost' => /\ ~ lost
                    /\ Forwards
                    /\ \A p \in Peer : Awaits(connection[p])' =>
                         Awaits(connection[p]) \/ Live(connection[p])'
  PROVE  Answering'
<1> SUFFICES ASSUME ~ lost', NEW p \in Peer, Awaits(connection[p])'
             PROVE  Live(connection[p])'
  BY DEF Answering
<1>1. ~ lost /\ Forwards /\ connection'[p] = connection[p]
  BY DEF Forwards
<1>2. PICK c : c = connection[p]
  OBVIOUS
<1>3. c \in DOMAIN pcs
  BY <1>1, <1>2 DEF Awaits, Types, Named
<1>4. Awaits(c) => ~ Closed(c) /\ Live(c)
  BY <1>1, <1>2 DEF Answering, Awaits, Closed
<1>5. Awaits(c) \/ Live(c)'
  BY <1>1, <1>2
<1> QED
  BY <1>1, <1>2, <1>3, <1>4, <1>5, LiveForwards

LEMMA PostKeeps ==
  ASSUME TypeOK, NEW p \in Peer, NEW n \in Message, mail' = [mail EXCEPT ![p] = Append(@, n)]
  PROVE  /\ In(p, n)'
         /\ \A q \in Peer, m \in Message : In(q, m) => In(q, m)'
<1>1. \A q \in Peer : mail[q] \in Seq(Message)
  BY DEF TypeOK
<1>2. mail'[p] = Append(mail[p], n) /\ \A q \in Peer : q # p => mail'[q] = mail[q]
  BY DEF TypeOK
<1>3. /\ Len(mail[p]) + 1 \in DOMAIN mail'[p] /\ mail'[p][Len(mail[p]) + 1] = n
      /\ \A k \in DOMAIN mail[p] : k \in DOMAIN mail'[p] /\ mail'[p][k] = mail[p][k]
  BY <1>1, <1>2
<1> QED
  BY <1>2, <1>3 DEF In

LEMMA TakeKeeps ==
  ASSUME TypeOK, NEW p \in Peer, mail[p] # <<>>, mail' = Taken(p)
  PROVE  \A q \in Peer, m \in Message :
           In(q, m) => In(q, m)' \/ (q = p /\ m = Head(mail[p]))
<1>1. mail[p] \in Seq(Message)
  BY DEF TypeOK
<1>2. mail'[p] = Tail(mail[p]) /\ \A q \in Peer : q # p => mail'[q] = mail[q]
  BY DEF Taken, TypeOK
<1>3. ASSUME NEW m \in Message, NEW k \in DOMAIN mail[p], mail[p][k] = m, m # Head(mail[p])
      PROVE  k - 1 \in DOMAIN mail'[p] /\ mail'[p][k - 1] = m
  <2>1. k \in 1 .. Len(mail[p]) /\ k # 1 /\ Len(mail[p]) \in Nat
    BY <1>1, <1>3
  <2> QED
    BY <1>1, <1>2, <1>3, <2>1
<1>4. ASSUME NEW q \in Peer, NEW m \in Message, In(q, m), ~ (q = p /\ m = Head(mail[p]))
      PROVE  In(q, m)'
  <2>1. CASE q = p
    <3>1. PICK k \in DOMAIN mail[p] : mail[p][k] = m
      BY <1>4, <2>1 DEF In
    <3> QED
      BY <1>3, <1>4, <2>1, <3>1 DEF In
  <2>2. CASE q # p
    BY <1>2, <1>4, <2>2 DEF In
  <2> QED
    BY <2>1, <2>2
<1> QED
  BY <1>4

\* What a connection sends arrives, if nothing is lost.
LEMMA RelayKeeps ==
  ASSUME Types, NEW i \in DOMAIN pcs, NEW type \in {"offer", "answer", "candidate"},
         NEW to \in Peer, to = Other(pcs[i].owner),
         Relay(pcs[i].owner, [type |-> type, from |-> i])
  PROVE  /\ \A q \in Peer, m \in Message : In(q, m) => In(q, m)'
         /\ ~ lost' => ~ lost
         /\ ~ lost' /\ type # "candidate" => In(to, [type |-> type, from |-> i])'
<1>0. TypeOK
  BY DEF Types
<1>1. PICK m \in Message : m = [type |-> type, from |-> i]
  BY <1>0, Ids, MessageTypes
<1>2. CASE online = Peer
  <2>1. mail' = [mail EXCEPT ![to] = Append(@, m)]
    BY <1>1, <1>2 DEF Relay
  <2>2. ~ lost' => ~ lost
    BY DEF Relay
  <2>3. In(to, m)' /\ \A q \in Peer, n \in Message : In(q, n) => In(q, n)'
    BY <1>0, <2>1, PostKeeps
  <2> QED
    BY <1>1, <2>2, <2>3
<1>3. CASE online # Peer
  <2>1. mail' = mail
    BY <1>3 DEF Relay
  <2>2. \A q \in Peer, n \in Message : In(q, n) => In(q, n)'
    BY <2>1 DEF In
  <2>3. lost' = (lost \/ type # "candidate")
    BY <1>3 DEF Relay
  <2> QED
    BY <2>2, <2>3
<1> QED
  BY <1>2, <1>3

LEMMA LiveAdds ==
  ASSUME Types, Roles, NEW p \in Peer, NEW new, Adds(p, new), NEW i \in DOMAIN pcs, Live(i)
  PROVE  Live(i)'
<1> DEFINE n == Len(pcs) + 1
<1>0. /\ TypeOK /\ i \in Id /\ pcs[i].owner \in Peer /\ Other(pcs[i].owner) \in Peer
      /\ pcs[i].role = "offer"
  BY Ids, OtherIsPeer DEF Types, Live
<1>1. /\ DOMAIN pcs' = DOMAIN pcs \cup {n} /\ pcs'[n] = new
      /\ \A k \in DOMAIN pcs : pcs'[k] = pcs[k]
      /\ new.role \in {"offer", "answer"}
      /\ new.role = "offer" => mail' = mail
      /\ new.role = "answer" => /\ mail' = Taken(p) /\ mail[p] # <<>> /\ new.task = "apply"
                                /\ Head(mail[p]) = [type |-> "offer", from |-> new.remote]
  BY DEF Adds, Creates, Connection
<1> HIDE DEF n
<1>2. \A q \in Peer, m \in Message : In(q, m) =>
        In(q, m)' \/ (new.role = "answer" /\ m = [type |-> "offer", from |-> new.remote])
  <2>1. CASE new.role = "offer"
    BY <1>1, <2>1 DEF In
  <2>2. CASE new.role = "answer"
    BY <1>0, <1>1, <2>2, TakeKeeps
  <2> QED
    BY <1>1, <2>1, <2>2
<1>3. CASE pcs[i].task # "none"
  BY <1>0, <1>1, <1>3 DEF Live
<1>4. CASE In(Other(pcs[i].owner), [type |-> "offer", from |-> i])
  <2>1. PICK m \in Message : m = [type |-> "offer", from |-> i]
    BY <1>0, MessageTypes
  <2>2. CASE In(Other(pcs[i].owner), m)'
    BY <1>0, <1>1, <2>1, <2>2 DEF Live
  <2>3. CASE new.role = "answer" /\ m = [type |-> "offer", from |-> new.remote]
    <3>1. new.remote = i
      BY <2>1, <2>3
    <3> QED
      BY <1>0, <1>1, <2>3, <3>1 DEF Live
  <2> QED
    BY <1>0, <1>1, <1>2, <1>4, <2>1, <2>2, <2>3
<1>5. ASSUME NEW j \in DOMAIN pcs, pcs[j].role = "answer", pcs[j].remote = i,
             pcs[j].task # "none" \/ In(pcs[i].owner, [type |-> "answer", from |-> j])
      PROVE  Live(i)'
  <2>1. /\ j \in Id /\ j \in DOMAIN pcs' /\ pcs'[j] = pcs[j]
        /\ pcs'[i].owner = pcs[i].owner /\ pcs'[i].role = "offer"
        /\ pcs'[j].role = "answer" /\ pcs'[j].remote = i
    BY <1>0, <1>1, <1>5, Ids
  <2>2. PICK m \in Message : m = [type |-> "answer", from |-> j] /\ m.type = "answer"
    BY <2>1, MessageTypes
  <2>3. PICK q \in Peer : q = pcs[i].owner
    BY <1>0
  <2>4. In(q, m) => In(q, m)'
    BY <1>2, <2>2
  <2>5. pcs'[j].task # "none" \/ In(q, m)'
    BY <1>5, <2>1, <2>2, <2>3, <2>4
  <2> QED
    BY <1>0, <2>1, <2>2, <2>3, <2>5 DEF Live
<1> QED
  BY <1>3, <1>4, <1>5 DEF Live

LEMMA AnsweringAdds ==
  ASSUME Types, Roles, Answering, NEW p \in Peer, NEW new, Adds(p, new)
  PROVE  Answering'
<1> SUFFICES ASSUME ~ lost', NEW q \in Peer, Awaits(connection[q])'
             PROVE  Live(connection[q])'
  BY DEF Answering
<1>1. ~ lost /\ q # p
  BY DEF Adds, Creates, Awaits
<1>2. PICK c : c = connection[q] /\ connection'[q] = c
  BY <1>1 DEF Adds, Creates
<1>3. c # 0
  BY <1>2 DEF Awaits
<1>4. c \in DOMAIN pcs /\ pcs'[c] = pcs[c]
  BY <1>2, <1>3 DEF Types, Named, Adds, Creates
<1>5. Live(c)
  BY <1>1, <1>2, <1>4 DEF Answering, Awaits
<1>6. Live(c)'
  BY <1>4, <1>5, LiveAdds
<1> QED
  BY <1>2, <1>6

\* The roles of connections whose tasks are not done
LEMMA Tasks ==
  ASSUME Types, Roles, NEW k \in DOMAIN pcs
  PROVE  /\ pcs[k].role \in {"offer", "answer"}
         /\ pcs[k].owner \in Peer /\ Other(pcs[k].owner) \in Peer
         /\ pcs[k].task = "apply" => pcs[k].role = "answer"
         /\ pcs[k].signaling = "have-local-offer" => pcs[k].role = "offer"
<1>1. /\ pcs[k].role \in {"offer", "answer"}
      /\ pcs[k].owner \in Peer /\ Other(pcs[k].owner) \in Peer
  BY Ids, OtherIsPeer DEF Types, Connection
<1> QED
  BY <1>1 DEF Roles, Asks, Answers

LEMMA AnsweringSendOffer ==
  ASSUME Types, Roles, Answering, NEW i \in DOMAIN pcs, SendOffer(i)
  PROVE  Answering'
<1>0. TypeOK /\ connection' = connection /\ pcs[i].role = "offer"
  BY DEF Types, SendOffer, record
<1>1. /\ Alters(i) /\ pcs'[i].task = "none" /\ pcs'[i].remote = pcs[i].remote
      /\ pcs'[i].signaling = IF Closed(i) THEN "closed" ELSE "have-local-offer"
  BY <1>0, SendOfferAlters
<1>2. PICK to \in Peer : to = Other(pcs[i].owner)
  BY Tasks
<1>3. CASE Closed(i)
  <2>1. mail' = mail /\ lost' = lost
    BY <1>3 DEF SendOffer
  <2>2. \A q \in Peer, m \in Message : In(q, m) => In(q, m)'
    BY <2>1 DEF In
  <2>3. Forwards
    BY <1>0, <1>1, <1>3, <2>2 DEF Forwards, Alters
  <2>4. \A p \in Peer : Awaits(connection[p])' => Awaits(connection[p])
    BY <1>0, <1>1, <1>3 DEF Awaits, Alters, Types, Named
  <2> QED
    BY <2>1, <2>3, <2>4, AnsweringForwards
<1>4. CASE ~ Closed(i)
  <2>1. Relay(pcs[i].owner, [type |-> "offer", from |-> i])
    BY <1>4 DEF SendOffer
  <2>2. /\ \A q \in Peer, m \in Message : In(q, m) => In(q, m)'
        /\ ~ lost' => ~ lost
        /\ ~ lost' => In(to, [type |-> "offer", from |-> i])'
    BY <1>2, <2>1, RelayKeeps
  <2>3. to = Other(pcs'[i].owner)
    BY <1>1, <1>2 DEF Alters
  <2>4. ~ lost' => Forwards
    <3> SUFFICES ASSUME ~ lost' PROVE Forwards
      OBVIOUS
    <3>1. In(Other(pcs[i].owner), [type |-> pcs[i].role, from |-> i])'
      BY <1>0, <1>1, <2>2, <2>3 DEF Alters
    <3> QED
      BY <1>0, <1>1, <2>2, <3>1 DEF Forwards, Alters
  <2>5. ~ lost' => Live(i)'
    BY <1>0, <1>1, <2>2, <2>3 DEF Live, Alters
  <2>6. ~ lost' => \A p \in Peer : Awaits(connection[p])' =>
                     Awaits(connection[p]) \/ Live(connection[p])'
    <3> SUFFICES ASSUME ~ lost', NEW p \in Peer, Awaits(connection[p])'
                 PROVE  Awaits(connection[p]) \/ Live(connection[p])'
      OBVIOUS
    <3>1. connection'[p] = connection[p]
      BY <1>0
    <3>2. CASE connection[p] = i
      BY <2>5, <3>1, <3>2
    <3>3. CASE connection[p] # i
      BY <1>0, <1>1, <3>3 DEF Awaits, Alters, Types, Named
    <3> QED
      BY <3>2, <3>3
  <2> QED
    BY <2>2, <2>4, <2>6, AnsweringForwards
<1> QED
  BY <1>3, <1>4

\* A step of a connection that does not turn one into an offer that waits
LEMMA AnsweringAlters ==
  ASSUME Types, Roles, Answering, NEW i \in DOMAIN pcs, Alters(i), connection' = connection,
         pcs'[i].signaling = "have-local-offer" => pcs[i].signaling = "have-local-offer",
         pcs[i].role = "answer" => pcs'[i].remote = pcs[i].remote,
         ~ lost' => /\ ~ lost
                    /\ pcs[i].task # "none" =>
                         \/ pcs'[i].task # "none"
                         \/ In(Other(pcs[i].owner), [type |-> pcs[i].role, from |-> i])'
                    /\ \A q \in Peer, m \in Message :
                         m.type \in {"offer", "answer"} /\ In(q, m) => In(q, m)'
  PROVE  Answering'
<1>1. ~ lost' => Forwards
  BY DEF Forwards, Alters
<1>2. \A p \in Peer : Awaits(connection[p])' => Awaits(connection[p])
  BY DEF Awaits, Alters, Types, Named
<1> QED
  BY <1>1, <1>2, AnsweringForwards

LEMMA AnsweringSame ==
  ASSUME Types, Roles, Answering, pcs' = pcs, connection' = connection,
         ~ lost' => /\ ~ lost
                    /\ \A q \in Peer, m \in Message :
                         m.type \in {"offer", "answer"} /\ In(q, m) => In(q, m)'
  PROVE  Answering'
<1>1. ~ lost' => Forwards
  BY DEF Forwards
<1>2. \A p \in Peer : Awaits(connection[p])' => Awaits(connection[p])
  BY DEF Awaits
<1> QED
  BY <1>1, <1>2, AnsweringForwards

LEMMA AnsweringConnection ==
  ASSUME Types, Roles, Answering, NEW i \in DOMAIN pcs, NEW throws \in BOOLEAN,
         \/ ApplyOffer(i, throws) \/ SendAnswer(i)
         \/ Gather(i) \/ Connected(i) \/ Failed(i)
  PROVE  Answering'
<1>0. TypeOK /\ connection' = connection
  BY DEF Types, ApplyOffer, SendAnswer, Gather, Connected, Failed, record
<1>1. mail' = mail => \A q \in Peer, m \in Message : In(q, m) => In(q, m)'
  BY DEF In
<1>2. CASE ApplyOffer(i, throws)
  <2>1. /\ Alters(i) /\ pcs'[i].remote = pcs[i].remote
        /\ pcs'[i].task = IF Closed(i) \/ throws THEN "none" ELSE "create"
        /\ pcs'[i].signaling # "have-local-offer"
    BY <1>0, <1>2, ApplyOfferAlters
  <2>2. mail' = mail /\ (~ lost' => ~ lost /\ ~ (Closed(i) \/ throws))
    BY <1>2 DEF ApplyOffer
  <2> QED
    BY <1>0, <1>1, <2>1, <2>2, AnsweringAlters
<1>3. CASE SendAnswer(i)
  <2>0. pcs[i].role = "answer"
    BY <1>3 DEF SendAnswer
  <2>1. /\ Alters(i) /\ pcs'[i].remote = pcs[i].remote
        /\ pcs'[i].signaling # "have-local-offer"
    BY <1>0, <1>3, SendAnswerAlters
  <2>2. CASE Closed(i)
    <3>1. lost'
      BY <1>3, <2>2 DEF SendAnswer
    <3> QED
      BY <3>1 DEF Answering
  <2>3. CASE ~ Closed(i)
    <3>1. Relay(pcs[i].owner, [type |-> "answer", from |-> i])
      BY <1>3, <2>3 DEF SendAnswer
    <3>2. PICK to \in Peer : to = Other(pcs[i].owner)
      BY Tasks
    <3>3. /\ \A q \in Peer, m \in Message : In(q, m) => In(q, m)'
          /\ ~ lost' => ~ lost
          /\ ~ lost' => In(to, [type |-> "answer", from |-> i])'
      BY <3>1, <3>2, RelayKeeps
    <3>4. ~ lost' => In(Other(pcs[i].owner), [type |-> pcs[i].role, from |-> i])'
      BY <2>0, <2>1, <3>2, <3>3 DEF Alters
    <3> QED
      BY <1>0, <2>1, <3>3, <3>4, AnsweringAlters
  <2> QED
    BY <2>2, <2>3
<1>4. CASE Gather(i)
  <2>1. /\ Alters(i) /\ pcs'[i].remote = pcs[i].remote /\ pcs'[i].task = pcs[i].task
        /\ pcs'[i].signaling = pcs[i].signaling
    BY <1>0, <1>4, GatherAlters
  <2>2. PICK to \in Peer : to = Other(pcs[i].owner)
    BY Tasks
  <2>3. Relay(pcs[i].owner, [type |-> "candidate", from |-> i])
    BY <1>4 DEF Gather
  <2>4. (\A q \in Peer, m \in Message : In(q, m) => In(q, m)') /\ (~ lost' => ~ lost)
    BY <2>2, <2>3, RelayKeeps
  <2> QED
    BY <1>0, <2>1, <2>4, AnsweringAlters
<1>5. CASE Connected(i) \/ Failed(i)
  <2>1. PICK state \in {"connected", "failed"} : pcs' = [pcs EXCEPT ![i].state = state]
    BY <1>5 DEF Connected, Failed
  <2>2. /\ Alters(i) /\ pcs'[i].remote = pcs[i].remote /\ pcs'[i].task = pcs[i].task
        /\ pcs'[i].signaling = pcs[i].signaling
    BY <1>0, <2>1, StateAlters
  <2>3. mail' = mail /\ (~ lost' => ~ lost)
    BY <1>5 DEF Connected, Failed
  <2> QED
    BY <1>0, <1>1, <2>2, <2>3, AnsweringAlters
<1> QED
  BY <1>2, <1>3, <1>4, <1>5

LEMMA AnsweringHandleAnswer ==
  ASSUME Types, Roles, Answering, NEW p \in Peer, HandleAnswer(p)
  PROVE  Answering'
<1>0. /\ TypeOK /\ connection' = connection /\ lost' = lost
      /\ mail[p] # <<>> /\ mail' = Taken(p) /\ Head(mail[p]).type = "answer"
  BY DEF Types, HandleAnswer, Receives, record
<1>1. \A q \in Peer, m \in Message : In(q, m) => In(q, m)' \/ (q = p /\ m = Head(mail[p]))
  BY <1>0, TakeKeeps
<1> SUFFICES ASSUME ~ lost', NEW q \in Peer, Awaits(connection[q])'
             PROVE  Live(connection[q])'
  BY DEF Answering
<1>2. PICK c \in DOMAIN pcs : c = connection[q] /\ connection'[q] = c /\ pcs[c].owner = q
  BY <1>0 DEF Awaits, Types, Named
<1>3. /\ DOMAIN pcs' = DOMAIN pcs
      /\ \A k \in DOMAIN pcs :
           /\ pcs'[k].owner = pcs[k].owner /\ pcs'[k].role = pcs[k].role
           /\ pcs'[k].task = pcs[k].task
           /\ pcs[k].role = "answer" => pcs'[k].remote = pcs[k].remote
      /\ (q # p /\ pcs'[c] = pcs[c]) \/ ~ Awaits(connection[p])
  <2>1. CASE ~ Awaits(connection[p])
    BY <2>1 DEF HandleAnswer
  <2>2. CASE Awaits(connection[p])
    <3>1. PICK d \in DOMAIN pcs :
            /\ d = connection[p] /\ pcs[d].owner = p /\ pcs[d].role = "offer" /\ Alters(d)
            /\ pcs'[d].task = pcs[d].task /\ pcs'[d].signaling = "stable"
      BY <2>2, HandleAnswerAlters
    <3>2. c # d
      BY <1>2, <3>1 DEF Awaits
    <3>3. \A k \in DOMAIN pcs : k # d => pcs'[k] = pcs[k]
      BY <3>1 DEF Alters
    <3> QED
      BY <1>2, <3>1, <3>2, <3>3 DEF Alters
  <2> QED
    BY <2>1, <2>2
<1>4. q # p /\ Awaits(c)
  <2>1. CASE ~ Awaits(connection[p])
    <3>1. pcs' = pcs
      BY <2>1 DEF HandleAnswer
    <3> QED
      BY <1>2, <2>1, <3>1 DEF Awaits
  <2>2. CASE Awaits(connection[p])
    BY <1>2, <1>3, <2>2 DEF Awaits
  <2> QED
    BY <2>1, <2>2
<1>5. Live(c) /\ ~ Closed(c) /\ c \in Id
  BY <1>0, <1>2, <1>4, Ids DEF Answering, Awaits, Closed
<1>6. \A m \in Message : m.type = "offer" /\ In(p, m) => In(p, m)'
  BY <1>0, <1>1
<1>7. \A m \in Message : In(q, m) => In(q, m)'
  BY <1>1, <1>4
<1>8. Other(q) = p
  BY <1>4, OtherIsPeer
<1>9. PICK m \in Message : m = [type |-> "offer", from |-> c] /\ m.type = "offer"
  BY <1>5, MessageTypes
<1>10. \A j \in DOMAIN pcs : [type |-> "answer", from |-> j] \in Message
  BY <1>0, Ids, MessageTypes
<1>11. Live(c)'
  BY <1>2, <1>3, <1>5, <1>6, <1>7, <1>8, <1>9, <1>10 DEF Live
<1> QED
  BY <1>2, <1>11

LEMMA AnsweringServer ==
  ASSUME Types, Roles, Answering, NEW p \in Peer, Drop(p) \/ Notice(p) \/ Rejoin(p)
  PROVE  Answering'
<1>0. TypeOK /\ pcs' = pcs /\ connection' = connection /\ Other(p) \in Peer
  BY OtherIsPeer DEF Types, Drop, Notice, Rejoin, record
<1>1. CASE Drop(p)
  <2>1. ~ lost' => ~ lost /\ \A k \in DOMAIN mail[p] : mail[p][k].type \notin {"offer", "answer"}
    BY <1>1 DEF Drop
  <2>2. \A q \in Peer : q # p => mail'[q] = mail[q]
    BY <1>0, <1>1 DEF Drop, TypeOK
  <2>3. ~ lost' => \A q \in Peer, m \in Message :
          m.type \in {"offer", "answer"} /\ In(q, m) => In(q, m)'
    BY <2>1, <2>2 DEF In
  <2> QED
    BY <1>0, <2>1, <2>3, AnsweringSame
<1>2. CASE Notice(p)
  <2>1. mail' = [mail EXCEPT ![Other(p)] = Append(@, [type |-> "peer-left"])] /\ lost' = lost
    BY <1>2 DEF Notice
  <2>2. \A q \in Peer, m \in Message : In(q, m) => In(q, m)'
    BY <1>0, <2>1, PostKeeps, MessageTypes
  <2> QED
    BY <1>0, <2>1, <2>2, AnsweringSame
<1>3. CASE Rejoin(p)
  <2>1. \A q \in Peer : /\ mail[q] \in Seq(Message)
                        /\ mail'[q] = Append(mail[q], [type |-> "peer-joined"])
    BY <1>0, <1>3 DEF Rejoin, TypeOK
  <2>2. \A q \in Peer : \A k \in DOMAIN mail[q] : k \in DOMAIN mail'[q] /\ mail'[q][k] = mail[q][k]
    BY <2>1
  <2>3. \A q \in Peer, m \in Message : In(q, m) => In(q, m)'
    BY <2>2 DEF In
  <2>4. lost' = lost
    BY <1>3 DEF Rejoin
  <2> QED
    BY <1>0, <2>3, <2>4, AnsweringSame
<1> QED
  BY <1>1, <1>2, <1>3

LEMMA AnsweringLeaves ==
  ASSUME Types, Roles, Answering, NEW p \in Peer, Leaves(p), lost' = lost,
         \A q \in Peer, m \in Message :
           m.type \in {"offer", "answer"} /\ In(q, m) => In(q, m)'
  PROVE  Answering'
<1> SUFFICES ASSUME ~ lost', NEW q \in Peer, Awaits(connection[q])'
             PROVE  Live(connection[q])'
  BY DEF Answering
<1>1. q # p /\ connection'[q] = connection[q] /\ ~ lost
  BY DEF Leaves, Awaits
<1>2. PICK c \in DOMAIN pcs : c = connection[q] /\ c = connection'[q]
  BY <1>1 DEF Awaits, Types, Named
<1>3. Awaits(c)
  BY <1>2 DEF Awaits, Leaves
<1>4. Live(c)
  BY <1>1, <1>2, <1>3 DEF Answering
<1>5. /\ c \in Id /\ pcs[c].owner \in Peer /\ Other(pcs[c].owner) \in Peer
      /\ \A j \in DOMAIN pcs : j \in Id
  BY <1>2, Ids, OtherIsPeer DEF Types
<1>6. PICK m \in Message : m = [type |-> "offer", from |-> c] /\ m.type = "offer"
  BY <1>5, MessageTypes
<1>7. PICK to \in Peer, back \in Peer : to = Other(pcs[c].owner) /\ back = pcs[c].owner
  BY <1>5
<1>8. In(to, m) => In(to, m)'
  BY <1>6
<1>9. \A j \in DOMAIN pcs : In(back, [type |-> "answer", from |-> j])
        => In(back, [type |-> "answer", from |-> j])'
  BY <1>5, MessageTypes
<1>10. /\ DOMAIN pcs' = DOMAIN pcs
       /\ \A k \in DOMAIN pcs :
            /\ pcs'[k].owner = pcs[k].owner /\ pcs'[k].role = pcs[k].role
            /\ pcs'[k].task = pcs[k].task /\ pcs'[k].remote = pcs[k].remote
  BY DEF Leaves
<1>11. Live(c)'
  BY <1>2, <1>4, <1>6, <1>7, <1>8, <1>9, <1>10 DEF Live
<1> QED
  BY <1>2, <1>11

LEMMA AnsweringMessage ==
  ASSUME Types, Roles, Answering, NEW p \in Peer,
         \/ HandleCandidate(p) \/ HandlePeerLeft(p) \/ HandlePeerJoined(p)
         \/ FinishCleanup(p)
  PROVE  Answering'
<1>0. TypeOK /\ lost' = lost
  BY DEF Types, HandleCandidate, HandlePeerLeft, HandlePeerJoined, FinishCleanup
<1>1. \A q \in Peer, m \in Message :
        m.type \in {"offer", "answer"} /\ In(q, m) => In(q, m)'
  <2>1. CASE FinishCleanup(p)
    BY <2>1 DEF FinishCleanup, In
  <2>2. CASE ~ FinishCleanup(p)
    <3>1. mail[p] # <<>> /\ mail' = Taken(p) /\ Head(mail[p]).type \notin {"offer", "answer"}
      BY <2>2 DEF HandleCandidate, HandlePeerLeft, HandlePeerJoined, Receives
    <3> QED
      BY <1>0, <3>1, TakeKeeps
  <2> QED
    BY <2>1, <2>2
<1>2. (pcs' = pcs /\ connection' = connection) \/ Leaves(p)
  BY <1>0, CloseLeaves DEF HandleCandidate, HandlePeerLeft, HandlePeerJoined,
                           FinishCleanup, record
<1> QED
  BY <1>0, <1>1, <1>2, AnsweringSame, AnsweringLeaves

LEMMA AnsweringStep ==
  ASSUME Types, Roles, Answering, [Next]_vars
  PROVE  Answering'
<1>1. CASE UNCHANGED vars
  <2>1. UNCHANGED <<pcs, connection, lost, mail>>
    BY <1>1 DEF vars, record
  <2> QED
    BY <2>1, AnsweringSame DEF In
<1>2. \A i \in DOMAIN pcs : SendAnswer(i) \/ Gather(i) \/ Connected(i) \/ Failed(i) => Answering'
  <2>1. TRUE \in BOOLEAN
    OBVIOUS
  <2> QED
    BY <2>1, AnsweringConnection
<1> QED
  BY <1>1, <1>2, AnsweringConnection, AnsweringSendOffer, AnsweringHandleAnswer,
     AnsweringServer, AnsweringMessage, AnsweringAdds, ClickAdds, HandleOfferAdds DEF Next

-----------------------------------------------------------------------------
\* Once an offer or an answer was lost, it stays lost.
LEMMA LostStays ==
  ASSUME [Next]_vars, lost
  PROVE  lost'
<1>1. CASE UNCHANGED vars
  BY <1>1 DEF vars
<1>2. ASSUME NEW p \in Peer, \/ Drop(p) \/ Notice(p) \/ Rejoin(p) \/ Click(p) \/ HandleOffer(p)
                             \/ HandleAnswer(p) \/ HandleCandidate(p) \/ HandlePeerLeft(p)
                             \/ FinishCleanup(p) \/ HandlePeerJoined(p)
      PROVE  lost'
  BY <1>2 DEF Drop, Notice, Rejoin, Click, HandleOffer, HandleAnswer, HandleCandidate,
              HandlePeerLeft, FinishCleanup, HandlePeerJoined
<1>3. ASSUME NEW i \in DOMAIN pcs, NEW throws \in BOOLEAN,
             \/ SendOffer(i) \/ ApplyOffer(i, throws) \/ SendAnswer(i)
             \/ Gather(i) \/ Connected(i) \/ Failed(i)
      PROVE  lost'
  BY <1>3 DEF SendOffer, ApplyOffer, SendAnswer, Gather, Connected, Failed, Relay
<1>4. TRUE \in BOOLEAN
  OBVIOUS
<1> QED
  BY <1>1, <1>2, <1>3, <1>4 DEF Next

LEMMA PhasesAlters ==
  ASSUME Types, Roles, Phases, lost => lost', NEW i \in DOMAIN pcs, Alters(i),
         pcs'[i].signaling # "closed" =>
           IF pcs[i].role = "offer"
           THEN pcs'[i].signaling # "have-remote-offer"
           ELSE ~ lost' /\ pcs'[i].task = "none" => pcs'[i].signaling = "stable"
  PROVE  Phases'
BY DEF Phases, Alters, Closed

LEMMA PhasesStep ==
  ASSUME Types, Roles, Phases, [Next]_vars
  PROVE  Phases'
<1>0. TypeOK /\ (lost => lost')
  BY LostStays DEF Types
<1>1. ASSUME UNCHANGED pcs PROVE Phases'
  BY <1>0, <1>1 DEF Phases, Closed
<1>2. ASSUME NEW i \in DOMAIN pcs, SendOffer(i) PROVE Phases'
  <2>1. /\ Alters(i) /\ pcs'[i].signaling \in {"closed", "have-local-offer"}
    BY <1>0, <1>2, SendOfferAlters
  <2>2. pcs[i].role = "offer"
    BY <1>2 DEF SendOffer
  <2> QED
    BY <1>0, <2>1, <2>2, PhasesAlters
<1>3. ASSUME NEW i \in DOMAIN pcs, NEW throws \in BOOLEAN, ApplyOffer(i, throws) PROVE Phases'
  <2>1. /\ Alters(i)
        /\ pcs'[i].task = IF Closed(i) \/ throws THEN "none" ELSE "create"
    BY <1>0, <1>3, ApplyOfferAlters
  <2>2. pcs[i].task = "apply" /\ (Closed(i) \/ throws => lost')
    BY <1>3 DEF ApplyOffer
  <2>3. pcs[i].role = "answer"
    BY <2>2, Tasks
  <2> QED
    BY <1>0, <2>1, <2>2, <2>3, PhasesAlters
<1>4. ASSUME NEW i \in DOMAIN pcs, SendAnswer(i) PROVE Phases'
  <2>1. /\ Alters(i) /\ pcs'[i].signaling \in {"closed", "stable"}
    BY <1>0, <1>4, SendAnswerAlters
  <2> QED
    BY <1>0, <2>1, PhasesAlters
<1>5. ASSUME NEW i \in DOMAIN pcs, Gather(i) \/ Connected(i) \/ Failed(i) PROVE Phases'
  <2>1. /\ Alters(i) /\ pcs'[i].signaling = pcs[i].signaling /\ pcs'[i].task = pcs[i].task
    <3>1. CASE Gather(i)
      BY <1>0, <3>1, GatherAlters
    <3>2. CASE Connected(i) \/ Failed(i)
      <4>1. PICK state \in {"connected", "failed"} : pcs' = [pcs EXCEPT ![i].state = state]
        BY <3>2 DEF Connected, Failed
      <4> QED
        BY <1>0, <4>1, StateAlters
    <3> QED
      BY <1>5, <3>1, <3>2
  <2> QED
    BY <1>0, <2>1, PhasesAlters DEF Phases, Closed
<1>6. ASSUME NEW p \in Peer, HandleAnswer(p) PROVE Phases'
  <2>1. CASE ~ Awaits(connection[p])
    BY <1>1, <1>6, <2>1 DEF HandleAnswer
  <2>2. CASE Awaits(connection[p])
    <3>1. PICK c \in DOMAIN pcs : Alters(c) /\ pcs'[c].signaling = "stable"
      BY <1>6, <2>2, HandleAnswerAlters
    <3> QED
      BY <1>0, <3>1, PhasesAlters
  <2> QED
    BY <2>1, <2>2
<1>7. ASSUME NEW p \in Peer, Leaves(p) PROVE Phases'
  BY <1>0, <1>7 DEF Phases, Closed, Leaves
<1>8. ASSUME NEW p \in Peer, NEW new, Adds(p, new) PROVE Phases'
  <2>1. /\ new.signaling = "stable"
        /\ DOMAIN pcs' = DOMAIN pcs \cup {Len(pcs) + 1} /\ pcs'[Len(pcs) + 1] = new
        /\ \A k \in DOMAIN pcs : pcs'[k] = pcs[k]
    BY <1>8 DEF Adds, Creates
  <2> QED
    BY <1>0, <2>1 DEF Phases, Closed
<1>9. ASSUME NEW p \in Peer, HandlePeerLeft(p) \/ FinishCleanup(p) PROVE Phases'
  BY <1>0, <1>1, <1>7, <1>9, CloseLeaves DEF HandlePeerLeft, FinishCleanup
<1>10. ASSUME NEW p \in Peer, Drop(p) \/ Notice(p) \/ Rejoin(p) \/ HandleCandidate(p)
                              \/ HandlePeerJoined(p)
       PROVE  Phases'
  BY <1>1, <1>10 DEF Drop, Notice, Rejoin, HandleCandidate, HandlePeerJoined
<1>11. CASE UNCHANGED vars
  BY <1>1, <1>11 DEF vars
<1> QED
  BY <1>2, <1>3, <1>4, <1>5, <1>6, <1>8, <1>9, <1>10, <1>11, ClickAdds, HandleOfferAdds DEF Next

-----------------------------------------------------------------------------
(* Who is listed *)

\* The page p lists the other one, or the last that it is about to hear of the
\* other one is that it joined.
ListsLast(p) ==
  \/ /\ p \in discovered
     /\ \A k \in DOMAIN mail[p] : mail[p][k].type # "peer-left"
  \/ \E k \in DOMAIN mail[p] :
       /\ mail[p][k].type = "peer-joined"
       /\ \A l \in DOMAIN mail[p] : l > k => mail[p][l].type # "peer-left"

Listed == online = Peer => \A p \in Peer : ListsLast(p)

LEMMA ListsPost ==
  ASSUME TypeOK, NEW p \in Peer, NEW n, n.type # "peer-left",
         mail'[p] = mail[p] \/ mail'[p] = Append(mail[p], n),
         p \in discovered => p \in discovered', ListsLast(p)
  PROVE  ListsLast(p)'
<1>1. mail[p] \in Seq(Message)
  BY DEF TypeOK
<1>2. CASE mail'[p] = mail[p]
  BY <1>2 DEF ListsLast
<1>3. CASE mail'[p] = Append(mail[p], n)
  <2>1. /\ DOMAIN mail'[p] = DOMAIN mail[p] \cup {Len(mail[p]) + 1}
        /\ mail'[p][Len(mail[p]) + 1] = n
        /\ \A k \in DOMAIN mail[p] : mail'[p][k] = mail[p][k]
    BY <1>1, <1>3
  <2> QED
    BY <2>1 DEF ListsLast
<1> QED
  BY <1>2, <1>3

LEMMA ListsJoined ==
  ASSUME TypeOK, NEW p \in Peer, NEW n, n.type = "peer-joined",
         mail'[p] = Append(mail[p], n)
  PROVE  ListsLast(p)'
<1>1. mail[p] \in Seq(Message) /\ Len(mail[p]) \in Nat
  BY DEF TypeOK
<1>2. /\ DOMAIN mail'[p] = 1 .. Len(mail[p]) + 1
      /\ mail'[p][Len(mail[p]) + 1] = n
  BY <1>1
<1>3. Len(mail[p]) + 1 \in DOMAIN mail'[p] /\ \A l \in DOMAIN mail'[p] : ~ (l > Len(mail[p]) + 1)
  BY <1>1, <1>2
<1> QED
  BY <1>2, <1>3 DEF ListsLast

LEMMA ListsTake ==
  ASSUME TypeOK, NEW p \in Peer, mail[p] # <<>>, mail'[p] = Tail(mail[p]),
         IF Head(mail[p]).type = "peer-joined" THEN p \in discovered'
         ELSE Head(mail[p]).type # "peer-left" => (p \in discovered => p \in discovered'),
         ListsLast(p)
  PROVE  ListsLast(p)'
<1>1. mail[p] \in Seq(Message) /\ Len(mail[p]) \in Nat /\ Len(mail[p]) # 0
  BY DEF TypeOK
<1>2. /\ DOMAIN mail[p] = 1 .. Len(mail[p]) /\ DOMAIN mail'[p] = 1 .. Len(mail[p]) - 1
      /\ \A k \in DOMAIN mail'[p] : k + 1 \in DOMAIN mail[p] /\ mail'[p][k] = mail[p][k + 1]
      /\ Head(mail[p]) = mail[p][1] /\ 1 \in DOMAIN mail[p]
  BY <1>1
<1>3. CASE p \in discovered /\ \A k \in DOMAIN mail[p] : mail[p][k].type # "peer-left"
  <2>1. p \in discovered'
    BY <1>2, <1>3
  <2>2. \A k \in DOMAIN mail'[p] : mail'[p][k].type # "peer-left"
    BY <1>2, <1>3
  <2> QED
    BY <2>1, <2>2 DEF ListsLast
<1>4. ASSUME NEW k \in DOMAIN mail[p], mail[p][k].type = "peer-joined",
             \A l \in DOMAIN mail[p] : l > k => mail[p][l].type # "peer-left"
      PROVE  ListsLast(p)'
  <2>1. CASE k = 1
    <3>1. p \in discovered'
      BY <1>2, <1>4, <2>1
    <3>2. \A l \in DOMAIN mail'[p] : mail'[p][l].type # "peer-left"
      <4> SUFFICES ASSUME NEW l \in DOMAIN mail'[p] PROVE mail'[p][l].type # "peer-left"
        OBVIOUS
      <4>1. l + 1 > k
        BY <1>1, <1>2, <2>1
      <4> QED
        BY <1>2, <1>4, <4>1
    <3> QED
      BY <3>1, <3>2 DEF ListsLast
  <2>2. CASE k # 1
    <3>1. k - 1 \in DOMAIN mail'[p] /\ mail'[p][k - 1] = mail[p][k]
      <4>1. k - 1 \in DOMAIN mail'[p] /\ (k - 1) + 1 = k
        BY <1>1, <1>2, <2>2
      <4> QED
        BY <1>2, <4>1
    <3>2. \A l \in DOMAIN mail'[p] : l > k - 1 => mail'[p][l].type # "peer-left"
      <4> SUFFICES ASSUME NEW l \in DOMAIN mail'[p], l > k - 1
                   PROVE  mail'[p][l].type # "peer-left"
        OBVIOUS
      <4>1. l + 1 > k
        BY <1>1, <1>2
      <4> QED
        BY <1>2, <1>4, <4>1
    <3> QED
      BY <1>4, <3>1, <3>2 DEF ListsLast
  <2> QED
    BY <2>1, <2>2
<1> QED
  BY <1>3, <1>4 DEF ListsLast

LEMMA ListedStep ==
  ASSUME Types, Listed, [Next]_vars
  PROVE  Listed'
<1> SUFFICES ASSUME online' = Peer, NEW q \in Peer
             PROVE  ListsLast(q)'
  BY DEF Listed
<1>0. TypeOK
  BY DEF Types
<1>1. CASE UNCHANGED vars
  BY <1>1 DEF vars, server, Listed, ListsLast
<1>2. ASSUME NEW p \in Peer, Drop(p) \/ Notice(p)
      PROVE  FALSE
  BY <1>2 DEF Drop, Notice
<1>3. ASSUME NEW p \in Peer, Rejoin(p)
      PROVE  ListsLast(q)'
  <2>1. PICK n : n = [type |-> "peer-joined"]
    OBVIOUS
  <2>2. mail'[q] = Append(mail[q], n) /\ n.type = "peer-joined"
    BY <1>0, <1>3, <2>1 DEF Rejoin
  <2> QED
    BY <1>0, <2>2, ListsJoined
<1>4. ASSUME online' = online, discovered' = discovered, mail' = mail
      PROVE  ListsLast(q)'
  BY <1>4 DEF Listed, ListsLast
<1>5. ASSUME NEW i \in DOMAIN pcs, NEW type \in {"offer", "answer", "candidate"},
             Relay(pcs[i].owner, [type |-> type, from |-> i]),
             online' = online, discovered' = discovered
      PROVE  ListsLast(q)'
  <2>1. PICK n : n = [type |-> type, from |-> i]
    OBVIOUS
  <2>2. n.type # "peer-left"
    BY <1>5, <2>1
  <2>3. mail'[q] = mail[q] \/ mail'[q] = Append(mail[q], n)
    BY <1>0, <1>5, <2>1 DEF Relay, TypeOK
  <2>4. ListsLast(q)
    BY <1>5 DEF Listed
  <2> QED
    BY <1>0, <1>5, <2>2, <2>3, <2>4, ListsPost
<1>6. ASSUME NEW p \in Peer, mail[p] # <<>>, mail' = Taken(p), online' = online,
             \A r \in Peer : r # p => (r \in discovered => r \in discovered'),
             IF Head(mail[p]).type = "peer-joined" THEN p \in discovered'
             ELSE Head(mail[p]).type # "peer-left" => (p \in discovered => p \in discovered')
      PROVE  ListsLast(q)'
  <2>1. ListsLast(q)
    BY <1>6 DEF Listed
  <2>2. mail'[p] = Tail(mail[p]) /\ (q # p => mail'[q] = mail[q])
    BY <1>0, <1>6 DEF Taken, TypeOK
  <2>3. CASE q = p
    BY <1>0, <1>6, <2>1, <2>2, <2>3, ListsTake
  <2>4. CASE q # p
    BY <1>6, <2>1, <2>2, <2>4 DEF ListsLast
  <2> QED
    BY <2>3, <2>4
<1>7. ASSUME NEW p \in Peer, HandleOffer(p) \/ HandleAnswer(p) \/ HandleCandidate(p)
                             \/ HandlePeerLeft(p) \/ HandlePeerJoined(p)
      PROVE  ListsLast(q)'
  <2>1. mail[p] # <<>> /\ mail' = Taken(p) /\ online' = online
    BY <1>7 DEF HandleOffer, HandleAnswer, HandleCandidate, HandlePeerLeft, HandlePeerJoined,
                Receives, server
  <2>2. CASE HandlePeerJoined(p)
    BY <1>6, <2>1, <2>2 DEF HandlePeerJoined, Receives
  <2>3. CASE HandlePeerLeft(p)
    BY <1>6, <2>1, <2>3 DEF HandlePeerLeft, Receives
  <2>4. CASE HandleOffer(p) \/ HandleAnswer(p) \/ HandleCandidate(p)
    BY <1>6, <2>1, <2>4 DEF HandleOffer, HandleAnswer, HandleCandidate, Receives
  <2> QED
    BY <1>7, <2>2, <2>3, <2>4
<1>8. ASSUME NEW p \in Peer, Click(p) \/ FinishCleanup(p)
      PROVE  ListsLast(q)'
  BY <1>4, <1>8 DEF Click, FinishCleanup, server
<1>9. ASSUME NEW i \in DOMAIN pcs, NEW throws \in BOOLEAN,
             \/ SendOffer(i) \/ ApplyOffer(i, throws) \/ SendAnswer(i)
             \/ Gather(i) \/ Connected(i) \/ Failed(i)
      PROVE  ListsLast(q)'
  <2>1. online' = online /\ discovered' = discovered
    BY <1>9 DEF SendOffer, ApplyOffer, SendAnswer, Gather, Connected, Failed, server
  <2>2. mail' = mail \/ \E type \in {"offer", "answer", "candidate"} :
                          Relay(pcs[i].owner, [type |-> type, from |-> i])
    BY <1>9 DEF SendOffer, ApplyOffer, SendAnswer, Gather, Connected, Failed
  <2> QED
    BY <1>4, <1>5, <2>1, <2>2
<1>10. TRUE \in BOOLEAN
  OBVIOUS
<1> QED
  BY <1>1, <1>2, <1>3, <1>7, <1>8, <1>9, <1>10 DEF Next

-----------------------------------------------------------------------------
\* What is left to do: without it, at rest, a record is one that can be used.
Rest == Phases /\ Answering /\ Listed

\* At rest and with nothing lost, what a record names has its descriptions.
LEMMA NamedNegotiated ==
  ASSUME Types, Roles, Order, Rest, AtRest, ~ lost, NEW p \in Peer, connection[p] # 0
  PROVE  Negotiated(connection[p])
<1>1. PICK c \in DOMAIN pcs : c = connection[p]
  BY DEF Types, Named
<1>2. ~ Closed(c) /\ pcs[c].task = "none"
  BY <1>1 DEF Order, Intact, AtRest, Settled
<1>3. pcs[c].signaling # "have-local-offer"
  <2> SUFFICES ASSUME pcs[c].signaling = "have-local-offer" PROVE FALSE
    OBVIOUS
  <2>1. Live(c)
    BY <1>1 DEF Rest, Answering, Awaits
  <2> QED
    BY <1>1, <2>1, SettledLive DEF AtRest
<1>4. pcs[c].role \in {"offer", "answer"}
      /\ pcs[c].signaling \in {"stable", "have-local-offer", "have-remote-offer", "closed"}
  BY Ids DEF Types, Connection
<1> QED
  BY <1>1, <1>2, <1>3, <1>4 DEF Rest, Phases, Negotiated, Closed

LEMMA RestMoves ==
  ASSUME Types, Roles, Order, Rest
  PROVE  NoneStuck
<1> SUFFICES ASSUME AtRest, ~ lost, NEW p \in Peer, ~ MayConnect(p)
             PROVE  Works(connection[p])
  BY DEF NoneStuck
<1>1. PICK c \in DOMAIN pcs : c = connection[p] /\ pcs[c].state # "failed"
  BY DEF MayConnect, Types, Named
<1>2. c # 0
  BY <1>1 DEF MayConnect
<1>3. Negotiated(c)
  BY <1>1, <1>2, NamedNegotiated
<1> QED
  BY <1>1, <1>3 DEF AtRest

LEMMA RestRecovers ==
  ASSUME Types, Roles, Order, Rest
  PROVE  Recoverable
<1> SUFFICES ASSUME AtRest, ~ lost, \A p \in Peer : ~ Clickable(p),
                    \A p \in Peer : ~ Overtaken(p), NEW p \in Peer
             PROVE  HasChannel(p)
  BY DEF Recoverable
<1>1. \A q \in Peer : q \in discovered
  BY DEF Rest, Listed, ListsLast, AtRest, Settled
<1>2. \A q \in Peer : connection[q] # 0 /\ Works(connection[q])
  BY <1>1, RestMoves DEF Clickable, MayConnect, NoneStuck
<1>3. PICK c, d : c = connection[p] /\ d = connection[Other(p)]
  OBVIOUS
<1>4. /\ c # 0 /\ d # 0 /\ Works(c) /\ Works(d) /\ c \in DOMAIN pcs /\ ~ pcs[c].shut /\ ~ pcs[d].shut
  BY <1>2, <1>3, OtherIsPeer DEF Types, Named, Order, Intact
<1>5. pcs[c].remote = d
  BY <1>3, <1>4, OrderMeets DEF RecordsMeet
<1>6. dataChannel[p] = c
  BY <1>3, <1>4 DEF Overtaken
<1>7. pcs[c].state = "connected"
  BY <1>4 DEF AtRest, Works, Matched
<1> QED
  BY <1>4, <1>5, <1>6, <1>7 DEF HasChannel

-----------------------------------------------------------------------------
(* Offers that cross *)

OfferOf(i) == [type |-> "offer", from |-> i]

NoOffer(q) == \A n \in DOMAIN mail[q] : mail[q][n].type # "offer"

\* No offer follows the one of i in the mail of q.
LastOffer(q, i) ==
  \A n \in DOMAIN mail[q] : mail[q][n] = OfferOf(i) =>
    \A l \in DOMAIN mail[q] : l > n => mail[q][l].type # "offer"

\* The offer of i has reached the other page.
Handled(i) == \E r \in DOMAIN pcs : pcs[r].role = "answer" /\ pcs[r].remote = i

\* The offer of i is the last that its page sent.
OfferLast(i) ==
  LET q == Other(pcs[i].owner) IN
  /\ LastOffer(q, i)
  /\ pcs[i].task # "none" => ~ In(q, OfferOf(i)) /\ ~ Handled(i)
  /\ Handled(i) => NoOffer(q)

OffersLast == \A i \in DOMAIN pcs : pcs[i].role = "offer" /\ ~ Closed(i) => OfferLast(i)

\* Mail of q is taken, lost or added, but no offer is added.
Trims(q) ==
  \/ mail'[q] = mail[q]
  \/ mail'[q] = <<>>
  \/ mail[q] # <<>> /\ mail'[q] = Tail(mail[q])
  \/ \E n : n.type # "offer" /\ mail'[q] = Append(mail[q], n)

LEMMA TrimsOffers ==
  ASSUME TypeOK, NEW q \in Peer, NEW i, Trims(q)
  PROVE  /\ NoOffer(q) => NoOffer(q)'
         /\ LastOffer(q, i) => LastOffer(q, i)'
         /\ In(q, OfferOf(i))' => In(q, OfferOf(i))
<1>0. mail[q] \in Seq(Message) /\ Len(mail[q]) \in Nat /\ OfferOf(i).type = "offer"
  BY DEF TypeOK, OfferOf
<1>1. CASE mail'[q] = mail[q]
  BY <1>1 DEF NoOffer, LastOffer, In, OfferOf
<1>2. CASE mail'[q] = <<>>
  BY <1>2 DEF NoOffer, LastOffer, In
<1>3. CASE mail[q] # <<>> /\ mail'[q] = Tail(mail[q])
  <2>1. /\ DOMAIN mail[q] = 1 .. Len(mail[q]) /\ DOMAIN mail'[q] = 1 .. Len(mail[q]) - 1
        /\ \A k \in DOMAIN mail'[q] : k + 1 \in DOMAIN mail[q] /\ mail'[q][k] = mail[q][k + 1]
    BY <1>0, <1>3
  <2>2. \A k, l \in DOMAIN mail'[q] : l > k => l + 1 > k + 1
    BY <1>0, <2>1
  <2>3. NoOffer(q) => NoOffer(q)'
    BY <2>1 DEF NoOffer
  <2>4. LastOffer(q, i) => LastOffer(q, i)'
    BY <2>1, <2>2 DEF LastOffer, OfferOf
  <2>5. In(q, OfferOf(i))' => In(q, OfferOf(i))
    BY <2>1 DEF In, OfferOf
  <2> QED
    BY <2>3, <2>4, <2>5
<1>4. ASSUME NEW n, n.type # "offer", mail'[q] = Append(mail[q], n)
      PROVE  /\ NoOffer(q) => NoOffer(q)'
             /\ LastOffer(q, i) => LastOffer(q, i)'
             /\ In(q, OfferOf(i))' => In(q, OfferOf(i))
  <2>1. /\ DOMAIN mail'[q] = DOMAIN mail[q] \cup {Len(mail[q]) + 1}
        /\ mail'[q][Len(mail[q]) + 1] = n
        /\ \A k \in DOMAIN mail[q] : mail'[q][k] = mail[q][k]
    BY <1>0, <1>4
  <2>2. n # OfferOf(i)
    BY <1>0, <1>4
  <2>3. NoOffer(q) => NoOffer(q)'
    BY <1>4, <2>1 DEF NoOffer
  <2>4. LastOffer(q, i) => LastOffer(q, i)'
    BY <1>4, <2>1, <2>2 DEF LastOffer, OfferOf
  <2>5. In(q, OfferOf(i))' => In(q, OfferOf(i))
    BY <2>1, <2>2 DEF In, OfferOf
  <2> QED
    BY <2>3, <2>4, <2>5
<1> QED
  BY <1>1, <1>2, <1>3, <1>4 DEF Trims

\* Only a connection that offers adds an offer to the mail.
LEMMA NextTrims ==
  ASSUME Types, [Next]_vars, \A i \in DOMAIN pcs : ~ SendOffer(i)
  PROVE  \A q \in Peer : Trims(q)
<1> SUFFICES ASSUME NEW q \in Peer PROVE Trims(q)
  OBVIOUS
<1>0. TypeOK
  BY DEF Types
<1>1. mail' = mail => Trims(q)
  BY DEF Trims
<1>2. ASSUME NEW p \in Peer, mail[p] # <<>>, mail' = Taken(p)
      PROVE  Trims(q)
  BY <1>0, <1>2 DEF Trims, Taken, TypeOK
<1>3. ASSUME NEW p, NEW n, n.type # "offer", Relay(p, n)
      PROVE  Trims(q)
  BY <1>0, <1>3 DEF Relay, Trims, TypeOK
<1>4. ASSUME NEW p \in Peer, Drop(p) \/ Notice(p) \/ Rejoin(p)
      PROVE  Trims(q)
  <2>1. PICK n, m : n = [type |-> "peer-left"] /\ m = [type |-> "peer-joined"]
    OBVIOUS
  <2>2. n.type # "offer" /\ m.type # "offer"
    BY <2>1
  <2>3. \/ mail'[q] = mail[q] \/ mail'[q] = <<>>
        \/ mail'[q] = Append(mail[q], n) \/ mail'[q] = Append(mail[q], m)
    BY <1>0, <1>4, <2>1 DEF Drop, Notice, Rejoin, TypeOK
  <2> QED
    BY <2>2, <2>3 DEF Trims
<1>5. ASSUME NEW p \in Peer,
             \/ HandleOffer(p) \/ HandleAnswer(p) \/ HandleCandidate(p)
             \/ HandlePeerLeft(p) \/ HandlePeerJoined(p)
      PROVE  Trims(q)
  <2>1. mail[p] # <<>> /\ mail' = Taken(p)
    BY <1>5 DEF HandleOffer, HandleAnswer, HandleCandidate, HandlePeerLeft, HandlePeerJoined,
                Receives
  <2> QED
    BY <1>2, <2>1
<1>6. ASSUME NEW p \in Peer, Click(p) \/ FinishCleanup(p)
      PROVE  Trims(q)
  BY <1>1, <1>6 DEF Click, FinishCleanup
<1>7. ASSUME NEW i \in DOMAIN pcs, NEW throws \in BOOLEAN,
             ApplyOffer(i, throws) \/ Connected(i) \/ Failed(i)
      PROVE  Trims(q)
  BY <1>1, <1>7 DEF ApplyOffer, Connected, Failed
<1>8. ASSUME NEW i \in DOMAIN pcs, SendAnswer(i) \/ Gather(i)
      PROVE  Trims(q)
  <2>1. PICK n, m : /\ n = [type |-> "answer", from |-> i]
                    /\ m = [type |-> "candidate", from |-> i]
    OBVIOUS
  <2>2. n.type # "offer" /\ m.type # "offer"
    BY <2>1
  <2>3. mail' = mail \/ Relay(pcs[i].owner, n) \/ Relay(pcs[i].owner, m)
    BY <1>8, <2>1 DEF SendAnswer, Gather
  <2> QED
    BY <1>1, <1>3, <2>2, <2>3
<1>9. CASE UNCHANGED vars
  BY <1>1, <1>9 DEF vars
<1>10. TRUE \in BOOLEAN
  OBVIOUS
<1> QED
  BY <1>4, <1>5, <1>6, <1>7, <1>8, <1>9, <1>10 DEF Next

LEMMA AgainStays ==
  ASSUME Types, Roles, Order, [Next]_vars, OfferedAgain
  PROVE  OfferedAgain'
<1>1. PICK i \in DOMAIN pcs, k \in DOMAIN pcs :
        /\ i < k /\ pcs[i].owner = pcs[k].owner
        /\ pcs[i].role = "offer" /\ pcs[k].role = "offer" /\ ~ Closed(i)
  BY DEF OfferedAgain
<1>2. i \in Nat \ {0} /\ k \in Nat \ {0} /\ pcs[i].owner \in Peer
  BY <1>1, Numbers
<1>3. CASE Stays
  BY <1>1, <1>3 DEF Stays, OfferedAgain, Closed
<1>4. ASSUME NEW p \in Peer, Leaves(p)
      PROVE  OfferedAgain'
  <2>1. i # connection[p]
    <3> SUFFICES ASSUME i = connection[p] PROVE FALSE
      OBVIOUS
    <3>1. pcs[i].owner = p
      BY <1>2 DEF Types, Named
    <3>2. k <= i
      BY <1>1, <1>2, <3>1 DEF Order, Newest
    <3> QED
      BY <1>1, <1>2, <3>2
  <2> QED
    BY <1>1, <1>4, <2>1 DEF Leaves, OfferedAgain, Closed
<1>5. ASSUME NEW p \in Peer, NEW new, Adds(p, new)
      PROVE  OfferedAgain'
  BY <1>1, <1>5 DEF Adds, Creates, OfferedAgain, Closed
<1> QED
  BY <1>3, <1>4, <1>5, StepKinds

\* The two connections that a page has open and offers with are one.
LEMMA OneOpenOffer ==
  ASSUME Types, Roles, ~ OfferedAgain, NEW i \in DOMAIN pcs, NEW j \in DOMAIN pcs,
         pcs[i].owner = pcs[j].owner, pcs[i].role = "offer", pcs[j].role = "offer",
         ~ Closed(i), ~ Closed(j)
  PROVE  i = j
<1>1. i \in Nat /\ j \in Nat
  BY Numbers
<1> QED
  BY <1>1 DEF OfferedAgain

-----------------------------------------------------------------------------
(* The offers in the mail *)

LEMMA OffersKept ==
  ASSUME Types, Roles, OffersLast, Stays \/ \E p \in Peer : Leaves(p),
         NEW i \in DOMAIN pcs, pcs[i].role = "offer", ~ Closed(i)',
         Trims(Other(pcs[i].owner))
  PROVE  OfferLast(i)'
<1>1. PICK q \in Peer : q = Other(pcs[i].owner)
  BY Tasks
<1>2. /\ ~ Closed(i) /\ pcs'[i].owner = pcs[i].owner
      /\ pcs'[i].task # "none" => pcs[i].task # "none"
      /\ DOMAIN pcs' = DOMAIN pcs
      /\ \A r \in DOMAIN pcs : pcs'[r].role = pcs[r].role
      /\ \A r \in DOMAIN pcs : pcs[r].role = "answer" => pcs'[r].remote = pcs[r].remote
  BY DEF Stays, Leaves, Closed, IsTold
<1>3. OfferLast(i)
  BY <1>2 DEF OffersLast
<1>4. Handled(i)' => Handled(i)
  BY <1>2 DEF Handled
<1>5. /\ NoOffer(q) => NoOffer(q)'
      /\ LastOffer(q, i) => LastOffer(q, i)'
      /\ In(q, OfferOf(i))' => In(q, OfferOf(i))
  BY <1>1, TrimsOffers DEF Types
<1>6. q = Other(pcs'[i].owner)
  BY <1>1, <1>2
<1> QED
  BY <1>1, <1>2, <1>3, <1>4, <1>5, <1>6 DEF OfferLast

\* An offer that is sent: its page has no other open one.
LEMMA OffersSent ==
  ASSUME Types, Roles, OffersLast, ~ OfferedAgain, NEW j \in DOMAIN pcs, SendOffer(j)
  PROVE  OffersLast'
<1>0. TypeOK /\ pcs[j].role = "offer" /\ pcs[j].task = "create" /\ Stays
  <2>1. TRUE \in BOOLEAN
    OBVIOUS
  <2> QED
    BY <2>1, ConnectionStays DEF Types, SendOffer
<1>1. Alters(j) /\ pcs'[j].task = "none"
  BY <1>0, SendOfferAlters
<1>2. PICK to \in Peer : to = Other(pcs[j].owner) /\ pcs[j].owner \in Peer
  BY Tasks
<1>3. PICK n : n = OfferOf(j)
  OBVIOUS
<1>4. /\ \A q \in Peer : q # to => mail'[q] = mail[q]
      /\ mail'[to] = mail[to] \/ (~ Closed(j) /\ mail'[to] = Append(mail[to], n))
  BY <1>0, <1>2, <1>3 DEF SendOffer, Relay, TypeOK, OfferOf
<1> SUFFICES ASSUME NEW i \in DOMAIN pcs, pcs[i].role = "offer", ~ Closed(i)'
             PROVE  OfferLast(i)'
  BY <1>0 DEF OffersLast, Stays
<1>5. PICK q \in Peer : q = Other(pcs[i].owner) /\ pcs[i].owner \in Peer
  BY Tasks
<1>6. CASE mail'[q] = mail[q]
  BY <1>0, <1>5, <1>6, OffersKept DEF Trims
<1>7. CASE mail'[q] # mail[q]
  <2>1. q = to /\ ~ Closed(j) /\ mail'[to] = Append(mail[to], n)
    BY <1>4, <1>7
  <2>2. pcs[i].owner = pcs[j].owner
    <3>1. pcs[i].owner = Other(q) /\ pcs[j].owner = Other(to)
      BY <1>2, <1>5, OtherIsPeer
    <3> QED
      BY <2>1, <3>1
  <2>3. ~ Closed(i)
    BY <1>0 DEF Stays, Closed
  <2>4. i = j
    BY <1>0, <2>1, <2>2, <2>3, OneOpenOffer
  <2>5. OfferLast(i)
    BY <2>3 DEF OffersLast
  <2>6. ~ In(q, OfferOf(i)) /\ ~ Handled(i)
    BY <1>0, <1>5, <2>4, <2>5 DEF OfferLast
  <2>7. ~ Handled(i)'
    BY <1>0, <2>6 DEF Handled, Stays, IsTold
  <2>8. mail[q] \in Seq(Message) /\ Len(mail[q]) \in Nat
    BY <1>0 DEF TypeOK
  <2>9. /\ DOMAIN mail'[q] = DOMAIN mail[q] \cup {Len(mail[q]) + 1}
        /\ \A k \in DOMAIN mail[q] : mail'[q][k] = mail[q][k]
        /\ \A k \in DOMAIN mail'[q] : ~ (k > Len(mail[q]) + 1)
    BY <2>1, <2>8
  <2>10. \A k \in DOMAIN mail[q] : mail[q][k] # OfferOf(i)
    BY <2>6 DEF In
  <2>11. LastOffer(q, i)'
    BY <2>9, <2>10 DEF LastOffer, OfferOf
  <2>12. q = Other(pcs'[i].owner) /\ pcs'[i].task = "none"
    BY <1>1, <1>5, <2>4 DEF Alters
  <2> QED
    BY <2>7, <2>11, <2>12 DEF OfferLast
<1> QED
  BY <1>6, <1>7

\* A page that adds a connection to offer, or one to answer its first offer
LEMMA OffersAdded ==
  ASSUME Types, Roles, OffersLast, NEW p \in Peer, NEW new, Adds(p, new),
         \A q \in Peer : Trims(q)
  PROVE  OffersLast'
<1>m. PICK m : m = Len(pcs) + 1
  OBVIOUS
<1>0. /\ TypeOK
      /\ DOMAIN pcs' = DOMAIN pcs \cup {m} /\ pcs'[m] = new /\ m \notin DOMAIN pcs
      /\ \A k \in DOMAIN pcs : pcs'[k] = pcs[k]
      /\ new.role \in {"offer", "answer"} /\ new.owner = p
  BY <1>m DEF Adds, Creates, Connection, Types
<1>1. CASE new.role = "offer"
  <2>1. new.remote = 0 /\ mail' = mail
    BY <1>1 DEF Adds
  <2>2. ASSUME NEW i \in DOMAIN pcs, pcs[i].role = "offer", ~ Closed(i)'
        PROVE  OfferLast(i)'
    <3>1. OfferLast(i) /\ pcs'[i] = pcs[i]
      BY <1>0, <2>2 DEF OffersLast, Closed
    <3>2. Handled(i)' => Handled(i)
      BY <1>0, <1>1 DEF Handled
    <3> QED
      BY <2>1, <3>1, <3>2 DEF OfferLast, LastOffer, NoOffer, In
  <2>3. OfferLast(m)'
    <3>1. ~ Handled(m)'
      BY <1>0, <1>1 DEF Handled, Roles, Answers
    <3>2. \A q \in Peer : ~ In(q, OfferOf(m))'
      <4> SUFFICES ASSUME NEW q \in Peer, NEW k \in DOMAIN mail[q], mail[q][k] = OfferOf(m)
                   PROVE  FALSE
        BY <2>1 DEF In, OfferOf
      <4>1. PICK n \in Message : n = mail[q][k] /\ In(q, n)
        BY <1>0 DEF In, TypeOK
      <4>2. n.type = "offer" /\ n.from = m
        BY <4>1 DEF OfferOf
      <4>3. m \in DOMAIN pcs
        BY <4>1, <4>2 DEF Roles
      <4> QED
        BY <1>0, <4>3
    <3>3. PICK q \in Peer : q = Other(pcs'[m].owner)
      BY <1>0, OtherIsPeer
    <3>4. LastOffer(q, m)'
      BY <3>2 DEF LastOffer, In, OfferOf
    <3> QED
      BY <3>1, <3>2, <3>3, <3>4 DEF OfferLast
  <2> QED
    BY <1>0, <2>2, <2>3 DEF OffersLast
<1>2. CASE new.role = "answer"
  <2>1. /\ new.remote \in DOMAIN pcs /\ pcs[new.remote].owner = Other(p)
        /\ mail[p] # <<>> /\ Head(mail[p]) = OfferOf(new.remote) /\ mail' = Taken(p)
    BY <1>2 DEF Adds, OfferOf
  <2>2. /\ mail[p] \in Seq(Message) /\ mail'[p] = Tail(mail[p]) /\ Len(mail[p]) \in Nat
        /\ Len(mail[p]) # 0
    BY <1>0, <2>1 DEF TypeOK, Taken
  <2>3. /\ 1 \in DOMAIN mail[p] /\ mail[p][1] = OfferOf(new.remote)
        /\ \A k \in DOMAIN mail'[p] : /\ k + 1 \in DOMAIN mail[p] /\ mail'[p][k] = mail[p][k + 1]
                                      /\ k + 1 > 1
    BY <2>1, <2>2
  <2>4. OfferOf(new.remote).type = "offer"
    BY DEF OfferOf
  <2> SUFFICES ASSUME NEW i \in DOMAIN pcs, pcs[i].role = "offer", ~ Closed(i)'
               PROVE  OfferLast(i)'
    BY <1>0, <1>2 DEF OffersLast
  <2>5. PICK q \in Peer : q = Other(pcs[i].owner) /\ pcs[i].owner \in Peer
    BY Tasks
  <2>6. OfferLast(i) /\ pcs'[i] = pcs[i]
    BY <1>0 DEF OffersLast, Closed
  <2>7. /\ NoOffer(q) => NoOffer(q)'
        /\ LastOffer(q, i) => LastOffer(q, i)'
        /\ In(q, OfferOf(i))' => In(q, OfferOf(i))
    BY <1>0, TrimsOffers
  <2>8. CASE i = new.remote
    <3>1. q = p
      BY <2>1, <2>5, <2>8, OtherIsPeer
    <3>2. In(q, OfferOf(i))
      BY <2>3, <2>8, <3>1 DEF In
    <3>3. pcs[i].task = "none" /\ LastOffer(q, i)
      BY <2>5, <2>6, <3>2 DEF OfferLast
    <3>4. NoOffer(q)'
      BY <2>3, <2>8, <3>1, <3>3 DEF NoOffer, LastOffer
    <3> QED
      BY <2>5, <2>6, <2>7, <3>3, <3>4 DEF OfferLast
  <2>9. CASE i # new.remote
    <3>1. Handled(i)' => Handled(i)
      BY <1>0, <2>9 DEF Handled
    <3> QED
      BY <2>5, <2>6, <2>7, <3>1 DEF OfferLast
  <2> QED
    BY <2>8, <2>9
<1> QED
  BY <1>0, <1>1, <1>2

LEMMA OffersLastStep ==
  ASSUME Types, Roles, OffersLast, ~ OfferedAgain, [Next]_vars
  PROVE  OffersLast'
<1>1. ASSUME NEW j \in DOMAIN pcs, SendOffer(j) PROVE OffersLast'
  BY <1>1, OffersSent
<1>2. CASE \A j \in DOMAIN pcs : ~ SendOffer(j)
  <2>1. \A q \in Peer : Trims(q)
    BY <1>2, NextTrims
  <2>2. CASE Stays \/ \E p \in Peer : Leaves(p)
    <3> SUFFICES ASSUME NEW i \in DOMAIN pcs', pcs'[i].role = "offer", ~ Closed(i)'
                 PROVE  OfferLast(i)'
      BY DEF OffersLast
    <3>1. i \in DOMAIN pcs /\ pcs[i].role = "offer"
      BY <2>2 DEF Stays, Leaves
    <3>2. Trims(Other(pcs[i].owner))
      BY <2>1, <3>1, Tasks
    <3> QED
      BY <2>2, <3>1, <3>2, OffersKept
  <2> QED
    BY <2>1, <2>2, OffersAdded, StepKinds
<1> QED
  BY <1>1, <1>2

-----------------------------------------------------------------------------
(* Connections that answer *)

\* The connection i answers one that is open, and has not failed.
AnswersOpen(i) ==
  /\ pcs[i].role = "answer"
  /\ ~ Closed(i) /\ ~ Closed(pcs[i].remote)
  /\ pcs[i].state # "failed"

\* The offer i and the answer c know each other.
Coupled(i, c) ==
  /\ pcs[i].role = "offer" /\ pcs[c].role = "answer"
  /\ pcs[i].remote = c /\ pcs[c].remote = i
  /\ ~ Closed(i) /\ ~ Closed(c)
  /\ pcs[c].state # "failed"

AnswersNamed == \A r \in DOMAIN pcs : AnswersOpen(r) => connection[pcs[r].owner] = r

OffersChannel ==
  \A p \in Peer : connection[p] # 0 /\ pcs[connection[p]].role = "offer" =>
    dataChannel[p] = connection[p]

\* A page has its channel of two that know each other, or has closed it.
CoupledChannel ==
  \A i, c \in DOMAIN pcs : Coupled(i, c) => dataChannel[pcs[i].owner] = i \/ pcs[i].shut

\* Of two connections of a page only one is coupled, if one offers and one answers.
CoupledOnce ==
  \A i, c, j, m \in DOMAIN pcs :
    Coupled(i, c) /\ Coupled(j, m) => pcs[i].owner # pcs[m].owner

AnswersChannel ==
  \A r \in DOMAIN pcs : AnswersOpen(r) /\ pcs[r].state = "connected" =>
    dataChannel[pcs[r].owner] = r \/ pcs[r].shut

\* Of a connection that answers and the one that offered to it, what the records name.
Crossing ==
  /\ OffersLast /\ AnswersNamed /\ OffersChannel
  /\ CoupledChannel /\ CoupledOnce /\ AnswersChannel

\* What comes up is open at both ends.
LEMMA UpOpen ==
  ASSUME Types, Roles, Order, NEW k \in DOMAIN pcs, ComesUp(k)
  PROVE  /\ pcs[k].role = "answer" =>
              /\ AnswersOpen(k)
              /\ pcs[k].remote \in DOMAIN pcs /\ Coupled(pcs[k].remote, k)
         /\ pcs[k].state = "new"
<1>1. PICK j : j = pcs[k].remote
  OBVIOUS
<1>2. /\ Negotiated(k) /\ Negotiated(j) /\ pcs[j].remote = k /\ pcs[k].state = "new"
  BY <1>1 DEF ComesUp, Works, Matched
<1>3. ~ Closed(k) /\ ~ Closed(j)
  BY <1>2 DEF Negotiated, Closed
<1>4. pcs[k].role = "answer" => j \in DOMAIN pcs /\ pcs[j].role = "offer"
  BY <1>1 DEF Roles, Answers
<1> QED
  BY <1>1, <1>2, <1>3, <1>4 DEF AnswersOpen, Coupled

LEMMA CoupledAnswers ==
  ASSUME NEW i, NEW c, Coupled(i, c)
  PROVE  AnswersOpen(c)
BY DEF Coupled, AnswersOpen

-----------------------------------------------------------------------------
(* A step that neither creates nor closes *)

LEMMA AnswersOpenStays ==
  ASSUME Types, Roles, Stays, NEW r \in DOMAIN pcs, AnswersOpen(r)'
  PROVE  AnswersOpen(r)
<1>1. pcs[r].role = "answer" /\ pcs'[r].remote = pcs[r].remote /\ pcs[r].remote \in DOMAIN pcs
  BY DEF Stays, IsTold, AnswersOpen, Roles, Answers
<1> QED
  BY <1>1 DEF Stays, AnswersOpen, Closed

LEMMA CoupledStays ==
  ASSUME Types, Roles, Stays, NEW i \in DOMAIN pcs, NEW c \in DOMAIN pcs, Coupled(i, c)'
  PROVE  AnswersOpen(c) /\ (Coupled(i, c) \/ IsTold(i))
<1>1. AnswersOpen(c)'
  BY CoupledAnswers DEF Coupled, AnswersOpen
<1>2. AnswersOpen(c)
  BY <1>1, AnswersOpenStays
<1>3. pcs'[i].remote = pcs[i].remote \/ IsTold(i)
  BY DEF Stays
<1>4. pcs'[c].remote = pcs[c].remote /\ pcs[i].role = "offer" /\ pcs[c].role = "answer"
  BY DEF Stays, IsTold, Coupled
<1> QED
  BY <1>2, <1>3, <1>4 DEF Stays, Coupled, Closed

LEMMA CrossingStays ==
  ASSUME Types, Roles, Order, Crossing, Stays
  PROVE  AnswersNamed' /\ OffersChannel' /\ CoupledChannel' /\ CoupledOnce' /\ AnswersChannel'
<1>0. \A k \in DOMAIN pcs : pcs[k].owner \in Peer
  BY Numbers
\* An answer comes up only on a page whose record names it.
<1>1. ASSUME NEW p \in Peer, dataChannel'[p] # dataChannel[p]
      PROVE  /\ dataChannel'[p] = connection[p]
             /\ connection[p] \in DOMAIN pcs
             /\ pcs[connection[p]].owner = p
             /\ pcs[connection[p]].role = "answer"
             /\ \E j \in DOMAIN pcs : Coupled(j, connection[p])
  <2>1. PICK m \in DOMAIN pcs : /\ m = dataChannel'[p] /\ pcs[m].owner = p
                                /\ pcs[m].role = "answer" /\ ComesUp(m)
    BY <1>1 DEF Stays
  <2>2. AnswersOpen(m) /\ \E j \in DOMAIN pcs : Coupled(j, m)
    BY <2>1, UpOpen
  <2>3. connection[p] = m
    BY <2>1, <2>2 DEF Crossing, AnswersNamed
  <2> QED
    BY <2>1, <2>2, <2>3
<1>2. AnswersNamed'
  <2> SUFFICES ASSUME NEW r \in DOMAIN pcs, AnswersOpen(r)'
               PROVE  connection'[pcs'[r].owner] = r
    BY DEF AnswersNamed, Stays
  <2>1. AnswersOpen(r)
    BY AnswersOpenStays
  <2> QED
    BY <2>1 DEF Crossing, AnswersNamed, Stays
<1>3. OffersChannel'
  <2> SUFFICES ASSUME NEW p \in Peer, connection[p] # 0, pcs'[connection[p]].role = "offer"
               PROVE  dataChannel'[p] = connection[p]
    BY DEF OffersChannel, Stays
  <2>1. connection[p] \in DOMAIN pcs
    BY DEF Types, Named
  <2>2. pcs[connection[p]].role = "offer"
    BY <2>1 DEF Stays
  <2>3. dataChannel'[p] = dataChannel[p]
    BY <1>1, <2>2
  <2> QED
    BY <2>2, <2>3 DEF Crossing, OffersChannel
<1>4. CoupledChannel'
  <2> SUFFICES ASSUME NEW i \in DOMAIN pcs, NEW c \in DOMAIN pcs, Coupled(i, c)'
               PROVE  dataChannel'[pcs[i].owner] = i \/ pcs[i].shut
    BY DEF CoupledChannel, Stays
  <2>1. PICK p \in Peer : p = pcs[i].owner
    BY <1>0
  <2>2. CASE IsTold(i)
    <3>1. connection[p] = i /\ pcs[i].role = "offer"
      BY <2>1, <2>2 DEF IsTold
    <3>2. i # 0
      BY Numbers
    <3>3. dataChannel[p] = i
      BY <3>1, <3>2 DEF Crossing, OffersChannel
    <3>4. dataChannel'[p] = dataChannel[p]
      BY <1>1, <3>1
    <3> QED
      BY <2>1, <3>3, <3>4
  <2>3. CASE Coupled(i, c)
    <3>1. dataChannel[p] = i \/ pcs[i].shut
      BY <2>1, <2>3 DEF Crossing, CoupledChannel
    <3>2. dataChannel'[p] = dataChannel[p]
      <4> SUFFICES ASSUME dataChannel'[p] # dataChannel[p] PROVE FALSE
        OBVIOUS
      <4>1. PICK m \in DOMAIN pcs, j \in DOMAIN pcs : pcs[m].owner = p /\ Coupled(j, m)
        BY <1>1
      <4> QED
        BY <2>1, <2>3, <4>1 DEF Crossing, CoupledOnce
    <3> QED
      BY <2>1, <3>1, <3>2
  <2> QED
    BY <2>2, <2>3, CoupledStays
<1>5. CoupledOnce'
  <2> SUFFICES ASSUME NEW i \in DOMAIN pcs, NEW c \in DOMAIN pcs,
                      NEW j \in DOMAIN pcs, NEW m \in DOMAIN pcs,
                      Coupled(i, c)', Coupled(j, m)', pcs[i].owner = pcs[m].owner
               PROVE  FALSE
    BY DEF CoupledOnce, Stays
  <2>1. /\ AnswersOpen(c) /\ (Coupled(i, c) \/ IsTold(i))
        /\ AnswersOpen(m) /\ (Coupled(j, m) \/ IsTold(j))
    BY CoupledStays
  <2>2. connection[pcs[m].owner] = m /\ pcs[m].role = "answer"
        /\ connection[pcs[c].owner] = c /\ pcs[c].role = "answer"
    BY <2>1 DEF Crossing, AnswersNamed, AnswersOpen
  <2>3. ~ IsTold(i)
    BY <2>2 DEF IsTold
  <2>4. pcs[j].owner = pcs[c].owner
    <3>1. pcs[c].remote = i /\ pcs[m].remote = j
      BY DEF Coupled, Stays, IsTold
    <3>2. pcs[i].owner = Other(pcs[c].owner) /\ pcs[j].owner = Other(pcs[m].owner)
      BY <2>2, <3>1 DEF Roles, Answers
    <3> QED
      BY <1>0, <3>2, OtherIsPeer
  <2>5. ~ IsTold(j)
    BY <2>2, <2>4 DEF IsTold
  <2> QED
    BY <2>1, <2>3, <2>5 DEF Crossing, CoupledOnce
<1>6. AnswersChannel'
  <2> SUFFICES ASSUME NEW r \in DOMAIN pcs, AnswersOpen(r)', pcs'[r].state = "connected"
               PROVE  dataChannel'[pcs[r].owner] = r \/ pcs[r].shut
    BY DEF AnswersChannel, Stays
  <2>1. PICK p \in Peer : p = pcs[r].owner
    BY <1>0
  <2>2. AnswersOpen(r) /\ pcs[r].role = "answer"
    BY AnswersOpenStays DEF AnswersOpen
  <2>3. connection[p] = r
    BY <2>1, <2>2 DEF Crossing, AnswersNamed
  <2>4. CASE ComesUp(r)
    BY <2>2, <2>4 DEF ComesUp
  <2>5. CASE ~ ComesUp(r)
    <3>1. pcs[r].state = "connected"
      BY <2>5 DEF Stays
    <3>2. dataChannel[p] = r \/ pcs[r].shut
      BY <2>1, <2>2, <3>1 DEF Crossing, AnswersChannel
    <3>3. dataChannel'[p] = dataChannel[p] \/ dataChannel'[p] = r
      BY <1>1, <2>3
    <3> QED
      BY <2>1, <3>2, <3>3
  <2> QED
    BY <2>4, <2>5
<1> QED
  BY <1>2, <1>3, <1>4, <1>5, <1>6

LEMMA CrossingLeaves ==
  ASSUME Types, Roles, Order, Crossing, NEW p \in Peer, Leaves(p)
  PROVE  AnswersNamed' /\ OffersChannel' /\ CoupledChannel' /\ CoupledOnce' /\ AnswersChannel'
<1>0. \A k \in DOMAIN pcs : pcs[k].owner \in Peer /\ pcs[k].shut \in BOOLEAN
  BY Numbers
<1>1. ASSUME NEW r \in DOMAIN pcs, AnswersOpen(r)'
      PROVE  AnswersOpen(r) /\ r # connection[p]
  <2>1. pcs[r].role = "answer" /\ pcs[r].remote \in DOMAIN pcs
    BY <1>1 DEF Leaves, AnswersOpen, Roles, Answers
  <2> QED
    BY <1>1, <2>1 DEF Leaves, AnswersOpen, Closed
<1>2. ASSUME NEW i \in DOMAIN pcs, NEW c \in DOMAIN pcs, Coupled(i, c)'
      PROVE  Coupled(i, c)
  BY <1>2 DEF Leaves, Coupled, Closed
\* What the record of p no longer names is closed.
<1>3. ASSUME NEW k \in DOMAIN pcs, dataChannel[pcs[k].owner] = k \/ pcs[k].shut
      PROVE  dataChannel'[pcs[k].owner] = k \/ pcs'[k].shut
  BY <1>0, <1>3 DEF Leaves
<1>4. AnswersNamed'
  <2> SUFFICES ASSUME NEW r \in DOMAIN pcs, AnswersOpen(r)'
               PROVE  connection'[pcs[r].owner] = r
    BY DEF AnswersNamed, Leaves
  <2>1. connection[pcs[r].owner] = r /\ r # connection[p]
    BY <1>1 DEF Crossing, AnswersNamed
  <2> QED
    BY <1>0, <2>1 DEF Leaves
<1>5. OffersChannel'
  BY DEF Crossing, OffersChannel, Leaves, Types, Named
<1>6. CoupledChannel'
  <2> SUFFICES ASSUME NEW i \in DOMAIN pcs, NEW c \in DOMAIN pcs, Coupled(i, c)'
               PROVE  dataChannel'[pcs[i].owner] = i \/ pcs'[i].shut
    BY DEF CoupledChannel, Leaves
  <2> QED
    BY <1>2, <1>3 DEF Crossing, CoupledChannel
<1>7. CoupledOnce'
  BY <1>2 DEF Crossing, CoupledOnce, Leaves
<1>8. AnswersChannel'
  <2> SUFFICES ASSUME NEW r \in DOMAIN pcs, AnswersOpen(r)', pcs'[r].state = "connected"
               PROVE  dataChannel'[pcs[r].owner] = r \/ pcs'[r].shut
    BY DEF AnswersChannel, Leaves
  <2>1. AnswersOpen(r) /\ pcs[r].state = "connected"
    BY <1>1 DEF Leaves
  <2> QED
    BY <1>3, <2>1 DEF Crossing, AnswersChannel
<1> QED
  BY <1>4, <1>5, <1>6, <1>7, <1>8

\* A page that adds a connection has none that answers an open one: if it clicks,
\* what it has is failed, and if it takes an offer, that is the only one.
LEMMA NoneOpen ==
  ASSUME Types, Roles, Crossing, NEW p \in Peer, NEW new, Adds(p, new),
         NEW r \in DOMAIN pcs, AnswersOpen(r), pcs[r].owner = p
  PROVE  FALSE
<1>1. connection[p] = r /\ r # 0
  BY Numbers DEF Crossing, AnswersNamed
<1>2. CASE new.role = "offer"
  <2>1. pcs[connection[p]].state = "failed"
    BY <1>1, <1>2 DEF Adds, MayConnect
  <2> QED
    BY <1>1, <2>1 DEF AnswersOpen
<1>3. CASE new.role # "offer"
  <2>1. PICK i \in DOMAIN pcs : /\ i = pcs[r].remote /\ pcs[i].role = "offer" /\ ~ Closed(i)
                                /\ pcs[i].owner = Other(p)
    BY DEF AnswersOpen, Roles, Answers
  <2>2. Other(pcs[i].owner) = p
    BY <2>1, OtherIsPeer
  <2>3. Handled(i)
    BY <2>1 DEF Handled, AnswersOpen
  <2>4. NoOffer(p)
    BY <2>1, <2>2, <2>3 DEF Crossing, OffersLast, OfferLast
  <2>5. /\ mail[p] # <<>> /\ mail[p] \in Seq(Message) /\ Head(mail[p]) = OfferOf(new.remote)
    BY <1>3 DEF Adds, Types, TypeOK, OfferOf
  <2>6. 1 \in DOMAIN mail[p] /\ mail[p][1] = Head(mail[p]) /\ Head(mail[p]).type = "offer"
    BY <2>5 DEF OfferOf
  <2> QED
    BY <2>4, <2>6 DEF NoOffer
<1> QED
  BY <1>2, <1>3

LEMMA CrossingAdds ==
  ASSUME Types, Roles, Order, Crossing, ~ OfferedAgain', NEW p \in Peer, NEW new, Adds(p, new)
  PROVE  AnswersNamed' /\ OffersChannel' /\ CoupledChannel' /\ CoupledOnce' /\ AnswersChannel'
<1>m. PICK m : m = Len(pcs) + 1
  OBVIOUS
<1>0. \A k \in DOMAIN pcs : pcs[k].owner \in Peer /\ (pcs[k].remote # 0 => pcs[k].remote \in DOMAIN pcs)
  BY Numbers
<1>1. /\ DOMAIN pcs' = DOMAIN pcs \cup {m} /\ pcs'[m] = new /\ m \notin DOMAIN pcs
      /\ \A k \in DOMAIN pcs : k < m /\ pcs'[k] = pcs[k]
      /\ \A q \in Peer : connection'[q] = IF q = p THEN m ELSE connection[q]
      /\ new.role \in {"offer", "answer"} /\ new.owner = p /\ new.state = "new"
      /\ ~ new.shut /\ m # 0
      /\ new.role = "offer" =>
           /\ new.remote = 0
           /\ \A q \in Peer : dataChannel'[q] = IF q = p THEN m ELSE dataChannel[q]
      /\ new.role = "answer" => dataChannel' = dataChannel /\ new.remote \in DOMAIN pcs
  BY <1>m DEF Adds, Creates, Connection
<1>2. ASSUME NEW r \in DOMAIN pcs, AnswersOpen(r)'
      PROVE  AnswersOpen(r) /\ pcs[r].owner # p
  <2>1. AnswersOpen(r)
    BY <1>0, <1>1, <1>2 DEF AnswersOpen, Closed, Roles, Answers
  <2> QED
    BY <2>1, NoneOpen
\* The new connection is not coupled with any.
<1>3. ASSUME NEW i \in DOMAIN pcs', NEW c \in DOMAIN pcs', Coupled(i, c)'
      PROVE  i \in DOMAIN pcs /\ c \in DOMAIN pcs /\ Coupled(i, c)
  <2>1. i # m
    <3> SUFFICES ASSUME i = m PROVE FALSE
      OBVIOUS
    <3>1. new.role = "offer" /\ c = 0
      BY <1>1, <1>3 DEF Coupled
    <3>2. 0 \notin DOMAIN pcs
      BY Numbers
    <3> QED
      BY <1>1, <3>1, <3>2
  <2>2. c # m
    <3>1. pcs[i].remote = c /\ i \in DOMAIN pcs
      BY <1>1, <1>3, <2>1 DEF Coupled
    <3> QED
      BY <1>0, <1>1, <3>1
  <2> QED
    BY <1>1, <1>3, <2>1, <2>2 DEF Coupled, Closed
<1>4. AnswersNamed'
  <2> SUFFICES ASSUME NEW r \in DOMAIN pcs', AnswersOpen(r)'
               PROVE  connection'[pcs'[r].owner] = r
    BY DEF AnswersNamed
  <2>1. CASE r = m
    BY <1>1, <2>1
  <2>2. CASE r # m
    <3>1. r \in DOMAIN pcs /\ AnswersOpen(r) /\ pcs[r].owner # p /\ pcs'[r].owner = pcs[r].owner
      BY <1>1, <1>2, <2>2
    <3>2. connection[pcs[r].owner] = r
      BY <3>1 DEF Crossing, AnswersNamed
    <3> QED
      BY <1>0, <1>1, <3>1, <3>2
  <2> QED
    BY <2>1, <2>2
<1>5. OffersChannel'
  <2> SUFFICES ASSUME NEW q \in Peer, connection'[q] # 0, pcs'[connection'[q]].role = "offer"
               PROVE  dataChannel'[q] = connection'[q]
    BY DEF OffersChannel
  <2>1. CASE q = p
    BY <1>1, <2>1
  <2>2. CASE q # p
    <3>1. connection'[q] = connection[q] /\ dataChannel'[q] = dataChannel[q]
      BY <1>1, <2>2
    <3>2. connection[q] \in DOMAIN pcs
      BY <3>1 DEF Types, Named
    <3> QED
      BY <1>1, <3>1, <3>2 DEF Crossing, OffersChannel
  <2> QED
    BY <2>1, <2>2
<1>6. CoupledChannel'
  <2> SUFFICES ASSUME NEW i \in DOMAIN pcs, NEW c \in DOMAIN pcs, Coupled(i, c)
               PROVE  dataChannel'[pcs[i].owner] = i \/ pcs[i].shut
    BY <1>1, <1>3 DEF CoupledChannel
  <2>1. dataChannel[pcs[i].owner] = i \/ pcs[i].shut
    BY DEF Crossing, CoupledChannel
  <2>2. dataChannel'[pcs[i].owner] = dataChannel[pcs[i].owner]
    <3> SUFFICES ASSUME new.role = "offer", pcs[i].owner = p PROVE FALSE
      BY <1>0, <1>1
    <3>1. OfferedAgain'
      BY <1>1 DEF OfferedAgain, Coupled, Closed
    <3> QED
      BY <3>1
  <2> QED
    BY <2>1, <2>2
<1>7. CoupledOnce'
  <2> SUFFICES ASSUME NEW i \in DOMAIN pcs', NEW c \in DOMAIN pcs',
                      NEW j \in DOMAIN pcs', NEW k \in DOMAIN pcs',
                      Coupled(i, c)', Coupled(j, k)', pcs'[i].owner = pcs'[k].owner
               PROVE  FALSE
    BY DEF CoupledOnce
  <2>1. /\ i \in DOMAIN pcs /\ c \in DOMAIN pcs /\ Coupled(i, c)
        /\ j \in DOMAIN pcs /\ k \in DOMAIN pcs /\ Coupled(j, k)
    BY <1>3
  <2>2. pcs[i].owner = pcs[k].owner
    BY <1>1, <2>1
  <2> QED
    BY <2>1, <2>2 DEF Crossing, CoupledOnce
<1>8. AnswersChannel'
  <2> SUFFICES ASSUME NEW r \in DOMAIN pcs', AnswersOpen(r)', pcs'[r].state = "connected"
               PROVE  dataChannel'[pcs'[r].owner] = r \/ pcs'[r].shut
    BY DEF AnswersChannel
  <2>1. r \in DOMAIN pcs /\ pcs'[r] = pcs[r]
    BY <1>1
  <2>2. AnswersOpen(r) /\ pcs[r].owner # p
    BY <1>2, <2>1
  <2>3. dataChannel[pcs[r].owner] = r \/ pcs[r].shut
    BY <2>1, <2>2 DEF Crossing, AnswersChannel
  <2>4. dataChannel'[pcs[r].owner] = dataChannel[pcs[r].owner]
    BY <1>0, <1>1, <2>1, <2>2
  <2> QED
    BY <2>1, <2>3, <2>4
<1> QED
  BY <1>4, <1>5, <1>6, <1>7, <1>8

\* A connection that works and that a record names has its channel there.
LEMMA NamedHasChannel ==
  ASSUME Types, Roles, Order, Crossing, AtRest, NEW p \in Peer, NEW c,
         c = connection[p], c # 0, Works(c), ~ pcs[pcs[c].remote].shut
  PROVE  HasChannel(p)
<1>1. c \in DOMAIN pcs /\ pcs[c].owner = p /\ ~ pcs[c].shut
  BY DEF Types, Named, Order, Intact
<1>2. pcs[c].state = "connected"
  BY <1>1 DEF AtRest, Works, Matched
<1>3. dataChannel[p] = c
  <2>1. CASE pcs[c].role = "offer"
    BY <2>1 DEF Crossing, OffersChannel
  <2>2. CASE pcs[c].role = "answer"
    <3>1. ~ Closed(c) /\ ~ Closed(pcs[c].remote)
      BY DEF Works, Matched, Negotiated, Closed
    <3>2. AnswersOpen(c)
      BY <1>2, <2>2, <3>1 DEF AnswersOpen
    <3> QED
      BY <1>1, <1>2, <3>2 DEF Crossing, AnswersChannel
  <2> QED
    BY <1>1, <2>1, <2>2, Numbers
<1> QED
  BY <1>1, <1>2, <1>3 DEF HasChannel

\* If one page has an open channel, the other one has the other end.
LEMMA CrossingPairs ==
  ASSUME Types, Roles, Order, AtRest, Crossing, NEW p \in Peer, HasChannel(p)
  PROVE  dataChannel[Other(p)] = pcs[dataChannel[p]].remote
<1>1. PICK c \in DOMAIN pcs : /\ c = dataChannel[p] /\ pcs[c].owner = p /\ Works(c)
                              /\ pcs[c].state = "connected" /\ ~ pcs[pcs[c].remote].shut
  BY DEF HasChannel, Order, ChannelNamed
<1>2. PICK d : d = pcs[c].remote
  OBVIOUS
<1>3. /\ Negotiated(c) /\ Negotiated(d) /\ pcs[d].remote = c /\ pcs[d].state # "failed"
      /\ ~ Closed(c) /\ ~ Closed(d)
  BY <1>1, <1>2 DEF Works, Matched, Negotiated, Closed
<1>4. pcs[c].role \in {"offer", "answer"} /\ (d # 0 => d \in DOMAIN pcs)
  BY <1>2, Numbers
<1>5. CASE pcs[c].role = "offer"
  <2>1. d # 0 /\ d \in DOMAIN pcs
    BY <1>2, <1>3, <1>4, <1>5 DEF Order, OfferTold
  <2>2. pcs[d].role = "answer"
    BY <1>2, <1>5, <2>1 DEF Roles, Asks
  <2>3. pcs[d].owner = Other(p)
    <3>1. p = Other(pcs[d].owner) /\ pcs[d].owner \in Peer
      BY <1>1, <1>3, <2>1, <2>2, Numbers DEF Roles, Answers
    <3> QED
      BY <3>1, OtherIsPeer
  <2>4. pcs[d].state = "connected"
    BY <1>1, <1>2, <1>3, <2>1 DEF AtRest, Works, Matched
  <2>5. AnswersOpen(d)
    BY <1>3, <2>2 DEF AnswersOpen
  <2> QED
    BY <1>1, <1>2, <2>1, <2>3, <2>4, <2>5 DEF Crossing, AnswersChannel
<1>6. CASE pcs[c].role = "answer"
  <2>1. d \in DOMAIN pcs /\ pcs[d].role = "offer" /\ pcs[d].owner = Other(p)
    BY <1>1, <1>2, <1>6 DEF Roles, Answers
  <2>2. Coupled(d, c)
    BY <1>1, <1>2, <1>3, <1>6, <2>1 DEF Coupled
  <2> QED
    BY <1>1, <1>2, <2>1, <2>2 DEF Crossing, CoupledChannel
<1> QED
  BY <1>4, <1>5, <1>6

-----------------------------------------------------------------------------
(* The invariant, and what it gives *)

\* A page that was not offered to twice has not been before (AgainStays), so that
\* Crossing may be assumed of the state before a step.
CallInv ==
  /\ Inv
  /\ Order
  /\ Rest
  /\ ~ OfferedAgain => Crossing

LEMMA InitCall == Init => CallInv
<1> SUFFICES ASSUME Init PROVE CallInv
  OBVIOUS
<1>1. Inv
  BY InitInv
<1>2. /\ pcs = <<>> /\ DOMAIN pcs = {} /\ discovered = Peer
      /\ \A p \in Peer : connection[p] = 0 /\ dataChannel[p] = 0 /\ DOMAIN mail[p] = {}
  BY DEF Init
<1>3. Order
  BY <1>2 DEF Order, Newest, ChannelNamed, Intact, AnswerFirst, OfferFirst, OfferTold
<1>4. Rest
  BY <1>2 DEF Rest, Phases, Answering, Awaits, Listed, ListsLast
<1>5. Crossing
  BY <1>2 DEF Crossing, OffersLast, AnswersNamed, OffersChannel, CoupledChannel, CoupledOnce,
              AnswersChannel
<1> QED
  BY <1>1, <1>3, <1>4, <1>5 DEF CallInv

LEMMA NextCall == CallInv /\ [Next]_vars => CallInv'
<1> SUFFICES ASSUME CallInv, [Next]_vars PROVE CallInv'
  OBVIOUS
<1>0. Types /\ Roles /\ Order /\ Rest
  BY DEF CallInv, Inv
<1>1. Inv'
  BY NextInv DEF CallInv
<1>2. Order'
  BY <1>0, StepKinds, OrderStays, OrderLeaves, OrderAdds
<1>3. Rest'
  BY <1>0, PhasesStep, AnsweringStep, ListedStep DEF Rest
<1>4. ASSUME ~ OfferedAgain'
      PROVE  Crossing'
  <2>1. ~ OfferedAgain /\ Crossing
    BY <1>0, <1>4, AgainStays DEF CallInv
  <2>2. OffersLast'
    BY <1>0, <2>1, OffersLastStep DEF Crossing
  <2>3. AnswersNamed' /\ OffersChannel' /\ CoupledChannel' /\ CoupledOnce' /\ AnswersChannel'
    BY <1>0, <1>4, <2>1, StepKinds, CrossingStays, CrossingLeaves, CrossingAdds
  <2> QED
    BY <2>2, <2>3 DEF Crossing
<1> QED
  BY <1>1, <1>2, <1>3, <1>4 DEF CallInv

LEMMA CallInvariance == Spec => []CallInv
BY InitCall, NextCall, PTL DEF Spec

\* state.js:84, peerConnection.js:78: the connections that the records of two pages
\* name are, if both work, the two ends of one.  For any number of connections, and
\* however often pages leave, connections fail or messages are lost.
THEOREM RecordsDoMeet == Spec => []RecordsMeet
<1>1. CallInv => RecordsMeet
  BY OrderMeets DEF CallInv, Inv
<1> QED
  BY <1>1, CallInvariance, PTL

\* app.js:30: at rest, and unless an offer or an answer was lost, the connection that
\* a record names works or a click replaces it.  For any number of connections,
\* pages that leave and connections that fail.
THEOREM NobodyIsStuck == Spec => []NoneStuck
<1>1. CallInv => NoneStuck
  BY RestMoves DEF CallInv, Inv
<1> QED
  BY <1>1, CallInvariance, PTL

\* signaling.js:86, app.js:30: at rest, and unless an offer or an answer was lost, the
\* two pages have a channel, or a click of one of them makes a new connection, or an
\* old channel has taken the place of the one that works.
THEOREM AlwaysRecoverable == Spec => []Recoverable
<1>1. CallInv => Recoverable
  BY RestRecovers DEF CallInv, Inv
<1> QED
  BY <1>1, CallInvariance, PTL

\* peerConnection.js:54 and 73: at rest, if no page has offered twice, a page whose
\* record names a connection that works has an open channel, unless the other page
\* closed its end, and the other page's record names the other end of a channel that is
\* open.  It does not say that there is a connection that works: see AlwaysRecoverable.
THEOREM ChannelsDoPair == Spec => []ChannelsPair
<1>1. ASSUME CallInv PROVE ChannelsPair
  <2>1. Types /\ Roles /\ Order /\ (~ OfferedAgain => Crossing)
    BY <1>1 DEF CallInv, Inv
  <2> SUFFICES ASSUME AtRest, ~ OfferedAgain, NEW p \in Peer
               PROVE  /\ connection[p] # 0 /\ Works(connection[p]) =>
                           HasChannel(p) \/ pcs[pcs[connection[p]].remote].shut
                      /\ HasChannel(p) => dataChannel[Other(p)] = pcs[dataChannel[p]].remote
    BY DEF ChannelsPair
  <2> QED
    BY <2>1, NamedHasChannel, CrossingPairs
<1>2. CallInv => ChannelsPair
  BY <1>1
<1> QED
  BY <1>2, CallInvariance, PTL
=============================================================================
