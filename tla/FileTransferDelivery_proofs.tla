-------------------- MODULE FileTransferDelivery_proofs --------------------
(***************************************************************************)
(* What the file transfer delivers: a chunk is decrypted with its own      *)
(* header only, and the receiver's disk behaves as FileDelivery promises.  *)
(*                                                                         *)
(* The inductive invariant ChunksHaveOnePlace follows a chunk from the     *)
(* loop of the sender over the channel and the chain of the receiver to    *)
(* the file: after the n chunks that were taken off the chain, the next    *)
(* ones are on their way or still to be sent, one after the other, and     *)
(* then the end.  It rests on who may hold which transfer object while a   *)
(* handler, a reset or a save dialog waits.                                *)
(***************************************************************************)
EXTENDS FileTransfer_proofs

-----------------------------------------------------------------------------
(* How the chunks of a file come to their place *)

Started(t) == loop[t].obj # "none"

\* The loop of t may send on, now or once the offer is accepted.
MaySend(t) == loop[t].pc # "off" \/ ~Started(t)

\* t is a transfer that the other browser offered to p.
Incoming(p, t) == t \in Tid /\ owner[t] = Other(p)

OfLoop(m) == m.type \in {"file-chunk", "binary", "file-end"}
IsChunk(m, t) == m.type = "binary" /\ m.tid = t

\* A header is sent right before its chunk; only a loss can part them.
Headed(s, open) ==
  \A i \in 1..Len(s) : s[i].type = "file-chunk" =>
    /\ s[i].idx # 0
    /\ IF i = Len(s) THEN ~open ELSE s[i + 1] = Binary(s[i].tid, s[i].idx)

\* Nothing of a file follows its end.
EndIsLast(s) ==
  \A i, j \in 1..Len(s) :
    i < j /\ s[i].type = "file-end" /\ OfLoop(s[j]) => s[j].tid # s[i].tid

NothingOf(s, t) == \A i \in 1..Len(s) : OfLoop(s[i]) => s[i].tid # t

\* The chunks of t in s begin with n + 1 and leave none out, nor does the end.
Follow(s, t, n) ==
  /\ \A i \in 1..Len(s) : IsChunk(s[i], t) =>
       /\ s[i].idx \in n + 1 .. Chunks(t)
       /\ s[i].idx = n + 1 \/ \E j \in 1..i - 1 : s[j] = Binary(t, s[i].idx - 1)
       /\ \A j \in 1..i - 1 : IsChunk(s[j], t) => s[j].idx < s[i].idx
  /\ \A i \in 1..Len(s) : s[i].type = "file-end" /\ s[i].tid = t =>
       n = Chunks(t) \/ \E j \in 1..i - 1 : s[j] = Binary(t, Chunks(t))

\* The chunk k comes next after the chunks of t in s.
Before(s, t, n, k) ==
  /\ \A i \in 1..Len(s) : IsChunk(s[i], t) => s[i].idx < k
  /\ k = n + 1 \/ \E j \in 1..Len(s) : s[j] = Binary(t, k - 1)

\* The place g has chunks of t.
Holds(g, t) == disk[g].data # <<>> /\ disk[g].data[1][1] = t

\* Chunks and the end of a file come from the loop of a started transfer.
LoopMessages(p) ==
  /\ Headed(chan[p], IsOpen(p))
  /\ EndIsLast(chan[p])
  /\ \A i \in 1..Len(chan[p]) : OfLoop(chan[p][i]) =>
       /\ Incoming(p, chan[p][i].tid)
       /\ Started(chan[p][i].tid)
       /\ chan[p][i].type = "file-end" => loop[chan[p][i].tid].pc = "off"

\* The answers under way in a sequence of messages.
Readies(s) == {s[i].tid : i \in {j \in 1..Len(s) : s[j].type = "ready"}}

\* The offer t was not accepted yet: nothing can start its loop.
Waiting(p, t) == ~Started(t) /\ t \notin Readies(chan[Other(p)])

\* A transfer starts once, when its offer is accepted.
StartedOnce(p) ==
  /\ \A t \in Metas(chan[p]) : Waiting(p, t) /\ xfer[p].tid # t
  /\ xfer[p].state = "prompting" => Waiting(p, xfer[p].tid)
  /\ xfer[p].state = "offering" => ~Started(xfer[p].tid)
  /\ xfer[p].tid \in Tid => owner[xfer[p].tid] # NoPeer
  /\ \A t \in Readies(chan[p]) : t # NoTid => t \in Tid /\ owner[t] = p

\* The loop of t counts its chunks.  As long as its transfer object is the
\* current one of its browser, this is sending t.
LoopCounts(t) ==
  /\ owner[t] = NoPeer => ~Started(t)
  /\ ~Started(t) =>
       /\ loop[t].pc = "off" /\ loop[t].next = 1
       /\ \A g \in Tid : ~Holds(g, t)
  /\ loop[t].pc # "off" =>
       /\ loop[t].next \in 1..Chunks(t)
       /\ loop[t].obj = "live" =>
            xfer[owner[t]].tid = t /\ xfer[owner[t]].state = "transferring"

\* Everything the loop of t has sent was taken off the chain of p.
Drained(p, t) == ~MaySend(t) /\ NothingOf(chan[p], t)

\* p has no transfer, or offers one.
Vacant(p) ==
  /\ xfer[p].stream = NoTid
  /\ xfer[p].state \in {"idle", "offering"}
  /\ ~Incoming(p, xfer[p].tid)

\* While a save dialog is open its prompt is the current transfer, or none is.
DialogState(p) ==
  picker[p] # NoTid =>
    xfer[p].state = "prompting" \/ (xfer[p].state = "idle" /\ xfer[p].tid = NoTid)

\* The states of a transfer object.
TransferState(p) ==
  LET x == xfer[p] IN
  /\ x.stream # NoTid =>
       x.state = "transferring" /\ (x.tid = NoTid \/ Incoming(p, x.tid))
  /\ x.state = "transferring" /\ x.stream = NoTid =>
       x.tid \in Tid /\ owner[x.tid] = p
  /\ x.state = "idle" /\ Incoming(p, x.tid) => Drained(p, x.tid)

\* What a handler at work finds when it goes on: the object it captured, or no
\* transfer that could be taken for it.
HandlerState(p) ==
  LET x == xfer[p]
      c == chain[p]
  IN
  /\ c.pc # "free" =>
       picker[p] = NoTid /\ c.handle # NoTid /\ (x.stream = c.handle \/ Vacant(p))
  /\ c.pc \in {"decrypt", "write"} =>
       IF c.obj = "live" THEN x.stream = c.handle ELSE Vacant(p)
  /\ c.pc = "close" /\ x.stream = c.handle =>
       Incoming(p, x.tid) /\ Drained(p, x.tid)

LowWaits(p) == low[p] # NoTid => loop[low[p]].pc = "wait"

ObjectStates(p) ==
  DialogState(p) /\ TransferState(p) /\ HandlerState(p) /\ LowWaits(p)

\* p remembers a header only as long as its chunk is the next message.
HeaderThenChunk(p) ==
  LET x == xfer[p]
      c == chain[p]
  IN
  x.expected # 0 =>
    \/ c.pc = "decrypt" /\ c.obj = "live"
    \/ c.pc = "reset" /\ x.stream = c.handle
    \/ c.pc = "free" /\ chan[p] = <<>> /\ ~IsOpen(p)
    \/ c.pc = "free" /\ chan[p] # <<>> /\ Head(chan[p]) = Binary(x.tid, x.expected)

\* n chunks of t have been taken off the chain of p.  The next ones are on
\* their way or to be sent, one after the other, and then the end.
InOrder(p, t, n) ==
  /\ n \in 0..Chunks(t)
  /\ Follow(chan[p], t, n)
  /\ IsOpen(p) /\ MaySend(t) => Before(chan[p], t, n, loop[t].next)

\* The open file of p has the first chunks of its transfer, and no other file
\* has any of them.
PlaceOfTransfer(p) ==
  LET t == xfer[p].tid
      h == xfer[p].stream
      n == Len(disk[h].data)
  IN
  Incoming(p, t) /\ h # NoTid =>
    /\ \A g \in Tid : Holds(g, t) => g = h
    /\ chain[p].pc = "free" /\ disk[h].status = "open" =>
         disk[h].data = Delivery!FirstChunks(t, n) /\ InOrder(p, t, n)

\* The handler at work has the chunk that its file needs next.
PlaceOfChunk(p) ==
  LET c == chain[p]
      t == c.block[1]
      i == c.block[2]
  IN
  c.pc \in {"decrypt", "write"} =>
    /\ c.block = c.aad
    /\ Incoming(p, t) /\ Started(t)
    /\ \A g \in Tid : Holds(g, t) => g = c.handle
    /\ c.obj = "live" => xfer[p].tid = t
    /\ c.pc = "write" => disk[c.handle].status = "open"
    /\ disk[c.handle].status = "open" =>
         /\ i \in 1..Chunks(t)
         /\ disk[c.handle].data = Delivery!FirstChunks(t, i - 1)
         /\ c.obj = "live" => InOrder(p, t, i)

\* The file being closed is whole.
ClosesWhole(p) ==
  chain[p].pc = "close" =>
    \E t \in Tid : disk[chain[p].handle].data = Delivery!FirstChunks(t, Chunks(t))

\* Every chunk that is sent, queued, decrypted or written belongs to one place
\* on the receiver's disk, and is the next one there.
ChunksHaveOnePlace ==
  /\ \A p \in Peer :
       /\ LoopMessages(p)
       /\ StartedOnce(p)
       /\ ObjectStates(p)
       /\ HeaderThenChunk(p)
       /\ PlaceOfTransfer(p)
       /\ PlaceOfChunk(p)
       /\ ClosesWhole(p)
  /\ \A t \in Tid : LoopCounts(t) /\ (disk[t].status = "none" => disk[t].data = <<>>)

-----------------------------------------------------------------------------
(* Sequences of messages *)

\* u is s without its first d messages, cut off or followed by messages that
\* no loop sent.
Shifted(s, u, d) ==
  \A i \in 1..Len(u) : /\ i + d <= Len(s) => u[i] = s[i + d]
                       /\ OfLoop(u[i]) => i + d <= Len(s)

LEMMA ReadiesOf ==
  ASSUME NEW s, NEW t
  PROVE  t \in Readies(s) <=>
           \E i \in 1..Len(s) : s[i].type = "ready" /\ s[i].tid = t
BY DEF Readies


LEMMA ShiftedTail ==
  ASSUME NEW s \in Seq(Message), s # <<>>
  PROVE  /\ Tail(s) \in Seq(Message)
         /\ Shifted(s, Tail(s), 1)
         /\ Len(Tail(s)) = Len(s) - 1
         /\ Readies(Tail(s)) \subseteq Readies(s)
         /\ Head(s) = s[1] /\ 1 \in 1..Len(s)
<1> DEFINE u == Tail(s)
<1>1. /\ Len(s) \in Nat /\ Len(s) >= 1 /\ Len(u) = Len(s) - 1
      /\ u \in Seq(Message)
      /\ \A i \in 1..Len(u) : u[i] = s[i + 1]
      /\ Head(s) = s[1]
  OBVIOUS
<1> HIDE DEF u
<1>2. \A i \in 1..Len(u) : i + 1 \in 1..Len(s) /\ u[i] = s[i + 1]
  BY <1>1
<1>3. Readies(u) \subseteq Readies(s)
  <2> SUFFICES ASSUME NEW t \in Readies(u) PROVE t \in Readies(s)
    OBVIOUS
  <2>1. PICK i \in 1..Len(u) : u[i].type = "ready" /\ u[i].tid = t
    BY ReadiesOf
  <2> QED
    BY <1>2, <2>1, ReadiesOf
<1>4. Shifted(s, u, 1)
  BY <1>1, <1>2 DEF Shifted
<1> QED
  BY <1>1, <1>3, <1>4 DEF u

LEMMA ShiftedAppend ==
  ASSUME NEW s \in Seq(Message), NEW m \in Message, ~OfLoop(m)
  PROVE  /\ s \o <<m>> \in Seq(Message)
         /\ Shifted(s, s \o <<m>>, 0)
         /\ Len(s \o <<m>>) = Len(s) + 1
         /\ Readies(s \o <<m>>) \subseteq
              IF m.type = "ready" THEN Readies(s) \cup {m.tid} ELSE Readies(s)
<1> DEFINE u == s \o <<m>>
<1>1. /\ Len(s) \in Nat /\ Len(u) = Len(s) + 1 /\ u \in Seq(Message)
      /\ \A i \in 1..Len(s) : u[i] = s[i]
      /\ u[Len(s) + 1] = m
  OBVIOUS
<1> HIDE DEF u
<1>2. \A i \in 1..Len(u) : i \in 1..Len(s) \/ i = Len(s) + 1
  BY <1>1
<1>3. Shifted(s, u, 0)
  BY <1>1, <1>2 DEF Shifted
<1>4. ASSUME NEW t \in Readies(u)
      PROVE  t \in Readies(s) \/ (m.type = "ready" /\ t = m.tid)
  <2>1. PICK i \in 1..Len(u) : u[i].type = "ready" /\ u[i].tid = t
    BY <1>4, ReadiesOf
  <2>2. CASE i \in 1..Len(s)
    BY <1>1, <2>1, <2>2, ReadiesOf
  <2>3. CASE i = Len(s) + 1
    BY <1>1, <2>1, <2>3
  <2> QED
    BY <1>2, <2>2, <2>3
<1> QED
  BY <1>1, <1>3, <1>4 DEF u

LEMMA ShiftedPrefix ==
  ASSUME NEW s \in Seq(Message), NEW n \in 0..Len(s)
  PROVE  /\ SubSeq(s, 1, n) \in Seq(Message)
         /\ Shifted(s, SubSeq(s, 1, n), 0)
         /\ Len(SubSeq(s, 1, n)) = n
         /\ Readies(SubSeq(s, 1, n)) \subseteq Readies(s)
<1> DEFINE u == SubSeq(s, 1, n)
<1>1. /\ Len(s) \in Nat /\ Len(u) = n /\ u \in Seq(Message)
      /\ \A i \in 1..Len(u) : u[i] = s[i] /\ i \in 1..Len(s)
  OBVIOUS
<1> HIDE DEF u
<1>2. Readies(u) \subseteq Readies(s)
  <2> SUFFICES ASSUME NEW t \in Readies(u) PROVE t \in Readies(s)
    OBVIOUS
  <2>1. PICK i \in 1..Len(u) : u[i].type = "ready" /\ u[i].tid = t
    BY ReadiesOf
  <2> QED
    BY <1>1, <2>1, ReadiesOf
<1> QED
  BY <1>1, <1>2 DEF u, Shifted

LEMMA ShiftedSame ==
  ASSUME NEW s \in Seq(Message)
  PROVE  Shifted(s, s, 0) /\ Len(s) \in Nat
BY DEF Shifted

\* Where a message of a loop was before.
LEMMA ShiftedFrom ==
  ASSUME NEW s \in Seq(Message), NEW u \in Seq(Message), NEW d \in {0, 1},
         Shifted(s, u, d), NEW i \in 1..Len(u), OfLoop(u[i])
  PROVE  i + d \in 1..Len(s) /\ u[i] = s[i + d]
BY DEF Shifted

LEMMA HeadedShifted ==
  ASSUME NEW s \in Seq(Message), NEW u \in Seq(Message), NEW d \in {0, 1},
         Shifted(s, u, d), NEW before \in BOOLEAN, NEW after \in BOOLEAN,
         after => before /\ Len(u) >= Len(s) - d,
         before \/ Len(u) <= Len(s) - d,
         Headed(s, before)
  PROVE  Headed(u, after)
<1>1. Len(s) \in Nat /\ Len(u) \in Nat
  OBVIOUS
<1> SUFFICES ASSUME NEW i \in 1..Len(u), u[i].type = "file-chunk"
             PROVE  /\ u[i].idx # 0
                    /\ i = Len(u) => ~after
                    /\ i # Len(u) => u[i + 1] = Binary(u[i].tid, u[i].idx)
  BY DEF Headed
<1>2. i + d \in 1..Len(s) /\ u[i] = s[i + d]
  BY ShiftedFrom DEF OfLoop
<1>3. /\ u[i].idx # 0
      /\ i + d = Len(s) => ~before
      /\ i + d # Len(s) => s[i + d + 1] = Binary(u[i].tid, u[i].idx)
  BY <1>2 DEF Headed
<1>4. ASSUME i = Len(u) PROVE ~after
  BY <1>1, <1>2, <1>3, <1>4
<1>5. ASSUME i # Len(u) PROVE u[i + 1] = Binary(u[i].tid, u[i].idx)
  <2>1. i + d # Len(s)
    BY <1>1, <1>2, <1>3, <1>5
  <2>2. i + 1 \in 1..Len(u) /\ (i + 1) + d <= Len(s) /\ (i + 1) + d = i + d + 1
    BY <1>1, <1>2, <1>5, <2>1
  <2>3. u[i + 1] = s[(i + 1) + d]
    BY <2>2 DEF Shifted
  <2> QED
    BY <1>3, <2>1, <2>2, <2>3
<1> QED
  BY <1>3, <1>4, <1>5

LEMMA EndIsLastShifted ==
  ASSUME NEW s \in Seq(Message), NEW u \in Seq(Message), NEW d \in {0, 1},
         Shifted(s, u, d), EndIsLast(s)
  PROVE  EndIsLast(u)
<1> SUFFICES ASSUME NEW i \in 1..Len(u), NEW j \in 1..Len(u), i < j,
                    u[i].type = "file-end", OfLoop(u[j])
             PROVE  u[j].tid # u[i].tid
  BY DEF EndIsLast
<1>1. i + d \in 1..Len(s) /\ u[i] = s[i + d]
  BY ShiftedFrom DEF OfLoop
<1>2. j + d \in 1..Len(s) /\ u[j] = s[j + d]
  BY ShiftedFrom
<1>3. i + d < j + d
  OBVIOUS
<1> QED
  BY <1>1, <1>2, <1>3 DEF EndIsLast

LEMMA NothingOfShifted ==
  ASSUME NEW s \in Seq(Message), NEW u \in Seq(Message), NEW d \in {0, 1},
         Shifted(s, u, d), NEW t, NothingOf(s, t)
  PROVE  NothingOf(u, t)
BY ShiftedFrom DEF NothingOf

\* Chunks of t stay in order when other messages are taken or the rest is
\* cut off.
LEMMA FollowShifted ==
  ASSUME NEW s \in Seq(Message), NEW u \in Seq(Message), NEW d \in {0, 1},
         Shifted(s, u, d), NEW t, NEW n \in Nat, Chunks(t) \in Nat,
         Follow(s, t, n), d = 1 => s # <<>> /\ ~IsChunk(s[1], t)
  PROVE  Follow(u, t, n)
<1>1. Len(s) \in Nat /\ Len(u) \in Nat
  OBVIOUS
<1>2. ASSUME NEW i \in 1..Len(u), i + d \in 1..Len(s), NEW j \in 1..i + d - 1,
             NEW k, s[j] = Binary(t, k)
      PROVE  \E l \in 1..i - 1 : u[l] = Binary(t, k)
  <2>1. IsChunk(s[j], t)
    BY <1>2 DEF IsChunk, Binary
  <2>2. j # 1 \/ d # 1
    BY <2>1
  <2>3. j - d \in 1..i - 1 /\ j - d \in 1..Len(u) /\ (j - d) + d = j /\ j <= Len(s)
    BY <1>1, <1>2, <2>2
  <2>4. u[j - d] = s[j]
    BY <2>3 DEF Shifted
  <2> QED
    BY <1>2, <2>3, <2>4
<1>3. ASSUME NEW i \in 1..Len(u), IsChunk(u[i], t)
      PROVE  /\ u[i].idx \in n + 1 .. Chunks(t)
             /\ u[i].idx = n + 1 \/ \E j \in 1..i - 1 : u[j] = Binary(t, u[i].idx - 1)
             /\ \A j \in 1..i - 1 : IsChunk(u[j], t) => u[j].idx < u[i].idx
  <2>1. i + d \in 1..Len(s) /\ u[i] = s[i + d]
    BY <1>3, ShiftedFrom DEF IsChunk, OfLoop
  <2>2. /\ u[i].idx \in n + 1 .. Chunks(t)
        /\ u[i].idx = n + 1 \/ \E j \in 1..i + d - 1 : s[j] = Binary(t, u[i].idx - 1)
        /\ \A j \in 1..i + d - 1 : IsChunk(s[j], t) => s[j].idx < u[i].idx
    BY <1>3, <2>1 DEF Follow
  <2>3. ASSUME NEW j \in 1..i - 1, IsChunk(u[j], t) PROVE u[j].idx < u[i].idx
    <3>1. j \in 1..Len(u) /\ j + d \in 1..i + d - 1
      BY <1>1
    <3>2. u[j] = s[j + d]
      BY <2>3, <3>1, ShiftedFrom DEF IsChunk, OfLoop
    <3> QED
      BY <2>2, <2>3, <3>1, <3>2
  <2> QED
    BY <1>2, <2>1, <2>2, <2>3
<1>4. ASSUME NEW i \in 1..Len(u), u[i].type = "file-end", u[i].tid = t
      PROVE  n = Chunks(t) \/ \E j \in 1..i - 1 : u[j] = Binary(t, Chunks(t))
  <2>1. i + d \in 1..Len(s) /\ u[i] = s[i + d]
    BY <1>4, ShiftedFrom DEF OfLoop
  <2>2. n = Chunks(t) \/ \E j \in 1..i + d - 1 : s[j] = Binary(t, Chunks(t))
    BY <1>4, <2>1 DEF Follow
  <2> QED
    BY <1>2, <2>1, <2>2
<1> QED
  BY <1>3, <1>4 DEF Follow

LEMMA BeforeShifted ==
  ASSUME NEW s \in Seq(Message), NEW u \in Seq(Message), NEW d \in {0, 1},
         Shifted(s, u, d), Len(u) >= Len(s) - d, NEW t, NEW n, NEW k,
         Before(s, t, n, k), d = 1 => s # <<>> /\ ~IsChunk(s[1], t)
  PROVE  Before(u, t, n, k)
<1>1. Len(s) \in Nat /\ Len(u) \in Nat
  OBVIOUS
<1>2. ASSUME NEW i \in 1..Len(u), IsChunk(u[i], t) PROVE u[i].idx < k
  <2>1. i + d \in 1..Len(s) /\ u[i] = s[i + d]
    BY <1>2, ShiftedFrom DEF IsChunk, OfLoop
  <2> QED
    BY <1>2, <2>1 DEF Before
<1>3. ASSUME NEW j \in 1..Len(s), s[j] = Binary(t, k - 1)
      PROVE  \E l \in 1..Len(u) : u[l] = Binary(t, k - 1)
  <2>1. IsChunk(s[j], t)
    BY <1>3 DEF IsChunk, Binary
  <2>2. j # 1 \/ d # 1
    BY <2>1
  <2>3. j - d \in 1..Len(u) /\ (j - d) + d = j /\ j <= Len(s)
    BY <1>1, <2>2
  <2>4. u[j - d] = s[j]
    BY <2>3 DEF Shifted
  <2> QED
    BY <1>3, <2>3, <2>4
<1> QED
  BY <1>2, <1>3 DEF Before

\* The first chunk of t in s is the next one, and the chunks after it begin
\* with the one after.
LEMMA FollowTaken ==
  ASSUME NEW s \in Seq(Message), NEW u \in Seq(Message), Shifted(s, u, 1),
         NEW t, NEW n \in Nat, Chunks(t) \in Nat, s # <<>>, IsChunk(s[1], t),
         Follow(s, t, n)
  PROVE  /\ s[1].idx = n + 1 /\ n + 1 \in 1..Chunks(t)
         /\ Follow(u, t, n + 1)
<1>1. /\ Len(s) \in Nat /\ Len(u) \in Nat /\ 1 \in 1..Len(s) /\ 1..1-1 = {}
  OBVIOUS
<1>2. s[1].idx = n + 1 /\ n + 1 \in 1..Chunks(t)
  BY <1>1 DEF Follow
<1>3. ASSUME NEW i \in 1..Len(u), i + 1 \in 1..Len(s), NEW j \in 1..(i + 1) - 1,
             NEW k, s[j] = Binary(t, k)
      PROVE  k = n + 1 \/ \E l \in 1..i - 1 : u[l] = Binary(t, k)
  <2>1. CASE j = 1
    BY <1>2, <1>3, <2>1 DEF Binary
  <2>2. CASE j # 1
    <3>1. j - 1 \in 1..i - 1 /\ j - 1 \in 1..Len(u) /\ (j - 1) + 1 = j /\ j <= Len(s)
      BY <1>1, <1>3, <2>2
    <3>2. u[j - 1] = s[j]
      BY <3>1 DEF Shifted
    <3> QED
      BY <1>3, <3>1, <3>2
  <2> QED
    BY <2>1, <2>2
<1>4. ASSUME NEW i \in 1..Len(u), IsChunk(u[i], t)
      PROVE  /\ u[i].idx \in (n + 1) + 1 .. Chunks(t)
             /\ \/ u[i].idx = (n + 1) + 1
                \/ \E j \in 1..i - 1 : u[j] = Binary(t, u[i].idx - 1)
             /\ \A j \in 1..i - 1 : IsChunk(u[j], t) => u[j].idx < u[i].idx
  <2>1. i + 1 \in 1..Len(s) /\ u[i] = s[i + 1]
    BY <1>4, ShiftedFrom DEF IsChunk, OfLoop
  <2>2. /\ u[i].idx \in n + 1 .. Chunks(t)
        /\ u[i].idx = n + 1 \/ \E j \in 1..(i + 1) - 1 : s[j] = Binary(t, u[i].idx - 1)
        /\ \A j \in 1..(i + 1) - 1 : IsChunk(s[j], t) => s[j].idx < u[i].idx
    BY <1>4, <2>1 DEF Follow
  <2>3. u[i].idx > n + 1
    <3>1. 1 \in 1..(i + 1) - 1
      OBVIOUS
    <3> QED
      BY <1>2, <2>2, <3>1
  <2>4. ASSUME NEW j \in 1..i - 1, IsChunk(u[j], t) PROVE u[j].idx < u[i].idx
    <3>1. j \in 1..Len(u) /\ j + 1 \in 1..(i + 1) - 1
      BY <1>1
    <3>2. u[j] = s[j + 1]
      BY <2>4, <3>1, ShiftedFrom DEF IsChunk, OfLoop
    <3> QED
      BY <2>2, <2>4, <3>1, <3>2
  <2>5. \/ u[i].idx = (n + 1) + 1
        \/ \E j \in 1..i - 1 : u[j] = Binary(t, u[i].idx - 1)
    <3>1. PICK j \in 1..(i + 1) - 1 : s[j] = Binary(t, u[i].idx - 1)
      BY <2>2, <2>3
    <3>2. u[i].idx - 1 = n + 1 \/ \E l \in 1..i - 1 : u[l] = Binary(t, u[i].idx - 1)
      BY <1>3, <2>1, <3>1
    <3> QED
      BY <2>2, <3>2
  <2> QED
    BY <2>2, <2>3, <2>4, <2>5
<1>5. ASSUME NEW i \in 1..Len(u), u[i].type = "file-end", u[i].tid = t
      PROVE  n + 1 = Chunks(t) \/ \E j \in 1..i - 1 : u[j] = Binary(t, Chunks(t))
  <2>1. i + 1 \in 1..Len(s) /\ u[i] = s[i + 1]
    BY <1>5, ShiftedFrom DEF OfLoop
  <2>2. n = Chunks(t) \/ \E j \in 1..(i + 1) - 1 : s[j] = Binary(t, Chunks(t))
    BY <1>5, <2>1 DEF Follow
  <2> QED
    BY <1>2, <1>3, <2>1, <2>2
<1> QED
  BY <1>2, <1>4, <1>5 DEF Follow

LEMMA BeforeTaken ==
  ASSUME NEW s \in Seq(Message), NEW u \in Seq(Message), Shifted(s, u, 1),
         Len(u) >= Len(s) - 1, NEW t, NEW n \in Nat, NEW k \in Nat, s # <<>>,
         IsChunk(s[1], t), s[1].idx = n + 1, Before(s, t, n, k)
  PROVE  Before(u, t, n + 1, k)
<1>1. Len(s) \in Nat /\ Len(u) \in Nat /\ 1 \in 1..Len(s)
  OBVIOUS
<1>2. ASSUME NEW i \in 1..Len(u), IsChunk(u[i], t) PROVE u[i].idx < k
  <2>1. i + 1 \in 1..Len(s) /\ u[i] = s[i + 1]
    BY <1>2, ShiftedFrom DEF IsChunk, OfLoop
  <2> QED
    BY <1>2, <2>1 DEF Before
<1>3. n + 1 < k
  BY <1>1 DEF Before
<1>4. PICK j \in 1..Len(s) : s[j] = Binary(t, k - 1)
  BY <1>3 DEF Before
<1>5. CASE j = 1
  <2>1. k - 1 = n + 1
    BY <1>4, <1>5 DEF Binary
  <2> QED
    BY <1>2, <2>1 DEF Before
<1>6. CASE j # 1
  <2>1. j - 1 \in 1..Len(u) /\ (j - 1) + 1 = j /\ j <= Len(s)
    BY <1>1, <1>6
  <2>2. u[j - 1] = s[j]
    BY <2>1 DEF Shifted
  <2> QED
    BY <1>2, <1>4, <2>1, <2>2 DEF Before
<1> QED
  BY <1>5, <1>6

LEMMA OtherOther ==
  ASSUME NEW p \in Peer
  PROVE  /\ Other(p) \in Peer /\ Other(p) # p /\ Other(Other(p)) = p
         /\ \A q \in Peer : q = p \/ q = Other(p)
BY PeerAssumption, OtherIsPeer

LEMMA ChunksType ==
  ASSUME NEW t \in Tid
  PROVE  Chunks(t) \in Nat /\ Chunks(t) >= 1
BY FileLenAssumption DEF Chunks

-----------------------------------------------------------------------------
(* What a step leaves to a browser *)

\* The chain of p takes d messages, and no loop sends to p.
Moved(p, d) ==
  /\ chan'[p] \in Seq(Message)
  /\ Shifted(chan[p], chan'[p], d)
  /\ IsOpen(p)' => IsOpen(p) /\ Len(chan'[p]) >= Len(chan[p]) - d
  /\ IsOpen(p) \/ Len(chan'[p]) <= Len(chan[p]) - d

\* A started loop stays started, and one that has ended does not send again.
LoopsGo(p) ==
  \A t \in Tid : Incoming(p, t) =>
    /\ Started(t) => Started(t)'
    /\ MaySend(t)' => MaySend(t) /\ loop'[t].next = loop[t].next

\* Who offered what stays known.
OwnersStay ==
  \A t \in Tid : owner[t] # NoPeer => owner'[t] = owner[t]

\* No answer to p's prompts is given, and none of its offers is answered.
Unanswered(p) ==
  /\ Metas(chan'[p]) \subseteq Metas(chan[p])
  /\ Readies(chan'[p]) \subseteq Readies(chan[p])
  /\ Readies(chan'[Other(p)]) \subseteq Readies(chan[Other(p)])
  /\ \A t \in Tid :
       Waiting(p, t) \/ (owner[t] = p /\ xfer'[p].state = "offering")
         => (Started(t)' => Started(t))

\* The files of p stay as they are, and no file gets chunks of its transfers.
FilesStay(p) ==
  /\ \A h \in Tid : Opened(p, h) => disk'[h] = disk[h]
  /\ \A g, t \in Tid : Incoming(p, t) /\ Holds(g, t)' => Holds(g, t)

LEMMA IncomingStays ==
  ASSUME NEW p \in Peer, NEW t, Incoming(p, t), OwnersStay
  PROVE  Incoming(p, t)' /\ t \in Tid
<1>1. Other(p) \in Peer /\ Other(p) # NoPeer
  BY OtherOther, NoPeerAssumption
<1> QED
  BY <1>1 DEF Incoming, OwnersStay

LEMMA LoopMessagesMoved ==
  ASSUME TypeOK, NEW p \in Peer, LoopMessages(p), NEW d \in {0, 1}, Moved(p, d),
         LoopsGo(p), OwnersStay
  PROVE  LoopMessages(p)'
<1> DEFINE s == chan[p]
           u == chan'[p]
<1>1. s \in Seq(Message) /\ u \in Seq(Message) /\ Shifted(s, u, d)
  BY DEF TypeOK, Moved
<1>2. Headed(s, IsOpen(p)) /\ EndIsLast(s)
  BY DEF LoopMessages
<1>3. IsOpen(p) \in BOOLEAN /\ IsOpen(p)' \in BOOLEAN
  BY DEF IsOpen
<1>4. /\ IsOpen(p)' => IsOpen(p) /\ Len(u) >= Len(s) - d
      /\ IsOpen(p) \/ Len(u) <= Len(s) - d
  BY DEF Moved
<1>5. ASSUME NEW i \in 1..Len(u), OfLoop(u[i]), NEW t, t = u[i].tid
      PROVE  /\ Incoming(p, t)'
             /\ Started(t)'
             /\ u[i].type = "file-end" => loop'[t].pc = "off"
  <2>1. i + d \in 1..Len(s) /\ u[i] = s[i + d]
    BY <1>1, <1>5, ShiftedFrom
  <2>2. /\ Incoming(p, t) /\ Started(t)
        /\ u[i].type = "file-end" => loop[t].pc = "off"
    BY <1>5, <2>1 DEF LoopMessages
  <2>3. Incoming(p, t)' /\ t \in Tid
    BY <2>2, IncomingStays
  <2> QED
    BY <2>2, <2>3 DEF LoopsGo, MaySend
<1>6. EndIsLast(u)
  BY <1>1, <1>2, EndIsLastShifted
<1> HIDE DEF s, u
<1>7. Headed(u, IsOpen(p)')
  BY <1>1, <1>2, <1>3, <1>4, HeadedShifted
<1>8. \A i \in 1..Len(u) : OfLoop(u[i]) =>
        /\ u[i].tid \in Tid /\ owner'[u[i].tid] = Other(p)
        /\ loop'[u[i].tid].obj # "none"
        /\ u[i].type = "file-end" => loop'[u[i].tid].pc = "off"
  BY <1>5 DEF Incoming, Started
<1> QED
  BY <1>6, <1>7, <1>8 DEF LoopMessages, Incoming, Started, s, u

LEMMA DrainedMoved ==
  ASSUME TypeOK, NEW p \in Peer, NEW t, Incoming(p, t), Drained(p, t),
         NEW d \in {0, 1}, Moved(p, d), LoopsGo(p)
  PROVE  Drained(p, t)'
<1>1. chan[p] \in Seq(Message)
  BY DEF TypeOK
<1>2. NothingOf(chan'[p], t)
  BY <1>1, NothingOfShifted DEF Moved, Drained
<1> QED
  BY <1>2 DEF Drained, Incoming, LoopsGo

LEMMA InOrderMoved ==
  ASSUME TypeOK, NEW p \in Peer, NEW t, Incoming(p, t), NEW n,
         InOrder(p, t, n), NEW d \in {0, 1}, Moved(p, d), LoopsGo(p),
         d = 1 => chan[p] # <<>> /\ ~IsChunk(Head(chan[p]), t)
  PROVE  InOrder(p, t, n)'
<1> DEFINE s == chan[p]
           u == chan'[p]
<1>1. /\ s \in Seq(Message) /\ u \in Seq(Message) /\ Shifted(s, u, d)
      /\ s # <<>> => Head(s) = s[1]
  BY DEF TypeOK, Moved
<1>2. t \in Tid /\ Chunks(t) \in Nat /\ n \in Nat /\ n \in 0..Chunks(t)
  BY ChunksType DEF Incoming, InOrder
<1>3. Follow(u, t, n)
  <2>1. Follow(s, t, n)
    BY DEF InOrder
  <2> HIDE DEF s, u
  <2> QED
    BY <1>1, <1>2, <2>1, FollowShifted DEF s
<1>4. ASSUME IsOpen(p)', MaySend(t)' PROVE Before(u, t, n, loop'[t].next)
  <2>1. /\ MaySend(t) /\ loop'[t].next = loop[t].next /\ IsOpen(p)
        /\ Len(u) >= Len(s) - d
    BY <1>2, <1>4 DEF Moved, LoopsGo
  <2>2. Before(s, t, n, loop[t].next)
    BY <2>1 DEF InOrder
  <2>3. Before(u, t, n, loop[t].next)
    <3> HIDE DEF s, u
    <3> QED
      BY <1>1, <2>1, <2>2, BeforeShifted DEF s
  <2> QED
    BY <2>1, <2>3
<1> QED
  BY <1>2, <1>3, <1>4 DEF InOrder

LEMMA InOrderTaken ==
  ASSUME TypeOK, NEW p \in Peer, NEW t, Incoming(p, t), NEW n,
         InOrder(p, t, n), Moved(p, 1), LoopsGo(p),
         chan[p] # <<>>, IsChunk(Head(chan[p]), t)
  PROVE  /\ Head(chan[p]).idx = n + 1 /\ n + 1 \in 1..Chunks(t)
         /\ InOrder(p, t, n + 1)'
<1> DEFINE s == chan[p]
           u == chan'[p]
<1>1. /\ s \in Seq(Message) /\ u \in Seq(Message) /\ Shifted(s, u, 1)
      /\ Head(s) = s[1] /\ s # <<>> /\ IsChunk(s[1], t)
  BY DEF TypeOK, Moved
<1>2. t \in Tid /\ Chunks(t) \in Nat /\ n \in Nat /\ n \in 0..Chunks(t)
  BY ChunksType DEF Incoming, InOrder
<1>3. Follow(s, t, n)
  BY DEF InOrder
<1>4. /\ s[1].idx = n + 1 /\ n + 1 \in 1..Chunks(t)
      /\ Follow(u, t, n + 1)
  <2> HIDE DEF s, u
  <2> QED
    BY <1>1, <1>2, <1>3, FollowTaken
<1>5. ASSUME IsOpen(p)', MaySend(t)' PROVE Before(u, t, n + 1, loop'[t].next)
  <2>1. /\ MaySend(t) /\ loop'[t].next = loop[t].next /\ IsOpen(p)
        /\ Len(u) >= Len(s) - 1
    BY <1>2, <1>5 DEF Moved, LoopsGo
  <2>2. Before(s, t, n, loop[t].next)
    BY <2>1 DEF InOrder
  <2>3. loop[t].next \in Nat
    BY <1>2 DEF TypeOK, Loop
  <2>4. Before(u, t, n + 1, loop[t].next)
    <3> DEFINE k == loop[t].next
    <3> HIDE DEF s, u, k
    <3> QED
      BY <1>1, <1>2, <1>4, <2>1, <2>2, <2>3, BeforeTaken DEF k
  <2> QED
    BY <2>1, <2>4
<1> QED
  BY <1>1, <1>2, <1>4, <1>5 DEF InOrder

LEMMA StartedOnceKept ==
  ASSUME TypeOK, OpenedOnce, OwnLoops, NEW p \in Peer, StartedOnce(p),
         Unanswered(p), OwnersStay,
         xfer'[p].tid \in {xfer[p].tid, NoTid},
         xfer'[p].state \in {"offering", "prompting"} =>
           xfer'[p].state = xfer[p].state /\ xfer'[p].tid = xfer[p].tid
  PROVE  StartedOnce(p)'
<1>1. ASSUME NEW t \in Tid, Waiting(p, t) PROVE Waiting(p, t)'
  BY <1>1 DEF Waiting, Unanswered
<1>2. ASSUME NEW t \in Metas(chan'[p]) PROVE Waiting(p, t)' /\ xfer'[p].tid # t
  <2>1. t \in Metas(chan[p])
    BY <1>2 DEF Unanswered
  <2>2. t \in Tid /\ t # NoTid
    BY <2>1, TidAssumption DEF OpenedOnce, Unopened
  <2> QED
    BY <1>1, <2>1, <2>2 DEF StartedOnce
<1>3. ASSUME NEW t, t = xfer'[p].tid, xfer'[p].state = "prompting"
      PROVE  Waiting(p, t)'
  BY <1>1, <1>3 DEF OpenedOnce, Unopened, StartedOnce
<1>4. ASSUME NEW t, t = xfer'[p].tid, xfer'[p].state = "offering"
      PROVE  ~Started(t)'
  BY <1>4 DEF OwnLoops, StartedOnce, Unanswered
<1>5. ASSUME xfer'[p].tid \in Tid PROVE owner'[xfer'[p].tid] # NoPeer
  BY <1>5, TidAssumption DEF StartedOnce, OwnersStay
<1>6. ASSUME NEW t \in Readies(chan'[p]), t # NoTid
      PROVE  t \in Tid /\ owner'[t] = p
  BY <1>6, NoPeerAssumption DEF StartedOnce, Unanswered, OwnersStay
<1> QED
  BY <1>2, <1>3, <1>4, <1>5, <1>6 DEF StartedOnce, Waiting, Started

\* The transfer object of p and its handler stay as they are, but for the
\* header they expect.
SameObject(p) ==
  /\ xfer'[p].state = xfer[p].state
  /\ xfer'[p].tid = xfer[p].tid
  /\ xfer'[p].stream = xfer[p].stream
  /\ chain'[p] = chain[p]

\* No loop of p begins to wait, and one that waits goes on with its closure.
LowRests(p) ==
  low'[p] # NoTid => low'[p] = low[p] /\ loop'[low[p]].pc = loop[low[p]].pc

LEMMA VacantStays ==
  ASSUME NEW p \in Peer, StartedOnce(p), Vacant(p), OwnersStay,
         SameObject(p)
  PROVE  Vacant(p)'
BY DEF Vacant, SameObject, Incoming, OwnersStay, StartedOnce

\* What was drained stays drained.
DrainStays(p) ==
  \A t \in Tid : Incoming(p, t) /\ Drained(p, t) => Drained(p, t)'

\* The chunks of the transfer p receives stay in order.
OrderStays(p) ==
  \A t \in Tid :
    Incoming(p, t) /\ xfer[p].tid = t /\ xfer[p].stream # NoTid =>
      \A n : InOrder(p, t, n) => InOrder(p, t, n)'

LEMMA MovedDrains ==
  ASSUME TypeOK, NEW p \in Peer, NEW d \in {0, 1}, Moved(p, d), LoopsGo(p)
  PROVE  DrainStays(p)
BY DrainedMoved DEF DrainStays

LEMMA MovedOrders ==
  ASSUME TypeOK, NEW p \in Peer, NEW d \in {0, 1}, Moved(p, d), LoopsGo(p),
         d = 1 => \/ xfer[p].stream = NoTid
                  \/ chan[p] # <<>> /\ ~IsChunk(Head(chan[p]), xfer[p].tid)
  PROVE  OrderStays(p)
<1> SUFFICES ASSUME NEW t \in Tid, Incoming(p, t), xfer[p].tid = t,
                    xfer[p].stream # NoTid, NEW n, InOrder(p, t, n)
             PROVE  InOrder(p, t, n)'
  BY DEF OrderStays
<1> QED
  BY InOrderMoved

LEMMA TransferStateKept ==
  ASSUME TypeOK, NEW p \in Peer, TransferState(p), StartedOnce(p),
         xfer'[p].state = xfer[p].state, xfer'[p].tid = xfer[p].tid,
         xfer'[p].stream = xfer[p].stream, DrainStays(p), OwnersStay
  PROVE  TransferState(p)'
<1> SUFFICES ASSUME NEW t, t = xfer[p].tid PROVE TransferState(p)'
  OBVIOUS
<1>1. Incoming(p, t) => Incoming(p, t)' /\ (Drained(p, t) => Drained(p, t)')
  BY IncomingStays DEF DrainStays
<1>2. t \in Tid => owner'[t] = owner[t]
  BY DEF StartedOnce, OwnersStay
<1>3. /\ xfer'[p].stream # NoTid =>
           xfer'[p].state = "transferring" /\ (t = NoTid \/ Incoming(p, t)')
      /\ xfer'[p].state = "transferring" /\ xfer'[p].stream = NoTid =>
           t \in Tid /\ owner'[t] = p
      /\ xfer'[p].state = "idle" /\ Incoming(p, t)' => Drained(p, t)'
  BY <1>1, <1>2 DEF TransferState, Incoming
<1> QED
  BY <1>3 DEF TransferState, Incoming, Drained, MaySend, Started, NothingOf

LEMMA HandlerStateKept ==
  ASSUME TypeOK, NEW p \in Peer, HandlerState(p), StartedOnce(p),
         SameObject(p), picker'[p] \in {picker[p], NoTid},
         DrainStays(p), OwnersStay
  PROVE  HandlerState(p)'
<1> SUFFICES ASSUME NEW t, t = xfer[p].tid PROVE HandlerState(p)'
  OBVIOUS
<1>1. Incoming(p, t) => Incoming(p, t)' /\ (Drained(p, t) => Drained(p, t)')
  BY IncomingStays DEF DrainStays
<1>2. Vacant(p) => Vacant(p)'
  BY VacantStays
<1>3. /\ chain[p].pc # "free" =>
           /\ picker'[p] = NoTid /\ chain[p].handle # NoTid
           /\ xfer[p].stream = chain[p].handle \/ Vacant(p)'
      /\ chain[p].pc \in {"decrypt", "write"} =>
           IF chain[p].obj = "live" THEN xfer[p].stream = chain[p].handle
                                    ELSE Vacant(p)'
      /\ chain[p].pc = "close" /\ xfer[p].stream = chain[p].handle =>
           Incoming(p, t)' /\ Drained(p, t)'
  BY <1>1, <1>2 DEF HandlerState
<1> QED
  BY <1>3 DEF HandlerState, SameObject, Incoming, Drained, MaySend, Started,
              NothingOf

LEMMA HeaderThenChunkKept ==
  ASSUME TypeOK, NEW p \in Peer, HeaderThenChunk(p), SameObject(p),
         xfer'[p].expected = xfer[p].expected, Moved(p, 0)
  PROVE  HeaderThenChunk(p)'
<1> DEFINE s == chan[p]
           u == chan'[p]
<1>1. /\ s \in Seq(Message) /\ u \in Seq(Message) /\ Shifted(s, u, 0)
      /\ Len(s) \in Nat /\ Len(u) \in Nat
      /\ IsOpen(p)' => IsOpen(p) /\ Len(u) >= Len(s)
      /\ IsOpen(p) \/ Len(u) <= Len(s)
  BY DEF TypeOK, Moved
<1>2. ASSUME s = <<>>, ~IsOpen(p) PROVE u = <<>> /\ ~IsOpen(p)'
  BY <1>1, <1>2
<1>3. ASSUME s # <<>> PROVE (u = <<>> /\ ~IsOpen(p)') \/ (u # <<>> /\ Head(u) = Head(s))
  <2>1. CASE u = <<>>
    BY <1>1, <1>3, <2>1
  <2>2. CASE u # <<>>
    <3>1. 1 \in 1..Len(u) /\ 1 + 0 <= Len(s) /\ Head(u) = u[1] /\ Head(s) = s[1]
      BY <1>1, <1>3, <2>2
    <3>2. u[1] = s[1 + 0]
      BY <1>1, <3>1 DEF Shifted
    <3> QED
      BY <2>2, <3>1, <3>2
  <2> QED
    BY <2>1, <2>2
<1> QED
  BY <1>2, <1>3 DEF HeaderThenChunk, SameObject

LEMMA PlaceOfTransferKept ==
  ASSUME TypeOK, OwnFiles, NEW p \in Peer, PlaceOfTransfer(p), StartedOnce(p),
         SameObject(p), FilesStay(p), OrderStays(p), OwnersStay
  PROVE  PlaceOfTransfer(p)'
<1> SUFFICES ASSUME NEW t, t = xfer'[p].tid, NEW h, h = xfer'[p].stream,
                    NEW n, n = Len(disk'[h].data), Incoming(p, t)', h # NoTid
             PROVE  /\ \A g \in Tid : Holds(g, t)' => g = h
                    /\ chain'[p].pc = "free" /\ disk'[h].status = "open" =>
                         disk'[h].data = Delivery!FirstChunks(t, n) /\ InOrder(p, t, n)'
  BY DEF PlaceOfTransfer
<1>1. Incoming(p, t) /\ t = xfer[p].tid /\ h = xfer[p].stream
  BY DEF Incoming, SameObject, StartedOnce, OwnersStay
<1>2. Opened(p, h) /\ h \in Tid
  BY <1>1 DEF OwnFiles, Opened
<1>3. disk'[h] = disk[h] /\ \A g \in Tid : Holds(g, t)' => Holds(g, t)
  BY <1>1, <1>2 DEF FilesStay, Incoming
<1>4. /\ \A g \in Tid : Holds(g, t) => g = h
      /\ chain[p].pc = "free" /\ disk[h].status = "open" =>
           disk[h].data = Delivery!FirstChunks(t, n) /\ InOrder(p, t, n)
  BY <1>1, <1>3 DEF PlaceOfTransfer
<1>5. InOrder(p, t, n) => InOrder(p, t, n)'
  BY <1>1 DEF OrderStays, Incoming
<1> QED
  BY <1>3, <1>4, <1>5 DEF SameObject

LEMMA PlaceOfChunkKept ==
  ASSUME TypeOK, OwnFiles, NEW p \in Peer, PlaceOfChunk(p), HandlerState(p),
         SameObject(p), FilesStay(p), OrderStays(p), OwnersStay,
         \A t \in Tid : Incoming(p, t) /\ Started(t) => Started(t)'
  PROVE  PlaceOfChunk(p)'
<1> SUFFICES ASSUME chain[p].pc \in {"decrypt", "write"},
                    NEW t, t = chain[p].block[1], NEW i, i = chain[p].block[2],
                    NEW h, h = chain[p].handle
             PROVE  /\ chain[p].block = chain[p].aad
                    /\ Incoming(p, t)' /\ Started(t)'
                    /\ \A g \in Tid : Holds(g, t)' => g = h
                    /\ chain[p].obj = "live" => xfer[p].tid = t
                    /\ chain[p].pc = "write" => disk'[h].status = "open"
                    /\ disk'[h].status = "open" =>
                         /\ i \in 1..Chunks(t)
                         /\ disk'[h].data = Delivery!FirstChunks(t, i - 1)
                         /\ chain[p].obj = "live" => InOrder(p, t, i)'
  BY DEF PlaceOfChunk, Incoming, Holds, Started, SameObject
<1>1. /\ chain[p].block = chain[p].aad
      /\ Incoming(p, t) /\ Started(t)
      /\ \A g \in Tid : Holds(g, t) => g = h
      /\ chain[p].obj = "live" => xfer[p].tid = t
      /\ chain[p].pc = "write" => disk[h].status = "open"
      /\ disk[h].status = "open" =>
           /\ i \in 1..Chunks(t)
           /\ disk[h].data = Delivery!FirstChunks(t, i - 1)
           /\ chain[p].obj = "live" => InOrder(p, t, i)
  BY DEF PlaceOfChunk
<1>2. Opened(p, h) /\ h \in Tid
  BY DEF HandlerState, OwnFiles, Opened
<1>3. disk'[h] = disk[h] /\ \A g \in Tid : Holds(g, t)' => Holds(g, t)
  BY <1>1, <1>2 DEF FilesStay, Incoming
<1>4. chain[p].obj = "live" /\ InOrder(p, t, i) => InOrder(p, t, i)'
  BY <1>1 DEF OrderStays, Incoming, HandlerState
<1>5. Incoming(p, t)' /\ Started(t)'
  BY <1>1, IncomingStays
<1> QED
  BY <1>1, <1>3, <1>4, <1>5

LEMMA ClosesWholeKept ==
  ASSUME TypeOK, OwnFiles, NEW p \in Peer, ClosesWhole(p), HandlerState(p),
         SameObject(p), FilesStay(p)
  PROVE  ClosesWhole(p)'
<1> SUFFICES ASSUME chain[p].pc = "close"
             PROVE  disk'[chain[p].handle] = disk[chain[p].handle]
  BY DEF ClosesWhole, SameObject
<1> QED
  BY DEF HandlerState, OwnFiles, Opened, FilesStay

-----------------------------------------------------------------------------
(* Steps of one browser *)

\* What the two browsers keep of their chunks.
PeerPlace(p) ==
  /\ LoopMessages(p) /\ StartedOnce(p) /\ ObjectStates(p) /\ HeaderThenChunk(p)
  /\ PlaceOfTransfer(p) /\ PlaceOfChunk(p) /\ ClosesWhole(p)

EmptyBefore(t) == disk[t].status = "none" => disk[t].data = <<>>

\* A browser whose transfer, handler and files stay as they are, while the
\* other one takes a step.
LEMMA PeerStays ==
  ASSUME Inv, NEW p \in Peer, PeerPlace(p), SameObject(p),
         picker'[p] \in {picker[p], NoTid} \/ xfer[p].state = "prompting",
         OwnersStay, FilesStay(p), DrainStays(p), OrderStays(p),
         \A t \in Tid : Incoming(p, t) /\ Started(t) => Started(t)',
         LoopMessages(p)', StartedOnce(p)', LowWaits(p)', HeaderThenChunk(p)'
  PROVE  PeerPlace(p)'
<1> USE DEF Inv, FilesHaveOnePlace, PeerPlace, ObjectStates
<1>3. DialogState(p)'
  BY DEF DialogState, SameObject
<1>4. TransferState(p)'
  BY TransferStateKept DEF SameObject
<1>5. HandlerState(p)'
  <2>1. CASE picker'[p] \in {picker[p], NoTid}
    BY <2>1, HandlerStateKept
  <2>2. CASE xfer[p].state = "prompting"
    <3>1. chain[p].pc = "free"
      BY <2>2 DEF HandlerState, TransferState, Vacant
    <3> QED
      BY <3>1 DEF HandlerState, SameObject
  <2> QED
    BY <2>1, <2>2
<1>7. PlaceOfTransfer(p)'
  BY PlaceOfTransferKept
<1>8. PlaceOfChunk(p)' /\ ClosesWhole(p)'
  BY PlaceOfChunkKept, ClosesWholeKept
<1> QED
  BY <1>3, <1>4, <1>5, <1>7, <1>8

\* The same when no loop of the other browser sends, starts or is accepted.
LEMMA PeerKept ==
  ASSUME Inv, NEW p \in Peer, PeerPlace(p), SameObject(p),
         xfer'[p].expected = xfer[p].expected, LowRests(p),
         picker'[p] \in {picker[p], NoTid} \/ xfer[p].state = "prompting",
         Moved(p, 0), LoopsGo(p), OwnersStay, Unanswered(p), FilesStay(p)
  PROVE  PeerPlace(p)'
<1>1. /\ TypeOK /\ OpenedOnce /\ OwnLoops
      /\ LoopMessages(p) /\ StartedOnce(p) /\ HeaderThenChunk(p) /\ LowWaits(p)
  BY DEF Inv, FilesHaveOnePlace, PeerPlace, ObjectStates
<1>2. LoopMessages(p)' /\ StartedOnce(p)' /\ HeaderThenChunk(p)'
  BY <1>1, LoopMessagesMoved, StartedOnceKept, HeaderThenChunkKept DEF SameObject
<1>3. LowWaits(p)'
  BY <1>1 DEF LowWaits, LowRests
<1>4. DrainStays(p) /\ OrderStays(p)
  BY <1>1, MovedDrains, MovedOrders
<1> QED
  BY <1>2, <1>3, <1>4, PeerStays DEF LoopsGo

\* The chain of p takes a message that is not a chunk of its transfer.
LEMMA PeerTakes ==
  ASSUME Inv, NEW p \in Peer, PeerPlace(p), chain[p].pc = "free",
         chan[p] # <<>>,
         xfer[p].stream = NoTid \/ ~IsChunk(Head(chan[p]), xfer[p].tid),
         SameObject(p), LowRests(p),
         picker'[p] \in {picker[p], NoTid}, Moved(p, 1), LoopsGo(p),
         OwnersStay, Unanswered(p), FilesStay(p), HeaderThenChunk(p)'
  PROVE  PeerPlace(p)'
<1>1. /\ TypeOK /\ OpenedOnce /\ OwnLoops
      /\ LoopMessages(p) /\ StartedOnce(p) /\ LowWaits(p)
  BY DEF Inv, FilesHaveOnePlace, PeerPlace, ObjectStates
<1>2. LoopMessages(p)' /\ StartedOnce(p)'
  BY <1>1, LoopMessagesMoved, StartedOnceKept DEF SameObject
<1>3. LowWaits(p)'
  BY <1>1 DEF LowWaits, LowRests
<1>4. DrainStays(p) /\ OrderStays(p)
  BY <1>1, MovedDrains, MovedOrders
<1> QED
  BY <1>2, <1>3, <1>4, PeerStays DEF LoopsGo

\* p has a new transfer object; a handler at work has lost its object.
LEMMA PeerReset ==
  ASSUME Inv, NEW p \in Peer, PeerPlace(p),
         xfer'[p] = InitialTransferState, low'[p] = NoTid,
         picker'[p] \in {picker[p], NoTid},
         NEW d \in {0, 1}, Moved(p, d), LoopsGo(p), OwnersStay, Unanswered(p),
         \A g, t \in Tid : Incoming(p, t) /\ Holds(g, t)' => Holds(g, t),
         chain'[p].pc # "free" =>
           /\ chain'[p].pc = chain[p].pc /\ chain'[p].handle = chain[p].handle
           /\ chain'[p].block = chain[p].block /\ chain'[p].aad = chain[p].aad
           /\ chain'[p].obj # "live"
           /\ \/ disk'[chain[p].handle] = disk[chain[p].handle]
              \/ /\ chain[p].pc \in {"decrypt", "reset"}
                 /\ disk'[chain[p].handle].status # "open"
  PROVE  PeerPlace(p)'
<1> USE DEF Inv, FilesHaveOnePlace, PeerPlace, ObjectStates
<1>1. LoopMessages(p)'
  BY LoopMessagesMoved
<1>2. /\ xfer'[p].state = "idle" /\ xfer'[p].tid = NoTid
      /\ xfer'[p].expected = 0 /\ xfer'[p].stream = NoTid
  BY DEF InitialTransferState
<1>3. StartedOnce(p)'
  BY <1>2, StartedOnceKept
<1>4. Vacant(p)' /\ ~Incoming(p, NoTid)'
  BY <1>2, TidAssumption DEF Vacant, Incoming
<1>5. DialogState(p)' /\ LowWaits(p)' /\ TransferState(p)'
  BY <1>2, <1>4 DEF DialogState, LowWaits, TransferState, Incoming
<1>6. HandlerState(p)'
  BY <1>2, <1>4 DEF HandlerState
<1>7. HeaderThenChunk(p)' /\ PlaceOfTransfer(p)'
  BY <1>2, TidAssumption DEF HeaderThenChunk, PlaceOfTransfer, Incoming
<1>8. PlaceOfChunk(p)'
  <2> SUFFICES ASSUME chain'[p].pc \in {"decrypt", "write"},
                    NEW t, t = chain[p].block[1], NEW i, i = chain[p].block[2],
                    NEW h, h = chain[p].handle
             PROVE  /\ chain[p].block = chain[p].aad
                    /\ Incoming(p, t)' /\ Started(t)'
                    /\ \A g \in Tid : Holds(g, t)' => g = h
                    /\ chain[p].pc = "write" => disk'[h].status = "open"
                    /\ disk'[h].status = "open" =>
                         i \in 1..Chunks(t) /\ disk'[h].data = Delivery!FirstChunks(t, i - 1)
    BY DEF PlaceOfChunk, Incoming, Holds, Started
  <2>1. /\ chain[p].pc \in {"decrypt", "write"}
        /\ chain[p].block = chain[p].aad
        /\ Incoming(p, t) /\ Started(t)
        /\ \A g \in Tid : Holds(g, t) => g = h
        /\ chain[p].pc = "write" => disk[h].status = "open"
        /\ disk[h].status = "open" =>
             i \in 1..Chunks(t) /\ disk[h].data = Delivery!FirstChunks(t, i - 1)
    BY DEF PlaceOfChunk
  <2>2. \A g \in Tid : Holds(g, t)' => Holds(g, t)
    BY <2>1 DEF Incoming
  <2>3. Incoming(p, t)' /\ Started(t)'
    BY <2>1, IncomingStays DEF LoopsGo
  <2> QED
    BY <2>1, <2>2, <2>3
<1>9. ClosesWhole(p)'
  BY DEF ClosesWhole
<1> QED
  BY <1>1, <1>3, <1>5, <1>6, <1>7, <1>8, <1>9

\* p asks no loop to start or to send, starts and changes no transfer of the
\* other browser.
Resting(p) ==
  /\ UNCHANGED owner
  /\ \A t \in Tid :
       /\ Started(t)' <=> Started(t)
       /\ loop'[t].next = loop[t].next
       /\ loop'[t].pc # "off" => loop[t].pc # "off"
       /\ loop'[t].obj = "live" => loop[t].obj = "live"
       /\ owner[t] # p => loop'[t] = loop[t]
  /\ LET q == Other(p) IN
       /\ xfer'[q] = xfer[q] /\ chain'[q] = chain[q]
       /\ picker'[q] = picker[q] /\ low'[q] = low[q]
       /\ Moved(q, 0)
  /\ \A q \in Peer : /\ Metas(chan'[q]) \subseteq Metas(chan[q])
                     /\ Readies(chan'[q]) \subseteq Readies(chan[q])

\* A live loop of p stays that of p's transfer.
LiveStays(p) ==
  \A t \in Tid : owner[t] = p /\ loop'[t].pc # "off" /\ loop'[t].obj = "live" =>
    xfer'[p].tid = xfer[p].tid /\ xfer'[p].state = xfer[p].state

\* p opens no file, and changes only its own files.
OwnData(p) ==
  /\ \A g \in Tid : ~Opened(p, g) => disk'[g] = disk[g]
  /\ \A g \in Tid : disk'[g].status = "none" => disk'[g] = disk[g]
  /\ \A g, t \in Tid :
       Holds(g, t)' => Holds(g, t) \/ (Incoming(p, t) /\ Started(t))

LEMMA RestingLoops ==
  ASSUME TypeOK, NEW p \in Peer, Resting(p)
  PROVE  /\ OwnersStay
         /\ \A q \in Peer : LoopsGo(q) /\ Unanswered(q)
<1>1. OwnersStay
  BY DEF Resting, OwnersStay
<1>2. \A q \in Peer : LoopsGo(q)
  BY DEF Resting, LoopsGo, MaySend
<1>3. ASSUME NEW q \in Peer PROVE Unanswered(q)
  BY OtherOther DEF Resting, Unanswered
<1> QED
  BY <1>1, <1>2, <1>3

LEMMA RestingOther ==
  ASSUME Inv, NEW p \in Peer, Resting(p), OwnData(p), PeerPlace(Other(p))
  PROVE  PeerPlace(Other(p))'
<1> SUFFICES ASSUME NEW q \in Peer, q = Other(p) PROVE PeerPlace(q)'
  BY OtherOther
<1>1. OwnersStay /\ LoopsGo(q) /\ Unanswered(q)
  BY RestingLoops DEF Inv
<1>2. /\ SameObject(q) /\ Moved(q, 0) /\ picker'[q] = picker[q]
      /\ xfer'[q].expected = xfer[q].expected
  BY DEF Resting, SameObject
<1>3. q # p /\ Other(q) = p
  BY OtherOther
<1>4. LowRests(q)
  <2>1. low[q] # NoTid => low[q] \in Tid /\ owner[low[q]] = q
    BY DEF Inv, TypeOK, FilesHaveOnePlace, OwnLoops, TidOrNone
  <2> QED
    BY <1>3, <2>1 DEF LowRests, Resting
<1>5. FilesStay(q)
  <2>1. ASSUME NEW h \in Tid, Opened(q, h) PROVE disk'[h] = disk[h]
    BY <1>3, <2>1, NotShared DEF OwnData
  <2>2. ASSUME NEW g \in Tid, NEW t \in Tid, Incoming(q, t), Holds(g, t)'
        PROVE  Holds(g, t)
    BY <1>3, <2>2 DEF OwnData, Incoming
  <2> QED
    BY <2>1, <2>2 DEF FilesStay
<1> QED
  BY <1>1, <1>2, <1>4, <1>5, PeerKept

LEMMA RestingCounts ==
  ASSUME Inv, NEW p \in Peer, Resting(p), OwnData(p), LiveStays(p),
         NEW t \in Tid, LoopCounts(t), EmptyBefore(t)
  PROVE  LoopCounts(t)' /\ EmptyBefore(t)'
<1>1. /\ owner'[t] = owner[t]
      /\ Started(t)' <=> Started(t)
      /\ loop'[t].next = loop[t].next
      /\ loop'[t].pc # "off" => loop[t].pc # "off"
      /\ loop'[t].obj = "live" => loop[t].obj = "live"
  BY DEF Resting
<1>2. ~Started(t) => \A g \in Tid : ~Holds(g, t)'
  BY DEF OwnData, LoopCounts
<1>3. ASSUME loop'[t].pc # "off", loop'[t].obj = "live"
      PROVE  xfer'[owner[t]].tid = t /\ xfer'[owner[t]].state = "transferring"
  <2>1. xfer[owner[t]].tid = t /\ xfer[owner[t]].state = "transferring"
    BY <1>1, <1>3 DEF LoopCounts
  <2>2. owner[t] \in Peer
    BY <1>1, <1>3 DEF Inv, FilesHaveOnePlace, OwnLoops
  <2>3. CASE owner[t] = p
    BY <1>3, <2>1, <2>3 DEF LiveStays
  <2>4. CASE owner[t] = Other(p)
    BY <2>1, <2>4 DEF Resting
  <2> QED
    BY <2>2, <2>3, <2>4, OtherOther
<1>4. ~Started(t) => loop'[t].pc = "off" /\ loop'[t].next = 1
  BY <1>1 DEF LoopCounts
<1>5. LoopCounts(t)'
  BY <1>1, <1>2, <1>3, <1>4 DEF LoopCounts
<1>6. EmptyBefore(t)'
  BY DEF OwnData, EmptyBefore
<1> QED
  BY <1>5, <1>6

\* Most steps are of this kind; what they do to p itself remains to be shown.
LEMMA RestingStep ==
  ASSUME Inv, ChunksHaveOnePlace, NEW p \in Peer, Resting(p), OwnData(p),
         LiveStays(p), PeerPlace(p)'
  PROVE  ChunksHaveOnePlace'
<1>1. PeerPlace(Other(p))'
  BY OtherOther, RestingOther DEF ChunksHaveOnePlace, PeerPlace
<1>2. \A r \in Peer : PeerPlace(r)'
  BY <1>1, OtherOther
<1>3. \A t \in Tid : LoopCounts(t)' /\ EmptyBefore(t)'
  BY RestingCounts DEF ChunksHaveOnePlace, EmptyBefore
<1> QED
  BY <1>2, <1>3 DEF ChunksHaveOnePlace, PeerPlace, EmptyBefore

-----------------------------------------------------------------------------
(* Channels and resets *)

\* The chain of p takes d messages, and no message matters to a transfer that
\* is sent.
ChannelsRest(p, d) ==
  /\ Moved(p, d)
  /\ Moved(Other(p), 0)
  /\ \A q \in Peer : /\ Metas(chan'[q]) \subseteq Metas(chan[q])
                     /\ Readies(chan'[q]) \subseteq Readies(chan[q])

LEMMA ChannelsSame ==
  ASSUME TypeOK, NEW p \in Peer, UNCHANGED <<chan, dc>>
  PROVE  ChannelsRest(p, 0)
<1>1. \A q \in Peer : chan[q] \in Seq(Message) /\ Len(chan[q]) \in Nat
  BY DEF TypeOK
<1>2. \A q \in Peer : Moved(q, 0)
  BY <1>1, ShiftedSame DEF Moved, IsOpen
<1> QED
  BY <1>2, OtherOther DEF ChannelsRest

\* p takes at most one message, and may tell the other browser that it gives
\* up.
LEMMA ChannelsMove ==
  ASSUME TypeOK, NEW p \in Peer, NEW d \in {0, 1}, d = 1 => chan[p] # <<>>,
         NEW type \in {"reject-transfer", "cancel-transfer"},
         NEW t \in TidOrNone, NEW c, c = IF d = 0 THEN chan ELSE Rest(p),
         chan' = c \/ chan' = TrySent(c, p, Msg(type, t)),
         UNCHANGED dc
  PROVE  ChannelsRest(p, d) /\ chan'[p] = c[p]
<1> DEFINE q == Other(p)
<1>1. /\ q \in Peer /\ q # p /\ chan[p] \in Seq(Message) /\ chan[q] \in Seq(Message)
      /\ Len(chan[p]) \in Nat /\ Len(chan[q]) \in Nat
      /\ \A r \in Peer : r = p \/ r = q
  BY OtherOther DEF TypeOK
<1> HIDE DEF q
<1>2. /\ c[q] = chan[q]
      /\ c[p] = IF d = 0 THEN chan[p] ELSE Tail(chan[p])
      /\ c \in [Peer -> Seq(Message)]
      /\ Fewer(chan, c)
  <2>1. CASE d = 0
    BY <2>1, SameFewer DEF TypeOK
  <2>2. CASE d = 1
    <3>1. Tail(chan[p]) \in Seq(Message)
      BY <1>1, <2>2
    <3>2. Fewer(chan, Rest(p)) /\ c = Rest(p)
      BY <2>2, RestFewer
    <3> QED
      BY <1>1, <2>2, <3>1, <3>2 DEF Rest, TypeOK
  <2> QED
    BY <2>1, <2>2
<1> DEFINE m == Msg(type, t)
<1>3. m \in Message /\ ~OfLoop(m) /\ m.type = type /\ type \in MessageType
      /\ type # "file-meta" /\ type # "ready"
  BY MsgType DEF Msg, OfLoop, MessageType
<1>4. Fewer(c, TrySent(c, p, m)) /\ (chan' = c \/ chan' = TrySent(c, p, m))
  BY <1>2, <1>3, TrySentFewer
<1> HIDE DEF m
<1>5. Fewer(chan, chan')
  BY <1>2, <1>4, FewerStill
<1>6. /\ chan'[p] = c[p]
      /\ \/ chan'[q] = chan[q]
         \/ chan'[q] = chan[q] \o <<m>> /\ IsOpen(q)
  <2>1. CASE chan' = c
    BY <1>1, <1>2, <2>1
  <2>2. CASE chan' = TrySent(c, p, m)
    BY <1>1, <1>2, <2>2 DEF TrySent, Sent, q
  <2> QED
    BY <1>4, <2>1, <2>2
<1>7. Moved(p, d) /\ Readies(chan'[p]) \subseteq Readies(chan[p])
  <2>1. CASE d = 0
    BY <1>1, <1>2, <1>6, <2>1, ShiftedSame DEF Moved, IsOpen
  <2>2. CASE d = 1
    BY <1>1, <1>2, <1>6, <2>2, ShiftedTail DEF Moved, IsOpen
  <2> QED
    BY <2>1, <2>2
<1>8. Moved(q, 0) /\ Readies(chan'[q]) \subseteq Readies(chan[q])
  <2>1. CASE chan'[q] = chan[q]
    BY <1>1, <2>1, ShiftedSame DEF Moved, IsOpen
  <2>2. CASE chan'[q] = chan[q] \o <<m>> /\ IsOpen(q)
    <3>1. /\ chan[q] \o <<m>> \in Seq(Message)
          /\ Shifted(chan[q], chan[q] \o <<m>>, 0)
          /\ Len(chan[q] \o <<m>>) = Len(chan[q]) + 1
          /\ Readies(chan[q] \o <<m>>) \subseteq Readies(chan[q])
      BY <1>1, <1>3, ShiftedAppend
    <3> QED
      BY <1>1, <2>2, <3>1 DEF Moved, IsOpen
  <2> QED
    BY <1>6, <2>1, <2>2
<1> QED
  BY <1>1, <1>5, <1>6, <1>7, <1>8 DEF ChannelsRest, Fewer, q

\* The loops lp: some loop of p was stopped, but none that waits.
Stopped(p, lp) ==
  /\ lp \in [Tid -> Loop]
  /\ \A t \in Tid :
       /\ lp[t].obj = loop[t].obj /\ lp[t].next = loop[t].next
       /\ lp[t].pc \in {loop[t].pc, "off"}
       /\ loop[t].pc = "wait" => lp[t].pc = "wait"
       /\ owner[t] # p => lp[t] = loop[t]

\* The part of Resting about loops and transfer objects.
LoopsRest(p) ==
  /\ \A t \in Tid :
       /\ Started(t)' <=> Started(t)
       /\ loop'[t].next = loop[t].next
       /\ loop'[t].pc # "off" => loop[t].pc # "off"
       /\ loop'[t].obj = "live" => loop[t].obj = "live"
       /\ owner[t] # p => loop'[t] = loop[t]
  /\ LET q == Other(p) IN xfer'[q] = xfer[q] /\ low'[q] = low[q]

LEMMA SameStopped ==
  ASSUME TypeOK, NEW p \in Peer
  PROVE  Stopped(p, loop)
BY DEF Stopped, TypeOK

LEMMA ReplacedRests ==
  ASSUME TypeOK, NEW p \in Peer, NEW lp, Stopped(p, lp),
         NEW old \in {"halted", "orphan"}, Replaced(p, lp, old)
  PROVE  /\ LoopsRest(p)
         /\ xfer'[p] = InitialTransferState /\ low'[p] = NoTid
         /\ \A t \in Tid : owner[t] = p => loop'[t].obj # "live"
<1>1. ASSUME NEW t \in Tid
      PROVE  /\ loop'[t] = IF owner[t] = p /\ lp[t].obj = "live"
                           THEN [lp[t] EXCEPT !.obj = old] ELSE lp[t]
             /\ lp[t] \in Loop
             /\ [lp[t] EXCEPT !.obj = old].obj = old
             /\ [lp[t] EXCEPT !.obj = old].pc = lp[t].pc
             /\ [lp[t] EXCEPT !.obj = old].next = lp[t].next
  BY DEF Replaced, Stopped, Loop
<1>2. ASSUME NEW t \in Tid
      PROVE  /\ Started(t)' <=> Started(t)
             /\ loop'[t].next = loop[t].next
             /\ loop'[t].pc # "off" => loop[t].pc # "off"
             /\ loop'[t].obj = "live" => loop[t].obj = "live"
             /\ owner[t] # p => loop'[t] = loop[t]
             /\ owner[t] = p => loop'[t].obj # "live"
  BY <1>1 DEF Stopped, Started
<1>3. /\ xfer'[p] = InitialTransferState /\ low'[p] = NoTid
      /\ xfer'[Other(p)] = xfer[Other(p)] /\ low'[Other(p)] = low[Other(p)]
  BY OtherOther DEF Replaced, TypeOK
<1> QED
  BY <1>2, <1>3 DEF LoopsRest

LEMMA StaledRests ==
  ASSUME TypeOK, NEW p \in Peer, chain' = Staled(p)
  PROVE  /\ chain'[Other(p)] = chain[Other(p)]
         /\ chain'[p].pc = chain[p].pc /\ chain'[p].handle = chain[p].handle
         /\ chain'[p].block = chain[p].block /\ chain'[p].aad = chain[p].aad
         /\ chain'[p].obj # "live"
<1>1. chain[p] \in Handler
  BY DEF TypeOK
<1> DEFINE c == [chain[p] EXCEPT !.obj = "stale"]
<1>2. /\ c.pc = chain[p].pc /\ c.handle = chain[p].handle
      /\ c.block = chain[p].block /\ c.aad = chain[p].aad
      /\ c.obj = "stale"
  BY <1>1 DEF Handler
<1>3. chain' = IF chain[p].obj = "live" THEN [chain EXCEPT ![p] = c] ELSE chain
  BY DEF Staled
<1> HIDE DEF c
<1> QED
  BY <1>2, <1>3, OtherOther DEF TypeOK

LEMMA SameData ==
  ASSUME NEW p \in Peer, disk' = disk
  PROVE  OwnData(p) /\ (\A g, t \in Tid : Holds(g, t)' => Holds(g, t)) /\ FilesStay(p)
BY DEF OwnData, Holds, FilesStay

LEMMA RestingIs ==
  ASSUME NEW p \in Peer, NEW d, ChannelsRest(p, d), LoopsRest(p),
         UNCHANGED owner,
         chain'[Other(p)] = chain[Other(p)], picker'[Other(p)] = picker[Other(p)]
  PROVE  Resting(p)
BY DEF Resting, ChannelsRest, LoopsRest

\* p resets its transfer outside the chain.
LEMMA ResetTransferKeeps ==
  ASSUME Inv, ChunksHaveOnePlace, NEW p \in Peer, NEW lp, Stopped(p, lp),
         ResetTransfer(p, lp), NEW d \in {0, 1}, ChannelsRest(p, d),
         d = 0 \/ xfer[p].stream = NoTid,
         picker'[p] \in {picker[p], NoTid},
         picker'[Other(p)] = picker[Other(p)], UNCHANGED <<disk, owner>>
  PROVE  ChunksHaveOnePlace'
<1>1. TypeOK /\ PeerPlace(p)
  BY DEF Inv, ChunksHaveOnePlace, PeerPlace
<1>2. OwnData(p) /\ (\A g, t \in Tid : Holds(g, t)' => Holds(g, t)) /\ FilesStay(p)
  BY SameData
<1>3. CASE xfer[p].stream = NoTid
  <2>1. Replaced(p, lp, "halted") /\ chain' = Staled(p)
    BY <1>3 DEF ResetTransfer
  <2>2. /\ LoopsRest(p)
        /\ xfer'[p] = InitialTransferState /\ low'[p] = NoTid
        /\ \A t \in Tid : owner[t] = p => loop'[t].obj # "live"
    BY <1>1, <2>1, ReplacedRests
  <2>3. /\ chain'[Other(p)] = chain[Other(p)]
        /\ chain'[p].pc = chain[p].pc /\ chain'[p].handle = chain[p].handle
        /\ chain'[p].block = chain[p].block /\ chain'[p].aad = chain[p].aad
        /\ chain'[p].obj # "live"
    BY <1>1, <2>1, StaledRests
  <2>4. Resting(p)
    BY <2>2, <2>3, RestingIs
  <2>5. LiveStays(p)
    BY <2>2 DEF LiveStays
  <2>6. PeerPlace(p)'
    <3>1. OwnersStay /\ LoopsGo(p) /\ Unanswered(p) /\ Moved(p, d)
      BY <1>1, <2>4, RestingLoops DEF ChannelsRest
    <3> QED
      BY <1>1, <1>2, <2>2, <2>3, <3>1, PeerReset
  <2> QED
    BY <1>2, <2>4, <2>5, <2>6, RestingStep
<1>4. CASE xfer[p].stream # NoTid
  <2>1. d = 0 /\ loop' = lp /\ xfer' = xfer /\ chain' = chain /\ low' = low
    BY <1>4 DEF ResetTransfer
  <2>2. LoopsRest(p)
    BY <2>1 DEF LoopsRest, Stopped, Started
  <2>3. Resting(p)
    BY <2>1, <2>2, RestingIs
  <2>4. LiveStays(p) /\ SameObject(p)
    BY <2>1 DEF LiveStays, SameObject
  <2>5. LowRests(p)
    BY <1>1, <2>1 DEF LowRests, Stopped, PeerPlace, ObjectStates, LowWaits,
                      TypeOK, TidOrNone
  <2>6. PeerPlace(p)'
    <3>1. OwnersStay /\ LoopsGo(p) /\ Unanswered(p) /\ Moved(p, 0)
      BY <1>1, <2>1, <2>3, RestingLoops DEF ChannelsRest
    <3> QED
      BY <1>1, <1>2, <2>1, <2>4, <2>5, <3>1, PeerKept
  <2> QED
    BY <1>2, <2>3, <2>4, <2>6, RestingStep
<1> QED
  BY <1>3, <1>4

\* The handler at the head of p's chain begins to abort the open file.
LEMMA PeerResets ==
  ASSUME Inv, NEW p \in Peer, PeerPlace(p), xfer[p].stream # NoTid,
         chain'[p].pc = "reset", chain'[p].handle = xfer[p].stream,
         xfer'[p] = xfer[p], low'[p] = low[p], picker'[p] = picker[p],
         LowRests(p), NEW d \in {0, 1}, Moved(p, d), LoopsGo(p), OwnersStay,
         Unanswered(p), \A g, t \in Tid : Holds(g, t)' => Holds(g, t)
  PROVE  PeerPlace(p)'
<1> USE DEF Inv, FilesHaveOnePlace, PeerPlace, ObjectStates
<1>1. LoopMessages(p)'
  BY LoopMessagesMoved
<1>2. StartedOnce(p)'
  BY StartedOnceKept
<1>3. DialogState(p)' /\ LowWaits(p)'
  BY DEF DialogState, LowWaits, LowRests
<1>4. TransferState(p)'
  BY TransferStateKept, MovedDrains
<1>5. HandlerState(p)' /\ HeaderThenChunk(p)'
  BY DEF HandlerState, TransferState, DialogState, HeaderThenChunk
<1>6. PlaceOfTransfer(p)'
  <2> SUFFICES ASSUME NEW t, t = xfer[p].tid, Incoming(p, t)',
                      NEW g \in Tid, Holds(g, t)'
               PROVE  g = xfer[p].stream
    BY DEF PlaceOfTransfer
  <2>1. Incoming(p, t) /\ Holds(g, t)
    BY DEF Incoming, StartedOnce, OwnersStay
  <2> QED
    BY <2>1 DEF PlaceOfTransfer
<1>7. PlaceOfChunk(p)' /\ ClosesWhole(p)'
  BY DEF PlaceOfChunk, ClosesWhole
<1> QED
  BY <1>1, <1>2, <1>3, <1>4, <1>5, <1>6, <1>7

\* The handler at the head of p's chain resets the transfer.
LEMMA ResetInChainKeeps ==
  ASSUME Inv, ChunksHaveOnePlace, NEW p \in Peer, ResetInChain(p),
         NEW d \in {0, 1}, ChannelsRest(p, d), UNCHANGED <<disk, owner, picker>>
  PROVE  ChunksHaveOnePlace'
<1>1. TypeOK /\ PeerPlace(p)
  BY DEF Inv, ChunksHaveOnePlace, PeerPlace
<1>2. OwnData(p) /\ (\A g, t \in Tid : Holds(g, t)' => Holds(g, t)) /\ FilesStay(p)
  BY SameData
<1>3. CASE xfer[p].stream = NoTid
  <2>1. /\ Replaced(p, loop, "halted")
        /\ chain' = [chain EXCEPT ![p] = FreeChain]
    BY <1>3 DEF ResetInChain
  <2>2. /\ LoopsRest(p)
        /\ xfer'[p] = InitialTransferState /\ low'[p] = NoTid
        /\ \A t \in Tid : owner[t] = p => loop'[t].obj # "live"
    BY <1>1, <2>1, ReplacedRests, SameStopped
  <2>3. chain'[Other(p)] = chain[Other(p)] /\ chain'[p].pc = "free"
    BY <1>1, <2>1, OtherOther DEF FreeChain, TypeOK
  <2>4. Resting(p)
    BY <2>2, <2>3, RestingIs
  <2>5. LiveStays(p)
    BY <2>2 DEF LiveStays
  <2>6. PeerPlace(p)'
    <3>1. OwnersStay /\ LoopsGo(p) /\ Unanswered(p) /\ Moved(p, d)
      BY <1>1, <2>4, RestingLoops DEF ChannelsRest
    <3> QED
      BY <1>1, <1>2, <2>2, <2>3, <3>1, PeerReset
  <2> QED
    BY <1>2, <2>4, <2>5, <2>6, RestingStep
<1>4. CASE xfer[p].stream # NoTid
  <2> DEFINE c == [FreeChain EXCEPT !.pc = "reset", !.handle = xfer[p].stream]
  <2>1. c.pc = "reset" /\ c.handle = xfer[p].stream
    BY FreeChainType DEF Handler
  <2>2. /\ chain' = [chain EXCEPT ![p] = c]
        /\ loop' = loop /\ xfer' = xfer /\ low' = low
    BY <1>4 DEF ResetInChain
  <2> HIDE DEF c
  <2>3. LoopsRest(p) /\ LowRests(p) /\ LiveStays(p)
    BY <2>2 DEF LoopsRest, LowRests, LiveStays, Started
  <2>4. /\ chain'[Other(p)] = chain[Other(p)]
        /\ chain'[p].pc = "reset" /\ chain'[p].handle = xfer[p].stream
    BY <1>1, <2>1, <2>2, OtherOther DEF TypeOK
  <2>5. Resting(p)
    BY <2>3, <2>4, RestingIs
  <2>6. PeerPlace(p)'
    <3>1. OwnersStay /\ LoopsGo(p) /\ Unanswered(p) /\ Moved(p, d)
      BY <1>1, <2>5, RestingLoops DEF ChannelsRest
    <3> QED
      BY <1>1, <1>2, <1>4, <2>2, <2>3, <2>4, <3>1, PeerResets
  <2> QED
    BY <1>2, <2>3, <2>5, <2>6, RestingStep
<1> QED
  BY <1>3, <1>4

-----------------------------------------------------------------------------
(* Steps that reset, wait or ignore *)

\* p's transfer, handler and files stay as they are.
LEMMA RestKeeps ==
  ASSUME Inv, ChunksHaveOnePlace, NEW p \in Peer, ChannelsRest(p, 0),
         LoopsRest(p), LowRests(p),
         picker'[p] \in {picker[p], NoTid} \/ xfer[p].state = "prompting",
         picker'[Other(p)] = picker[Other(p)],
         UNCHANGED <<xfer, chain, disk, owner>>
  PROVE  ChunksHaveOnePlace'
<1>1. TypeOK /\ PeerPlace(p)
  BY DEF Inv, ChunksHaveOnePlace, PeerPlace
<1>2. OwnData(p) /\ FilesStay(p)
  BY SameData
<1>3. Resting(p)
  BY RestingIs
<1>4. LiveStays(p) /\ SameObject(p)
  BY DEF LiveStays, SameObject
<1>5. PeerPlace(p)'
  <2>1. OwnersStay /\ LoopsGo(p) /\ Unanswered(p) /\ Moved(p, 0)
    BY <1>1, <1>3, RestingLoops DEF ChannelsRest
  <2> QED
    BY <1>1, <1>2, <1>4, <2>1, PeerKept
<1> QED
  BY <1>2, <1>3, <1>4, <1>5, RestingStep

LEMMA SameLoops ==
  ASSUME NEW p \in Peer, UNCHANGED <<loop, low>>, xfer'[Other(p)] = xfer[Other(p)]
  PROVE  LoopsRest(p) /\ LowRests(p)
BY DEF LoopsRest, LowRests, Started

\* A message that is no chunk for p's file changes nothing but, possibly, the
\* header p remembers.
LEMMA TakeKeeps ==
  ASSUME Inv, ChunksHaveOnePlace, NEW p \in Peer, chain[p].pc = "free",
         chan[p] # <<>>, ChannelsRest(p, 1),
         xfer[p].stream = NoTid \/ ~IsChunk(Head(chan[p]), xfer[p].tid),
         xfer'[p].state = xfer[p].state, xfer'[p].tid = xfer[p].tid,
         xfer'[p].stream = xfer[p].stream, xfer'[Other(p)] = xfer[Other(p)],
         UNCHANGED <<chain, picker, disk, owner, loop, low>>,
         HeaderThenChunk(p)'
  PROVE  ChunksHaveOnePlace'
<1>1. TypeOK /\ PeerPlace(p)
  BY DEF Inv, ChunksHaveOnePlace, PeerPlace
<1>2. OwnData(p) /\ FilesStay(p)
  BY SameData
<1>3. LoopsRest(p) /\ LowRests(p)
  BY SameLoops
<1>4. Resting(p)
  BY <1>3, RestingIs
<1>5. LiveStays(p) /\ SameObject(p)
  BY DEF LiveStays, SameObject
<1>6. PeerPlace(p)'
  <2>1. OwnersStay /\ LoopsGo(p) /\ Unanswered(p) /\ Moved(p, 1)
    BY <1>1, <1>4, RestingLoops DEF ChannelsRest
  <2> QED
    BY <1>1, <1>2, <1>3, <1>5, <2>1, PeerTakes
<1> QED
  BY <1>2, <1>4, <1>5, <1>6, RestingStep

LEMMA IgnoreKeeps ==
  ASSUME Inv, ChunksHaveOnePlace, NEW p \in Peer, chain[p].pc = "free",
         chan[p] # <<>>, Head(chan[p]).type # "binary", ChannelsRest(p, 1),
         UNCHANGED <<xfer, chain, picker, disk, owner, loop, low>>
  PROVE  ChunksHaveOnePlace'
<1>1. ~IsChunk(Head(chan[p]), xfer[p].tid)
  BY DEF IsChunk
<1>2. xfer[p].expected = 0
  <2>1. HeaderThenChunk(p)
    BY DEF ChunksHaveOnePlace
  <2>2. \A t, i : Binary(t, i).type = "binary"
    BY DEF Binary
  <2> QED
    BY <2>1, <2>2 DEF HeaderThenChunk
<1>3. HeaderThenChunk(p)'
  BY <1>2 DEF HeaderThenChunk
<1> QED
  BY <1>1, <1>3, TakeKeeps

LEMMA ChannelsTake ==
  ASSUME TypeOK, NEW p \in Peer, chan[p] # <<>>, chan' = Rest(p), UNCHANGED dc
  PROVE  ChannelsRest(p, 1) /\ chan'[p] = Tail(chan[p])
<1>1. NoTid \in TidOrNone
  BY DEF TidOrNone
<1>2. ChannelsRest(p, 1) /\ chan'[p] = Rest(p)[p]
  BY <1>1, ChannelsMove
<1> QED
  BY <1>2 DEF Rest, TypeOK

LEMMA UserCancelsPlaces ==
  ASSUME Inv, ChunksHaveOnePlace, NEW p \in Peer,
         PickerAbort(p) \/ Reject(p) \/ Cancel(p)
  PROVE  ChunksHaveOnePlace'
<1>1. PICK type \in {"reject-transfer", "cancel-transfer"} :
        chan' = TrySent(chan, p, Msg(type, xfer[p].tid))
  BY DEF PickerAbort, Reject, Cancel
<1>2. xfer[p].tid \in TidOrNone /\ TypeOK
  BY XferType DEF Inv
<1>3. ResetTransfer(p, loop) /\ UNCHANGED <<disk, owner, dc>>
  BY DEF PickerAbort, Reject, Cancel
<1>4. /\ picker'[p] \in {picker[p], NoTid}
      /\ picker'[Other(p)] = picker[Other(p)]
  BY <1>2, OtherOther DEF PickerAbort, Reject, Cancel, TypeOK
<1>5. ChannelsRest(p, 0)
  BY <1>1, <1>2, <1>3, ChannelsMove
<1>6. Stopped(p, loop)
  BY <1>2, SameStopped
<1> QED
  BY <1>3, <1>4, <1>5, <1>6, ResetTransferKeeps

LEMMA HandleStopPlaces ==
  ASSUME Inv, ChunksHaveOnePlace, NEW p \in Peer, NEW type, HandleStop(p, type)
  PROVE  ChunksHaveOnePlace'
<1>1. /\ chain[p].pc = "free" /\ chan[p] # <<>>
      /\ Head(chan[p]).type # "binary"
      /\ chan' = Rest(p)
      /\ UNCHANGED <<picker, owner, dc, disk>>
  BY DEF HandleStop, Dispatch
<1>2. ChannelsRest(p, 1)
  BY <1>1, ChannelsTake DEF Inv
<1>3. CASE ResetInChain(p)
  BY <1>1, <1>2, <1>3, ResetInChainKeeps
<1>4. CASE UNCHANGED <<xfer, cancelled, chain, loop, low>>
  BY <1>1, <1>2, <1>4, IgnoreKeeps
<1> QED
  BY <1>3, <1>4 DEF HandleStop

LEMMA GiveUpPlaces ==
  ASSUME Inv, ChunksHaveOnePlace, NEW p \in Peer, GiveUp(p),
         UNCHANGED <<aborting, picker, disk, owner, dc>>
  PROVE  ChunksHaveOnePlace'
<1>1. chain[p].aad[1] \in TidOrNone /\ TypeOK
  BY DEF Inv, TypeOK, Handler, Block
<1>2. chan' = TrySent(chan, p, Msg("cancel-transfer", chain[p].aad[1]))
  BY DEF GiveUp
<1>3. ChannelsRest(p, 0)
  BY <1>1, <1>2, ChannelsMove
<1> QED
  BY <1>3, ResetInChainKeeps DEF GiveUp

LEMMA WriteErrorPlaces ==
  ASSUME Inv, ChunksHaveOnePlace, NEW p \in Peer, WriteError(p)
  PROVE  ChunksHaveOnePlace'
BY GiveUpPlaces DEF WriteError

\* Only the loop of t changes, and only its pc; it does not start to wait.
LEMMA LoopRests ==
  ASSUME TypeOK, NEW t \in Tid, owner[t] \in Peer,
         NEW pc \in {"off", "read", "seal"}, loop[t].pc # "off",
         loop' = [loop EXCEPT ![t].pc = pc],
         xfer'[Other(owner[t])] = xfer[Other(owner[t])],
         low'[Other(owner[t])] = low[Other(owner[t])]
  PROVE  LoopsRest(owner[t])
<1>1. loop[t] \in Loop
  BY DEF TypeOK
<1> DEFINE x == [loop[t] EXCEPT !.pc = pc]
<1>2. x.pc = pc /\ x.obj = loop[t].obj /\ x.next = loop[t].next
  BY <1>1 DEF Loop
<1>3. loop' = [loop EXCEPT ![t] = x]
  OBVIOUS
<1> HIDE DEF x
<1> QED
  BY <1>2, <1>3 DEF LoopsRest, Started, TypeOK

LEMMA ReadDonePlaces ==
  ASSUME Inv, ChunksHaveOnePlace, NEW t \in Tid, ReadDone(t)
  PROVE  ChunksHaveOnePlace'
<1>1. PICK pc \in {"off", "seal"} : loop' = [loop EXCEPT ![t].pc = pc]
  BY DEF ReadDone
<1>2. /\ loop[t].pc = "read" /\ owner[t] \in Peer
      /\ UNCHANGED <<xfer, chan, chain, disk, owner, low, dc, picker>>
  BY DEF ReadDone, Inv, FilesHaveOnePlace, OwnLoops
<1>3. ChannelsRest(owner[t], 0)
  BY <1>2, ChannelsSame DEF Inv
<1>4. LoopsRest(owner[t])
  BY <1>1, <1>2, LoopRests DEF Inv
<1>5. LowRests(owner[t])
  <2> SUFFICES ASSUME NEW l, l = low[owner[t]], l # NoTid
               PROVE  loop'[l].pc = loop[l].pc
    BY <1>2 DEF LowRests
  <2>1. loop[l].pc = "wait" /\ l \in Tid
    BY <1>2 DEF ChunksHaveOnePlace, ObjectStates, LowWaits, Inv, TypeOK, TidOrNone
  <2> QED
    BY <1>1, <1>2, <2>1 DEF Inv, TypeOK
<1> QED
  BY <1>2, <1>3, <1>4, <1>5, RestKeeps

LEMMA BufferedAmountLowPlaces ==
  ASSUME Inv, ChunksHaveOnePlace, NEW p \in Peer, BufferedAmountLow(p)
  PROVE  ChunksHaveOnePlace'
<1> DEFINE t == low[p]
<1>1. PICK pc \in {"off", "read"} : loop' = [loop EXCEPT ![t].pc = pc]
  BY DEF BufferedAmountLow
<1>2. /\ t \in Tid /\ loop[t].pc = "wait" /\ owner[t] = p
      /\ low' = [low EXCEPT ![p] = NoTid]
      /\ UNCHANGED <<xfer, chan, chain, disk, owner, dc, picker>>
  BY DEF BufferedAmountLow, Inv, FilesHaveOnePlace, OwnLoops, TypeOK, TidOrNone,
         ChunksHaveOnePlace, ObjectStates, LowWaits
<1> HIDE DEF t
<1>3. ChannelsRest(p, 0)
  BY <1>2, ChannelsSame DEF Inv
<1>4. low'[p] = NoTid /\ low'[Other(p)] = low[Other(p)]
  BY <1>2, OtherOther DEF Inv, TypeOK
<1>5. LoopsRest(p)
  BY <1>1, <1>2, <1>4, LoopRests DEF Inv
<1>6. LowRests(p)
  BY <1>4 DEF LowRests
<1> QED
  BY <1>2, <1>3, <1>5, <1>6, RestKeeps

LEMMA StoppedLoop ==
  ASSUME TypeOK, NEW t \in Tid, loop[t].pc # "wait"
  PROVE  Stopped(owner[t], [loop EXCEPT ![t].pc = "off"])
<1>1. loop[t] \in Loop
  BY DEF TypeOK
<1> DEFINE x == [loop[t] EXCEPT !.pc = "off"]
<1>2. x.pc = "off" /\ x.obj = loop[t].obj /\ x.next = loop[t].next /\ x \in Loop
  BY <1>1 DEF Loop
<1> HIDE DEF x
<1>3. Stopped(owner[t], [loop EXCEPT ![t] = x])
  BY <1>2 DEF Stopped, TypeOK
<1> QED
  BY <1>3 DEF x

LEMMA ReadErrorPlaces ==
  ASSUME Inv, ChunksHaveOnePlace, NEW t \in Tid, ReadError(t)
  PROVE  ChunksHaveOnePlace'
<1> DEFINE lp == [loop EXCEPT ![t].pc = "off"]
<1>1. /\ loop[t].pc = "read" /\ owner[t] \in Peer
      /\ ResetTransfer(owner[t], lp)
      /\ UNCHANGED <<picker, chan, disk, owner, dc>>
  BY DEF ReadError, Inv, FilesHaveOnePlace, OwnLoops
<1>2. Stopped(owner[t], lp)
  BY <1>1, StoppedLoop DEF Inv
<1> HIDE DEF lp
<1>3. ChannelsRest(owner[t], 0)
  BY <1>1, ChannelsSame DEF Inv
<1> QED
  BY <1>1, <1>2, <1>3, ResetTransferKeeps

LEMMA SendFailsPlaces ==
  ASSUME Inv, ChunksHaveOnePlace, NEW t \in Tid, SendFails(t)
  PROVE  ChunksHaveOnePlace'
<1> DEFINE lp == [loop EXCEPT ![t].pc = "off"]
<1>1. /\ loop[t].pc = "seal" /\ owner[t] \in Peer
      /\ UNCHANGED <<picker, chan, disk, owner, dc>>
  BY DEF SendFails, Inv, FilesHaveOnePlace, OwnLoops
<1>2. Stopped(owner[t], lp)
  BY <1>1, StoppedLoop DEF Inv
<1>3. ChannelsRest(owner[t], 0)
  BY <1>1, ChannelsSame DEF Inv
<1>4. CASE FileLen[t] = 0
  <2>1. loop' = lp /\ UNCHANGED <<xfer, chain, low>>
    BY <1>4 DEF SendFails
  <2>2. LoopsRest(owner[t])
    BY <1>1, <2>1, LoopRests DEF Inv
  <2> HIDE DEF lp
  <2>3. LowRests(owner[t])
    BY <1>1, <1>2, <2>1
    DEF LowRests, Stopped, ChunksHaveOnePlace, ObjectStates, LowWaits, Inv,
        TypeOK, TidOrNone
  <2> QED
    BY <1>1, <1>3, <2>1, <2>2, <2>3, RestKeeps
<1>5. CASE FileLen[t] # 0
  <2>1. ResetTransfer(owner[t], lp)
    BY <1>5 DEF SendFails
  <2> HIDE DEF lp
  <2> QED
    BY <1>1, <1>2, <1>3, <2>1, ResetTransferKeeps
<1> QED
  BY <1>4, <1>5

LEMMA HandshakeDonePlaces ==
  ASSUME Inv, ChunksHaveOnePlace, NEW p \in Peer, HandshakeDone(p) \/ UNCHANGED vars
  PROVE  ChunksHaveOnePlace'
<1>1. UNCHANGED <<xfer, chain, disk, owner, loop, low, picker, chan, dc>>
  BY DEF HandshakeDone, vars
<1>2. ChannelsRest(p, 0)
  BY <1>1, ChannelsSame DEF Inv
<1>3. LoopsRest(p) /\ LowRests(p)
  BY <1>1, SameLoops
<1> QED
  BY <1>1, <1>2, <1>3, RestKeeps

LEMMA AcceptPlaces ==
  ASSUME Inv, ChunksHaveOnePlace, NEW p \in Peer, Accept(p)
  PROVE  ChunksHaveOnePlace'
<1>1. xfer[p].state = "prompting" /\ UNCHANGED <<chan, disk, owner, dc>>
  BY DEF Accept, Prompting
<1>2. ChannelsRest(p, 0)
  BY <1>1, ChannelsSame DEF Inv
<1>3. CASE IsOpen(p)
  <2>1. /\ picker' = [picker EXCEPT ![p] = xfer[p].tid]
        /\ UNCHANGED <<xfer, chain, loop, low>>
    BY <1>3 DEF Accept
  <2>2. picker'[Other(p)] = picker[Other(p)]
    BY <2>1, OtherOther DEF Inv, TypeOK
  <2>3. LoopsRest(p) /\ LowRests(p)
    BY <2>1, SameLoops
  <2> QED
    BY <1>1, <1>2, <2>1, <2>2, <2>3, RestKeeps
<1>4. CASE ~IsOpen(p)
  <2>1. ResetTransfer(p, loop) /\ UNCHANGED picker
    BY <1>4 DEF Accept
  <2>2. Stopped(p, loop)
    BY SameStopped DEF Inv
  <2> QED
    BY <1>1, <1>2, <2>1, <2>2, ResetTransferKeeps
<1> QED
  BY <1>3, <1>4

LEMMA DiscardedData ==
  ASSUME TypeOK, NEW p \in Peer, NEW h, Opened(p, h), disk' = Discarded(h)
  PROVE  /\ OwnData(p)
         /\ \A g, t \in Tid : Holds(g, t)' => Holds(g, t)
         /\ \A g \in Tid : g # h => disk'[g] = disk[g]
         /\ \/ disk[h].status = "saved" /\ disk'[h] = disk[h]
            \/ disk'[h].status = "discarded" /\ disk'[h].data = <<>>
<1>1. h \in Tid /\ disk[h] \in File
  BY DEF Opened, TypeOK
<1> DEFINE f == [disk[h] EXCEPT !.status = "discarded", !.data = <<>>]
<1>2. f.status = "discarded" /\ f.data = <<>>
  BY <1>1 DEF File
<1>3. \/ disk[h].status = "saved" /\ disk' = disk
      \/ disk' = [disk EXCEPT ![h] = f]
  BY DEF Discarded
<1> HIDE DEF f
<1>4. /\ \A g \in Tid : g # h => disk'[g] = disk[g]
      /\ \/ disk[h].status = "saved" /\ disk'[h] = disk[h]
         \/ disk'[h].status = "discarded" /\ disk'[h].data = <<>>
  BY <1>1, <1>2, <1>3 DEF TypeOK
<1>5. \A g, t \in Tid : Holds(g, t)' => Holds(g, t)
  BY <1>4 DEF Holds
<1>6. OwnData(p)
  BY <1>4, <1>5 DEF OwnData
<1> QED
  BY <1>4, <1>5, <1>6

LEMMA FinishChainResetPlaces ==
  ASSUME Inv, ChunksHaveOnePlace, NEW p \in Peer, FinishChainReset(p)
  PROVE  ChunksHaveOnePlace'
<1> DEFINE h == chain[p].handle
<1>1. TypeOK /\ PeerPlace(p)
  BY DEF Inv, ChunksHaveOnePlace, PeerPlace
<1>2. /\ chain[p].pc = "reset" /\ disk' = Discarded(h)
      /\ Replaced(p, loop, OldObject(p))
      /\ chain' = [chain EXCEPT ![p] = FreeChain]
      /\ UNCHANGED <<picker, chan, owner, dc>>
  BY DEF FinishChainReset
<1>3. Opened(p, h)
  BY <1>1, <1>2 DEF PeerPlace, ObjectStates, HandlerState, Inv,
                    FilesHaveOnePlace, OwnFiles
<1> HIDE DEF h
<1>4. OwnData(p) /\ \A g, t \in Tid : Holds(g, t)' => Holds(g, t)
  BY <1>1, <1>2, <1>3, DiscardedData
<1>5. /\ LoopsRest(p)
      /\ xfer'[p] = InitialTransferState /\ low'[p] = NoTid
      /\ \A t \in Tid : owner[t] = p => loop'[t].obj # "live"
  BY <1>1, <1>2, ReplacedRests, SameStopped DEF OldObject
<1>6. chain'[Other(p)] = chain[Other(p)] /\ chain'[p].pc = "free"
  BY <1>1, <1>2, OtherOther DEF FreeChain, TypeOK
<1>7. ChannelsRest(p, 0)
  BY <1>1, <1>2, ChannelsSame
<1>8. Resting(p) /\ LiveStays(p)
  BY <1>2, <1>5, <1>6, <1>7, RestingIs DEF LiveStays
<1>9. PeerPlace(p)'
  <2>1. OwnersStay /\ LoopsGo(p) /\ Unanswered(p) /\ Moved(p, 0)
    BY <1>1, <1>7, <1>8, RestingLoops DEF ChannelsRest
  <2> QED
    BY <1>1, <1>2, <1>4, <1>5, <1>6, <2>1, PeerReset
<1> QED
  BY <1>4, <1>8, <1>9, RestingStep

LEMMA FinishAbortPlaces ==
  ASSUME Inv, ChunksHaveOnePlace, NEW p \in Peer, NEW h \in Tid,
         FinishAbort(p, h)
  PROVE  ChunksHaveOnePlace'
<1>1. TypeOK /\ PeerPlace(p)
  BY DEF Inv, ChunksHaveOnePlace, PeerPlace
<1>2. /\ h \in aborting[p] /\ disk' = Discarded(h)
      /\ ~(chain[p].pc \in {"write", "close"} /\ chain[p].handle = h)
      /\ Replaced(p, loop, OldObject(p))
      /\ chain' = Staled(p)
      /\ UNCHANGED <<picker, chan, owner, dc>>
  BY DEF FinishAbort
<1>3. Opened(p, h)
  BY <1>2 DEF Inv, FilesHaveOnePlace, OwnFiles
<1>4. /\ OwnData(p) /\ \A g, t \in Tid : Holds(g, t)' => Holds(g, t)
      /\ \A g \in Tid : g # h => disk'[g] = disk[g]
      /\ \/ disk'[h] = disk[h]
         \/ disk'[h].status = "discarded"
  BY <1>1, <1>2, <1>3, DiscardedData
<1>5. /\ LoopsRest(p)
      /\ xfer'[p] = InitialTransferState /\ low'[p] = NoTid
      /\ \A t \in Tid : owner[t] = p => loop'[t].obj # "live"
  BY <1>1, <1>2, ReplacedRests, SameStopped DEF OldObject
<1>6. /\ chain'[Other(p)] = chain[Other(p)]
      /\ chain'[p].pc = chain[p].pc /\ chain'[p].handle = chain[p].handle
      /\ chain'[p].block = chain[p].block /\ chain'[p].aad = chain[p].aad
      /\ chain'[p].obj # "live"
  BY <1>1, <1>2, StaledRests
<1>7. ChannelsRest(p, 0)
  BY <1>1, <1>2, ChannelsSame
<1>8. Resting(p) /\ LiveStays(p)
  BY <1>2, <1>5, <1>6, <1>7, RestingIs DEF LiveStays
<1>9. ASSUME chain[p].pc # "free"
      PROVE  \/ disk'[chain[p].handle] = disk[chain[p].handle]
             \/ /\ chain[p].pc \in {"decrypt", "reset"}
                /\ disk'[chain[p].handle].status # "open"
  <2>1. chain[p].handle \in Tid
    BY <1>1, <1>9 DEF PeerPlace, ObjectStates, HandlerState, TypeOK, Handler,
                      TidOrNone
  <2>2. chain[p].pc \in {"decrypt", "write", "close", "reset"}
    BY <1>1, <1>9 DEF TypeOK, Handler
  <2> QED
    BY <1>2, <1>4, <2>1, <2>2
<1>10. PeerPlace(p)'
  <2>1. OwnersStay /\ LoopsGo(p) /\ Unanswered(p) /\ Moved(p, 0)
    BY <1>1, <1>7, <1>8, RestingLoops DEF ChannelsRest
  <2>2. picker'[p] = picker[p]
    BY <1>2
  <2> QED
    BY <1>1, <1>4, <1>5, <1>6, <1>9, <2>1, <2>2, PeerReset
<1> QED
  BY <1>4, <1>8, <1>10, RestingStep

LEMMA CloseChannelPlaces ==
  ASSUME Inv, ChunksHaveOnePlace, NEW p \in Peer, CloseChannel(p)
  PROVE  ChunksHaveOnePlace'
<1>1. PICK n \in 0..Len(chan[p]) : chan' = [chan EXCEPT ![p] = SubSeq(@, 1, n)]
  BY DEF CloseChannel
<1>2. /\ IsOpen(p) /\ dc' = [dc EXCEPT ![p] = "closed"]
      /\ UNCHANGED <<picker, disk, owner>>
  BY DEF CloseChannel
<1> DEFINE q == Other(p)
<1>3. /\ chan[p] \in Seq(Message) /\ chan[q] \in Seq(Message)
      /\ chan'[q] = chan[q] /\ dc'[q] = dc[q] /\ dc'[p] = "closed"
      /\ chan'[p] = SubSeq(chan[p], 1, n)
      /\ q \in Peer /\ \A r \in Peer : r = p \/ r = q
  BY <1>1, <1>2, OtherOther DEF Inv, TypeOK
<1> HIDE DEF q
<1>4. Moved(q, 0)
  BY <1>3, ShiftedSame DEF Moved, IsOpen
<1>5. Moved(p, 0) /\ Readies(chan'[p]) \subseteq Readies(chan[p])
  BY <1>2, <1>3, ShiftedPrefix DEF Moved, IsOpen
<1>6. Metas(chan'[p]) \subseteq Metas(chan[p])
  BY <1>3, MetasPrefix
<1>7. ChannelsRest(p, 0)
  BY <1>3, <1>4, <1>5, <1>6 DEF ChannelsRest, q
<1>8. CASE xfer[p].state # "idle"
  <2>1. ResetTransfer(p, loop)
    BY <1>8 DEF CloseChannel
  <2>2. Stopped(p, loop)
    BY SameStopped DEF Inv
  <2> QED
    BY <1>2, <1>7, <2>1, <2>2, ResetTransferKeeps
<1>9. CASE xfer[p].state = "idle"
  <2>1. UNCHANGED <<xfer, chain, loop, low>>
    BY <1>9 DEF CloseChannel
  <2>2. LoopsRest(p) /\ LowRests(p)
    BY <2>1, SameLoops
  <2> QED
    BY <1>2, <1>7, <2>1, <2>2, RestKeeps
<1> QED
  BY <1>8, <1>9

LEMMA HandleChunkHeaderPlaces ==
  ASSUME Inv, ChunksHaveOnePlace, NEW p \in Peer, HandleChunkHeader(p)
  PROVE  ChunksHaveOnePlace'
<1> DEFINE m == Head(chan[p])
<1>1. /\ chain[p].pc = "free" /\ chan[p] # <<>> /\ m.type = "file-chunk"
      /\ chan' = Rest(p)
      /\ UNCHANGED <<picker, owner, dc, disk, chain, loop, low>>
  BY DEF HandleChunkHeader, Dispatch
<1>2. ChannelsRest(p, 1) /\ chan'[p] = Tail(chan[p])
  BY <1>1, ChannelsTake DEF Inv
<1>3. CASE IsTransferIdValid(p, m.tid)
  <2> DEFINE x == [xfer[p] EXCEPT !.expected = m.idx]
  <2>1. /\ x.state = xfer[p].state /\ x.tid = xfer[p].tid
        /\ x.stream = xfer[p].stream /\ x.expected = m.idx
    BY XferType DEF Inv, Transfer
  <2>2. xfer' = [xfer EXCEPT ![p] = x] /\ m.tid = xfer[p].tid
    BY <1>3 DEF HandleChunkHeader, IsTransferIdValid
  <2> HIDE DEF x
  <2>3. xfer'[p] = x /\ xfer'[Other(p)] = xfer[Other(p)]
    BY <2>2, OtherOther DEF Inv, TypeOK
  <2>4. HeaderThenChunk(p)'
    <3>1. Headed(chan[p], IsOpen(p)) /\ chan[p] \in Seq(Message)
      BY DEF ChunksHaveOnePlace, LoopMessages, Inv, TypeOK
    <3>2. 1 \in 1..Len(chan[p]) /\ Head(chan[p]) = chan[p][1]
      BY <1>1, <3>1
    <3>3. IF 1 = Len(chan[p]) THEN ~IsOpen(p)
          ELSE chan[p][1 + 1] = Binary(m.tid, m.idx)
      BY <1>1, <3>1, <3>2 DEF Headed
    <3> DEFINE u == Tail(chan[p])
    <3>6. /\ u \in Seq(Message) /\ Len(u) = Len(chan[p]) - 1
          /\ Len(chan[p]) \in Nat /\ \A i \in 1..Len(u) : u[i] = chan[p][i + 1]
      BY <1>1, <3>1
    <3> HIDE DEF u
    <3>7. chan'[p] = u
      BY <1>2 DEF u
    <3>4. CASE 1 = Len(chan[p])
      <4>1. u = <<>>
        BY <3>4, <3>6
      <4>2. chain'[p].pc = "free" /\ chan'[p] = <<>> /\ ~(dc'[p] = "open")
        BY <1>1, <3>3, <3>4, <3>7, <4>1 DEF IsOpen
      <4> QED
        BY <4>2 DEF HeaderThenChunk, IsOpen
    <3>5. CASE 1 # Len(chan[p])
      <4>1. u # <<>> /\ Head(u) = chan[p][1 + 1]
        <5>1. Len(u) \in Nat /\ Len(u) # 0
          BY <3>2, <3>5, <3>6
        <5>3. 1 \in 1..Len(u) /\ u # <<>>
          BY <5>1
        <5>2. Head(u) = u[1]
          BY <3>6, <5>3
        <5> QED
          BY <3>6, <5>2, <5>3
      <4>2. /\ chain'[p].pc = "free" /\ chan'[p] # <<>>
            /\ Head(chan'[p]) = Binary(xfer'[p].tid, xfer'[p].expected)
        BY <1>1, <2>1, <2>2, <2>3, <3>3, <3>5, <3>7, <4>1
      <4> QED
        BY <4>2 DEF HeaderThenChunk
    <3> QED
      BY <3>4, <3>5
  <2>5. ~IsChunk(m, xfer[p].tid)
    BY <1>1 DEF IsChunk
  <2> QED
    BY <1>1, <1>2, <2>1, <2>3, <2>4, <2>5, TakeKeeps
<1>4. CASE ~IsTransferIdValid(p, m.tid)
  <2>1. xfer' = xfer /\ m.type # "binary"
    BY <1>1, <1>4 DEF HandleChunkHeader
  <2> QED
    BY <1>1, <1>2, <2>1, IgnoreKeeps
<1> QED
  BY <1>3, <1>4

-----------------------------------------------------------------------------
(* A new prompt *)

\* A live loop runs only for a transfer that is being sent.
LEMMA LiveTransfers ==
  ASSUME Inv, ChunksHaveOnePlace, NEW p \in Peer, NEW t \in Tid, owner[t] = p,
         loop[t].pc # "off", loop[t].obj = "live"
  PROVE  /\ xfer[p].tid = t /\ xfer[p].state = "transferring"
         /\ xfer[p].stream = NoTid
<1>1. xfer[p].tid = t /\ xfer[p].state = "transferring"
  BY DEF ChunksHaveOnePlace, LoopCounts
<1>2. TransferState(p)
  BY DEF ChunksHaveOnePlace, ObjectStates
<1> QED
  BY <1>1, <1>2, OtherOther, TidAssumption DEF TransferState, Incoming

LEMMA HandleFileMetaPlaces ==
  ASSUME Inv, ChunksHaveOnePlace, NEW p \in Peer, HandleFileMeta(p)
  PROVE  ChunksHaveOnePlace'
<1>1. /\ chain[p].pc = "free" /\ chan[p] # <<>>
      /\ Head(chan[p]).type = "file-meta"
      /\ UNCHANGED <<picker, owner, dc, disk, chain, loop, low>>
  BY DEF HandleFileMeta, Dispatch
<1> SUFFICES ASSUME NEW t, t = Head(chan[p]).tid PROVE ChunksHaveOnePlace'
  OBVIOUS
<1>2. TypeOK /\ PeerPlace(p) /\ t \in TidOrNone
  BY <1>1, HeadType DEF Inv, ChunksHaveOnePlace, PeerPlace
<1>3. CASE xfer[p].state # "idle"
  <2>1. chan' = TrySent(Rest(p), p, Msg("reject-transfer", t)) /\ xfer' = xfer
    BY <1>3 DEF HandleFileMeta
  <2>2. ChannelsRest(p, 1)
    BY <1>1, <1>2, <2>1, ChannelsMove
  <2> QED
    BY <1>1, <2>1, <2>2, IgnoreKeeps
<1>4. CASE xfer[p].state = "idle"
  <2> DEFINE x == [xfer[p] EXCEPT !.state = "prompting",
                                  !.direction = "receive",
                                  !.tid = t, !.expected = 0]
  <2>1. xfer' = [xfer EXCEPT ![p] = x] /\ chan' = Rest(p)
    BY <1>4 DEF HandleFileMeta, Inv, TypeOK
  <2>2. /\ x.state = "prompting" /\ x.tid = t /\ x.stream = xfer[p].stream
        /\ x.expected = 0
    BY XferType DEF Inv, Transfer
  <2> HIDE DEF x
  <2>3. xfer'[p] = x /\ xfer'[Other(p)] = xfer[Other(p)]
    BY <1>2, <2>1, OtherOther DEF TypeOK
  <2>4. ChannelsRest(p, 1) /\ chan'[p] = Tail(chan[p])
    BY <1>1, <1>2, <2>1, ChannelsTake
  <2>5. OwnData(p) /\ LoopsRest(p) /\ LowRests(p)
    BY <1>1, <2>3, SameData, SameLoops
  <2>6. Resting(p)
    BY <1>1, <2>4, <2>5, RestingIs
  <2>7. LiveStays(p)
    BY <1>1, <1>4, LiveTransfers DEF LiveStays
  <2>8. OwnersStay /\ LoopsGo(p) /\ Unanswered(p) /\ Moved(p, 1)
    BY <1>2, <2>4, <2>6, RestingLoops DEF ChannelsRest
  <2>9. chan[p] \in Seq(Message) /\ NoMetaTwice(chan[p])
    BY <1>2 DEF TypeOK, Inv, FilesHaveOnePlace, OpenedOnce
  <2>10. t \in Metas(chan[p]) /\ t \notin Metas(chan'[p])
    BY <1>1, <2>4, <2>9, MetasTail
  <2>11. /\ Unopened(p, t) /\ Waiting(p, t) /\ t \in Tid /\ t # NoTid
         /\ owner[t] = Other(p) /\ owner[t] # NoPeer
    BY <1>2, <2>10, TidAssumption, NoPeerAssumption, OtherOther
    DEF Inv, FilesHaveOnePlace, OpenedOnce, PeerPlace, StartedOnce, Unopened
  <2>12. xfer[p].stream = NoTid
    BY <1>2, <1>4 DEF PeerPlace, ObjectStates, TransferState
  <2>13. LoopMessages(p)'
    BY <1>2, <2>8, LoopMessagesMoved DEF PeerPlace
  <2>14. StartedOnce(p)'
    <3>1. ASSUME NEW u \in Tid, Waiting(p, u) PROVE Waiting(p, u)'
      BY <2>8, <3>1 DEF Waiting, Unanswered
    <3>2. ASSUME NEW u \in Metas(chan'[p]) PROVE Waiting(p, u)' /\ u # t
      <4>1. u \in Metas(chan[p]) /\ u # t
        BY <2>8, <2>10, <3>2 DEF Unanswered
      <4>2. u \in Tid /\ Waiting(p, u)
        BY <1>2, <4>1
        DEF Inv, FilesHaveOnePlace, OpenedOnce, PeerPlace, StartedOnce, Unopened
      <4> QED
        BY <3>1, <4>1, <4>2
    <3>3. \A u \in Readies(chan'[p]) : u # NoTid => u \in Tid /\ owner'[u] = p
      BY <1>1, <1>2, <2>8 DEF PeerPlace, StartedOnce, Unanswered
    <3>4. Waiting(p, t)'
      BY <2>11, <3>1
    <3> QED
      BY <1>1, <2>2, <2>3, <2>11, <3>2, <3>3, <3>4
      DEF StartedOnce, Waiting, Started
  <2>15. DialogState(p)' /\ LowWaits(p)' /\ TransferState(p)' /\ HandlerState(p)'
    BY <1>1, <1>2, <2>2, <2>3, <2>12
    DEF PeerPlace, ObjectStates, DialogState, LowWaits, TransferState,
        HandlerState
  <2>16. /\ HeaderThenChunk(p)' /\ PlaceOfTransfer(p)' /\ PlaceOfChunk(p)'
         /\ ClosesWhole(p)'
    BY <1>1, <2>2, <2>3, <2>12
    DEF HeaderThenChunk, PlaceOfTransfer, PlaceOfChunk, ClosesWhole
  <2>17. PeerPlace(p)'
    BY <2>13, <2>14, <2>15, <2>16 DEF PeerPlace, ObjectStates
  <2> QED
    BY <2>5, <2>6, <2>7, <2>17, RestingStep
<1> QED
  BY <1>3, <1>4

-----------------------------------------------------------------------------
(* A chunk is received, decrypted and written *)

\* A header that p remembers is that of a transfer the other browser sends,
\* and p receives.
LEMMA ExpectedComes ==
  ASSUME Inv, ChunksHaveOnePlace, NEW p \in Peer, chain[p].pc = "free",
         chan[p] # <<>>, xfer[p].expected # 0,
         NEW m, m = Head(chan[p])
  PROVE  /\ m = Binary(xfer[p].tid, xfer[p].expected)
         /\ m.type = "binary" /\ m.tid = xfer[p].tid /\ m.idx = xfer[p].expected
         /\ Incoming(p, xfer[p].tid) /\ Started(xfer[p].tid)
         /\ xfer[p].state = "transferring" /\ xfer[p].stream # NoTid
<1>1. /\ HeaderThenChunk(p) /\ LoopMessages(p) /\ StartedOnce(p)
      /\ TransferState(p)
  BY DEF ChunksHaveOnePlace, ObjectStates
<1>2. m = Binary(xfer[p].tid, xfer[p].expected)
  BY <1>1 DEF HeaderThenChunk
<1>3. m.type = "binary" /\ m.tid = xfer[p].tid /\ m.idx = xfer[p].expected
  BY <1>2 DEF Binary
<1>4. chan[p] \in Seq(Message)
  BY DEF Inv, TypeOK
<1>5. 1 \in 1..Len(chan[p]) /\ chan[p][1] = m
  BY <1>4
<1>6. Incoming(p, xfer[p].tid) /\ Started(xfer[p].tid)
  BY <1>1, <1>3, <1>5 DEF LoopMessages, OfLoop
<1>7. xfer[p].state \in {"idle", "offering", "prompting", "transferring"}
  BY XferType DEF Inv, Transfer
<1>8. xfer[p].state # "idle"
  BY <1>1, <1>3, <1>5, <1>6 DEF TransferState, Drained, NothingOf, OfLoop
<1>9. xfer[p].state # "offering"
  BY <1>6, OtherOther DEF Inv, FilesHaveOnePlace, OwnLoops, Incoming
<1>10. xfer[p].state # "prompting"
  BY <1>1, <1>6 DEF StartedOnce, Waiting
<1>11. xfer[p].stream # NoTid
  BY <1>1, <1>6, <1>7, <1>8, <1>9, <1>10, OtherOther DEF TransferState, Incoming
<1> QED
  BY <1>2, <1>3, <1>6, <1>7, <1>8, <1>9, <1>10, <1>11

LEMMA HandleBinaryChunkPlaces ==
  ASSUME Inv, ChunksHaveOnePlace, NEW p \in Peer, HandleBinaryChunk(p)
  PROVE  ChunksHaveOnePlace'
<1> SUFFICES ASSUME NEW m, m = Head(chan[p]), NEW t, t = xfer[p].tid,
                    NEW h, h = xfer[p].stream
             PROVE  ChunksHaveOnePlace'
  OBVIOUS
<1>1. /\ chain[p].pc = "free" /\ chan[p] # <<>> /\ m.type = "binary"
      /\ UNCHANGED <<picker, owner, dc, disk>>
  BY DEF HandleBinaryChunk, Dispatch
<1>2. TypeOK /\ PeerPlace(p) /\ t \in TidOrNone
  BY XferType DEF Inv, ChunksHaveOnePlace, PeerPlace
<1>3. CASE xfer[p].state # "transferring" \/ h = NoTid
  <2>1. chan' = Rest(p) /\ UNCHANGED <<xfer, cancelled, chain, loop, low>>
    BY <1>3 DEF HandleBinaryChunk
  <2>2. xfer[p].expected = 0
    BY <1>1, <1>3, ExpectedComes
  <2>3. h = NoTid
    BY <1>2, <1>3 DEF PeerPlace, ObjectStates, TransferState
  <2>4. HeaderThenChunk(p)'
    BY <2>1, <2>2 DEF HeaderThenChunk
  <2>5. ChannelsRest(p, 1)
    BY <1>1, <1>2, <2>1, ChannelsTake
  <2> QED
    BY <1>1, <2>1, <2>3, <2>4, <2>5, TakeKeeps
<1>4. CASE /\ xfer[p].state = "transferring" /\ h # NoTid
           /\ p \notin secure \/ xfer[p].expected = 0
  <2>1. ResetInChain(p)
    BY <1>4 DEF HandleBinaryChunk
  <2>2. ChannelsRest(p, 1)
    <3>1. chan' = Rest(p) \/ chan' = TrySent(Rest(p), p, Msg("cancel-transfer", t))
      BY <1>4 DEF HandleBinaryChunk
    <3> QED
      BY <1>1, <1>2, <3>1, ChannelsMove
  <2> QED
    BY <1>1, <2>1, <2>2, ResetInChainKeeps
<1>5. CASE /\ xfer[p].state = "transferring" /\ h # NoTid
           /\ p \in secure /\ xfer[p].expected # 0
  <2> DEFINE c == [pc |-> "decrypt", block |-> <<m.tid, m.idx>>,
                   aad |-> <<t, xfer[p].expected>>,
                   obj |-> "live", handle |-> h]
  <2>1. /\ chan' = Rest(p) /\ chain' = [chain EXCEPT ![p] = c]
        /\ UNCHANGED <<xfer, cancelled, loop, low>>
    BY <1>5 DEF HandleBinaryChunk
  <2>2. /\ m.tid = t /\ m.idx = xfer[p].expected
        /\ Incoming(p, t) /\ Started(t)
    BY <1>1, <1>5, ExpectedComes
  <2>3. /\ c.pc = "decrypt" /\ c.block = <<t, m.idx>> /\ c.aad = <<t, m.idx>>
        /\ c.block[1] = t /\ c.block[2] = m.idx
        /\ c.obj = "live" /\ c.handle = h
    BY <2>2
  <2> HIDE DEF c
  <2>4. chain'[p] = c /\ chain'[Other(p)] = chain[Other(p)]
    BY <1>2, <2>1, OtherOther DEF TypeOK
  <2>5. ChannelsRest(p, 1)
    BY <1>1, <1>2, <2>1, ChannelsTake
  <2>6. OwnData(p) /\ LoopsRest(p)
    BY <1>1, <2>1, SameData, SameLoops
  <2>7. Resting(p) /\ LiveStays(p)
    BY <1>1, <2>1, <2>4, <2>5, <2>6, RestingIs DEF LiveStays
  <2>8. OwnersStay /\ LoopsGo(p) /\ Unanswered(p) /\ Moved(p, 1)
    BY <1>2, <2>5, <2>7, RestingLoops DEF ChannelsRest
  <2>9. LoopMessages(p)' /\ StartedOnce(p)' /\ TransferState(p)'
    BY <1>2, <2>1, <2>8, LoopMessagesMoved, StartedOnceKept,
       TransferStateKept, MovedDrains
    DEF PeerPlace, ObjectStates, Inv, FilesHaveOnePlace
  <2>10. /\ DialogState(p)' /\ LowWaits(p)' /\ HandlerState(p)'
         /\ HeaderThenChunk(p)' /\ ClosesWhole(p)'
    BY <1>1, <1>2, <1>5, <2>1, <2>3, <2>4
    DEF PeerPlace, ObjectStates, DialogState, LowWaits, HandlerState,
        HeaderThenChunk, ClosesWhole
  <2>11. \A g \in Tid : Holds(g, t) => g = h
    BY <1>2, <1>5, <2>2 DEF PeerPlace, PlaceOfTransfer
  <2>12. PlaceOfTransfer(p)'
    BY <1>1, <2>1, <2>3, <2>4, <2>11 DEF PlaceOfTransfer, Holds
  <2>13. ASSUME disk[h].status = "open"
         PROVE  /\ m.idx \in 1..Chunks(t)
                /\ disk[h].data = Delivery!FirstChunks(t, m.idx - 1)
                /\ InOrder(p, t, m.idx)'
    <3> SUFFICES ASSUME NEW n, n = Len(disk[h].data)
                 PROVE  /\ m.idx \in 1..Chunks(t)
                        /\ disk[h].data = Delivery!FirstChunks(t, m.idx - 1)
                        /\ InOrder(p, t, m.idx)'
      OBVIOUS
    <3>1. disk[h].data = Delivery!FirstChunks(t, n) /\ InOrder(p, t, n)
      BY <1>1, <1>2, <1>5, <2>2, <2>13 DEF PeerPlace, PlaceOfTransfer
    <3>2. IsChunk(m, t)
      BY <1>1, <2>2 DEF IsChunk
    <3>3. m.idx = n + 1 /\ m.idx \in 1..Chunks(t) /\ InOrder(p, t, n + 1)'
      BY <1>1, <1>2, <2>2, <2>8, <3>1, <3>2, InOrderTaken
    <3>4. n \in Nat
      BY <3>1, <2>2, ChunksType DEF InOrder, Incoming
    <3>5. m.idx - 1 = n
      BY <3>3, <3>4
    <3> QED
      BY <3>1, <3>3, <3>5
  <2>14. PlaceOfChunk(p)'
    <3>1. /\ chain'[p].pc = "decrypt" /\ chain'[p].block = chain'[p].aad
          /\ chain'[p].block[1] = t /\ chain'[p].block[2] = m.idx
          /\ chain'[p].handle = h /\ disk' = disk /\ xfer'[p].tid = t
          /\ Incoming(p, t)' /\ Started(t)'
          /\ \A g \in Tid : Holds(g, t)' => g = h
      BY <1>1, <2>1, <2>2, <2>3, <2>4, <2>8, <2>11, IncomingStays
      DEF LoopsGo, Holds
    <3> SUFFICES ASSUME NEW tt, tt = chain'[p].block[1],
                        NEW i, i = chain'[p].block[2],
                        NEW hh, hh = chain'[p].handle
                 PROVE  /\ chain'[p].block = chain'[p].aad
                        /\ Incoming(p, tt)' /\ Started(tt)'
                        /\ \A g \in Tid : Holds(g, tt)' => g = hh
                        /\ xfer'[p].tid = tt
                        /\ disk'[hh].status = "open" =>
                             /\ i \in 1..Chunks(tt)
                             /\ disk'[hh].data = Delivery!FirstChunks(tt, i - 1)
                             /\ InOrder(p, tt, i)'
      BY <3>1 DEF PlaceOfChunk, Incoming, Holds, Started
    <3>2. tt = t /\ i = m.idx /\ hh = h
      BY <3>1
    <3> QED
      BY <2>13, <3>1, <3>2
  <2>15. PeerPlace(p)'
    BY <2>9, <2>10, <2>12, <2>14 DEF PeerPlace, ObjectStates
  <2> QED
    BY <2>6, <2>7, <2>15, RestingStep
<1> QED
  BY <1>3, <1>4, <1>5

LEMMA DecryptDonePlaces ==
  ASSUME Inv, ChunksHaveOnePlace, NEW p \in Peer, DecryptDone(p)
  PROVE  ChunksHaveOnePlace'
<1>1. /\ chain[p].pc = "decrypt"
      /\ UNCHANGED <<picker, aborting, disk, owner, dc>>
  BY DEF DecryptDone
<1>2. TypeOK /\ PeerPlace(p)
  BY DEF Inv, ChunksHaveOnePlace, PeerPlace
<1>3. CASE GiveUp(p)
  BY <1>1, <1>3, GiveUpPlaces
<1>4. CASE ~GiveUp(p)
  <2> DEFINE c == [chain[p] EXCEPT !.pc = "write"]
             x == [xfer[p] EXCEPT !.expected = 0]
  <2>1. /\ Usable(p, chain[p].handle) /\ chain' = [chain EXCEPT ![p] = c]
        /\ xfer' = IF chain[p].obj = "live" THEN [xfer EXCEPT ![p] = x] ELSE xfer
        /\ UNCHANGED <<chan, loop, low>>
    BY <1>4 DEF DecryptDone
  <2>2. /\ c.pc = "write" /\ c.block = chain[p].block /\ c.aad = chain[p].aad
        /\ c.obj = chain[p].obj /\ c.handle = chain[p].handle
    BY <1>2 DEF TypeOK, Handler
  <2>3. /\ x.state = xfer[p].state /\ x.tid = xfer[p].tid
        /\ x.stream = xfer[p].stream /\ x.expected = 0
    BY <1>2, XferType DEF Transfer
  <2> HIDE DEF c, x
  <2>4. /\ xfer'[p].state = xfer[p].state /\ xfer'[p].tid = xfer[p].tid
        /\ xfer'[p].stream = xfer[p].stream
        /\ xfer'[Other(p)] = xfer[Other(p)]
        /\ xfer'[p].expected = 0
    <3>1. chain[p].obj # "live" => xfer[p].expected = 0
      BY <1>1, <1>2 DEF PeerPlace, HeaderThenChunk
    <3> QED
      BY <1>2, <2>1, <2>3, <3>1, OtherOther DEF TypeOK
  <2>5. chain'[p] = c /\ chain'[Other(p)] = chain[Other(p)]
    BY <1>2, <2>1, OtherOther DEF TypeOK
  <2>6. ChannelsRest(p, 0)
    BY <1>1, <1>2, <2>1, ChannelsSame
  <2>7. OwnData(p) /\ LoopsRest(p)
    BY <1>1, <2>1, <2>4, SameData, SameLoops
  <2>8. Resting(p) /\ LiveStays(p)
    BY <1>1, <2>4, <2>5, <2>6, <2>7, RestingIs DEF LiveStays
  <2>9. OwnersStay /\ LoopsGo(p) /\ Unanswered(p) /\ Moved(p, 0)
    BY <1>2, <2>6, <2>8, RestingLoops DEF ChannelsRest
  <2>10. LoopMessages(p)' /\ StartedOnce(p)' /\ TransferState(p)'
    BY <1>2, <2>4, <2>9, LoopMessagesMoved, StartedOnceKept,
       TransferStateKept, MovedDrains
    DEF PeerPlace, ObjectStates, Inv, FilesHaveOnePlace
  <2>11. Vacant(p) => Vacant(p)'
    BY <1>1, <2>4 DEF Vacant, Incoming
  <2>12. /\ DialogState(p)' /\ LowWaits(p)' /\ HandlerState(p)'
         /\ HeaderThenChunk(p)' /\ ClosesWhole(p)'
    BY <1>1, <1>2, <2>1, <2>2, <2>4, <2>5, <2>11
    DEF PeerPlace, ObjectStates, DialogState, LowWaits, HandlerState,
        HeaderThenChunk, ClosesWhole
  <2>13. PlaceOfTransfer(p)'
    BY <1>1, <1>2, <2>2, <2>4, <2>5
    DEF PeerPlace, PlaceOfTransfer, Holds, Incoming
  <2>14. PlaceOfChunk(p)'
    <3> SUFFICES ASSUME NEW t, t = chain[p].block[1],
                        NEW i, i = chain[p].block[2],
                        NEW h, h = chain[p].handle
                 PROVE  /\ chain[p].block = chain[p].aad
                        /\ Incoming(p, t)' /\ Started(t)'
                        /\ \A g \in Tid : Holds(g, t)' => g = h
                        /\ chain[p].obj = "live" => xfer'[p].tid = t
                        /\ disk'[h].status = "open"
                        /\ i \in 1..Chunks(t)
                        /\ disk'[h].data = Delivery!FirstChunks(t, i - 1)
                        /\ chain[p].obj = "live" => InOrder(p, t, i)'
      BY <2>2, <2>5 DEF PlaceOfChunk, Incoming, Holds, Started
    <3>1. disk[h].status = "open"
      BY <2>1 DEF Usable
    <3>2. /\ chain[p].block = chain[p].aad
          /\ Incoming(p, t) /\ Started(t)
          /\ \A g \in Tid : Holds(g, t) => g = h
          /\ chain[p].obj = "live" => xfer[p].tid = t
          /\ i \in 1..Chunks(t)
          /\ disk[h].data = Delivery!FirstChunks(t, i - 1)
          /\ chain[p].obj = "live" => InOrder(p, t, i)
      BY <1>1, <1>2, <3>1 DEF PeerPlace, PlaceOfChunk
    <3>3. InOrder(p, t, i) => InOrder(p, t, i)'
      BY <1>2, <2>9, <3>2, InOrderMoved
    <3>4. Incoming(p, t)' /\ Started(t)'
      BY <2>9, <3>2, IncomingStays DEF LoopsGo
    <3> QED
      BY <1>1, <2>4, <3>1, <3>2, <3>3, <3>4 DEF Holds
  <2>15. PeerPlace(p)'
    BY <2>10, <2>12, <2>13, <2>14 DEF PeerPlace, ObjectStates
  <2> QED
    BY <2>7, <2>8, <2>15, RestingStep
<1> QED
  BY <1>3, <1>4

LEMMA FirstChunksNext ==
  ASSUME NEW t, NEW n \in Nat
  PROVE  /\ Len(Delivery!FirstChunks(t, n)) = n
         /\ n # 0 => /\ Delivery!FirstChunks(t, n) # <<>>
                     /\ Delivery!FirstChunks(t, n)[1] = <<t, 1>>
         /\ Append(Delivery!FirstChunks(t, n), <<t, n + 1>>)
              = Delivery!FirstChunks(t, n + 1)
<1> DEFINE s == Delivery!FirstChunks(t, n)
           u == Delivery!FirstChunks(t, n + 1)
<1>1. /\ s = [i \in 1..n |-> <<t, i>>] /\ u = [i \in 1..n + 1 |-> <<t, i>>]
  BY DEF Delivery!FirstChunks
<1>2. Len(s) = n
  BY <1>1
<1>3. n # 0 => s # <<>> /\ s[1] = <<t, 1>>
  <2>1. n # 0 => 1 \in 1..n
    OBVIOUS
  <2> QED
    BY <1>1, <1>2, <2>1
<1>4. Append(s, <<t, n + 1>>) = u
  <2>1. s \in Seq({t} \X Nat) /\ <<t, n + 1>> \in {t} \X Nat
    BY <1>1
  <2>2. /\ Append(s, <<t, n + 1>>) \in Seq({t} \X Nat)
        /\ Len(Append(s, <<t, n + 1>>)) = n + 1
        /\ \A i \in 1..n : Append(s, <<t, n + 1>>)[i] = s[i]
        /\ Append(s, <<t, n + 1>>)[n + 1] = <<t, n + 1>>
    <3> HIDE DEF s
    <3> QED
      BY <1>2, <2>1
  <2>3. /\ Len(u) = n + 1
        /\ u \in Seq({t} \X Nat)
        /\ \A i \in 1..n + 1 : u[i] = <<t, i>>
        /\ \A i \in 1..n : s[i] = <<t, i>>
    <3>1. n + 1 \in Nat /\ \A i \in 1..n + 1 : <<t, i>> \in {t} \X Nat
      OBVIOUS
    <3>2. u \in Seq({t} \X Nat)
      BY <1>1, <3>1
    <3>3. Len(u) = n + 1
      BY <1>1, <3>1
    <3> QED
      BY <1>1, <3>2, <3>3
  <2>4. \A i \in 1..n + 1 : i \in 1..n \/ i = n + 1
    OBVIOUS
  <2> DEFINE a == Append(s, <<t, n + 1>>)
  <2> HIDE DEF s, u, a
  <2>5. \A i \in 1..n + 1 : a[i] = u[i]
    BY <2>2, <2>3, <2>4 DEF a
  <2> QED
    BY <2>2, <2>3, <2>5 DEF a
<1> QED
  BY <1>2, <1>3, <1>4

LEMMA WriteDonePlaces ==
  ASSUME Inv, ChunksHaveOnePlace, NEW p \in Peer, WriteDone(p)
  PROVE  ChunksHaveOnePlace'
<1> SUFFICES ASSUME NEW h, h = chain[p].handle, NEW b, b = chain[p].block,
                    NEW t, t = b[1], NEW i, i = b[2]
             PROVE  ChunksHaveOnePlace'
  OBVIOUS
<1>1. /\ chain[p].pc = "write"
      /\ disk' = [disk EXCEPT ![h].data = Append(@, b)]
      /\ chain' = [chain EXCEPT ![p] = FreeChain]
      /\ UNCHANGED <<xfer, picker, chan, owner, loop, low, dc>>
  BY DEF WriteDone
<1>2. TypeOK /\ PeerPlace(p)
  BY DEF Inv, ChunksHaveOnePlace, PeerPlace
<1>3. Opened(p, h) /\ h \in Tid /\ disk[h] \in File
  BY <1>1, <1>2 DEF PeerPlace, ObjectStates, HandlerState, Inv,
                    FilesHaveOnePlace, OwnFiles, Opened, TypeOK
<1>4. /\ Incoming(p, t) /\ Started(t)
      /\ \A g \in Tid : Holds(g, t) => g = h
      /\ chain[p].obj = "live" => xfer[p].tid = t
      /\ disk[h].status = "open"
      /\ i \in 1..Chunks(t)
      /\ disk[h].data = Delivery!FirstChunks(t, i - 1)
      /\ chain[p].obj = "live" => InOrder(p, t, i)
  BY <1>1, <1>2 DEF PeerPlace, PlaceOfChunk
<1> DEFINE f == [disk[h] EXCEPT !.data = Append(disk[h].data, b)]
<1>5. disk' = [disk EXCEPT ![h] = f]
  BY <1>1, <1>3
<1>6. f.status = "open" /\ f.data = Append(disk[h].data, b)
  BY <1>3, <1>4 DEF File
<1>7. /\ f.data = Delivery!FirstChunks(t, i) /\ Len(f.data) = i
      /\ f.data # <<>> /\ f.data[1] = <<t, 1>>
  <2>1. b = <<t, i>>
    BY <1>2 DEF TypeOK, Handler, Block
  <2>2. t \in Tid /\ Chunks(t) \in Nat
    BY <1>4, ChunksType DEF Incoming
  <2>3. PICK n \in Nat : i - 1 = n /\ i = n + 1
    BY <1>4, <2>2
  <2> HIDE DEF f
  <2>4. f.data = Delivery!FirstChunks(t, n + 1)
    <3>1. disk[h].data = Delivery!FirstChunks(t, n) /\ b = <<t, n + 1>>
      BY <1>4, <2>1, <2>3
    <3>2. Append(Delivery!FirstChunks(t, n), <<t, n + 1>>)
            = Delivery!FirstChunks(t, n + 1)
      BY FirstChunksNext
    <3> QED
      BY <1>6, <3>1, <3>2
  <2>5. n + 1 \in Nat /\ n + 1 # 0
    OBVIOUS
  <2>6. /\ Len(Delivery!FirstChunks(t, n + 1)) = n + 1
        /\ Delivery!FirstChunks(t, n + 1) # <<>>
        /\ Delivery!FirstChunks(t, n + 1)[1] = <<t, 1>>
    BY <2>5, FirstChunksNext
  <2> QED
    BY <2>3, <2>4, <2>6
<1> HIDE DEF f
<1>8. disk'[h] = f /\ \A g \in Tid : g # h => disk'[g] = disk[g]
  BY <1>2, <1>3, <1>5 DEF TypeOK
<1>9. chain'[p].pc = "free" /\ chain'[Other(p)] = chain[Other(p)]
  BY <1>1, <1>2, OtherOther DEF FreeChain, TypeOK
<1>10. ChannelsRest(p, 0) /\ LoopsRest(p)
  BY <1>1, <1>2, ChannelsSame, SameLoops
<1>11. \A g, u \in Tid : Holds(g, u)' => Holds(g, u) \/ (g = h /\ u = t)
  BY <1>7, <1>8 DEF Holds
<1>12. OwnData(p)
  BY <1>3, <1>4, <1>6, <1>8, <1>11 DEF OwnData
<1>13. Resting(p) /\ LiveStays(p)
  BY <1>1, <1>9, <1>10, RestingIs DEF LiveStays
<1>14. OwnersStay /\ LoopsGo(p) /\ Unanswered(p) /\ Moved(p, 0)
  BY <1>2, <1>10, <1>13, RestingLoops DEF ChannelsRest
<1>15. LoopMessages(p)' /\ StartedOnce(p)' /\ TransferState(p)'
  BY <1>1, <1>2, <1>14, LoopMessagesMoved, StartedOnceKept,
     TransferStateKept, MovedDrains
  DEF PeerPlace, ObjectStates, Inv, FilesHaveOnePlace
<1>16. /\ DialogState(p)' /\ LowWaits(p)' /\ HandlerState(p)'
       /\ HeaderThenChunk(p)' /\ PlaceOfChunk(p)' /\ ClosesWhole(p)'
  BY <1>1, <1>2, <1>9
  DEF PeerPlace, ObjectStates, DialogState, LowWaits, HandlerState,
      HeaderThenChunk, PlaceOfChunk, ClosesWhole
<1>17. PlaceOfTransfer(p)'
  <2> SUFFICES ASSUME NEW u, u = xfer'[p].tid, NEW k, k = xfer'[p].stream,
                      NEW n, n = Len(disk'[k].data), Incoming(p, u)', k # NoTid
               PROVE  /\ \A g \in Tid : Holds(g, u)' => g = k
                      /\ disk'[k].data = Delivery!FirstChunks(u, n)
                      /\ InOrder(p, u, n)'
    BY DEF PlaceOfTransfer
  <2>1. chain[p].obj = "live" /\ k = h /\ u = t
    BY <1>1, <1>2, <1>4 DEF PeerPlace, ObjectStates, HandlerState, Vacant
  <2>2. InOrder(p, t, i)'
    BY <1>2, <1>4, <1>14, <2>1, InOrderMoved
  <2>3. \A g \in Tid : Holds(g, t)' => g = h
    BY <1>4, <1>11 DEF Incoming
  <2> QED
    BY <1>7, <1>8, <2>1, <2>2, <2>3
<1>18. PeerPlace(p)'
  BY <1>15, <1>16, <1>17 DEF PeerPlace, ObjectStates
<1> QED
  BY <1>12, <1>13, <1>18, RestingStep

-----------------------------------------------------------------------------
(* The end of a file *)

\* The state of p's transfer when it ends, or when p gives it up unclosed.
LEMMA FileEndedIs ==
  ASSUME TypeOK, NEW p \in Peer, xfer' = FileEnded(p)
  PROVE  /\ xfer'[p].state = "idle" /\ xfer'[p].stream = NoTid
         /\ xfer'[p].tid = xfer[p].tid
         /\ xfer'[p].expected = xfer[p].expected
         /\ xfer'[p].direction = xfer[p].direction
         /\ xfer'[Other(p)] = xfer[Other(p)]
<1> DEFINE x == [xfer[p] EXCEPT !.stream = NoTid, !.state = "idle"]
<1>1. /\ x.state = "idle" /\ x.stream = NoTid /\ x.tid = xfer[p].tid
      /\ x.expected = xfer[p].expected /\ x.direction = xfer[p].direction
  BY XferType DEF Transfer
<1>2. xfer' = [xfer EXCEPT ![p] = x]
  BY DEF FileEnded, TypeOK
<1> HIDE DEF x
<1> QED
  BY <1>1, <1>2, OtherOther DEF TypeOK

\* When the end of a file comes, nothing of it is on its way any more.
LEMMA EndComes ==
  ASSUME Inv, ChunksHaveOnePlace, NEW p \in Peer, chan[p] # <<>>,
         NEW m, m = Head(chan[p]), m.type = "file-end", NEW t, t = m.tid
  PROVE  /\ Incoming(p, t) /\ Started(t) /\ ~MaySend(t)
         /\ NothingOf(Tail(chan[p]), t)
         /\ \A n : InOrder(p, t, n) => n = Chunks(t)
<1>1. LoopMessages(p) /\ chan[p] \in Seq(Message)
  BY DEF Inv, TypeOK, ChunksHaveOnePlace
<1>2. 1 \in 1..Len(chan[p]) /\ chan[p][1] = m /\ 1..1-1 = {}
  BY <1>1
<1>3. Incoming(p, t) /\ Started(t) /\ ~MaySend(t)
  BY <1>1, <1>2 DEF LoopMessages, OfLoop, MaySend
<1>4. NothingOf(Tail(chan[p]), t)
  <2> DEFINE u == Tail(chan[p])
  <2>1. u \in Seq(Message) /\ Shifted(chan[p], u, 1)
    BY <1>1, ShiftedTail
  <2> HIDE DEF u
  <2>2. ASSUME NEW i \in 1..Len(u), OfLoop(u[i]) PROVE u[i].tid # t
    <3>1. i + 1 \in 1..Len(chan[p]) /\ u[i] = chan[p][i + 1]
      BY <1>1, <2>1, <2>2, ShiftedFrom
    <3>2. 1 < i + 1
      OBVIOUS
    <3> QED
      BY <1>1, <1>2, <2>2, <3>1, <3>2 DEF LoopMessages, EndIsLast
  <2> QED
    BY <2>2 DEF NothingOf, u
<1>5. ASSUME NEW n, InOrder(p, t, n) PROVE n = Chunks(t)
  <2>1. Follow(chan[p], t, n)
    BY <1>5 DEF InOrder
  <2> QED
    BY <1>2, <2>1 DEF Follow
<1> QED
  BY <1>3, <1>4, <1>5

LEMMA HandleFileEndPlaces ==
  ASSUME Inv, ChunksHaveOnePlace, NEW p \in Peer, HandleFileEnd(p)
  PROVE  ChunksHaveOnePlace'
<1> SUFFICES ASSUME NEW m, m = Head(chan[p]), NEW t, t = xfer[p].tid,
                    NEW h, h = xfer[p].stream
             PROVE  ChunksHaveOnePlace'
  OBVIOUS
<1>1. /\ chain[p].pc = "free" /\ chan[p] # <<>> /\ m.type = "file-end"
      /\ chan' = Rest(p)
      /\ UNCHANGED <<picker, owner, dc, disk, loop, low>>
  BY DEF HandleFileEnd, Dispatch
<1>2. TypeOK /\ PeerPlace(p)
  BY DEF Inv, ChunksHaveOnePlace, PeerPlace
<1>3. ChannelsRest(p, 1) /\ chan'[p] = Tail(chan[p])
  BY <1>1, <1>2, ChannelsTake
<1>4. CASE ~IsTransferIdValid(p, m.tid)
  <2>1. UNCHANGED <<xfer, chain>> /\ m.type # "binary"
    BY <1>1, <1>4 DEF HandleFileEnd
  <2> QED
    BY <1>1, <1>3, <2>1, IgnoreKeeps
<1>5. ASSUME IsTransferIdValid(p, m.tid)
      PROVE  /\ Incoming(p, t) /\ Started(t) /\ ~MaySend(t)
             /\ NothingOf(chan'[p], t)
             /\ \A n : InOrder(p, t, n) => n = Chunks(t)
  BY <1>1, <1>3, <1>5, EndComes DEF IsTransferIdValid
<1>6. xfer[p].expected = 0
  <2>1. \A u, i : Binary(u, i).type = "binary"
    BY DEF Binary
  <2> QED
    BY <1>1, <1>2, <2>1 DEF PeerPlace, HeaderThenChunk
<1>7. ~IsChunk(m, t)
  BY <1>1 DEF IsChunk
<1>8. CASE IsTransferIdValid(p, m.tid) /\ h = NoTid
  <2>1. xfer[p].state = "idle"
    <3>1. xfer[p].state \in {"idle", "offering", "prompting", "transferring"}
      BY <1>2, XferType DEF Transfer
    <3>2. xfer[p].state # "offering"
      BY <1>5, <1>8, OtherOther DEF Inv, FilesHaveOnePlace, OwnLoops, Incoming
    <3>3. xfer[p].state # "prompting"
      BY <1>2, <1>5, <1>8 DEF PeerPlace, StartedOnce, Waiting
    <3>4. xfer[p].state # "transferring"
      BY <1>2, <1>5, <1>8, OtherOther
      DEF PeerPlace, ObjectStates, TransferState, Incoming
    <3> QED
      BY <3>1, <3>2, <3>3, <3>4
  <2> DEFINE x == [xfer[p] EXCEPT !.state = "idle"]
  <2>2. xfer' = [xfer EXCEPT ![p] = x] /\ chain' = chain
    BY <1>2, <1>8 DEF HandleFileEnd, TypeOK
  <2>3. /\ x.state = "idle" /\ x.tid = t /\ x.stream = h
        /\ x.expected = xfer[p].expected
    BY <1>2, XferType DEF Transfer
  <2> HIDE DEF x
  <2>4. xfer'[p] = x /\ xfer'[Other(p)] = xfer[Other(p)]
    BY <1>2, <2>2, OtherOther DEF TypeOK
  <2>5. HeaderThenChunk(p)'
    BY <1>6, <2>3, <2>4 DEF HeaderThenChunk
  <2> QED
    BY <1>1, <1>3, <1>7, <2>1, <2>2, <2>3, <2>4, <2>5, TakeKeeps
<1>9. CASE IsTransferIdValid(p, m.tid) /\ h # NoTid /\ Usable(p, h)
  <2> DEFINE c == [FreeChain EXCEPT !.pc = "close", !.handle = h]
  <2>1. c.pc = "close" /\ c.handle = h
    BY FreeChainType DEF Handler
  <2>2. chain' = [chain EXCEPT ![p] = c] /\ xfer' = xfer
    BY <1>9 DEF HandleFileEnd
  <2> HIDE DEF c
  <2>3. chain'[p] = c /\ chain'[Other(p)] = chain[Other(p)]
    BY <1>2, <2>2, OtherOther DEF TypeOK
  <2>4. OwnData(p) /\ LoopsRest(p)
    BY <1>1, <2>2, SameData, SameLoops
  <2>5. Resting(p) /\ LiveStays(p)
    BY <1>1, <1>3, <2>2, <2>3, <2>4, RestingIs DEF LiveStays
  <2>6. OwnersStay /\ LoopsGo(p) /\ Unanswered(p) /\ Moved(p, 1)
    BY <1>2, <1>3, <2>5, RestingLoops DEF ChannelsRest
  <2>7. LoopMessages(p)' /\ StartedOnce(p)' /\ TransferState(p)'
    BY <1>2, <2>2, <2>6, LoopMessagesMoved, StartedOnceKept,
       TransferStateKept, MovedDrains
    DEF PeerPlace, ObjectStates, Inv, FilesHaveOnePlace
  <2>8. Incoming(p, t)' /\ Drained(p, t)'
    BY <1>1, <1>5, <1>9 DEF Incoming, Drained, MaySend, Started
  <2>9. HandlerState(p)'
    <3>1. picker[p] = NoTid
      BY <1>2, <1>9 DEF PeerPlace, ObjectStates, DialogState, TransferState
    <3> QED
      BY <1>1, <1>9, <2>1, <2>2, <2>3, <2>8, <3>1
      DEF HandlerState, Incoming, Drained, MaySend, Started, NothingOf
  <2>10. /\ DialogState(p)' /\ LowWaits(p)' /\ HeaderThenChunk(p)'
         /\ PlaceOfChunk(p)'
    BY <1>1, <1>2, <1>6, <2>1, <2>2, <2>3
    DEF PeerPlace, ObjectStates, DialogState, LowWaits, HeaderThenChunk,
        PlaceOfChunk
  <2>11. PlaceOfTransfer(p)'
    BY <1>1, <1>2, <2>1, <2>2, <2>3
    DEF PeerPlace, PlaceOfTransfer, Holds, Incoming
  <2>12. ClosesWhole(p)'
    <3> SUFFICES ASSUME NEW n, n = Len(disk[h].data) PROVE ClosesWhole(p)'
      OBVIOUS
    <3>1. disk[h].data = Delivery!FirstChunks(t, n) /\ InOrder(p, t, n)
      BY <1>1, <1>2, <1>5, <1>9 DEF PeerPlace, PlaceOfTransfer, Usable
    <3>2. n = Chunks(t) /\ t \in Tid
      BY <1>5, <1>9, <3>1 DEF Incoming
    <3>3. disk'[chain'[p].handle].data = Delivery!FirstChunks(t, Chunks(t))
      BY <1>1, <2>1, <2>3, <3>1, <3>2
    <3> QED
      BY <3>2, <3>3 DEF ClosesWhole
  <2>13. PeerPlace(p)'
    BY <2>7, <2>9, <2>10, <2>11, <2>12 DEF PeerPlace, ObjectStates
  <2> QED
    BY <2>4, <2>5, <2>13, RestingStep
<1>10. CASE IsTransferIdValid(p, m.tid) /\ h # NoTid /\ ~Usable(p, h)
  <2>1. xfer' = FileEnded(p) /\ chain' = chain
    BY <1>10 DEF HandleFileEnd
  <2>2. /\ xfer'[p].state = "idle" /\ xfer'[p].stream = NoTid
        /\ xfer'[p].tid = t /\ xfer'[p].expected = xfer[p].expected
        /\ xfer'[Other(p)] = xfer[Other(p)]
    BY <1>2, <2>1, FileEndedIs
  <2>3. OwnData(p) /\ LoopsRest(p)
    BY <1>1, <2>2, SameData, SameLoops
  <2>4. LiveStays(p)
    BY <1>1, <1>10, LiveTransfers DEF LiveStays
  <2>5. Resting(p)
    BY <1>1, <1>3, <2>1, <2>3, RestingIs
  <2>6. OwnersStay /\ LoopsGo(p) /\ Unanswered(p) /\ Moved(p, 1)
    BY <1>2, <1>3, <2>5, RestingLoops DEF ChannelsRest
  <2>7. LoopMessages(p)' /\ StartedOnce(p)'
    BY <1>2, <2>2, <2>6, LoopMessagesMoved, StartedOnceKept
    DEF PeerPlace, ObjectStates, Inv, FilesHaveOnePlace
  <2>8. Incoming(p, t)' /\ Drained(p, t)'
    BY <1>1, <1>5, <1>10 DEF Incoming, Drained, MaySend, Started
  <2>9. TransferState(p)'
    BY <2>2, <2>8
    DEF TransferState, Incoming, Drained, MaySend, Started, NothingOf
  <2>10. picker[p] = NoTid
    BY <1>2, <1>10 DEF PeerPlace, ObjectStates, DialogState, TransferState
  <2>11. /\ DialogState(p)' /\ LowWaits(p)' /\ HandlerState(p)'
         /\ HeaderThenChunk(p)' /\ PlaceOfTransfer(p)' /\ PlaceOfChunk(p)'
         /\ ClosesWhole(p)'
    BY <1>1, <1>2, <1>6, <2>1, <2>2, <2>10
    DEF PeerPlace, ObjectStates, DialogState, LowWaits, HandlerState,
        HeaderThenChunk, PlaceOfTransfer, PlaceOfChunk, ClosesWhole
  <2>12. PeerPlace(p)'
    BY <2>7, <2>9, <2>11 DEF PeerPlace, ObjectStates
  <2> QED
    BY <2>3, <2>4, <2>5, <2>12, RestingStep
<1> QED
  BY <1>4, <1>8, <1>9, <1>10

LEMMA CloseDonePlaces ==
  ASSUME Inv, ChunksHaveOnePlace, NEW p \in Peer,
         NEW status \in {"saved", "broken"}, CloseDone(p, status)
  PROVE  ChunksHaveOnePlace'
<1> SUFFICES ASSUME NEW h, h = chain[p].handle, NEW t, t = xfer[p].tid
             PROVE  ChunksHaveOnePlace'
  OBVIOUS
<1> DEFINE d == IF status = "saved" THEN disk[h].data ELSE <<>>
           f == [disk[h] EXCEPT !.status = status, !.data = d]
<1>1. TypeOK /\ PeerPlace(p)
  BY DEF Inv, ChunksHaveOnePlace, PeerPlace
<1>2. /\ chain[p].pc = "close"
      /\ xfer' = FileEnded(p)
      /\ chain' = [chain EXCEPT ![p] = FreeChain]
      /\ UNCHANGED <<picker, chan, owner, loop, low, dc>>
  BY DEF CloseDone
<1>3. Opened(p, h) /\ h \in Tid /\ disk[h] \in File /\ h # NoTid
  BY <1>1, <1>2, TidAssumption
  DEF PeerPlace, ObjectStates, HandlerState, Inv, FilesHaveOnePlace, OwnFiles,
      Opened, TypeOK
<1>4. disk' = [disk EXCEPT ![h] = f]
  BY <1>1, <1>3 DEF CloseDone, TypeOK
<1>5. f.status = status /\ f.data \in {disk[h].data, <<>>}
  BY <1>3 DEF File
<1> HIDE DEF f, d
<1>6. disk'[h] = f /\ \A g \in Tid : g # h => disk'[g] = disk[g]
  BY <1>1, <1>3, <1>4 DEF TypeOK
<1>7. /\ xfer'[p].state = "idle" /\ xfer'[p].stream = NoTid
      /\ xfer'[p].tid = t /\ xfer'[p].expected = xfer[p].expected
      /\ xfer'[Other(p)] = xfer[Other(p)]
  BY <1>1, <1>2, FileEndedIs
<1>8. chain'[p].pc = "free" /\ chain'[Other(p)] = chain[Other(p)]
  BY <1>1, <1>2, OtherOther DEF FreeChain, TypeOK
<1>9. ChannelsRest(p, 0) /\ LoopsRest(p)
  BY <1>1, <1>2, <1>7, ChannelsSame, SameLoops
<1>10. \A g, u \in Tid : Holds(g, u)' => Holds(g, u)
  BY <1>5, <1>6 DEF Holds
<1>11. OwnData(p)
  BY <1>3, <1>5, <1>6, <1>10 DEF OwnData
<1>12. Resting(p)
  BY <1>2, <1>8, <1>9, RestingIs
<1>13. LiveStays(p)
  <2> SUFFICES ASSUME NEW u \in Tid, owner[u] = p, loop[u].pc # "off",
                      loop[u].obj = "live"
               PROVE  FALSE
    BY <1>2 DEF LiveStays
  <2>1. xfer[p].state = "transferring" /\ xfer[p].stream = NoTid
    BY LiveTransfers
  <2> QED
    BY <1>1, <1>2, <1>3, <2>1
    DEF PeerPlace, ObjectStates, HandlerState, Vacant
<1>14. OwnersStay /\ LoopsGo(p) /\ Unanswered(p) /\ Moved(p, 0)
  BY <1>1, <1>9, <1>12, RestingLoops DEF ChannelsRest
<1>15. LoopMessages(p)' /\ StartedOnce(p)'
  BY <1>1, <1>7, <1>14, LoopMessagesMoved, StartedOnceKept
  DEF PeerPlace, ObjectStates, Inv, FilesHaveOnePlace
<1>16. TransferState(p)'
  <2>1. Incoming(p, t) => Drained(p, t)
    BY <1>1, <1>2 DEF PeerPlace, ObjectStates, HandlerState, Vacant
  <2>2. Incoming(p, t)' => Drained(p, t)'
    BY <1>2, <2>1 DEF Incoming, Drained, MaySend, Started
  <2> QED
    BY <1>7, <2>2
    DEF TransferState, Incoming, Drained, MaySend, Started, NothingOf
<1>17. picker[p] = NoTid /\ xfer[p].expected = 0
  BY <1>1, <1>2, <1>3
  DEF PeerPlace, ObjectStates, HandlerState, HeaderThenChunk
<1>18. /\ DialogState(p)' /\ LowWaits(p)' /\ HandlerState(p)'
       /\ HeaderThenChunk(p)' /\ PlaceOfTransfer(p)' /\ PlaceOfChunk(p)'
       /\ ClosesWhole(p)'
  BY <1>1, <1>2, <1>7, <1>8, <1>17
  DEF PeerPlace, ObjectStates, DialogState, LowWaits, HandlerState,
      HeaderThenChunk, PlaceOfTransfer, PlaceOfChunk, ClosesWhole
<1>19. PeerPlace(p)'
  BY <1>15, <1>16, <1>18 DEF PeerPlace, ObjectStates
<1> QED
  BY <1>11, <1>12, <1>13, <1>19, RestingStep

-----------------------------------------------------------------------------
(* An offer is accepted and its loop starts *)

LEMMA HandleReadyPlaces ==
  ASSUME Inv, ChunksHaveOnePlace, NEW p \in Peer, HandleReady(p)
  PROVE  ChunksHaveOnePlace'
<1> SUFFICES ASSUME NEW t, t = Head(chan[p]).tid, NEW q, q = Other(p)
             PROVE  ChunksHaveOnePlace'
  OBVIOUS
<1>1. /\ chain[p].pc = "free" /\ chan[p] # <<>>
      /\ Head(chan[p]).type = "ready"
      /\ chan' = Rest(p)
      /\ UNCHANGED <<picker, owner, dc, disk>>
  BY DEF HandleReady, Dispatch
<1>2. TypeOK /\ PeerPlace(p) /\ PeerPlace(q) /\ q \in Peer /\ p # q /\ Other(q) = p
  BY OtherOther DEF Inv, ChunksHaveOnePlace, PeerPlace
<1>3. ChannelsRest(p, 1) /\ chan'[p] = Tail(chan[p])
  BY <1>1, <1>2, ChannelsTake
<1>4. CASE ~(IsTransferIdValid(p, t) /\ xfer[p].state = "offering")
  <2>1. UNCHANGED <<xfer, chain, loop, low>>
    BY <1>4 DEF HandleReady
  <2> QED
    BY <1>1, <1>3, <2>1, IgnoreKeeps
<1>5. CASE /\ IsTransferIdValid(p, t) /\ xfer[p].state = "offering"
           /\ ~(IsOpen(p) /\ p \in secure)
  <2>1. ResetTransfer(p, loop)
    BY <1>5 DEF HandleReady
  <2>2. xfer[p].stream = NoTid /\ Stopped(p, loop)
    BY <1>2, <1>5, SameStopped DEF PeerPlace, ObjectStates, TransferState
  <2> QED
    BY <1>1, <1>3, <2>1, <2>2, ResetTransferKeeps
<1>6. CASE /\ IsTransferIdValid(p, t) /\ xfer[p].state = "offering"
           /\ IsOpen(p) /\ p \in secure
  <2> DEFINE x == [xfer[p] EXCEPT !.state = "transferring"]
             l == [pc |-> FirstStep(t), next |-> 1, obj |-> "live"]
  <2>1. /\ xfer' = [xfer EXCEPT ![p] = x] /\ loop' = [loop EXCEPT ![t] = l]
        /\ UNCHANGED <<chain, low>>
    BY <1>2, <1>6 DEF HandleReady, TypeOK
  <2>2. /\ x.state = "transferring" /\ x.tid = xfer[p].tid
        /\ x.stream = xfer[p].stream /\ x.expected = xfer[p].expected
    BY <1>2, XferType DEF Transfer
  <2>3. l.pc # "off" /\ l.next = 1 /\ l.obj = "live"
    BY DEF FirstStep
  <2> HIDE DEF x, l
  <2>4. /\ t \in Tid /\ owner[t] = p /\ ~Started(t) /\ xfer[p].tid = t
    BY <1>2, <1>6
    DEF IsTransferIdValid, Inv, FilesHaveOnePlace, OwnLoops, PeerPlace, StartedOnce
  <2>5. /\ loop'[t] = l /\ (\A u \in Tid : u # t => loop'[u] = loop[u])
        /\ xfer'[p] = x /\ xfer'[q] = xfer[q]
    BY <1>2, <2>1, <2>4 DEF TypeOK
  <2>6. loop[t].pc = "off" /\ loop[t].next = 1
    BY <2>4 DEF ChunksHaveOnePlace, LoopCounts
  <2>7. t \in Readies(chan[p])
    <3>1. chan[p] \in Seq(Message)
      BY <1>2 DEF TypeOK
    <3>2. 1 \in 1..Len(chan[p]) /\ chan[p][1] = Head(chan[p])
      BY <1>1, <3>1
    <3> QED
      BY <1>1, <3>2, ReadiesOf
  <2>8. FilesStay(p) /\ FilesStay(q)
    BY <1>1, <1>2, SameData
  <2>9. OwnersStay
    BY <1>1 DEF OwnersStay
  <2>10. Started(t)' /\ \A u \in Tid : u # t => (Started(u)' <=> Started(u))
    BY <2>3, <2>5 DEF Started
  <2>11. LoopsGo(p)
    BY <1>2, <2>4, <2>5, <2>10 DEF LoopsGo, Incoming, MaySend
  <2>12. LoopsGo(q)
    BY <2>3, <2>4, <2>5, <2>6, <2>10 DEF LoopsGo, MaySend
  <2>13. PeerPlace(q)'
    <3>1. SameObject(q) /\ xfer'[q].expected = xfer[q].expected
      BY <2>1, <2>5 DEF SameObject
    <3>2. LowRests(q)
      BY <1>2, <2>1, <2>4, <2>5
      DEF LowRests, TypeOK, TidOrNone, Inv, FilesHaveOnePlace, OwnLoops
    <3>3. Moved(q, 0) /\ picker'[q] = picker[q]
      BY <1>1, <1>3 DEF ChannelsRest
    <3>4. Unanswered(q)
      BY <1>2, <1>3, <2>4, <2>7, <2>10 DEF ChannelsRest, Unanswered, Waiting
    <3> QED
      BY <1>2, <2>8, <2>9, <2>12, <3>1, <3>2, <3>3, <3>4, PeerKept
  <2>14. LoopMessages(p)'
    BY <1>2, <1>3, <2>9, <2>11, LoopMessagesMoved DEF ChannelsRest, PeerPlace
  <2>15. StartedOnce(p)'
    <3>1. ASSUME NEW u \in Metas(chan'[p]) PROVE Waiting(p, u)' /\ u # t
      <4>1. u \in Metas(chan[p])
        BY <1>2, <1>3, <3>1 DEF ChannelsRest
      <4>2. u \in Tid /\ owner[u] = q /\ Waiting(p, u)
        BY <1>2, <4>1
        DEF Inv, FilesHaveOnePlace, OpenedOnce, Unopened, PeerPlace, StartedOnce
      <4> QED
        BY <1>2, <1>3, <2>4, <2>10, <4>2 DEF Waiting, ChannelsRest
    <3>2. \A u \in Readies(chan'[p]) : u # NoTid => u \in Tid /\ owner'[u] = p
      BY <1>1, <1>2, <1>3 DEF PeerPlace, StartedOnce, ChannelsRest
    <3>3. owner'[t] # NoPeer
      BY <1>1, <2>4, NoPeerAssumption
    <3> QED
      BY <2>2, <2>4, <2>5, <3>1, <3>2, <3>3 DEF StartedOnce, Waiting, Started
  <2>16. xfer[p].stream = NoTid /\ picker[p] = NoTid /\ xfer[p].expected = 0
    <3>1. \A u, i : Binary(u, i).type = "binary"
      BY DEF Binary
    <3> QED
      BY <1>1, <1>2, <1>6, <3>1
      DEF PeerPlace, ObjectStates, TransferState, DialogState, HeaderThenChunk
  <2>17. LowWaits(p)'
    BY <1>2, <2>1, <2>5, <2>6
    DEF PeerPlace, ObjectStates, LowWaits, TypeOK, TidOrNone
  <2>18. /\ DialogState(p)' /\ TransferState(p)' /\ HandlerState(p)'
         /\ HeaderThenChunk(p)' /\ PlaceOfTransfer(p)' /\ PlaceOfChunk(p)'
         /\ ClosesWhole(p)'
    BY <1>1, <2>1, <2>2, <2>4, <2>5, <2>16
    DEF DialogState, TransferState, HandlerState, HeaderThenChunk,
        PlaceOfTransfer, PlaceOfChunk, ClosesWhole
  <2>19. PeerPlace(p)'
    BY <2>14, <2>15, <2>17, <2>18 DEF PeerPlace, ObjectStates
  <2>20. ASSUME NEW u \in Tid PROVE LoopCounts(u)' /\ EmptyBefore(u)'
    <3>1. LoopCounts(u) /\ EmptyBefore(u)
      BY DEF ChunksHaveOnePlace, EmptyBefore
    <3>2. EmptyBefore(u)' /\ \A g \in Tid : Holds(g, u)' <=> Holds(g, u)
      BY <1>1, <3>1 DEF EmptyBefore, Holds
    <3>3. CASE u = t
      <4>1. 1 \in 1..Chunks(t)
        BY <2>4, ChunksType
      <4> QED
        BY <1>1, <2>2, <2>3, <2>4, <2>5, <2>10, <3>2, <3>3, <4>1, NoPeerAssumption
        DEF LoopCounts
    <3>4. CASE u # t
      <4>1. ASSUME loop[u].pc # "off", loop[u].obj = "live"
            PROVE  xfer'[owner[u]].tid = u /\ xfer'[owner[u]].state = "transferring"
        <5>1. owner[u] \in Peer
          BY <4>1 DEF Inv, FilesHaveOnePlace, OwnLoops
        <5>2. owner[u] # p
          BY <1>6, <3>1, <4>1 DEF LoopCounts
        <5> QED
          BY <1>2, <2>5, <3>1, <4>1, <5>1, <5>2, OtherOther DEF LoopCounts
      <4> QED
        BY <1>1, <2>5, <2>10, <3>1, <3>2, <3>4, <4>1 DEF LoopCounts
    <3> QED
      BY <3>2, <3>3, <3>4
  <2> QED
    BY <1>2, <2>13, <2>19, <2>20, OtherOther
    DEF ChunksHaveOnePlace, PeerPlace, EmptyBefore
<1> QED
  BY <1>4, <1>5, <1>6

-----------------------------------------------------------------------------
(* A new offer, and its answer *)

\* p sends the message m, which no loop sends.
LEMMA MessageSent ==
  ASSUME TypeOK, NEW p \in Peer, NEW m \in Message, ~OfLoop(m),
         chan' = chan \/ chan' = Sent(chan, p, <<m>>), UNCHANGED dc,
         NEW q, q = Other(p)
  PROVE  /\ chan'[p] = chan[p]
         /\ Moved(p, 0) /\ Moved(q, 0)
         /\ Readies(chan'[q]) \subseteq
              IF m.type = "ready" THEN Readies(chan[q]) \cup {m.tid}
                                  ELSE Readies(chan[q])
         /\ chan'[q] = chan[q] \/ chan'[q] = chan[q] \o <<m>>
<1>1. /\ q \in Peer /\ p # q /\ chan[p] \in Seq(Message) /\ chan[q] \in Seq(Message)
      /\ Len(chan[q]) \in Nat
  BY OtherOther DEF TypeOK
<1>2. /\ chan'[p] = chan[p]
      /\ \/ chan'[q] = chan[q]
         \/ chan'[q] = chan[q] \o <<m>> /\ IsOpen(q)
  BY <1>1 DEF Sent, TypeOK
<1>3. Moved(p, 0)
  BY <1>1, <1>2, ShiftedSame DEF Moved, IsOpen
<1>4. CASE chan'[q] = chan[q]
  BY <1>1, <1>2, <1>3, <1>4, ShiftedSame DEF Moved, IsOpen
<1>5. CASE chan'[q] = chan[q] \o <<m>> /\ IsOpen(q)
  <2>1. /\ chan[q] \o <<m>> \in Seq(Message)
        /\ Shifted(chan[q], chan[q] \o <<m>>, 0)
        /\ Len(chan[q] \o <<m>>) = Len(chan[q]) + 1
        /\ Readies(chan[q] \o <<m>>) \subseteq
             IF m.type = "ready" THEN Readies(chan[q]) \cup {m.tid}
                                 ELSE Readies(chan[q])
    BY <1>1, ShiftedAppend
  <2> QED
    BY <1>1, <1>2, <1>3, <1>5, <2>1 DEF Moved, IsOpen
<1> QED
  BY <1>2, <1>4, <1>5

LEMMA OfferPlaces ==
  ASSUME Inv, ChunksHaveOnePlace, NEW p \in Peer, NEW t \in Tid, Offer(p, t)
  PROVE  ChunksHaveOnePlace'
<1> SUFFICES ASSUME NEW q, q = Other(p) PROVE ChunksHaveOnePlace'
  OBVIOUS
<1> DEFINE x == [xfer[p] EXCEPT !.state = "offering", !.direction = "send",
                                !.tid = t]
           m == Msg("file-meta", t)
<1>1. /\ picker[p] = NoTid /\ owner[t] = NoPeer /\ IsOpen(p)
      /\ xfer[p].state = "idle"
      /\ owner' = [owner EXCEPT ![t] = p]
      /\ chan' = Sent(chan, p, <<m>>)
      /\ UNCHANGED <<picker, chain, disk, loop, low, dc>>
  BY DEF Offer
<1>2. TypeOK /\ PeerPlace(p) /\ PeerPlace(q) /\ q \in Peer /\ p # q /\ Other(q) = p
  BY OtherOther DEF Inv, ChunksHaveOnePlace, PeerPlace
<1>3. xfer' = [xfer EXCEPT ![p] = x]
  BY <1>2 DEF Offer, TypeOK
<1>4. /\ x.state = "offering" /\ x.tid = t /\ x.stream = xfer[p].stream
      /\ x.expected = xfer[p].expected
  BY <1>2, XferType DEF Transfer
<1> HIDE DEF x
<1>5. xfer'[p] = x /\ xfer'[q] = xfer[q]
  BY <1>2, <1>3 DEF TypeOK
<1>6. owner'[t] = p /\ \A u \in Tid : u # t => owner'[u] = owner[u]
  BY <1>1, <1>2 DEF TypeOK
<1>7. m \in Message /\ ~OfLoop(m) /\ m.type = "file-meta" /\ t \in TidOrNone
  BY MsgType DEF Msg, OfLoop, MessageType, TidOrNone
<1> HIDE DEF m
<1>8. /\ chan'[p] = chan[p] /\ Moved(p, 0) /\ Moved(q, 0)
      /\ Readies(chan'[q]) \subseteq Readies(chan[q])
      /\ chan'[q] = chan[q] \/ chan'[q] = chan[q] \o <<m>>
  BY <1>1, <1>2, <1>7, MessageSent
<1>9. Metas(chan'[q]) \subseteq Metas(chan[q]) \cup {t}
  <2>1. chan[q] \in Seq(Message) /\ t \notin Metas(chan[q])
    BY <1>1, <1>2, NoPeerAssumption
    DEF TypeOK, Inv, FilesHaveOnePlace, OpenedOnce, Unopened
  <2> QED
    BY <1>7, <1>8, <2>1, MetasOffered DEF m
<1>10. OwnersStay /\ LoopsGo(p) /\ LoopsGo(q) /\ FilesStay(p) /\ FilesStay(q)
  BY <1>1, <1>2, <1>6, SameData DEF OwnersStay, LoopsGo, MaySend, Started
<1>11. \A u \in Tid : Started(u)' <=> Started(u)
  BY <1>1 DEF Started
<1>12. ~Started(t)
  BY <1>1 DEF ChunksHaveOnePlace, LoopCounts
<1>13. StartedOnce(q)'
  <2>1. t \notin Readies(chan[p]) /\ xfer[q].tid # t
    BY <1>1, <1>2, NoPeerAssumption, TidAssumption DEF PeerPlace, StartedOnce
  <2>2. \A u : Waiting(q, u) => Waiting(q, u)'
    BY <1>1, <1>2, <1>8 DEF Waiting, Started
  <2>3. Waiting(q, t)
    BY <1>2, <1>12, <2>1 DEF Waiting
  <2>4. \A u \in Metas(chan'[q]) : Waiting(q, u)' /\ xfer'[q].tid # u
    BY <1>2, <1>5, <1>9, <2>1, <2>2, <2>3 DEF PeerPlace, StartedOnce
  <2>5. xfer[q].state = "prompting" => Waiting(q, xfer[q].tid)
    BY <1>2 DEF PeerPlace, StartedOnce
  <2>6. xfer'[q].state = "prompting" => ~Started(xfer[q].tid)' /\ xfer[q].tid \notin Readies(chan'[p])
    BY <1>1, <1>2, <1>5, <1>8, <2>5 DEF Waiting, Started
  <2>7. xfer'[q].state = "offering" => loop'[xfer'[q].tid].obj = "none"
    BY <1>1, <1>2, <1>5 DEF PeerPlace, StartedOnce, Started
  <2>8. xfer'[q].tid \in Tid => owner'[xfer'[q].tid] # NoPeer
    BY <1>2, <1>5, <1>6, <2>1 DEF PeerPlace, StartedOnce
  <2>9. \A u \in Readies(chan'[q]) : u # NoTid => u \in Tid /\ owner'[u] = q
    BY <1>1, <1>2, <1>6, <1>8, NoPeerAssumption DEF PeerPlace, StartedOnce
  <2> QED
    BY <1>1, <1>2, <1>5, <2>4, <2>6, <2>7, <2>8, <2>9
    DEF StartedOnce, Waiting, Started
<1>14. PeerPlace(q)'
  <2>1. SameObject(q) /\ xfer'[q].expected = xfer[q].expected
    BY <1>1, <1>5 DEF SameObject
  <2>2. LoopMessages(q)' /\ HeaderThenChunk(q)'
    BY <1>2, <1>8, <1>10, <2>1, LoopMessagesMoved, HeaderThenChunkKept
    DEF PeerPlace
  <2>3. LowWaits(q)'
    BY <1>1, <1>2 DEF PeerPlace, ObjectStates, LowWaits
  <2>4. DrainStays(q) /\ OrderStays(q)
    BY <1>2, <1>8, <1>10, MovedDrains, MovedOrders
  <2> QED
    BY <1>1, <1>2, <1>10, <1>11, <1>13, <2>1, <2>2, <2>3, <2>4, PeerStays
<1>15. LoopMessages(p)'
  BY <1>2, <1>8, <1>10, LoopMessagesMoved DEF PeerPlace
<1>16. StartedOnce(p)'
  <2>1. ASSUME NEW u \in Metas(chan'[p])
        PROVE  ~Started(u)' /\ u \notin Readies(chan'[q]) /\ u # t
    <3>1. u \in Tid /\ owner[u] = q /\ Waiting(p, u)
      BY <1>2, <1>8, <2>1
      DEF Inv, FilesHaveOnePlace, OpenedOnce, Unopened, PeerPlace, StartedOnce
    <3> QED
      BY <1>1, <1>2, <1>8, <1>11, <3>1, NoPeerAssumption DEF Waiting
  <2>2. \A u \in Readies(chan'[p]) : u # NoTid => u \in Tid /\ owner'[u] = p
    BY <1>1, <1>2, <1>6, <1>8 DEF PeerPlace, StartedOnce
  <2>3. owner'[t] # NoPeer /\ ~Started(t)'
    BY <1>6, <1>11, <1>12, NoPeerAssumption
  <2> QED
    BY <1>2, <1>4, <1>5, <2>1, <2>2, <2>3 DEF StartedOnce, Waiting, Started
<1>17. /\ xfer[p].stream = NoTid /\ xfer[p].expected = 0
       /\ chain[p].obj = "live" => chain[p].pc \notin {"decrypt", "write"}
  <2>1. xfer[p].stream = NoTid
    BY <1>1, <1>2 DEF PeerPlace, ObjectStates, TransferState
  <2>2. /\ chain[p].pc # "free" => chain[p].handle # NoTid
        /\ chain[p].obj = "live" => chain[p].pc \notin {"decrypt", "write"}
    BY <1>2, <2>1 DEF PeerPlace, ObjectStates, HandlerState
  <2>3. chain[p].pc = "free" /\ chan[p] # <<>> => xfer[p].expected = 0
    BY <1>1, ExpectedComes
  <2> QED
    BY <1>1, <1>2, <2>1, <2>2, <2>3 DEF PeerPlace, HeaderThenChunk
<1>18. Vacant(p)'
  BY <1>2, <1>4, <1>5, <1>6, <1>17 DEF Vacant, Incoming
<1>19. DialogState(p)' /\ LowWaits(p)' /\ TransferState(p)'
  BY <1>1, <1>2, <1>4, <1>5, <1>17
  DEF PeerPlace, ObjectStates, DialogState, LowWaits, TransferState
<1>20. HandlerState(p)'
  BY <1>1, <1>2, <1>4, <1>5, <1>17, <1>18
  DEF PeerPlace, ObjectStates, HandlerState
<1>21. HeaderThenChunk(p)' /\ PlaceOfTransfer(p)'
  BY <1>4, <1>5, <1>17 DEF HeaderThenChunk, PlaceOfTransfer
<1>22. PlaceOfChunk(p)' /\ ClosesWhole(p)'
  <2>1. ClosesWhole(p)'
    BY <1>1, <1>2 DEF PeerPlace, ClosesWhole
  <2>2. ASSUME NEW u, Incoming(p, u) PROVE Incoming(p, u)'
    BY <1>10, <2>2, IncomingStays
  <2> QED
    BY <1>1, <1>2, <1>17, <2>1, <2>2
    DEF PeerPlace, PlaceOfChunk, Started, Holds, Incoming
<1>23. PeerPlace(p)'
  BY <1>15, <1>16, <1>19, <1>20, <1>21, <1>22 DEF PeerPlace, ObjectStates
<1>24. ASSUME NEW u \in Tid PROVE LoopCounts(u)' /\ EmptyBefore(u)'
  <2>1. LoopCounts(u) /\ EmptyBefore(u)
    BY DEF ChunksHaveOnePlace, EmptyBefore
  <2>2. EmptyBefore(u)' /\ \A g \in Tid : Holds(g, u)' <=> Holds(g, u)
    BY <1>1, <2>1 DEF EmptyBefore, Holds
  <2>3. ASSUME loop[u].pc # "off", loop[u].obj = "live"
        PROVE  xfer'[owner'[u]].tid = u /\ xfer'[owner'[u]].state = "transferring"
    <3>1. owner[u] \in Peer /\ owner[u] # p
      BY <1>1, <2>1, <2>3 DEF LoopCounts, Inv, FilesHaveOnePlace, OwnLoops
    <3> QED
      BY <1>1, <1>2, <1>5, <1>6, <2>1, <2>3, <3>1, OtherOther, NoPeerAssumption
      DEF LoopCounts
  <2> QED
    BY <1>1, <1>6, <1>11, <1>12, <2>1, <2>2, <2>3 DEF LoopCounts
<1> QED
  BY <1>2, <1>14, <1>23, <1>24, OtherOther
  DEF ChunksHaveOnePlace, PeerPlace, EmptyBefore

LEMMA NoChunksYet == \A t : Delivery!FirstChunks(t, 0) = <<>>
BY DEF Delivery!FirstChunks

LEMMA PickerSavePlaces ==
  ASSUME Inv, ChunksHaveOnePlace, NEW p \in Peer, PickerSave(p)
  PROVE  ChunksHaveOnePlace'
<1> SUFFICES ASSUME NEW q, q = Other(p), NEW h, h = picker[p],
                    NEW t, t = xfer[p].tid
             PROVE  ChunksHaveOnePlace'
  OBVIOUS
<1> DEFINE x == [xfer[p] EXCEPT !.stream = h, !.state = "transferring"]
           f == [disk[h] EXCEPT !.status = "open"]
           m == Msg("ready", t)
<1>1. /\ h # NoTid
      /\ picker' = [picker EXCEPT ![p] = NoTid]
      /\ chan' = TrySent(chan, p, m)
      /\ UNCHANGED <<chain, owner, loop, low, dc>>
  BY DEF PickerSave
<1>2. TypeOK /\ PeerPlace(p) /\ PeerPlace(q) /\ q \in Peer /\ p # q /\ Other(q) = p
  BY OtherOther DEF Inv, ChunksHaveOnePlace, PeerPlace
<1>3. /\ chain[p].pc = "free"
      /\ xfer[p].state = "prompting" \/ (xfer[p].state = "idle" /\ t = NoTid)
  BY <1>1, <1>2 DEF PeerPlace, ObjectStates, DialogState, HandlerState
<1>4. Unopened(p, h) /\ h \in Tid /\ disk[h] \in File /\ disk[h].status = "none"
  BY <1>1, <1>2 DEF Inv, FilesHaveOnePlace, OpenedOnce, Unopened, TypeOK
<1>5. disk[h].data = <<>>
  BY <1>4 DEF ChunksHaveOnePlace
<1>6. t # NoTid => Incoming(p, t) /\ ~Started(t)
  BY <1>2, <1>3
  DEF Inv, FilesHaveOnePlace, OpenedOnce, Unopened, Incoming, PeerPlace,
      StartedOnce, Waiting
<1>7. xfer' = [xfer EXCEPT ![p] = x] /\ disk' = [disk EXCEPT ![h] = f]
  BY <1>2, <1>4 DEF PickerSave, TypeOK
<1>8. /\ x.state = "transferring" /\ x.tid = t /\ x.stream = h
      /\ x.expected = xfer[p].expected
      /\ f.status = "open" /\ f.data = <<>>
  BY <1>2, <1>4, <1>5, XferType DEF Transfer, File
<1> HIDE DEF x, f
<1>9. /\ xfer'[p] = x /\ xfer'[q] = xfer[q]
      /\ disk'[h] = f /\ \A g \in Tid : g # h => disk'[g] = disk[g]
      /\ picker'[p] = NoTid /\ picker'[q] = picker[q]
  BY <1>1, <1>2, <1>4, <1>7 DEF TypeOK
<1>10. /\ m \in Message /\ ~OfLoop(m) /\ m.type = "ready" /\ m.tid = t
       /\ m.type # "file-meta" /\ t \in TidOrNone
  BY <1>2, XferType, MsgType DEF Msg, OfLoop, MessageType
<1>11. chan' = chan \/ chan' = Sent(chan, p, <<m>>)
  BY <1>1 DEF TrySent
<1>12. /\ \A r \in Peer : Metas(chan'[r]) \subseteq Metas(chan[r])
  <2>1. Fewer(chan, TrySent(chan, p, m)) /\ "ready" # "file-meta"
    BY <1>2, <1>10, TrySentFewer DEF TypeOK, MessageType
  <2> QED
    BY <1>1, <2>1 DEF Fewer
<1> HIDE DEF m
<1>13. /\ chan'[p] = chan[p] /\ Moved(p, 0) /\ Moved(q, 0)
       /\ Readies(chan'[q]) \subseteq Readies(chan[q]) \cup {t}
  BY <1>1, <1>2, <1>10, <1>11, MessageSent
<1>14. \A g, u \in Tid : Holds(g, u)' <=> Holds(g, u)
  BY <1>5, <1>8, <1>9 DEF Holds
<1>15. FilesStay(q)
  BY <1>4, <1>9, <1>14 DEF FilesStay, Opened
<1>16. OwnersStay /\ LoopsGo(p) /\ LoopsGo(q)
  BY <1>1 DEF OwnersStay, LoopsGo, MaySend, Started
<1>17. \A u \in Tid : Started(u)' <=> Started(u)
  BY <1>1 DEF Started
<1>18. StartedOnce(q)'
  <2>1. \A u : Waiting(q, u) => Waiting(q, u)'
    BY <1>1, <1>2, <1>13 DEF Waiting, Started
  <2>2. \A u \in Metas(chan'[q]) : Waiting(q, u)' /\ xfer'[q].tid # u
    BY <1>2, <1>9, <1>12, <2>1 DEF PeerPlace, StartedOnce
  <2>3. xfer'[q].state = "prompting" =>
          ~Started(xfer[q].tid)' /\ xfer[q].tid \notin Readies(chan'[p])
    BY <1>1, <1>2, <1>9, <1>13 DEF Waiting, Started, PeerPlace, StartedOnce
  <2>4. xfer'[q].state = "offering" => loop'[xfer'[q].tid].obj = "none"
    BY <1>1, <1>2, <1>9 DEF PeerPlace, StartedOnce, Started
  <2>5. xfer'[q].tid \in Tid => owner'[xfer'[q].tid] # NoPeer
    BY <1>1, <1>2, <1>9 DEF PeerPlace, StartedOnce
  <2>6. \A u \in Readies(chan'[q]) : u # NoTid => u \in Tid /\ owner'[u] = q
    BY <1>1, <1>2, <1>6, <1>13 DEF PeerPlace, StartedOnce, Incoming
  <2> QED
    BY <1>1, <1>2, <1>9, <2>2, <2>3, <2>4, <2>5, <2>6
    DEF StartedOnce, Waiting, Started
<1>19. PeerPlace(q)'
  <2>1. SameObject(q) /\ xfer'[q].expected = xfer[q].expected
    BY <1>1, <1>9 DEF SameObject
  <2>2. LoopMessages(q)' /\ HeaderThenChunk(q)'
    BY <1>2, <1>13, <1>16, <2>1, LoopMessagesMoved, HeaderThenChunkKept
    DEF PeerPlace
  <2>3. LowWaits(q)'
    BY <1>1, <1>2 DEF PeerPlace, ObjectStates, LowWaits
  <2>4. DrainStays(q) /\ OrderStays(q)
    BY <1>2, <1>13, <1>16, MovedDrains, MovedOrders
  <2> QED
    BY <1>2, <1>9, <1>15, <1>16, <1>17, <1>18, <2>1, <2>2, <2>3, <2>4, PeerStays
<1>20. LoopMessages(p)'
  BY <1>2, <1>13, <1>16, LoopMessagesMoved DEF PeerPlace
<1>21. StartedOnce(p)'
  <2>1. ASSUME NEW u \in Metas(chan'[p])
        PROVE  ~Started(u)' /\ u \notin Readies(chan'[q]) /\ u # t
    <3>1. u \in Tid /\ Waiting(p, u) /\ u # t
      BY <1>2, <1>13, <2>1
      DEF Inv, FilesHaveOnePlace, OpenedOnce, Unopened, PeerPlace, StartedOnce
    <3> QED
      BY <1>2, <1>13, <1>17, <3>1 DEF Waiting
  <2>2. \A u \in Readies(chan'[p]) : u # NoTid => u \in Tid /\ owner'[u] = p
    BY <1>1, <1>2, <1>13 DEF PeerPlace, StartedOnce
  <2>3. t \in Tid => owner'[t] # NoPeer
    BY <1>1, <1>2 DEF PeerPlace, StartedOnce
  <2> QED
    BY <1>2, <1>8, <1>9, <2>1, <2>2, <2>3 DEF StartedOnce, Waiting, Started
<1>22. DialogState(p)' /\ LowWaits(p)' /\ TransferState(p)' /\ HandlerState(p)'
  BY <1>1, <1>2, <1>3, <1>6, <1>8, <1>9
  DEF PeerPlace, ObjectStates, DialogState, LowWaits, TransferState,
      HandlerState, Incoming
<1>23. HeaderThenChunk(p)'
  <2>1. chan[p] # <<>> => xfer[p].expected = 0
    BY <1>3, ExpectedComes
  <2> QED
    BY <1>1, <1>2, <1>3, <1>8, <1>9, <1>13, <2>1
    DEF PeerPlace, HeaderThenChunk, IsOpen
<1>24. PlaceOfTransfer(p)'
  <2> SUFFICES ASSUME Incoming(p, t)
               PROVE  /\ \A g \in Tid : Holds(g, t)' => g = h
                      /\ disk'[h].data = Delivery!FirstChunks(t, 0)
                      /\ Len(disk'[h].data) = 0
                      /\ InOrder(p, t, 0)'
    BY <1>1, <1>8, <1>9 DEF PlaceOfTransfer, Incoming, InOrder, Holds, MaySend,
                            Started, IsOpen
  <2>1. ~Started(t) /\ t \in Tid
    BY <1>6, TidAssumption DEF Incoming
  <2>2. loop[t].next = 1 /\ \A g \in Tid : ~Holds(g, t)
    BY <2>1 DEF ChunksHaveOnePlace, LoopCounts
  <2>3. \A i \in 1..Len(chan[p]) : OfLoop(chan[p][i]) => chan[p][i].tid # t
    BY <1>2, <2>1 DEF PeerPlace, LoopMessages
  <2>4. \A i \in 1..Len(chan[p]) : ~IsChunk(chan[p][i], t)
    BY <2>3 DEF IsChunk, OfLoop
  <2>5. Follow(chan[p], t, 0)
    BY <2>3, <2>4 DEF Follow, OfLoop
  <2>6. Before(chan[p], t, 0, 1)
    BY <2>4 DEF Before
  <2>7. 0 \in 0..Chunks(t)
    BY <2>1, ChunksType
  <2>8. InOrder(p, t, 0)'
    BY <1>1, <1>13, <2>2, <2>5, <2>6, <2>7 DEF InOrder
  <2> QED
    BY <1>8, <1>9, <1>14, <2>1, <2>2, <2>8, NoChunksYet
<1>25. PlaceOfChunk(p)' /\ ClosesWhole(p)'
  BY <1>1, <1>3 DEF PlaceOfChunk, ClosesWhole
<1>26. PeerPlace(p)'
  BY <1>20, <1>21, <1>22, <1>23, <1>24, <1>25 DEF PeerPlace, ObjectStates
<1>27. ASSUME NEW u \in Tid PROVE LoopCounts(u)' /\ EmptyBefore(u)'
  <2>1. LoopCounts(u) /\ EmptyBefore(u)
    BY DEF ChunksHaveOnePlace, EmptyBefore
  <2>2. EmptyBefore(u)'
    BY <1>8, <1>9, <2>1 DEF EmptyBefore
  <2>3. ASSUME loop[u].pc # "off", loop[u].obj = "live"
        PROVE  xfer'[owner[u]].tid = u /\ xfer'[owner[u]].state = "transferring"
    <3>1. owner[u] \in Peer /\ owner[u] # p
      BY <1>3, <2>1, <2>3 DEF LoopCounts, Inv, FilesHaveOnePlace, OwnLoops
    <3> QED
      BY <1>2, <1>9, <2>1, <2>3, <3>1, OtherOther DEF LoopCounts
  <2> QED
    BY <1>1, <1>14, <1>17, <2>1, <2>2, <2>3 DEF LoopCounts
<1> QED
  BY <1>2, <1>19, <1>26, <1>27, OtherOther
  DEF ChunksHaveOnePlace, PeerPlace, EmptyBefore

-----------------------------------------------------------------------------
(* A loop sends a chunk *)

\* u is s and the header k of t with its chunk, perhaps also the end of t.
AddsChunk(s, u, t, k) ==
  /\ Len(u) \in {Len(s) + 2, Len(s) + 3}
  /\ \A i \in 1..Len(s) : u[i] = s[i]
  /\ u[Len(s) + 1] = ChunkHeader(t, k)
  /\ u[Len(s) + 2] = Binary(t, k)
  /\ Len(u) = Len(s) + 3 => u[Len(s) + 3] = Msg("file-end", t)

LEMMA AddsChunkAt ==
  ASSUME NEW s \in Seq(Message), NEW u \in Seq(Message), NEW t, NEW k,
         AddsChunk(s, u, t, k), NEW i \in 1..Len(u)
  PROVE  \/ i \in 1..Len(s) /\ u[i] = s[i]
         \/ /\ i = Len(s) + 1 /\ u[i].type = "file-chunk"
            /\ u[i].tid = t /\ u[i].idx = k
         \/ i = Len(s) + 2 /\ u[i].type = "binary" /\ u[i].tid = t /\ u[i].idx = k
         \/ /\ i = Len(s) + 3 /\ Len(u) = Len(s) + 3
            /\ u[i].type = "file-end" /\ u[i].tid = t
<1>1. Len(s) \in Nat /\ Len(u) \in Nat
  OBVIOUS
<1>2. i \in 1..Len(s) \/ i = Len(s) + 1 \/ i = Len(s) + 2
      \/ (i = Len(s) + 3 /\ Len(u) = Len(s) + 3)
  BY <1>1 DEF AddsChunk
<1> QED
  BY <1>2 DEF AddsChunk, ChunkHeader, Binary, Msg

LEMMA HeadedAdds ==
  ASSUME NEW s \in Seq(Message), NEW u \in Seq(Message), NEW t, NEW k,
         AddsChunk(s, u, t, k), k # 0, Headed(s, TRUE), NEW open
  PROVE  Headed(u, open)
<1>1. Len(s) \in Nat /\ Len(u) \in Nat
  OBVIOUS
<1> SUFFICES ASSUME NEW i \in 1..Len(u), u[i].type = "file-chunk"
             PROVE  /\ u[i].idx # 0 /\ i # Len(u)
                    /\ u[i + 1] = Binary(u[i].tid, u[i].idx)
  BY DEF Headed
<1>2. CASE i \in 1..Len(s) /\ u[i] = s[i]
  <2>1. /\ s[i].idx # 0 /\ i # Len(s)
        /\ s[i + 1] = Binary(s[i].tid, s[i].idx)
    BY <1>2 DEF Headed
  <2>2. i + 1 \in 1..Len(s) /\ i # Len(u)
    BY <1>1, <1>2, <2>1 DEF AddsChunk
  <2>3. u[i + 1] = s[i + 1]
    BY <2>2 DEF AddsChunk
  <2> QED
    BY <1>2, <2>1, <2>2, <2>3
<1>3. CASE i = Len(s) + 1 /\ u[i].tid = t /\ u[i].idx = k
  <2>1. i + 1 = Len(s) + 2 /\ i # Len(u)
    BY <1>1, <1>3 DEF AddsChunk
  <2> QED
    BY <1>3, <2>1 DEF AddsChunk
<1> QED
  BY <1>2, <1>3, AddsChunkAt

LEMMA EndIsLastAdds ==
  ASSUME NEW s \in Seq(Message), NEW u \in Seq(Message), NEW t, NEW k,
         AddsChunk(s, u, t, k), EndIsLast(s),
         \A i \in 1..Len(s) : s[i].type = "file-end" => s[i].tid # t
  PROVE  EndIsLast(u)
<1>1. Len(s) \in Nat /\ Len(u) \in Nat
  OBVIOUS
<1> SUFFICES ASSUME NEW i \in 1..Len(u), NEW j \in 1..Len(u), i < j,
                    u[i].type = "file-end", OfLoop(u[j])
             PROVE  u[j].tid # u[i].tid
  BY DEF EndIsLast
<1>2. i \in 1..Len(s) /\ u[i] = s[i]
  <2>1. i # Len(s) + 3 \/ Len(u) # Len(s) + 3
    BY <1>1
  <2> QED
    BY <2>1, AddsChunkAt
<1>3. (j \in 1..Len(s) /\ u[j] = s[j]) \/ u[j].tid = t
  BY AddsChunkAt
<1> QED
  BY <1>2, <1>3 DEF EndIsLast

\* What does not concern t in u was in s.
LEMMA OthersAt ==
  ASSUME NEW s \in Seq(Message), NEW u \in Seq(Message), NEW t, NEW k,
         AddsChunk(s, u, t, k), NEW i \in 1..Len(u), OfLoop(u[i]), u[i].tid # t
  PROVE  /\ i \in 1..Len(s) /\ u[i] = s[i]
         /\ \A j \in 1..i - 1 : j \in 1..Len(s) /\ u[j] = s[j]
<1>1. Len(s) \in Nat /\ Len(u) \in Nat
  OBVIOUS
<1>2. i \in 1..Len(s) /\ u[i] = s[i]
  BY AddsChunkAt
<1>3. \A j \in 1..i - 1 : j \in 1..Len(s)
  BY <1>1, <1>2
<1> QED
  BY <1>2, <1>3 DEF AddsChunk

LEMMA NothingOthers ==
  ASSUME NEW s \in Seq(Message), NEW u \in Seq(Message), NEW t, NEW k,
         AddsChunk(s, u, t, k), NEW v, v # t, NothingOf(s, v)
  PROVE  NothingOf(u, v)
BY OthersAt DEF NothingOf

LEMMA FollowOthers ==
  ASSUME NEW s \in Seq(Message), NEW u \in Seq(Message), NEW t, NEW k,
         AddsChunk(s, u, t, k), NEW v, v # t, NEW n, Follow(s, v, n)
  PROVE  Follow(u, v, n)
<1>1. ASSUME NEW i \in 1..Len(u), IsChunk(u[i], v)
      PROVE  /\ u[i].idx \in n + 1 .. Chunks(v)
             /\ \/ u[i].idx = n + 1
                \/ \E j \in 1..i - 1 : u[j] = Binary(v, u[i].idx - 1)
             /\ \A j \in 1..i - 1 : IsChunk(u[j], v) => u[j].idx < u[i].idx
  <2>1. /\ i \in 1..Len(s) /\ u[i] = s[i]
        /\ \A j \in 1..i - 1 : j \in 1..Len(s) /\ u[j] = s[j]
    BY <1>1, OthersAt DEF IsChunk, OfLoop
  <2> QED
    BY <1>1, <2>1 DEF Follow
<1>2. ASSUME NEW i \in 1..Len(u), u[i].type = "file-end", u[i].tid = v
      PROVE  n = Chunks(v) \/ \E j \in 1..i - 1 : u[j] = Binary(v, Chunks(v))
  <2>1. /\ i \in 1..Len(s) /\ u[i] = s[i]
        /\ \A j \in 1..i - 1 : j \in 1..Len(s) /\ u[j] = s[j]
    BY <1>2, OthersAt DEF OfLoop
  <2> QED
    BY <1>2, <2>1 DEF Follow
<1> QED
  BY <1>1, <1>2 DEF Follow

LEMMA BeforeOthers ==
  ASSUME NEW s \in Seq(Message), NEW u \in Seq(Message), NEW t, NEW k,
         AddsChunk(s, u, t, k), NEW v, v # t, NEW n, NEW l, Before(s, v, n, l)
  PROVE  Before(u, v, n, l)
<1>1. Len(s) \in Nat /\ Len(u) \in Nat
  OBVIOUS
<1>2. \A i \in 1..Len(u) : IsChunk(u[i], v) => u[i].idx < l
  BY OthersAt DEF Before, IsChunk, OfLoop
<1>3. \A j \in 1..Len(s) : j \in 1..Len(u) /\ u[j] = s[j]
  BY <1>1 DEF AddsChunk
<1> QED
  BY <1>2, <1>3 DEF Before

LEMMA FollowAdds ==
  ASSUME NEW s \in Seq(Message), NEW u \in Seq(Message), NEW t,
         NEW k \in Nat, AddsChunk(s, u, t, k), NEW n \in Nat,
         Chunks(t) \in Nat, k <= Chunks(t),
         Len(u) = Len(s) + 3 => k = Chunks(t),
         Follow(s, t, n), Before(s, t, n, k)
  PROVE  Follow(u, t, n) /\ Before(u, t, n, k + 1)
<1>1. Len(s) \in Nat /\ Len(u) \in Nat
  OBVIOUS
<1>2. k >= n + 1
  <2>1. CASE k = n + 1
    BY <2>1
  <2>2. CASE k # n + 1
    <3>1. PICK j \in 1..Len(s) : s[j] = Binary(t, k - 1)
      BY <2>2 DEF Before
    <3>2. IsChunk(s[j], t) /\ s[j].idx = k - 1
      BY <3>1 DEF IsChunk, Binary
    <3>3. k - 1 \in n + 1 .. Chunks(t)
      BY <3>2 DEF Follow
    <3> QED
      BY <3>3
  <2> QED
    BY <2>1, <2>2
<1>3. \A j \in 1..Len(s) : j \in 1..Len(u) /\ u[j] = s[j]
  BY <1>1 DEF AddsChunk
<1>4. ASSUME NEW i \in 1..Len(u), IsChunk(u[i], t)
      PROVE  /\ u[i].idx \in n + 1 .. Chunks(t)
             /\ u[i].idx = n + 1 \/ \E j \in 1..i - 1 : u[j] = Binary(t, u[i].idx - 1)
             /\ \A j \in 1..i - 1 : IsChunk(u[j], t) => u[j].idx < u[i].idx
             /\ u[i].idx < k + 1
  <2>1. CASE i \in 1..Len(s) /\ u[i] = s[i]
    <3>1. \A j \in 1..i - 1 : j \in 1..Len(s)
      BY <1>1, <2>1
    <3>2. /\ s[i].idx \in n + 1 .. Chunks(t) /\ s[i].idx < k
          /\ s[i].idx = n + 1 \/ \E j \in 1..i - 1 : s[j] = Binary(t, s[i].idx - 1)
          /\ \A j \in 1..i - 1 : IsChunk(s[j], t) => s[j].idx < s[i].idx
      BY <1>4, <2>1 DEF Follow, Before
    <3>3. s[i].idx < k + 1
      BY <3>2
    <3> QED
      BY <1>3, <2>1, <3>1, <3>2, <3>3
  <2>2. CASE i = Len(s) + 2 /\ u[i].idx = k
    <3>1. \A j \in 1..i - 1 : j \in 1..Len(s) \/ j = Len(s) + 1
      BY <1>1, <2>2
    <3>2. ASSUME NEW j \in 1..i - 1, IsChunk(u[j], t) PROVE u[j].idx < k
      <4>1. j # Len(s) + 1
        BY <3>2 DEF IsChunk, AddsChunk, ChunkHeader
      <4> QED
        BY <1>3, <3>1, <3>2, <4>1 DEF Before
    <3>3. k = n + 1 \/ \E j \in 1..i - 1 : u[j] = Binary(t, k - 1)
      <4>1. \A j \in 1..Len(s) : j \in 1..i - 1
        BY <1>1, <2>2
      <4> QED
        BY <1>3, <4>1 DEF Before
    <3> QED
      BY <1>2, <2>2, <3>2, <3>3
  <2> QED
    BY <1>4, <2>1, <2>2, AddsChunkAt DEF IsChunk
<1>5. ASSUME NEW i \in 1..Len(u), u[i].type = "file-end", u[i].tid = t
      PROVE  n = Chunks(t) \/ \E j \in 1..i - 1 : u[j] = Binary(t, Chunks(t))
  <2>1. CASE i \in 1..Len(s) /\ u[i] = s[i]
    <3>1. \A j \in 1..i - 1 : j \in 1..Len(s)
      BY <1>1, <2>1
    <3> QED
      BY <1>3, <1>5, <2>1, <3>1 DEF Follow
  <2>2. CASE i = Len(s) + 3 /\ Len(u) = Len(s) + 3
    <3>1. Len(s) + 2 \in 1..i - 1
      BY <1>1, <2>2
    <3> QED
      BY <2>2, <3>1 DEF AddsChunk
  <2> QED
    BY <1>5, <2>1, <2>2, AddsChunkAt
<1>6. Len(s) + 2 \in 1..Len(u) /\ u[Len(s) + 2] = Binary(t, (k + 1) - 1)
  <2>1. (k + 1) - 1 = k
    OBVIOUS
  <2> QED
    BY <1>1, <2>1 DEF AddsChunk
<1>7. Follow(u, t, n)
  BY <1>4, <1>5 DEF Follow
<1>8. Before(u, t, n, k + 1)
  BY <1>4, <1>6 DEF Before
<1> QED
  BY <1>7, <1>8

\* What the loop of t sends with its chunk k.
Carries(ms, t, k) ==
  \/ ms = <<ChunkHeader(t, k), Binary(t, k)>> /\ k # Chunks(t)
  \/ ms = LastMessages(t, k) /\ k = Chunks(t)

\* u is s followed by what the loop of t sends with its chunk k.
Carried(s, u, t, k) == \E ms : Carries(ms, t, k) /\ u = s \o ms

LEMMA AddsChunkIs ==
  ASSUME NEW s \in Seq(Message), NEW t \in Tid, NEW k \in Nat,
         NEW u, Carried(s, u, t, k)
  PROVE  /\ u \in Seq(Message) /\ AddsChunk(s, u, t, k)
         /\ Len(u) = Len(s) + 3 => k = Chunks(t)
         /\ Metas(u) \subseteq Metas(s) /\ Readies(u) \subseteq Readies(s)
<1> DEFINE a == ChunkHeader(t, k)
           b == Binary(t, k)
           c == Msg("file-end", t)
           Added == /\ u \in Seq(Message) /\ AddsChunk(s, u, t, k)
                    /\ Len(u) = Len(s) + 3 => k = Chunks(t)
<1>1. a \in Message /\ b \in Message /\ c \in Message
  BY DEF ChunkHeader, Binary, Msg, Message, MessageType, TidOrNone
<1>2. \/ u = s \o <<a, b>>
      \/ u = s \o <<a, b, c>> /\ k = Chunks(t)
  BY DEF LastMessages, Carries, Carried
<1>3. Len(s) \in Nat
  OBVIOUS
<1>a. a = ChunkHeader(t, k) /\ b = Binary(t, k) /\ c = Msg("file-end", t)
  OBVIOUS
<1> HIDE DEF a, b, c
<1>4. ASSUME u = s \o <<a, b>> PROVE Added
  <2>1. /\ u \in Seq(Message) /\ Len(u) = Len(s) + 2
        /\ \A i \in 1..Len(s) : u[i] = s[i]
        /\ u[Len(s) + 1] = a /\ u[Len(s) + 2] = b
    BY <1>1, <1>4
  <2>2. Len(u) # Len(s) + 3
    BY <1>3, <2>1
  <2>3. AddsChunk(s, u, t, k)
    BY <1>a, <2>1, <2>2 DEF AddsChunk
  <2> QED
    BY <2>1, <2>2, <2>3
<1>5. ASSUME u = s \o <<a, b, c>>, k = Chunks(t) PROVE Added
  <2>1. /\ u \in Seq(Message) /\ Len(u) = Len(s) + 3
        /\ \A i \in 1..Len(s) : u[i] = s[i]
        /\ u[Len(s) + 1] = a /\ u[Len(s) + 2] = b /\ u[Len(s) + 3] = c
    BY <1>1, <1>5
  <2>2. AddsChunk(s, u, t, k)
    BY <1>a, <2>1 DEF AddsChunk
  <2> QED
    BY <1>5, <2>1, <2>2
<1>6. Added
  BY <1>2, <1>4, <1>5
<1>7. ASSUME NEW i \in 1..Len(u), ~OfLoop(u[i])
      PROVE  i \in 1..Len(s) /\ u[i] = s[i]
  BY <1>6, <1>7, AddsChunkAt DEF OfLoop
<1>8. ASSUME NEW v \in Metas(u) PROVE v \in Metas(s)
  <2>1. PICK i \in 1..Len(u) : u[i].type = "file-meta" /\ u[i].tid = v
    BY <1>8 DEF Metas
  <2>2. i \in 1..Len(s) /\ u[i] = s[i]
    BY <1>7, <2>1 DEF OfLoop
  <2> QED
    BY <2>1, <2>2 DEF Metas
<1>9. ASSUME NEW v \in Readies(u) PROVE v \in Readies(s)
  <2>1. PICK i \in 1..Len(u) : u[i].type = "ready" /\ u[i].tid = v
    BY <1>9 DEF Readies
  <2>2. i \in 1..Len(s) /\ u[i] = s[i]
    BY <1>7, <2>1 DEF OfLoop
  <2> QED
    BY <2>1, <2>2 DEF Readies
<1> QED
  BY <1>6, <1>8, <1>9

\* The loop of t sends its next chunk; the other browser gets it, unless its
\* end is closed.
LEMMA ReceiverPlaces ==
  ASSUME Inv, ChunksHaveOnePlace, NEW t \in Tid, NEW p \in Peer, owner[t] = p,
         NEW q, q = Other(p), loop[t].pc = "seal",
         NEW k, k = loop[t].next, NEW ms, chan' = Sent(chan, p, ms),
         Carries(ms, t, k),
         IF k = Chunks(t) THEN loop'[t].pc = "off" ELSE loop'[t].next = k + 1,
         loop'[t].obj = loop[t].obj,
         \A v \in Tid : v # t => loop'[v] = loop[v],
         UNCHANGED <<chain, picker, disk, owner, dc>>,
         xfer'[q] = xfer[q], low'[q] = low[q]
  PROVE  /\ chan'[p] = chan[p]
         /\ Metas(chan'[q]) \subseteq Metas(chan[q])
         /\ Readies(chan'[q]) \subseteq Readies(chan[q])
         /\ PeerPlace(q)'
<1> SUFFICES ASSUME NEW s, s = chan[q], NEW u, u = chan'[q]
             PROVE  /\ chan'[p] = chan[p]
                    /\ Metas(u) \subseteq Metas(s)
                    /\ Readies(u) \subseteq Readies(s)
                    /\ PeerPlace(q)'
  OBVIOUS
<1>1. TypeOK /\ PeerPlace(q) /\ q \in Peer /\ p # q /\ Other(q) = p
  BY OtherOther DEF Inv, ChunksHaveOnePlace, PeerPlace
<1>2. /\ s \in Seq(Message) /\ Len(s) \in Nat
      /\ k \in Nat /\ Chunks(t) \in Nat /\ k \in 1..Chunks(t) /\ k # 0
      /\ MaySend(t) /\ Started(t) /\ Incoming(q, t)
  <2>1. LoopCounts(t)
    BY DEF ChunksHaveOnePlace
  <2> QED
    BY <1>1, <2>1, ChunksType
    DEF LoopCounts, TypeOK, Loop, MaySend, Incoming
<1>3. chan'[p] = chan[p] /\ u = IF IsOpen(q) THEN s \o ms ELSE s
  BY <1>1 DEF Sent, TypeOK
<1>4. ASSUME IsOpen(q)
      PROVE  /\ u \in Seq(Message) /\ AddsChunk(s, u, t, k)
             /\ Len(u) = Len(s) + 3 => k = Chunks(t)
             /\ Metas(u) \subseteq Metas(s) /\ Readies(u) \subseteq Readies(s)
  <2>1. Carried(s, u, t, k)
    BY <1>3, <1>4 DEF Carried
  <2> QED
    BY <1>2, <2>1, AddsChunkIs
<1>5. Metas(u) \subseteq Metas(s) /\ Readies(u) \subseteq Readies(s)
  BY <1>3, <1>4
<1>6. \A v \in Tid : Started(v)' <=> Started(v)
  BY DEF Started
<1>7. \A v \in Tid : v # t => (MaySend(v)' <=> MaySend(v))
  BY <1>6 DEF MaySend
<1>8. OwnersStay /\ FilesStay(q)
  BY <1>1, SameData DEF OwnersStay
<1>9. \A v : Incoming(q, v)' <=> Incoming(q, v)
  BY DEF Incoming
<1>10. DrainStays(q)
  <2> SUFFICES ASSUME NEW v \in Tid, Drained(q, v) PROVE Drained(q, v)'
    BY DEF DrainStays
  <2>1. v # t /\ NothingOf(s, v) /\ ~MaySend(v)'
    BY <1>2, <1>7 DEF Drained
  <2>2. NothingOf(u, v)
    <3>1. CASE IsOpen(q)
      <4>1. u \in Seq(Message) /\ AddsChunk(s, u, t, k)
        BY <1>4, <3>1
      <4> QED
        BY <1>2, <2>1, <4>1, NothingOthers
    <3>2. CASE ~IsOpen(q)
      BY <1>3, <2>1, <3>2
    <3> QED
      BY <3>1, <3>2
  <2> QED
    BY <2>1, <2>2 DEF Drained
<1>11. OrderStays(q)
  <2> SUFFICES ASSUME NEW v \in Tid, Incoming(q, v), NEW n, InOrder(q, v, n)
               PROVE  InOrder(q, v, n)'
    BY DEF OrderStays
  <2>1. /\ n \in 0..Chunks(v) /\ n \in Nat /\ Follow(s, v, n)
        /\ IsOpen(q) /\ MaySend(v) => Before(s, v, n, loop[v].next)
    BY ChunksType DEF InOrder
  <2>2. ASSUME ~IsOpen(q) PROVE InOrder(q, v, n)'
    <3>1. u = s
      BY <1>3, <2>2
    <3> QED
      BY <2>1, <2>2, <3>1 DEF InOrder, IsOpen
  <2>3. ASSUME IsOpen(q)
        PROVE  Follow(u, v, n) /\ (MaySend(v)' => Before(u, v, n, loop'[v].next))
    <3>1. /\ u \in Seq(Message) /\ AddsChunk(s, u, t, k)
          /\ Len(u) = Len(s) + 3 => k = Chunks(t)
      BY <1>4, <2>3
    <3>2. ASSUME v # t
          PROVE  /\ Follow(u, v, n)
                 /\ MaySend(v)' => Before(u, v, n, loop'[v].next)
      <4>1. Follow(u, v, n)
        BY <1>2, <2>1, <3>1, <3>2, FollowOthers
      <4>2. MaySend(v)' => Before(s, v, n, loop'[v].next)
        BY <1>7, <2>1, <2>3, <3>2
      <4> QED
        BY <1>2, <3>1, <3>2, <4>1, <4>2, BeforeOthers
    <3>3. ASSUME v = t
          PROVE  /\ Follow(u, t, n)
                 /\ MaySend(t)' => Before(u, t, n, loop'[t].next)
      <4>1. Before(s, t, n, k) /\ Follow(s, t, n) /\ k <= Chunks(t)
        BY <1>2, <2>1, <2>3, <3>3
      <4>2. Follow(u, t, n) /\ Before(u, t, n, k + 1)
        BY <1>2, <2>1, <3>1, <4>1, FollowAdds
      <4>3. MaySend(t)' => loop'[t].next = k + 1
        BY <1>2, <1>6 DEF MaySend
      <4> QED
        BY <4>2, <4>3
    <3> QED
      BY <3>2, <3>3
  <2> QED
    BY <2>1, <2>2, <2>3 DEF InOrder
<1>12. LoopMessages(q)'
  <2>1. /\ Headed(s, IsOpen(q)) /\ EndIsLast(s)
        /\ \A i \in 1..Len(s) : OfLoop(s[i]) =>
             /\ Incoming(q, s[i].tid) /\ Started(s[i].tid)
             /\ s[i].type = "file-end" => loop[s[i].tid].pc = "off"
    BY <1>1 DEF PeerPlace, LoopMessages
  <2>2. \A i \in 1..Len(s) : s[i].type = "file-end" => s[i].tid # t
    BY <2>1 DEF OfLoop
  <2>3. ASSUME NEW i \in 1..Len(s), OfLoop(s[i])
        PROVE  /\ s[i].tid \in Tid /\ owner'[s[i].tid] = p
               /\ loop'[s[i].tid].obj # "none"
               /\ s[i].type = "file-end" => loop'[s[i].tid].pc = "off"
    BY <1>1, <1>6, <2>1, <2>2, <2>3 DEF Incoming, Started
  <2>4. Headed(u, IsOpen(q)') /\ EndIsLast(u)
    <3>1. CASE ~IsOpen(q)
      <4>1. u = s /\ IsOpen(q) = FALSE /\ IsOpen(q)' = FALSE
        BY <1>3, <3>1 DEF IsOpen
      <4>2. Headed(u, FALSE)
        BY <2>1, <4>1
      <4> QED
        BY <2>1, <4>1, <4>2
    <3>2. CASE IsOpen(q)
      <4>1. Headed(s, TRUE)
        BY <2>1, <3>2 DEF Headed
      <4>2. u \in Seq(Message) /\ AddsChunk(s, u, t, k)
        BY <1>4, <3>2
      <4>3. \A open : Headed(u, open)
        BY <1>2, <4>1, <4>2, HeadedAdds
      <4>4. EndIsLast(u)
        BY <1>2, <2>1, <2>2, <4>2, EndIsLastAdds
      <4> QED
        BY <4>3, <4>4
    <3> QED
      BY <3>1, <3>2
  <2>5. ASSUME NEW i \in 1..Len(u), OfLoop(u[i])
        PROVE  /\ u[i].tid \in Tid /\ owner'[u[i].tid] = p
               /\ loop'[u[i].tid].obj # "none"
               /\ u[i].type = "file-end" => loop'[u[i].tid].pc = "off"
    <3>1. CASE i \in 1..Len(s) /\ u[i] = s[i]
      BY <2>3, <2>5, <3>1
    <3>2. CASE u[i].tid = t /\ (u[i].type = "file-end" => k = Chunks(t))
      BY <1>2, <1>6, <3>2 DEF Started
    <3>3. CASE IsOpen(q)
      <4>1. /\ u \in Seq(Message) /\ AddsChunk(s, u, t, k)
            /\ Len(u) = Len(s) + 3 => k = Chunks(t)
        BY <1>4, <3>3
      <4>2. \/ i \in 1..Len(s) /\ u[i] = s[i]
            \/ u[i].tid = t /\ (u[i].type = "file-end" => k = Chunks(t))
        BY <1>2, <4>1, AddsChunkAt, SMTT(30)
      <4> QED
        BY <3>1, <3>2, <4>2
    <3> QED
      BY <1>3, <3>1, <3>3
  <2> QED
    BY <1>1, <2>4, <2>5 DEF LoopMessages, Incoming, Started
<1>13. StartedOnce(q)'
  <2>1. Unanswered(q)
    BY <1>1, <1>3, <1>5, <1>6 DEF Unanswered
  <2> QED
    BY <1>1, <1>8, <2>1, StartedOnceKept
    DEF PeerPlace, Inv, FilesHaveOnePlace
<1>14. LowWaits(q)'
  <2>1. low[q] # NoTid => low[q] \in Tid /\ owner[low[q]] = q
    BY <1>1 DEF Inv, TypeOK, FilesHaveOnePlace, OwnLoops, TidOrNone
  <2> QED
    BY <1>1, <2>1 DEF LowWaits, PeerPlace, ObjectStates
<1>15. HeaderThenChunk(q)'
  <2>1. IsOpen(q) /\ s # <<>> => u # <<>> /\ Head(u) = Head(s)
    <3> SUFFICES ASSUME IsOpen(q), s # <<>> PROVE u # <<>> /\ Head(u) = Head(s)
      OBVIOUS
    <3>0. u \in Seq(Message) /\ AddsChunk(s, u, t, k)
      BY <1>4
    <3>1. 1 \in 1..Len(s) /\ Head(s) = s[1]
      BY <1>2
    <3>2. u[1] = s[1] /\ Len(u) \in {Len(s) + 2, Len(s) + 3}
      BY <3>0, <3>1 DEF AddsChunk
    <3>3. u # <<>>
      BY <1>2, <3>1, <3>2
    <3>4. Head(u) = u[1]
      BY <3>0, <3>3
    <3> QED
      BY <3>1, <3>2, <3>3, <3>4
  <2>2. ~IsOpen(q) => u = s
    BY <1>3
  <2> QED
    BY <1>1, <2>1, <2>2 DEF HeaderThenChunk, PeerPlace, IsOpen
<1>16. SameObject(q)
  BY DEF SameObject
<1>17. PeerPlace(q)'
  BY <1>1, <1>6, <1>8, <1>10, <1>11, <1>12, <1>13, <1>14, <1>15, <1>16, PeerStays
  DEF Incoming
<1> QED
  BY <1>3, <1>5, <1>17

\* What the browser of the loop keeps: its transfer stays, or is completed.
LEMMA SenderPlaces ==
  ASSUME Inv, ChunksHaveOnePlace, NEW t \in Tid, NEW p \in Peer, owner[t] = p,
         NEW q, q = Other(p), loop[t].pc = "seal", IsOpen(p),
         chan'[p] = chan[p], Readies(chan'[q]) \subseteq Readies(chan[q]),
         loop'[t].obj = loop[t].obj,
         \A v \in Tid : v # t => loop'[v] = loop[v],
         UNCHANGED <<chain, picker, disk, owner, dc>>,
         low'[p] = low[p] \/ (low'[p] = t /\ loop'[t].pc = "wait"),
         \/ xfer'[p] = xfer[p]
         \/ /\ loop[t].obj = "live"
            /\ xfer'[p].state = "idle" /\ xfer'[p].tid = xfer[p].tid
            /\ xfer'[p].stream = xfer[p].stream
            /\ xfer'[p].expected = xfer[p].expected
  PROVE  PeerPlace(p)'
<1>1. TypeOK /\ PeerPlace(p) /\ q \in Peer /\ p # q /\ Other(q) = p
  BY OtherOther DEF Inv, ChunksHaveOnePlace, PeerPlace
<1>2. \A v \in Tid : Started(v)' <=> Started(v)
  BY DEF Started
<1>3. OwnersStay /\ FilesStay(p)
  BY SameData DEF OwnersStay
<1>4. Moved(p, 0)
  BY <1>1, ShiftedSame DEF Moved, IsOpen, TypeOK
<1>5. LoopsGo(p)
  <2>1. \A v \in Tid : Incoming(p, v) => loop'[v] = loop[v]
    BY <1>1 DEF Incoming
  <2> QED
    BY <2>1 DEF LoopsGo, MaySend, Started, Incoming
<1>6. Unanswered(p)
  BY <1>1, <1>2 DEF Unanswered
<1>7. LoopMessages(p)'
  BY <1>1, <1>3, <1>4, <1>5, LoopMessagesMoved DEF PeerPlace
<1>8. LowWaits(p)'
  <2>1. low[p] # NoTid => low[p] \in Tid /\ loop[low[p]].pc = "wait"
    BY <1>1 DEF TypeOK, TidOrNone, PeerPlace, ObjectStates, LowWaits
  <2>2. low[p] # NoTid => loop'[low[p]] = loop[low[p]]
    BY <2>1
  <2> QED
    BY <2>1, <2>2 DEF LowWaits
<1>9. ASSUME xfer'[p] = xfer[p] PROVE PeerPlace(p)'
  <2>1. SameObject(p)
    BY <1>9 DEF SameObject
  <2>2. HeaderThenChunk(p)' /\ StartedOnce(p)'
    BY <1>1, <1>3, <1>4, <1>6, <1>9, <2>1, HeaderThenChunkKept, StartedOnceKept
    DEF PeerPlace, Inv, FilesHaveOnePlace
  <2>3. DrainStays(p) /\ OrderStays(p)
    BY <1>1, <1>4, <1>5, MovedDrains, MovedOrders
  <2> QED
    BY <1>1, <1>2, <1>3, <1>7, <1>8, <2>1, <2>2, <2>3, PeerStays DEF Incoming
<1>10. ASSUME loop[t].obj = "live",
              xfer'[p].state = "idle", xfer'[p].tid = xfer[p].tid,
              xfer'[p].stream = xfer[p].stream,
              xfer'[p].expected = xfer[p].expected
       PROVE  PeerPlace(p)'
  <2>1. /\ xfer[p].tid = t /\ xfer[p].state = "transferring"
        /\ xfer[p].stream = NoTid
    BY <1>10, LiveTransfers
  <2>2. ~Incoming(p, t) /\ ~Incoming(p, t)'
    BY <1>1 DEF Incoming
  <2>3. chain[p].pc = "free" /\ picker[p] = NoTid
    BY <1>1, <2>1 DEF PeerPlace, ObjectStates, HandlerState, Vacant, DialogState
  <2>4. xfer[p].expected = 0
    <3>1. chan[p] # <<>> => xfer[p].expected = 0
      BY <2>1, <2>2, <2>3, ExpectedComes
    <3> QED
      BY <1>1, <2>3, <3>1 DEF PeerPlace, HeaderThenChunk
  <2>5. StartedOnce(p)'
    BY <1>1, <1>3, <1>6, <1>10, StartedOnceKept
    DEF PeerPlace, Inv, FilesHaveOnePlace
  <2>6. DialogState(p)' /\ HandlerState(p)' /\ HeaderThenChunk(p)'
    BY <1>10, <2>3, <2>4 DEF DialogState, HandlerState, HeaderThenChunk
  <2>7. TransferState(p)'
    BY <1>10, <2>1, <2>2 DEF TransferState, Incoming
  <2>8. PlaceOfTransfer(p)' /\ PlaceOfChunk(p)' /\ ClosesWhole(p)'
    BY <1>10, <2>1, <2>3 DEF PlaceOfTransfer, PlaceOfChunk, ClosesWhole
  <2> QED
    BY <1>7, <1>8, <2>5, <2>6, <2>7, <2>8 DEF PeerPlace, ObjectStates
<1> QED
  BY <1>9, <1>10

\* The loops count on.
LEMMA LoopsCount ==
  ASSUME Inv, ChunksHaveOnePlace, NEW t \in Tid, NEW p \in Peer, owner[t] = p,
         loop[t].pc = "seal", NEW k, k = loop[t].next,
         IF k = Chunks(t) THEN loop'[t].pc = "off" ELSE loop'[t].next = k + 1,
         loop'[t].obj = loop[t].obj,
         \A v \in Tid : v # t => loop'[v] = loop[v],
         UNCHANGED <<disk, owner>>,
         \A r \in Peer : r # p => xfer'[r] = xfer[r],
         \/ xfer'[p] = xfer[p]
         \/ loop[t].obj = "live" /\ k = Chunks(t),
         NEW v \in Tid
  PROVE  LoopCounts(v)' /\ EmptyBefore(v)'
<1>1. LoopCounts(v) /\ EmptyBefore(v) /\ TypeOK
  BY DEF ChunksHaveOnePlace, EmptyBefore, Inv
<1>2. EmptyBefore(v)'
  BY <1>1 DEF EmptyBefore
<1>3. Started(v)' <=> Started(v)
  BY DEF Started
<1>4. \A g \in Tid : Holds(g, v)' <=> Holds(g, v)
  BY DEF Holds
<1>5. CASE v # t
  <2>1. ASSUME loop[v].pc # "off", loop[v].obj = "live"
        PROVE  xfer'[owner[v]].tid = v /\ xfer'[owner[v]].state = "transferring"
    <3>1. /\ owner[v] \in Peer
          /\ xfer[owner[v]].tid = v /\ xfer[owner[v]].state = "transferring"
      BY <1>1, <2>1 DEF LoopCounts, Inv, FilesHaveOnePlace, OwnLoops
    <3>2. xfer'[owner[v]] = xfer[owner[v]]
      <4>1. CASE owner[v] # p
        BY <3>1, <4>1
      <4>2. CASE owner[v] = p
        <5>1. loop[t].obj = "live" => xfer[p].tid = t
          BY LiveTransfers
        <5> QED
          BY <1>5, <3>1, <4>2, <5>1
      <4> QED
        BY <4>1, <4>2
    <3> QED
      BY <3>1, <3>2
  <2> QED
    BY <1>1, <1>2, <1>3, <1>4, <1>5, <2>1 DEF LoopCounts
<1>6. CASE v = t
  <2>1. /\ k \in 1..Chunks(t) /\ Chunks(t) \in Nat /\ k \in Nat
        /\ Started(t) /\ owner[t] # NoPeer
        /\ loop[t].obj = "live" =>
             xfer[p].tid = t /\ xfer[p].state = "transferring"
    BY <1>1, <1>6, NoPeerAssumption, ChunksType DEF LoopCounts, TypeOK, Loop
  <2>2. k # Chunks(t) => k + 1 \in 1..Chunks(t)
    BY <2>1
  <2> QED
    BY <1>2, <1>3, <1>6, <2>1, <2>2 DEF LoopCounts
<1> QED
  BY <1>5, <1>6

LEMMA SendChunkPlaces ==
  ASSUME Inv, ChunksHaveOnePlace, NEW t \in Tid, SendChunk(t)
  PROVE  ChunksHaveOnePlace'
<1> SUFFICES ASSUME NEW p, p = owner[t], NEW q, q = Other(p),
                    NEW k, k = loop[t].next,
                    NEW ms, ms = <<ChunkHeader(t, k), Binary(t, k)>>
             PROVE  ChunksHaveOnePlace'
  OBVIOUS
<1>1. /\ loop[t].pc = "seal" /\ IsOpen(p) /\ k # Chunks(t)
      /\ chan' = Sent(chan, p, ms)
      /\ UNCHANGED <<xfer, chain, picker, disk, owner, dc>>
  BY DEF SendChunk, IsLast
<1>2. p \in Peer /\ q \in Peer /\ p # q /\ TypeOK /\ \A r \in Peer : r = p \/ r = q
  BY <1>1, OtherOther, PeerAssumption DEF Inv, FilesHaveOnePlace, OwnLoops
<1>3. Carries(ms, t, k)
  BY <1>1 DEF Carries
<1>4. /\ loop'[t].next = k + 1 /\ loop'[t].obj = loop[t].obj
      /\ \A v \in Tid : v # t => loop'[v] = loop[v]
      /\ \/ low'[p] = t /\ loop'[t].pc = "wait"
         \/ low'[p] = low[p]
      /\ low'[q] = low[q]
  <2>1. PICK pc : /\ loop' = [loop EXCEPT ![t].pc = pc, ![t].next = k + 1]
                  /\ \/ pc = "wait" /\ low' = [low EXCEPT ![p] = t]
                     \/ low' = low
    BY DEF SendChunk
  <2> DEFINE l == [loop[t] EXCEPT !.pc = pc, !.next = k + 1]
  <2>2. loop' = [loop EXCEPT ![t] = l]
    BY <1>2, <2>1 DEF TypeOK
  <2>3. l.pc = pc /\ l.next = k + 1 /\ l.obj = loop[t].obj
    BY <1>2 DEF TypeOK, Loop
  <2> HIDE DEF l
  <2>4. loop'[t] = l /\ \A v \in Tid : v # t => loop'[v] = loop[v]
    BY <1>2, <2>2 DEF TypeOK
  <2> QED
    BY <1>2, <2>1, <2>3, <2>4 DEF TypeOK
<1>5. /\ chan'[p] = chan[p] /\ Readies(chan'[q]) \subseteq Readies(chan[q])
      /\ PeerPlace(q)'
  BY <1>1, <1>2, <1>3, <1>4, ReceiverPlaces
<1>6. PeerPlace(p)'
  BY <1>1, <1>2, <1>4, <1>5, SenderPlaces
<1>7. \A v \in Tid : LoopCounts(v)' /\ EmptyBefore(v)'
  BY <1>1, <1>2, <1>4, LoopsCount
<1> QED
  BY <1>2, <1>5, <1>6, <1>7 DEF ChunksHaveOnePlace, PeerPlace, EmptyBefore

LEMMA SendLastChunkPlaces ==
  ASSUME Inv, ChunksHaveOnePlace, NEW t \in Tid, SendLastChunk(t)
  PROVE  ChunksHaveOnePlace'
<1> SUFFICES ASSUME NEW p, p = owner[t], NEW q, q = Other(p),
                    NEW k, k = loop[t].next, NEW ms, ms = LastMessages(t, k)
             PROVE  ChunksHaveOnePlace'
  OBVIOUS
<1>1. /\ loop[t].pc = "seal" /\ IsOpen(p) /\ k = Chunks(t)
      /\ chan' = Sent(chan, p, ms)
      /\ UNCHANGED <<chain, picker, disk, owner, low, dc>>
  BY DEF SendLastChunk, IsLast
<1>2. p \in Peer /\ q \in Peer /\ p # q /\ TypeOK /\ \A r \in Peer : r = p \/ r = q
  BY <1>1, OtherOther, PeerAssumption DEF Inv, FilesHaveOnePlace, OwnLoops
<1>3. Carries(ms, t, k)
  BY <1>1 DEF Carries
<1>4. /\ loop'[t].pc = "off" /\ loop'[t].obj = loop[t].obj
      /\ \A v \in Tid : v # t => loop'[v] = loop[v]
  <2> DEFINE l == [loop[t] EXCEPT !.pc = "off"]
  <2>1. loop' = [loop EXCEPT ![t] = l]
    BY <1>2 DEF TypeOK, SendLastChunk
  <2>2. l.pc = "off" /\ l.obj = loop[t].obj
    BY <1>2 DEF TypeOK, Loop
  <2> HIDE DEF l
  <2> QED
    BY <1>2, <2>1, <2>2 DEF TypeOK
<1>5. /\ xfer'[q] = xfer[q]
      /\ \/ xfer'[p] = xfer[p]
         \/ /\ loop[t].obj = "live"
            /\ xfer'[p].state = "idle" /\ xfer'[p].tid = xfer[p].tid
            /\ xfer'[p].stream = xfer[p].stream
            /\ xfer'[p].expected = xfer[p].expected
  <2> DEFINE x == [xfer[p] EXCEPT !.state = "idle"]
  <2>1. \/ xfer' = xfer
        \/ loop[t].obj = "live" /\ xfer' = [xfer EXCEPT ![p] = x]
    BY <1>2 DEF TypeOK, SendLastChunk, Completed
  <2>2. /\ x.state = "idle" /\ x.tid = xfer[p].tid
        /\ x.stream = xfer[p].stream /\ x.expected = xfer[p].expected
    BY <1>2, XferType DEF Transfer
  <2> HIDE DEF x
  <2> QED
    BY <1>2, <2>1, <2>2 DEF TypeOK
<1>6. /\ chan'[p] = chan[p] /\ Readies(chan'[q]) \subseteq Readies(chan[q])
      /\ PeerPlace(q)'
  BY <1>1, <1>2, <1>3, <1>4, <1>5, ReceiverPlaces
<1>7. PeerPlace(p)'
  BY <1>1, <1>2, <1>4, <1>5, <1>6, SenderPlaces
<1>8. \A v \in Tid : LoopCounts(v)' /\ EmptyBefore(v)'
  BY <1>1, <1>2, <1>4, <1>5, LoopsCount
<1> QED
  BY <1>2, <1>6, <1>7, <1>8 DEF ChunksHaveOnePlace, PeerPlace, EmptyBefore

-----------------------------------------------------------------------------
(* Every chunk has one place *)

LEMMA InitPlaces == Init => ChunksHaveOnePlace
<1> SUFFICES ASSUME Init PROVE ChunksHaveOnePlace
  OBVIOUS
<1>1. ASSUME NEW p \in Peer
      PROVE  /\ xfer[p].state = "idle" /\ xfer[p].tid = NoTid
             /\ xfer[p].expected = 0 /\ xfer[p].stream = NoTid
             /\ chan[p] = <<>> /\ picker[p] = NoTid /\ low[p] = NoTid
             /\ chain[p].pc = "free"
  BY DEF Init, InitialTransferState, FreeChain
<1>2. ASSUME NEW t \in Tid
      PROVE  /\ loop[t].pc = "off" /\ loop[t].next = 1 /\ ~Started(t)
             /\ disk[t].status = "none" /\ disk[t].data = <<>>
             /\ owner[t] = NoPeer
  BY DEF Init, Started
<1>3. ASSUME NEW p \in Peer PROVE PeerPlace(p)
  <2>1. ~Incoming(p, NoTid)
    BY TidAssumption DEF Incoming
  <2>2. LoopMessages(p)
    BY <1>1 DEF LoopMessages, Headed, EndIsLast
  <2>3. StartedOnce(p)
    BY <1>1, TidAssumption DEF StartedOnce, Metas, Readies
  <2>4. ObjectStates(p) /\ HeaderThenChunk(p)
    BY <1>1, <2>1
    DEF ObjectStates, DialogState, TransferState, HandlerState, LowWaits,
        HeaderThenChunk
  <2>5. PlaceOfTransfer(p) /\ PlaceOfChunk(p) /\ ClosesWhole(p)
    BY <1>1 DEF PlaceOfTransfer, PlaceOfChunk, ClosesWhole
  <2> QED
    BY <2>2, <2>3, <2>4, <2>5 DEF PeerPlace
<1>4. ASSUME NEW t \in Tid PROVE LoopCounts(t) /\ EmptyBefore(t)
  BY <1>2 DEF LoopCounts, EmptyBefore, Holds
<1> QED
  BY <1>3, <1>4 DEF ChunksHaveOnePlace, PeerPlace, EmptyBefore

LEMMA UserPlaces ==
  ASSUME Inv, ChunksHaveOnePlace, NEW p \in Peer, User(p)
  PROVE  ChunksHaveOnePlace'
BY OfferPlaces, AcceptPlaces, PickerSavePlaces, UserCancelsPlaces DEF User

LEMMA MessageChainPlaces ==
  ASSUME Inv, ChunksHaveOnePlace, NEW p \in Peer, MessageChain(p)
  PROVE  ChunksHaveOnePlace'
BY HandleFileMetaPlaces, HandleReadyPlaces, HandleStopPlaces,
   HandleChunkHeaderPlaces, HandleBinaryChunkPlaces, DecryptDonePlaces,
   WriteDonePlaces, WriteErrorPlaces, HandleFileEndPlaces, CloseDonePlaces,
   FinishChainResetPlaces
DEF MessageChain

LEMMA SendLoopPlaces ==
  ASSUME Inv, ChunksHaveOnePlace, NEW t \in Tid, SendLoop(t)
  PROVE  ChunksHaveOnePlace'
BY ReadDonePlaces, ReadErrorPlaces, SendChunkPlaces, SendLastChunkPlaces,
   SendFailsPlaces
DEF SendLoop

LEMMA NextPlaces == Inv /\ ChunksHaveOnePlace /\ [Next]_vars => ChunksHaveOnePlace'
<1> SUFFICES ASSUME Inv, ChunksHaveOnePlace, [Next]_vars
             PROVE  ChunksHaveOnePlace'
  OBVIOUS
<1>1. ASSUME UNCHANGED vars PROVE ChunksHaveOnePlace'
  BY <1>1, PeerAssumption, HandshakeDonePlaces
<1> QED
  BY <1>1, UserPlaces, MessageChainPlaces, FinishAbortPlaces,
     BufferedAmountLowPlaces, CloseChannelPlaces, HandshakeDonePlaces,
     SendLoopPlaces
  DEF Next, Aborts

\* Every chunk that is on its way, decrypted or written has one place on the
\* disk of its receiver, and comes next there.
THEOREM ChunksCorrect == Spec => []ChunksHaveOnePlace
BY InitInv, NextInv, InitPlaces, NextPlaces, PTL DEF Spec

\* A binary chunk is only ever decrypted with the header that was sent with it.
THEOREM HeadersMatch == Spec => []HeaderMatchesChunk
<1>1. ChunksHaveOnePlace => HeaderMatchesChunk
  BY DEF ChunksHaveOnePlace, PlaceOfChunk, HeaderMatchesChunk
<1> QED
  BY <1>1, ChunksCorrect, PTL

-----------------------------------------------------------------------------
(* The receiver's disk implements FileDelivery *)

\* The files keep their chunks, and the saved ones are the same.
LEMMA DeliveryRests ==
  ASSUME UNCHANGED owner,
         \A g \in Tid : /\ disk'[g].data = disk[g].data
                        /\ disk'[g].status = "saved" <=> disk[g].status = "saved"
  PROVE  UNCHANGED Delivery!vars
BY DEF Delivery!vars

LEMMA DeliveryDrops ==
  ASSUME NEW h \in Tid, UNCHANGED owner,
         \A g \in Tid : g # h => disk'[g] = disk[g],
         disk[h].status # "saved", disk'[h].status # "saved",
         disk'[h].data = <<>>
  PROVE  Delivery!Drop(h)
<1>1. [g \in Tid |-> disk'[g].data]
        = [[g \in Tid |-> disk[g].data] EXCEPT ![h] = <<>>]
  OBVIOUS
<1>2. {g \in Tid : disk'[g].status = "saved"} = {g \in Tid : disk[g].status = "saved"}
  OBVIOUS
<1> QED
  BY <1>1, <1>2 DEF Delivery!Drop

LEMMA DeliveryOffers ==
  ASSUME Inv, NEW p \in Peer, NEW t \in Tid, Offer(p, t)
  PROVE  Delivery!Offer(p, t)
BY DEF Offer, Delivery!Offer

\* The prompt of a save dialog has no file yet.
LEMMA DeliveryOpens ==
  ASSUME Inv, NEW p \in Peer, PickerSave(p)
  PROVE  UNCHANGED Delivery!vars
<1> SUFFICES ASSUME NEW h, h = picker[p] PROVE UNCHANGED Delivery!vars
  OBVIOUS
<1> DEFINE f == [disk[h] EXCEPT !.status = "open"]
<1>1. /\ h \in Tid /\ disk[h] \in File /\ disk[h].status = "none"
      /\ UNCHANGED owner
  BY DEF PickerSave, Inv, TypeOK, FilesHaveOnePlace, OpenedOnce, Unopened
<1>2. disk' = [disk EXCEPT ![h] = f]
  BY DEF PickerSave
<1>3. f.status = "open" /\ f.data = disk[h].data
  BY <1>1 DEF File
<1> HIDE DEF f
<1>4. \A g \in Tid : /\ disk'[g].data = disk[g].data
                     /\ disk'[g].status = "saved" <=> disk[g].status = "saved"
  BY <1>1, <1>2, <1>3 DEF Inv, TypeOK
<1> QED
  BY <1>1, <1>4, DeliveryRests

LEMMA DeliveryDiscards ==
  ASSUME TypeOK, ~HasRemove, NEW p \in Peer, NEW h, Opened(p, h),
         disk' = Discarded(h), UNCHANGED owner
  PROVE  [Delivery!Next]_Delivery!vars
<1>1. CASE disk[h].status = "saved"
  BY <1>1, DeliveryRests DEF Discarded
<1>2. CASE disk[h].status # "saved"
  <2>1. /\ h \in Tid /\ \A g \in Tid : g # h => disk'[g] = disk[g]
        /\ disk'[h].status = "discarded" /\ disk'[h].data = <<>>
    BY <1>2, DiscardedData DEF Opened
  <2>2. Delivery!Drop(h)
    BY <1>2, <2>1, DeliveryDrops
  <2> QED
    BY <2>1, <2>2 DEF Delivery!Next
<1> QED
  BY <1>1, <1>2

\* The block a handler writes is the next one of its file.
LEMMA DeliveryReceives ==
  ASSUME Inv, ChunksHaveOnePlace, NEW p \in Peer, WriteDone(p)
  PROVE  [Delivery!Next]_Delivery!vars
<1> SUFFICES ASSUME NEW h, h = chain[p].handle, NEW b, b = chain[p].block,
                    NEW t, t = b[1], NEW i, i = b[2]
             PROVE  [Delivery!Next]_Delivery!vars
  OBVIOUS
<1>1. /\ chain[p].pc = "write"
      /\ disk' = [disk EXCEPT ![h].data = Append(@, b)]
      /\ UNCHANGED owner
  BY DEF WriteDone
<1>2. TypeOK /\ HandlerState(p) /\ PlaceOfChunk(p) /\ OwnFiles
  BY DEF Inv, ChunksHaveOnePlace, ObjectStates, FilesHaveOnePlace
<1>3. Opened(p, h) /\ h \in Tid /\ disk[h] \in File
  BY <1>1, <1>2 DEF HandlerState, OwnFiles, Opened, TypeOK
<1>4. /\ Incoming(p, t) /\ t \in Tid
      /\ \A g \in Tid : Holds(g, t) => g = h
      /\ disk[h].status = "open"
      /\ i \in 1..Chunks(t)
      /\ disk[h].data = Delivery!FirstChunks(t, i - 1)
      /\ b = <<t, i>>
  BY <1>1, <1>2 DEF PlaceOfChunk, Incoming, TypeOK, Handler, Block
<1>5. Chunks(t) \in Nat /\ Delivery!Chunks(t) = Chunks(t)
  BY <1>4, ChunksType DEF Delivery!Chunks, Chunks
<1>6. PICK n \in Nat : i - 1 = n /\ i = n + 1 /\ n < Chunks(t)
  BY <1>4, <1>5
<1> DEFINE f == [disk[h] EXCEPT !.data = Append(disk[h].data, b)]
<1>7. disk' = [disk EXCEPT ![h] = f]
  BY <1>1, <1>3
<1>8. f.status = "open" /\ f.data = Append(disk[h].data, b)
  BY <1>3, <1>4 DEF File
<1> HIDE DEF f
<1>9. disk'[h] = f /\ \A g \in Tid : g # h => disk'[g] = disk[g]
  BY <1>2, <1>3, <1>7 DEF TypeOK
<1>10. /\ disk[h].data = Delivery!FirstChunks(t, n) /\ Len(disk[h].data) = n
       /\ disk'[h].data = Delivery!FirstChunks(t, n + 1)
  <2>1. disk[h].data = Delivery!FirstChunks(t, n) /\ b = <<t, n + 1>>
    BY <1>4, <1>6
  <2>2. /\ Len(Delivery!FirstChunks(t, n)) = n
        /\ Append(Delivery!FirstChunks(t, n), <<t, n + 1>>)
             = Delivery!FirstChunks(t, n + 1)
    BY FirstChunksNext
  <2> QED
    BY <1>8, <1>9, <2>1, <2>2
<1>11. [g \in Tid |-> disk'[g].data]
         = [[g \in Tid |-> disk[g].data] EXCEPT ![h] = Delivery!FirstChunks(t, n + 1)]
  BY <1>3, <1>9, <1>10
<1>12. {g \in Tid : disk'[g].status = "saved"} = {g \in Tid : disk[g].status = "saved"}
  BY <1>4, <1>8, <1>9
<1>13. owner[t] # NoPeer /\ owner[t] = owner[h]
  BY <1>3, <1>4, OtherOther, NoPeerAssumption DEF Opened, Incoming
<1>14. \A g \in Tid \ {h} : disk[g].data # <<>> => disk[g].data[1][1] # t
  BY <1>4 DEF Holds
<1>15. Delivery!Receive(h, t)
  BY <1>1, <1>3, <1>4, <1>5, <1>6, <1>10, <1>11, <1>12, <1>13, <1>14
  DEF Delivery!Receive
<1> QED
  BY <1>3, <1>4, <1>15 DEF Delivery!Next

\* A file that is closed is whole; one whose close fails is dropped.
LEMMA DeliveryCloses ==
  ASSUME Inv, ChunksHaveOnePlace, NEW p \in Peer,
         NEW status \in {"saved", "broken"}, CloseDone(p, status)
  PROVE  [Delivery!Next]_Delivery!vars
<1> SUFFICES ASSUME NEW h, h = chain[p].handle
             PROVE  [Delivery!Next]_Delivery!vars
  OBVIOUS
<1>1. /\ chain[p].pc = "close" /\ UNCHANGED owner
      /\ disk' = [disk EXCEPT ![h].status = status,
                              ![h].data = IF status = "saved" THEN @ ELSE <<>>]
  BY DEF CloseDone
<1>2. TypeOK /\ ClosesWhole(p) /\ OwnFiles /\ ClosingIsOpen
  BY DEF Inv, ChunksHaveOnePlace, FilesHaveOnePlace
<1>3. h \in Tid /\ disk[h] \in File /\ disk[h].status = "open"
  BY <1>1, <1>2 DEF ClosingIsOpen, OwnFiles, Opened, TypeOK
<1> DEFINE f == [disk[h] EXCEPT !.status = status,
                                !.data = IF status = "saved" THEN disk[h].data
                                                             ELSE <<>>]
<1>4. disk' = [disk EXCEPT ![h] = f]
  BY <1>1, <1>3 DEF File
<1>5. f.status = status /\ f.data = IF status = "saved" THEN disk[h].data ELSE <<>>
  BY <1>3 DEF File
<1> HIDE DEF f
<1>6. disk'[h] = f /\ \A g \in Tid : g # h => disk'[g] = disk[g]
  BY <1>2, <1>3, <1>4 DEF TypeOK
<1>7. CASE status = "saved"
  <2>1. PICK t \in Tid : disk[h].data = Delivery!FirstChunks(t, Chunks(t))
    BY <1>1, <1>2 DEF ClosesWhole
  <2>2. Delivery!Chunks(t) = Chunks(t)
    BY DEF Delivery!Chunks, Chunks
  <2>3. [g \in Tid |-> disk'[g].data] = [g \in Tid |-> disk[g].data]
    BY <1>5, <1>6, <1>7
  <2>4. {g \in Tid : disk'[g].status = "saved"}
          = {g \in Tid : disk[g].status = "saved"} \cup {h}
    BY <1>3, <1>5, <1>6, <1>7
  <2>5. Delivery!Keep(h)
    BY <1>1, <1>3, <2>1, <2>2, <2>3, <2>4 DEF Delivery!Keep
  <2> QED
    BY <1>3, <2>5 DEF Delivery!Next
<1>8. CASE status = "broken"
  <2>1. Delivery!Drop(h)
    BY <1>1, <1>3, <1>5, <1>6, <1>8, DeliveryDrops
  <2> QED
    BY <1>3, <2>1 DEF Delivery!Next
<1> QED
  BY <1>7, <1>8

LEMMA StepDelivers ==
  ASSUME Inv, ChunksHaveOnePlace, ~HasRemove, [Next]_vars
  PROVE  [Delivery!Next]_Delivery!vars
<1>1. ASSUME UNCHANGED <<disk, owner>> PROVE [Delivery!Next]_Delivery!vars
  BY <1>1, DeliveryRests
<1>2. ASSUME NEW p \in Peer, User(p) PROVE [Delivery!Next]_Delivery!vars
  <2>1. ASSUME NEW t \in Tid, Offer(p, t) PROVE [Delivery!Next]_Delivery!vars
    BY <2>1, DeliveryOffers DEF Delivery!Next
  <2> QED
    BY <1>1, <1>2, <2>1, DeliveryOpens
    DEF User, Accept, PickerAbort, Reject, Cancel
<1>3. ASSUME NEW p \in Peer, MessageChain(p) PROVE [Delivery!Next]_Delivery!vars
  <2>1. ASSUME FinishChainReset(p) PROVE [Delivery!Next]_Delivery!vars
    <3>1. Opened(p, chain[p].handle)
      BY <2>1 DEF FinishChainReset, ChunksHaveOnePlace, ObjectStates,
                  HandlerState, Inv, FilesHaveOnePlace, OwnFiles
    <3> QED
      BY <2>1, <3>1, DeliveryDiscards DEF FinishChainReset, Inv
  <2>2. \/ UNCHANGED <<disk, owner>>
        \/ WriteDone(p) \/ FinishChainReset(p)
        \/ \E status \in {"saved", "broken"} : CloseDone(p, status)
    BY <1>3
    DEF MessageChain, HandleFileMeta, HandleReady, HandleStop,
        HandleChunkHeader, HandleBinaryChunk, DecryptDone, WriteError,
        HandleFileEnd, Dispatch
  <2> QED
    BY <1>1, <2>1, <2>2, DeliveryReceives, DeliveryCloses
<1>4. ASSUME NEW p \in Peer, NEW h \in Tid, FinishAbort(p, h)
      PROVE  [Delivery!Next]_Delivery!vars
  <2>1. Opened(p, h)
    BY <1>4 DEF FinishAbort, Inv, FilesHaveOnePlace, OwnFiles
  <2> QED
    BY <1>4, <2>1, DeliveryDiscards DEF FinishAbort, Inv
<1>5. ASSUME NEW p \in Peer,
             BufferedAmountLow(p) \/ CloseChannel(p) \/ HandshakeDone(p)
      PROVE  UNCHANGED <<disk, owner>>
  BY <1>5 DEF BufferedAmountLow, CloseChannel, HandshakeDone
<1>6. ASSUME NEW t \in Tid, SendLoop(t) PROVE UNCHANGED <<disk, owner>>
  BY <1>6 DEF SendLoop, ReadDone, ReadError, SendChunk, SendLastChunk, SendFails
<1>7. ASSUME UNCHANGED vars PROVE UNCHANGED <<disk, owner>>
  BY <1>7 DEF vars
<1> QED
  BY <1>1, <1>2, <1>3, <1>4, <1>5, <1>6, <1>7 DEF Next, Aborts

\* Where the browser has no FileSystemFileHandle.remove(), the receiver's disk
\* implements FileDelivery.
THEOREM Implements ==
  ASSUME ~HasRemove
  PROVE  Spec => DeliversWholeFiles
<1>1. Init => Delivery!Init
  BY DEF Init, Delivery!Init
<1>2. Inv /\ ChunksHaveOnePlace /\ [Next]_vars => [Delivery!Next]_Delivery!vars
  BY StepDelivers
<1>3. Spec => []Inv
  BY InitInv, NextInv, PTL DEF Spec
<1> QED
  BY <1>1, <1>2, <1>3, ChunksCorrect, PTL
  DEF Spec, DeliversWholeFiles, Delivery!Spec
=============================================================================
