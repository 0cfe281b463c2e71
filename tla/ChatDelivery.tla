---------------------------- MODULE ChatDelivery ----------------------------
(***************************************************************************)
(* What the encrypted chat between two browsers promises, without keys,    *)
(* sequence numbers or channels: a message is shown at most once, in the   *)
(* order in which the other browser sent its messages, and only if it sent *)
(* it.  Messages may be lost.  SecureSession implements this.              *)
(***************************************************************************)
EXTENDS Naturals, Sequences

CONSTANTS
  Peer,      \* the two browsers
  Other(_),  \* the browser a browser chats with
  Chat       \* the messages

VARIABLES
  handed,  \* handed[p]: the messages of p, in the order they were sent
  shown    \* shown[p]: the messages of the other browser that p shows

vars == <<handed, shown>>

Init ==
  /\ handed = [p \in Peer |-> <<>>]
  /\ shown = [p \in Peer |-> <<>>]

\* No message is sent twice.
Hand(p, m) ==
  /\ \A i \in DOMAIN handed[p] : handed[p][i] # m
  /\ handed' = [handed EXCEPT ![p] = Append(@, m)]
  /\ UNCHANGED shown

\* The messages after the last one shown
Later(p) ==
  LET sent == handed[Other(p)] IN
  {i \in DOMAIN sent : \A j \in i .. Len(sent), k \in DOMAIN shown[p] :
                         shown[p][k] # sent[j]}

Show(p, i) ==
  /\ i \in Later(p)
  /\ shown' = [shown EXCEPT ![p] = Append(@, handed[Other(p)][i])]
  /\ UNCHANGED handed

Next ==
  \E p \in Peer : \/ \E m \in Chat : Hand(p, m)
                  \/ \E i \in DOMAIN handed[Other(p)] : Show(p, i)

Spec == Init /\ [][Next]_vars
=============================================================================
