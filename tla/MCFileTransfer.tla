--------------------------- MODULE MCFileTransfer ---------------------------
(***************************************************************************)
(* Instances of FileTransfer for TLC: two browsers, and two or three       *)
(* transfer ids, so that a second and a third offer can overlap the end of *)
(* an earlier transfer in either direction.  A file of two chunks has a    *)
(* first chunk that is not the last one; the other files are empty.        *)
(***************************************************************************)
EXTENDS FileTransfer, TLC

CONSTANTS a, b, t1, t2, t3

\* One file of two chunks and empty files.
OneLong == [t \in Tid |-> IF t = t1 THEN 2 ELSE 0]

\* Every file has two chunks.
AllLong == [t \in Tid |-> 2]

PeerSymmetry == Permutations(Peer)
=============================================================================
