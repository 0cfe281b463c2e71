---------------------------- MODULE MCAwsPresence ----------------------------
(***************************************************************************)
(* Instances of AwsPresence for TLC.  With two connections a peer          *)
(* reconnects, or two peers register at the same time.                     *)
(***************************************************************************)
EXTENDS AwsPresence

CONSTANTS p1, p2, c1, c2

\* One page opens c1.  The other connection is its second one, or that of the
\* other page.
OneOrTwo == [c \in Conn |-> IF c = c1 THEN {p1} ELSE Peer]
=============================================================================
