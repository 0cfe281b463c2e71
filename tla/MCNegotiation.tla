--------------------------- MODULE MCNegotiation ---------------------------
(***************************************************************************)
(* Instance of Negotiation for TLC.  Four connections are what two clicks  *)
(* at the same time make.                                                  *)
(***************************************************************************)
EXTENDS Negotiation, TLC

CONSTANTS a, b

PeerSymmetry == Permutations(Peer)
=============================================================================
