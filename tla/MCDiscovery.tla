---------------------------- MODULE MCDiscovery ----------------------------
(***************************************************************************)
(* An instance of Discovery for TLC: two pages, of which one can connect   *)
(* twice, and two faults.                                                  *)
(***************************************************************************)
EXTENDS Discovery, TLC

CONSTANTS a, b, s1, s2, s3

PageSymmetry == Permutations(Peer) \cup Permutations(Socket)
=============================================================================
