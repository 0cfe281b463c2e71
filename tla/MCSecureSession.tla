-------------------------- MODULE MCSecureSession --------------------------
(***************************************************************************)
(* Instance of SecureSession for TLC: two pages connect, and connect again *)
(* after one of them forgot the other.                                     *)
(***************************************************************************)
EXTENDS SecureSession

CONSTANTS a, b

\* One page sends two messages, so that one may overtake the other.
TwoAndNone == [p \in Peer |-> IF p = a THEN 2 ELSE 0]
=============================================================================
