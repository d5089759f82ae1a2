------------------------------- MODULE MCHello -------------------------------
(* HelloProtocol with one neighbour, for liveness. *)
EXTENDS HelloProtocol

OneNbr == {1}
=============================================================================
