--------------------------- MODULE MCRoutingUpdate ---------------------------
(* RoutingUpdate on small instances, which the .cfg files give.            *)
EXTENDS RoutingUpdate
=============================================================================
