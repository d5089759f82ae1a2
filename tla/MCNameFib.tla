------------------------------ MODULE MCNameFib ------------------------------
(* Instances of NameFib for TLC. *)
EXTENDS NameFib

MCHops == [face : {1, 2}, cost : {1, 2}]
=============================================================================
