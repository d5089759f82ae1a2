----------------------------- MODULE MCCorridor -----------------------------
(* Corridor with this router and one origin; the .cfg bounds the rest. *)
EXTENDS Corridor, TLC

FaceSymmetry == Permutations(Faces)
=============================================================================
