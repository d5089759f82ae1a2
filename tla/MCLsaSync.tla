------------------------------ MODULE MCLsaSync ------------------------------
(***************************************************************************)
(* LsaSync with and without corridor-prioritised-routing.  The extended    *)
(* module has it on; Plain is the ordinary router, whose fetches may be    *)
(* given up.  mode is chosen at the start, as nlsr.conf is read once.      *)
(***************************************************************************)
EXTENDS LsaSync, TLC

CONSTANTS PlainMaxSeq, PlainMaxFaults, PlainMaxGiveUps   \* bounds of Plain

VARIABLE mode

Plain == INSTANCE LsaSync WITH
    Corridor <- FALSE, MaxHints <- 0, MaxSeq <- PlainMaxSeq,
    MaxFaults <- PlainMaxFaults, MaxGiveUps <- PlainMaxGiveUps

MCInit == \/ mode = "corridor" /\ Init
          \/ mode = "plain" /\ Plain!Init

MCNext == /\ UNCHANGED mode
          /\ \/ mode = "corridor" /\ Next
             \/ mode = "plain" /\ Plain!Next

MCSpec == MCInit /\ [][MCNext]_<<vars, mode>>

(* The fair steps do not depend on the mode.                               *)
MCFairSpec == MCSpec /\ Fairness

Symmetry == Permutations(Peers) \cup Permutations(Contents)
=============================================================================
