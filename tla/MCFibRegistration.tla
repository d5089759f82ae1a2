-------------------------- MODULE MCFibRegistration --------------------------
(***************************************************************************)
(* FibRegistration with two faces.  In the extended module one of them is  *)
(* listed at two costs; GivenUp has a single cost and enough faults for a  *)
(* registration to be given up.                                            *)
(***************************************************************************)
EXTENDS FibRegistration

MCHops == {[face |-> 1, cost |-> 1], [face |-> 1, cost |-> 2], [face |-> 2, cost |-> 1]}

VARIABLE mode

GivenUp == INSTANCE FibRegistration WITH
    Hops <- {h \in MCHops : h.cost = 1}, MaxRegFaults <- RegTries + 1, MaxUnregFaults <- 0

MCInit == mode \in {"costs", "faults"} /\ Init

MCNext == /\ UNCHANGED mode
          /\ \/ mode = "costs" /\ Next
             \/ mode = "faults" /\ GivenUp!Next

(* The fair steps do not depend on the mode.                               *)
MCLiveSpec == MCInit /\ [][MCNext]_<<vars, mode>> /\ Fairness
=============================================================================
