------------------------------ MODULE OwnAdjLsa ------------------------------
(***************************************************************************)
(* What HelloProtocol, AdjacencyList and the build gate of Lsdb together   *)
(* promise the rest of the network about this router's own Adjacency LSA,  *)
(* without flows, timers, retries and faces.  HelloProtocol implements it. *)
(*                                                                         *)
(* The LSA changes only to the neighbours that are ACTIVE at that moment,  *)
(* only because a neighbour's status changed since it was last built, and  *)
(* never while a mobility sweep goes on; and a change of status stays      *)
(* pending until the LSA has it.                                           *)
(***************************************************************************)
CONSTANT Nbrs

VARIABLES
    wanted,         \* adjacencies are advertised: not so under hyperbolic routing
    active,         \* the ACTIVE neighbours
    advertised,     \* the neighbours in the LSA
    pending,        \* some change of status may not be in the LSA
    frozen          \* a mobility sweep goes on

ownVars == <<wanted, active, advertised, pending, frozen>>

Init ==
    /\ wanted \in BOOLEAN
    /\ active = {} /\ advertised = {}
    /\ pending = FALSE /\ frozen = FALSE

(* At most one neighbour's status changes in a step of the event loop.     *)
StatusMayChange ==
    /\ active' \in {active} \cup UNION {{active \cup {n}, active \ {n}} : n \in Nbrs}
    /\ UNCHANGED wanted

IsDue == pending \/ (wanted /\ active' # active)

(* Sweeps begin and end at any time; what is due is remembered.            *)
Observe ==
    /\ StatusMayChange
    /\ frozen' \in BOOLEAN
    /\ pending' = IsDue
    /\ UNCHANGED advertised

(* The step that ends a sweep, or observes a change, may publish at once.  *)
Publish ==
    /\ StatusMayChange
    /\ IsDue
    /\ frozen' = FALSE
    /\ advertised' = active'
    /\ pending' = FALSE

Next == Observe \/ Publish

Spec == Init /\ [][Next]_ownVars
=============================================================================
